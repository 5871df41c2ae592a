------------------------------- MODULE Conquest -------------------------------
(***************************************************************************)
(* Who owns the galaxy: the teams' planet counts, the surrender clocks and *)
(* the end of a game (daemon/conquer.c).  A planet that changes hands      *)
(* calls checkwin() in the same step; every minute udsurrend() counts the  *)
(* clocks down and may neutralize an empire.  How a planet changes hands   *)
(* is left open here; Planets says it, and implements this module.         *)
(*                                                                         *)
(* Everything is done by the daemon, one call at a time; the players who   *)
(* come and go decide which two teams are looked at.                       *)
(***************************************************************************)
EXTENDS Integers, FiniteSets

CONSTANTS
  Player,
  Planet,
  SURRSTART,       \* planets at which the collapse of an empire starts (4)
  SURREND,         \* planets that stop it (7)
  SURRLENGTH,      \* minutes it takes (25)
  tournplayers,    \* players a team needs (5)
  victory_planets  \* planets with which a team has lost (0)

ASSUME ConquestAssumption ==
  /\ IsFiniteSet(Player) /\ IsFiniteSet(Planet)
  /\ {SURRSTART, SURREND, tournplayers, victory_planets} \subseteq Nat
  /\ SURRLENGTH \in Nat \ {0}

VARIABLES
  pteam, \* of every slot p_team, or "free" if its p_status is PFREE
  tourn, \* status->tourn
  galaxy \* the owners of the planets; of every team s_plcount, s_plcountold and
         \* s_surrender; and who has conquered whom, once the game is up

cvars == <<pteam, tourn, galaxy>>

Team == {"FED", "ROM", "KLI", "ORI"}
Owner == Team \cup {"NOBODY"}
NoVictor == [winners |-> "NOBODY", losers |-> "NOBODY"]

Owned(owner, t) == {l \in Planet : owner[l] = t}
Planets(owner) == [t \in Team |-> Cardinality(Owned(owner, t))]

Galaxies ==
  [owner : [Planet -> Owner], plcount : [Team -> Nat], plcountold : [Team -> Nat],
   surrender : [Team -> Int], victor : [winners : Owner, losers : Owner]]

gameup == galaxy.victor = NoVictor

realNumShips(t) == Cardinality({p \in Player : pteam[p] = t})
Ready(t) == realNumShips(t) >= tournplayers

-----------------------------------------------------------------------------
(* checkwin() *)

(* refresh_team_planetcounts().  The planets changed hands before.         *)
Refreshed(g) == [g EXCEPT !.plcount = Planets(g.owner), !.plcountold = g.plcount]

Sorted(s, t) == IF realNumShips(s) < realNumShips(t) THEN <<t, s>> ELSE <<s, t>>

(* The two teams with the most ships, as genocide() finds them.            *)
Biggest ==
  LET two   == Sorted("FED", "ROM")
      three == IF realNumShips("KLI") > realNumShips(two[2]) THEN Sorted(two[1], "KLI") ELSE two
  IN  IF realNumShips("ORI") > realNumShips(three[2]) THEN <<three[1], "ORI">> ELSE three

RankedByShips(g, two) == two   \* mutant

(* They are then put in the order of their planets, the winners first.     *)
Ranked(g, two) == IF g.plcount[two[1]] < g.plcount[two[2]] THEN <<two[2], two[1]>> ELSE two

PreventedByCount(g, t, others) == g.surrender[t] > 0 /\ g.plcount[t] >= SURREND   \* mutant

Prevented(g, t, others) ==
  /\ g.surrender[t] > 0
  /\ g.plcount[t] >= SURREND \/ g.plcount[t] * 2 > others

Begins(g, t, others) ==
  /\ g.surrender[t] = 0
  /\ g.plcount[t] <= SURRSTART /\ g.plcount[t] * 2 <= others
  /\ Ready(t)
  /\ g.plcount[t] < g.plcountold[t]

checksurrender(g, t, others) ==
  IF Prevented(g, t, others) THEN [g EXCEPT !.surrender[t] = 0]
  ELSE IF Begins(g, t, others) THEN [g EXCEPT !.surrender[t] = SURRLENGTH]
  ELSE g

genocide(g, two) == \E i \in 1 .. 2 : g.plcount[two[i]] <= victory_planets

(* The effects on the players who are thrown out are in TMode and Docking. *)
endgame_effects(g, t1, t2) ==
  [Refreshed(g) EXCEPT !.surrender[t1] = 0, !.surrender[t2] = 0,
                       !.victor = [winners |-> t1, losers |-> t2]]

checkwin(g) ==
  LET r   == Refreshed(g)
      two == Ranked(r, Biggest)
      s   == checksurrender(checksurrender(r, two[1], r.plcount[two[2]]), two[2], r.plcount[two[1]])
  IN  IF genocide(r, two) THEN endgame_effects(s, two[1], two[2]) ELSE s

-----------------------------------------------------------------------------
(* udsurrend() *)

Neutralized(g, t) ==
  [g EXCEPT !.owner = [l \in Planet |-> IF @[l] = t THEN "NOBODY" ELSE @[l]]]

MinuteUncounted(g, t) ==   \* mutant: nobody counts the planets that were given up
  IF g.victor # NoVictor \/ g.surrender[t] = 0 \/ ~Ready(t) \/ g.plcount[t] > SURRSTART THEN g
  ELSE IF g.surrender[t] - 1 > 0 THEN [g EXCEPT !.surrender[t] = @ - 1]
  ELSE Neutralized([g EXCEPT !.surrender[t] = -1], t)

MinuteOffByOne(g, t) ==   \* mutant: the clock rests at SURRSTART planets
  IF \/ g.victor # NoVictor
     \/ g.surrender[t] = 0 \/ ~Ready(t) \/ g.plcount[t] >= SURRSTART
  THEN g
  ELSE IF g.surrender[t] - 1 > 0 THEN [g EXCEPT !.surrender[t] = @ - 1]
  ELSE checkwin(Neutralized([g EXCEPT !.surrender[t] = -1], t))

(* A clock that has run out is set to -1, and never to 0 again while the   *)
(* game goes on: the team surrenders anew in every minute.                 *)
Minute(g, t) ==
  IF \/ g.victor # NoVictor  \* the daemon has exited
     \/ g.surrender[t] = 0 \/ ~Ready(t) \/ g.plcount[t] > SURRSTART
  THEN g
  ELSE IF g.surrender[t] - 1 > 0 THEN [g EXCEPT !.surrender[t] = @ - 1]
  ELSE checkwin(Neutralized([g EXCEPT !.surrender[t] = -1], t))

Surrender(g) == Minute(Minute(Minute(Minute(g, "FED"), "ROM"), "KLI"), "ORI")

-----------------------------------------------------------------------------
(* A new galaxy finds the players of the last one in their slots.          *)
Init ==
  /\ pteam \in [Player -> Owner \cup {"free"}]
  /\ tourn = FALSE
  /\ \E owner \in [Planet -> Owner] :
       galaxy = [owner |-> owner, plcount |-> [t \in Team |-> 0],
                 plcountold |-> [t \in Team |-> 0], surrender |-> [t \in Team |-> 0],
                 victor |-> NoVictor]

(* A planet passes from a team to nobody, or from nobody to a team.  (A    *)
(* planet without armies that fails to grow is given to nobody again.)     *)
Pass(l, o) ==
  /\ gameup /\ "NOBODY" \in {o, galaxy.owner[l]}
  /\ galaxy' = checkwin([galaxy EXCEPT !.owner[l] = o])
  /\ UNCHANGED <<pteam, tourn>>

udsurrend ==
  /\ gameup /\ tourn
  /\ galaxy' = Surrender(galaxy)
  /\ UNCHANGED <<pteam, tourn>>

(* A player chooses a team, changes it or leaves.                          *)
Change(p, t) ==
  /\ gameup /\ pteam[p] # t
  /\ pteam' = [pteam EXCEPT ![p] = t]
  /\ UNCHANGED <<tourn, galaxy>>

(* tournamentMode() and udtourny(), whose delays are modelled in TMode.    *)
udtourny ==
  /\ gameup
  /\ tourn' = (Cardinality({t \in Team : Ready(t)}) >= 2)
  /\ UNCHANGED <<pteam, galaxy>>

Next ==
  \/ \E p \in Player, t \in Owner \cup {"free"} : Change(p, t)
  \/ udtourny
  \/ udsurrend
  \/ \E l \in Planet, o \in Owner : Pass(l, o)

Spec == Init /\ [][Next]_cvars

(* The daemon's minutes go by: weak fairness of udsurrend, with the        *)
(* condition under which it changes anything written out.                  *)
Ripe == gameup /\ tourn /\ Surrender(galaxy) # galaxy
Minutes == []<>~Ripe \/ []<><<udsurrend>>_cvars
FairSpec == Spec /\ Minutes

-----------------------------------------------------------------------------
(* The counts that checkwin(), the clocks and the final assessment go by   *)
(* are those of the planets, since the first planet that changed hands:    *)
(* no planet is lost, taken, freed or neutralized without a recount.       *)
CountsFresh ==
  \/ galaxy.plcount = Planets(galaxy.owner)
  \/ /\ galaxy.plcount = [t \in Team |-> 0] /\ galaxy.surrender = [t \in Team |-> 0]
     /\ gameup

(* The game ends for a loser who has no more than victory_planets planets  *)
(* and a winner who has at least as many as the loser.                     *)
LoserHasLost ==
  ~gameup =>
    LET v == galaxy.victor IN
    /\ v.winners \in Team /\ v.losers \in Team \ {v.winners}
    /\ galaxy.plcount[v.losers] <= victory_planets
    /\ galaxy.plcount[v.losers] <= galaxy.plcount[v.winners]

(* When a planet has changed hands, the clock of a team in the game runs   *)
(* only while the team is short of planets and has at most half of its     *)
(* enemy's.  (The clock of a third team may run on, see the README.)       *)
ClockJustified ==
  [][galaxy'.owner # galaxy.owner =>
       \A i \in 1 .. 2 :
         LET t == Biggest[i]
             e == Biggest[3 - i]
         IN  galaxy'.surrender[t] > 0 => /\ galaxy'.plcount[t] < SURREND
                                         /\ galaxy'.plcount[t] * 2 <= galaxy'.plcount[e]]_cvars

(* A team whose clock runs, and that from then on has no more than         *)
(* SURRSTART planets and players enough, collapses.                        *)
Shrunk(t) == tourn /\ Ready(t) /\ galaxy.plcount[t] <= SURRSTART
CollapseComes ==
  \A t \in Team : (galaxy.surrender[t] > 0 /\ []Shrunk(t)) ~> galaxy.surrender[t] <= 0

(* A team that has surrendered does not surrender again, whatever planets  *)
(* it takes afterwards ("otherwise it announces surrender again",          *)
(* conquer.c 302-303).                                                     *)
SurrendersOnce ==
  [][udsurrend => \A t \in Team : galaxy.surrender[t] < 0 =>
        Owned(galaxy'.owner, t) = Owned(galaxy.owner, t)]_cvars
===============================================================================
