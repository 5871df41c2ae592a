-------------------------------- MODULE League --------------------------------
(***************************************************************************)
(* A league game: the captains' commands (parse_league() and trydefect()   *)
(* of ntserv/message.c), each run by the process of the player who sends   *)
(* it, and the daemon, which counts a game down, pauses it and ends it     *)
(* (handle_pause_goop() and move() of daemonII.c, udtourny() of tourny.c). *)
(*                                                                         *)
(* One command is one step, one Tick is one call of move().  All of them   *)
(* work on struct status2, which everybody shares.                         *)
(***************************************************************************)
EXTENDS Integers, FiniteSets

CONSTANTS
  MAXPLAYER,  \* number of slots
  NUMTEAM,    \* number of empires (4)
  WARMUP,     \* ticks of the warm-up (600)
  REGULATION, \* ticks of a game (regulation_minutes)
  RESUME,     \* ticks from the captains' agreement to the end of a pause (100)
  PausePhases, \* bound: the phases in which captains ask for a pause
  Wishes      \* bound: kinds of wishes that are outstanding at a time

ASSUME LeagueAssumption ==
  /\ MAXPLAYER \in Nat \ {0}
  /\ NUMTEAM \in Nat /\ NUMTEAM >= 2
  /\ {WARMUP, REGULATION, RESUME, Wishes} \subseteq Nat \ {0}
  /\ PausePhases \subseteq 1 .. 3

VARIABLES
  league,     \* status2->league: 1 preparation, 2 warm-up, 3 regulation play
  ticksleft,  \* status2->leagueticksleft
  awaypassed, \* status2->awaypassed
  paused,     \* status2->paused
  newgalaxy,  \* status2->newgalaxy
  team,       \* status2->home and status2->away
  players     \* of every slot: p_status (exploding, dead, choosing a ship and
              \* observing are "out"), p_homeaway and p_team

vars == <<league, ticksleft, awaypassed, paused, newgalaxy, team, players>>

Side == {"HOME", "AWAY"}
Slot == 0 .. MAXPLAYER - 1
Empire == 0 .. NUMTEAM - 1

Other(side) == IF side = "HOME" THEN "AWAY" ELSE "HOME"

LeagueTeam ==
  [index : Empire \cup {-1}, captain : Slot \cup {-1}, named : BOOLEAN, ready : BOOLEAN,
   desirepause : BOOLEAN, galaxyreset : BOOLEAN, restart : BOOLEAN]

NoTeam ==
  [index |-> -1, captain |-> -1, named |-> FALSE, ready |-> FALSE,
   desirepause |-> FALSE, galaxyreset |-> FALSE, restart |-> FALSE]

(* The rest of an empty slot is not read before it is written again.       *)
FreeSlot == [status |-> "PFREE", side |-> "HOME", team |-> -1]

(* Empires, readiness and wishes are taken back, names and captains stay.  *)
StartedOver ==
  [side \in Side |-> [team[side] EXCEPT !.index = -1, !.ready = FALSE, !.restart = FALSE]]

AnyReady == team["HOME"].ready \/ team["AWAY"].ready

(* What a captain can wish for, and has to be granted by the other.        *)
Kinds == {"desirepause", "galaxyreset", "restart"}
Outstanding == {k \in Kinds : team["HOME"][k] \/ team["AWAY"][k]}
MayWish(k) == Cardinality(Outstanding \cup {k}) <= Wishes

team_really_ready(t) == t.index >= 0 /\ t.named

(* explode_everyone() and the end of endgame_effects().                    *)
EverybodyOut ==
  [p \in Slot |-> IF players[p].status = "PALIVE" THEN [players[p] EXCEPT !.status = "out"]
                                                   ELSE players[p]]

Init ==
  /\ league = 1 /\ ticksleft = 0 /\ awaypassed = 0 /\ paused = 0
  /\ newgalaxy = FALSE
  /\ team = [side \in Side |-> NoTeam]
  /\ players = [p \in Slot |-> FreeSlot]

------------------------------------------------------------------------------
(* Players                                                                 *)

Join(p, side) ==
  /\ players[p].status = "PFREE"
  /\ players' = [players EXCEPT ![p] = [status |-> "out", side |-> side, team |-> -1]]
  /\ UNCHANGED <<league, ticksleft, awaypassed, paused, newgalaxy, team>>

(* leaguemask(): in preparation the home team flies empire 0, the away     *)
(* team empire 1.                                                          *)
leaguemask(side) ==
  IF league = 1 THEN IF side = "AWAY" THEN 1 ELSE 0 ELSE team[side].index

Enter(p) ==
  /\ players[p].status = "out"
  /\ players' = [players EXCEPT ![p].status = "PALIVE", ![p].team = leaguemask(players[p].side)]
  /\ UNCHANGED <<league, ticksleft, awaypassed, paused, newgalaxy, team>>

Die(p) ==
  /\ players[p].status = "PALIVE"
  /\ players' = [players EXCEPT ![p].status = "out"]
  /\ UNCHANGED <<league, ticksleft, awaypassed, paused, newgalaxy, team>>

(* A player quits, or another frees the slot ("league freeslot").          *)
Leave(p) ==
  /\ players[p].status # "PFREE"
  /\ players' = [players EXCEPT ![p] = FreeSlot]
  /\ UNCHANGED <<league, ticksleft, awaypassed, paused, newgalaxy, team>>

(* "league home", "league away": p moves q, perhaps himself, to side dest. *)
trydefect(p, q, dest) ==
  LET from      == Other(dest)
      iscaptain == team[from].captain = p
  IN  /\ players[p].status # "PFREE" /\ players[q].status # "PFREE"
      /\ players[q].side # dest /\ players[p].side = from
      /\ IF p = q THEN league = 1 /\ ~AnyReady ELSE iscaptain
      /\ players' = [players EXCEPT ![q].side = dest, ![q].status = "out"]
      /\ UNCHANGED <<league, ticksleft, awaypassed, paused, newgalaxy, team>>

------------------------------------------------------------------------------
(* Captains                                                                *)

(* Another player takes over from a captain who is not in the game, or     *)
(* plays for another empire ("safety valve").                              *)
TakeCaptain(p) ==
  LET side == players[p].side
      c    == team[side].captain
  IN  /\ players[p].status # "PFREE"
      /\ c # -1 => players[c].status # "PALIVE" \/ players[c].team # players[p].team
      /\ team' = [team EXCEPT ![side].captain = p]
      /\ UNCHANGED <<league, ticksleft, awaypassed, paused, newgalaxy, players>>

(* Who sends a command for his side: its captain.                          *)
Commands(p, side) ==
  /\ players[p].status # "PFREE" /\ players[p].side = side
  /\ team[side].captain = p

QuitCaptain(p, side) ==
  /\ Commands(p, side)
  /\ team' = [team EXCEPT ![side].captain = -1]
  /\ UNCHANGED <<league, ticksleft, awaypassed, paused, newgalaxy, players>>

Teamname(p, side) ==
  /\ Commands(p, side) /\ league = 1
  /\ team' = [team EXCEPT ![side].named = TRUE]
  /\ UNCHANGED <<league, ticksleft, awaypassed, paused, newgalaxy, players>>

ChooseFirst(p, side, i) ==
  /\ Commands(p, side) /\ league = 1
  /\ i # team[Other(side)].index /\ i # team[side].index
  /\ team' = [team EXCEPT ![side].index = i]
  /\ UNCHANGED <<league, ticksleft, awaypassed, paused, newgalaxy, players>>

(* "league fed" and so on.  While the other side has no empire, home       *)
(* chooses only after away has passed, and away may neither change its     *)
(* mind before home has chosen nor choose after it has passed.             *)
ChooseEmpire(p, side, i) ==
  LET my    == team[side]
      other == team[Other(side)]
  IN  /\ Commands(p, side) /\ league = 1
      /\ ~(AnyReady /\ my.index >= 0)
      /\ \/ other.index >= 0 /\ i # other.index
         \/ other.index < 0 /\ side = "HOME" /\ awaypassed # 0
         \/ /\ other.index < 0 /\ side = "AWAY"
            /\ ~(my.index >= 0 /\ awaypassed = 0) /\ awaypassed # 1
      /\ i # my.index
      /\ team' = [team EXCEPT ![side].index = i]
      /\ UNCHANGED <<league, ticksleft, awaypassed, paused, newgalaxy, players>>

(* The computer's choice when both have passed: of the empires that the    *)
(* other side has not got.                                                 *)
Drawn(h, a) ==
  /\ h # a
  /\ team["HOME"].index >= 0 => h = team["HOME"].index
  /\ team["AWAY"].index >= 0 => a = team["AWAY"].index

PassAgain(p, side) ==
  /\ Commands(p, side) /\ league = 1
  /\ side = "AWAY" => awaypassed = 0
  /\ side = "HOME" => awaypassed # 0
  /\ awaypassed' = awaypassed + 1
  /\ IF awaypassed = 0 THEN UNCHANGED team
     ELSE \E h, a \in Empire :
            Drawn(h, a) /\ team' = [team EXCEPT !["HOME"].index = h, !["AWAY"].index = a]
  /\ UNCHANGED <<league, ticksleft, paused, newgalaxy, players>>

Pass(p, side) ==
  /\ Commands(p, side) /\ league = 1
  /\ side = "AWAY" => awaypassed = 0
  /\ side = "HOME" => awaypassed = 1
  /\ awaypassed' = awaypassed + 1
  /\ IF awaypassed = 0 THEN UNCHANGED team
     ELSE \E h, a \in Empire :
            Drawn(h, a) /\ team' = [team EXCEPT !["HOME"].index = h, !["AWAY"].index = a]
  /\ UNCHANGED <<league, ticksleft, paused, newgalaxy, players>>

(* "league start 0".                                                       *)
NotReady(p, side) ==
  /\ Commands(p, side) /\ league = 1
  /\ team' = [team EXCEPT ![side].ready = FALSE]
  /\ UNCHANGED <<league, ticksleft, awaypassed, paused, newgalaxy, players>>

StartUnchecked(p, side) ==
  LET other == team[Other(side)]
  IN  /\ Commands(p, side) /\ league = 1
      /\ team' = [team EXCEPT ![side].ready = TRUE]
      /\ IF other.ready
         THEN league' = 2 /\ ticksleft' = WARMUP /\ players' = EverybodyOut
         ELSE UNCHANGED <<league, ticksleft, players>>
      /\ UNCHANGED <<awaypassed, paused, newgalaxy>>

(* "league start".  A side that is not really ready takes it back; with    *)
(* both sides ready everybody explodes and the warm-up begins.             *)
Start(p, side) ==
  LET other     == team[Other(side)]
      bothready == other.ready /\ team_really_ready(other)
  IN  /\ Commands(p, side) /\ league = 1
      /\ IF ~team_really_ready(team[side])
         THEN /\ team' = [team EXCEPT ![side].ready = FALSE]
              /\ UNCHANGED <<league, ticksleft, players>>
         ELSE /\ team' = [team EXCEPT ![side].ready = TRUE, ![Other(side)].ready = bothready]
              /\ IF bothready
                 THEN league' = 2 /\ ticksleft' = WARMUP /\ players' = EverybodyOut
                 ELSE UNCHANGED <<league, ticksleft, players>>
      /\ UNCHANGED <<awaypassed, paused, newgalaxy>>

(* "league restart": once both want it the choice of empires begins again. *)
Restart(p, side, want) ==
  LET both == want /\ team[Other(side)].restart
  IN  /\ Commands(p, side) /\ league = 1
      /\ want => MayWish("restart")
      /\ IF both
         THEN team' = StartedOver /\ awaypassed' = 0
         ELSE /\ team' = [team EXCEPT ![side].restart = want]
              /\ UNCHANGED awaypassed
      /\ UNCHANGED <<league, ticksleft, paused, newgalaxy, players>>

(* "league newgalaxy": the same, and with a new galaxy.                    *)
NewGalaxy(p, side, want) ==
  LET both == want /\ team[Other(side)].galaxyreset
  IN  /\ Commands(p, side) /\ league = 1 /\ ~AnyReady
      /\ want => MayWish("galaxyreset")
      /\ IF both
         THEN /\ team' = [s \in Side |-> [StartedOver[s] EXCEPT !.galaxyreset = FALSE]]
              /\ awaypassed' = 0 /\ newgalaxy' = TRUE
         ELSE /\ team' = [team EXCEPT ![side].galaxyreset = want]
              /\ UNCHANGED <<awaypassed, newgalaxy>>
      /\ UNCHANGED <<league, ticksleft, paused, players>>

(* "league pause", in any phase.                                           *)
Pause(p, side) ==
  /\ Commands(p, side) /\ MayWish("desirepause") /\ league \in PausePhases
  /\ team' = [team EXCEPT ![side].desirepause = TRUE]
  /\ paused' = IF team[Other(side)].desirepause THEN RESUME ELSE paused
  /\ UNCHANGED <<league, ticksleft, awaypassed, newgalaxy, players>>

Continue(p, side) ==
  /\ Commands(p, side)
  /\ team' = [team EXCEPT ![side].desirepause = FALSE]
  /\ UNCHANGED <<league, ticksleft, awaypassed, paused, newgalaxy, players>>

------------------------------------------------------------------------------
(* The daemon                                                              *)

NobodyPauses == ~team["HOME"].desirepause /\ ~team["AWAY"].desirepause

handle_pause_goop_unasked == paused' = IF paused > 0 THEN paused - 1 ELSE paused

handle_pause_goop_short == paused' = IF paused > 1 /\ NobodyPauses THEN paused - 1 ELSE paused

handle_pause_goop == paused' = IF paused > 0 /\ NobodyPauses THEN paused - 1 ELSE paused

udtournyAgain ==
  LET trem == ticksleft - 1
  IN  \/ league = 1 /\ UNCHANGED <<league, ticksleft, players>>
      \/ /\ league > 1 /\ trem <= 0
         /\ league' = 5 - league /\ ticksleft' = REGULATION /\ players' = EverybodyOut
      \/ league > 1 /\ trem > 0 /\ ticksleft' = trem /\ UNCHANGED <<league, players>>

(* udtourny() with starttourn() and endtourn(): nothing in preparation, at *)
(* the end of the warm-up or of the game the next phase, and else a tick   *)
(* less.                                                                   *)
udtourny ==
  LET trem == ticksleft - 1
  IN  \/ league = 1 /\ UNCHANGED <<league, ticksleft, players>>
      \/ league = 2 /\ trem <= 0 /\ league' = 3 /\ ticksleft' = REGULATION /\ players' = EverybodyOut
      \/ league = 3 /\ trem <= 0 /\ league' = 1 /\ ticksleft' = trem /\ players' = EverybodyOut
      \/ league > 1 /\ trem > 0 /\ ticksleft' = trem /\ UNCHANGED <<league, players>>

(* One call of move().  The game is not touched while it is paused; a new  *)
(* galaxy is made in any case.  (status->tourn follows league > 2 within a *)
(* second, see TMode.)                                                     *)
Tick ==
  /\ handle_pause_goop
  /\ IF paused' = 0 THEN udtourny ELSE UNCHANGED <<league, ticksleft, players>>
  /\ newgalaxy' = FALSE
  /\ UNCHANGED <<awaypassed, team>>

Command(p) ==
  \/ TakeCaptain(p)
  \/ \E side \in Side :
       \/ QuitCaptain(p, side) \/ Teamname(p, side) \/ Pass(p, side)
       \/ NotReady(p, side) \/ Start(p, side)
       \/ Pause(p, side) \/ Continue(p, side)
       \/ \E i \in Empire : ChooseEmpire(p, side, i)
       \/ \E want \in BOOLEAN : Restart(p, side, want) \/ NewGalaxy(p, side, want)
       \/ \E q \in Slot : trydefect(p, q, side)

Next ==
  \/ Tick
  \/ \E p \in Slot :
       \/ Command(p) \/ Enter(p) \/ Die(p) \/ Leave(p)
       \/ \E side \in Side : Join(p, side)

Spec == Init /\ [][Next]_vars

(* The interval timer goes on.                                             *)
FairSpec == Spec /\ WF_vars(Tick)

------------------------------------------------------------------------------
TypeOK ==
  /\ league \in 1 .. 3 /\ ticksleft \in Int /\ awaypassed \in 0 .. 2
  /\ paused \in 0 .. RESUME /\ newgalaxy \in BOOLEAN
  /\ team \in [Side -> LeagueTeam]
  /\ players \in [Slot -> [status : {"PFREE", "PALIVE", "out"}, side : Side,
                           team : Empire \cup {-1}]]

(* The two sides never fly for the same empire, however they chose, passed *)
(* and started over.                                                       *)
EmpiresDiffer ==
  team["HOME"].index = team["AWAY"].index => team["HOME"].index = -1

(* From the warm-up on both sides have an empire and a name: the commands  *)
(* that take an empire back are refused, and a side that was ready before  *)
(* everything was taken back is looked at again.                           *)
GameHasTeams == league > 1 => \A side \in Side : team_really_ready(team[side])

(* "The away team has first choice of empires" (README.League): home has   *)
(* one only if away has one, too, or has passed.                           *)
AwayFirst == team["HOME"].index >= 0 => team["AWAY"].index >= 0 \/ awaypassed > 0

(* While both captains want a pause there is one, also if they wanted it   *)
(* again during the countdown to the end of the last.                      *)
PauseHeld ==
  team["HOME"].desirepause /\ team["AWAY"].desirepause => paused > 0

(* What the captains have agreed on holds.                                 *)
GameInOrder == GameHasTeams /\ PauseHeld

(* A game that has begun goes on to regulation play and to its end, unless *)
(* it is paused.                                                           *)
GameGoesOn ==
  /\ (league = 2) ~> (league = 3 \/ paused > 0)
  /\ (league = 3) ~> (league = 1 \/ paused > 0)

(* A pause that nobody wants any more ends.                                *)
PauseEnds == (paused > 0 /\ NobodyPauses) ~> (paused = 0 \/ ~NobodyPauses)
==============================================================================
