---------------------------------- MODULE Outfit ----------------------------------
(***************************************************************************)
(* How players come into the game: the outfit loop of each process         *)
(* (ntserv/getentry.c: getEntry, tournamentMask; ntserv/main.c: main;      *)
(* common/enter.c: enter), the limits of ships per team                    *)
(* (common/interface.c: allowed_ship), refits (do_refit), and the daemon's *)
(* building times (daemon/player.c: doshipexplode; daemon/daemonII.c:      *)
(* shipbuild_timers).                                                      *)
(*                                                                         *)
(* A process reads what the others have and writes its own ship in a later *)
(* step, so two may be granted the last ship; while a refit is decided the *)
(* ship of the player is hidden; a ship that explodes is not counted any   *)
(* more and is not yet being built anew; and who has asked for a           *)
(* mass-produced ship first is not limited at all.  Each of these can be   *)
(* left out with Loopholes.  Leagues, ranks, planets, testers and the      *)
(* limits on defenders and planets are left out; a dead team has no planet.*)
(***************************************************************************)
EXTENDS Integers, FiniteSets, FiniteSetsExt

CONSTANTS
  Pilot, Sides,                  \* the players, and the teams in the order of their numbers
  tournplayers,
  Limited, Ported,               \* types of ships of which a team may have one, those of them with ports
  s_timer,
  Loopholes                      \* of "at once", "refit", "explosion", "mass-produced"

ALLTEAM == "ALLTEAM"
Teams == {Sides[i] : i \in DOMAIN Sides}
Types == Limited \cup {"CRUISER", "PATROL"}   \* PATROL is mass-produced

VARIABLES
  state,                         \* p_status: "POUTFIT", "chosen" (in outfit, with his ship granted), "PALIVE",
                                 \* "deciding", "decided" (alive, in a refit), "PEXPLODE", "PDEAD"
  side, s_type,                  \* p_team, and the type of ship he has or is granted
  hidden,                        \* p_ship.s_type is -1 for a refit
  tmpPick,                       \* shipvals[tmpPick] is mass-produced
  switching, killed,             \* the team he was asked to confirm; the enemy has killed him
  tourn, dead,                   \* tournament mode; the teams without planets
  s_turns                        \* per team and type: minutes until it is built

vars == <<state, side, s_type, hidden, tmpPick, switching, killed, tourn, dead, s_turns>>
mine == <<state, side, s_type, hidden, tmpPick, switching, killed>>

Init ==
  /\ state = [p \in Pilot |-> "POUTFIT"] /\ side = [p \in Pilot |-> ALLTEAM]
  /\ s_type = [p \in Pilot |-> "CRUISER"] /\ hidden = {} /\ tmpPick = {}
  /\ switching = [p \in Pilot |-> ALLTEAM] /\ killed = {}
  /\ tourn \in BOOLEAN /\ dead = {}
  /\ s_turns = [k \in Teams \X Limited |-> 0]

Living == {"PALIVE", "deciding", "decided"}
Choosing == {"chosen", "deciding", "decided"}

-----------------------------------------------------------------------------
(* tournamentMask(): the teams a player may join.  realNumShips() counts   *)
(* everybody who has not left, in outfit too.                              *)

realNumShips(t) == Cardinality({p \in Pilot : side[p] = t})
Alive == Teams \ dead
IsBig(t) == t \in Alive /\ realNumShips(t) >= tournplayers
Bigs == {i \in DOMAIN Sides : IsBig(Sides[i])}

Own(t) == (IF t = ALLTEAM \/ t \in dead THEN Teams ELSE {t}) \ dead

BalancedOthers(own, t1, t2) ==   \* mutant: who is on the larger team has to leave it
  LET n1 == realNumShips(t1)
      n2 == realNumShips(t2)
  IN  CASE n1 = n2 -> IF own \cap {t1, t2} # {} THEN own \cap {t1, t2} ELSE {t1, t2}
        [] n1 > n2 -> {t2}
        [] n1 < n2 -> {t1}

Balanced(own, t1, t2) ==
  LET n1 == realNumShips(t1)
      n2 == realNumShips(t2)
  IN  CASE n1 = n2 -> IF own \cap {t1, t2} # {} THEN own \cap {t1, t2} ELSE {t1, t2}
        [] n1 > n2 /\ own # {t1} -> {t2}
        [] n1 < n2 /\ own # {t2} -> {t1}
        [] OTHER -> IF n1 - n2 \in {-1, 1} THEN own ELSE {t1, t2}

tournamentMask(t) ==
  IF ~tourn THEN Teams
  ELSE IF Cardinality(Bigs) < 2 THEN Own(t)
  ELSE LET one == Min(Bigs)
       IN  Balanced(Own(t), Sides[one], Sides[Min(Bigs \ {one})])

-----------------------------------------------------------------------------
(* allowed_ship() *)

Has(p, t, s) == state[p] \in Living /\ p \notin hidden /\ side[p] = t /\ s_type[p] = s
shipcount(t, s) == Cardinality({p \in Pilot : Has(p, t, s)})

allowed_shipAlways(p, t, s) ==   \* mutant: a ship that is being built may be had
  s \in Limited /\ p \notin tmpPick => shipcount(t, s) < 1

allowed_ship(p, t, s) ==
  s \in Limited /\ p \notin tmpPick => shipcount(t, s) < 1 /\ s_turns[<<t, s>>] <= -shipcount(t, s) * s_timer

(* Without the loopholes nobody else decides, or explodes, at this time.   *)
Alone(p, t) ==
  /\ "at once" \in Loopholes \/ \A q \in Pilot \ {p} : state[q] \notin {"chosen", "decided"}
  /\ "refit" \in Loopholes \/ \A q \in Pilot \ {p} : state[q] # "deciding"
  /\ "explosion" \in Loopholes \/ \A q \in Pilot \ {p} : state[q] # "PEXPLODE" \/ side[q] # t

(* getEntry(), one round of its loop: his choice of team t and ship s is   *)
(* refused, has to be confirmed, or is granted.                            *)

Confirm(p, t) ==
  /\ t # side[p] /\ side[p] # ALLTEAM /\ switching[p] # t
  /\ switching' = [switching EXCEPT ![p] = t]
  /\ UNCHANGED <<state, side, s_type, hidden, tmpPick, killed>>

Granted(p, t, s) ==
  /\ t = side[p] \/ side[p] = ALLTEAM \/ switching[p] = t
  /\ allowed_ship(p, t, s)
  /\ IF s = "PATROL"
     THEN /\ "mass-produced" \in Loopholes
          /\ tmpPick' = tmpPick \cup {p} /\ UNCHANGED <<state, side, s_type, switching>>
     ELSE /\ state' = [state EXCEPT ![p] = "chosen"]
          /\ s_type' = [s_type EXCEPT ![p] = IF p \in tmpPick /\ s \in Ported THEN "PATROL" ELSE s]
          /\ tmpPick' = tmpPick \ {p}
          /\ switching' = [switching EXCEPT ![p] = t] /\ UNCHANGED side
  /\ UNCHANGED <<hidden, killed>>

getEntry(p) ==
  /\ state[p] = "POUTFIT"
  /\ \E t \in tournamentMask(side[p]), s \in Types :
       /\ Alone(p, t)
       /\ Confirm(p, t) \/ Granted(p, t, s)
  /\ UNCHANGED <<tourn, dead, s_turns>>

(* enter(): team and ship are set, and main() lets him fly.                *)
enter(p) ==
  /\ state[p] = "chosen"
  /\ state' = [state EXCEPT ![p] = "PALIVE"]
  /\ side' = [side EXCEPT ![p] = switching[p]]
  /\ switching' = [switching EXCEPT ![p] = ALLTEAM]
  /\ UNCHANGED <<s_type, hidden, tmpPick, killed, tourn, dead, s_turns>>

(* do_refit(): his own ship is hidden while allowed_ship() looks.          *)
RefitAsked(p) ==
  /\ state[p] = "PALIVE" /\ Alone(p, side[p])
  /\ state' = [state EXCEPT ![p] = "deciding"] /\ hidden' = hidden \cup {p}
  /\ UNCHANGED <<side, s_type, tmpPick, switching, killed, tourn, dead, s_turns>>

RefitDecided(p) ==
  /\ state[p] = "deciding"
  /\ hidden' = hidden \ {p}
  /\ \/ state' = [state EXCEPT ![p] = "PALIVE"]
     \/ /\ Alone(p, side[p])
        /\ \E s \in Types \ {"PATROL"} : allowed_ship(p, side[p], s) /\ switching' = [switching EXCEPT ![p] = s]
        /\ state' = [state EXCEPT ![p] = "decided"]
  /\ (state'[p] = "PALIVE" => UNCHANGED switching)
  /\ UNCHANGED <<side, s_type, tmpPick, killed, tourn, dead, s_turns>>

Refitted(p) ==
  /\ state[p] = "decided"
  /\ state' = [state EXCEPT ![p] = "PALIVE"]
  /\ s_type' = [s_type EXCEPT ![p] = switching[p]] /\ switching' = [switching EXCEPT ![p] = ALLTEAM]
  /\ UNCHANGED <<side, hidden, tmpPick, killed, tourn, dead, s_turns>>

-----------------------------------------------------------------------------
(* The daemon. *)

Destroyed(p) ==
  /\ state[p] = "PALIVE"
  /\ "explosion" \in Loopholes \/ \A q \in Pilot : state[q] \notin Choosing
  /\ state' = [state EXCEPT ![p] = "PEXPLODE"]
  /\ \E enemy \in BOOLEAN : killed' = IF enemy THEN killed \cup {p} ELSE killed \ {p}
  /\ UNCHANGED <<side, s_type, hidden, tmpPick, switching, tourn, dead, s_turns>>

(* doshipexplode(), the last time: what the enemy has killed is built      *)
(* again, in a tournament.                                                 *)
doshipexplode(p) ==
  /\ state[p] = "PEXPLODE"
  /\ state' = [state EXCEPT ![p] = "PDEAD"]
  /\ s_turns' = IF p \in killed /\ tourn /\ s_type[p] \in Limited
                THEN [s_turns EXCEPT ![<<side[p], s_type[p]>>] = @ + s_timer] ELSE s_turns
  /\ UNCHANGED <<side, s_type, hidden, tmpPick, switching, killed, tourn, dead>>

(* death(): back to the outfit loop; who was not killed by the enemy has   *)
(* to leave, and somebody else comes.  (Nobody looks at his old ship now.)  *)
Outfits(p) ==
  /\ state[p] = "PDEAD"
  /\ state' = [state EXCEPT ![p] = "POUTFIT"]
  /\ side' = IF p \in killed THEN side ELSE [side EXCEPT ![p] = ALLTEAM]
  /\ s_type' = [s_type EXCEPT ![p] = "CRUISER"] /\ killed' = killed \ {p}
  /\ UNCHANGED <<hidden, tmpPick, switching, tourn, dead, s_turns>>

shipbuild_timers ==
  /\ \E k \in DOMAIN s_turns : s_turns[k] > 0
  /\ s_turns' = [k \in DOMAIN s_turns |-> IF s_turns[k] > 0 THEN s_turns[k] - 1 ELSE s_turns[k]]
  /\ UNCHANGED <<mine, tourn, dead>>

Conquered ==
  /\ \E t \in Alive : Alive # {t} /\ dead' = dead \cup {t}
  /\ UNCHANGED <<mine, tourn, s_turns>>

Next ==
  \/ \E p \in Pilot :
       \/ getEntry(p) \/ enter(p) \/ RefitAsked(p) \/ RefitDecided(p) \/ Refitted(p)
       \/ Destroyed(p) \/ doshipexplode(p) \/ Outfits(p)
  \/ shipbuild_timers \/ Conquered

Spec == Init /\ [][Next]_vars

-----------------------------------------------------------------------------
Lost(t, s) ==
  {p \in Pilot : state[p] = "PEXPLODE" /\ p \in killed /\ tourn /\ side[p] = t /\ s_type[p] = s}

(* For each ship of a limited type that a team has, has lost or is         *)
(* building there is a place in its limit.                                 *)
LimitKept ==
  \A t \in Teams, s \in Limited :
    Cardinality({p \in Pilot : state[p] \in Living /\ side[p] = t /\ s_type[p] = s} \cup Lost(t, s)) * s_timer
      + s_turns[<<t, s>>] <= s_timer

(* "maximum number of these per team"                                      *)
ShipLimit ==
  \A t \in Teams, s \in Limited :
    Cardinality({p \in Pilot : state[p] \in Living /\ side[p] = t /\ s_type[p] = s}) <= 1

(* Who comes back to a tournament may rejoin his team, while it lives, if  *)
(* it is one of the two that play.                                         *)
MayRejoin ==
  \A p \in Pilot :
    tourn /\ state[p] = "POUTFIT" /\ side[p] \in Alive /\ Cardinality(Bigs) <= 2
      /\ (Cardinality(Bigs) = 2 => IsBig(side[p]))
    => side[p] \in tournamentMask(side[p])
=============================================================================
