-------------------------------- MODULE Robot --------------------------------
(***************************************************************************)
(* A robot (robot/robotII.c, robot/rmove.c): a process of its own that     *)
(* flies a ship with the functions of common/interface.c, once per second  *)
(* or half second (rmove), while the daemon moves and hits the ship.  What *)
(* it sees of its enemy is abstracted to how far he is and which of the    *)
(* robot's arms reach him; courses and messages are left out.              *)
(***************************************************************************)
EXTENDS Integers, FiniteSets

CONSTANTS
  Characters,    \* kinds of robot: "guard", "practice", "terminator"
  AVOID_TIME,    \* ticks for which it evades
  BOREDOM_TIME,  \* ticks without a torpedo until it becomes hostile
  MAXTORP        \* torpedoes it may have in flight

VARIABLES
  character,  \* its kind
  r_status,   \* p_status of its slot, or that the process is gone
  r_flags,    \* p_flags: SHIELD, REPAIR, CLOAK, TRACT, PRESS, ORBIT
  damaged,    \* p_damage > 0
  stopped,    \* p_speed = 0
  r_torps,    \* p_ntorp
  hostile,    \* at war with everyone
  bored,      \* clock - lastTorpped, up to BOREDOM_TIME
  avoidTime,
  fired       \* it has used its arms in its last move

vars == <<character, r_status, r_flags, damaged, stopped, r_torps, hostile, bored,
          avoidTime, fired>>

Flags == {"SHIELD", "REPAIR", "CLOAK", "TRACT", "PRESS", "ORBIT"}
Statuses == {"PEXPLODE", "PDEAD", "POUTFIT", "PALIVE", "PFREE"}

TypeOK ==
  /\ character \in Characters /\ r_status \in Statuses
  /\ r_flags \subseteq Flags /\ damaged \in BOOLEAN /\ stopped \in BOOLEAN
  /\ r_torps \in 0..MAXTORP /\ hostile \in BOOLEAN /\ bored \in 0..BOREDOM_TIME
  /\ avoidTime \in 0..AVOID_TIME /\ fired \in BOOLEAN

(* main() of robotII.c, up to the point where it is PALIVE; a galaxy that  *)
(* is already defended it leaves at once.                                  *)
Init ==
  /\ character \in Characters /\ hostile \in BOOLEAN
  /\ r_status = "PALIVE" /\ r_flags = {"SHIELD"} /\ damaged = FALSE /\ stopped = FALSE
  /\ r_torps = 0 /\ bored = 0 /\ avoidTime = 0 /\ fired = FALSE

practice == character = "practice"

-----------------------------------------------------------------------------
(* The functions of interface.c that it calls, as what they do to p_flags. *)
cloak_on(f) == (f \cup {"CLOAK"}) \ {"TRACT", "PRESS"}
shield_up(f) == (f \cup {"SHIELD"}) \ {"REPAIR"}
repairs(f) == (f \cup {"REPAIR"}) \ {"SHIELD"}
set_speed(f) == f \ {"REPAIR", "ORBIT"}
set_course(f) == f \ {"ORBIT"}
tractor(f) == IF "CLOAK" \in f THEN f ELSE f \cup {"TRACT"}
pressor(f) == IF "CLOAK" \in f THEN f ELSE f \cup {"TRACT", "PRESS"}
Openly(f) == f \ {"REPAIR", "CLOAK"}       \* repair_off(); cloak_off()

go_home(f) == set_speed(f) \ {"CLOAK"}

(* An enemy: how far ("intruding": far, but near the robot's planet), and  *)
(* which of the robot's arms reach him.                                    *)
Enemy == {e \in [dist : {"close", "near", "mid", "intruding", "far"}, tshot : BOOLEAN,
                 pshot : BOOLEAN, beam : {"press", "pull", "none"}] :
            e.dist # "close" => ~e.pshot /\ e.beam = "none"}
Distant(e) == e.dist \in {"intruding", "far"}

(* The guns: flags, torpedoes and whether it must not cloak, after them.   *)
Guns(f, n, e) ==
  LET t == e.tshot /\ n < MAXTORP
      p == e.pshot
  IN  IF practice
      THEN [flags |-> f, torps |-> IF t THEN IF n + 3 > MAXTORP THEN MAXTORP ELSE n + 3 ELSE n,
            shot |-> t]
      ELSE [flags |-> IF t \/ p THEN Openly(f) ELSE f,
            torps |-> IF t THEN IF n + 2 > MAXTORP THEN MAXTORP ELSE n + 2 ELSE n,
            shot |-> t \/ p]

(* Pressor, then tractor: the test for the tractor fails while the pressor *)
(* is on, and its other branch turns both off.                             *)
Beams(f, e) ==
  LET p == e.beam = "press"
      g == IF p THEN Openly(pressor(f)) ELSE f
      t == e.beam = "pull" /\ "PRESS" \notin g
  IN  [flags |-> IF t THEN IF "TRACT" \in g THEN g ELSE tractor(g) ELSE g \ {"TRACT", "PRESS"},
       no_cloak |-> p \/ (t /\ "TRACT" \notin g)]

(* do_repair(): the flags after it, for each planet that may be nearest;   *)
(* none when it cannot repair.                                             *)
Repair(f) ==
  IF ~damaged THEN {}
  ELSE {set_speed(f) \ {"CLOAK", "SHIELD"},                    \* on its way to a planet
        (f \ {"CLOAK", "SHIELD"}) \cup {"ORBIT"},              \* in its orbit
        IF stopped THEN repairs(f) ELSE f \ {"SHIELD"}}        \* elsewhere

Cloaked(f, no_cloak) == IF no_cloak THEN f ELSE cloak_on(f)

RunAway(f, no_cloak) == set_course((Cloaked(f, no_cloak) \ {"REPAIR", "SHIELD"}))

Attack(f, e, no_cloak) ==
  IF e.dist # "far" \/ hostile
  THEN set_speed(shield_up(IF e.dist = "close" THEN Cloaked(f, no_cloak) ELSE f))
  ELSE go_home(f)

(* Stars and, unless it practises, torpedoes: the moves that end the tick. *)
(* many: the enemy has five or more torpedoes in flight.                   *)
Evades(f, e, no_cloak, many) ==
  {[flags |-> f, avoid |-> avoidTime]} \cup
  (IF practice \/ (Distant(e) /\ (many \/ avoidTime = 0)) THEN {}
   ELSE (IF avoidTime > 1 THEN {[flags |-> f, avoid |-> avoidTime - 1]} ELSE {}) \cup
        (IF many THEN IF avoidTime > 1 THEN {}
                      ELSE {[flags |-> shield_up(f), avoid |-> AVOID_TIME]}
         ELSE {[flags |-> shield_up(Cloaked(set_course(f), no_cloak)), avoid |-> AVOID_TIME]}))

(* What it does when it need not evade.                                    *)
Moves(f, e, no_cloak) ==
  IF damaged /\ e.dist \in {"close", "near"} THEN {RunAway(f, no_cloak)}
  ELSE Repair(f) \cup {Attack(f, e, no_cloak)}

-----------------------------------------------------------------------------
(* One tick of rmove() for a robot that is neither exploding nor dead.     *)

Flying == r_status \in {"PALIVE", "POUTFIT"}

(* Mutant: the result is not returned.                                     *)
phaser_plasmasNoReturn(plasma) ==
  [flags |-> IF plasma THEN Openly(r_flags) ELSE r_flags, shot |-> FALSE]

(* It phasers a plasma torpedo near it, if there is one.                   *)
phaser_plasmas(plasma) ==
  [flags |-> IF plasma THEN Openly(r_flags) ELSE r_flags, shot |-> plasma]

Bores == bored = BOREDOM_TIME /\ ~practice
Longer == IF bored = BOREDOM_TIME THEN bored ELSE bored + 1

Leaves ==
  r_status' = "PFREE" /\ r_flags' = {} /\ damaged' = FALSE /\ stopped' = TRUE /\ r_torps' = 0

(* Unless it is sticky (-s), it leaves when no human is left, and explodes *)
(* when its target has died; when its target has gone, in any case.        *)
Gives ==
  /\ Flying
  /\ \/ Leaves
     \/ /\ character = "terminator" /\ r_status' = "PEXPLODE"
        /\ UNCHANGED <<r_flags, damaged, stopped, r_torps>>
  /\ fired' = FALSE
  /\ UNCHANGED <<character, hostile, bored, avoidTime>>

Ticks ==
  /\ hostile' = (hostile \/ Bores)
  /\ UNCHANGED <<character, r_status, damaged, stopped>>

(* Nobody there, or nobody it is at war with.                              *)
Idle ==
  /\ Flying
  /\ \E plasma \in BOOLEAN :
       LET p == phaser_plasmas(plasma)
       IN  /\ r_flags' \in Repair(p.flags) \cup {go_home(p.flags)}
           /\ fired' = plasma
  /\ bored' = Longer
  /\ Ticks
  /\ UNCHANGED <<r_torps, avoidTime>>

Fights ==
  /\ Flying
  /\ \E plasma, many \in BOOLEAN, e \in Enemy :
       LET p == phaser_plasmas(plasma)
           g == Guns(p.flags, r_torps, e)
           b == Beams(g.flags, e)
           no_cloak == p.shot \/ practice \/ g.shot \/ b.no_cloak
       IN  /\ r_torps' = g.torps
           /\ fired' = (plasma \/ g.shot)
           /\ bored' = IF g.torps > r_torps /\ ~practice THEN 0 ELSE Longer
           /\ \/ \E v \in Evades(b.flags, e, no_cloak, many) : r_flags' = v.flags /\ avoidTime' = v.avoid
              \/ /\ practice \/ IF many THEN Distant(e) ELSE avoidTime <= 1
                 /\ r_flags' \in Moves(b.flags, e, no_cloak)
                 /\ avoidTime' = IF avoidTime > 0 /\ ~practice /\ ~many THEN avoidTime - 1 ELSE avoidTime
  /\ Ticks

-----------------------------------------------------------------------------
(* The daemon, between the robot's ticks; it does not drop the cloak of a  *)
(* robot that fires.                                                       *)
Daemon ==
  /\ r_status # "PFREE"
  /\ \/ r_torps > 0 /\ r_torps' = r_torps - 1 /\ UNCHANGED <<r_status, r_flags, damaged, stopped>>
     \/ /\ r_status = "PALIVE"
        /\ r_status' \in {"PALIVE", "PEXPLODE", "POUTFIT"}
        /\ damaged' \in BOOLEAN /\ stopped' \in BOOLEAN
        /\ r_flags' \in {r_flags, r_flags \ {"CLOAK"}, r_flags \ {"TRACT", "PRESS"}}
        /\ UNCHANGED r_torps
     \/ /\ r_status = "PEXPLODE" /\ r_status' = "PDEAD"
        /\ UNCHANGED <<r_flags, damaged, stopped, r_torps>>
  /\ fired' = FALSE
  /\ UNCHANGED <<character, hostile, bored, avoidTime>>

(* rmove() finds that it explodes or is dead: exitRobot(), after six       *)
(* seconds if it explodes.                                                 *)
exitRobot ==
  /\ r_status \in {"PEXPLODE", "PDEAD"}
  /\ Leaves
  /\ fired' = FALSE
  /\ UNCHANGED <<character, hostile, bored, avoidTime>>

Next == Gives \/ Idle \/ Fights \/ Daemon \/ exitRobot

Spec == Init /\ [][Next]_vars

-----------------------------------------------------------------------------
(* A robot that has fired in this tick is not cloaked after it, whatever   *)
(* else it did ("We will lose repair and cloaking for the rest of this     *)
(* interrupt if we fire here", rmove.c).                                   *)
FiresOpenly == fired => "CLOAK" \notin r_flags

(* A robot that holds somebody in its tractor is not cloaked, one that     *)
(* practises never is, and none repairs behind its shields.                *)
ModesApart ==
  /\ "TRACT" \in r_flags => "CLOAK" \notin r_flags
  /\ practice => "CLOAK" \notin r_flags
  /\ ~("REPAIR" \in r_flags /\ "SHIELD" \in r_flags)

RobotSound == FiresOpenly /\ ModesApart
=============================================================================
