--------------------------------- MODULE Snake ---------------------------------
(***************************************************************************)
(* The space snake (snake/snake.c, snake/snakemove.c): a process that      *)
(* holds two player slots, whose body are their torpedoes and whose eyes   *)
(* are two plasmas.  At every alarm it moves the body, makes anew what the *)
(* daemon (daemon/weapons.c: udtorps, udplasmatorps) has exploded and      *)
(* freed, and, when an eye was hit, chases its killer and explodes one     *)
(* segment after the other.  Places, courses and prizes are left out; to   *)
(* be at war is to be at war with the player the snake hunts.              *)
(***************************************************************************)
EXTENDS Integers, FiniteSets

CONSTANTS
  length,
  Guard,                         \* plan_guard: the snake guards planets and its eyes are restored
  Chase, Linger                  \* 40 and 56 alarms in the code

Half == {1, 2}                   \* perfs[0] and perfs[1]
Segment == Half \X (1 .. length)

VARIABLES
  phase,                         \* "new" (s_clock < 5), "moving", "exploding", "gone"
  body, eye,                     \* t_status and pt_status; 10 cycles of an explosion are one
  p_ntorp, p_nplasmatorp,
  war, hunting,                  \* the segments at war; target > -1
  explodetorps, tfuse, age,      \* age: s_clock - explode
  killer                         \* "none", "target", "other"

vars == <<phase, body, eye, p_ntorp, p_nplasmatorp, war, hunting, explodetorps, tfuse, age, killer>>

Init ==
  /\ phase = "new"
  /\ body = [s \in Segment |-> "TFREE"] /\ eye = [h \in Half |-> "PTFREE"]
  /\ p_ntorp = [h \in Half |-> 0] /\ p_nplasmatorp = [h \in Half |-> 0]
  /\ war = {} /\ hunting = FALSE
  /\ explodetorps = 0 /\ tfuse = 0 /\ age = 0 /\ killer = "none"

Body(h) == {s \in Segment : s[1] = h}
Free == {s \in Segment : body[s] = "TFREE"}

-----------------------------------------------------------------------------
(* snake_torp() for the segments S; n is what is counted already.          *)
MadeUncounted(S, n) == n         \* mutant: p_ntorp is not raised
Made(S, n) == [h \in Half |-> n[h] + Cardinality(S \cap Body(h))]

snake_torp(S, n) ==
  /\ body' = [s \in Segment |-> IF s \in S THEN "TMOVE" ELSE body[s]]
  /\ p_ntorp' = Made(S, n)

startsnake ==
  /\ phase = "new" /\ phase' = "moving"
  /\ snake_torp(Segment, [h \in Half |-> 0])
  /\ eye' = [h \in Half |-> "PTMOVE"] /\ p_nplasmatorp' = [h \in Half |-> 1]
  /\ war' = {}
  /\ UNCHANGED <<hunting, explodetorps, tfuse, age, killer>>

(* exitSnake(): the weapons are switched off, the players zeroed.          *)
exitSnake ==
  /\ phase' = "gone"
  /\ body' = [s \in Segment |-> IF body[s] = "TFREE" THEN "TFREE" ELSE "TOFF"]
  /\ eye' = [h \in Half |-> "PTFREE"]
  /\ p_ntorp' = [h \in Half |-> 0] /\ p_nplasmatorp' = [h \in Half |-> 0]
  /\ UNCHANGED <<war, hunting, explodetorps, tfuse, age, killer>>

(* movesnake(): the snake leaves when nobody plays; a patrol hunts who     *)
(* bombs a planet (bombcheck, make_war).                                   *)
movesnake ==
  /\ snake_torp(Free, p_ntorp)
  /\ \/ hunting' = hunting /\ war' = IF hunting THEN war \cup Free ELSE war \ Free
     \/ ~hunting /\ hunting' = TRUE /\ war' = Segment
  /\ UNCHANGED <<phase, eye, p_nplasmatorp, explodetorps, tfuse, age, killer>>

restore_eye ==                   \* and then the snake moves on
  LET shut == {h \in Half : eye[h] # "PTMOVE"}
  IN  /\ eye' = [h \in Half |-> "PTMOVE"]
      /\ p_nplasmatorp' = [h \in Half |-> IF h \in shut THEN p_nplasmatorp[h] + 1 ELSE p_nplasmatorp[h]]
      /\ snake_torp(Free, p_ntorp)
      /\ war' = IF hunting THEN war \cup Free ELSE war \ Free
      /\ UNCHANGED <<phase, hunting, explodetorps, tfuse, age, killer>>

EyeHit == \E h \in Half : eye[h] = "PTEXPLODE"

(* check_explode(): the second test looks at the first eye.                *)
EyesExploded ==
  IF eye[1] # "PTFREE" THEN [h \in Half |-> "PTEXPLODE"] ELSE eye

Number(s) == (s[1] - 1) * length + s[2] - 1
Burning(s) == body[s] \in {"TEXPLODE", "TFREE"}

(* The segments are taken in order, up to the first that is not exploding. *)
InSequence ==
  LET rest == {s \in Segment : Number(s) >= explodetorps}
      alive == {s \in rest : ~Burning(s)}
      first == {s \in alive : \A r \in alive : Number(s) <= Number(r)}
  IN  /\ body' = [s \in Segment |-> IF s \in first THEN "TEXPLODE" ELSE body[s]]
      /\ explodetorps' = IF first = {} THEN 2 * length ELSE Number(CHOOSE s \in first : TRUE) + 1
      /\ UNCHANGED tfuse

crash_killer ==                  \* only the places change; the killer lives and is hostile
  /\ killer # "none" /\ tfuse < Chase
  /\ tfuse' = tfuse + 1
  /\ UNCHANGED <<body, explodetorps>>

check_explode ==
  /\ eye' = EyesExploded
  /\ crash_killer \/ InSequence

KillersNow == {"none", "other"} \cup (IF hunting THEN {"target"} ELSE {})

Over ==                          \* (of the counters as they are after check_explode())
  (\A h \in Half : p_ntorp[h] = 0 /\ p_nplasmatorp[h] = 0) \/ age > Linger

Explode ==
  /\ phase' = "exploding"
  /\ IF phase = "moving" THEN age' = 0 /\ killer' \in KillersNow ELSE age' = age + 1 /\ UNCHANGED killer
  /\ UNCHANGED <<p_ntorp, p_nplasmatorp, war, hunting>>

_move ==
  \/ startsnake
  \/ phase = "moving" /\ ~EyeHit /\ (movesnake \/ exitSnake)
  \/ phase = "moving" /\ EyeHit /\ Guard /\ restore_eye
  \/ (phase = "exploding" \/ (phase = "moving" /\ EyeHit /\ ~Guard)) /\ ~Over /\ Explode /\ check_explode
  \/ phase = "exploding" /\ Over /\ exitSnake

NewSnake ==
  /\ phase = "gone" /\ phase' = "new"
  /\ war' = {} /\ hunting' = FALSE /\ explodetorps' = 0 /\ tfuse' = 0 /\ age' = 0 /\ killer' = "none"
  /\ UNCHANGED <<body, eye, p_ntorp, p_nplasmatorp>>

-----------------------------------------------------------------------------
(* The daemon: a segment or an eye hits somebody or is hit (an eye by a    *)
(* phaser, too); what has exploded, or is switched off, is freed.          *)

Hit(s) ==
  /\ body[s] = "TMOVE"
  /\ body' = [body EXCEPT ![s] = "TEXPLODE"]
  /\ UNCHANGED <<p_ntorp, eye, p_nplasmatorp>>

Freed(s) ==
  /\ body[s] \in {"TEXPLODE", "TOFF"}
  /\ body' = [body EXCEPT ![s] = "TFREE"] /\ p_ntorp' = [p_ntorp EXCEPT ![s[1]] = @ - 1]
  /\ UNCHANGED <<eye, p_nplasmatorp>>

EyeIsHit(h) ==
  /\ eye[h] = "PTMOVE"
  /\ eye' = [eye EXCEPT ![h] = "PTEXPLODE"]
  /\ UNCHANGED <<body, p_ntorp, p_nplasmatorp>>

EyeFreed(h) ==
  /\ eye[h] = "PTEXPLODE"
  /\ eye' = [eye EXCEPT ![h] = "PTFREE"] /\ p_nplasmatorp' = [p_nplasmatorp EXCEPT ![h] = @ - 1]
  /\ UNCHANGED <<body, p_ntorp>>

Daemon ==
  /\ (\E s \in Segment : Hit(s) \/ Freed(s)) \/ \E h \in Half : EyeIsHit(h) \/ EyeFreed(h)
  /\ UNCHANGED <<phase, war, hunting, explodetorps, tfuse, age, killer>>

Next == _move \/ NewSnake \/ Daemon

Spec == Init /\ [][Next]_vars

-----------------------------------------------------------------------------
Counted ==
  phase \in {"moving", "exploding"} =>
    /\ \A h \in Half : p_ntorp[h] = Cardinality(Body(h) \ Free)
    /\ p_nplasmatorp[1] = IF eye[1] = "PTFREE" THEN 0 ELSE 1
AtWar == hunting => war = Segment

(* While there is a snake the torpedoes of its slots, and its first eye,   *)
(* are counted as they are; when it hunts, all of it is at war.            *)
SnakeSound == Counted /\ AtWar
=============================================================================
