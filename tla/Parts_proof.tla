------------------------------ MODULE Parts_proof ------------------------------
(***************************************************************************)
(* What ships, robots and clients are promised, for every value of the     *)
(* constants, and who plays and who runs the game.  The promises of the    *)
(* files, the messages and the connection are in Services_proof.tla.       *)
(*                                                                         *)
(* Each section proves one invariant or action property of MCParts.tla     *)
(* with the invariant of the part it follows from, for the steps of the    *)
(* part; the steps of MCParts that end the part's history and those of the *)
(* other parts do not change it.                                           *)
(*                                                                         *)
(*   RobotsSound, SnakesSound      robots, and the space snake             *)
(*   OwnersKnow                    what teams know of planets              *)
(*   CountdownsRun                 pauses, self-destruction, clue checks   *)
(*   WarpIsEarned                  the warp drive                          *)
(*   ScreenIsTrue                  what a client sees of weapons and ships *)
(*   OutfitIsSound                 limits of ships, refits, building times *)
(*   LossIsAPercentage, PingIsSound, ClosePingsAreSound      packet losses *)
(*   SlotsAreSafe                  player slots and the ghostbuster        *)
(*   StartsSound                   shared memory, daemons, restarts        *)
(*                                                                         *)
(* What a part may not promise without is an assumption of its section,    *)
(* named <part>Assumption; the README says why each may be made.           *)
(***************************************************************************)
EXTENDS MCParts, Sequences, FiniteSetTheorems, WellFoundedInduction, TLAPS

(* A robot: what its flags are before and after each of the functions that *)
(* one tick strings together.                                              *)
Modes(f) ==
  /\ "TRACT" \in f => "CLOAK" \notin f
  /\ K!practice => "CLOAK" \notin f
  /\ ~("REPAIR" \in f /\ "SHIELD" \in f)

(* The guns: what is fired is fired without the cloak.                     *)
LEMMA GunsModes ==
  ASSUME NEW f, NEW n, NEW e, Modes(f)
  PROVE  /\ Modes(K!Guns(f, n, e).flags)
         /\ "CLOAK" \notin f => "CLOAK" \notin K!Guns(f, n, e).flags
         /\ K!Guns(f, n, e).shot => "CLOAK" \notin K!Guns(f, n, e).flags
BY DEF Modes, K!Guns, K!Openly

(* Pressor and tractor never cloak the ship, nor hold with a cloak.        *)
LEMMA BeamsModes ==
  ASSUME NEW f, NEW e, Modes(f)
  PROVE  /\ Modes(K!Beams(f, e).flags)
         /\ "CLOAK" \notin f => "CLOAK" \notin K!Beams(f, e).flags
BY DEF Modes, K!Beams, K!Openly, K!pressor, K!tractor

(* Evading: the cloak is used only where it may be.                        *)
LEMMA EvadesModes ==
  ASSUME NEW f, NEW e, NEW no_cloak \in BOOLEAN, NEW many \in BOOLEAN, Modes(f),
         K!practice => no_cloak,
         NEW v \in K!Evades(f, e, no_cloak, many)
  PROVE  /\ Modes(v.flags)
         /\ no_cloak /\ "CLOAK" \notin f => "CLOAK" \notin v.flags
BY DEF Modes, K!Evades, K!shield_up, K!Cloaked, K!cloak_on, K!set_course

(* Where the robot goes: running away, repairing and attacking keep the    *)
(* modes apart.                                                            *)
LEMMA MovesModes ==
  ASSUME NEW f, NEW e, NEW no_cloak \in BOOLEAN, Modes(f), K!practice => no_cloak,
         NEW g \in K!Moves(f, e, no_cloak)
  PROVE  /\ Modes(g)
         /\ no_cloak /\ "CLOAK" \notin f => "CLOAK" \notin g
BY DEF Modes, K!Moves, K!RunAway, K!Repair, K!Attack, K!shield_up, K!Cloaked, K!cloak_on,
       K!set_course, K!set_speed, K!go_home, K!repairs

(* A robot that has just entered the game has no mode on.                  *)
LEMMA RobotInit == K!Init => K!RobotSound
BY DEF K!Init, K!RobotSound, K!FiresOpenly, K!ModesApart, K!practice

(* Each function of a robot's tick keeps its modes apart.                  *)
LEMMA RobotStep == K!RobotSound /\ [K!Next]_(K!vars) => K!RobotSound'
<1> SUFFICES ASSUME K!RobotSound, [K!Next]_(K!vars) PROVE K!RobotSound'
  OBVIOUS
<1> USE DEF K!RobotSound, K!FiresOpenly, K!ModesApart
<1>0. Modes(r_flags) /\ (Modes(r_flags)' /\ (fired' => "CLOAK" \notin r_flags') => K!RobotSound')
  BY DEF Modes, K!practice
<1>1. CASE K!Gives
  BY <1>1 DEF K!Gives, K!Leaves, K!practice
<1>2. CASE K!Idle
  BY <1>2 DEF K!Idle, K!phaser_plasmas, K!Openly, K!Repair, K!go_home, K!repairs, K!set_speed, K!Ticks, K!practice
<1>3. CASE K!Fights
  <2>1. character' = character
    BY <1>3 DEF K!Fights, K!Ticks
  <2>2. PICK plasma \in BOOLEAN, many \in BOOLEAN, e \in K!Enemy :
         LET p == K!phaser_plasmas(plasma)
             g == K!Guns(p.flags, r_torps, e)
             b == K!Beams(g.flags, e)
             no_cloak == p.shot \/ K!practice \/ g.shot \/ b.no_cloak
         IN  /\ fired' = (plasma \/ g.shot)
             /\ \/ \E v \in K!Evades(b.flags, e, no_cloak, many) : r_flags' = v.flags
                \/ r_flags' \in K!Moves(b.flags, e, no_cloak)
    BY <1>3 DEF K!Fights
  <2> DEFINE p == K!phaser_plasmas(plasma)
             g == K!Guns(p.flags, r_torps, e)
             b == K!Beams(g.flags, e)
             no_cloak == p.shot \/ K!practice \/ g.shot \/ b.no_cloak
  <2>3. Modes(p.flags) /\ (plasma => "CLOAK" \notin p.flags) /\ p.shot = plasma
    BY <1>0 DEF Modes, K!phaser_plasmas, K!Openly
  <2>4. /\ Modes(g.flags)
        /\ "CLOAK" \notin p.flags => "CLOAK" \notin g.flags
        /\ g.shot => "CLOAK" \notin g.flags
    BY <2>3, GunsModes
  <2>5. Modes(b.flags) /\ ("CLOAK" \notin g.flags => "CLOAK" \notin b.flags)
    BY <2>4, BeamsModes
  <2>6. no_cloak \in BOOLEAN /\ (K!practice => no_cloak) /\ (plasma \/ g.shot => no_cloak)
    BY <2>3
  <2> HIDE DEF p, g, b, no_cloak
  <2>7. Modes(r_flags') /\ (no_cloak /\ "CLOAK" \notin b.flags => "CLOAK" \notin r_flags')
    <3>1. CASE \E v \in K!Evades(b.flags, e, no_cloak, many) : r_flags' = v.flags
      BY <3>1, <2>5, <2>6, EvadesModes
    <3>2. CASE r_flags' \in K!Moves(b.flags, e, no_cloak)
      BY <3>2, <2>5, <2>6, MovesModes
    <3>3. QED
      BY <3>1, <3>2, <2>2 DEF p, g, b, no_cloak
  <2>8. fired' => no_cloak /\ "CLOAK" \notin b.flags
    BY <2>2, <2>3, <2>4, <2>5, <2>6 DEF p, g, b, no_cloak
  <2>9. QED
    BY <2>1, <2>7, <2>8, <1>0 DEF Modes, K!practice
<1>4. CASE K!Daemon
  BY <1>4 DEF K!Daemon, K!practice
<1>5. CASE K!exitRobot
  BY <1>5 DEF K!exitRobot, K!Leaves, K!practice
<1>6. CASE UNCHANGED K!vars
  BY <1>6 DEF K!vars, K!practice
<1>7. QED
  BY <1>1, <1>2, <1>3, <1>4, <1>5, <1>6 DEF K!Next

(* The steps of the history while it is about a robot.                     *)
LEMMA RobotNext == machine = "Robot" /\ [Next]_vars => machine' = "Robot" /\ [K!Next]_(K!vars)
BY DEF Next, vars, Ends, robot, K!vars

(* A robot that has fired is not cloaked; one that holds somebody in its   *)
(* tractor is not cloaked, one that practises never is, and none repairs   *)
(* behind its shields (rmove.c: the functions a tick strings together),    *)
(* whatever it meets and however many ticks it lives.                      *)
THEOREM RobotsSound == Spec => []RobotSound
<1>1. Init => RobotSound
  BY RobotInit DEF Init, RobotSound
<1>2. RobotSound /\ [Next]_vars => RobotSound'
  <2>1. [Next]_vars => machine' = machine
    BY DEF Next, vars, Ends
  <2>2. QED
    BY <2>1, RobotNext, RobotStep DEF RobotSound
<1>3. QED
  BY <1>1, <1>2, PTL DEF Spec

-----------------------------------------------------------------------------
(* The snake: what its torpedoes, its eyes and their counters hold, and    *)
(* that one that has not yet been let loose hunts nobody.                  *)
SnakeTypes ==
  /\ body \in [N!Segment -> {"TFREE", "TMOVE", "TEXPLODE", "TOFF"}]
  /\ eye \in [N!Half -> {"PTFREE", "PTMOVE", "PTEXPLODE"}]
  /\ p_ntorp \in [N!Half -> Int] /\ p_nplasmatorp \in [N!Half -> Int]
  /\ war \subseteq N!Segment
  /\ phase \in {"new", "moving", "exploding", "gone"}

SnakeInv ==
  /\ SnakeTypes
  /\ N!Counted
  /\ N!AtWar
  /\ phase = "new" => ~hunting

(* The Cardinality that the module of the snake knows is everyone's.       *)
LEMMA SnakeCardinality == \A X : N!Cardinality(X) = Cardinality(X)
BY DEF N!Cardinality, Cardinality, N!IsFiniteSet, IsFiniteSet

(* A half of the body has finitely many segments, of which those that are  *)
(* free and those that are not make up the whole.                          *)
LEMMA SnakeFinite ==
  ASSUME length \in Nat, NEW h \in N!Half
  PROVE  /\ IsFiniteSet(N!Body(h))
         /\ \A X : /\ Cardinality(N!Body(h) \ X) \in Nat
                   /\ Cardinality(X \cap N!Body(h)) \in Nat
                   /\ Cardinality(N!Body(h) \ X) + Cardinality(X \cap N!Body(h))
                      = Cardinality(N!Body(h))
<1>1. IsFiniteSet(N!Half) /\ IsFiniteSet(1 .. length)
  <2>1. N!Half = {1} \cup {2}
    BY DEF N!Half
  <2>2. IsFiniteSet({1} \cup {2})
    BY FS_Singleton, FS_AddElement
  <2>3. IsFiniteSet(1 .. length)
    BY FS_Interval
  <2>4. QED
    BY <2>1, <2>2, <2>3
<1>2. IsFiniteSet(N!Segment)
  <2>1. IsFiniteSet(N!Half \X (1 .. length))
    BY <1>1, FS_Product
  <2>2. QED
    BY <2>1 DEF N!Segment
<1>3. IsFiniteSet(N!Body(h))
  BY <1>2, FS_Subset DEF N!Body
<1>4. SUFFICES ASSUME NEW X
                PROVE  /\ Cardinality(N!Body(h) \ X) \in Nat
                       /\ Cardinality(X \cap N!Body(h)) \in Nat
                       /\ Cardinality(N!Body(h) \ X) + Cardinality(X \cap N!Body(h))
                          = Cardinality(N!Body(h))
  BY <1>3
<1>5. IsFiniteSet(N!Body(h) \ X) /\ IsFiniteSet(X \cap N!Body(h))
  BY <1>3, FS_Difference, FS_Intersection
<1>6. /\ Cardinality(N!Body(h) \ X) \in Nat /\ Cardinality(X \cap N!Body(h)) \in Nat
      /\ Cardinality(N!Body(h)) \in Nat
  BY <1>3, <1>5, FS_CardinalityType
<1>7. N!Body(h) \cap X = X \cap N!Body(h)
  OBVIOUS
<1>8. Cardinality(N!Body(h) \ X) = Cardinality(N!Body(h)) - Cardinality(X \cap N!Body(h))
  BY <1>3, <1>7, FS_Difference
<1>9. QED
  BY <1>6, <1>8

(* The torpedoes made anew: whatever is counted for those of X, none of    *)
(* them is free any more and each half counts its own.                     *)
LEMMA SnakeTorp ==
  ASSUME length \in Nat, NEW X, X = N!Free \/ X = N!Segment,
         NEW n \in [N!Half -> Int], SnakeTypes, N!snake_torp(X, n),
         \A h \in N!Half : n[h] = Cardinality(N!Body(h) \ X)
  PROVE  /\ body' \in [N!Segment -> {"TFREE", "TMOVE", "TEXPLODE", "TOFF"}]
         /\ p_ntorp' \in [N!Half -> Int]
         /\ \A h \in N!Half : p_ntorp'[h] = Cardinality(N!Body(h) \ N!Free')
<1>1. body' \in [N!Segment -> {"TFREE", "TMOVE", "TEXPLODE", "TOFF"}]
  BY DEF N!snake_torp, SnakeTypes
<1>2. N!Free' = {}
  BY DEF N!snake_torp, N!Free
<1>3. \A h \in N!Half : p_ntorp'[h] = Cardinality(N!Body(h)) /\ Cardinality(N!Body(h)) \in Int
  <2> TAKE h \in N!Half
  <2>1. Cardinality(N!Body(h) \ X) + Cardinality(X \cap N!Body(h)) = Cardinality(N!Body(h))
        /\ Cardinality(N!Body(h) \ X) \in Nat /\ Cardinality(X \cap N!Body(h)) \in Nat
    BY SnakeFinite
  <2>2. p_ntorp'[h] = n[h] + Cardinality(X \cap N!Body(h))
    BY SnakeCardinality DEF N!snake_torp, N!Made
  <2>3. QED
    BY <2>1, <2>2
<1>4. p_ntorp' \in [N!Half -> Int]
  <2>1. p_ntorp' = [h \in N!Half |-> p_ntorp'[h]]
    BY SnakeCardinality DEF N!snake_torp, N!Made
  <2>2. QED
    BY <2>1, <1>3
<1>5. \A h \in N!Half : N!Body(h) \ N!Free' = N!Body(h)
  BY <1>2
<1>6. QED
  BY <1>1, <1>3, <1>4, <1>5

(* Before the snake is let loose nothing of it is counted.                 *)
LEMMA SnakeInit == N!Init => SnakeInv
BY SnakeCardinality DEF N!Init, SnakeInv, SnakeTypes, N!Counted, N!AtWar

(* A snake that guards no planets: its eyes are not restored.              *)
LEMMA SnakeStep ==
  ASSUME length \in Nat, ~Guard, SnakeInv, [N!Next]_(N!vars)
  PROVE  SnakeInv'
<1> USE DEF SnakeInv, SnakeTypes
<1>a. 1 \in N!Half
  BY DEF N!Half
<1>1. CASE N!startsnake
  <2>1. N!snake_torp(N!Segment, [h \in N!Half |-> 0]) /\ [h \in N!Half |-> 0] \in [N!Half -> Int]
    BY <1>1 DEF N!startsnake
  <2>2. \A h \in N!Half : N!Body(h) \ N!Segment = {}
    BY DEF N!Body
  <2>3. \A h \in N!Half : [k \in N!Half |-> 0][h] = Cardinality(N!Body(h) \ N!Segment)
    BY <2>2, FS_EmptySet
  <2>4. /\ body' \in [N!Segment -> {"TFREE", "TMOVE", "TEXPLODE", "TOFF"}]
        /\ p_ntorp' \in [N!Half -> Int]
        /\ \A h \in N!Half : p_ntorp'[h] = Cardinality(N!Body(h) \ N!Free')
    BY <2>1, <2>3, SnakeTorp
  <2>5. QED
    BY SnakeCardinality, <1>1, <1>a, <2>4 DEF N!startsnake, N!Counted, N!AtWar, N!Body
<1>2. CASE phase = "moving" /\ N!movesnake
  <2>1. /\ body' \in [N!Segment -> {"TFREE", "TMOVE", "TEXPLODE", "TOFF"}]
        /\ p_ntorp' \in [N!Half -> Int]
        /\ \A h \in N!Half : p_ntorp'[h] = Cardinality(N!Body(h) \ N!Free')
    BY SnakeCardinality, <1>2, SnakeTorp DEF N!movesnake, N!Counted
  <2>2. war' \subseteq N!Segment /\ N!AtWar'
    BY <1>2 DEF N!movesnake, N!AtWar, N!Free
  <2>3. QED
    BY SnakeCardinality, <1>2, <2>1, <2>2 DEF N!movesnake, N!Counted, N!Body
<1>3. CASE N!exitSnake
  BY SnakeCardinality, <1>3 DEF N!exitSnake, N!Counted, N!AtWar
<1>4. CASE phase \in {"moving", "exploding"} /\ N!Explode /\ N!check_explode
  <2>1. eye' \in [N!Half -> {"PTFREE", "PTMOVE", "PTEXPLODE"}]
        /\ (eye'[1] = "PTFREE" <=> eye[1] = "PTFREE")
    BY <1>4, <1>a DEF N!check_explode, N!EyesExploded
  <2>2. body' \in [N!Segment -> {"TFREE", "TMOVE", "TEXPLODE", "TOFF"}]
        /\ \A s \in N!Segment : body'[s] = "TFREE" <=> body[s] = "TFREE"
    BY <1>4 DEF N!check_explode, N!crash_killer, N!InSequence, N!Burning
  <2>3. N!Free' = N!Free
    BY <2>2 DEF N!Free
  <2>4. \A h \in N!Half : (N!Body(h) \ N!Free)' = N!Body(h) \ N!Free
    BY <2>3 DEF N!Body
  <2>5. QED
    BY SnakeCardinality, <1>4, <2>1, <2>2, <2>4 DEF N!Explode, N!Counted, N!AtWar
<1>5. CASE N!NewSnake
  BY SnakeCardinality, <1>5 DEF N!NewSnake, N!Counted, N!AtWar
<1>6. ASSUME NEW s \in N!Segment, N!Hit(s), N!Daemon
      PROVE  SnakeInv'
  <2>1. body' \in [N!Segment -> {"TFREE", "TMOVE", "TEXPLODE", "TOFF"}] /\ N!Free' = N!Free
    BY <1>6 DEF N!Hit, N!Free
  <2>2. QED
    BY SnakeCardinality, <1>6, <2>1 DEF N!Hit, N!Daemon, N!Counted, N!AtWar, N!Body
<1>7. ASSUME NEW s \in N!Segment, N!Freed(s), N!Daemon
      PROVE  SnakeInv'
  <2>1. s[1] \in N!Half /\ s \in N!Body(s[1]) /\ s \notin N!Free
        /\ \A h \in N!Half : h # s[1] => s \notin N!Body(h)
    BY <1>7 DEF N!Freed, N!Segment, N!Body, N!Free
  <2>2. body' \in [N!Segment -> {"TFREE", "TMOVE", "TEXPLODE", "TOFF"}] /\ N!Free' = N!Free \cup {s}
    BY <1>7 DEF N!Freed, N!Free
  <2>3. \A h \in N!Half : IsFiniteSet(N!Body(h) \ N!Free)
    BY SnakeFinite, FS_Difference
  <2>4. \A h \in N!Half : Cardinality((N!Body(h) \ N!Free) \ {s})
          = IF h = s[1] THEN Cardinality(N!Body(h) \ N!Free) - 1 ELSE Cardinality(N!Body(h) \ N!Free)
    BY <2>1, <2>3, FS_RemoveElement
  <2>5. \A h \in N!Half : N!Body(h) \ N!Free' = (N!Body(h) \ N!Free) \ {s}
    BY <2>2
  <2>6. p_ntorp' \in [N!Half -> Int]
        /\ \A h \in N!Half : p_ntorp'[h] = IF h = s[1] THEN p_ntorp[h] - 1 ELSE p_ntorp[h]
    BY <1>7, <2>1 DEF N!Freed
  <2>7. phase \in {"moving", "exploding"} =>
          \A h \in N!Half : p_ntorp'[h] = Cardinality(N!Body(h) \ N!Free')
    BY SnakeCardinality, <2>4, <2>5, <2>6 DEF N!Counted
  <2>8. QED
    BY SnakeCardinality, <1>7, <2>2, <2>6, <2>7 DEF N!Freed, N!Daemon, N!Counted, N!AtWar, N!Body
<1>8. ASSUME NEW h \in N!Half, N!EyeIsHit(h) \/ N!EyeFreed(h), N!Daemon
      PROVE  SnakeInv'
  <2>1. N!Free' = N!Free
    BY <1>8 DEF N!EyeIsHit, N!EyeFreed, N!Free
  <2>2. eye' \in [N!Half -> {"PTFREE", "PTMOVE", "PTEXPLODE"}] /\ p_nplasmatorp' \in [N!Half -> Int]
    BY <1>8 DEF N!EyeIsHit, N!EyeFreed
  <2>3. phase \in {"moving", "exploding"} => p_nplasmatorp'[1] = IF eye'[1] = "PTFREE" THEN 0 ELSE 1
    BY SnakeCardinality, <1>8, <1>a DEF N!EyeIsHit, N!EyeFreed, N!Counted
  <2>4. QED
    BY SnakeCardinality, <1>8, <2>1, <2>2, <2>3 DEF N!EyeIsHit, N!EyeFreed, N!Daemon, N!Counted, N!AtWar, N!Body
<1>9. CASE UNCHANGED N!vars
  BY SnakeCardinality, <1>9 DEF N!vars, N!Counted, N!AtWar, N!Free, N!Body
<1>10. QED
  <2>1. CASE N!_move
    BY <2>1, <1>1, <1>2, <1>3, <1>4 DEF N!_move
  <2>2. CASE N!Daemon
    BY <2>2, <1>6, <1>7, <1>8 DEF N!Daemon
  <2>3. QED
    BY <2>1, <2>2, <1>5, <1>9 DEF N!Next

(* The steps of the history while it is about a snake.                     *)
LEMMA SnakeNext == machine = "Snake" /\ [Next]_vars => machine' = "Snake" /\ [N!Next]_(N!vars)
BY DEF Next, vars, Ends, snake, N!vars

(* While there is a snake the torpedoes of its two slots and the plasma    *)
(* torpedo of its first eye are counted as they are, through moves, hits   *)
(* and explosions, and when it hunts all of it is at war (snake.c,         *)
(* snakemove.c and the daemon's torpedoes): for a snake of any length that *)
(* guards nothing.                                                         *)
THEOREM SnakesSound ==
  ASSUME length \in Nat, ~Guard
  PROVE  Spec => []SnakeSound
<1> DEFINE Inv == machine = "Snake" => SnakeInv
<1>1. Init => Inv
  BY SnakeInit DEF Init
<1>2. Inv /\ [Next]_vars => Inv'
  <2>1. [Next]_vars => machine' = machine
    BY DEF Next, vars, Ends
  <2>2. QED
    BY <2>1, SnakeNext, SnakeStep
<1>3. Inv => SnakeSound
  BY DEF SnakeSound, N!SnakeSound, SnakeInv
<1>4. QED
  BY <1>1, <1>2, <1>3, PTL DEF Spec

-----------------------------------------------------------------------------
(* Scouting.  What each team was told, field by field.                     *)
TeamsAssumption == Me \in Team /\ NOBODY \notin Team /\ MAXARMIES \in Nat \ {0}

Info == [owner : P!Owners, armies : Int, fuel : BOOLEAN]

TellsTypes ==
  /\ pl_owner \in P!Owners /\ pl_armies \in Int /\ PLFUEL \in BOOLEAN
  /\ pl_tinfo \in [Team -> Info]

(* A planet that is somebody's has armies: the next ones to be beamed down *)
(* fight, they do not just take it, which only the taker is told.          *)
Held == pl_owner # NOBODY => pl_armies > 0

(* i, what team t was told, agrees with owner o, armies a and depot f.     *)
Agrees(i, t, o, a, f) == /\ i.owner = t <=> o = t
                         /\ o = t => i.armies = a /\ i.fuel = f

Told(t) == /\ Agrees(pl_tinfo[t], t, pl_owner, pl_armies, PLFUEL)
           /\ pl_owner = t => t \in pl_hinfo

Knows == \A t \in Team : Told(t)

ToldInv ==
  /\ TellsTypes
  /\ ~untold => Knows /\ (updated /\ pl_owner = Me => packet.info /\ packet.of = P!Truth)

(* A team that agrees with a planet in every field knows it as it is.      *)
LEMMA KnowsTruth ==
  ASSUME TellsTypes, Knows, NEW t \in Team, pl_owner = t
  PROVE  pl_tinfo[t] = P!Truth
<1>1. /\ pl_tinfo[t] \in Info
      /\ pl_tinfo[t].owner = pl_owner /\ pl_tinfo[t].armies = pl_armies
      /\ pl_tinfo[t].fuel = PLFUEL
  BY DEF TellsTypes, Knows, Told, Agrees
<1> DEFINE i == pl_tinfo[t]
<1> HIDE DEF i
<1>2. ASSUME i \in Info, i.owner = pl_owner, i.armies = pl_armies, i.fuel = PLFUEL
      PROVE  i = P!Truth
  BY <1>2 DEF P!Truth, Info
<1>3. QED
  BY <1>1, <1>2 DEF i

(* The edits of what a team was told.                                      *)
Armies(i, n) == [i EXCEPT !.armies = n]
Fuel(i, f) == [i EXCEPT !.fuel = f]
Nobodys(i) == [i EXCEPT !.owner = NOBODY]
Deserted(i) == [i EXCEPT !.armies = 0, !.owner = NOBODY]

(* A team that is told of armies agrees about them, and about the rest as  *)
(* before.                                                                 *)
LEMMA ArmiesTold ==
  ASSUME NEW i \in Info, NEW n \in Int
  PROVE  /\ Armies(i, n) \in Info
         /\ \A t, o, a, f : Agrees(i, t, o, a, f) => Agrees(Armies(i, n), t, o, n, f)
<1>1. /\ Armies(i, n) \in Info /\ Armies(i, n).owner = i.owner
      /\ Armies(i, n).armies = n /\ Armies(i, n).fuel = i.fuel
  BY DEF Info, Armies
<1>2. QED
  BY <1>1 DEF Agrees

(* So does one that is told of the facilities.                             *)
LEMMA FuelTold ==
  ASSUME NEW i \in Info, NEW g \in BOOLEAN
  PROVE  /\ Fuel(i, g) \in Info
         /\ \A t, o, a, f : Agrees(i, t, o, a, f) => Agrees(Fuel(i, g), t, o, a, g)
<1>1. /\ Fuel(i, g) \in Info /\ Fuel(i, g).owner = i.owner
      /\ Fuel(i, g).armies = i.armies /\ Fuel(i, g).fuel = g
  BY DEF Info, Fuel
<1>2. QED
  BY <1>1 DEF Agrees

(* A team that is told that it lost the planet no longer believes that it  *)
(* owns it.                                                                *)
LEMMA LossTold ==
  ASSUME NEW i \in Info, NOBODY \notin Team
  PROVE  /\ Nobodys(i) \in Info /\ Deserted(i) \in Info
         /\ \A t \in Team : \A a, f : /\ Agrees(Nobodys(i), t, NOBODY, a, f)
                                   /\ Agrees(Deserted(i), t, NOBODY, a, f)
<1>1. NOBODY \in P!Owners
  BY DEF P!Owners
<1>2. Nobodys(i) \in Info /\ Nobodys(i).owner = NOBODY
  BY <1>1 DEF Info, Nobodys
<1>3. Deserted(i).owner = NOBODY
  BY DEF Info, Deserted
<1>4. Deserted(i) \in Info
  <2>1. Deserted(i) = Nobodys(Armies(i, 0))
    BY DEF Info, Deserted, Nobodys, Armies
  <2>2. Armies(i, 0) \in Info
    BY DEF Info, Armies
  <2>3. \A j \in Info : Nobodys(j) \in Info
    BY <1>1 DEF Info, Nobodys
  <2>4. QED
    BY <2>1, <2>2, <2>3
<1>5. QED
  BY <1>2, <1>3, <1>4 DEF Agrees

(* About a planet that is not its own a team may believe what it likes.    *)
LEMMA OthersTold ==
  ASSUME NEW t, NEW o, o # t, NEW q, q # t
  PROVE  \A i, a, f, b, g : Agrees(i, t, o, a, f) => Agrees(i, t, q, b, g)
BY DEF Agrees

(* Every step leaves armies on an owned planet, and only there.            *)
LEMMA HeldStep ==
  ASSUME TeamsAssumption, TellsTypes, Held, [P!Next]_(P!vars)
  PROVE  Held'
<1> USE DEF Held, TellsTypes
<1>1. CASE UNCHANGED <<pl_owner, pl_armies>>
  BY <1>1
<1>2. ASSUME NEW t \in Team, P!BombArmies(t) \/ P!beammeupscotty(t) \/ P!ReinforcePlanet(t)
      PROVE  Held'
  <2>1. CASE P!BombArmies(t)
    <3>1. \E left \in 1 .. pl_armies - 1 : pl_armies' = left
      BY <2>1, Zenon DEF P!BombArmies
    <3>2. QED
      BY <3>1
  <2>2. CASE P!beammeupscotty(t)
    <3>1. /\ pl_armies > 0 /\ pl_armies' = pl_armies - 1
          /\ pl_armies = 1 => pl_owner' = NOBODY
      BY <2>2, Zenon DEF P!beammeupscotty
    <3>2. QED
      BY <3>1
  <2>3. CASE P!ReinforcePlanet(t)
    <3>1. pl_owner' = pl_owner /\ pl_armies' = pl_armies + 1
      BY <2>3, Zenon DEF P!ReinforcePlanet
    <3>2. QED
      BY <3>1
  <2>4. QED
    BY <1>2, <2>1, <2>2, <2>3
<1>3. ASSUME NEW t \in Team, P!InvadePlanet(t)
      PROVE  Held'
  <2>1. PICK left \in {pl_armies - 1, pl_armies, 1} :
          \/ /\ pl_armies' = left /\ left \notin {-1, 0} /\ pl_owner' = pl_owner
          \/ pl_owner' = NOBODY
          \/ pl_armies' = 1
    BY <1>3, Zenon DEF P!InvadePlanet
  <2>2. QED
    BY <2>1
<1>4. CASE P!pop_one_planet
  <2>1. \E n \in 0 .. MAXARMIES : pl_armies' = n /\ (n = 0 => pl_owner' = NOBODY)
    BY <1>4, Zenon DEF P!pop_one_planet
  <2>2. QED
    BY <2>1 DEF TeamsAssumption
<1>5. CASE P!revolt \/ P!Surrender \/ P!ghostmess
  BY <1>5 DEF P!revolt, P!Surrender, P!ghostmess
<1>6. CASE P!resetgalaxy
  BY <1>6 DEF P!resetgalaxy, P!NewGalaxy
<1>7. QED
  BY <1>1, <1>2, <1>3, <1>4, <1>5, <1>6
     DEF P!Next, P!vars, P!planet, P!scout_planet, P!growplanets, P!BombFuel,
         P!starttourn, P!updatePlanets

(* Every step tells the owner what it changes.                             *)
LEMMA ScoutStep ==
  ASSUME TeamsAssumption, ToldInv, Held, [P!Next]_(P!vars)
  PROVE  ToldInv'
<1> USE DEF P!ClientUnchanged
<1>0. TellsTypes
  BY DEF ToldInv
<1>a. ASSUME updated' = FALSE, untold' = untold,
             pl_owner' \in P!Owners, pl_armies' \in Int, PLFUEL' \in BOOLEAN,
             pl_tinfo' = [u \in Team |-> pl_tinfo'[u]],
             \A u \in Team : pl_tinfo'[u] \in Info /\ (Told(u) => Told(u)')
      PROVE  ToldInv'
  <2>1. pl_tinfo' \in [Team -> Info]
    BY <1>a
  <2>2. Knows => Knows'
    BY <1>a DEF Knows
  <2>3. QED
    BY <1>a, <2>1, <2>2 DEF ToldInv, TellsTypes
<1>b. \A u \in Team : pl_tinfo[u] \in Info
  BY <1>0 DEF TellsTypes
<1>c. pl_owner \in P!Owners /\ pl_armies \in Int /\ PLFUEL \in BOOLEAN
  BY <1>0 DEF TellsTypes
<1>h. NOBODY \notin Team /\ NOBODY \in P!Owners /\ Team \subseteq P!Owners
  BY DEF P!Owners, TeamsAssumption
<1>1. ASSUME NEW t \in Team, P!scout_planet(t)
      PROVE  ToldInv'
  <2>1. P!Truth \in Info
        /\ P!Truth.owner = pl_owner /\ P!Truth.armies = pl_armies /\ P!Truth.fuel = PLFUEL
    BY <1>c DEF Info, P!Truth
  <2>2. /\ UNCHANGED <<pl_owner, pl_armies, PLFUEL, untold>> /\ updated' = FALSE
        /\ pl_hinfo' = pl_hinfo \cup {t}
        /\ pl_tinfo' = [u \in Team |-> pl_tinfo'[u]]
        /\ \A u \in Team : pl_tinfo'[u] = IF pl_owner # t /\ u = t THEN P!Truth ELSE pl_tinfo[u]
    BY <1>1, <1>0 DEF P!scout_planet, P!planet, TellsTypes
  <2>3. ASSUME NEW u \in Team
        PROVE  pl_tinfo'[u] \in Info /\ (Told(u) => Told(u)')
    <3>1. pl_tinfo'[u] \in Info
      BY <1>b, <1>c, <2>1, <2>2
    <3>2. Told(u) => Told(u)'
      BY <1>b, <1>c, <2>1, <2>2 DEF Told, Agrees
    <3>3. QED
      BY <3>1, <3>2
  <2>4. QED
    BY <1>a, <1>c, <1>h, <2>1, <2>2, <2>3
<1>2. CASE P!growplanets
  <2>1. UNCHANGED <<pl_owner, pl_armies, pl_hinfo, untold>> /\ updated' = FALSE
    BY <1>2 DEF P!growplanets
  <2>2. CASE UNCHANGED <<PLFUEL, pl_tinfo>>
    BY <2>1, <2>2, <1>0 DEF ToldInv, TellsTypes, Knows, Told
  <2>3. CASE PLFUEL' = TRUE /\ pl_tinfo' = [pl_tinfo EXCEPT ![pl_owner].fuel = TRUE]
    <3>1. /\ pl_tinfo' = [u \in Team |-> pl_tinfo'[u]]
          /\ \A u \in Team : pl_tinfo'[u] = IF u = pl_owner THEN Fuel(pl_tinfo[u], TRUE) ELSE pl_tinfo[u]
      BY <2>3, <1>0 DEF TellsTypes, Fuel
    <3>2. ASSUME NEW u \in Team
          PROVE  pl_tinfo'[u] \in Info /\ (Told(u) => Told(u)')
      <4>1. pl_tinfo'[u] \in Info
        BY <1>b, <3>1, FuelTold
      <4>2. Told(u) => Told(u)'
        <5>1. CASE u = pl_owner
          <6>1. pl_tinfo'[u] = Fuel(pl_tinfo[u], TRUE)
            BY <3>1, <5>1
          <6>2. \A t, o, a, f : Agrees(pl_tinfo[u], t, o, a, f)
                                => Agrees(Fuel(pl_tinfo[u], TRUE), t, o, a, TRUE)
            BY <1>b, FuelTold
          <6>3. QED
            BY <2>1, <2>3, <6>1, <6>2 DEF Told
        <5>2. CASE u # pl_owner
          BY <2>1, <3>1, <5>2, OthersTold DEF Told
        <5>3. QED
          BY <5>1, <5>2
      <4>3. QED
        BY <4>1, <4>2
    <3>3. QED
      BY <1>a, <1>c, <2>1, <2>3, <3>1, <3>2
  <2>4. QED
    BY <1>2, <2>2, <2>3 DEF P!growplanets
<1>3. ASSUME NEW t \in Team, P!BombArmies(t)
      PROVE  ToldInv'
  <2>1. /\ UNCHANGED <<pl_owner, PLFUEL, pl_hinfo, untold>> /\ updated' = FALSE
        /\ pl_armies' \in Int /\ pl_tinfo' = [u \in Team |-> pl_tinfo'[u]]
        /\ \A u \in Team : pl_tinfo'[u] = IF u \in {pl_owner, t}
                                          THEN Armies(pl_tinfo[u], pl_armies') ELSE pl_tinfo[u]
    BY <1>3, <1>0 DEF P!BombArmies, P!Both, TellsTypes, Armies
  <2>2. ASSUME NEW u \in Team
        PROVE  pl_tinfo'[u] \in Info /\ (Told(u) => Told(u)')
    <3>1. pl_tinfo'[u] \in Info
      BY <1>b, <1>c, <2>1, <1>h, ArmiesTold, FuelTold, LossTold, OthersTold
    <3>2. Told(u) => Told(u)'
      BY <1>b, <1>c, <2>1, <1>h, ArmiesTold, FuelTold, LossTold, OthersTold DEF Told
    <3>3. QED
      BY <3>1, <3>2
  <2>3. pl_owner' \in P!Owners /\ pl_armies' \in Int /\ PLFUEL' \in BOOLEAN
    BY <1>c, <1>h, <2>1
  <2>4. QED
    BY <1>a, <2>1, <2>2, <2>3
<1>4. ASSUME NEW t \in Team, P!BombFuel(t)
      PROVE  ToldInv'
  <2>1. /\ UNCHANGED <<pl_owner, pl_armies, pl_hinfo, untold>> /\ updated' = FALSE
        /\ PLFUEL' \in BOOLEAN /\ pl_tinfo' = [u \in Team |-> pl_tinfo'[u]]
        /\ \A u \in Team : pl_tinfo'[u] = IF PLFUEL' # PLFUEL /\ u \in {pl_owner, t}
                                          THEN Fuel(pl_tinfo[u], PLFUEL') ELSE pl_tinfo[u]
    BY <1>4, <1>0 DEF P!BombFuel, P!blast_resource, P!Both, TellsTypes, Fuel
  <2>2. ASSUME NEW u \in Team
        PROVE  pl_tinfo'[u] \in Info /\ (Told(u) => Told(u)')
    <3>1. pl_tinfo'[u] \in Info
      BY <1>b, <1>c, <2>1, <1>h, ArmiesTold, FuelTold, LossTold, OthersTold
    <3>2. Told(u) => Told(u)'
      BY <1>b, <1>c, <2>1, <1>h, ArmiesTold, FuelTold, LossTold, OthersTold DEF Told
    <3>3. QED
      BY <3>1, <3>2
  <2>3. pl_owner' \in P!Owners /\ pl_armies' \in Int /\ PLFUEL' \in BOOLEAN
    BY <1>c, <1>h, <2>1
  <2>4. QED
    BY <1>a, <2>1, <2>2, <2>3
<1>5. CASE P!pop_one_planet
  <2>0. PICK n \in 0 .. MAXARMIES :
          /\ pl_armies' = n
          /\ IF n = 0
             THEN /\ pl_owner' = NOBODY
                  /\ pl_tinfo' = [u \in Team |-> IF u # pl_owner THEN pl_tinfo[u]
                                                 ELSE Deserted(pl_tinfo[u])]
             ELSE /\ pl_tinfo' = [u \in Team |-> IF u # pl_owner THEN pl_tinfo[u]
                                                 ELSE Armies(pl_tinfo[u], n)]
                  /\ UNCHANGED pl_owner
    BY <1>5 DEF P!pop_one_planet, Armies, Deserted
  <2>1. /\ UNCHANGED <<PLFUEL, pl_hinfo, untold>> /\ updated' = FALSE
        /\ pl_armies' \in Int /\ pl_tinfo' = [u \in Team |-> pl_tinfo'[u]]
        /\ pl_owner' = IF pl_armies' = 0 THEN NOBODY ELSE pl_owner
        /\ \A u \in Team : pl_tinfo'[u] = IF u # pl_owner THEN pl_tinfo[u]
                                          ELSE IF pl_armies' = 0 THEN Deserted(pl_tinfo[u])
                                          ELSE Armies(pl_tinfo[u], pl_armies')
    <3>1. UNCHANGED <<PLFUEL, pl_hinfo, untold>> /\ updated' = FALSE
      BY <1>5 DEF P!pop_one_planet
    <3>2. CASE n = 0
      BY <2>0, <3>1, <3>2
    <3>3. CASE n # 0
      BY <2>0, <3>1, <3>3
    <3>4. QED
      BY <3>2, <3>3
  <2>2. ASSUME NEW u \in Team
        PROVE  pl_tinfo'[u] \in Info /\ (Told(u) => Told(u)')
    <3>1. pl_tinfo'[u] \in Info
      BY <1>b, <1>c, <2>1, <1>h, ArmiesTold, FuelTold, LossTold, OthersTold
    <3>2. Told(u) => Told(u)'
      BY <1>b, <1>c, <2>1, <1>h, ArmiesTold, FuelTold, LossTold, OthersTold DEF Told
    <3>3. QED
      BY <3>1, <3>2
  <2>3. pl_owner' \in P!Owners /\ pl_armies' \in Int /\ PLFUEL' \in BOOLEAN
    BY <1>c, <1>h, <2>1
  <2>4. QED
    BY <1>a, <2>1, <2>2, <2>3
<1>6. CASE P!revolt
  <2>1. /\ UNCHANGED <<PLFUEL, pl_hinfo, untold>> /\ updated' = FALSE
        /\ pl_armies' = 1 /\ pl_tinfo' = [u \in Team |-> pl_tinfo'[u]]
        /\ \/ /\ pl_owner' = pl_owner
              /\ \A u \in Team : pl_tinfo'[u] = IF u # pl_owner THEN pl_tinfo[u]
                                                ELSE Armies(pl_tinfo[u], 1)
           \/ /\ pl_owner' = NOBODY
              /\ \A u \in Team : pl_tinfo'[u] = IF u # pl_owner THEN pl_tinfo[u]
                                                ELSE Nobodys(pl_tinfo[u])
    BY <1>6, <1>0 DEF P!revolt, P!Lost, TellsTypes, Armies, Nobodys
  <2>2. ASSUME NEW u \in Team
        PROVE  pl_tinfo'[u] \in Info /\ (Told(u) => Told(u)')
    <3>1. pl_tinfo'[u] \in Info
      BY <1>b, <1>c, <2>1, <1>h, ArmiesTold, FuelTold, LossTold, OthersTold
    <3>2. Told(u) => Told(u)'
      BY <1>b, <1>c, <2>1, <1>h, ArmiesTold, FuelTold, LossTold, OthersTold DEF Told
    <3>3. QED
      BY <3>1, <3>2
  <2>3. pl_owner' \in P!Owners /\ pl_armies' \in Int /\ PLFUEL' \in BOOLEAN
    BY <1>c, <1>h, <2>1
  <2>4. QED
    BY <1>a, <2>1, <2>2, <2>3
<1>7. ASSUME NEW t \in Team, P!beammeupscotty(t)
      PROVE  ToldInv'
  <2>1. /\ UNCHANGED <<PLFUEL, pl_hinfo, untold>> /\ updated' = FALSE /\ pl_owner = t
        /\ pl_armies' = pl_armies - 1 /\ pl_tinfo' = [u \in Team |-> pl_tinfo'[u]]
        /\ pl_owner' = IF pl_armies = 1 THEN NOBODY ELSE pl_owner
        /\ \A u \in Team : pl_tinfo'[u] =
             IF u # t THEN pl_tinfo[u]
             ELSE IF pl_armies = 1 THEN Nobodys(Armies(pl_tinfo[u], pl_armies - 1))
             ELSE Armies(pl_tinfo[u], pl_armies - 1)
    BY <1>7, <1>0 DEF P!beammeupscotty, P!Lost, TellsTypes, Armies, Nobodys
  <2>2. ASSUME NEW u \in Team
        PROVE  pl_tinfo'[u] \in Info /\ (Told(u) => Told(u)')
    <3>1. pl_tinfo'[u] \in Info
      BY <1>b, <1>c, <2>1, <1>h, ArmiesTold, FuelTold, LossTold, OthersTold
    <3>2. Told(u) => Told(u)'
      BY <1>b, <1>c, <2>1, <1>h, ArmiesTold, FuelTold, LossTold, OthersTold DEF Told
    <3>3. QED
      BY <3>1, <3>2
  <2>3. pl_owner' \in P!Owners /\ pl_armies' \in Int /\ PLFUEL' \in BOOLEAN
    BY <1>c, <1>h, <2>1
  <2>4. QED
    BY <1>a, <2>1, <2>2, <2>3
<1>8. ASSUME NEW t \in Team, P!ReinforcePlanet(t)
      PROVE  ToldInv'
  <2>1. /\ UNCHANGED <<pl_owner, PLFUEL, pl_hinfo, untold>> /\ updated' = FALSE /\ pl_owner = t
        /\ pl_armies' = pl_armies + 1 /\ pl_tinfo' = [u \in Team |-> pl_tinfo'[u]]
        /\ \A u \in Team : pl_tinfo'[u] = IF u # t THEN pl_tinfo[u]
                                          ELSE Armies(pl_tinfo[u], pl_armies + 1)
    BY <1>8, <1>0 DEF P!ReinforcePlanet, TellsTypes, Armies
  <2>2. ASSUME NEW u \in Team
        PROVE  pl_tinfo'[u] \in Info /\ (Told(u) => Told(u)')
    <3>1. pl_tinfo'[u] \in Info
      BY <1>b, <1>c, <2>1, <1>h, ArmiesTold, FuelTold, LossTold, OthersTold
    <3>2. Told(u) => Told(u)'
      BY <1>b, <1>c, <2>1, <1>h, ArmiesTold, FuelTold, LossTold, OthersTold DEF Told
    <3>3. QED
      BY <3>1, <3>2
  <2>3. pl_owner' \in P!Owners /\ pl_armies' \in Int /\ PLFUEL' \in BOOLEAN
    BY <1>c, <1>h, <2>1
  <2>4. QED
    BY <1>a, <2>1, <2>2, <2>3
<1>9. ASSUME NEW t \in Team, P!InvadePlanet(t)
      PROVE  ToldInv'
  <2>1. /\ UNCHANGED <<PLFUEL, untold>> /\ updated' = FALSE /\ pl_owner # t
        /\ pl_armies' \in Int /\ pl_tinfo' = [u \in Team |-> pl_tinfo'[u]]
    <3>1. UNCHANGED <<PLFUEL, untold>> /\ updated' = FALSE /\ pl_owner # t
      BY <1>9 DEF P!InvadePlanet
    <3>2. pl_armies' \in Int
      <4>1. \E left \in {pl_armies - 1, pl_armies, 0, 1} : pl_armies' = left
        BY <1>9, Zenon DEF P!InvadePlanet
      <4>2. QED
        BY <1>c, <4>1
    <3>3. pl_tinfo' = [u \in Team |-> pl_tinfo'[u]]
      BY <1>9, <1>0 DEF P!InvadePlanet, P!Both, TellsTypes
    <3>4. QED
      BY <3>1, <3>2, <3>3
  <2>2. CASE /\ pl_owner' = pl_owner /\ pl_hinfo' = pl_hinfo
             /\ \A u \in Team : pl_tinfo'[u] = IF u \in {pl_owner, t}
                                               THEN Armies(pl_tinfo[u], pl_armies') ELSE pl_tinfo[u]
    <3>1. ASSUME NEW u \in Team
          PROVE  pl_tinfo'[u] \in Info /\ (Told(u) => Told(u)')
      <4>1. pl_tinfo'[u] \in Info
        BY <1>b, <1>c, <2>1, <2>2, <1>h, ArmiesTold, FuelTold, LossTold, OthersTold
      <4>2. Told(u) => Told(u)'
        BY <1>b, <1>c, <2>1, <2>2, <1>h, ArmiesTold, FuelTold, LossTold, OthersTold DEF Told
      <4>3. QED
        BY <4>1, <4>2
    <3>2. QED
      BY <1>a, <1>c, <1>h, <2>1, <2>2, <3>1
  <2>3. CASE /\ pl_owner' = NOBODY /\ pl_hinfo' = pl_hinfo
             /\ \A u \in Team : pl_tinfo'[u] = IF u \in {pl_owner, t}
                                               THEN Deserted(pl_tinfo[u]) ELSE pl_tinfo[u]
    <3>1. ASSUME NEW u \in Team
          PROVE  pl_tinfo'[u] \in Info /\ (Told(u) => Told(u)')
      <4>1. pl_tinfo'[u] \in Info
        BY <1>b, <1>c, <2>1, <2>3, <1>h, ArmiesTold, FuelTold, LossTold, OthersTold
      <4>2. Told(u) => Told(u)'
        BY <1>b, <1>c, <2>1, <2>3, <1>h, ArmiesTold, FuelTold, LossTold, OthersTold DEF Told
      <4>3. QED
        BY <4>1, <4>2
    <3>2. QED
      BY <1>a, <1>c, <1>h, <2>1, <2>3, <3>1
  <2>4. CASE /\ pl_armies = 0 /\ pl_armies' = 1 /\ pl_owner' = t /\ pl_hinfo' = pl_hinfo \cup {t}
             /\ pl_tinfo' = [pl_tinfo EXCEPT ![t] = [owner |-> t, armies |-> 1, fuel |-> PLFUEL]]
    <3> DEFINE i == [owner |-> t, armies |-> 1, fuel |-> PLFUEL]
    <3>1. i \in Info /\ i.owner = t /\ i.armies = 1 /\ i.fuel = PLFUEL
      BY <1>c, <1>h DEF Info
    <3> HIDE DEF i
    <3>2. \A u \in Team : pl_tinfo'[u] = IF u = t THEN i ELSE pl_tinfo[u]
      BY <2>4, <1>0 DEF TellsTypes, i
    <3>3. ASSUME NEW u \in Team
          PROVE  pl_tinfo'[u] \in Info /\ (Told(u) => Told(u)')
      <4>1. pl_tinfo'[u] \in Info
        BY <1>b, <1>c, <2>1, <2>4, <3>1, <3>2
      <4>2. Told(u) => Told(u)'
        <5>1. CASE u = t
          BY <2>1, <2>4, <3>1, <3>2, <5>1 DEF Told, Agrees
        <5>2. CASE u # t
          BY <1>c, <1>h, <2>1, <2>4, <3>2, <5>2, OthersTold DEF Told, Held
        <5>3. QED
          BY <5>1, <5>2
      <4>3. QED
        BY <4>1, <4>2
    <3>4. QED
      BY <1>a, <1>c, <1>h, <2>1, <2>4, <3>1, <3>2, <3>3
  <2>5. QED
    BY <1>9, <2>2, <2>3, <2>4 DEF P!InvadePlanet, P!Both, Armies, Deserted
<1>10. CASE P!Surrender
  BY <1>10, <1>0, <1>h DEF P!Surrender, P!told, TellsTypes, ToldInv
<1>11. CASE P!ghostmess
  BY <1>11, <1>0 DEF P!ghostmess, P!told, TellsTypes, ToldInv
<1>12. CASE P!resetgalaxy
  <2>1. PICK o \in P!Owners, armies \in {0, MAXARMIES}, fuel \in BOOLEAN : P!NewGalaxy(o, armies, fuel)
    BY <1>12 DEF P!resetgalaxy
  <2> DEFINE i == [owner |-> o, armies |-> armies, fuel |-> fuel]
  <2>2. i \in Info /\ i.owner = o /\ i.armies = armies /\ i.fuel = fuel
    BY DEF Info
  <2>3. P!NoInformation \in Info /\ P!NoInformation.owner = NOBODY
    BY <1>h DEF Info, P!NoInformation
  <2>4. /\ pl_owner' = o /\ pl_armies' = armies /\ PLFUEL' = fuel /\ pl_hinfo' = {o} \ {NOBODY}
        /\ pl_tinfo' = [t \in Team |-> IF t = o THEN i ELSE P!NoInformation]
    BY <2>1 DEF P!NewGalaxy
  <2> HIDE DEF i
  <2>5. TellsTypes' /\ Knows'
    BY <2>2, <2>3, <2>4, <1>h DEF TellsTypes, Knows, Told, Agrees
  <2>6. QED
    BY <1>12, <2>5 DEF P!resetgalaxy, ToldInv
<1>13. CASE P!starttourn
  <2>1. /\ UNCHANGED <<pl_owner, pl_armies, PLFUEL, pl_tinfo, untold>> /\ updated' = FALSE
        /\ pl_hinfo' = {pl_owner} \ {NOBODY}
    BY <1>13 DEF P!starttourn, P!planet
  <2>2. QED
    <3>1. TellsTypes'
      BY <2>1, <1>0 DEF TellsTypes
    <3>2. ASSUME NEW u \in Team, Told(u) PROVE Told(u)'
      BY <2>1, <3>2, <1>h DEF Told
    <3>3. QED
      BY <2>1, <3>1, <3>2 DEF ToldInv, Knows
<1>14. CASE P!updatePlanets
  <2>1. UNCHANGED <<pl_owner, pl_armies, PLFUEL, pl_hinfo, pl_tinfo, untold>>
    BY <1>14 DEF P!updatePlanets, P!planet, P!told
  <2>2. TellsTypes' /\ (Knows' <=> Knows) /\ P!Truth' = P!Truth
    BY <2>1, <1>0 DEF TellsTypes, Knows, Told, P!Truth
  <2>3. ASSUME Knows, pl_owner = Me
        PROVE  packet'.info /\ packet'.of = P!Truth
    <3>1. Me \in pl_hinfo /\ pl_tinfo[Me] = P!Truth
      BY <2>3, <1>0, KnowsTruth DEF Knows, Told, TeamsAssumption
    <3>2. packet' = [info |-> TRUE, of |-> P!Truth]
      BY <1>14, <3>1 DEF P!updatePlanets
    <3>3. QED
      BY <3>2
  <2>4. QED
    BY <2>1, <2>2, <2>3 DEF ToldInv
<1>15. CASE UNCHANGED P!vars
  BY <1>15 DEF P!vars, P!planet, P!told, ToldInv, TellsTypes, Knows, Told, P!Truth
<1>16. QED
  BY <1>1, <1>2, <1>3, <1>4, <1>5, <1>6, <1>7, <1>8, <1>9, <1>10, <1>11, <1>12, <1>13, <1>14, <1>15
     DEF P!Next

(* The home planet is known to its team, and no other team believes that   *)
(* it has it.                                                              *)
LEMMA ScoutInit == TeamsAssumption /\ P!Init => ToldInv /\ Held
<1> SUFFICES ASSUME TeamsAssumption, P!Init PROVE ToldInv /\ Held
  OBVIOUS
<1>1. PICK t \in Team :
        /\ pl_owner = t /\ pl_armies = MAXARMIES /\ PLFUEL = TRUE /\ pl_hinfo = {t}
        /\ pl_tinfo = [u \in Team |-> IF u = t THEN P!Truth ELSE P!NoInformation]
  BY DEF P!Init
<1>2. P!Truth \in Info /\ P!Truth.owner = t /\ P!Truth.armies = MAXARMIES /\ P!Truth.fuel = TRUE
  BY <1>1 DEF Info, P!Truth, TeamsAssumption, P!Owners
<1>3. P!NoInformation \in Info /\ P!NoInformation.owner = NOBODY
  BY DEF Info, P!NoInformation, P!Owners
<1>4. TellsTypes
  BY <1>1, <1>2, <1>3 DEF TellsTypes, TeamsAssumption, P!Owners
<1>5. Knows
  BY <1>1, <1>2, <1>3 DEF Knows, Told, Agrees, TeamsAssumption
<1>6. QED
  BY <1>1, <1>4, <1>5 DEF P!Init, ToldInv, Held, TeamsAssumption

(* The steps of the history while it is about a planet.                    *)
LEMMA ScoutNext ==
  machine = "Scouting" /\ [Next]_vars => machine' = "Scouting" /\ [P!Next]_(P!vars)
BY DEF Next, vars, Ends, planet, P!vars, P!planet, P!told

(* A team that owns a planet knows that, its armies and its facilities,    *)
(* its client shows it so after an update, and a team that believes it     *)
(* owns the planet does, whoever has bombed, taken, starved or abandoned   *)
(* it (planets.c, daemon/player.c: beaming and bombing, socket.c:          *)
(* updatePlanets): for any teams, as long as nobody surrenders and         *)
(* ghostmess() places no armies.                                           *)
THEOREM OwnersKnow ==
  ASSUME TeamsAssumption
  PROVE  Spec => []OwnerKnows
<1> DEFINE Inv == machine = "Scouting" => ToldInv /\ Held
<1>1. Init => Inv
  BY ScoutInit DEF Init
<1>2. Inv /\ [Next]_vars => Inv'
  <2>1. [Next]_vars => machine' = machine
    BY DEF Next, vars, Ends
  <2>2. QED
    BY <2>1, ScoutNext, ScoutStep, HeldStep DEF ToldInv
<1>3. Inv => OwnerKnows
  <2> SUFFICES ASSUME ToldInv, ~untold
               PROVE  /\ \A t \in Team : /\ pl_tinfo[t].owner = t <=> pl_owner = t
                                         /\ pl_owner = t => t \in pl_hinfo /\ pl_tinfo[t] = P!Truth
                      /\ updated /\ pl_owner = Me => packet.info /\ packet.of = P!Truth
    BY DEF OwnerKnows, P!OwnerKnows
  <2>1. QED
    BY KnowsTruth DEF ToldInv, Knows, Told, Agrees
<1>4. QED
  BY <1>1, <1>2, <1>3, PTL DEF Spec

-----------------------------------------------------------------------------
(***************************************************************************)
(* What is counted down for a player.  The clocks of the code run with the *)
(* clocks of the history: a request for his end is asked for as long as it *)
(* is counted, and excludes the pauses; no more is owed of a pause than is *)
(* still counted; and a clue check that counts down has been told.         *)
(***************************************************************************)
CountdownsAssumption ==
  /\ WarTime \in Nat /\ RefitTime \in Nat /\ DestructTime \in Nat
  /\ ClueDelay \in Nat \ {0} /\ ClueTime \in Nat \ {0}
  /\ Veterans \subseteq BOOLEAN /\ TRUE \notin Veterans

CountTypes ==
  /\ delay \in Int /\ rdelay \in Int /\ selfdest \in Int
  /\ owed \in Nat /\ rdue \in Nat /\ asked \in Int
  /\ p_cluedelay \in Int /\ p_cluecountdown \in Int
  /\ ~veteran

(* He has asked for his end, and the clocks agree on when it comes.        *)
AsksFor(f, timer, history) ==
  "PFSELFDEST" \in f =>
    /\ "PFWAR" \notin f /\ "PFREFITTING" \notin f
    /\ history \in Nat
    /\ history = timer \/ (history = 0 /\ timer = -1)

ClueInv(count, left, knows) == count <= 0 /\ left >= 1 => knows

CountInv ==
  /\ CountTypes
  /\ AsksFor(flags, selfdest, asked)
  /\ owed = 0 \/ owed <= delay
  /\ rdue = 0 \/ rdue <= rdelay
  /\ D!PauseServed
  /\ ClueInv(p_cluedelay, p_cluecountdown, told)

(* Nothing is counted at first.                                            *)
LEMMA CountInit ==
  ASSUME CountdownsAssumption, D!Init
  PROVE  CountInv
<1>1. ~veteran
  BY Zenon DEF CountdownsAssumption, D!Init
<1>2. /\ delay \in Int /\ rdelay \in Int /\ selfdest \in Int /\ owed \in Nat /\ rdue \in Nat
      /\ asked \in Int /\ p_cluedelay \in Int /\ p_cluecountdown \in Int
  BY DEF D!Init
<1>3. AsksFor(flags, selfdest, asked) /\ D!PauseServed /\ owed = 0 /\ rdue = 0
  BY DEF D!Init, AsksFor, D!PauseServed
<1>4. ClueInv(p_cluedelay, p_cluecountdown, told)
  BY DEF D!Init, ClueInv
<1> QED
  BY <1>1, <1>2, <1>3, <1>4 DEF CountInv, CountTypes

(* The requests of the player: what he may ask for while he is restrained  *)
(* and what he may not.                                                    *)
LEMMA RequestsCount ==
  ASSUME CountdownsAssumption, CountInv,
         D!Message \/ D!Quit \/ D!declare_war \/ D!do_refit \/ D!fire \/ D!accept_cluecheck
  PROVE  CountInv' /\ D!Justified /\ D!BlastedTold
<1> USE DEF CountdownsAssumption, CountInv, CountTypes, D!PauseServed, D!Justified, D!Destroys,
            D!BlastedTold, AsksFor, ClueInv
<1>1. CASE D!Message
  BY <1>1 DEF D!Message, D!ship, D!timers, D!clue, D!waits
<1>2. CASE D!Quit
  BY <1>2 DEF D!Quit, D!ship, D!clue, D!waits, D!Allowed, D!Restrained
<1>3. CASE D!declare_war
  BY <1>3 DEF D!declare_war, D!ship, D!clue, D!Allowed, D!Restrained
<1>4. CASE D!do_refit
  BY <1>4 DEF D!do_refit, D!clue, D!Allowed, D!Restrained
<1>5. CASE D!fire
  BY <1>5 DEF D!fire, D!timers, D!clue, D!waits, D!Allowed, D!Restrained
<1>6. CASE D!accept_cluecheck
  BY <1>6 DEF D!accept_cluecheck, D!ship, D!timers, D!waits
<1> QED
  BY <1>1, <1>2, <1>3, <1>4, <1>5, <1>6

(* The daemon, and what others do to the ship.                             *)
LEMMA OthersCount ==
  ASSUME CountdownsAssumption, CountInv,
         D!udplayers \/ D!Hurt \/ D!Well \/ D!TorpsGone
         \/ (\E changes \in BOOLEAN : D!enter(changes)) \/ UNCHANGED D!vars
  PROVE  CountInv' /\ D!Justified /\ D!BlastedTold
<1> USE DEF CountdownsAssumption, CountInv, CountTypes, D!PauseServed, D!Justified, D!Destroys,
            D!BlastedTold, AsksFor, ClueInv, D!ship, D!timers, D!clue, D!waits
<1>1. CASE D!udplayers
  <2>1. CASE p_status = "PALIVE" /\ UNCHANGED flags
             /\ delay' = D!Less(delay) /\ rdelay' = D!Less(rdelay) /\ selfdest' = D!Less(selfdest)
             /\ owed' = D!LessTo0(owed) /\ rdue' = D!LessTo0(rdue)
             /\ asked' = (IF asked > 0 THEN asked - 1 ELSE asked)
             /\ UNCHANGED <<p_whydead, unhurt, veteran, p_cluedelay, p_cluecountdown, told>>
    BY <2>1 DEF D!Less, D!LessTo0
  <2>2. CASE UNCHANGED <<p_whydead, unhurt, flags, D!timers, D!clue, D!waits, asked>>
    BY <2>2
  <2> QED
    BY <1>1, <2>1, <2>2 DEF D!udplayers
<1>2. CASE D!Hurt
  BY <1>2 DEF D!Hurt
<1>3. CASE D!Well
  BY <1>3 DEF D!Well
<1>4. CASE D!TorpsGone
  BY <1>4 DEF D!TorpsGone
<1>5. CASE \E changes \in BOOLEAN : D!enter(changes)
  BY <1>5 DEF D!enter
<1>6. CASE UNCHANGED D!vars
  BY <1>6 DEF D!vars
<1> QED
  BY <1>1, <1>2, <1>3, <1>4, <1>5, <1>6

(* What one update of the player's process carries from function to        *)
(* function.                                                               *)
Update(s, e, w, f, d, c, t, b) ==
  [status |-> s, explode |-> e, why |-> w, flags |-> f,
   cluedelay |-> d, cluecountdown |-> c, told |-> t, blasted |-> b]

(* What such a record has in its fields, and what the functions change.    *)
LEMMA UpdateFields ==
  ASSUME NEW s, NEW e, NEW w, NEW f, NEW d, NEW c, NEW t, NEW b
  PROVE  LET u == Update(s, e, w, f, d, c, t, b) IN
           /\ u.status = s /\ u.flags = f /\ u.cluedelay = d /\ u.cluecountdown = c
           /\ u.told = t /\ u.blasted = b
BY DEF Update

WithFlags(u, x) == [u EXCEPT !.flags = x]

(* Changing one or several fields of an update changes these only.         *)
LEMMA FlagsChanged ==
  ASSUME NEW s, NEW e, NEW w, NEW f, NEW d, NEW c, NEW t, NEW b, NEW x
  PROVE  WithFlags(Update(s, e, w, f, d, c, t, b), x)
           = Update(s, e, w, x, d, c, t, b)
BY DEF WithFlags, Update

WithDelay(u, x) == [u EXCEPT !.cluedelay = x]

(* The delay of the clue check.                                            *)
LEMMA DelayChanged ==
  ASSUME NEW s, NEW e, NEW w, NEW f, NEW d, NEW c, NEW t, NEW b, NEW x
  PROVE  WithDelay(Update(s, e, w, f, d, c, t, b), x)
           = Update(s, e, w, f, x, c, t, b)
BY DEF WithDelay, Update

WithCount(u, x) == [u EXCEPT !.cluecountdown = x]

(* Its countdown.                                                          *)
LEMMA CountChanged ==
  ASSUME NEW s, NEW e, NEW w, NEW f, NEW d, NEW c, NEW t, NEW b, NEW x
  PROVE  WithCount(Update(s, e, w, f, d, c, t, b), x)
           = Update(s, e, w, f, d, x, t, b)
BY DEF WithCount, Update

WithTold(u, x, y) == [u EXCEPT !.cluecountdown = x, !.told = y]

(* The countdown, and that he was told.                                    *)
LEMMA TellChanged ==
  ASSUME NEW s, NEW e, NEW w, NEW f, NEW d, NEW c, NEW t, NEW b, NEW x, NEW y
  PROVE  WithTold(Update(s, e, w, f, d, c, t, b), x, y)
           = Update(s, e, w, f, d, x, y, b)
<1> DEFINE v1 == [Update(s, e, w, f, d, c, t, b) EXCEPT !.cluecountdown = x]
<1>1. v1 = Update(s, e, w, f, d, x, t, b)
  BY DEF Update
<1>2. [v1 EXCEPT !.told = y] = Update(s, e, w, f, d, x, y, b)
  <2> HIDE DEF v1
  <2> QED
    BY <1>1 DEF Update
<1>3. WithTold(Update(s, e, w, f, d, c, t, b), x, y) = [v1 EXCEPT !.told = y]
  BY DEF WithTold
<1> QED
  <2> HIDE DEF v1
  <2> QED
    BY <1>2, <1>3

WithBlast(u, x, y) == [u EXCEPT !.cluecountdown = x, !.blasted = y]

(* The countdown, and that he was blasted.                                 *)
LEMMA BlastChanged ==
  ASSUME NEW s, NEW e, NEW w, NEW f, NEW d, NEW c, NEW t, NEW b, NEW x, NEW y
  PROVE  WithBlast(Update(s, e, w, f, d, c, t, b), x, y)
           = Update(s, e, w, f, d, x, t, y)
<1> DEFINE v1 == [Update(s, e, w, f, d, c, t, b) EXCEPT !.cluecountdown = x]
<1>1. v1 = Update(s, e, w, f, d, x, t, b)
  BY DEF Update
<1>2. [v1 EXCEPT !.blasted = y] = Update(s, e, w, f, d, x, t, y)
  <2> HIDE DEF v1
  <2> QED
    BY <1>1 DEF Update
<1>3. WithBlast(Update(s, e, w, f, d, c, t, b), x, y) = [v1 EXCEPT !.blasted = y]
  BY DEF WithBlast
<1> QED
  <2> HIDE DEF v1
  <2> QED
    BY <1>2, <1>3

WithStatus(u, x, y) == [u EXCEPT !.status = x, !.flags = y]

(* The status and the flags.                                               *)
LEMMA LeaveChanged ==
  ASSUME NEW s, NEW e, NEW w, NEW f, NEW d, NEW c, NEW t, NEW b, NEW x, NEW y
  PROVE  WithStatus(Update(s, e, w, f, d, c, t, b), x, y)
           = Update(x, e, w, y, d, c, t, b)
<1> DEFINE v1 == [Update(s, e, w, f, d, c, t, b) EXCEPT !.status = x]
<1>1. v1 = Update(x, e, w, f, d, c, t, b)
  BY DEF Update
<1>2. [v1 EXCEPT !.flags = y] = Update(x, e, w, y, d, c, t, b)
  <2> HIDE DEF v1
  <2> QED
    BY <1>1 DEF Update
<1>3. WithStatus(Update(s, e, w, f, d, c, t, b), x, y) = [v1 EXCEPT !.flags = y]
  BY DEF WithStatus
<1> QED
  <2> HIDE DEF v1
  <2> QED
    BY <1>2, <1>3

WithBoom(u, x, y, z) == [u EXCEPT !.status = x, !.explode = y, !.why = z]

(* What an explosion sets.                                                 *)
LEMMA BoomChanged ==
  ASSUME NEW s, NEW e, NEW w, NEW f, NEW d, NEW c, NEW t, NEW b, NEW x, NEW y, NEW z
  PROVE  WithBoom(Update(s, e, w, f, d, c, t, b), x, y, z)
           = Update(x, y, z, f, d, c, t, b)
<1> DEFINE v1 == [Update(s, e, w, f, d, c, t, b) EXCEPT !.status = x]
           v2 == [v1 EXCEPT !.explode = y]
<1>1. v1 = Update(x, e, w, f, d, c, t, b)
  BY DEF Update
<1>2. v2 = Update(x, y, w, f, d, c, t, b)
  <2> HIDE DEF v1
  <2> QED
    BY <1>1 DEF Update
<1>3. [v2 EXCEPT !.why = z] = Update(x, y, z, f, d, c, t, b)
  <2> HIDE DEF v1, v2
  <2> QED
    BY <1>2 DEF Update
<1>4. WithBoom(Update(s, e, w, f, d, c, t, b), x, y, z) = [v2 EXCEPT !.why = z]
  BY DEF WithBoom
<1> QED
  <2> HIDE DEF v1, v2
  <2> QED
    BY <1>3, <1>4

(* A ship that explodes: what is counted for its player stays.             *)
LEMMA ExplodesChanged ==
  ASSUME NEW s, NEW e, NEW w, NEW f, NEW d, NEW c, NEW t, NEW b
  PROVE  D!Explodes(Update(s, e, w, f, d, c, t, b)) = Update("PEXPLODE", ExplodeTime, "KQUIT", f, d, c, t, b)
<1>1. D!Explodes(Update(s, e, w, f, d, c, t, b)) = WithBoom(Update(s, e, w, f, d, c, t, b), "PEXPLODE", ExplodeTime, "KQUIT")
  BY DEF D!Explodes, WithBoom
<1> QED
  BY <1>1, BoomChanged

Blasted(u) == [u EXCEPT !.cluecountdown = 0, !.blasted = TRUE]

(* Who is blasted is marked so, and his countdown is over.                 *)
LEMMA BlastedIs ==
  ASSUME NEW s, NEW e, NEW w, NEW f, NEW d, NEW c, NEW t, NEW b
  PROVE  \E yes : yes /\ Blasted(Update(s, e, w, f, d, c, t, b)) = Update(s, e, w, f, d, 0, t, yes)
<1>1. PICK yes : yes = TRUE
  OBVIOUS
<1>2. Blasted(Update(s, e, w, f, d, c, t, b)) = WithBlast(Update(s, e, w, f, d, c, t, b), 0, yes)
  BY <1>1, Zenon DEF Blasted, WithBlast
<1>3. WithBlast(Update(s, e, w, f, d, c, t, b), 0, yes) = Update(s, e, w, f, d, 0, t, yes)
  BY BlastChanged
<1>4. yes
  BY <1>1
<1> QED
  BY <1>2, <1>3, <1>4, Zenon

(* Who is asked is told.                                                   *)
LEMMA DemandIs ==
  ASSUME NEW s, NEW e, NEW w, NEW f, NEW d, NEW c, NEW t, NEW b
  PROVE  \E yes : yes /\ D!Demand(Update(s, e, w, f, d, c, t, b)) = Update(s, e, w, f, d, ClueTime, yes, b)
<1>1. PICK yes : yes = TRUE
  OBVIOUS
<1>2. D!Demand(Update(s, e, w, f, d, c, t, b)) = WithTold(Update(s, e, w, f, d, c, t, b), ClueTime, yes)
  BY <1>1, Zenon DEF D!Demand, WithTold
<1>3. WithTold(Update(s, e, w, f, d, c, t, b), ClueTime, yes) = Update(s, e, w, f, d, ClueTime, yes, b)
  BY TellChanged
<1>4. yes
  BY <1>1
<1> QED
  BY <1>2, <1>3, <1>4, Zenon

(* Delayed(): he is asked when the delay is over.                           *)
LEMMA DelayedIs ==
  ASSUME ~veteran, NEW u, NEW less, WithDelay(u, u.cluedelay - 1) = less
  PROVE  /\ less.cluedelay >= 1 /\ ~(less.cluedelay < 1) => D!Delayed(u) = {less}
         /\ less.cluedelay < 1 /\ ~(less.cluedelay >= 1) => D!Delayed(u) = {D!Demand(less)}
BY Zenon DEF D!Delayed, WithDelay

(* Of a new update nobody has been blasted.                                *)
LEMMA NowIs == \E b : ~b /\ D!Now = Update(p_status, p_explode, p_whydead, flags, p_cluedelay, p_cluecountdown, told, b)
<1>1. D!Now = Update(p_status, p_explode, p_whydead, flags, p_cluedelay, p_cluecountdown, told, FALSE)
  BY Zenon DEF D!Now, Update
<1> QED
  BY <1>1, Zenon

(* death(): the pauses end with the ship.                                  *)
LEMMA DeathIs ==
  ASSUME NEW s0, NEW e, NEW w, NEW f0, NEW d, NEW c, NEW t, NEW b
  PROVE  \E s, f :
           /\ D!death(Update(s0, e, w, f0, d, c, t, b)) = Update(s, e, w, f, d, c, t, b)
           /\ f = f0 \/ (s = "POUTFIT" /\ f = f0 \ {"PFWAR", "PFREFITTING"})
<1> DEFINE u == Update(s0, e, w, f0, d, c, t, b)
<1>1. u.flags = f0
  BY UpdateFields
<1>2. CASE u.status \in {"PDEAD", "POUTFIT"} /\ ~torps
  <2>1. D!death(u) = WithStatus(u, "POUTFIT", u.flags \ {"PFWAR", "PFREFITTING"})
    BY <1>2, Zenon DEF D!death, WithStatus
  <2>2. D!death(u) = Update("POUTFIT", e, w, f0 \ {"PFWAR", "PFREFITTING"}, d, c, t, b)
    BY <1>1, <2>1, LeaveChanged
  <2> QED
    BY <2>2
<1>3. CASE ~(u.status \in {"PDEAD", "POUTFIT"} /\ ~torps)
  <2>1. D!death(u) = u
    BY <1>3, Zenon DEF D!death
  <2> QED
    BY <2>1
<1> QED
  BY <1>2, <1>3

(* selfdestruct_countdown(): only if he has asked for it, and the time is  *)
(* up or the ship unhurt.                                                  *)
LEMMA SelfdestructIs ==
  ASSUME NEW s, NEW e, NEW w, NEW f, NEW d, NEW c, NEW t, NEW b
  PROVE  \E s2, e2, w2, f2 :
           /\ D!selfdestruct_countdown(Update(s, e, w, f, d, c, t, b)) = Update(s2, e2, w2, f2, d, c, t, b)
           /\ \/ s2 = s /\ f2 = f
              \/ /\ s2 = "PEXPLODE" /\ f2 = f \ {"PFSELFDEST"}
                 /\ "PFSELFDEST" \in f /\ (selfdest <= 0 \/ unhurt)
<1> DEFINE u == Update(s, e, w, f, d, c, t, b)
<1>1. u.flags = f
  BY UpdateFields
<1>2. CASE "PFSELFDEST" \in f /\ (selfdest <= 0 \/ unhurt)
  <2>1. D!selfdestruct_countdown(u) = D!Explodes(WithFlags(u, f \ {"PFSELFDEST"}))
    BY <1>1, <1>2, Zenon DEF D!selfdestruct_countdown, WithFlags
  <2>2. D!selfdestruct_countdown(u)
          = Update("PEXPLODE", ExplodeTime, "KQUIT", f \ {"PFSELFDEST"}, d, c, t, b)
    BY <2>1, FlagsChanged, ExplodesChanged
  <2> QED
    BY <1>2, <2>2
<1>3. CASE ~("PFSELFDEST" \in f /\ (selfdest <= 0 \/ unhurt))
  <2>1. D!selfdestruct_countdown(u) = u
    BY <1>1, <1>3, Zenon DEF D!selfdestruct_countdown
  <2> QED
    BY <2>1
<1> QED
  BY <1>2, <1>3

(* countdown_clue(): a check that counts down has been told, and one that  *)
(* is over was told as long as it counted.                                 *)
LEMMA ClueIs ==
  ASSUME CountdownsAssumption, ~veteran,
         NEW s, NEW e, NEW w, NEW f, NEW d \in Int, NEW c \in Int, NEW t, NEW b, ~b,
         ClueInv(d, c, t),
         NEW v \in D!countdown_clue(Update(s, e, w, f, d, c, t, b))
  PROVE  \E s2, e2, w2, t2, b2 : \E d2 \in Int : \E c2 \in Int :
           /\ v = Update(s2, e2, w2, f, d2, c2, t2, b2)
           /\ s = "POUTFIT" => s2 = "POUTFIT"
           /\ ClueInv(d2, c2, t2 /\ ~b2)
           /\ c = 1 /\ c2 = 0 => t
<1> DEFINE u == Update(s, e, w, f, d, c, t, b)
<1>1. u.status = s /\ u.cluedelay = d /\ u.cluecountdown = c
  BY UpdateFields
<1>2. ClueDelay \in Nat \ {0} /\ ClueTime \in Nat \ {0}
  BY DEF CountdownsAssumption
<1>3. CASE s = "POUTFIT"
  <2>1. v = u
    BY <1>1, <1>3 DEF D!countdown_clue
  <2> QED
    BY <1>3, <2>1 DEF ClueInv
<1>4. CASE s # "POUTFIT" /\ d > 0
  <2> DEFINE less == Update(s, e, w, f, d - 1, c, t, b)
  <2>1. D!countdown_clue(u) = D!Delayed(u)
    <3> HIDE DEF u
    <3> QED
      BY <1>1, <1>4 DEF D!countdown_clue
  <2>2. WithDelay(u, u.cluedelay - 1) = less /\ less.cluedelay = d - 1
    BY <1>1, DelayChanged, UpdateFields
  <2>4. CASE d - 1 >= 1
    <3>1. v = less
      <4>1. less.cluedelay >= 1 /\ ~(less.cluedelay < 1)
        BY <2>2, <2>4
      <4>2. D!Delayed(u) = {less}
        <5> HIDE DEF u, less
        <5> QED
          BY <2>2, <4>1, DelayedIs
      <4>3. v \in D!countdown_clue(u)
        OBVIOUS
      <4> QED
        <5> HIDE DEF u, less
        <5> QED
          BY <2>1, <4>2, <4>3
    <3>2. ClueInv(d - 1, c, t /\ ~b)
      BY <2>4 DEF ClueInv
    <3> QED
      BY <1>4, <3>1, <3>2
  <2>5. CASE ~(d - 1 >= 1)
    <3>1. v = D!Demand(less)
      <4>1. less.cluedelay < 1 /\ ~(less.cluedelay >= 1)
        BY <2>2, <2>5
      <4>2. D!Delayed(u) = {D!Demand(less)}
        <5> HIDE DEF u, less
        <5> QED
          BY <2>2, <4>1, DelayedIs
      <4>3. v \in D!countdown_clue(u)
        OBVIOUS
      <4> QED
        <5> HIDE DEF u, less
        <5> QED
          BY <2>1, <4>2, <4>3
    <3>2. PICK yes : yes /\ v = Update(s, e, w, f, d - 1, ClueTime, yes, b)
      BY <3>1, DemandIs
    <3>3. ClueInv(d - 1, ClueTime, yes /\ ~b)
      BY <3>2 DEF ClueInv
    <3>4. ClueTime \in Int /\ d - 1 \in Int
      BY <1>2
    <3>5. c = 1 /\ ClueTime = 0 => t
      BY <1>2
    <3>6. v = Update(s, e, w, f, d - 1, ClueTime, yes, b)
      BY <3>2
    <3> QED
      BY <3>3, <3>4, <3>5, <3>6, Zenon
  <2> QED
    BY <2>4, <2>5
<1>5. CASE s # "POUTFIT" /\ d <= 0 /\ c > 1
  <2>1. D!countdown_clue(u) = {WithCount(u, u.cluecountdown - 1)}
    <3> HIDE DEF u
    <3> QED
      BY <1>1, <1>5 DEF D!countdown_clue, WithCount
  <2>2. v = Update(s, e, w, f, d, c - 1, t, b)
    BY <1>1, <2>1, CountChanged
  <2>3. c - 1 \in Int /\ ClueInv(d, c - 1, t /\ ~b)
    BY <1>5 DEF ClueInv
  <2>4. c # 1
    BY <1>5
  <2> QED
    BY <1>5, <2>2, <2>3, <2>4, Zenon
<1>6. CASE s # "POUTFIT" /\ d <= 0 /\ c = 1
  <2>1. D!countdown_clue(u) = {Blasted(D!Explodes(u))}
    <3> HIDE DEF u
    <3> QED
      BY <1>1, <1>6 DEF D!countdown_clue, Blasted
  <2>2. PICK yes : yes /\ v = Update("PEXPLODE", ExplodeTime, "KQUIT", f, d, 0, t, yes)
    BY <2>1, ExplodesChanged, BlastedIs
  <2>3. t
    BY <1>6 DEF ClueInv
  <2>4. 0 \in Int /\ ClueInv(d, 0, t /\ ~yes)
    BY DEF ClueInv
  <2> QED
    BY <1>6, <2>2, <2>3, <2>4, Zenon
<1>7. CASE s # "POUTFIT" /\ d <= 0 /\ c < 1
  <2>1. D!countdown_clue(u) = {WithDelay(u, ClueDelay)}
    <3> HIDE DEF u
    <3> QED
      BY <1>1, <1>7 DEF D!countdown_clue, WithDelay
  <2>2. v = Update(s, e, w, f, ClueDelay, c, t, b)
    BY <2>1, DelayChanged
  <2>3. ClueDelay \in Int /\ ClueInv(ClueDelay, c, t /\ ~b) /\ c # 1
    BY <1>2, <1>7 DEF ClueInv
  <2> QED
    BY <1>7, <2>2, <2>3, Zenon
<1> QED
  BY <1>3, <1>4, <1>5, <1>6, <1>7

(* An update of the player's process: intrupt().                           *)
LEMMA UpdateCounts ==
  ASSUME CountdownsAssumption, CountInv, D!intrupt
  PROVE  CountInv' /\ D!Justified /\ D!BlastedTold
<1>1. /\ CountTypes /\ AsksFor(flags, selfdest, asked) /\ D!PauseServed
      /\ owed = 0 \/ owed <= delay
      /\ rdue = 0 \/ rdue <= rdelay
      /\ ClueInv(p_cluedelay, p_cluecountdown, told)
  BY DEF CountInv
<1>2. PICK v \in D!countdown_clue(D!selfdestruct_countdown(D!death(D!Now))) :
        /\ p_cluedelay' = v.cluedelay /\ p_cluecountdown' = v.cluecountdown
        /\ flags' = D!Resumed(v.flags)
        /\ told' = (v.told /\ ~v.blasted)
        /\ IF v.status = "POUTFIT" THEN owed' = 0 /\ rdue' = 0 ELSE UNCHANGED D!waits
  BY DEF D!intrupt
<1>3. UNCHANGED <<unhurt, D!timers, veteran, asked>>
  BY DEF D!intrupt
<1>4. PICK b : ~b /\ D!Now = Update(p_status, p_explode, p_whydead, flags, p_cluedelay,
                                     p_cluecountdown, told, b)
  BY NowIs
<1>5. PICK s, f :
        /\ D!death(D!Now) = Update(s, p_explode, p_whydead, f, p_cluedelay, p_cluecountdown, told, b)
        /\ f = flags \/ (s = "POUTFIT" /\ f = flags \ {"PFWAR", "PFREFITTING"})
  BY <1>4, DeathIs
<1>6. PICK s2, e2, w2, f2 :
        /\ D!selfdestruct_countdown(D!death(D!Now))
             = Update(s2, e2, w2, f2, p_cluedelay, p_cluecountdown, told, b)
        /\ \/ s2 = s /\ f2 = f
           \/ /\ s2 = "PEXPLODE" /\ f2 = f \ {"PFSELFDEST"}
              /\ "PFSELFDEST" \in f /\ (selfdest <= 0 \/ unhurt)
  BY <1>5, SelfdestructIs
<1>7. /\ v \in D!countdown_clue(Update(s2, e2, w2, f2, p_cluedelay, p_cluecountdown, told, b))
      /\ p_cluedelay \in Int /\ p_cluecountdown \in Int /\ ~veteran
  BY <1>1, <1>2, <1>6 DEF CountTypes
<1>8. PICK s3, e3, w3, t3, b3 : \E d3 \in Int : \E c3 \in Int :
        /\ v = Update(s3, e3, w3, f2, d3, c3, t3, b3)
        /\ s2 = "POUTFIT" => s3 = "POUTFIT"
        /\ ClueInv(d3, c3, t3 /\ ~b3)
        /\ p_cluecountdown = 1 /\ c3 = 0 => told
  BY <1>1, <1>4, <1>7, ClueIs
<1>9. PICK d3 \in Int, c3 \in Int :
        /\ v = Update(s3, e3, w3, f2, d3, c3, t3, b3)
        /\ s2 = "POUTFIT" => s3 = "POUTFIT"
        /\ ClueInv(d3, c3, t3 /\ ~b3)
        /\ p_cluecountdown = 1 /\ c3 = 0 => told
  BY <1>8
<1>10. /\ v.status = s3 /\ v.flags = f2 /\ v.cluedelay = d3 /\ v.cluecountdown = c3
       /\ v.told = t3 /\ v.blasted = b3
  BY <1>9, UpdateFields
<1>11. /\ p_cluedelay' = d3 /\ p_cluecountdown' = c3 /\ flags' = D!Resumed(f2)
       /\ told' = (t3 /\ ~b3)
       /\ IF s3 = "POUTFIT" THEN owed' = 0 /\ rdue' = 0 ELSE UNCHANGED <<owed, rdue>>
       /\ UNCHANGED <<unhurt, delay, rdelay, selfdest, veteran, asked>>
  <2>1. p_cluedelay' = d3 /\ p_cluecountdown' = c3 /\ flags' = D!Resumed(f2)
    BY <1>2, <1>10
  <2>2. told' = (t3 /\ ~b3)
    BY <1>2, <1>10
  <2>3. IF s3 = "POUTFIT" THEN owed' = 0 /\ rdue' = 0 ELSE UNCHANGED <<owed, rdue>>
    BY <1>2, <1>10 DEF D!waits
  <2>4. UNCHANGED <<unhurt, delay, rdelay, selfdest, veteran, asked>>
    BY <1>3 DEF D!timers
  <2> QED
    BY <2>1, <2>2, <2>3, <2>4
<1>12. CountTypes'
  <2>1. ~veteran'
    BY <1>3, <1>7
  <2>2. owed' \in Nat /\ rdue' \in Nat
    BY <1>1, <1>11 DEF CountTypes
  <2> QED
    BY <1>1, <1>9, <1>11, <2>1, <2>2 DEF CountTypes
<1>13. ClueInv(p_cluedelay', p_cluecountdown', told')
  <2>1. d3 <= 0 /\ c3 >= 1 => t3 /\ ~b3
    BY <1>9 DEF ClueInv
  <2>2. d3 <= 0 /\ c3 >= 1 => told'
    BY <1>11, <2>1
  <2> QED
    BY <1>11, <2>2 DEF ClueInv
<1>14. AsksFor(flags', selfdest', asked')
  <2>1. "PFSELFDEST" \in flags' => "PFSELFDEST" \in flags
    BY <1>5, <1>6, <1>11 DEF D!Resumed
  <2>2. "PFWAR" \in flags' => "PFWAR" \in flags
    BY <1>5, <1>6, <1>11 DEF D!Resumed
  <2>3. "PFREFITTING" \in flags' => "PFREFITTING" \in flags
    BY <1>5, <1>6, <1>11 DEF D!Resumed
  <2> QED
    BY <1>1, <1>11, <2>1, <2>2, <2>3 DEF AsksFor
<1>15. /\ owed' = 0 \/ owed' <= delay'
       /\ rdue' = 0 \/ rdue' <= rdelay'
  BY <1>1, <1>11
<1>16. D!PauseServed'
  <2>1. CASE s3 = "POUTFIT"
    BY <1>11, <2>1 DEF D!PauseServed
  <2>2. CASE s3 # "POUTFIT"
    <3>1. UNCHANGED <<owed, rdue>> /\ s2 # "POUTFIT"
      BY <1>9, <1>11, <2>2
    <3>2. CASE f = flags
      <4>1. "PFWAR" \in flags /\ "PFWAR" \notin flags' => delay < 0
        BY <1>6, <1>11, <3>2 DEF D!Resumed
      <4>2. "PFREFITTING" \in flags /\ "PFREFITTING" \notin flags' => rdelay < 0
        BY <1>6, <1>11, <3>2 DEF D!Resumed
      <4> QED
        BY <1>1, <3>1, <4>1, <4>2 DEF D!PauseServed, CountTypes
    <3>3. CASE s = "POUTFIT" /\ f = flags \ {"PFWAR", "PFREFITTING"}
      <4>1. "PFSELFDEST" \in flags
        BY <1>6, <3>1, <3>3
      <4>2. owed = 0 /\ rdue = 0
        BY <1>1, <4>1 DEF AsksFor, D!PauseServed
      <4> QED
        BY <3>1, <4>2 DEF D!PauseServed
    <3> QED
      BY <1>5, <3>2, <3>3
  <2> QED
    BY <2>1, <2>2
<1>17. D!Justified
  <2>1. "PFSELFDEST" \in flags /\ "PFSELFDEST" \notin flags' => selfdest <= 0 \/ unhurt
    BY <1>5, <1>6, <1>11 DEF D!Resumed
  <2> QED
    BY <1>1, <2>1 DEF D!Justified, D!Destroys, AsksFor, CountTypes
<1>18. D!BlastedTold
  BY <1>9, <1>11 DEF D!BlastedTold
<1> QED
  BY <1>12, <1>13, <1>14, <1>15, <1>16, <1>17, <1>18 DEF CountInv

(* Every step keeps the invariant, and does what it may.                   *)
LEMMA CountdownStep ==
  ASSUME CountdownsAssumption, CountInv, [D!Next]_(D!vars)
  PROVE  CountInv' /\ D!Justified /\ D!BlastedTold
<1>1. CASE D!Message \/ D!Quit \/ D!declare_war \/ D!do_refit \/ D!fire \/ D!accept_cluecheck
  BY <1>1, RequestsCount
<1>2. CASE D!intrupt
  BY <1>2, UpdateCounts
<1>3. CASE D!udplayers \/ D!Hurt \/ D!Well \/ D!TorpsGone
           \/ (\E changes \in BOOLEAN : D!enter(changes)) \/ UNCHANGED D!vars
  BY <1>3, OthersCount
<1> QED
  BY <1>1, <1>2, <1>3 DEF D!Next

(* The steps of the history while it is about what is counted down.        *)
LEMMA CountNext ==
  machine = "Countdowns" /\ [Next]_vars => machine' = "Countdowns" /\ [D!Next]_(D!vars)
BY DEF Next, vars, Ends, clock, D!vars, D!ship, D!timers, D!clue, D!waits

(* A ship destroys itself only if its player's last request was for that   *)
(* and the time it takes is over, or the ship is unhurt; nobody is blasted *)
(* for a clue check that he was not told of or has answered; and whoever   *)
(* declares war or refits gives no other command before the pause is       *)
(* over (redraw.c: intrupt, input.c, cluecheck.c): for pauses and times of *)
(* any length, for a player who is asked every time.                       *)
THEOREM CountdownsRun ==
  ASSUME CountdownsAssumption
  PROVE  Spec => CountedDown
<1> DEFINE Inv == machine = "Countdowns" => CountInv
           Step == machine = "Countdowns" => D!Justified /\ D!BlastedTold /\ D!PauseServed'
<1>1. Init => Inv
  BY CountInit DEF Init
<1>2. Inv /\ [Next]_vars => Inv' /\ Step
  <2>1. [Next]_vars => machine' = machine
    BY DEF Next, vars, Ends
  <2>2. machine = "Countdowns" /\ CountInv /\ [Next]_vars => CountInv' /\ D!Justified /\ D!BlastedTold
    BY CountNext, CountdownStep
  <2>3. CountInv' => D!PauseServed'
    BY DEF CountInv
  <2> QED
    BY <2>1, <2>2, <2>3
<1>3. CountedDown <=> [][Step]_vars
  BY DEF CountedDown
<1> HIDE DEF Step
<1> QED
  BY <1>1, <1>2, <1>3, PTL DEF Spec

-----------------------------------------------------------------------------
(***************************************************************************)
(* The warp drive.  As long as its preparation has rounds left, at least   *)
(* the others have been counted since its cost was paid: the rounds left   *)
(* and the rounds counted make up the whole of it.                         *)
(***************************************************************************)
WarpInv ==
  /\ p_warptime \in Int /\ counted \in Int
  /\ p_warptime <= s_warpinittime
  /\ p_warptime > 0 => counted >= s_warpinittime - p_warptime

(* What the daemon carries from function to function in one round.         *)
Helm(f, t, d) == [flags |-> f, time |-> t, des |-> d]

(* The drive is not engaged between f and g, and its preparation is        *)
(* suspended in both or in neither.                                        *)
Idles(f, g) ==
  /\ "PFWARP" \in g => "PFWARP" \in f
  /\ "PFWPSUSPENDED" \in g <=> "PFWPSUSPENDED" \in f

(* A ship that has slowed down has its drives off; its preparation goes    *)
(* on.                                                                     *)
LEMMA SlowIs ==
  ASSUME NEW f, NEW t \in Int, NEW d
  PROVE  \E g : R!Slow(Helm(f, t, d)) = Helm(g, t, d) /\ Idles(f, g)
<1> DEFINE h == Helm(f, t, d)
<1>1. h.flags = f /\ h.des = d
  BY DEF Helm
<1>2. CASE h.des <= p_speed /\ p_speed <= ImpSpeed
  <2>1. R!Slow(h) = [h EXCEPT !.flags = f \ R!Drives]
    BY <1>1, <1>2 DEF R!Slow
  <2>2. R!Slow(h) = Helm(f \ R!Drives, t, d)
    BY <2>1 DEF Helm
  <2> QED
    BY <2>2 DEF Idles, R!Drives
<1>3. CASE ~(h.des <= p_speed /\ p_speed <= ImpSpeed)
  <2>1. R!Slow(h) = h
    BY <1>3 DEF R!Slow
  <2> QED
    BY <2>1 DEF Idles
<1> QED
  BY <1>2, <1>3

(* A pull ends the preparation, or nothing happens.                        *)
LEMMA AbortIs ==
  ASSUME NEW f, NEW t \in Int, NEW d, NEW pulled \in BOOLEAN
  PROVE  \E g, u : /\ R!AbortNow(Helm(f, t, d), pulled) = Helm(g, u, d)
                   /\ Idles(f, g) /\ (u = t \/ u = 0)
<1> DEFINE h == Helm(f, t, d)
<1>1. h.flags = f /\ h.time = t
  BY DEF Helm
<1>2. CASE h.time > 0 /\ style = "TABORTNOW" /\ pulled
  <2>1. R!AbortNow(h, pulled) = [h EXCEPT !.flags = f \ {"PFWARPPREP"}, !.time = 0]
    BY <1>1, <1>2 DEF R!AbortNow
  <2>2. R!AbortNow(h, pulled) = Helm(f \ {"PFWARPPREP"}, 0, d)
    BY <2>1 DEF Helm
  <2> QED
    BY <2>2 DEF Idles
<1>3. CASE ~(h.time > 0 /\ style = "TABORTNOW" /\ pulled)
  <2>1. R!AbortNow(h, pulled) = h
    BY <1>3 DEF R!AbortNow
  <2> QED
    BY <2>1 DEF Idles
<1> QED
  BY <1>2, <1>3

(* The time is up: the drive may be engaged.                               *)
LEMMA EngageIs ==
  ASSUME NEW f, NEW t \in Int, NEW d, NEW pulled \in BOOLEAN
  PROVE  \E g, u, e : /\ R!Engage(Helm(f, t, d), pulled) = Helm(g, u, e)
                      /\ u \in {0, 1}
<1> DEFINE h == Helm(f, t, d)
           s == [h EXCEPT !.flags = h.flags \ {"PFWARPPREP"}, !.time = 0]
<1>1. s = Helm(f \ {"PFWARPPREP"}, 0, d)
  <2> DEFINE v == [h EXCEPT !.flags = h.flags \ {"PFWARPPREP"}]
  <2>1. v = Helm(f \ {"PFWARPPREP"}, t, d)
    BY DEF Helm
  <2>2. [v EXCEPT !.time = 0] = Helm(f \ {"PFWARPPREP"}, 0, d)
    <3> HIDE DEF v
    <3> QED
      BY <2>1 DEF Helm
  <2>3. s = [v EXCEPT !.time = 0]
    OBVIOUS
  <2> QED
    <3> HIDE DEF v, s
    <3> QED
      BY <2>2, <2>3
<1>2. CASE pulled /\ style = "TABORT"
  <2>1. R!Engage(h, pulled) = s
    BY <1>2 DEF R!Engage
  <2> QED
    BY <1>1, <2>1
<1>3. CASE pulled /\ style = "TPREVENT"
  <2>1. R!Engage(h, pulled) = [s EXCEPT !.time = 1]
    BY <1>3 DEF R!Engage
  <2>2. R!Engage(h, pulled) = Helm(f \ {"PFWARPPREP"}, 1, d)
    BY <1>1, <2>1 DEF Helm
  <2> QED
    BY <2>2
<1>4. CASE ~(pulled /\ style = "TABORT") /\ ~(pulled /\ style = "TPREVENT")
  <2>1. R!Engage(h, pulled) = [s EXCEPT !.flags = s.flags \cup {"PFWARP"}, !.des = p_warpdesspeed]
    BY <1>4 DEF R!Engage
  <2>2. R!Engage(h, pulled) = Helm((f \ {"PFWARPPREP"}) \cup {"PFWARP"}, 0, p_warpdesspeed)
    BY <1>1, <2>1 DEF Helm
  <2> QED
    BY <2>2
<1> QED
  BY <1>2, <1>3, <1>4

(* A round of the preparation: it counts down only as the ship flies as it *)
(* must, and the drive is engaged only in the last round.                  *)
LEMMA PreparedIs ==
  ASSUME NEW f, NEW t \in Int, NEW d, NEW pulled \in BOOLEAN
  PROVE  \E g, u, e :
           /\ R!Prepared(Helm(f, t, d), pulled) = Helm(g, u, e)
           /\ u \in Int
           /\ \/ Idles(f, g) /\ (u = t \/ u <= 0)
              \/ t = 1 /\ "PFWPSUSPENDED" \notin f /\ u \in {0, 1}
              \/ /\ g = f /\ u = t - 1
                 /\ R!AtPrep(Helm(f, t, d)) /\ ~R!Waits(Helm(f, t, d), pulled)
<1> DEFINE h == Helm(f, t, d)
<1>1. h.flags = f /\ h.time = t
  BY DEF Helm
<1>2. CASE ~R!Preparing(h)
  <2>1. R!Prepared(h, pulled) = h
    BY <1>2 DEF R!Prepared
  <2> QED
    BY <2>1 DEF Idles
<1>3. CASE R!Preparing(h) /\ ~R!AtPrep(h)
  <2> DEFINE g == (f \ IF cloakduringwarpprep THEN {} ELSE {"PFCLOAK"}) \cup {"PFWARPPREP"}
  <2>1. R!Prepared(h, pulled) = [h EXCEPT !.flags = g, !.des = PrepSpeed]
    BY <1>1, <1>3 DEF R!Prepared
  <2>2. Idles(f, g)
    BY DEF Idles
  <2>3. R!Prepared(h, pulled) = Helm(g, t, PrepSpeed)
    BY <2>1 DEF Helm
  <2> HIDE DEF g
  <2> QED
    BY <2>2, <2>3
<1>4. CASE R!Preparing(h) /\ R!AtPrep(h) /\ R!Waits(h, pulled)
  <2>1. R!Prepared(h, pulled) = h
    BY <1>4 DEF R!Prepared
  <2> QED
    BY <2>1 DEF Idles
<1>5. CASE R!Preparing(h) /\ R!AtPrep(h) /\ ~R!Waits(h, pulled)
  <2>1. R!Prepared(h, pulled) = R!Counts(h, pulled)
    BY <1>5 DEF R!Prepared
  <2>2. CASE t = 1 /\ "PFWPSUSPENDED" \in f
    <3>1. R!Counts(h, pulled) = h
      BY <1>1, <2>2 DEF R!Counts
    <3> QED
      BY <2>1, <3>1 DEF Idles
  <2>3. CASE t = 1 /\ "PFWPSUSPENDED" \notin f
    <3>1. R!Counts(h, pulled) = R!Engage(h, pulled)
      BY <1>1, <2>3 DEF R!Counts
    <3>2. PICK g, u, e : R!Engage(h, pulled) = Helm(g, u, e) /\ u \in {0, 1}
      BY EngageIs
    <3> QED
      BY <2>1, <2>3, <3>1, <3>2
  <2>4. CASE t # 1
    <3>1. R!Counts(h, pulled) = [h EXCEPT !.time = IF t > R!Floor THEN t - 1 ELSE R!Floor]
      BY <1>1, <2>4 DEF R!Counts
    <3>2. R!Counts(h, pulled) = Helm(f, IF t > R!Floor THEN t - 1 ELSE R!Floor, d)
      BY <3>1 DEF Helm
    <3>3. CASE t > R!Floor
      BY <1>5, <2>1, <3>2, <3>3
    <3>4. CASE ~(t > R!Floor)
      BY <2>1, <3>2, <3>4 DEF R!Floor, Idles
    <3> QED
      BY <3>3, <3>4
  <2> QED
    BY <2>2, <2>3, <2>4
<1> QED
  BY <1>2, <1>3, <1>4, <1>5

(* A pull ends the flight, or nothing happens.                             *)
LEMMA DroppedIs ==
  ASSUME NEW f, NEW t \in Int, NEW d, NEW pulled \in BOOLEAN
  PROVE  \E g : /\ R!Dropped(Helm(f, t, d), pulled) = Helm(g, t, d)
                /\ g \in {f, f \ {"PFWARP"}}
<1> DEFINE h == Helm(f, t, d)
<1>1. h.flags = f /\ h.time = t
  BY DEF Helm
<1>2. CASE h.time = 0 /\ tractabortwarp /\ pulled
  <2>1. R!Dropped(h, pulled) = [h EXCEPT !.flags = f \ {"PFWARP"}]
    BY <1>1, <1>2 DEF R!Dropped
  <2>2. R!Dropped(h, pulled) = Helm(f \ {"PFWARP"}, t, d)
    BY <2>1 DEF Helm
  <2> QED
    BY <2>2
<1>3. CASE ~(h.time = 0 /\ tractabortwarp /\ pulled)
  BY <1>3 DEF R!Dropped
<1> QED
  BY <1>2, <1>3

(* When the invariant holds after a step.                                  *)
LEMMA WarpIdle ==
  ASSUME s_warpinittime \in Nat, p_warptime' \in Int, p_warptime' <= 0, counted' \in Int
  PROVE  WarpInv'
<1>1. p_warptime' <= s_warpinittime
  OBVIOUS
<1>2. ~(p_warptime' > 0)
  OBVIOUS
<1> QED
  BY <1>1, <1>2, Zenon DEF WarpInv

(* A round of the preparation that is counted in both.                     *)
LEMMA WarpCounts ==
  ASSUME s_warpinittime \in Nat, p_warptime \in Int, p_warptime' = p_warptime - 1,
         p_warptime' \in Int, p_warptime' <= s_warpinittime,
         counted' \in Int, counted' >= s_warpinittime - (p_warptime - 1)
  PROVE  WarpInv'
<1>1. counted' >= s_warpinittime - p_warptime'
  OBVIOUS
<1> QED
  BY <1>1, Zenon DEF WarpInv

(* A round of the daemon.                                                  *)
LEMMA MovesEarn ==
  ASSUME s_warpinittime \in Nat, WarpInv, R!domove
  PROVE  WarpInv' /\ R!Earned
<1>1. PICK pulled \in BOOLEAN :
        LET s == R!Moved(pulled)
        IN  /\ flags' = s.flags /\ p_warptime' = s.time
            /\ counted' = CASE p_warptime > 0 /\ s.time <= 0 -> -1
                           [] s.time > 0 /\ R!AtPrep(s) /\ ~R!Waits(s, pulled)
                                /\ counted \in 0 .. s_warpinittime - 1 -> counted + 1
                           [] OTHER -> counted
  BY DEF R!domove
<1>2. p_warptime \in Int /\ counted \in Int
  BY DEF WarpInv
<1>3. PICK g1 : /\ R!Slow(Helm(flags, p_warptime, p_desspeed)) = Helm(g1, p_warptime, p_desspeed)
                /\ Idles(flags, g1)
  BY <1>2, SlowIs
<1>4. PICK g2, u2 :
        /\ R!AbortNow(Helm(g1, p_warptime, p_desspeed), pulled) = Helm(g2, u2, p_desspeed)
        /\ Idles(g1, g2) /\ (u2 = p_warptime \/ u2 = 0)
  BY <1>2, AbortIs
<1>5. u2 \in Int
  BY <1>2, <1>4
<1>6. PICK g3, u3, e3 :
        /\ R!Prepared(Helm(g2, u2, p_desspeed), pulled) = Helm(g3, u3, e3)
        /\ u3 \in Int
        /\ \/ Idles(g2, g3) /\ (u3 = u2 \/ u3 <= 0)
           \/ u2 = 1 /\ "PFWPSUSPENDED" \notin g2 /\ u3 \in {0, 1}
           \/ /\ g3 = g2 /\ u3 = u2 - 1
              /\ R!AtPrep(Helm(g2, u2, p_desspeed)) /\ ~R!Waits(Helm(g2, u2, p_desspeed), pulled)
  BY <1>5, PreparedIs
<1>7. PICK g4 : R!Dropped(Helm(g3, u3, e3), pulled) = Helm(g4, u3, e3) /\ g4 \in {g3, g3 \ {"PFWARP"}}
  BY <1>6, DroppedIs
<1>8. R!Moved(pulled) = Helm(g4, u3, e3)
  <2>1. R!Moved(pulled) = R!Dropped(R!Prepared(R!AbortNow(R!Slow(Helm(flags, p_warptime, p_desspeed)),
                                                          pulled), pulled), pulled)
    BY DEF R!Moved, Helm
  <2> QED
    BY <1>3, <1>4, <1>6, <1>7, <2>1
<1>9. Helm(g4, u3, e3).flags = g4 /\ Helm(g4, u3, e3).time = u3
  BY DEF Helm
<1>10. flags' = g4 /\ p_warptime' = u3
  BY <1>1, <1>8, <1>9
<1>11. counted' = CASE p_warptime > 0 /\ u3 <= 0 -> -1
                    [] u3 > 0 /\ R!AtPrep(Helm(g4, u3, e3)) /\ ~R!Waits(Helm(g4, u3, e3), pulled)
                         /\ counted \in 0 .. s_warpinittime - 1 -> counted + 1
                    [] OTHER -> counted
  BY <1>1, <1>8, <1>9
<1>12. counted' \in Int /\ (u3 > 0 => counted' \in {counted, counted + 1})
  BY <1>2, <1>6, <1>11
<1>13. CASE Idles(g2, g3) /\ (u3 = u2 \/ u3 <= 0)
  <2>1. WarpInv'
    BY <1>2, <1>4, <1>6, <1>10, <1>12, <1>13 DEF WarpInv
  <2>2. "PFWARP" \in g4 => "PFWARP" \in flags
    BY <1>3, <1>4, <1>7, <1>13 DEF Idles
  <2> QED
    BY <1>10, <2>1, <2>2 DEF R!Earned, R!Engages
<1>14. CASE u2 = 1 /\ "PFWPSUSPENDED" \notin g2 /\ u3 \in {0, 1}
  <2>1. p_warptime = 1 /\ counted >= s_warpinittime - 1
    BY <1>2, <1>4, <1>14 DEF WarpInv
  <2>2. "PFWPSUSPENDED" \notin flags
    BY <1>3, <1>4, <1>14 DEF Idles
  <2>3. WarpInv'
    BY <1>2, <1>6, <1>10, <1>12, <1>14, <2>1 DEF WarpInv
  <2> QED
    BY <2>1, <2>2, <2>3 DEF R!Earned
<1>15. CASE /\ g3 = g2 /\ u3 = u2 - 1
            /\ R!AtPrep(Helm(g2, u2, p_desspeed)) /\ ~R!Waits(Helm(g2, u2, p_desspeed), pulled)
  <2>1. "PFWARP" \in g4 => "PFWARP" \in flags
    BY <1>3, <1>4, <1>7, <1>15 DEF Idles
  <2>2. R!Earned
    BY <1>10, <2>1 DEF R!Earned, R!Engages
  <2>3. CASE u3 <= 0
    <3>1. p_warptime' \in Int /\ p_warptime' <= 0
      BY <1>6, <1>10, <2>3
    <3>2. counted' \in Int
      BY <1>12
    <3> QED
      BY <2>2, <3>1, <3>2, WarpIdle
  <2>4. CASE u3 > 0
    <3>1. u2 = p_warptime /\ p_warptime > 1
      BY <1>2, <1>4, <1>6, <1>15, <2>4
    <3>2. R!AtPrep(Helm(g4, u3, e3)) /\ ~R!Waits(Helm(g4, u3, e3), pulled)
      BY <1>7, <1>15 DEF R!AtPrep, R!Waits, Helm
    <3>3. counted >= s_warpinittime - p_warptime /\ counted >= 0
      BY <1>2, <3>1 DEF WarpInv
    <3>4. counted' = IF counted <= s_warpinittime - 1 THEN counted + 1 ELSE counted
      BY <1>2, <1>6, <1>11, <2>4, <3>2, <3>3
    <3>5. p_warptime' = p_warptime - 1
      BY <1>10, <1>15, <3>1
    <3>6. p_warptime' \in Int /\ p_warptime' <= s_warpinittime
      BY <1>2, <3>5 DEF WarpInv
    <3>7. counted' \in Int /\ counted' >= s_warpinittime - (p_warptime - 1)
      <4>1. CASE counted <= s_warpinittime - 1
        BY <1>2, <3>3, <3>4, <4>1
      <4>2. CASE ~(counted <= s_warpinittime - 1)
        BY <1>2, <3>1, <3>4, <4>2
      <4> QED
        BY <4>1, <4>2
    <3> QED
      BY <1>2, <2>2, <3>5, <3>6, <3>7, WarpCounts, Zenon
    <2> QED
    BY <1>6, <2>3, <2>4
<1> QED
  BY <1>6, <1>13, <1>14, <1>15

(* Requests, and what others and the daemon do besides: the cost is paid   *)
(* when the preparation begins, and none of them engages the drive.        *)
LEMMA OthersEarn ==
  ASSUME s_warpinittime \in Nat, WarpInv,
         \/ R!set_speed \/ R!set_course \/ R!repair \/ R!repair_off \/ R!cloak_on \/ R!cloak_off
         \/ R!orbit \/ R!follow \/ R!newship \/ R!doresources \/ R!Hit \/ R!PulledOut
         \/ UNCHANGED R!vars
  PROVE  WarpInv' /\ R!Earned
<1>1. ASSUME UNCHANGED <<p_warptime, counted>>
      PROVE  WarpInv'
  BY <1>1 DEF WarpInv
<1>2. ASSUME p_warptime' = 0, counted' = -1
      PROVE  WarpInv'
  BY <1>2 DEF WarpInv
<1>3. ("PFWARP" \in flags' => "PFWARP" \in flags) => R!Earned
  BY DEF R!Earned, R!Engages
<1> USE DEF R!Flies, R!Undocked, R!Berth, R!Drives, R!Prep
<1>4. CASE R!set_speed
  <2>1. CASE R!suspendPrep \/ R!unsuspendPrep
    BY <1>1, <1>3, <2>1 DEF R!suspendPrep, R!unsuspendPrep
  <2>2. CASE R!afterburners
    BY <1>2, <1>3, <2>2 DEF R!afterburners
  <2>3. CASE \E speed \in 0 .. WarpSpeed : R!warp(speed)
    <3>1. PICK speed \in 0 .. WarpSpeed : R!warp(speed)
      BY <2>3
    <3>2. CASE R!WarpNot(speed)
      BY <1>1, <1>3, <3>2 DEF R!WarpNot
    <3>3. CASE R!Prepares
      <4>1. p_warptime' = s_warpinittime /\ counted' = 0
        BY <3>3 DEF R!Prepares
      <4>2. WarpInv'
        BY <4>1 DEF WarpInv
      <4>3. "PFWARP" \in flags' => "PFWARP" \in flags
        BY <3>3 DEF R!Prepares
      <4> QED
        BY <1>3, <4>2, <4>3
    <3> QED
      BY <3>1, <3>2, <3>3 DEF R!warp
  <2>4. CASE \E speed \in 0 .. WarpSpeed : R!impulse(speed)
    BY <1>2, <1>3, <2>4 DEF R!impulse
  <2> QED
    BY <1>4, <2>1, <2>2, <2>3, <2>4 DEF R!set_speed
<1>5. CASE R!set_course \/ R!repair_off \/ R!cloak_on \/ R!cloak_off \/ R!follow
           \/ R!doresources \/ R!Hit \/ R!PulledOut \/ UNCHANGED R!vars
  <2>1. UNCHANGED <<p_warptime, counted>>
    BY <1>5 DEF R!set_course, R!repair_off, R!cloak_on, R!cloak_off, R!follow, R!doresources, R!Hit,
                R!PulledOut, R!vars
  <2>2. "PFWARP" \in flags' => "PFWARP" \in flags
    BY <1>5 DEF R!set_course, R!repair_off, R!cloak_on, R!cloak_off, R!follow, R!doresources, R!Hit,
                R!PulledOut, R!vars
  <2> QED
    BY <1>1, <1>3, <2>1, <2>2
<1>6. CASE R!repair \/ R!orbit \/ R!newship
  <2>1. p_warptime' = 0 /\ counted' = -1
    BY <1>6 DEF R!repair, R!orbit, R!newship
  <2>2. "PFWARP" \in flags' => "PFWARP" \in flags
    BY <1>6 DEF R!repair, R!orbit, R!newship
  <2> QED
    BY <1>2, <1>3, <2>1, <2>2
<1> QED
  BY <1>4, <1>5, <1>6

(* The steps of the history while it is about the warp drive.              *)
LEMMA WarpNext ==
  machine = "Warp" /\ [Next]_vars => machine' = "Warp" /\ [R!Next]_(R!vars)
BY DEF Next, vars, Ends, drive, R!vars

(* The warp drive is engaged only when its cost was paid and the whole of  *)
(* the preparation was counted since then, at the speed of the preparation *)
(* and without being suspended, whatever the player asks for in between,   *)
(* whoever pulls the ship, and whatever the style of the preparation       *)
(* (interface.c: set_speed; daemon/player.c: domove): for a preparation of *)
(* any length and every setting of the options.                            *)
THEOREM WarpIsEarned ==
  ASSUME s_warpinittime \in Nat
  PROVE  Spec => WarpEarned
<1> DEFINE Inv == machine = "Warp" => WarpInv
           Step == machine = "Warp" => R!Earned
<1>1. Init => Inv
  BY DEF Init, R!Init, WarpInv
<1>2. Inv /\ [Next]_vars => Inv' /\ Step
  <2>1. [Next]_vars => machine' = machine
    BY DEF Next, vars, Ends
  <2>2. machine = "Warp" /\ WarpInv /\ [Next]_vars => WarpInv' /\ R!Earned
    BY WarpNext, MovesEarn, OthersEarn DEF R!Next
  <2> QED
    BY <2>1, <2>2
<1>3. WarpEarned <=> [][Step]_vars
  BY DEF WarpEarned
<1> HIDE DEF Step
<1> QED
  BY <1>1, <1>2, <1>3, PTL DEF Spec

-----------------------------------------------------------------------------
(***************************************************************************)
(* What a client sees.  Of a weapon, what the server remembers says        *)
(* whether the client shows it as flying, or is invalid and will be sent.  *)
(* What a torpedo of a client with short packets exploded into is          *)
(* remembered only where it exploded, and until it is told to be gone: the *)
(* place of an explosion would be taken for that of a torpedo that flies.  *)
(***************************************************************************)
ViewAssumption ==
  /\ "short" \notin Paused \cup Still \cup Reused
  /\ "missile" \notin Returns
  /\ {S!nowhere, S!vaguelyNear, S!vaguelyFar} \cap (Near \cup Far) = {}

Stats == {"TFREE", "TMOVE", "TEXPLODE", "TOFF"}

ViewInv ==
  /\ status \in Stats /\ at \in W!Places
  /\ pic \in [status : Stats, at : W!Places]
  /\ kind = "short" => status # "TOFF" /\ ~paused
  /\ ~missed => info = "invalid" \/ (pic.status = "TMOVE" <=> info = "TMOVE")
  /\ kind = "short" /\ info = "TEXPLODE" =>
       (status = "TEXPLODE" /\ at = loc) \/ (status = "TFREE" /\ ~updated)
  /\ W!PictureTrue

(* Nothing is shown at first.                                              *)
LEMMA ViewInit == W!Init => ViewInv
BY DEF W!Init, ViewInv, Stats, W!Places, W!PictureTrue

(* What is sent of a status if it is new.                                  *)
LEMMA NewTold ==
  ASSUME ViewInv, ~missed, NEW s \in Stats
  PROVE  LET x == W!StatusIfNew(s)
         IN  /\ x \in Stats \cup {"none"}
             /\ (IF x = "none" THEN pic.status ELSE x) = "TMOVE" <=> s = "TMOVE"
<1>1. CASE s = info
  BY <1>1 DEF ViewInv, Stats, W!StatusIfNew
<1>2. CASE s # info
  BY <1>2 DEF Stats, W!StatusIfNew
<1> QED
  BY <1>1, <1>2

(* And of a weapon that is gone or out of sight.                           *)
LEMMA GoneTold ==
  ASSUME ViewInv, ~missed, NEW s
  PROVE  LET x == W!OutOfSight(s)
         IN  /\ x \in Stats \cup {"none"}
             /\ (IF x = "none" THEN pic.status ELSE x) # "TMOVE"
<1>1. CASE s = "TFREE" /\ info = "TEXPLODE"
  BY <1>1 DEF ViewInv, W!OutOfSight
<1>2. CASE ~(s = "TFREE" /\ info = "TEXPLODE")
  <2>1. W!OutOfSight(s) = W!StatusIfNew("TFREE")
    BY <1>2 DEF W!OutOfSight
  <2>2. "TFREE" \in Stats
    BY DEF Stats
  <2> QED
    BY <2>1, <2>2, NewTold
<1> QED
  BY <1>1, <1>2

(* What is sent is right, whatever is sent of the place.                   *)
Right(sent) ==
  /\ sent.info \in Stats
  /\ W!Seen(sent).status = "TMOVE" <=> sent.info = "TMOVE"
  /\ sent.info = "TMOVE" <=> status = "TMOVE" /\ W!Shown

(* What is sent of torpedoes and missiles is right.                        *)
LEMMA TorpsRight ==
  ASSUME ViewInv, ~missed
  PROVE  Right(W!updateTorps)
<1>1. status \in Stats
  BY DEF ViewInv
<1>2. CASE owner = "me"
  BY <1>1, <1>2, NewTold DEF W!updateTorps, W!Sent, Right, W!Seen, W!Shown
<1>3. CASE owner # "me" /\ (at = "away" \/ status = "TFREE")
  BY <1>1, <1>3, GoneTold DEF W!updateTorps, W!Sent, Right, W!Seen, W!Shown, Stats
<1>4. CASE owner # "me" /\ ~(at = "away" \/ status = "TFREE") /\ W!Masked = "TFREE"
  <2>1. paused /\ owner = "foe"
    BY <1>4 DEF W!Masked
  <2>2. "TFREE" \in Stats
    BY DEF Stats
  <2> QED
    BY <1>1, <1>4, <2>1, <2>2, NewTold DEF W!updateTorps, W!Sent, Right, W!Seen, W!Shown, Stats
<1>5. CASE owner # "me" /\ ~(at = "away" \/ status = "TFREE") /\ W!Masked # "TFREE"
  <2>1. ~(paused /\ owner = "foe")
    BY <1>5 DEF W!Masked
  <2> QED
    BY <1>1, <1>5, <2>1, NewTold DEF W!updateTorps, W!Sent, Right, W!Seen, W!Shown
<1> QED
  BY <1>2, <1>3, <1>4, <1>5

(* What is sent of plasma torpedoes is right.                              *)
LEMMA PlasmasRight ==
  ASSUME ViewInv, ~missed
  PROVE  Right(W!updatePlasmas)
<1>1. status \in Stats
  BY DEF ViewInv
<1>2. CASE owner = "me"
  BY <1>1, <1>2, NewTold DEF W!updatePlasmas, W!Sent, Right, W!Seen, W!Shown
<1>3. CASE owner # "me" /\ (at = "away" \/ W!Masked = "TFREE")
  BY <1>1, <1>3, GoneTold DEF W!updatePlasmas, W!Sent, Right, W!Seen, W!Shown, Stats, W!Masked
<1>4. CASE owner # "me" /\ ~(at = "away" \/ W!Masked = "TFREE")
  <2>1. ~(paused /\ owner = "foe")
    BY <1>4 DEF W!Masked
  <2> QED
    BY <1>1, <1>4, <2>1, NewTold DEF W!updatePlasmas, W!Sent, Right, W!Seen, W!Shown
<1> QED
  BY <1>2, <1>3, <1>4

(* A missile that is switched off is shown as one that is gone.            *)
LEMMA MissilesRight ==
  ASSUME ViewInv, ~missed
  PROVE  Right(W!updateMissiles)
<1>1. status \in Stats /\ W!Masked \in Stats
  BY DEF ViewInv, W!Masked, Stats
<1>2. LET x == W!Shape(W!StatusIfNew(W!Masked))
      IN  (IF x = "none" THEN pic.status ELSE x) = "TMOVE" <=> W!Masked = "TMOVE"
  BY <1>1, NewTold DEF W!Shape
<1>3. CASE owner = "me"
  <2>1. W!Masked = status
    BY <1>3 DEF W!Masked
  <2> QED
    BY <1>1, <1>2, <1>3, <2>1 DEF W!updateMissiles, W!Sent, Right, W!Seen, W!Shown
<1>4. CASE owner # "me" /\ (at = "away" \/ W!Masked = "TFREE")
  BY <1>1, <1>4, GoneTold DEF W!updateMissiles, W!Sent, Right, W!Seen, W!Shown, Stats, W!Masked
<1>5. CASE owner # "me" /\ ~(at = "away" \/ W!Masked = "TFREE")
  <2>1. ~(paused /\ owner = "foe") /\ W!Masked = status
    BY <1>5 DEF W!Masked
  <2> QED
    BY <1>1, <1>2, <1>5, <2>1 DEF W!updateMissiles, W!Sent, Right, W!Seen, W!Shown
<1> QED
  BY <1>3, <1>4, <1>5

(* An update of a torpedo in short packets: the place of one that does not *)
(* fly is not sent, or with a bit that says so.                            *)
LEMMA ShortRight ==
  ASSUME ViewAssumption, ViewInv, ~missed, kind = "short", ~(status = "TMOVE" /\ loc = at),
         NEW others \in BOOLEAN
  PROVE  /\ W!encode_torp_status.info \in Stats
         /\ W!ShortSeen(others).status = "TMOVE" <=> W!encode_torp_status.info = "TMOVE"
         /\ W!encode_torp_status.info = "TMOVE" <=> status = "TMOVE" /\ W!Shown
<1> DEFINE s == W!encode_torp_status
           hides == owner # "me" /\ (at = "away" \/ status = "TFREE")
<1>1. /\ status \in {"TFREE", "TMOVE", "TEXPLODE"} /\ ~paused
      /\ pic \in [status : Stats, at : W!Places]
      /\ info = "invalid" \/ (pic.status = "TMOVE" <=> info = "TMOVE")
  BY DEF ViewInv, Stats
<1>2. W!Shown <=> owner = "me" \/ at # "away"
  BY <1>1 DEF W!Shown
<1>3. W!encode_torp_position <=> at # loc /\ status # "TFREE" /\ (at # "away" \/ owner = "me")
  BY <1>1 DEF W!encode_torp_position
<1>4. pic.status = "TFREE" \/ pic.status = "TMOVE" \/ pic.status = "TEXPLODE" \/ pic.status = "TOFF"
  BY <1>1 DEF Stats
<1>5. [pic EXCEPT !.status = IF @ = "TMOVE" THEN "TFREE" ELSE @].status # "TMOVE"
  BY <1>1
<1>6. CASE hides
  <2>1. s = [info |-> "TFREE", bit |-> FALSE, mustsend |-> W!OutOfSight(status) # "none"]
    BY <1>6 DEF W!encode_torp_status
  <2>2. s.info = "TFREE" /\ ~s.bit /\ (s.mustsend <=> W!OutOfSight(status) # "none")
    BY <2>1
  <2>3. ~W!encode_torp_position
    BY <1>3, <1>6
  <2>4. ~s.mustsend => pic.status # "TMOVE"
    BY <2>2, GoneTold
  <2>5. W!ShortSeen(others).status # "TMOVE"
    <3>1. CASE s.mustsend \/ others
      <4>1. W!ShortSeen(others) = [pic EXCEPT !.status = IF @ = "TMOVE" THEN "TFREE" ELSE @]
        BY <2>2, <2>3, <3>1 DEF W!ShortSeen
      <4> QED
        BY <1>5, <4>1
    <3>2. CASE ~(s.mustsend \/ others)
      <4>1. W!ShortSeen(others) = pic
        BY <2>2, <2>3, <3>2 DEF W!ShortSeen
      <4> QED
        BY <2>4, <3>2, <4>1
    <3> QED
      BY <3>1, <3>2
  <2> QED
    BY <1>2, <1>6, <2>2, <2>5 DEF Stats
<1>7. CASE ~hides /\ status # info
  <2>1. s = [info |-> status,
             bit |-> status = "TEXPLODE" \/ (info = "TEXPLODE" /\ status = "TFREE"),
             mustsend |-> status = "TFREE" /\ info # "TEXPLODE"]
    BY <1>7 DEF W!encode_torp_status
  <2>2. /\ s.info = status
        /\ s.bit <=> status = "TEXPLODE" \/ (info = "TEXPLODE" /\ status = "TFREE")
        /\ s.mustsend <=> status = "TFREE" /\ info # "TEXPLODE"
    BY <2>1
  <2>3. W!ShortSeen(others).status = "TMOVE" <=> status = "TMOVE"
    <3>1. CASE s.bit
      <4>1. W!ShortSeen(others).status = status
        BY <3>1 DEF W!ShortSeen
      <4> QED
        BY <4>1
    <3>2. CASE status = "TMOVE"
      <4>1. ~s.bit /\ W!encode_torp_position
        BY <1>3, <1>7, <2>2, <3>2
      <4>2. W!ShortSeen(others).status = "TMOVE"
        BY <4>1 DEF W!ShortSeen
      <4> QED
        BY <3>2, <4>2
    <3>3. CASE ~s.bit /\ status # "TMOVE"
      <4>1. status = "TFREE" /\ s.mustsend /\ ~W!encode_torp_position
        BY <1>1, <1>3, <2>2, <3>3
      <4>2. W!ShortSeen(others) = [pic EXCEPT !.status = IF @ = "TMOVE" THEN "TFREE" ELSE @]
        BY <3>3, <4>1 DEF W!ShortSeen
      <4> QED
        BY <1>5, <3>3, <4>2
    <3> QED
      BY <3>1, <3>2, <3>3
  <2> QED
    BY <1>1, <1>2, <1>7, <2>2, <2>3 DEF Stats
<1>8. CASE ~hides /\ status = info
  <2>1. s = [info |-> info, bit |-> FALSE, mustsend |-> FALSE]
    BY <1>8 DEF W!encode_torp_status
  <2>2. s.info = status /\ ~s.bit /\ ~s.mustsend
    BY <1>8, <2>1
  <2>3. W!ShortSeen(others).status = "TMOVE" <=> status = "TMOVE"
    <3>1. CASE status = "TMOVE"
      <4>1. W!encode_torp_position
        BY <1>3, <1>8, <3>1
      <4>2. W!ShortSeen(others).status = "TMOVE"
        BY <2>2, <4>1 DEF W!ShortSeen
      <4> QED
        BY <3>1, <4>2
    <3>2. CASE status # "TMOVE"
      <4>1. ~W!encode_torp_position
        BY <1>1, <1>3, <1>8, <3>2 DEF ViewInv
      <4>2. pic.status # "TMOVE"
        BY <1>1, <1>8, <3>2
      <4>3. \/ W!ShortSeen(others) = pic
            \/ W!ShortSeen(others) = [pic EXCEPT !.status = IF @ = "TMOVE" THEN "TFREE" ELSE @]
        BY <2>2, <4>1 DEF W!ShortSeen
      <4> QED
        BY <1>5, <3>2, <4>2, <4>3
    <3> QED
      BY <3>1, <3>2
  <2> QED
    BY <1>1, <1>2, <1>8, <2>2, <2>3 DEF Stats
<1> QED
  BY <1>6, <1>7, <1>8

(* What a client shows stays a status and a place.                         *)
LEMMA PicTyped ==
  ASSUME ViewInv, W!updateClient
  PROVE  pic' \in [status : Stats, at : W!Places]
<1>1. /\ pic \in [status : Stats, at : W!Places] /\ at \in W!Places /\ status \in Stats
      /\ W!Masked \in Stats
  BY DEF ViewInv, W!Masked, Stats
<1>2. \A s \in Stats : /\ W!StatusIfNew(s) \in Stats \cup {"none"}
                       /\ W!OutOfSight(s) \in Stats \cup {"none"}
                       /\ W!Shape(W!StatusIfNew(s)) \in Stats \cup {"none"}
  BY DEF W!StatusIfNew, W!OutOfSight, W!Shape, Stats
<1>3. W!PlaceIfNew \in W!Places \cup {"none"}
  BY <1>1 DEF W!PlaceIfNew
<1>4. "TFREE" \in Stats /\ "TMOVE" \in Stats
  BY DEF Stats
<1>5. ASSUME NEW sent, sent.status \in Stats \cup {"none"}, sent.at \in W!Places \cup {"none"}
      PROVE  W!Seen(sent) \in [status : Stats, at : W!Places]
  BY <1>1, <1>5 DEF W!Seen
<1>6. /\ W!updateTorps.status \in Stats \cup {"none"}
      /\ W!updateTorps.at \in W!Places \cup {"none"}
  BY <1>1, <1>2, <1>3, <1>4 DEF W!updateTorps, W!Sent
<1>7. /\ W!updatePlasmas.status \in Stats \cup {"none"}
      /\ W!updatePlasmas.at \in W!Places \cup {"none"}
  BY <1>1, <1>2, <1>3, <1>4 DEF W!updatePlasmas, W!Sent
<1>8. /\ W!updateMissiles.status \in Stats \cup {"none"}
      /\ W!updateMissiles.at \in W!Places \cup {"none"}
  BY <1>1, <1>2, <1>3, <1>4 DEF W!updateMissiles, W!Sent
<1>9. ASSUME NEW others \in BOOLEAN
      PROVE  W!ShortSeen(others) \in [status : Stats, at : W!Places]
  BY <1>1, <1>4 DEF W!ShortSeen
<1> QED
  BY <1>5, <1>6, <1>7, <1>8, <1>9 DEF W!updateClient, W!Update, W!short_updateTorps

(* An update shows the client what it is to be shown.                      *)
LEMMA UpdateShows ==
  ASSUME ViewAssumption, ViewInv, W!updateClient
  PROVE  ViewInv'
<1>1. /\ updated' = TRUE /\ UNCHANGED <<kind, owner, status, at, paused, missed>>
      /\ status = "TMOVE" /\ loc = at => kind \in Still
  BY DEF W!updateClient, W!weapon
<1>2. pic' \in [status : Stats, at : W!Places]
  BY PicTyped
<1>3. ~missed => /\ pic'.status = "TMOVE" <=> info' = "TMOVE"
                 /\ info' = "TMOVE" <=> status = "TMOVE" /\ W!Shown
  <2> SUFFICES ASSUME ~missed
               PROVE  /\ pic'.status = "TMOVE" <=> info' = "TMOVE"
                      /\ info' = "TMOVE" <=> status = "TMOVE" /\ W!Shown
    OBVIOUS
  <2>1. ASSUME NEW sent, Right(sent), W!Update(sent)
        PROVE  /\ pic'.status = "TMOVE" <=> info' = "TMOVE"
               /\ info' = "TMOVE" <=> status = "TMOVE" /\ W!Shown
    BY <2>1 DEF Right, W!Update
  <2>2. CASE W!short_updateTorps
    <3>1. kind = "short" /\ ~(status = "TMOVE" /\ loc = at) /\ info' = W!encode_torp_status.info
      BY <1>1, <2>2 DEF W!short_updateTorps, ViewAssumption
    <3>2. PICK others \in BOOLEAN : pic' = W!ShortSeen(others)
      BY <2>2 DEF W!short_updateTorps
    <3> QED
      BY <3>1, <3>2, ShortRight
  <2> QED
    BY <2>1, <2>2, TorpsRight, PlasmasRight, MissilesRight DEF W!updateClient
<1>4. W!PictureTrue'
  BY <1>1, <1>3 DEF W!PictureTrue, W!Shown
<1>5. kind = "short" /\ info' = "TEXPLODE" => status = "TEXPLODE" /\ at = loc'
  BY DEF W!updateClient, W!short_updateTorps, W!encode_torp_status
<1> QED
  BY <1>1, <1>2, <1>3, <1>4, <1>5 DEF ViewInv

(* The weapon, the pause, the client and the line to it.                   *)
LEMMA ViewStep ==
  ASSUME ViewAssumption, ViewInv, [W!Next]_(W!vars)
  PROVE  ViewInv'
<1> USE DEF W!weapon, W!cache, W!Places, Stats, ViewInv, W!PictureTrue
<1>1. CASE W!Fired
  BY <1>1 DEF W!Fired, W!Flies, ViewAssumption
<1>2. CASE W!Moves
  BY <1>2 DEF W!Moves, W!Flies
<1>3. CASE W!Explodes
  BY <1>3 DEF W!Explodes, W!Flies
<1>4. CASE W!SwitchedOff
  BY <1>4 DEF W!SwitchedOff, W!Flies
<1>5. CASE W!IsGone
  BY <1>5 DEF W!IsGone, W!Flies
<1>6. CASE W!Pause
  BY <1>6 DEF W!Pause, ViewAssumption
<1>7. CASE W!Fades
  BY <1>7 DEF W!Fades
<1>8. CASE W!updateClient
  BY <1>8, UpdateShows
<1>9. CASE W!UpdateLost
  BY <1>9 DEF W!UpdateLost
<1>10. CASE W!forceUpdate
  BY <1>10 DEF W!forceUpdate, W!Invalidated, ViewAssumption
<1>11. CASE W!Reconnect
  BY <1>11 DEF W!Reconnect, W!Invalidated, ViewAssumption
<1>12. CASE UNCHANGED W!vars
  BY <1>12 DEF W!vars, W!Shown
<1> QED
  BY <1>1, <1>2, <1>3, <1>4, <1>5, <1>6, <1>7, <1>8, <1>9, <1>10, <1>11, <1>12 DEF W!Next

(* The steps of the history while it is about a weapon on the screen.      *)
LEMMA ViewNext ==
  machine = "WeaponView" /\ [Next]_vars => machine' = "WeaponView" /\ [W!Next]_(W!vars)
BY DEF Next, vars, Ends, weapon, W!vars, W!weapon, W!cache

(* Ships: an update that changes the place it shows shows the place of a   *)
(* ship that may be seen, or one that gives nothing away; who was on the   *)
(* screen in the last packet is told of in the next.                       *)
ShipsInv == at \in Near \cup Far /\ S!OnScreen /\ S!NotGivenAway

(* Every step keeps the invariant of ships on the screen.                  *)
LEMMA ShipsStep ==
  ASSUME ViewAssumption, ShipsInv, [S!Next]_(S!vars)
  PROVE  ShipsInv'
<1> USE DEF S!game, S!client, S!Places
<1>1. CASE S!updateClient
  <2>1. /\ pstatus' = S!plstat /\ cpl' \in S!NextPlaces /\ before' = cpl
        /\ UNCHANGED <<foe, alive, at, PFSEEN, PFCLOAK, paused, hiddenenemy>>
    BY <1>1 DEF S!updateClient, S!updateShips
  <2>2. S!Place' = S!Place /\ S!Hidden' = S!Hidden
    BY <2>1 DEF S!Place, S!Hidden
  <2>3. /\ S!Place \in Near => S!Place = at
        /\ S!Hidden => S!Place = S!nowhere
        /\ ~S!Hidden => S!Place = at
    BY DEF S!Place, ViewAssumption
  <2>4. pstatus' = "PALIVE" <=> alive /\ ~(foe /\ paused)
    BY <2>1 DEF S!plstat
  <2>5. CASE cpl = S!Place \/ ~S!Told
    <3>1. cpl' = cpl
      BY <2>1, <2>5 DEF S!NextPlaces
    <3>2. S!Place \in Near \/ cpl \in Near => S!Told
      BY DEF S!Told
    <3>3. S!Place \in Near \/ cpl \in Near => cpl' = at
      BY <2>3, <2>5, <3>1, <3>2
    <3> QED
      BY <2>1, <2>2, <2>4, <3>1, <3>3 DEF ShipsInv, S!OnScreen, S!NotGivenAway
  <2>6. CASE cpl # S!Place /\ S!Told /\ PFCLOAK
    <3>1. cpl' = cpl \/ cpl' \in S!Vaguely
      BY <2>1, <2>6 DEF S!NextPlaces
    <3>2. cpl' \in S!Vaguely => cpl' \notin Near \cup Far /\ (S!Hidden => cpl' = S!nowhere)
      BY DEF S!Vaguely, ViewAssumption
    <3>3. S!NotGivenAway'
      BY <2>1, <2>2, <3>1, <3>2 DEF S!NotGivenAway
    <3> QED
      BY <2>1, <2>4, <2>6, <3>3 DEF ShipsInv, S!OnScreen
  <2>7. CASE cpl # S!Place /\ S!Told /\ ~PFCLOAK
    <3>1. cpl' = S!Place
      BY <2>1, <2>7 DEF S!NextPlaces
    <3> QED
      BY <2>1, <2>2, <2>3, <2>4, <2>7, <3>1 DEF ShipsInv, S!OnScreen, S!NotGivenAway
  <2> QED
    BY <2>5, <2>6, <2>7
<1>2. CASE S!EnterOrLeave \/ S!Fly \/ S!Cloak \/ S!Pause \/ S!plfight \/ S!Ignore \/ S!initClientData
  <2>1. updated' = FALSE /\ at' \in Near \cup Far
    BY <1>2 DEF ShipsInv, S!EnterOrLeave, S!Fly, S!Cloak, S!Pause, S!plfight, S!Ignore, S!initClientData,
                S!ClientUnchanged
  <2> QED
    BY <2>1 DEF ShipsInv, S!OnScreen, S!NotGivenAway
<1>3. CASE UNCHANGED S!vars
  BY <1>3 DEF S!vars, ShipsInv, S!OnScreen, S!NotGivenAway, S!Place, S!Hidden
<1> QED
  BY <1>1, <1>2, <1>3 DEF S!Next

(* The steps of the history while it is about a ship on the screen.        *)
LEMMA ShipsNext ==
  machine = "ShipView" /\ [Next]_vars => machine' = "ShipView" /\ [S!Next]_(S!vars)
BY DEF Next, vars, Ends, ship, S!vars, S!game, S!client

(* After an update a client shows a weapon as flying if and only if it     *)
(* flies and may be shown, though the server sends only what differs from  *)
(* what it remembers, leaves the end of an explosion to the client, and    *)
(* may have lost what it sent before the last full update; and a ship on   *)
(* the screen is shown where it is, while nobody is told where an unseen   *)
(* enemy is, or exactly where a cloaked one is (socket.c: updateTorps,     *)
(* updateMissiles, updatePlasmas, updateShips): for any places.            *)
THEOREM ScreenIsTrue ==
  ASSUME ViewAssumption
  PROVE  Spec => []ScreenTrue
<1> DEFINE Inv == /\ machine = "WeaponView" => ViewInv
                  /\ machine = "ShipView" => ShipsInv
<1>1. Init => Inv
  BY ViewInit DEF Init, S!Init, ShipsInv, S!OnScreen, S!NotGivenAway
<1>2. Inv /\ [Next]_vars => Inv'
  <2>1. [Next]_vars => machine' = machine
    BY DEF Next, vars, Ends
  <2>2. machine = "WeaponView" /\ ViewInv /\ [Next]_vars => ViewInv'
    BY ViewNext, ViewStep
  <2>3. machine = "ShipView" /\ ShipsInv /\ [Next]_vars => ShipsInv'
    BY ShipsNext, ShipsStep
  <2> QED
    BY <2>1, <2>2, <2>3
<1>3. Inv => ScreenTrue
  BY DEF ViewInv, ShipsInv, ScreenTrue
<1> QED
  BY <1>1, <1>2, <1>3, PTL DEF Spec

-----------------------------------------------------------------------------
(***************************************************************************)
(* Ship allowance.  A player holds a place in the limit of a team for a    *)
(* type of ship as long as he has such a ship or has been granted it, and  *)
(* until his lost one is being built anew.  One place is held at most, and *)
(* nothing is built while it is.                                           *)
(***************************************************************************)
AllowanceAssumption ==
  /\ Loopholes \subseteq {"mass-produced"}
  /\ "mass-produced" \in Loopholes => Limited \subseteq Ported
  /\ "PATROL" \notin Limited
  /\ s_timer \in Nat /\ IsFiniteSet(Pilot)

Holds(p, t, s) ==
  \/ state[p] \in O!Living /\ side[p] = t /\ s_type[p] = s
  \/ state[p] = "chosen" /\ switching[p] = t /\ s_type[p] = s
  \/ state[p] = "decided" /\ side[p] = t /\ switching[p] = s
  \/ state[p] = "PEXPLODE" /\ p \in killed /\ tourn /\ side[p] = t /\ s_type[p] = s

OutfitTypes ==
  /\ DOMAIN state = Pilot /\ DOMAIN side = Pilot /\ DOMAIN s_type = Pilot
  /\ DOMAIN switching = Pilot
  /\ s_turns \in [O!Teams \X Limited -> Int]

(* Nobody decides on a refit unseen; a choice of a mass-produced ship is   *)
(* remembered only in the outfit loop.                                     *)
OutfitFlags(p) ==
  /\ p \in hidden <=> state[p] = "deciding"
  /\ p \in tmpPick => state[p] = "POUTFIT" /\ "mass-produced" \in Loopholes

OutfitInv ==
  /\ OutfitTypes
  /\ \A p \in Pilot : OutfitFlags(p)
  /\ \A t \in O!Teams, s \in Limited :
       /\ s_turns[<<t, s>>] >= 0 /\ s_turns[<<t, s>>] <= s_timer
       /\ \A p \in Pilot : Holds(p, t, s) => s_turns[<<t, s>>] = 0
       /\ \A p, q \in Pilot : Holds(p, t, s) /\ Holds(q, t, s) => p = q

(* Everybody is in outfit, and nothing is being built.                     *)
LEMMA OutfitInit ==
  ASSUME AllowanceAssumption, O!Init
  PROVE  OutfitInv
<1>1. OutfitTypes
  BY DEF O!Init, OutfitTypes
<1>2. \A p \in Pilot : state[p] = "POUTFIT"
  BY DEF O!Init
<1>3. \A t \in O!Teams, s \in Limited : s_turns[<<t, s>>] = 0
  BY DEF O!Init
<1>4. \A p \in Pilot : \A t, s : ~Holds(p, t, s)
  BY <1>2 DEF Holds, O!Living
<1>5. hidden = {} /\ tmpPick = {}
  BY DEF O!Init
<1> QED
  BY <1>1, <1>2, <1>3, <1>4, <1>5 DEF OutfitInv, OutfitFlags, AllowanceAssumption

(* Who is granted a limited ship by allowed_ship() finds its place empty,  *)
(* but for himself.                                                        *)
LEMMA PlaceEmpty ==
  ASSUME AllowanceAssumption, OutfitInv, NEW p \in Pilot, NEW t \in O!Teams, NEW s \in Limited,
         O!Alone(p, t), O!allowed_ship(p, t, s), p \notin tmpPick,
         state[p] \in {"POUTFIT", "deciding"}
  PROVE  /\ s_turns[<<t, s>>] = 0
         /\ \A q \in Pilot : Holds(q, t, s) => q = p
<1> DEFINE Holders == {q \in Pilot : O!Has(q, t, s)}
<1>1. O!shipcount(t, s) < 1 /\ s_turns[<<t, s>>] <= -O!shipcount(t, s) * s_timer
  BY DEF O!allowed_ship
<1>2. O!shipcount(t, s) = Cardinality(Holders)
  BY DEF O!shipcount, O!Cardinality, Cardinality
<1>3. IsFiniteSet(Holders)
  BY FS_Subset DEF AllowanceAssumption
<1>4. Cardinality(Holders) \in Nat
  BY <1>3, FS_CardinalityType
<1>5. Cardinality(Holders) = 0 /\ Holders = {}
  BY <1>1, <1>2, <1>3, <1>4, FS_EmptySet
<1>6. s_turns[<<t, s>>] = 0
  <2>1. s_turns[<<t, s>>] \in Int /\ s_turns[<<t, s>>] >= 0
    BY DEF OutfitInv, OutfitTypes
  <2>2. -O!shipcount(t, s) * s_timer = 0
    BY <1>2, <1>5 DEF AllowanceAssumption
  <2> QED
    BY <1>1, <2>1, <2>2
<1>7. ASSUME NEW q \in Pilot, q # p
      PROVE  /\ state[q] \notin {"chosen", "decided", "deciding"} /\ q \notin hidden
             /\ state[q] # "PEXPLODE" \/ side[q] # t
  BY <1>7 DEF O!Alone, AllowanceAssumption, OutfitInv, OutfitFlags
<1>8. ASSUME NEW q \in Pilot, q # p
      PROVE  ~Holds(q, t, s)
  BY <1>5, <1>7, <1>8 DEF Holds, O!Has
<1> QED
  BY <1>6, <1>8

(* One player's step: the places he holds afterwards he held before, or    *)
(* they were empty but for him.                                            *)
LEMMA OneActs ==
  ASSUME OutfitInv, NEW p \in Pilot, OutfitTypes', UNCHANGED <<tourn, s_turns>>,
         \A q \in Pilot \ {p} :
           /\ state'[q] = state[q] /\ side'[q] = side[q] /\ s_type'[q] = s_type[q]
           /\ switching'[q] = switching[q]
           /\ q \in killed' <=> q \in killed
           /\ q \in hidden' <=> q \in hidden
           /\ q \in tmpPick' <=> q \in tmpPick,
         OutfitFlags(p)',
         \A t \in O!Teams, s \in Limited :
           Holds(p, t, s)' => Holds(p, t, s) \/ (/\ s_turns[<<t, s>>] = 0
                                                 /\ \A q \in Pilot : Holds(q, t, s) => q = p)
  PROVE  OutfitInv'
<1>1. ASSUME NEW q \in Pilot \ {p}
      PROVE  OutfitFlags(q)' /\ \A t, s : Holds(q, t, s)' => Holds(q, t, s)
  <2>1. OutfitFlags(q)
    BY DEF OutfitInv
  <2> QED
    BY <2>1 DEF OutfitFlags, Holds
<1>2. \A q \in Pilot : OutfitFlags(q)'
  BY <1>1
<1>3. ASSUME NEW t \in O!Teams, NEW s \in Limited
      PROVE  /\ s_turns'[<<t, s>>] >= 0 /\ s_turns'[<<t, s>>] <= s_timer
             /\ \A q \in Pilot : Holds(q, t, s)' => s_turns'[<<t, s>>] = 0
             /\ \A q, r \in Pilot : Holds(q, t, s)' /\ Holds(r, t, s)' => q = r
  <2>1. /\ s_turns[<<t, s>>] >= 0 /\ s_turns[<<t, s>>] <= s_timer
        /\ \A q \in Pilot : Holds(q, t, s) => s_turns[<<t, s>>] = 0
        /\ \A q, r \in Pilot : Holds(q, t, s) /\ Holds(r, t, s) => q = r
    BY DEF OutfitInv
  <2>2. \A q \in Pilot : q # p /\ Holds(q, t, s)' => Holds(q, t, s)
    BY <1>1
  <2>3. Holds(p, t, s)' => Holds(p, t, s) \/ (/\ s_turns[<<t, s>>] = 0
                                              /\ \A q \in Pilot : Holds(q, t, s) => q = p)
    OBVIOUS
  <2> QED
    BY <2>1, <2>2, <2>3
<1> QED
  BY <1>2, <1>3 DEF OutfitInv

(* getEntry(): asked to confirm, remembered as mass-produced, or granted.  *)
LEMMA EntryStep ==
  ASSUME AllowanceAssumption, OutfitInv, NEW p \in Pilot, O!getEntry(p)
  PROVE  OutfitInv'
<1>1. state[p] = "POUTFIT" /\ UNCHANGED <<tourn, s_turns, hidden, killed>>
  BY DEF O!getEntry, O!Confirm, O!Granted
<1>2. PICK t \in O!tournamentMask(side[p]), s \in O!Types :
        O!Alone(p, t) /\ (O!Confirm(p, t) \/ O!Granted(p, t, s))
  BY DEF O!getEntry
<1>3. OutfitTypes /\ OutfitFlags(p)
  BY DEF OutfitInv
<1>4. CASE O!Confirm(p, t)
  <2>1. switching' = [switching EXCEPT ![p] = t] /\ UNCHANGED <<state, side, s_type, tmpPick>>
    BY <1>4 DEF O!Confirm
  <2>2. OutfitTypes' /\ OutfitFlags(p)'
    BY <1>1, <1>3, <2>1 DEF OutfitTypes, OutfitFlags
  <2>3. \A q \in Pilot \ {p} : switching'[q] = switching[q]
    BY <1>3, <2>1 DEF OutfitTypes
  <2>4. \A u, v : ~Holds(p, u, v)'
    BY <1>1, <2>1 DEF Holds, O!Living
  <2> QED
    BY <1>1, <2>1, <2>2, <2>3, <2>4, OneActs
<1>5. CASE O!Granted(p, t, s) /\ s = "PATROL"
  <2>1. /\ "mass-produced" \in Loopholes
        /\ tmpPick' = tmpPick \cup {p} /\ UNCHANGED <<state, side, s_type, switching>>
    BY <1>5 DEF O!Granted
  <2>2. OutfitTypes' /\ OutfitFlags(p)'
    BY <1>1, <1>3, <2>1 DEF OutfitTypes, OutfitFlags
  <2>3. \A q \in Pilot \ {p} : q \in tmpPick' <=> q \in tmpPick
    BY <2>1
  <2>4. \A u, v : ~Holds(p, u, v)'
    BY <1>1, <2>1 DEF Holds, O!Living
  <2> QED
    BY <1>1, <2>1, <2>2, <2>3, <2>4, OneActs
<1>6. CASE O!Granted(p, t, s) /\ s # "PATROL"
  <2> DEFINE given == IF p \in tmpPick /\ s \in Ported THEN "PATROL" ELSE s
  <2>1. /\ state' = [state EXCEPT ![p] = "chosen"] /\ s_type' = [s_type EXCEPT ![p] = given]
        /\ tmpPick' = tmpPick \ {p} /\ switching' = [switching EXCEPT ![p] = t] /\ UNCHANGED side
        /\ O!allowed_ship(p, t, s)
    BY <1>6 DEF O!Granted
  <2>2. given \in Limited => given = s /\ p \notin tmpPick
    BY <1>3 DEF AllowanceAssumption, OutfitFlags
  <2> HIDE DEF given
  <2>3. /\ state'[p] = "chosen" /\ s_type'[p] = given /\ switching'[p] = t
        /\ \A q \in Pilot \ {p} : /\ state'[q] = state[q] /\ s_type'[q] = s_type[q]
                                  /\ switching'[q] = switching[q]
                                  /\ q \in tmpPick' <=> q \in tmpPick
    BY <1>3, <2>1 DEF OutfitTypes
  <2>4. OutfitTypes' /\ OutfitFlags(p)'
    BY <1>1, <1>3, <2>1, <2>3 DEF OutfitTypes, OutfitFlags
  <2>5. ASSUME NEW u \in O!Teams, NEW v \in Limited, Holds(p, u, v)'
        PROVE  /\ s_turns[<<u, v>>] = 0
               /\ \A q \in Pilot : Holds(q, u, v) => q = p
    <3>1. u = t /\ v = s /\ p \notin tmpPick
      BY <2>2, <2>3, <2>5 DEF Holds, O!Living
    <3> QED
      BY <1>1, <1>2, <2>1, <3>1, PlaceEmpty
  <2> QED
    BY <1>1, <2>1, <2>3, <2>4, <2>5, OneActs
<1> QED
  BY <1>2, <1>4, <1>5, <1>6

(* He enters the game, asks for a refit, is refused or granted one, and    *)
(* gets it; he is destroyed, and comes back to the outfit loop.            *)
LEMMA PilotStep ==
  ASSUME AllowanceAssumption, OutfitInv, NEW p \in Pilot,
         O!enter(p) \/ O!RefitAsked(p) \/ O!RefitDecided(p) \/ O!Refitted(p)
         \/ O!Destroyed(p) \/ O!Outfits(p)
  PROVE  OutfitInv'
<1>1. OutfitTypes /\ OutfitFlags(p)
  BY DEF OutfitInv
<1>2. CASE O!enter(p)
  <2>1. /\ state[p] = "chosen" /\ state' = [state EXCEPT ![p] = "PALIVE"]
        /\ side' = [side EXCEPT ![p] = switching[p]]
        /\ switching' = [switching EXCEPT ![p] = O!ALLTEAM]
        /\ UNCHANGED <<s_type, hidden, tmpPick, killed, tourn, s_turns>>
    BY <1>2 DEF O!enter
  <2>2. /\ state'[p] = "PALIVE" /\ side'[p] = switching[p] /\ OutfitTypes'
        /\ \A q \in Pilot \ {p} : /\ state'[q] = state[q] /\ side'[q] = side[q]
                                  /\ switching'[q] = switching[q]
    BY <1>1, <2>1 DEF OutfitTypes
  <2>3. OutfitFlags(p)'
    BY <1>1, <2>1, <2>2 DEF OutfitFlags
  <2>4. \A u, v : Holds(p, u, v)' => Holds(p, u, v)
    BY <2>1, <2>2 DEF Holds
  <2> QED
    BY <2>1, <2>2, <2>3, <2>4, OneActs
<1>3. CASE O!RefitAsked(p)
  <2>1. /\ state[p] = "PALIVE" /\ state' = [state EXCEPT ![p] = "deciding"]
        /\ hidden' = hidden \cup {p}
        /\ UNCHANGED <<side, s_type, tmpPick, switching, killed, tourn, s_turns>>
    BY <1>3 DEF O!RefitAsked
  <2>2. /\ state'[p] = "deciding" /\ OutfitTypes'
        /\ \A q \in Pilot \ {p} : state'[q] = state[q] /\ (q \in hidden' <=> q \in hidden)
    BY <1>1, <2>1 DEF OutfitTypes
  <2>3. OutfitFlags(p)'
    BY <1>1, <2>1, <2>2 DEF OutfitFlags
  <2>4. \A u, v : Holds(p, u, v)' => Holds(p, u, v)
    BY <2>1, <2>2 DEF Holds, O!Living
  <2> QED
    BY <2>1, <2>2, <2>3, <2>4, OneActs
<1>4. CASE O!RefitDecided(p)
  <2>1. /\ state[p] = "deciding" /\ hidden' = hidden \ {p}
        /\ UNCHANGED <<side, s_type, tmpPick, killed, tourn, s_turns>>
        /\ \/ state' = [state EXCEPT ![p] = "PALIVE"] /\ UNCHANGED switching
           \/ /\ O!Alone(p, side[p])
              /\ \E s \in O!Types \ {"PATROL"} :
                   O!allowed_ship(p, side[p], s) /\ switching' = [switching EXCEPT ![p] = s]
              /\ state' = [state EXCEPT ![p] = "decided"]
    <3>1. state' = [state EXCEPT ![p] = "PALIVE"] => state'[p] = "PALIVE"
      BY <1>1 DEF OutfitTypes
    <3> QED
      BY <1>4, <3>1 DEF O!RefitDecided
  <2>2. \A q \in Pilot \ {p} : q \in hidden' <=> q \in hidden
    BY <2>1
  <2>3. CASE state' = [state EXCEPT ![p] = "PALIVE"] /\ UNCHANGED switching
    <3>1. state'[p] = "PALIVE" /\ OutfitTypes' /\ \A q \in Pilot \ {p} : state'[q] = state[q]
      BY <1>1, <2>1, <2>3 DEF OutfitTypes
    <3>2. OutfitFlags(p)'
      BY <1>1, <2>1, <3>1 DEF OutfitFlags
    <3>3. \A u, v : Holds(p, u, v)' => Holds(p, u, v)
      BY <2>1, <3>1 DEF Holds, O!Living
    <3> QED
      BY <2>1, <2>2, <2>3, <3>1, <3>2, <3>3, OneActs
  <2>4. ASSUME O!Alone(p, side[p]), state' = [state EXCEPT ![p] = "decided"],
               NEW s \in O!Types \ {"PATROL"},
               O!allowed_ship(p, side[p], s), switching' = [switching EXCEPT ![p] = s]
        PROVE  OutfitInv'
    <3>1. /\ state'[p] = "decided" /\ switching'[p] = s /\ OutfitTypes'
          /\ \A q \in Pilot \ {p} : state'[q] = state[q] /\ switching'[q] = switching[q]
      BY <1>1, <2>1, <2>4 DEF OutfitTypes
    <3>2. OutfitFlags(p)' /\ p \notin tmpPick
      BY <1>1, <2>1, <3>1 DEF OutfitFlags
    <3>3. ASSUME NEW u \in O!Teams, NEW v \in Limited, Holds(p, u, v)', ~Holds(p, u, v)
          PROVE  /\ s_turns[<<u, v>>] = 0
                 /\ \A q \in Pilot : Holds(q, u, v) => q = p
      <4>1. u = side[p] /\ v = s
        BY <2>1, <3>1, <3>3 DEF Holds, O!Living
      <4> QED
        BY <2>1, <2>4, <3>2, <4>1, PlaceEmpty
    <3> QED
      BY <2>1, <2>2, <3>1, <3>2, <3>3, OneActs
  <2> QED
    BY <2>1, <2>3, <2>4
<1>5. CASE O!Refitted(p)
  <2>1. /\ state[p] = "decided" /\ state' = [state EXCEPT ![p] = "PALIVE"]
        /\ s_type' = [s_type EXCEPT ![p] = switching[p]]
        /\ switching' = [switching EXCEPT ![p] = O!ALLTEAM]
        /\ UNCHANGED <<side, hidden, tmpPick, killed, tourn, s_turns>>
    BY <1>5 DEF O!Refitted
  <2>2. /\ state'[p] = "PALIVE" /\ s_type'[p] = switching[p] /\ OutfitTypes'
        /\ \A q \in Pilot \ {p} : /\ state'[q] = state[q] /\ s_type'[q] = s_type[q]
                                  /\ switching'[q] = switching[q]
    BY <1>1, <2>1 DEF OutfitTypes
  <2>3. OutfitFlags(p)'
    BY <1>1, <2>1, <2>2 DEF OutfitFlags
  <2>4. \A u, v : Holds(p, u, v)' => Holds(p, u, v)
    BY <2>1, <2>2 DEF Holds
  <2> QED
    BY <2>1, <2>2, <2>3, <2>4, OneActs
<1>6. CASE O!Destroyed(p)
  <2>1. /\ state[p] = "PALIVE" /\ state' = [state EXCEPT ![p] = "PEXPLODE"]
        /\ killed' = killed \cup {p} \/ killed' = killed \ {p}
        /\ UNCHANGED <<side, s_type, hidden, tmpPick, switching, tourn, s_turns>>
    BY <1>6 DEF O!Destroyed
  <2>2. /\ state'[p] = "PEXPLODE" /\ OutfitTypes'
        /\ \A q \in Pilot \ {p} : state'[q] = state[q] /\ (q \in killed' <=> q \in killed)
    BY <1>1, <2>1 DEF OutfitTypes
  <2>3. OutfitFlags(p)'
    BY <1>1, <2>1, <2>2 DEF OutfitFlags
  <2>4. \A u, v : Holds(p, u, v)' => Holds(p, u, v)
    BY <2>1, <2>2 DEF Holds, O!Living
  <2> QED
    BY <2>1, <2>2, <2>3, <2>4, OneActs
<1>7. CASE O!Outfits(p)
  <2>1. /\ state[p] = "PDEAD" /\ state' = [state EXCEPT ![p] = "POUTFIT"]
        /\ side' = side \/ side' = [side EXCEPT ![p] = O!ALLTEAM]
        /\ s_type' = [s_type EXCEPT ![p] = "CRUISER"] /\ killed' = killed \ {p}
        /\ UNCHANGED <<hidden, tmpPick, switching, tourn, s_turns>>
    BY <1>7 DEF O!Outfits
  <2>2. /\ state'[p] = "POUTFIT" /\ OutfitTypes'
        /\ \A q \in Pilot \ {p} : /\ state'[q] = state[q] /\ side'[q] = side[q]
                                  /\ s_type'[q] = s_type[q] /\ (q \in killed' <=> q \in killed)
    BY <1>1, <2>1 DEF OutfitTypes
  <2>3. OutfitFlags(p)'
    BY <1>1, <2>1, <2>2 DEF OutfitFlags
  <2>4. \A u, v : ~Holds(p, u, v)'
    BY <2>2 DEF Holds, O!Living
  <2> QED
    BY <2>1, <2>2, <2>3, <2>4, OneActs
<1> QED
  BY <1>2, <1>3, <1>4, <1>5, <1>6, <1>7

(* A building time that is extended stays a number.                        *)
LEMMA LaterTyped ==
  ASSUME NEW Keys, NEW f \in [Keys -> Int], NEW k, NEW n \in Int
  PROVE  [f EXCEPT ![k] = f[k] + n] \in [Keys -> Int]
<1>1. CASE k \in Keys
  <2>1. f[k] + n \in Int
    BY <1>1
  <2> QED
    BY <2>1
<1>2. CASE k \notin Keys
  BY <1>2
<1> QED
  BY <1>1, <1>2

(* What was lost to the enemy is built again: its place is free from then  *)
(* on, and nothing was being built for it.                                 *)
LEMMA BuiltStep ==
  ASSUME AllowanceAssumption, OutfitInv, NEW p \in Pilot, O!doshipexplode(p)
  PROVE  OutfitInv'
<1> DEFINE theirs == p \in killed /\ tourn /\ s_type[p] \in Limited
<1>1. /\ state[p] = "PEXPLODE" /\ state' = [state EXCEPT ![p] = "PDEAD"]
      /\ s_turns' = IF theirs THEN [s_turns EXCEPT ![<<side[p], s_type[p]>>] = @ + s_timer] ELSE s_turns
      /\ UNCHANGED <<side, s_type, hidden, tmpPick, switching, killed, tourn>>
  BY DEF O!doshipexplode
<1>2. OutfitTypes /\ OutfitFlags(p) /\ s_timer \in Nat
  BY DEF OutfitInv, AllowanceAssumption
<1>3. state'[p] = "PDEAD" /\ \A q \in Pilot \ {p} : state'[q] = state[q]
  BY <1>1, <1>2 DEF OutfitTypes
<1>4. OutfitTypes'
  <2>1. s_turns' \in [O!Teams \X Limited -> Int]
    <3>1. CASE theirs
      <4>1. s_turns \in [O!Teams \X Limited -> Int] /\ s_timer \in Int
        BY <1>2 DEF OutfitTypes
      <4>2. s_turns' = [s_turns EXCEPT ![<<side[p], s_type[p]>>] = s_turns[<<side[p], s_type[p]>>] + s_timer]
        BY <1>1, <3>1
      <4> QED
        BY <4>1, <4>2, LaterTyped
    <3>2. CASE ~theirs
      BY <1>1, <1>2, <3>2 DEF OutfitTypes
    <3> QED
      BY <3>1, <3>2
  <2> QED
    BY <1>1, <1>2, <2>1 DEF OutfitTypes
<1>5. \A q \in Pilot : OutfitFlags(q)'
  BY <1>1, <1>3 DEF OutfitInv, OutfitFlags
<1>6. \A q \in Pilot : \A u, v : Holds(q, u, v)' => q # p /\ Holds(q, u, v)
  BY <1>1, <1>3 DEF Holds, O!Living
<1>7. ASSUME NEW u \in O!Teams, NEW v \in Limited
      PROVE  /\ s_turns'[<<u, v>>] >= 0 /\ s_turns'[<<u, v>>] <= s_timer
             /\ \A q \in Pilot : Holds(q, u, v)' => s_turns'[<<u, v>>] = 0
             /\ \A q, r \in Pilot : Holds(q, u, v)' /\ Holds(r, u, v)' => q = r
  <2>1. /\ s_turns[<<u, v>>] >= 0 /\ s_turns[<<u, v>>] <= s_timer
        /\ \A q \in Pilot : Holds(q, u, v) => s_turns[<<u, v>>] = 0
        /\ \A q, r \in Pilot : Holds(q, u, v) /\ Holds(r, u, v) => q = r
    BY DEF OutfitInv
  <2>2. CASE theirs /\ u = side[p] /\ v = s_type[p]
    <3>1. Holds(p, u, v)
      BY <1>1, <2>2 DEF Holds
    <3>2. \A q \in Pilot : ~Holds(q, u, v)'
      BY <1>6, <2>1, <3>1
    <3>3. s_turns'[<<u, v>>] = s_timer
      <4>1. s_turns[<<u, v>>] = 0
        BY <2>1, <3>1
      <4>2. s_turns'[<<u, v>>] = s_turns[<<u, v>>] + s_timer
        BY <1>1, <1>2, <2>2 DEF OutfitTypes
      <4> QED
        BY <1>2, <4>1, <4>2
    <3> QED
      BY <1>2, <3>2, <3>3
  <2>3. CASE ~(theirs /\ u = side[p] /\ v = s_type[p])
    <3>1. s_turns'[<<u, v>>] = s_turns[<<u, v>>]
      BY <1>1, <1>2, <2>3 DEF OutfitTypes
    <3> QED
      BY <1>6, <2>1, <3>1
  <2> QED
    BY <2>2, <2>3
<1> QED
  BY <1>4, <1>5, <1>7 DEF OutfitInv

(* Every step, of a player or of the daemon.                               *)
LEMMA OutfitStep ==
  ASSUME AllowanceAssumption, OutfitInv, [O!Next]_(O!vars)
  PROVE  OutfitInv'
<1>1. ASSUME NEW p \in Pilot,
             \/ O!getEntry(p) \/ O!enter(p) \/ O!RefitAsked(p) \/ O!RefitDecided(p) \/ O!Refitted(p)
             \/ O!Destroyed(p) \/ O!doshipexplode(p) \/ O!Outfits(p)
      PROVE  OutfitInv'
  BY <1>1, EntryStep, PilotStep, BuiltStep
<1>2. CASE O!shipbuild_timers
  <2>1. /\ s_turns' = [k \in DOMAIN s_turns |-> IF s_turns[k] > 0 THEN s_turns[k] - 1 ELSE s_turns[k]]
        /\ UNCHANGED <<state, side, s_type, hidden, tmpPick, switching, killed, tourn>>
    BY <1>2 DEF O!shipbuild_timers, O!mine
  <2>2. OutfitTypes
    BY DEF OutfitInv
  <2>3. OutfitTypes' /\ \A u \in O!Teams, v \in Limited :
          s_turns'[<<u, v>>] = IF s_turns[<<u, v>>] > 0 THEN s_turns[<<u, v>>] - 1 ELSE s_turns[<<u, v>>]
    BY <2>1, <2>2 DEF OutfitTypes
  <2>4. \A p \in Pilot : OutfitFlags(p)'
    BY <2>1 DEF OutfitInv, OutfitFlags
  <2>5. ASSUME NEW u \in O!Teams, NEW v \in Limited
        PROVE  /\ s_turns'[<<u, v>>] >= 0 /\ s_turns'[<<u, v>>] <= s_timer
               /\ \A p \in Pilot : Holds(p, u, v)' => s_turns'[<<u, v>>] = 0
               /\ \A p, q \in Pilot : Holds(p, u, v)' /\ Holds(q, u, v)' => p = q
    <3>1. s_turns[<<u, v>>] \in Int /\ s_timer \in Nat
      BY <2>2 DEF OutfitTypes, AllowanceAssumption
    <3>2. /\ s_turns[<<u, v>>] >= 0 /\ s_turns[<<u, v>>] <= s_timer
          /\ \A p \in Pilot : Holds(p, u, v) => s_turns[<<u, v>>] = 0
          /\ \A p, q \in Pilot : Holds(p, u, v) /\ Holds(q, u, v) => p = q
      BY DEF OutfitInv
    <3>3. \A p \in Pilot : Holds(p, u, v)' <=> Holds(p, u, v)
      BY <2>1 DEF Holds
    <3> QED
      BY <2>3, <3>1, <3>2, <3>3
  <2> QED
    BY <2>3, <2>4, <2>5 DEF OutfitInv
<1>3. CASE O!Conquered \/ UNCHANGED O!vars
  <2>1. UNCHANGED <<state, side, s_type, hidden, tmpPick, switching, killed, tourn, s_turns>>
    BY <1>3 DEF O!Conquered, O!vars, O!mine
  <2> QED
    BY <2>1 DEF OutfitInv, OutfitTypes, OutfitFlags, Holds
<1> QED
  BY <1>1, <1>2, <1>3 DEF O!Next

(* A team has, has lost or is building no more than it may.                *)
LEMMA LimitFollows ==
  ASSUME AllowanceAssumption, OutfitInv
  PROVE  O!LimitKept
<1> SUFFICES ASSUME NEW t \in O!Teams, NEW s \in Limited
             PROVE  O!Cardinality({p \in Pilot : state[p] \in O!Living /\ side[p] = t /\ s_type[p] = s}
                                  \cup O!Lost(t, s)) * s_timer + s_turns[<<t, s>>] <= s_timer
  BY DEF O!LimitKept
<1> DEFINE X == {p \in Pilot : state[p] \in O!Living /\ side[p] = t /\ s_type[p] = s} \cup O!Lost(t, s)
<1>1. X \subseteq {p \in Pilot : Holds(p, t, s)}
  BY DEF Holds, O!Lost
<1>2. O!Cardinality(X) = Cardinality(X)
  BY DEF O!Cardinality, Cardinality
<1> HIDE DEF X
<1>3. /\ s_timer \in Nat /\ s_turns[<<t, s>>] \in Int
      /\ s_turns[<<t, s>>] >= 0 /\ s_turns[<<t, s>>] <= s_timer
      /\ \A p \in Pilot : Holds(p, t, s) => s_turns[<<t, s>>] = 0
      /\ \A p, q \in Pilot : Holds(p, t, s) /\ Holds(q, t, s) => p = q
  BY DEF OutfitInv, OutfitTypes, AllowanceAssumption
<1>4. CASE X = {}
  <2>1. Cardinality(X) = 0
    BY <1>4, FS_EmptySet
  <2> QED
    BY <1>2, <1>3, <2>1 DEF X
<1>5. CASE X # {}
  <2>1. PICK p \in X : TRUE
    BY <1>5
  <2>2. X = {p} /\ s_turns[<<t, s>>] = 0
    BY <1>1, <1>3, <2>1
  <2>3. Cardinality(X) = 1
    BY <2>2, FS_Singleton
  <2> QED
    BY <1>2, <1>3, <2>2, <2>3 DEF X
<1> QED
  BY <1>4, <1>5

(* tournamentMask() offers a player his own team, if it is one of two that *)
(* play or there are less of them.                                         *)
LEMMA RejoinFollows ==
  ASSUME AllowanceAssumption
  PROVE  O!MayRejoin
<1> SUFFICES ASSUME NEW p \in Pilot, tourn, side[p] \in O!Alive, O!Cardinality(O!Bigs) <= 2,
                    O!Cardinality(O!Bigs) = 2 => O!IsBig(side[p])
             PROVE  side[p] \in O!tournamentMask(side[p])
  BY DEF O!MayRejoin
<1> DEFINE t == side[p]
<1>1. O!Bigs \subseteq {1, 2} /\ DOMAIN Sides = {1, 2}
  BY DEF O!Bigs, Sides
<1>2. O!Cardinality(O!Bigs) = Cardinality(O!Bigs)
  BY DEF O!Cardinality, Cardinality
<1>3. Cardinality({}) = 0 /\ Cardinality({1}) = 1 /\ Cardinality({2}) = 1
  BY FS_EmptySet, FS_Singleton
<1>4. t \in O!Own(t)
  BY DEF O!Own, O!Alive
<1>5. t # O!ALLTEAM => O!Own(t) = {t}
  BY DEF O!Own, O!Alive
<1>6. CASE O!Cardinality(O!Bigs) < 2
  BY <1>4, <1>6 DEF O!tournamentMask
<1>7. CASE ~(O!Cardinality(O!Bigs) < 2)
  <2>1. O!Bigs = {1, 2}
    <3>1. O!Bigs = {} \/ O!Bigs = {1} \/ O!Bigs = {2} \/ O!Bigs = {1, 2}
      BY <1>1
    <3> QED
      BY <1>2, <1>3, <1>7, <3>1
  <2>2. Cardinality({1, 2}) = 2
    <3>1. {1, 2} = {1} \cup {2} /\ 2 \notin {1}
      OBVIOUS
    <3>2. Cardinality({1} \cup {2}) = Cardinality({1}) + 1
      BY <3>1, FS_AddElement, FS_Singleton
    <3> QED
      BY <1>3, <3>1, <3>2
  <2>3. O!IsBig(t)
    BY <1>2, <2>1, <2>2
  <2>4. O!Min({1, 2}) = 1 /\ O!Min({1, 2} \ {1}) = 2
    BY DEF O!Min
  <2>5. O!tournamentMask(t) = O!Balanced(O!Own(t), Sides[1], Sides[2])
    BY <1>7, <2>1, <2>4 DEF O!tournamentMask
  <2>6. t = Sides[1] \/ t = Sides[2]
    <3>1. t \in {Sides[i] : i \in DOMAIN Sides}
      BY DEF O!Alive, O!Teams
    <3> QED
      BY <1>1, <3>1
  <2>7. t # O!ALLTEAM /\ Sides[1] # Sides[2]
    BY <2>6 DEF Sides, O!ALLTEAM
  <2>8. O!Own(t) = {t}
    BY <1>5, <2>7
  <2>9. t \in O!Balanced({t}, Sides[1], Sides[2])
    <3> DEFINE n1 == O!realNumShips(Sides[1])
               n2 == O!realNumShips(Sides[2])
    <3>1. n1 \in Nat /\ n2 \in Nat
      <4>1. \A x : IsFiniteSet({q \in Pilot : side[q] = x})
        BY FS_Subset DEF AllowanceAssumption
      <4>2. \A x : O!realNumShips(x) = Cardinality({q \in Pilot : side[q] = x})
        BY DEF O!realNumShips, O!Cardinality, Cardinality
      <4> QED
        BY <4>1, <4>2, FS_CardinalityType
    <3> HIDE DEF n1, n2
    <3>2. O!Balanced({t}, Sides[1], Sides[2]) =
            CASE n1 = n2 -> IF {t} \cap {Sides[1], Sides[2]} # {} THEN {t} \cap {Sides[1], Sides[2]}
                            ELSE {Sides[1], Sides[2]}
              [] n1 > n2 /\ {t} # {Sides[1]} -> {Sides[2]}
              [] n1 < n2 /\ {t} # {Sides[2]} -> {Sides[1]}
              [] OTHER -> IF n1 - n2 \in {-1, 1} THEN {t} ELSE {Sides[1], Sides[2]}
      BY DEF O!Balanced, n1, n2
    <3>3. CASE n1 = n2
      BY <2>6, <3>2, <3>3
    <3>4. CASE n1 > n2
      BY <2>6, <3>1, <3>2, <3>4
    <3>5. CASE n1 < n2
      BY <2>6, <3>1, <3>2, <3>5
    <3> QED
      BY <3>1, <3>3, <3>4, <3>5
  <2> QED
    BY <2>5, <2>8, <2>9
<1> QED
  BY <1>6, <1>7

(* The steps of the history while it is about the outfit loop.             *)
LEMMA OutfitNext ==
  machine = "Outfit" /\ [Next]_vars => machine' = "Outfit" /\ [O!Next]_(O!vars)
BY DEF Next, vars, Ends, outfit, O!vars

(* For each ship of a limited type that a team has, has lost to the enemy  *)
(* or is building there is a place in its limit, through grants, refits,   *)
(* explosions and building times (interface.c: allowed_ship, do_refit;     *)
(* daemonII.c: shipbuild_timers); and who comes back to a tournament is    *)
(* offered his team again (getentry.c: tournamentMask): for any players,   *)
(* ships and building times, where a choice of a mass-produced ship is     *)
(* followed only by ships with ports.                                      *)
THEOREM OutfitIsSound ==
  ASSUME AllowanceAssumption
  PROVE  Spec => []OutfitSound
<1> DEFINE Inv == machine = "Outfit" => OutfitInv
<1>1. Init => Inv
  BY OutfitInit DEF Init
<1>2. Inv /\ [Next]_vars => Inv'
  <2>1. [Next]_vars => machine' = machine
    BY DEF Next, vars, Ends
  <2>2. machine = "Outfit" /\ OutfitInv /\ [Next]_vars => OutfitInv'
    BY OutfitNext, OutfitStep
  <2> QED
    BY <2>1, <2>2
<1>3. Inv => OutfitSound
  BY LimitFollows, RejoinFollows DEF OutfitSound
<1> QED
  BY <1>1, <1>2, <1>3, PTL DEF Spec

-----------------------------------------------------------------------------
(***************************************************************************)
(* Pings.  A number is recognized by how many pings ago it was sent, and   *)
(* no ping is under way for a whole ring: what a place of the ring holds   *)
(* is what was sent with the ping asked for, and the losses never exceed   *)
(* it (PingWindow).  While packets keep their order, each packet carries   *)
(* the counts that make the losses true when it is read (PingOrder), as    *)
(* long as an answer is not taken for a late one.  It is not, as every     *)
(* number between the last answer and the oldest ping under way is that of *)
(* a packet that was lost (PingGaps), and fewer than half of the numbers   *)
(* are.                                                                    *)
(***************************************************************************)
(* Numbers of pings and places of the ring.                                *)
PingAssumption ==
  /\ HASHSIZE \in Nat \ {0} /\ \E m \in Nat \ {0} : BYTE = m * (2 * HASHSIZE)
  /\ {PingMax, AnswerMax, LostMax, Flight} \subseteq Nat

Numbers == 0..BYTE - 1

(* How many pings ago number q was sent, if the last one was number id.    *)
Ago(id, q) == IF q <= id THEN id - q ELSE id - q + BYTE

(* A product with a whole number is a whole number, as far from zero at    *)
(* least.                                                                  *)
LEMMA Product ==
  ASSUME NEW h \in Nat \ {0}, NEW k \in Int
  PROVE  h * k \in Int /\ (k >= 1 => h * k >= h) /\ (k <= -1 => h * k <= -h) /\ (k = 0 => h * k = 0)
<1>1. CASE k >= 1
  <2>1. PICK n \in Nat : k = n + 1
    BY <1>1
  <2>2. h * n \in Nat
    OBVIOUS
  <2>3. h * k = h * n + h
    BY <2>1
  <2> QED
    BY <1>1, <2>2, <2>3
<1>2. CASE k <= -1
  <2>1. PICK n \in Nat : k = -n - 1
    BY <1>2
  <2>2. h * n \in Nat
    OBVIOUS
  <2>3. h * k = -(h * n) - h
    BY <2>1
  <2> QED
    BY <1>2, <2>2, <2>3
<1> QED
  BY <1>1, <1>2

(* Quotient and remainder.                                                 *)
LEMMA Division ==
  ASSUME NEW h \in Nat \ {0}, NEW a \in Int
  PROVE  /\ a \div h \in Int /\ a % h \in 0..h - 1
         /\ a = h * (a \div h) + (a % h)
OBVIOUS

(* Two numbers have one place if they are a ring apart, or any number of   *)
(* rings, and not if they are closer.                                      *)
LEMMA Remainders ==
  ASSUME NEW h \in Nat \ {0}, NEW a \in Int, NEW b \in Int, NEW k \in Int
  PROVE  /\ b = a + h * k => b % h = a % h
         /\ b % h = a % h => \E n \in Int : b = a + h * n
<1>1. /\ a \div h \in Int /\ a % h \in 0..h - 1 /\ a = h * (a \div h) + (a % h)
      /\ b \div h \in Int /\ b % h \in 0..h - 1 /\ b = h * (b \div h) + (b % h)
  BY Division
<1> DEFINE u == a \div h
           v == b \div h
           r == a % h
           s == b % h
<1> HIDE DEF u, v, r, s
<1>2. u \in Int /\ v \in Int /\ r \in 0..h - 1 /\ s \in 0..h - 1 /\ a = h * u + r /\ b = h * v + s
  BY <1>1 DEF u, v, r, s
<1>3. ASSUME b = a + h * k PROVE s = r
  <2> DEFINE n == u + k - v
  <2>1. n \in Int
    BY <1>2
  <2>2. h * n = h * u + h * k - h * v
    BY <1>2
  <2>3. h * u \in Int /\ h * k \in Int /\ h * v \in Int
    BY <1>2
  <2> HIDE DEF n
  <2>4. h * n = s - r
    BY <1>2, <1>3, <2>2, <2>3
  <2>5. n = 0
    BY <1>2, <2>1, <2>4, Product
  <2> QED
    BY <1>2, <2>1, <2>4, <2>5, Product
<1>4. ASSUME s = r PROVE \E n \in Int : b = a + h * n
  <2> DEFINE n == v - u
  <2>1. n \in Int /\ h * n = h * v - h * u /\ h * u \in Int /\ h * v \in Int
    BY <1>2
  <2> HIDE DEF n
  <2>2. b = a + h * n
    BY <1>2, <1>4, <2>1
  <2> QED
    BY <2>1, <2>2
<1> QED
  BY <1>3, <1>4 DEF r, s

(* The numbers are an even number of rings.                                *)
LEMMA Rings ==
  ASSUME PingAssumption
  PROVE  /\ BYTE \in Nat /\ BYTE \div 2 \in Nat /\ BYTE = 2 * (BYTE \div 2)
         /\ HASHSIZE <= BYTE \div 2
         /\ \E k \in Nat \ {0} : BYTE = HASHSIZE * k
<1>1. PICK m \in Nat \ {0} : BYTE = m * (2 * HASHSIZE)
  BY DEF PingAssumption
<1> DEFINE h == HASHSIZE * m
<1>2. h \in Int /\ h >= HASHSIZE /\ HASHSIZE \in Nat \ {0}
  BY Product DEF PingAssumption
<1>3. BYTE = 2 * h /\ BYTE = HASHSIZE * (2 * m)
  BY <1>1, <1>2
<1>4. 2 * m \in Nat \ {0}
  BY <1>1
<1> HIDE DEF h
<1>5. BYTE \div 2 = h
  BY <1>2, <1>3
<1>6. \E k \in Nat \ {0} : BYTE = HASHSIZE * k
  BY <1>4, <1>3
<1>7. BYTE \in Nat
  BY <1>2, <1>3
<1> QED
  BY <1>2, <1>3, <1>5, <1>6, <1>7

(* How long ago is a number again, that of no time only for the last ping, *)
(* and the difference but for whole turns.                                 *)
LEMMA AgoIs ==
  ASSUME PingAssumption, NEW id \in Numbers, NEW q \in Numbers
  PROVE  /\ Ago(id, q) \in Numbers /\ (Ago(id, q) = 0 <=> q = id)
         /\ \E n \in Int : id - q = Ago(id, q) - BYTE * n
BY Rings DEF Ago, Numbers

(* How long ago is less than a turn.                                       *)
LEMMA AgoNat ==
  ASSUME PingAssumption, NEW id \in Numbers, NEW q \in Numbers
  PROVE  Ago(id, q) \in Nat /\ Ago(id, q) < BYTE
BY Rings DEF Ago, Numbers

(* The next number.                                                        *)
LEMMA NextNumber ==
  ASSUME PingAssumption, NEW id \in Numbers
  PROVE  /\ (id + 1) % BYTE \in Numbers
         /\ (id + 1) % BYTE = IF id = BYTE - 1 THEN 0 ELSE id + 1
         /\ \A q \in Numbers : q # (id + 1) % BYTE =>
              Ago((id + 1) % BYTE, q) = Ago(id, q) + 1
         /\ Ago(id, (id + 1) % BYTE) = BYTE - 1
<1>1. BYTE \in Nat /\ BYTE >= 2 /\ id \in 0..BYTE - 1
  BY Rings DEF Numbers, PingAssumption
<1>2. (id + 1) % BYTE = IF id = BYTE - 1 THEN 0 ELSE id + 1
  <2>1. CASE id = BYTE - 1
    <3>1. BYTE % BYTE = 0
      BY <1>1
    <3> QED
      BY <1>1, <2>1, <3>1
  <2>2. CASE id # BYTE - 1
    <3> DEFINE n == id + 1
    <3>1. n \in 0..BYTE - 1
      BY <1>1, <2>2
    <3> HIDE DEF n
    <3>2. n % BYTE = n
      BY <1>1, <3>1
    <3> QED
      BY <2>2, <3>2 DEF n
  <2> QED
    BY <2>1, <2>2
<1> QED
  BY <1>1, <1>2 DEF Ago, Numbers

(* Pings share a place if they are a ring apart, not if they are closer.   *)
LEMMA Places ==
  ASSUME PingAssumption, NEW id \in Numbers, NEW q \in Numbers
  PROVE  /\ G!PITH(q) \in 0..HASHSIZE - 1
         /\ Ago(id, q) = HASHSIZE => G!PITH(q) = G!PITH(id)
         /\ Ago(id, q) \in 1..HASHSIZE - 1 => G!PITH(q) # G!PITH(id)
<1> DEFINE d == Ago(id, q)
<1>1. PICK n \in Int : id - q = d - BYTE * n
  BY AgoIs
<1>2. PICK k \in Nat \ {0} : BYTE = HASHSIZE * k
  BY Rings
<1>3. id \in Int /\ q \in Int /\ d \in Int /\ HASHSIZE \in Nat \ {0}
  BY AgoIs, Rings DEF Numbers, PingAssumption
<1> HIDE DEF d
<1>4. BYTE * n = HASHSIZE * (k * n) /\ k * n \in Int /\ HASHSIZE * (k * n) \in Int
  BY <1>1, <1>2, <1>3
<1> DEFINE e == k * n
<1> HIDE DEF e
<1>5. id = q + d - HASHSIZE * e /\ e \in Int /\ HASHSIZE * e \in Int
  BY <1>1, <1>3, <1>4 DEF e
<1>6. q % HASHSIZE \in 0..HASHSIZE - 1
  BY <1>3, Division
<1>7. ASSUME d = HASHSIZE PROVE id % HASHSIZE = q % HASHSIZE
  <2> DEFINE f == 1 - e
  <2>1. f \in Int /\ HASHSIZE * f = HASHSIZE - HASHSIZE * e
    BY <1>3, <1>5
  <2> HIDE DEF f
  <2>2. id = q + HASHSIZE * f
    BY <1>3, <1>5, <1>7, <2>1
  <2> QED
    BY <1>3, <2>1, <2>2, Remainders
<1>8. ASSUME d \in 1..HASHSIZE - 1, id % HASHSIZE = q % HASHSIZE PROVE FALSE
  <2>1. PICK f \in Int : id = q + HASHSIZE * f
    BY <1>3, <1>8, Remainders
  <2> DEFINE g == f + e
  <2>2. g \in Int /\ HASHSIZE * g = HASHSIZE * f + HASHSIZE * e /\ HASHSIZE * f \in Int
    BY <1>3, <1>5
  <2> HIDE DEF g
  <2>3. HASHSIZE * g = d
    BY <1>3, <1>5, <2>1, <2>2
  <2> QED
    BY <1>3, <1>8, <2>2, <2>3, Product
<1> QED
  BY <1>6, <1>7, <1>8 DEF G!PITH, d

(* A difference of numbers less than half of them apart.                   *)
LEMMA Compared ==
  ASSUME PingAssumption, NEW id \in Numbers, NEW q \in Numbers, NEW r \in Numbers
  PROVE  /\ Ago(id, q) - Ago(id, r) \in 0..(BYTE \div 2) - 1 => ~(G!uchar_diff(r, q) < 0)
         /\ Ago(id, r) < HASHSIZE /\ ~(G!uchar_diff(r, q) < 0) => Ago(id, r) <= Ago(id, q)
<1> DEFINE h == BYTE \div 2
<1>1. h \in Nat /\ BYTE = 2 * h /\ HASHSIZE <= h /\ HASHSIZE \in Nat
  BY Rings DEF PingAssumption
<1>2. G!uchar_diff(r, q) = IF r - q > h THEN r - q - BYTE ELSE IF r - q < -h THEN r - q + BYTE ELSE r - q
  BY DEF G!uchar_diff
<1> HIDE DEF h
<1> QED
  BY <1>1, <1>2 DEF Ago, Numbers, h

(* The loss is a percentage of what has been sent.                         *)
LEMMA PercentageIs ==
  ASSUME NEW v \in Nat \ {0}, NEW s \in 0..v
  PROVE  100 - (100 * (v - s)) \div v \in 0..100
<1> DEFINE a == 100 * (v - s)
           n == a \div v
           r == a % v
<1>2. a \in Int /\ 0 <= a /\ a <= 100 * v
  OBVIOUS
<1> HIDE DEF a
<1>1. n \in Int /\ r \in 0..v - 1 /\ a = v * n + r
  BY <1>2, Division
<1> HIDE DEF n, r
<1>3. n >= 0
  BY <1>1, <1>2, Product
<1>4. n <= 100
  <2> DEFINE m == n - 100
  <2>1. m \in Int /\ v * m = v * n - v * 100 /\ v * n \in Int
    BY <1>1
  <2> HIDE DEF m
  <2>2. v * m <= 0
    BY <1>1, <1>2, <2>1
  <2>3. ~(m >= 1)
    BY <2>1, <2>2, Product
  <2> QED
    BY <1>1, <2>1, <2>3 DEF m
<1> QED
  BY <1>1, <1>3, <1>4 DEF n, a

(* Two queues one after the other.                                         *)
LEMMA Joined ==
  ASSUME NEW Kind, NEW a \in Seq(Kind), NEW b \in Seq(Kind)
  PROVE  /\ a \o b \in Seq(Kind) /\ Len(a \o b) = Len(a) + Len(b)
         /\ \A j \in 1..Len(a) + Len(b) : (a \o b)[j] = IF j <= Len(a) THEN a[j] ELSE b[j - Len(a)]
OBVIOUS

(* A queue with one more, and without one.                                 *)
LEMMA Appended ==
  ASSUME NEW Kind, NEW q \in Seq(Kind), NEW e \in Kind
  PROVE  /\ Append(q, e) \in Seq(Kind) /\ Len(Append(q, e)) = Len(q) + 1 /\ Len(q) \in Nat
         /\ Append(q, e)[Len(q) + 1] = e
         /\ \A i \in 1..Len(q) : Append(q, e)[i] = q[i] /\ q[i] \in Kind
         /\ DOMAIN q = 1..Len(q) /\ DOMAIN Append(q, e) = 1..Len(q) + 1
OBVIOUS

(* A queue without one of its packets: the others, in their order.         *)
LEMMA Taken ==
  ASSUME NEW Kind, NEW q \in Seq(Kind), NEW i \in DOMAIN q
  PROVE  /\ G!Without(q, i) \in Seq(Kind) /\ Len(G!Without(q, i)) = Len(q) - 1 /\ Len(q) \in Nat \ {0}
         /\ i \in 1..Len(q) /\ DOMAIN q = 1..Len(q) /\ DOMAIN G!Without(q, i) = 1..Len(q) - 1
         /\ \A j \in 1..Len(q) - 1 : G!Without(q, i)[j] = IF j < i THEN q[j] ELSE q[j + 1]
         /\ \A j \in 1..Len(q) : q[j] \in Kind
<1> DEFINE a == SubSeq(q, 1, i - 1)
           b == SubSeq(q, i + 1, Len(q))
           n == Len(q)
<1>1. n \in Nat \ {0} /\ i \in 1..n /\ DOMAIN q = 1..n /\ \A j \in 1..n : q[j] \in Kind
  OBVIOUS
<1>2. a \in Seq(Kind) /\ Len(a) = i - 1 /\ \A j \in 1..i - 1 : a[j] = q[j]
  BY <1>1
<1>3. b \in Seq(Kind) /\ Len(b) = n - i /\ \A j \in 1..n - i : b[j] = q[i + j]
  BY <1>1
<1> HIDE DEF a, b, n
<1>4. /\ a \o b \in Seq(Kind) /\ Len(a \o b) = Len(a) + Len(b)
      /\ \A j \in 1..Len(a) + Len(b) : (a \o b)[j] = IF j <= Len(a) THEN a[j] ELSE b[j - Len(a)]
  BY <1>2, <1>3, Joined
<1> DEFINE c == a \o b
<1>5. c = G!Without(q, i)
  BY DEF G!Without, a, b, n
<1> HIDE DEF c
<1>6. c \in Seq(Kind) /\ Len(c) = n - 1 /\ \A j \in 1..n - 1 : c[j] = IF j < i THEN q[j] ELSE q[j + 1]
  <2>1. Len(a) + Len(b) = n - 1
    BY <1>1, <1>2, <1>3
  <2>2. c \in Seq(Kind) /\ Len(c) = n - 1
    BY <1>4, <2>1 DEF c
  <2>3. ASSUME NEW j \in 1..n - 1 PROVE c[j] = IF j < i THEN q[j] ELSE q[j + 1]
    <3>1. c[j] = IF j <= i - 1 THEN a[j] ELSE b[j - (i - 1)]
      BY <1>4, <2>1, <1>2 DEF c
    <3>2. CASE j < i
      BY <1>1, <1>2, <3>1, <3>2
    <3>3. CASE ~(j < i)
      <4>1. j - (i - 1) \in 1..n - i /\ i + (j - (i - 1)) = j + 1 /\ ~(j <= i - 1)
        BY <1>1, <3>3
      <4> QED
        BY <1>3, <3>1, <3>3, <4>1
    <3> QED
      BY <3>2, <3>3
  <2> QED
    BY <2>2, <2>3
<1>7. DOMAIN c = 1..n - 1
  BY <1>6
<1> QED
  BY <1>1, <1>5, <1>6, <1>7 DEF n

Downs == [ping : Numbers \cup {-1}, lost : Nat]
Ups == [answer : Numbers \cup {-1}, cp_recv : Nat, cp_sent : Nat, down : Nat, up : Nat]
Losses == [down : Nat, up : Nat]

PingTyped ==
  /\ ping_id \in Numbers /\ last_num \in Numbers
  /\ packets_sent \in Nat /\ packets_received \in Int
  /\ ping_sent \in [0..HASHSIZE - 1 -> Nat]
  /\ s_to_c_dropped \in Nat /\ c_to_s_dropped \in Nat
  /\ cp_recv \in Nat /\ cp_sent \in Nat
  /\ down \in Seq(Downs) /\ up \in Seq(Ups)
  /\ truth \in Losses /\ judged \in Losses /\ ordered \in BOOLEAN

(* A packet sent is in the queue, or one more is lost.                     *)
LEMMA DownSent ==
  ASSUME PingTyped, NEW p \in Downs, G!Sends(p)
  PROVE  /\ down' \in Seq(Downs) /\ truth' \in Losses /\ truth'.up = truth.up
         /\ \/ down' = Append(down, p) /\ truth' = truth
            \/ down' = down /\ truth'.down = truth.down + 1
<1>1. truth \in Losses /\ down \in Seq(Downs)
  BY DEF PingTyped
<1>2. CASE down' = Append(down, p) /\ UNCHANGED truth
  BY <1>1, <1>2
<1>3. CASE down' = down /\ truth' = [truth EXCEPT !.down = @ + 1]
  BY <1>1, <1>3 DEF Losses
<1> QED
  BY <1>2, <1>3 DEF G!Sends

(* The client's packet is queued or lost.                                  *)
LEMMA UpSent ==
  ASSUME PingTyped, cp_recv' \in Nat, NEW a \in Numbers \cup {-1}, NEW n \in Nat, G!ClientSends(a, n)
  PROVE  LET p == [answer |-> a, cp_recv |-> cp_recv', cp_sent |-> cp_sent + 1, down |-> n, up |-> truth.up]
         IN  /\ p \in Ups /\ cp_sent' = cp_sent + 1 /\ up' \in Seq(Ups) /\ truth' \in Losses
             /\ truth'.down = truth.down
             /\ \/ up' = Append(up, p) /\ truth' = truth
                \/ up' = up /\ truth'.up = truth.up + 1
<1> DEFINE p == [answer |-> a, cp_recv |-> cp_recv', cp_sent |-> cp_sent + 1, down |-> n, up |-> truth.up]
<1>1. truth \in Losses /\ up \in Seq(Ups) /\ cp_sent \in Nat
  BY DEF PingTyped
<1>2. p \in Ups
  BY <1>1 DEF Losses, Ups
<1>3. cp_sent' = cp_sent + 1
  BY DEF G!ClientSends
<1>4. CASE up' = Append(up, p) /\ UNCHANGED truth
  <2> HIDE DEF p
  <2>1. up' \in Seq(Ups) /\ truth' \in Losses /\ truth'.down = truth.down /\ up' = Append(up, p) /\ truth' = truth
    BY <1>1, <1>2, <1>4
  <2> QED
    BY <1>2, <1>3, <2>1 DEF p
<1>5. CASE up' = up /\ truth' = [truth EXCEPT !.up = @ + 1]
  <2>1. up' \in Seq(Ups) /\ truth' \in Losses /\ truth'.down = truth.down /\ up' = up /\ truth'.up = truth.up + 1
    BY <1>1, <1>5 DEF Losses
  <2> QED
    BY <1>2, <1>3, <2>1
<1> QED
  <2>1. (up' = Append(up, p) /\ UNCHANGED truth) \/ (up' = up /\ truth' = [truth EXCEPT !.up = @ + 1])
    <3>1. [answer |-> a, cp_recv |-> cp_recv', cp_sent |-> cp_sent + 1, down |-> n, up |-> truth.up] = p
      OBVIOUS
    <3> QED
      BY <3>1, Zenon DEF G!ClientSends
  <2> QED
    BY <2>1, <1>4, <1>5

(* The types hold at first.                                                *)
LEMMA PingInit ==
  ASSUME PingAssumption, G!Init
  PROVE  PingTyped
<1>1. BYTE \in Nat /\ BYTE >= 2 /\ HASHSIZE \in Nat \ {0}
  BY Rings DEF PingAssumption
<1>2. ping_id \in Numbers /\ last_num \in Numbers
  BY <1>1 DEF G!Init, Numbers
<1> QED
  BY <1>2 DEF PingTyped, G!Init, Losses

(* What each step does, in the terms of the queues.                        *)
LEMMA PingUpdateIs ==
  ASSUME PingTyped, G!SendUpdate
  PROVE  LET p == [ping |-> -1, lost |-> truth.down]
         IN  PingTyped' /\ p \in Downs /\ packets_sent' = packets_sent + 1 /\ G!Sends(p)
<1> DEFINE p == [ping |-> -1, lost |-> truth.down]
<1>1. p \in Downs /\ G!Sends(p)
  BY DEF PingTyped, G!SendUpdate, G!NoPing, Losses, Downs
<1>2. down' \in Seq(Downs) /\ truth' \in Losses
  BY <1>1, DownSent
<1> QED
  BY <1>1, <1>2 DEF PingTyped, G!SendUpdate, G!counters

(* The server sends a ping with the next number.                           *)
LEMMA PingSentIs ==
  ASSUME PingAssumption, PingTyped, G!sendClientPing
  PROVE  LET id == (ping_id + 1) % BYTE
             p == [ping |-> id, lost |-> truth.down]
         IN  /\ PingTyped' /\ p \in Downs /\ G!Sends(p) /\ ping_id' = id /\ id \in Numbers
             /\ packets_sent' = packets_sent + 1
             /\ ping_sent' = [ping_sent EXCEPT ![G!PITH(id)] = packets_sent + 1]
             /\ G!PITH(id) \in 0..HASHSIZE - 1
             /\ \A i \in DOMAIN down : down[i].ping = -1 \/ G!PITH(down[i].ping) # G!PITH(id)
             /\ \A i \in DOMAIN up : up[i].answer = -1 \/ G!PITH(up[i].answer) # G!PITH(id)
<1> DEFINE id == (ping_id + 1) % BYTE
           p == [ping |-> id, lost |-> truth.down]
<1>1. id \in Numbers
  BY NextNumber DEF PingTyped
<1>2. G!PITH(id) \in 0..HASHSIZE - 1
  BY <1>1, Places
<1>3. /\ ping_id' = id /\ packets_sent' = packets_sent + 1 /\ G!Sends(p)
      /\ ping_sent' = [ping_sent EXCEPT ![G!PITH(id)] = packets_sent + 1]
      /\ \A i \in DOMAIN down : down[i].ping = -1 \/ G!PITH(down[i].ping) # G!PITH(id)
      /\ \A i \in DOMAIN up : up[i].answer = -1 \/ G!PITH(up[i].answer) # G!PITH(id)
      /\ UNCHANGED <<last_num, packets_received, s_to_c_dropped, c_to_s_dropped, cp_recv, cp_sent, up,
                     judged, ordered>>
  BY DEF G!sendClientPing, G!NoPing
<1> HIDE DEF id
<1>4. p \in Downs
  BY <1>1 DEF Downs, PingTyped, Losses
<1>5. down' \in Seq(Downs) /\ truth' \in Losses
  BY <1>3, <1>4, DownSent
<1>6. ping_sent' \in [0..HASHSIZE - 1 -> Nat]
  BY <1>2, <1>3 DEF PingTyped
<1>7. PingTyped'
  BY <1>1, <1>3, <1>5, <1>6 DEF PingTyped
<1> QED
  BY <1>1, <1>2, <1>3, <1>4, <1>7 DEF id

(* The client reads.                                                       *)
LEMMA PingReadIs ==
  ASSUME PingTyped, G!ClientReads
  PROVE  /\ PingTyped'
         /\ UNCHANGED <<ping_id, last_num, ping_sent, s_to_c_dropped, c_to_s_dropped, judged,
                        packets_sent, packets_received>>
         /\ cp_recv' = cp_recv + 1
         /\ \E i \in DOMAIN down :
              /\ down' = G!Without(down, i) /\ (ordered' <=> ordered /\ i = 1)
              /\ \/ down[i].ping = -1 /\ UNCHANGED <<cp_sent, up, truth>>
                 \/ down[i].ping # -1 /\ G!ClientSends(down[i].ping, down[i].lost)
<1>1. PICK i \in DOMAIN down :
        /\ down' = G!Without(down, i) /\ ordered' = (ordered /\ i = 1) /\ cp_recv' = cp_recv + 1
        /\ IF down[i].ping = -1 THEN UNCHANGED <<cp_sent, up, truth>>
           ELSE G!ClientSends(down[i].ping, down[i].lost)
  BY DEF G!ClientReads, G!First, G!NoPing
<1>2. UNCHANGED <<ping_id, last_num, ping_sent, s_to_c_dropped, c_to_s_dropped, judged,
                  packets_sent, packets_received>>
  BY DEF G!ClientReads, G!counters
<1>3. down \in Seq(Downs) /\ cp_recv' \in Nat
  BY <1>1 DEF PingTyped
<1>4. down' \in Seq(Downs) /\ down[i] \in Downs
  BY <1>1, <1>3, Taken
<1>5. cp_sent' \in Nat /\ up' \in Seq(Ups) /\ truth' \in Losses
  <2>1. CASE down[i].ping = -1
    BY <1>1, <2>1 DEF PingTyped
  <2>2. CASE down[i].ping # -1
    <3>1. down[i].ping \in Numbers \cup {-1} /\ down[i].lost \in Nat
      BY <1>4 DEF Downs
    <3>2. G!ClientSends(down[i].ping, down[i].lost)
      BY <1>1, <2>2
    <3>3. cp_sent' = cp_sent + 1 /\ up' \in Seq(Ups) /\ truth' \in Losses
      BY <1>3, <3>1, <3>2, UpSent
    <3> QED
      BY <3>3 DEF PingTyped
  <2> QED
    BY <2>1, <2>2
<1>6. PingTyped'
  BY <1>1, <1>2, <1>3, <1>4, <1>5 DEF PingTyped
<1> QED
  BY <1>1, <1>2, <1>6

(* The client sends what is no answer.                                     *)
LEMMA PingActsIs ==
  ASSUME PingTyped, G!ClientActs
  PROVE  /\ PingTyped' /\ G!ClientSends(-1, 0) /\ -1 \in Numbers \cup {-1} /\ 0 \in Nat /\ cp_recv' \in Nat
         /\ UNCHANGED <<ping_id, last_num, ping_sent, s_to_c_dropped, c_to_s_dropped, judged,
                        packets_sent, packets_received, cp_recv, down, ordered>>
<1>1. /\ G!ClientSends(-1, 0)
      /\ UNCHANGED <<ping_id, last_num, ping_sent, s_to_c_dropped, c_to_s_dropped, judged,
                     packets_sent, packets_received, cp_recv, down, ordered>>
  BY DEF G!ClientActs, G!counters, G!NoPing
<1>2. cp_recv' \in Nat /\ -1 \in Numbers \cup {-1} /\ 0 \in Nat
  BY <1>1 DEF PingTyped
<1>3. cp_sent' = cp_sent + 1 /\ up' \in Seq(Ups) /\ truth' \in Losses
  BY <1>1, <1>2, UpSent
<1>4. PingTyped'
  BY <1>1, <1>2, <1>3 DEF PingTyped
<1> QED
  BY <1>1, <1>2, <1>4

(* What the server makes of an answer p.                                   *)
Late(p) == G!uchar_diff(p.answer, last_num) < 0
Reckoned(sc, cs, r) ==
  /\ \/ sc >= s_to_c_dropped /\ s_to_c_dropped' = sc /\ packets_sent' = packets_sent
     \/ /\ sc < s_to_c_dropped /\ s_to_c_dropped' = s_to_c_dropped
        /\ packets_sent' = packets_sent + s_to_c_dropped - sc
  /\ \/ cs >= c_to_s_dropped /\ c_to_s_dropped' = cs /\ packets_received' = r
     \/ /\ cs < c_to_s_dropped /\ c_to_s_dropped' = c_to_s_dropped
        /\ packets_received' = r - (c_to_s_dropped - cs)
Reckons(p) ==
  /\ ping_sent[G!PITH(p.answer)] # 0 /\ packets_received + 1 # 0
  /\ Reckoned(ping_sent[G!PITH(p.answer)] - p.cp_recv, p.cp_sent - (packets_received + 1), packets_received + 1)
Ignores(p) ==
  LET v == ping_sent[G!PITH(p.answer)]
  IN  /\ UNCHANGED <<s_to_c_dropped, c_to_s_dropped, packets_sent>>
      /\ packets_received' = packets_received + 1
      /\ \/ (p.answer = -1 \/ Late(p)) /\ last_num' = last_num
         \/ /\ p.answer # -1 /\ ~Late(p) /\ (v = 0 \/ packets_received + 1 = 0)
            /\ last_num' = p.answer

(* The server reads: it ignores the packet, or reckons the losses from it. *)
LEMMA PingServedIs ==
  ASSUME PingAssumption, PingTyped, G!ServerReads
  PROVE  /\ PingTyped'
         /\ UNCHANGED <<ping_id, ping_sent, cp_recv, cp_sent, down, truth>>
         /\ \E i \in DOMAIN up :
              /\ up' = G!Without(up, i) /\ (ordered' <=> ordered /\ i = 1)
              /\ judged' = IF up[i].answer = -1 THEN judged ELSE [down |-> up[i].down, up |-> up[i].up]
              /\ \/ Ignores(up[i])
                 \/ up[i].answer # -1 /\ ~Late(up[i]) /\ last_num' = up[i].answer /\ Reckons(up[i])
<1>1. PICK i \in DOMAIN up :
        /\ up' = G!Without(up, i) /\ ordered' = (ordered /\ i = 1)
        /\ judged' = IF up[i].answer = -1 THEN judged ELSE [down |-> up[i].down, up |-> up[i].up]
        /\ IF up[i].answer = -1 \/ Late(up[i])
           THEN /\ packets_received' = packets_received + 1
                /\ UNCHANGED <<last_num, s_to_c_dropped, c_to_s_dropped, packets_sent>>
           ELSE /\ last_num' = up[i].answer
                /\ IF packets_received + 1 = 0 \/ ping_sent[G!PITH(up[i].answer)] = 0
                   THEN /\ packets_received' = packets_received + 1
                        /\ UNCHANGED <<s_to_c_dropped, c_to_s_dropped, packets_sent>>
                   ELSE G!calc_loss(up[i], packets_received + 1)
  BY DEF G!ServerReads, G!First, G!NoPing, Late
<1>2. UNCHANGED <<ping_id, ping_sent, cp_recv, cp_sent, down, truth>>
  BY DEF G!ServerReads
<1> DEFINE p == up[i]
<1>3. up' \in Seq(Ups) /\ p \in Ups
  BY <1>1, Taken DEF PingTyped
<1> HIDE DEF p
<1>4. judged' \in Losses
  <2>1. judged' = IF p.answer = -1 THEN judged ELSE [down |-> p.down, up |-> p.up]
    BY <1>1 DEF p
  <2> QED
    BY <1>3, <2>1 DEF Ups, Losses, PingTyped
<1>5. \/ Ignores(p)
      \/ p.answer # -1 /\ ~Late(p) /\ last_num' = p.answer /\ Reckons(p)
  <2>0. packets_received \in Int /\ ping_sent \in [0..HASHSIZE - 1 -> Nat] /\ s_to_c_dropped \in Nat
        /\ c_to_s_dropped \in Nat /\ packets_sent \in Nat
    BY DEF PingTyped
  <2>a. p.answer \in Numbers \cup {-1} /\ p.cp_recv \in Nat /\ p.cp_sent \in Nat
    BY <1>3 DEF Ups
  <2>1. CASE p.answer = -1 \/ Late(p)
    BY <1>1, <2>1 DEF Ignores, p
  <2>2. CASE ~(p.answer = -1 \/ Late(p))
    <3> DEFINE v == ping_sent[G!PITH(p.answer)]
    <3>1. v \in Nat
      BY <2>0, <2>2, <2>a, Places
    <3>2. last_num' = p.answer
      BY <1>1, <2>2 DEF p
    <3>3. CASE packets_received + 1 = 0 \/ v = 0
      BY <1>1, <2>2, <3>3 DEF Ignores, p
    <3>4. CASE ~(packets_received + 1 = 0 \/ v = 0)
      <4>1. G!calc_loss(p, packets_received + 1)
        BY <1>1, <2>2, <3>4 DEF p
      <4>2. Reckons(p)
        <5> DEFINE r == packets_received + 1
                   sc == v - p.cp_recv
                   cs == p.cp_sent - r
        <5>1. /\ s_to_c_dropped' = IF sc < s_to_c_dropped THEN s_to_c_dropped ELSE sc
              /\ packets_sent' = IF sc < s_to_c_dropped THEN packets_sent + s_to_c_dropped - sc ELSE packets_sent
              /\ c_to_s_dropped' = IF cs < c_to_s_dropped THEN c_to_s_dropped ELSE cs
              /\ packets_received' = IF cs < c_to_s_dropped THEN r - (c_to_s_dropped - cs) ELSE r
          BY <4>1, Zenon DEF G!calc_loss
        <5>2. sc \in Int /\ cs \in Int /\ r \in Int
          BY <2>0, <2>a, <3>1
        <5> HIDE DEF sc, cs, r
        <5>3. Reckoned(sc, cs, r)
          BY <5>1, <5>2, <2>0 DEF Reckoned
        <5>4. v # 0 /\ r # 0
          BY <3>4 DEF r
        <5> QED
          BY <5>3, <5>4, Zenon DEF Reckons, sc, cs, r
      <4> QED
        BY <2>2, <3>2, <4>2
    <3> QED
      BY <3>3, <3>4
  <2> QED
    BY <2>1, <2>2
<1>6. /\ packets_sent' \in Nat /\ packets_received' \in Int /\ s_to_c_dropped' \in Nat
      /\ c_to_s_dropped' \in Nat /\ last_num' \in Numbers
  <2>1. p.answer \in Numbers \cup {-1} /\ p.cp_recv \in Nat /\ p.cp_sent \in Nat
    BY <1>3 DEF Ups
  <2>2. CASE Ignores(p)
    BY <2>1, <2>2 DEF Ignores, PingTyped
  <2>3. CASE p.answer # -1 /\ ~Late(p) /\ last_num' = p.answer /\ Reckons(p)
    <3> DEFINE v == ping_sent[G!PITH(p.answer)]
    <3>1. v \in Nat
      BY <2>1, <2>3, Places DEF PingTyped
    <3>2. packets_sent \in Nat /\ packets_received \in Int /\ s_to_c_dropped \in Nat /\ c_to_s_dropped \in Nat
      BY DEF PingTyped
    <3>3. Reckoned(v - p.cp_recv, p.cp_sent - (packets_received + 1), packets_received + 1)
      BY <2>3, Zenon DEF Reckons
    <3>4. v - p.cp_recv \in Int /\ p.cp_sent - (packets_received + 1) \in Int
      BY <2>1, <3>1, <3>2
    <3> HIDE DEF v
    <3> QED
      BY <2>1, <2>3, <3>2, <3>3, <3>4 DEF Reckoned
  <2> QED
    BY <1>5, <2>2, <2>3
<1>7. PingTyped'
  BY <1>1, <1>2, <1>3, <1>4, <1>6 DEF PingTyped
<1> QED
  BY <1>1, <1>2, <1>5, <1>7 DEF p

(* The pings that are under way, to the client or back.                    *)
Packets(q) == {q[i] : i \in DOMAIN q}
Flights(d, u) ==
  {n \in Numbers : (\E p \in Packets(d) : p.ping = n) \/ (\E p \in Packets(u) : p.answer = n)}
Flying == Flights(down, up)

(* What sending and reading do to a queue's contents.                      *)
LEMMA AppendedHas ==
  ASSUME NEW Kind, NEW q \in Seq(Kind), NEW e \in Kind
  PROVE  Packets(Append(q, e)) = Packets(q) \cup {e}
<1> DEFINE r == Append(q, e)
<1>1. /\ Len(q) \in Nat /\ r[Len(q) + 1] = e /\ \A i \in 1..Len(q) : r[i] = q[i]
      /\ DOMAIN q = 1..Len(q) /\ DOMAIN r = 1..Len(q) + 1
  BY Appended
<1> HIDE DEF r
<1>2. \A i \in DOMAIN r : i \in DOMAIN q \/ i = Len(q) + 1
  BY <1>1
<1>3. DOMAIN q \subseteq DOMAIN r /\ Len(q) + 1 \in DOMAIN r
  BY <1>1
<1>4. \A i \in DOMAIN q : r[i] = q[i]
  BY <1>1
<1> QED
  BY <1>1, <1>2, <1>3, <1>4, Zenon DEF r, Packets

(* The packets of a queue, without one.                                    *)
LEMMA TakenHas ==
  ASSUME NEW Kind, NEW q \in Seq(Kind), NEW i \in DOMAIN q
  PROVE  /\ Packets(G!Without(q, i)) \subseteq Packets(q)
         /\ Packets(q) \subseteq Packets(G!Without(q, i)) \cup {q[i]}
<1> DEFINE r == G!Without(q, i)
           n == Len(q)
<1>1. /\ n \in Nat \ {0} /\ i \in 1..n /\ DOMAIN q = 1..n /\ DOMAIN r = 1..n - 1
      /\ \A j \in 1..n - 1 : r[j] = IF j < i THEN q[j] ELSE q[j + 1]
  BY Taken
<1> HIDE DEF r, n
<1>2. ASSUME NEW j \in DOMAIN r PROVE \E k \in DOMAIN q : r[j] = q[k]
  <2>1. j \in DOMAIN q /\ j + 1 \in DOMAIN q /\ (r[j] = q[j] \/ r[j] = q[j + 1])
    BY <1>1
  <2> QED
    BY <2>1
<1>3. ASSUME NEW k \in DOMAIN q, k # i PROVE \E j \in DOMAIN r : r[j] = q[k]
  <2>1. CASE k < i
    <3>1. k \in DOMAIN r /\ r[k] = q[k]
      BY <1>1, <2>1
    <3> QED
      BY <3>1
  <2>2. CASE ~(k < i)
    <3>1. k - 1 \in DOMAIN r /\ ~(k - 1 < i) /\ (k - 1) + 1 = k
      BY <1>1, <1>3, <2>2
    <3>2. r[k - 1] = q[k]
      BY <1>1, <3>1
    <3> QED
      BY <3>1, <3>2
  <2> QED
    BY <2>1, <2>2
<1> QED
  BY <1>2, <1>3 DEF r, Packets

(* What is no ping changes no ping under way.                              *)
LEMMA UpdateFlies ==
  ASSUME PingTyped, NEW p \in Downs, p.ping = -1, G!Sends(p), up' = up, BYTE \in Nat
  PROVE  Flying' = Flying
<1>1. -1 \notin Numbers
  BY DEF Numbers
<1>2. Packets(down') = Packets(down) \/ Packets(down') = Packets(down) \cup {p}
  <2>1. Packets(Append(down, p)) = Packets(down) \cup {p}
    BY AppendedHas DEF PingTyped
  <2>2. down' = Append(down, p) \/ down' = down
    BY DownSent
  <2> QED
    BY <2>1, <2>2, Zenon
<1> QED
  BY <1>1, <1>2 DEF Flying, Flights

(* A ping that is sent is under way, or lost.                              *)
LEMMA PingFlies ==
  ASSUME PingTyped, NEW p \in Downs, p.ping \in Numbers, G!Sends(p), up' = up
  PROVE  \/ Flying' = Flying \cup {p.ping} /\ truth' = truth
         \/ Flying' = Flying /\ truth'.down = truth.down + 1 /\ truth'.up = truth.up
<1>1. \/ Packets(down') = Packets(down) /\ truth'.down = truth.down + 1 /\ truth'.up = truth.up
      \/ Packets(down') = Packets(down) \cup {p} /\ truth' = truth
  <2>1. Packets(Append(down, p)) = Packets(down) \cup {p}
    BY AppendedHas DEF PingTyped
  <2>2. \/ down' = Append(down, p) /\ truth' = truth
        \/ down' = down /\ truth'.down = truth.down + 1 /\ truth'.up = truth.up
    BY DownSent
  <2> QED
    BY <2>1, <2>2, Zenon
<1>2. Packets(up') = Packets(up)
  BY DEF Packets
<1> QED
  BY <1>1, <1>2 DEF Flying, Flights

(* A ping that the client reads is under way as an answer, or is lost.     *)
LEMMA AnswerFlies ==
  ASSUME PingTyped, G!ClientReads, BYTE \in Nat
  PROVE  \/ Flying' = Flying /\ truth'.down = truth.down /\ truth'.up \in {truth.up, truth.up + 1}
         \/ /\ truth'.down = truth.down /\ truth'.up = truth.up + 1
            /\ \E n \in Flying : Flying \ {n} \subseteq Flying' /\ Flying' \subseteq Flying
<1>1. PICK i \in DOMAIN down :
        /\ down' = G!Without(down, i)
        /\ \/ down[i].ping = -1 /\ UNCHANGED <<cp_sent, up, truth>>
           \/ down[i].ping # -1 /\ G!ClientSends(down[i].ping, down[i].lost)
  BY PingReadIs
<1> DEFINE p == down[i]
<1>2. p \in Downs /\ p \in Packets(down)
  BY Taken DEF PingTyped, Packets
<1>3. Packets(down') \subseteq Packets(down) /\ Packets(down) \subseteq Packets(down') \cup {p}
  BY <1>1, TakenHas DEF PingTyped
<1>4. -1 \notin Numbers
  BY DEF Numbers
<1>5. CASE p.ping = -1 /\ UNCHANGED <<cp_sent, up, truth>>
  <2>1. Packets(up') = Packets(up) /\ truth' = truth
    BY <1>5 DEF Packets
  <2> QED
    BY <1>2, <1>3, <1>4, <1>5, <2>1 DEF Flying, Flights
<1>6. CASE p.ping # -1 /\ G!ClientSends(p.ping, p.lost)
  <2> DEFINE n == p.ping
  <2>1. n \in Numbers /\ p.lost \in Nat /\ cp_recv' \in Nat
    BY <1>2, <1>6, PingReadIs DEF Downs, PingTyped
  <2> DEFINE a == [answer |-> n, cp_recv |-> cp_recv', cp_sent |-> cp_sent + 1, down |-> p.lost, up |-> truth.up]
  <2>2. /\ a \in Ups /\ truth'.down = truth.down
        /\ \/ up' = Append(up, a) /\ truth' = truth
           \/ up' = up /\ truth'.up = truth.up + 1
    BY <1>6, <2>1, UpSent
  <2>3. a.answer = n
    OBVIOUS
  <2> HIDE DEF a, n
  <2>4. n \in Flying
    BY <1>2, <2>1 DEF n, Flying, Flights
  <2>5. CASE up' = Append(up, a) /\ truth' = truth
    <3>1. Packets(up') = Packets(up) \cup {a}
      BY <2>2, <2>5, AppendedHas DEF PingTyped
    <3>2. Flying' = Flying
      BY <1>2, <1>3, <2>1, <2>3, <3>1 DEF n, Flying, Flights
    <3> QED
      BY <2>5, <3>2
  <2>6. CASE up' = up /\ truth'.up = truth.up + 1
    <3>1. Packets(up') = Packets(up)
      BY <2>6 DEF Packets
    <3>2. Flying \ {n} \subseteq Flying' /\ Flying' \subseteq Flying
      BY <1>2, <1>3, <2>1, <3>1 DEF n, Flying, Flights
    <3> QED
      BY <2>2, <2>4, <2>6, <3>2
  <2> QED
    BY <2>2, <2>5, <2>6
<1> QED
  BY <1>1, <1>5, <1>6

(* What is no answer changes no ping under way, either.                    *)
LEMMA ActFlies ==
  ASSUME PingTyped, G!ClientActs, BYTE \in Nat
  PROVE  Flying' = Flying /\ truth'.down = truth.down /\ truth'.up \in {truth.up, truth.up + 1}
<1> DEFINE a == [answer |-> -1, cp_recv |-> cp_recv', cp_sent |-> cp_sent + 1, down |-> 0, up |-> truth.up]
<1>1. /\ a \in Ups /\ truth'.down = truth.down /\ down' = down
      /\ \/ up' = Append(up, a) /\ truth' = truth
         \/ up' = up /\ truth'.up = truth.up + 1
  BY PingActsIs, UpSent
<1>2. a.answer = -1
  OBVIOUS
<1> HIDE DEF a
<1>3. Packets(up') = Packets(up) \/ Packets(up') = Packets(up) \cup {a}
  <2>1. Packets(Append(up, a)) = Packets(up) \cup {a}
    BY <1>1, AppendedHas DEF PingTyped
  <2> QED
    BY <1>1, <2>1, Zenon
<1>4. Packets(down') = Packets(down) /\ -1 \notin Numbers
  BY <1>1 DEF Packets, Numbers
<1> QED
  BY <1>1, <1>2, <1>3, <1>4 DEF Flying, Flights

(* The ping whose answer the server reads is under way no longer.          *)
LEMMA ServedFlies ==
  ASSUME PingAssumption, PingTyped, NEW i \in DOMAIN up, up' = G!Without(up, i), down' = down
  PROVE  /\ Flying' \subseteq Flying
         /\ up[i].answer \in Numbers => up[i].answer \in Flying
         /\ \A n \in Flying : n \in Flying' \/ n = up[i].answer
<1>1. Packets(up') \subseteq Packets(up) /\ Packets(up) \subseteq Packets(up') \cup {up[i]}
  BY TakenHas DEF PingTyped
<1>2. Packets(down') = Packets(down) /\ up[i] \in Packets(up)
  BY DEF Packets
<1> QED
  BY <1>1, <1>2 DEF Flying, Flights

(* What was sent with the ping that has the place of number x.             *)
At(x) == ping_sent[G!PITH(x)]

(* Nothing is under way longer than the ring remembers; the losses are     *)
(* not more than was sent with any ping since the one last answered.       *)
PingWindow ==
  /\ \A n \in Flying : Ago(ping_id, n) < HASHSIZE
  /\ \A x \in Numbers : At(x) <= packets_sent
  /\ \A x \in Numbers : Ago(ping_id, x) <= Ago(ping_id, last_num) => s_to_c_dropped <= At(x)
  /\ \A x, y \in Numbers : Ago(ping_id, x) <= Ago(ping_id, y) /\ Ago(ping_id, y) < HASHSIZE => At(y) <= At(x)

(* What was sent is a number.                                              *)
LEMMA AtIs ==
  ASSUME PingAssumption, PingTyped, NEW x \in Numbers
  PROVE  At(x) \in Nat
BY Places DEF At, PingTyped

(* As long as numbers and losses stay, so does the window.                 *)
LEMMA WindowKept ==
  ASSUME PingAssumption, PingTyped, PingTyped', PingWindow, Flying' \subseteq Flying,
         packets_sent' >= packets_sent,
         UNCHANGED <<ping_id, last_num, ping_sent, s_to_c_dropped>>
  PROVE  PingWindow'
<1>1. \A x \in Numbers : At(x)' = At(x) /\ At(x) \in Nat
  BY AtIs DEF At
<1>2. packets_sent \in Nat /\ packets_sent' \in Nat
  BY DEF PingTyped
<1>3. \A n \in Flying' : Ago(ping_id', n) < HASHSIZE
  BY DEF PingWindow
<1>4. \A x \in Numbers : At(x)' <= packets_sent'
  BY <1>1, <1>2 DEF PingWindow
<1>5. \A x \in Numbers : Ago(ping_id', x) <= Ago(ping_id', last_num') => s_to_c_dropped' <= At(x)'
  BY <1>1 DEF PingWindow
<1>6. \A x, y \in Numbers :
        Ago(ping_id', x) <= Ago(ping_id', y) /\ Ago(ping_id', y) < HASHSIZE => At(y)' <= At(x)'
  BY <1>1 DEF PingWindow
<1> QED
  BY <1>3, <1>4, <1>5, <1>6 DEF PingWindow

(* The window holds at first.                                              *)
LEMMA WindowInit == PingAssumption /\ G!Init => PingWindow
<1> SUFFICES ASSUME PingAssumption, G!Init PROVE PingWindow
  OBVIOUS
<1>1. Flying = {}
  BY DEF G!Init, Flying, Flights, Packets
<1>2. \A x \in Numbers : At(x) = 0
  <2>1. \A x \in Numbers : G!PITH(x) \in 0..HASHSIZE - 1
    BY Places
  <2> QED
    BY <2>1 DEF G!Init, At
<1> QED
  BY <1>1, <1>2 DEF G!Init, PingWindow

(* It holds as the server sends a ping, which takes the place of one a     *)
(* whole ring older.                                                       *)
LEMMA PingInWindow ==
  ASSUME PingAssumption, PingTyped, PingWindow, G!sendClientPing
  PROVE  PingWindow'
<1> DEFINE id == (ping_id + 1) % BYTE
           p == [ping |-> id, lost |-> truth.down]
           m == packets_sent + 1
<1>1. /\ PingTyped' /\ p \in Downs /\ G!Sends(p) /\ ping_id' = id /\ id \in Numbers
      /\ packets_sent' = m /\ ping_sent' = [ping_sent EXCEPT ![G!PITH(id)] = m]
      /\ G!PITH(id) \in 0..HASHSIZE - 1
      /\ \A i \in DOMAIN down : down[i].ping = -1 \/ G!PITH(down[i].ping) # G!PITH(id)
      /\ \A i \in DOMAIN up : up[i].answer = -1 \/ G!PITH(up[i].answer) # G!PITH(id)
      /\ UNCHANGED <<last_num, s_to_c_dropped, up>>
  BY PingSentIs DEF G!sendClientPing
<1>2. p.ping = id
  OBVIOUS
<1>3. /\ \A q \in Numbers : q # id => Ago(id, q) = Ago(ping_id, q) + 1
      /\ Ago(ping_id, id) = BYTE - 1
      /\ \A q \in Numbers : Ago(ping_id, q) \in Numbers /\ Ago(id, q) \in Numbers /\ (Ago(id, q) = 0 <=> q = id)
      /\ ping_id \in Numbers
  BY NextNumber, AgoIs, <1>1 DEF PingTyped
<1>4. ping_sent \in [0..HASHSIZE - 1 -> Nat] /\ packets_sent \in Nat /\ last_num \in Numbers /\ s_to_c_dropped \in Nat
      /\ HASHSIZE \in Nat \ {0} /\ BYTE \in Nat /\ HASHSIZE < BYTE
  <2>1. HASHSIZE \in Nat \ {0} /\ BYTE \in Nat /\ HASHSIZE < BYTE
    BY Rings DEF PingAssumption
  <2> QED
    BY <2>1 DEF PingTyped
<1>a. \A q \in Numbers : Ago(ping_id, q) \in Nat /\ Ago(id, q) \in Nat
  BY <1>1, AgoNat DEF PingTyped
<1>b. \A q \in Numbers : q # id => Ago(id, q) # 0
  BY <1>3
<1> HIDE DEF id
<1>5. Flying' \subseteq Flying \cup {id} /\ \A n \in Flying : G!PITH(n) # G!PITH(id)
  <2>1. Flying' \subseteq Flying \cup {id}
    BY <1>1, <1>2, PingFlies
  <2>2. \A n \in Flying : G!PITH(n) # G!PITH(id)
    BY <1>1 DEF Flying, Flights, Packets, Numbers
  <2> QED
    BY <2>1, <2>2
<1> HIDE DEF p, m
<1>6. \A x \in Numbers :
        /\ G!PITH(x) \in 0..HASHSIZE - 1 /\ At(x) \in Nat
        /\ G!PITH(x) = G!PITH(id) => At(x)' = m
        /\ G!PITH(x) # G!PITH(id) => At(x)' = At(x)
  BY <1>1, <1>4, Places, AtIs DEF At
<1>7. \A x \in Numbers : Ago(id, x) = HASHSIZE => G!PITH(x) = G!PITH(id)
  BY <1>1, Places
<1>8. \A x \in Numbers : Ago(id, x) \in 1..HASHSIZE - 1 => G!PITH(x) # G!PITH(id)
  BY <1>1, Places
<1>9. \A n \in Flying' : Ago(ping_id', n) < HASHSIZE
  <2>1. SUFFICES ASSUME NEW n \in Flying' PROVE Ago(id, n) < HASHSIZE
    BY <1>1
  <2>2. CASE n = id
    BY <1>1, <1>3, <1>4, <2>2
  <2>3. CASE n # id
    <3>1. n \in Flying /\ n \in Numbers
      BY <1>5, <2>3 DEF Flying, Flights
    <3>2. Ago(ping_id, n) < HASHSIZE /\ Ago(id, n) # HASHSIZE
      BY <1>5, <1>7, <3>1 DEF PingWindow
    <3> QED
      <4>1. Ago(id, n) = Ago(ping_id, n) + 1 /\ Ago(ping_id, n) \in Int /\ HASHSIZE \in Int
        BY <1>3, <1>4, <2>3, <3>1 DEF Numbers
      <4> HIDE DEF At
      <4> QED
        BY <4>1, <3>2
  <2> QED
    BY <2>2, <2>3
<1>10. s_to_c_dropped <= packets_sent
  <2>1. Ago(ping_id, last_num) \in Int
    BY <1>3, <1>4 DEF Numbers
  <2>2. Ago(ping_id, last_num) <= Ago(ping_id, last_num)
    BY <2>1
  <2>3. s_to_c_dropped <= At(last_num) /\ At(last_num) <= packets_sent /\ At(last_num) \in Nat
    BY <1>4, <1>6, <2>2 DEF PingWindow
  <2> QED
    BY <1>4, <2>3
<1>11. m = packets_sent + 1
  BY DEF m
<1>12. \A x \in Numbers : At(x)' \in Nat /\ At(x)' <= m /\ At(x) <= packets_sent
  BY <1>4, <1>6, <1>11 DEF PingWindow
<1>13. \A x \in Numbers : Ago(ping_id', x) <= Ago(ping_id', last_num') => s_to_c_dropped' <= At(x)'
  <2>1. SUFFICES ASSUME NEW x \in Numbers, Ago(id, x) <= Ago(id, last_num) PROVE s_to_c_dropped <= At(x)'
    BY <1>1
  <2>2. CASE G!PITH(x) = G!PITH(id)
    BY <1>4, <1>6, <1>10, <1>11, <2>2
  <2>3. CASE G!PITH(x) # G!PITH(id)
    <3>1. x # id
      BY <2>3
    <3>0. Ago(id, x) \in Nat /\ Ago(id, x) # 0 /\ Ago(id, last_num) \in Nat
      BY <1>4, <1>a, <1>b, <3>1
    <3>2. last_num # id
      <4>1. Ago(id, last_num) # 0
        BY <2>1, <3>0
      <4> QED
        BY <4>1, <1>3, <1>4
    <3>3. Ago(ping_id, x) <= Ago(ping_id, last_num)
      <4>1. Ago(id, x) = Ago(ping_id, x) + 1 /\ Ago(id, last_num) = Ago(ping_id, last_num) + 1
            /\ Ago(ping_id, x) \in Int /\ Ago(ping_id, last_num) \in Int
        BY <1>3, <1>4, <3>1, <3>2 DEF Numbers
      <4> QED
        BY <2>1, <4>1
    <3>4. s_to_c_dropped <= At(x)
      BY <3>3 DEF PingWindow
    <3> QED
      BY <1>6, <2>3, <3>4
  <2> QED
    BY <2>2, <2>3
<1>14. \A x, y \in Numbers :
         Ago(ping_id', x) <= Ago(ping_id', y) /\ Ago(ping_id', y) < HASHSIZE => At(y)' <= At(x)'
  <2>1. SUFFICES ASSUME NEW x \in Numbers, NEW y \in Numbers, Ago(id, x) <= Ago(id, y), Ago(id, y) < HASHSIZE
                 PROVE  At(y)' <= At(x)'
    BY <1>1
  <2>2. CASE x = id
    BY <1>6, <1>12, <2>2
  <2>3. CASE x # id
    <3>1. Ago(id, x) \in 1..HASHSIZE - 1 /\ Ago(id, y) \in 1..HASHSIZE - 1
      <4>1. Ago(id, x) \in Nat /\ Ago(id, x) # 0 /\ Ago(id, y) \in Nat /\ HASHSIZE \in Nat
        BY <1>4, <1>a, <1>b, <2>3
      <4> QED
        BY <2>1, <4>1
    <3>2. At(x)' = At(x) /\ At(y)' = At(y)
      BY <1>6, <1>8, <3>1
    <3>3. y # id
      BY <1>3, <3>1
    <3>4. Ago(ping_id, x) <= Ago(ping_id, y) /\ Ago(ping_id, y) < HASHSIZE
      <4>1. Ago(id, x) = Ago(ping_id, x) + 1 /\ Ago(id, y) = Ago(ping_id, y) + 1
            /\ Ago(ping_id, x) \in Int /\ Ago(ping_id, y) \in Int /\ HASHSIZE \in Int
        BY <1>3, <1>4, <2>3, <3>3 DEF Numbers
      <4> QED
        BY <2>1, <4>1
    <3> QED
      BY <3>2, <3>4 DEF PingWindow
  <2> QED
    BY <2>2, <2>3
<1>15. \A x \in Numbers : At(x)' <= packets_sent'
  BY <1>1, <1>12
<1> QED
  BY <1>9, <1>13, <1>14, <1>15 DEF PingWindow

(* It holds as the server reads an answer.                                 *)
LEMMA ServedInWindow ==
  ASSUME PingAssumption, PingTyped, PingWindow, G!ServerReads
  PROVE  PingWindow'
<1>1. PICK i \in DOMAIN up :
        /\ up' = G!Without(up, i)
        /\ \/ Ignores(up[i])
           \/ up[i].answer # -1 /\ ~Late(up[i]) /\ last_num' = up[i].answer /\ Reckons(up[i])
  BY PingServedIs
<1>2. PingTyped' /\ UNCHANGED <<ping_id, ping_sent, cp_recv, cp_sent, down, truth>>
  BY PingServedIs
<1> DEFINE p == up[i]
           n == p.answer
<1>3. p \in Ups
  BY Taken DEF PingTyped
<1>4. n \in Numbers \cup {-1} /\ p.cp_recv \in Nat /\ p.cp_sent \in Nat
  BY <1>3 DEF Ups
<1>5. Flying' \subseteq Flying /\ (n \in Numbers => n \in Flying)
  BY <1>1, <1>2, ServedFlies
<1>6. /\ \/ Ignores(p)
         \/ n # -1 /\ ~Late(p) /\ last_num' = n /\ Reckons(p)
  BY <1>1
<1> HIDE DEF p
<1>7. /\ packets_sent \in Nat /\ s_to_c_dropped \in Nat /\ packets_sent' \in Nat /\ s_to_c_dropped' \in Nat
      /\ ping_id \in Numbers /\ last_num \in Numbers /\ HASHSIZE \in Nat
  BY <1>2 DEF PingTyped, PingAssumption
<1>8. \A x \in Numbers : At(x)' = At(x) /\ At(x) \in Nat
  BY <1>2, AtIs DEF At
<1>9. CASE last_num' = last_num /\ s_to_c_dropped' = s_to_c_dropped /\ packets_sent' = packets_sent
  <2>1. packets_sent' >= packets_sent
    BY <1>7, <1>9
  <2> QED
    BY <1>2, <1>5, <1>9, <2>1, WindowKept
<1>10. CASE /\ n # -1 /\ ~Late(p) /\ last_num' = n
            /\ s_to_c_dropped' = s_to_c_dropped \/ s_to_c_dropped' = At(n) - p.cp_recv
            /\ packets_sent' >= packets_sent
  <2>1. n \in Numbers /\ n \in Flying
    BY <1>4, <1>5, <1>10
  <2>2. Ago(ping_id, n) < HASHSIZE
    BY <2>1 DEF PingWindow
  <2>3. Ago(ping_id, n) <= Ago(ping_id, last_num)
    BY <1>7, <1>10, <2>1, <2>2, Compared DEF Late
  <2>4. \A x \in Numbers : Ago(ping_id, x) \in Nat
    BY <1>7, AgoNat
  <2>5. ASSUME NEW x \in Numbers, Ago(ping_id, x) <= Ago(ping_id, n) PROVE s_to_c_dropped' <= At(x)
    <3>1. CASE s_to_c_dropped' = s_to_c_dropped
      <4>1. Ago(ping_id, x) <= Ago(ping_id, last_num)
        BY <1>7, <2>1, <2>3, <2>4, <2>5
      <4> QED
        BY <3>1, <4>1 DEF PingWindow
    <3>2. CASE s_to_c_dropped' = At(n) - p.cp_recv
      <4>1. At(n) <= At(x)
        BY <2>1, <2>2, <2>5 DEF PingWindow
      <4> QED
        BY <1>4, <1>8, <2>1, <3>2, <4>1
    <3> QED
      BY <1>10, <3>1, <3>2
  <2>6. \A x \in Numbers : Ago(ping_id', x) <= Ago(ping_id', last_num') => s_to_c_dropped' <= At(x)'
    BY <1>2, <1>8, <1>10, <2>5
  <2>7. \A x \in Numbers : At(x)' <= packets_sent'
    BY <1>7, <1>8, <1>10 DEF PingWindow
  <2>8. \A m \in Flying' : Ago(ping_id', m) < HASHSIZE
    BY <1>2, <1>5 DEF PingWindow
  <2>9. \A x, y \in Numbers :
          Ago(ping_id', x) <= Ago(ping_id', y) /\ Ago(ping_id', y) < HASHSIZE => At(y)' <= At(x)'
    BY <1>2, <1>8 DEF PingWindow
  <2> QED
    BY <2>6, <2>7, <2>8, <2>9 DEF PingWindow
<1>11. CASE Ignores(p)
  <2>1. packets_sent' >= packets_sent
    BY <1>7, <1>11 DEF Ignores
  <2> QED
    BY <1>9, <1>10, <1>11, <2>1 DEF Ignores
<1>12. CASE n # -1 /\ ~Late(p) /\ last_num' = n /\ Reckons(p)
  <2> DEFINE sc == At(n) - p.cp_recv
  <2>1. sc \in Int
    BY <1>4, <1>8, <1>12
  <2>2. \/ sc >= s_to_c_dropped /\ s_to_c_dropped' = sc /\ packets_sent' = packets_sent
        \/ /\ sc < s_to_c_dropped /\ s_to_c_dropped' = s_to_c_dropped
           /\ packets_sent' = packets_sent + s_to_c_dropped - sc
    BY <1>12, Zenon DEF Reckons, Reckoned, At
  <2> HIDE DEF sc
  <2>3. packets_sent' >= packets_sent /\ (s_to_c_dropped' = s_to_c_dropped \/ s_to_c_dropped' = sc)
    BY <1>7, <2>1, <2>2
  <2> QED
    BY <1>10, <1>12, <2>3 DEF sc
<1> QED
  BY <1>6, <1>11, <1>12

(* It holds after each step.                                               *)
LEMMA WindowStep ==
  PingAssumption /\ PingTyped /\ PingWindow /\ [G!Next]_(G!vars) => PingTyped' /\ PingWindow'
<1> SUFFICES ASSUME PingAssumption, PingTyped, PingWindow, [G!Next]_(G!vars)
             PROVE  PingTyped' /\ PingWindow'
  OBVIOUS
<1>0. BYTE \in Nat /\ packets_sent \in Nat
  BY Rings DEF PingTyped
<1>1. CASE UNCHANGED G!vars
  BY <1>1 DEF G!vars, PingTyped, PingWindow, Flying, At
<1>2. CASE G!SendUpdate
  <2> DEFINE p == [ping |-> -1, lost |-> truth.down]
  <2>1. PingTyped' /\ p \in Downs /\ packets_sent' = packets_sent + 1 /\ G!Sends(p)
    BY <1>2, PingUpdateIs
  <2>2. up' = up /\ UNCHANGED <<ping_id, last_num, ping_sent, s_to_c_dropped>>
    BY <1>2 DEF G!SendUpdate, G!counters
  <2>3. p.ping = -1
    OBVIOUS
  <2> HIDE DEF p
  <2>4. Flying' = Flying
    BY <1>0, <2>1, <2>2, <2>3, UpdateFlies
  <2>5. packets_sent' >= packets_sent
    BY <1>0, <2>1
  <2> QED
    BY <2>1, <2>2, <2>4, <2>5, WindowKept
<1>3. CASE G!sendClientPing
  BY <1>3, PingSentIs, PingInWindow
<1>4. CASE G!ClientReads
  <2>1. /\ PingTyped' /\ UNCHANGED <<ping_id, last_num, ping_sent, s_to_c_dropped>>
        /\ packets_sent' = packets_sent
    BY <1>4, PingReadIs
  <2>2. Flying' \subseteq Flying
    BY <1>0, <1>4, AnswerFlies
  <2>3. packets_sent' >= packets_sent
    BY <1>0, <2>1
  <2> QED
    BY <2>1, <2>2, <2>3, WindowKept
<1>5. CASE G!ClientActs
  <2>1. /\ PingTyped' /\ UNCHANGED <<ping_id, last_num, ping_sent, s_to_c_dropped>>
        /\ packets_sent' = packets_sent
    BY <1>5, PingActsIs
  <2>2. Flying' = Flying
    BY <1>0, <1>5, ActFlies
  <2>3. packets_sent' >= packets_sent
    BY <1>0, <2>1
  <2> QED
    BY <2>1, <2>2, <2>3, WindowKept
<1>6. CASE G!ServerReads
  BY <1>6, PingServedIs, ServedInWindow
<1> QED
  BY <1>1, <1>2, <1>3, <1>4, <1>5, <1>6 DEF G!Next

(* In the window the loss is a percentage: no more was lost than was sent. *)
LEMMA WindowPercent == PingAssumption /\ PingTyped /\ PingWindow => G!Percentage
<1> SUFFICES ASSUME PingAssumption, PingTyped, PingWindow, ping_sent[G!PITH(last_num)] # 0
             PROVE  G!tloss_sc(G!PITH(last_num)) \in 0..100
  BY DEF G!Percentage
<1> DEFINE v == At(last_num)
           s == s_to_c_dropped
<1>1. last_num \in Numbers /\ ping_id \in Numbers /\ s \in Nat
  BY DEF PingTyped
<1>2. v \in Nat /\ v # 0
  BY <1>1, AtIs DEF At
<1>3. s <= v
  <2>1. Ago(ping_id, last_num) <= Ago(ping_id, last_num)
    BY <1>1, AgoNat
  <2> QED
    BY <1>1, <2>1 DEF PingWindow
<1>4. G!tloss_sc(G!PITH(last_num)) = 100 - (100 * (v - s)) \div v
  BY DEF G!tloss_sc, At
<1> HIDE DEF v, s
<1> QED
  BY <1>1, <1>2, <1>3, <1>4, PercentageIs

(* As long as nothing overtakes, what is sent is what arrives, what is     *)
(* lost and what is under way, and the places of the packets tell how much *)
(* had been sent or lost before them.                                      *)
Sent(s, x) == s[G!PITH(x)]
DownCounts ==
  /\ packets_sent = cp_recv + Len(down) + truth.down
  /\ \A i \in 1..Len(down) : down[i].ping # -1 => Sent(ping_sent, down[i].ping) = cp_recv + i + down[i].lost
UpCounts ==
  /\ packets_received >= 0 /\ cp_sent = packets_received + Len(up) + truth.up
  /\ \A i \in 1..Len(up) :
       /\ up[i].cp_sent = packets_received + i + up[i].up
       /\ up[i].answer # -1 => up[i].cp_recv >= 1 /\ Sent(ping_sent, up[i].answer) = up[i].cp_recv + up[i].down
Judged == s_to_c_dropped = judged.down /\ c_to_s_dropped = judged.up

(* Losses grow from packet to packet.                                      *)
DownLosses ==
  /\ judged.down <= truth.down
  /\ \A i \in 1..Len(down) : judged.down <= down[i].lost /\ down[i].lost <= truth.down
  /\ \A i, j \in 1..Len(down) : i <= j => down[i].lost <= down[j].lost
UpLosses ==
  /\ judged.up <= truth.up
  /\ \A i \in 1..Len(up) : judged.up <= up[i].up /\ up[i].up <= truth.up
  /\ \A i, j \in 1..Len(up) : i <= j => up[i].up <= up[j].up
AnswerLosses ==
  /\ \A i \in 1..Len(up) : up[i].answer # -1 => judged.down <= up[i].down /\ up[i].down <= truth.down
  /\ \A i, j \in 1..Len(up) : i <= j /\ up[i].answer # -1 /\ up[j].answer # -1 => up[i].down <= up[j].down
  /\ \A i \in 1..Len(up), j \in 1..Len(down) : up[i].answer # -1 => up[i].down <= down[j].lost

(* Pings and answers come in the order of their numbers.                   *)
Older(id, x, y) == x # -1 /\ y # -1 => Ago(id, y) <= Ago(id, x)
InTurn ==
  /\ \A i, j \in 1..Len(down) : i <= j => Older(ping_id, down[i].ping, down[j].ping)
  /\ \A i, j \in 1..Len(up) : i <= j => Older(ping_id, up[i].answer, up[j].answer)
  /\ \A i \in 1..Len(up), j \in 1..Len(down) : Older(ping_id, up[i].answer, down[j].ping)
  /\ \A n \in Flying : Ago(ping_id, n) <= Ago(ping_id, last_num)

(* The server has not been without an answer for so many pings that it     *)
(* takes the next one for a late one.                                      *)
Close ==
  /\ Ago(ping_id, last_num) < BYTE - 1
  /\ \A n \in Flying : (\A m \in Flying : Ago(ping_id, m) <= Ago(ping_id, n)) =>
       Ago(ping_id, last_num) - Ago(ping_id, n) < BYTE \div 2

(* What the packets of the queues hold, and which pings are under way.     *)
LEMMA PacketsAre ==
  ASSUME PingTyped
  PROVE  /\ Len(down) \in Nat /\ Len(up) \in Nat
         /\ \A i \in 1..Len(down) :
              /\ i \in DOMAIN down /\ down[i] \in Downs /\ down[i].lost \in Nat
              /\ down[i].ping \in Numbers \cup {-1}
              /\ down[i].ping # -1 => down[i].ping \in Flying
         /\ \A i \in 1..Len(up) :
              /\ i \in DOMAIN up /\ up[i] \in Ups /\ up[i].cp_recv \in Nat /\ up[i].cp_sent \in Nat
              /\ up[i].down \in Nat /\ up[i].up \in Nat
              /\ up[i].answer \in Numbers \cup {-1}
              /\ up[i].answer # -1 => up[i].answer \in Flying
         /\ truth.down \in Nat /\ truth.up \in Nat /\ judged.down \in Nat /\ judged.up \in Nat
<1>1. down \in Seq(Downs) /\ up \in Seq(Ups) /\ truth \in Losses /\ judged \in Losses
  BY DEF PingTyped
<1>2. truth.down \in Nat /\ truth.up \in Nat /\ judged.down \in Nat /\ judged.up \in Nat
  BY <1>1 DEF Losses
<1>3. Len(down) \in Nat /\ Len(up) \in Nat /\ DOMAIN down = 1..Len(down) /\ DOMAIN up = 1..Len(up)
      /\ (\A i \in 1..Len(down) : down[i] \in Downs) /\ (\A i \in 1..Len(up) : up[i] \in Ups)
  BY <1>1
<1>4. ASSUME NEW i \in 1..Len(down)
      PROVE  /\ i \in DOMAIN down /\ down[i] \in Downs /\ down[i].lost \in Nat
             /\ down[i].ping \in Numbers \cup {-1}
             /\ down[i].ping # -1 => down[i].ping \in Flying
  <2>1. i \in DOMAIN down /\ down[i] \in Downs /\ down[i].lost \in Nat /\ down[i].ping \in Numbers \cup {-1}
    BY <1>3, <1>4 DEF Downs
  <2> QED
    BY <2>1 DEF Flying, Flights, Packets
<1>5. ASSUME NEW i \in 1..Len(up)
      PROVE  /\ i \in DOMAIN up /\ up[i] \in Ups /\ up[i].cp_recv \in Nat /\ up[i].cp_sent \in Nat
             /\ up[i].down \in Nat /\ up[i].up \in Nat
             /\ up[i].answer \in Numbers \cup {-1}
             /\ up[i].answer # -1 => up[i].answer \in Flying
  <2>1. /\ i \in DOMAIN up /\ up[i] \in Ups /\ up[i].cp_recv \in Nat /\ up[i].cp_sent \in Nat
        /\ up[i].down \in Nat /\ up[i].up \in Nat /\ up[i].answer \in Numbers \cup {-1}
    BY <1>3, <1>5 DEF Ups
  <2> QED
    BY <2>1 DEF Flying, Flights, Packets
<1> QED
  BY <1>2, <1>3, <1>4, <1>5

(* The queue without its first packet.                                     *)
LEMMA TakenFirst ==
  ASSUME NEW Kind, NEW q \in Seq(Kind), 1 \in DOMAIN q
  PROVE  /\ Len(G!Without(q, 1)) = Len(q) - 1 /\ Len(q) \in Nat \ {0}
         /\ \A j \in 1..Len(q) - 1 : G!Without(q, 1)[j] = q[j + 1] /\ j + 1 \in 1..Len(q)
<1>1. /\ Len(G!Without(q, 1)) = Len(q) - 1 /\ Len(q) \in Nat \ {0}
      /\ \A j \in 1..Len(q) - 1 : G!Without(q, 1)[j] = IF j < 1 THEN q[j] ELSE q[j + 1]
  BY Taken
<1> QED
  BY <1>1

(* The packets to the client stay counted as one is sent.                  *)
LEMMA DownSentRight ==
  ASSUME PingTyped, DownCounts, DownLosses, NEW p \in Downs, p.lost = truth.down, G!Sends(p),
         packets_sent' = packets_sent + 1, cp_recv' = cp_recv, judged' = judged,
         \A n \in Flying : Sent(ping_sent', n) = Sent(ping_sent, n),
         p.ping # -1 => Sent(ping_sent', p.ping) = packets_sent + 1
  PROVE  DownCounts' /\ DownLosses'
<1> USE DEF DownCounts, DownLosses
<1>1. /\ packets_sent \in Nat /\ cp_recv \in Nat /\ Len(down) \in Nat /\ truth.down \in Nat /\ judged.down \in Nat
      /\ \A i \in 1..Len(down) : down[i].lost \in Nat /\ (down[i].ping # -1 => down[i].ping \in Flying)
  BY PacketsAre DEF PingTyped
<1>2. \A i \in 1..Len(down) : down[i].ping # -1 => Sent(ping_sent', down[i].ping) = cp_recv + i + down[i].lost
  BY <1>1
<1>3. CASE down' = Append(down, p) /\ truth' = truth
  <2>1. /\ Len(down') = Len(down) + 1 /\ down'[Len(down) + 1] = p
        /\ \A i \in 1..Len(down) : down'[i] = down[i]
    BY <1>3, Appended DEF PingTyped
  <2>2. ASSUME NEW i \in 1..Len(down') PROVE i \in 1..Len(down) \/ (i = Len(down) + 1 /\ down'[i] = p)
    BY <1>1, <2>1, <2>2
  <2>3. packets_sent' = cp_recv' + Len(down') + truth'.down
    BY <1>1, <1>3, <2>1
  <2>4. ASSUME NEW i \in 1..Len(down'), down'[i].ping # -1
        PROVE  Sent(ping_sent', down'[i].ping) = cp_recv' + i + down'[i].lost
    <3>1. CASE i \in 1..Len(down)
      BY <1>2, <2>1, <2>4, <3>1
    <3>2. CASE i = Len(down) + 1 /\ down'[i] = p
      <4>1. Sent(ping_sent', down'[i].ping) = packets_sent + 1 /\ down'[i].lost = truth.down
        BY <2>4, <3>2
      <4>2. packets_sent = cp_recv + Len(down) + truth.down
        OBVIOUS
      <4> HIDE DEF DownLosses, DownCounts
      <4> QED
        BY <1>1, <3>2, <4>1, <4>2
    <3> QED
      BY <2>2, <3>1, <3>2
  <2>5. \A i \in 1..Len(down') : judged'.down <= down'[i].lost /\ down'[i].lost <= truth'.down
    BY <1>1, <1>3, <2>1, <2>2
  <2>6. ASSUME NEW i \in 1..Len(down'), NEW j \in 1..Len(down'), i <= j PROVE down'[i].lost <= down'[j].lost
    <3>1. CASE j \in 1..Len(down)
      <4>1. i \in 1..Len(down)
        BY <1>1, <2>1, <2>6, <3>1
      <4> QED
        BY <2>1, <2>6, <3>1, <4>1
    <3>2. CASE j = Len(down) + 1 /\ down'[j] = p
      BY <1>3, <2>5, <3>2
    <3> QED
      BY <2>2, <3>1, <3>2
  <2> QED
    BY <1>3, <2>3, <2>4, <2>5, <2>6
<1>4. CASE down' = down /\ truth'.down = truth.down + 1
  <2>1. packets_sent' = cp_recv' + Len(down') + truth'.down
    BY <1>1, <1>4
  <2>2. DownCounts'
    BY <1>2, <1>4, <2>1
  <2>3. DownLosses'
    BY <1>1, <1>4
  <2> QED
    BY <2>2, <2>3
<1> QED
  BY <1>3, <1>4, DownSent

(* And as one is read: the ping tells how many were sent, read and lost.   *)
LEMMA DownReadRight ==
  ASSUME PingTyped, DownCounts, DownLosses, 1 \in DOMAIN down, down' = G!Without(down, 1),
         cp_recv' = cp_recv + 1, packets_sent' = packets_sent, judged' = judged, ping_sent' = ping_sent,
         truth'.down = truth.down
  PROVE  DownCounts' /\ DownLosses' /\ (down[1].ping # -1 => Sent(ping_sent, down[1].ping) = cp_recv' + down[1].lost)
<1> USE DEF DownCounts, DownLosses
<1>1. /\ packets_sent \in Nat /\ cp_recv \in Nat /\ Len(down) \in Nat /\ truth.down \in Nat /\ judged.down \in Nat
      /\ \A i \in 1..Len(down) : down[i].lost \in Nat
  BY PacketsAre DEF PingTyped
<1>2. /\ Len(down') = Len(down) - 1 /\ 1 \in 1..Len(down)
      /\ \A j \in 1..Len(down') : down'[j] = down[j + 1] /\ j + 1 \in 1..Len(down) /\ j \in Nat
  BY TakenFirst, <1>1 DEF PingTyped
<1>4. packets_sent' = cp_recv' + Len(down') + truth'.down
  <2>1. packets_sent = cp_recv + Len(down) + truth.down /\ Len(down') = Len(down) - 1
    BY <1>2
  <2> HIDE DEF DownCounts, DownLosses
  <2> QED
    BY <1>1, <2>1
<1>5. ASSUME NEW i \in 1..Len(down'), down'[i].ping # -1
      PROVE  Sent(ping_sent', down'[i].ping) = cp_recv' + i + down'[i].lost
  <2>1. Sent(ping_sent, down[i + 1].ping) = cp_recv + (i + 1) + down[i + 1].lost /\ down[i + 1].lost \in Nat /\ i \in Nat
    BY <1>1, <1>2, <1>5
  <2>2. down'[i] = down[i + 1] /\ Sent(ping_sent', down'[i].ping) = Sent(ping_sent, down[i + 1].ping)
    BY <1>2
  <2> HIDE DEF DownCounts, DownLosses
  <2> QED
    BY <1>1, <2>1, <2>2
<1>6. \A i \in 1..Len(down') : judged'.down <= down'[i].lost /\ down'[i].lost <= truth'.down
  BY <1>2
<1>7. ASSUME NEW i \in 1..Len(down'), NEW j \in 1..Len(down'), i <= j PROVE down'[i].lost <= down'[j].lost
  <2>1. i + 1 <= j + 1 /\ i + 1 \in 1..Len(down) /\ j + 1 \in 1..Len(down)
    BY <1>2, <1>7
  <2> QED
    BY <1>2, <2>1
<1>8. down[1].ping # -1 => Sent(ping_sent, down[1].ping) = cp_recv' + down[1].lost
  BY <1>2
<1> QED
  BY <1>4, <1>5, <1>6, <1>7, <1>8

(* The packets to the server stay counted as one is sent.                  *)
LEMMA UpSentRight ==
  ASSUME PingTyped, UpCounts, UpLosses, NEW a \in Numbers \cup {-1}, NEW n \in Nat, cp_recv' \in Nat,
         G!ClientSends(a, n),
         packets_received' = packets_received, judged' = judged, ping_sent' = ping_sent,
         a # -1 => cp_recv' >= 1 /\ Sent(ping_sent, a) = cp_recv' + n
  PROVE  UpCounts' /\ UpLosses'
<1> USE DEF UpCounts, UpLosses
<1> DEFINE p == [answer |-> a, cp_recv |-> cp_recv', cp_sent |-> cp_sent + 1, down |-> n, up |-> truth.up]
<1>1. /\ packets_received \in Int /\ cp_sent \in Nat /\ Len(up) \in Nat /\ truth.up \in Nat /\ judged.up \in Nat
      /\ \A i \in 1..Len(up) : up[i].up \in Nat
  BY PacketsAre DEF PingTyped
<1>2. /\ p \in Ups /\ cp_sent' = cp_sent + 1
      /\ \/ up' = Append(up, p) /\ truth' = truth
         \/ up' = up /\ truth'.up = truth.up + 1
  BY UpSent
<1>p. p.answer = a /\ p.cp_recv = cp_recv' /\ p.cp_sent = cp_sent + 1 /\ p.down = n /\ p.up = truth.up
  OBVIOUS
<1> HIDE DEF p
<1>3. CASE up' = Append(up, p) /\ truth' = truth
  <2>1. /\ Len(up') = Len(up) + 1 /\ up'[Len(up) + 1] = p
        /\ \A i \in 1..Len(up) : up'[i] = up[i]
    BY <1>2, <1>3, Appended DEF PingTyped
  <2>2. ASSUME NEW i \in 1..Len(up') PROVE i \in 1..Len(up) \/ (i = Len(up) + 1 /\ up'[i] = p)
    BY <1>1, <2>1, <2>2
  <2>3. packets_received' >= 0 /\ cp_sent' = packets_received' + Len(up') + truth'.up
    <3>1. packets_received >= 0 /\ cp_sent = packets_received + Len(up) + truth.up
      OBVIOUS
    <3> HIDE DEF UpCounts, UpLosses
    <3> QED
      BY <1>1, <1>2, <1>3, <2>1, <3>1
  <2>4. ASSUME NEW i \in 1..Len(up')
        PROVE  /\ up'[i].cp_sent = packets_received' + i + up'[i].up
               /\ up'[i].answer # -1 => /\ up'[i].cp_recv >= 1
                                        /\ Sent(ping_sent', up'[i].answer) = up'[i].cp_recv + up'[i].down
    <3>1. CASE i \in 1..Len(up)
      BY <2>1, <3>1
    <3>2. CASE i = Len(up) + 1 /\ up'[i] = p
      <4>1. cp_sent + 1 = packets_received + (Len(up) + 1) + truth.up
        <5>1. cp_sent = packets_received + Len(up) + truth.up
          OBVIOUS
        <5> HIDE DEF UpCounts, UpLosses
        <5> QED
          BY <1>1, <5>1
      <4> HIDE DEF UpCounts, UpLosses
      <4> QED
        BY <1>p, <3>2, <4>1
    <3> QED
      BY <2>2, <3>1, <3>2
  <2>5. \A i \in 1..Len(up') : judged'.up <= up'[i].up /\ up'[i].up <= truth'.up
    BY <1>1, <1>3, <1>p, <2>1, <2>2
  <2>6. ASSUME NEW i \in 1..Len(up'), NEW j \in 1..Len(up'), i <= j PROVE up'[i].up <= up'[j].up
    <3>1. CASE j \in 1..Len(up)
      <4>1. i \in 1..Len(up)
        BY <1>1, <2>1, <2>6, <3>1
      <4> QED
        BY <2>1, <2>6, <3>1, <4>1
    <3>2. CASE j = Len(up) + 1 /\ up'[j] = p
      BY <1>3, <1>p, <2>5, <3>2
    <3> QED
      BY <2>2, <3>1, <3>2
  <2> QED
    BY <1>3, <2>3, <2>4, <2>5, <2>6
<1>4. CASE up' = up /\ truth'.up = truth.up + 1
  <2>1. packets_received' >= 0 /\ cp_sent' = packets_received' + Len(up') + truth'.up
    <3>1. packets_received >= 0 /\ cp_sent = packets_received + Len(up) + truth.up
      OBVIOUS
    <3> HIDE DEF UpCounts, UpLosses
    <3> QED
      BY <1>1, <1>2, <1>4, <3>1
  <2>2. UpCounts'
    BY <1>4, <2>1
  <2>3. UpLosses'
    BY <1>1, <1>4
  <2> QED
    BY <2>2, <2>3
<1> QED
  BY <1>2, <1>3, <1>4

(* And as one is read.                                                     *)
LEMMA UpReadRight ==
  ASSUME PingTyped, UpCounts, UpLosses, 1 \in DOMAIN up, up' = G!Without(up, 1),
         cp_sent' = cp_sent, packets_received' = packets_received + 1, ping_sent' = ping_sent,
         truth' = truth, judged'.up \in {judged.up, up[1].up}
  PROVE  UpCounts' /\ UpLosses'
<1> USE DEF UpCounts, UpLosses
<1>1. /\ packets_received \in Int /\ cp_sent \in Nat /\ Len(up) \in Nat /\ truth.up \in Nat /\ judged.up \in Nat
      /\ \A i \in 1..Len(up) : up[i].up \in Nat
  BY PacketsAre DEF PingTyped
<1>2. /\ Len(up') = Len(up) - 1 /\ 1 \in 1..Len(up)
      /\ \A j \in 1..Len(up') : up'[j] = up[j + 1] /\ j + 1 \in 1..Len(up) /\ j \in Nat /\ 1 <= j + 1
  BY TakenFirst, <1>1 DEF PingTyped
<1>3. packets_received' >= 0 /\ cp_sent' = packets_received' + Len(up') + truth'.up
  <2> DEFINE k == packets_received
             l == Len(up)
             t == truth.up
  <2>1. k >= 0 /\ cp_sent = k + l + t /\ Len(up') = l - 1
    BY <1>2
  <2>2. truth'.up = t /\ k \in Int /\ l \in Nat /\ t \in Nat /\ packets_received' = k + 1 /\ cp_sent' = cp_sent
    BY <1>1
  <2> HIDE DEF UpCounts, UpLosses, k, l, t
  <2>3. k + 1 >= 0 /\ k + l + t = (k + 1) + (l - 1) + t
    BY <2>1, <2>2
  <2> QED
    BY <2>1, <2>2, <2>3
<1>4. ASSUME NEW i \in 1..Len(up')
      PROVE  /\ up'[i].cp_sent = packets_received' + i + up'[i].up
             /\ up'[i].answer # -1 => /\ up'[i].cp_recv >= 1
                                      /\ Sent(ping_sent', up'[i].answer) = up'[i].cp_recv + up'[i].down
  <2>1. up[i + 1].cp_sent = packets_received + (i + 1) + up[i + 1].up /\ up[i + 1].up \in Nat /\ i \in Nat
    BY <1>1, <1>2
  <2>2. up'[i] = up[i + 1]
    BY <1>2
  <2>3. up[i + 1].cp_sent = packets_received' + i + up[i + 1].up
    <3> HIDE DEF UpCounts, UpLosses
    <3> QED
      BY <1>1, <2>1
  <2> QED
    BY <1>2, <2>2, <2>3
<1>5. judged'.up <= truth'.up /\ \A i \in 1..Len(up') : judged'.up <= up'[i].up /\ up'[i].up <= truth'.up
  BY <1>2
<1>6. ASSUME NEW i \in 1..Len(up'), NEW j \in 1..Len(up'), i <= j PROVE up'[i].up <= up'[j].up
  <2>1. i + 1 <= j + 1 /\ i + 1 \in 1..Len(up) /\ j + 1 \in 1..Len(up)
    BY <1>2, <1>6
  <2> QED
    BY <1>2, <2>1
<1> QED
  BY <1>3, <1>4, <1>5, <1>6

(* What a longer or shorter queue of pings has.                            *)
LEMMA DownGrows ==
  ASSUME PingTyped, NEW p \in Downs, G!Sends(p)
  PROVE  /\ Len(down) \in Nat
         /\ \A i \in 1..Len(down') :
              \/ i \in 1..Len(down) /\ down'[i] = down[i]
              \/ i = Len(down) + 1 /\ down'[i] = p
<1>1. Len(down) \in Nat
  BY PacketsAre
<1>2. CASE down' = Append(down, p)
  <2>1. /\ Len(down') = Len(down) + 1 /\ down'[Len(down) + 1] = p
        /\ \A i \in 1..Len(down) : down'[i] = down[i]
    BY <1>2, Appended DEF PingTyped
  <2> QED
    BY <1>1, <2>1
<1>3. CASE down' = down
  BY <1>1, <1>3
<1> QED
  BY <1>1, <1>2, <1>3, DownSent

(* A packet is queued behind the others.                                   *)
LEMMA UpGrows ==
  ASSUME PingTyped, cp_recv' \in Nat, NEW a \in Numbers \cup {-1}, NEW n \in Nat, G!ClientSends(a, n)
  PROVE  /\ Len(up) \in Nat
         /\ \A i \in 1..Len(up') :
              \/ i \in 1..Len(up) /\ up'[i] = up[i]
              \/ i = Len(up) + 1 /\ up'[i].answer = a /\ up'[i].down = n
<1> DEFINE p == [answer |-> a, cp_recv |-> cp_recv', cp_sent |-> cp_sent + 1, down |-> n, up |-> truth.up]
<1>1. Len(up) \in Nat
  BY PacketsAre
<1>2. p \in Ups /\ (up' = Append(up, p) \/ up' = up) /\ p.answer = a /\ p.down = n
  BY UpSent
<1> HIDE DEF p
<1>3. CASE up' = Append(up, p)
  <2>1. /\ Len(up') = Len(up) + 1 /\ up'[Len(up) + 1] = p
        /\ \A i \in 1..Len(up) : up'[i] = up[i]
    BY <1>2, <1>3, Appended DEF PingTyped
  <2> QED
    BY <1>1, <1>2, <2>1
<1>4. CASE up' = up
  BY <1>1, <1>4
<1> QED
  BY <1>1, <1>2, <1>3, <1>4

(* Without the first packet each is one place further.                     *)
LEMMA QueueShrinks ==
  ASSUME NEW Kind, NEW q \in Seq(Kind), 1 \in DOMAIN q, NEW r, r = G!Without(q, 1)
  PROVE  /\ 1 \in 1..Len(q)
         /\ \A j \in 1..Len(r) : r[j] = q[j + 1] /\ j + 1 \in 1..Len(q) /\ 1 <= j + 1 /\ j \in Nat
<1>1. /\ Len(r) = Len(q) - 1 /\ Len(q) \in Nat \ {0}
      /\ \A j \in 1..Len(q) - 1 : r[j] = q[j + 1] /\ j + 1 \in 1..Len(q)
  BY TakenFirst
<1> QED
  BY <1>1

(* The losses at the answers, as the server sends.                         *)
LEMMA SendAnswerLosses ==
  ASSUME PingTyped, AnswerLosses, NEW p \in Downs, p.lost = truth.down, G!Sends(p), up' = up, judged' = judged
  PROVE  AnswerLosses'
<1>1. /\ truth.down \in Nat /\ (truth'.down = truth.down \/ truth'.down = truth.down + 1)
      /\ \A i \in 1..Len(up) : up[i].down \in Nat
  BY PacketsAre, DownSent
<1>2. \A j \in 1..Len(down') : (j \in 1..Len(down) /\ down'[j] = down[j]) \/ down'[j] = p
  BY DownGrows
<1>3. \A i \in 1..Len(up) : up[i].answer # -1 => judged.down <= up[i].down /\ up[i].down <= truth.down
  BY DEF AnswerLosses
<1>4. \A i \in 1..Len(up') : up'[i].answer # -1 => judged'.down <= up'[i].down /\ up'[i].down <= truth'.down
  BY <1>1, <1>3
<1>5. \A i \in 1..Len(up'), j \in 1..Len(down') : up'[i].answer # -1 => up'[i].down <= down'[j].lost
  BY <1>2, <1>3 DEF AnswerLosses
<1> QED
  BY <1>4, <1>5 DEF AnswerLosses

(* As the client reads and answers.                                        *)
LEMMA ReadAnswerLosses ==
  ASSUME PingTyped, AnswerLosses, DownLosses, 1 \in DOMAIN down, down' = G!Without(down, 1),
         judged' = judged, truth'.down = truth.down,
         \A i \in 1..Len(up') :
           \/ i \in 1..Len(up) /\ up'[i] = up[i]
           \/ i = Len(up) + 1 /\ up'[i].down = down[1].lost,
         Len(up) \in Nat
  PROVE  AnswerLosses'
<1>1. /\ 1 \in 1..Len(down)
      /\ \A j \in 1..Len(down') : down'[j] = down[j + 1] /\ j + 1 \in 1..Len(down) /\ 1 <= j + 1
  BY QueueShrinks DEF PingTyped
<1>2. ASSUME NEW i \in 1..Len(up'), up'[i].answer # -1
      PROVE  judged'.down <= up'[i].down /\ up'[i].down <= truth'.down
  BY <1>1, <1>2 DEF AnswerLosses, DownLosses
<1>3. ASSUME NEW i \in 1..Len(up'), NEW j \in 1..Len(up'), i <= j, up'[i].answer # -1, up'[j].answer # -1
      PROVE  up'[i].down <= up'[j].down
  <2>1. CASE j \in 1..Len(up) /\ up'[j] = up[j]
    <3>1. i \in 1..Len(up) /\ up'[i] = up[i]
      BY <1>3, <2>1
    <3> QED
      BY <1>3, <2>1, <3>1 DEF AnswerLosses
  <2>2. CASE up'[j].down = down[1].lost
    <3>1. up'[i].down <= down[1].lost
      <4>1. CASE i \in 1..Len(up) /\ up'[i] = up[i]
        BY <1>1, <1>3, <4>1 DEF AnswerLosses
      <4>2. CASE up'[i].down = down[1].lost
        BY <1>1, <4>2, PacketsAre
      <4> QED
        BY <4>1, <4>2
    <3> QED
      BY <2>2, <3>1
  <2> QED
    BY <2>1, <2>2
<1>4. ASSUME NEW i \in 1..Len(up'), NEW j \in 1..Len(down'), up'[i].answer # -1
      PROVE  up'[i].down <= down'[j].lost
  BY <1>1, <1>4 DEF AnswerLosses, DownLosses
<1> QED
  BY <1>2, <1>3, <1>4 DEF AnswerLosses

(* As the client sends what is no answer.                                  *)
LEMMA ActAnswerLosses ==
  ASSUME PingTyped, AnswerLosses, down' = down, judged' = judged, truth'.down = truth.down,
         \A i \in 1..Len(up') : (i \in 1..Len(up) /\ up'[i] = up[i]) \/ up'[i].answer = -1
  PROVE  AnswerLosses'
BY DEF AnswerLosses

(* As the server reads.                                                    *)
LEMMA ServeAnswerLosses ==
  ASSUME PingTyped, AnswerLosses, 1 \in DOMAIN up, up' = G!Without(up, 1), down' = down, truth' = truth,
         judged'.down = judged.down \/ (up[1].answer # -1 /\ judged'.down = up[1].down)
  PROVE  AnswerLosses'
<1>1. /\ 1 \in 1..Len(up)
      /\ \A j \in 1..Len(up') : up'[j] = up[j + 1] /\ j + 1 \in 1..Len(up) /\ 1 <= j + 1 /\ j \in Nat
  BY QueueShrinks DEF PingTyped
<1>2. \A i \in 1..Len(up') : up'[i].answer # -1 => judged'.down <= up'[i].down /\ up'[i].down <= truth'.down
  BY <1>1 DEF AnswerLosses
<1>3. ASSUME NEW i \in 1..Len(up'), NEW j \in 1..Len(up'), i <= j, up'[i].answer # -1, up'[j].answer # -1
      PROVE  up'[i].down <= up'[j].down
  <2>1. i + 1 <= j + 1
    BY <1>1, <1>3
  <2> QED
    BY <1>1, <1>3, <2>1 DEF AnswerLosses
<1>4. \A i \in 1..Len(up'), j \in 1..Len(down') : up'[i].answer # -1 => up'[i].down <= down'[j].lost
  BY <1>1 DEF AnswerLosses
<1> QED
  BY <1>2, <1>3, <1>4 DEF AnswerLosses

(* The order of the numbers, as the server sends a ping.                   *)
LEMMA PingInTurn ==
  ASSUME PingAssumption, PingTyped, PingWindow, InTurn, Ago(ping_id, last_num) < BYTE - 1, G!sendClientPing
  PROVE  InTurn'
<1> DEFINE id == (ping_id + 1) % BYTE
           p == [ping |-> id, lost |-> truth.down]
<1>1. /\ p \in Downs /\ G!Sends(p) /\ ping_id' = id /\ id \in Numbers
      /\ last_num' = last_num /\ up' = up
  BY PingSentIs DEF G!sendClientPing
<1>2. p.ping = id
  OBVIOUS
<1>3. /\ \A q \in Numbers : q # id => Ago(id, q) = Ago(ping_id, q) + 1
      /\ Ago(ping_id, id) = BYTE - 1
      /\ ping_id \in Numbers /\ last_num \in Numbers
  BY NextNumber DEF PingTyped
<1>4. HASHSIZE \in Nat /\ BYTE \in Nat /\ HASHSIZE <= BYTE - 1
  BY Rings DEF PingAssumption
<1> HIDE DEF id
<1>5. \A q \in Numbers : Ago(ping_id, q) \in Nat /\ Ago(id, q) \in Nat
  BY <1>1, <1>3, AgoNat
<1>6. Ago(id, id) = 0
  BY <1>1, AgoIs
<1>7. \A n \in Flying : n \in Numbers /\ n # id
  <2>1. \A n \in Flying : n \in Numbers
    BY DEF Flying, Flights
  <2>2. ASSUME id \in Flying PROVE FALSE
    <3>1. Ago(ping_id, id) < HASHSIZE
      BY <2>2 DEF PingWindow
    <3> QED
      BY <1>3, <1>4, <3>1
  <2> QED
    BY <2>1, <2>2
<1>8. \A n \in Flying \cup {last_num} : n \in Numbers /\ Ago(id, n) = Ago(ping_id, n) + 1 /\ Ago(ping_id, n) \in Nat
  <2>1. last_num # id
    BY <1>3, <1>4
  <2> QED
    BY <1>3, <1>5, <1>7, <2>1
<1>9. \A x, y \in Flying \cup {-1} : Older(ping_id, x, y) => Older(id, x, y)
  BY <1>8 DEF Older
<1>10. \A x \in Flying \cup {-1} : Older(id, x, id)
  BY <1>6, <1>8 DEF Older
<1>11. /\ \A i \in 1..Len(down) : down[i].ping \in Flying \cup {-1}
       /\ \A i \in 1..Len(up) : up[i].answer \in Flying \cup {-1}
  BY PacketsAre
<1>12. /\ Len(down) \in Nat
       /\ \A i \in 1..Len(down') :
            \/ i \in 1..Len(down) /\ down'[i] = down[i]
            \/ i = Len(down) + 1 /\ down'[i].ping = id
  <2> HIDE DEF p
  <2> QED
    BY <1>1, <1>2, DownGrows
<1>13. ASSUME NEW i \in 1..Len(down'), NEW j \in 1..Len(down'), i <= j
       PROVE  Older(id, down'[i].ping, down'[j].ping)
  <2>1. CASE j \in 1..Len(down) /\ down'[j] = down[j]
    <3>1. i \in 1..Len(down) /\ down'[i] = down[i]
      BY <1>12, <1>13, <2>1
    <3> QED
      BY <1>9, <1>11, <1>13, <2>1, <3>1 DEF InTurn
  <2>2. CASE down'[j].ping = id
    <3>1. CASE i \in 1..Len(down) /\ down'[i] = down[i]
      BY <1>10, <1>11, <2>2, <3>1
    <3>2. CASE down'[i].ping = id
      BY <1>6, <2>2, <3>2 DEF Older
    <3> QED
      BY <1>12, <3>1, <3>2
  <2> QED
    BY <1>12, <2>1, <2>2
<1>14. \A i, j \in 1..Len(up') : i <= j => Older(id, up'[i].answer, up'[j].answer)
  BY <1>1, <1>9, <1>11 DEF InTurn
<1>15. \A i \in 1..Len(up'), j \in 1..Len(down') : Older(id, up'[i].answer, down'[j].ping)
  BY <1>1, <1>9, <1>10, <1>11, <1>12 DEF InTurn
<1>16. \A n \in Flying' : Ago(id, n) <= Ago(id, last_num)
  <2>1. Flying' \subseteq Flying \cup {id}
    <3> HIDE DEF p
    <3> QED
      BY <1>1, <1>2, PingFlies
  <2>2. \A n \in Flying : Ago(id, n) <= Ago(id, last_num)
    BY <1>8 DEF InTurn
  <2>3. Ago(id, id) <= Ago(id, last_num)
    BY <1>3, <1>5, <1>6
  <2> QED
    BY <2>1, <2>2, <2>3
<1> QED
  BY <1>1, <1>13, <1>14, <1>15, <1>16 DEF InTurn

(* As it sends anything else.                                              *)
LEMMA UpdateInTurn ==
  ASSUME PingTyped, InTurn, NEW p \in Downs, p.ping = -1, G!Sends(p), up' = up, BYTE \in Nat,
         ping_id' = ping_id, last_num' = last_num
  PROVE  InTurn'
<1>1. /\ Len(down) \in Nat
      /\ \A i \in 1..Len(down') :
           \/ i \in 1..Len(down) /\ down'[i] = down[i]
           \/ i = Len(down) + 1 /\ down'[i].ping = -1
  BY DownGrows
<1>2. Flying' = Flying
  BY UpdateFlies
<1>3. \A i, j \in 1..Len(down') : i <= j => Older(ping_id, down'[i].ping, down'[j].ping)
  BY <1>1 DEF InTurn, Older
<1>4. \A i \in 1..Len(up'), j \in 1..Len(down') : Older(ping_id, up'[i].answer, down'[j].ping)
  BY <1>1 DEF InTurn, Older
<1> QED
  BY <1>2, <1>3, <1>4 DEF InTurn

(* As the client reads and answers.                                        *)
LEMMA ReadInTurn ==
  ASSUME PingTyped, InTurn, 1 \in DOMAIN down, down' = G!Without(down, 1),
         ping_id' = ping_id, last_num' = last_num, Flying' \subseteq Flying, ping_id \in Numbers, PingAssumption,
         \A i \in 1..Len(up') :
           \/ i \in 1..Len(up) /\ up'[i] = up[i]
           \/ i = Len(up) + 1 /\ up'[i].answer = down[1].ping,
         Len(up) \in Nat
  PROVE  InTurn'
<1>1. /\ 1 \in 1..Len(down)
      /\ \A j \in 1..Len(down') : down'[j] = down[j + 1] /\ j + 1 \in 1..Len(down) /\ 1 <= j + 1 /\ j \in Nat
  BY QueueShrinks DEF PingTyped
<1>2. \A i \in 1..Len(up) : Older(ping_id, up[i].answer, down[1].ping)
  BY <1>1 DEF InTurn
<1>3. \A j \in 1..Len(down) : Older(ping_id, down[1].ping, down[j].ping)
  <2>1. \A j \in 1..Len(down) : 1 <= j
    OBVIOUS
  <2> QED
    BY <1>1, <2>1 DEF InTurn
<1>4. ASSUME NEW i \in 1..Len(down'), NEW j \in 1..Len(down'), i <= j
      PROVE  Older(ping_id, down'[i].ping, down'[j].ping)
  <2>1. i + 1 <= j + 1
    BY <1>1, <1>4
  <2> QED
    BY <1>1, <1>4, <2>1 DEF InTurn
<1>5. ASSUME NEW i \in 1..Len(up'), NEW j \in 1..Len(up'), i <= j
      PROVE  Older(ping_id, up'[i].answer, up'[j].answer)
  <2>1. CASE j \in 1..Len(up) /\ up'[j] = up[j]
    <3>1. i \in 1..Len(up) /\ up'[i] = up[i]
      BY <1>5, <2>1
    <3> QED
      BY <1>5, <2>1, <3>1 DEF InTurn
  <2>2. CASE up'[j].answer = down[1].ping
    <3>1. CASE i \in 1..Len(up) /\ up'[i] = up[i]
      BY <1>2, <2>2, <3>1
    <3>2. CASE up'[i].answer = down[1].ping
      BY <1>1, <1>3, <2>2, <3>2
    <3> QED
      BY <3>1, <3>2
  <2> QED
    BY <2>1, <2>2
<1>6. ASSUME NEW i \in 1..Len(up'), NEW j \in 1..Len(down')
      PROVE  Older(ping_id, up'[i].answer, down'[j].ping)
  <2>1. CASE i \in 1..Len(up) /\ up'[i] = up[i]
    BY <1>1, <2>1 DEF InTurn
  <2>2. CASE up'[i].answer = down[1].ping
    BY <1>1, <1>3, <2>2
  <2> QED
    BY <2>1, <2>2
<1>7. \A n \in Flying' : Ago(ping_id, n) <= Ago(ping_id, last_num)
  BY DEF InTurn
<1> QED
  BY <1>4, <1>5, <1>6, <1>7 DEF InTurn

(* As the client sends what is no answer.                                  *)
LEMMA ActInTurn ==
  ASSUME PingTyped, InTurn, down' = down, ping_id' = ping_id, last_num' = last_num, Flying' = Flying,
         \A i \in 1..Len(up') : (i \in 1..Len(up) /\ up'[i] = up[i]) \/ up'[i].answer = -1
  PROVE  InTurn'
<1>1. \A i, j \in 1..Len(up') : i <= j => Older(ping_id, up'[i].answer, up'[j].answer)
  BY DEF InTurn, Older
<1>2. \A i \in 1..Len(up'), j \in 1..Len(down') : Older(ping_id, up'[i].answer, down'[j].ping)
  BY DEF InTurn, Older
<1> QED
  BY <1>1, <1>2 DEF InTurn

(* The answer the server reads is the oldest ping under way.               *)
LEMMA FirstIsOldest ==
  ASSUME PingTyped, InTurn, 1 \in DOMAIN up, up[1].answer # -1
  PROVE  \A n \in Flying : Ago(ping_id, n) <= Ago(ping_id, up[1].answer)
<1>1. 1 \in 1..Len(up) /\ \A i \in 1..Len(up) : 1 <= i
  BY DEF PingTyped
<1>2. /\ \A i \in 1..Len(up) : Older(ping_id, up[1].answer, up[i].answer)
      /\ \A j \in 1..Len(down) : Older(ping_id, up[1].answer, down[j].ping)
  BY <1>1 DEF InTurn
<1>3. \A n \in Flying : n # -1 /\ \/ \E i \in 1..Len(up) : up[i].answer = n
                                  \/ \E j \in 1..Len(down) : down[j].ping = n
  <2>1. DOMAIN up = 1..Len(up) /\ DOMAIN down = 1..Len(down)
    BY DEF PingTyped
  <2> QED
    BY <2>1 DEF Flying, Flights, Packets, Numbers
<1> QED
  BY <1>2, <1>3 DEF Older

(* As the server reads.                                                    *)
LEMMA ServeInTurn ==
  ASSUME PingTyped, InTurn, 1 \in DOMAIN up, up' = G!Without(up, 1), down' = down,
         ping_id' = ping_id, Flying' \subseteq Flying,
         last_num' = last_num \/ (up[1].answer # -1 /\ last_num' = up[1].answer)
  PROVE  InTurn'
<1>1. /\ 1 \in 1..Len(up)
      /\ \A j \in 1..Len(up') : up'[j] = up[j + 1] /\ j + 1 \in 1..Len(up) /\ 1 <= j + 1 /\ j \in Nat
  BY QueueShrinks DEF PingTyped
<1>2. ASSUME NEW i \in 1..Len(up'), NEW j \in 1..Len(up'), i <= j
      PROVE  Older(ping_id, up'[i].answer, up'[j].answer)
  <2>1. i + 1 <= j + 1
    BY <1>1, <1>2
  <2> QED
    BY <1>1, <1>2, <2>1 DEF InTurn
<1>3. \A i \in 1..Len(up'), j \in 1..Len(down') : Older(ping_id, up'[i].answer, down'[j].ping)
  BY <1>1 DEF InTurn
<1>4. \A n \in Flying' : Ago(ping_id, n) <= Ago(ping_id, last_num')
  BY FirstIsOldest DEF InTurn
<1> QED
  BY <1>2, <1>3, <1>4 DEF InTurn

InOrder == DownCounts /\ UpCounts /\ Judged /\ DownLosses /\ UpLosses /\ AnswerLosses /\ InTurn
PingOrder == ordered => InOrder

(* The order and the counts hold at first.                                 *)
LEMMA OrderInit == PingAssumption /\ G!Init => PingOrder
<1> SUFFICES ASSUME PingAssumption, G!Init PROVE InOrder
  BY DEF PingOrder
<1>1. Len(down) = 0 /\ Len(up) = 0 /\ Flying = {}
  BY DEF G!Init, Flying, Flights, Packets
<1>2. /\ packets_sent = 0 /\ packets_received = 0 /\ cp_recv = 0 /\ cp_sent = 0 /\ s_to_c_dropped = 0
      /\ c_to_s_dropped = 0 /\ truth.down = 0 /\ truth.up = 0 /\ judged.down = 0 /\ judged.up = 0
  BY DEF G!Init
<1> QED
  BY <1>1, <1>2 DEF InOrder, DownCounts, UpCounts, Judged, DownLosses, UpLosses, AnswerLosses, InTurn

(* They hold as the server sends what is no ping.                          *)
LEMMA OrderUpdate ==
  ASSUME PingAssumption, PingTyped, InOrder, G!SendUpdate
  PROVE  InOrder'
<1> USE DEF InOrder
<1> DEFINE p == [ping |-> -1, lost |-> truth.down]
<1>1. p \in Downs /\ packets_sent' = packets_sent + 1 /\ G!Sends(p)
  BY PingUpdateIs
<1>2. UNCHANGED <<ping_id, last_num, ping_sent, s_to_c_dropped, c_to_s_dropped, judged, packets_received,
                  cp_recv, cp_sent, up>>
  BY DEF G!SendUpdate, G!counters
<1>3. p.ping = -1 /\ p.lost = truth.down /\ BYTE \in Nat
  BY Rings
<1> HIDE DEF p
<1>4. truth'.up = truth.up
  BY <1>1, DownSent
<1>5. DownCounts' /\ DownLosses'
  BY <1>1, <1>2, <1>3, DownSentRight
<1>6. UpCounts' /\ UpLosses' /\ Judged'
  BY <1>2, <1>4 DEF UpCounts, UpLosses, Judged
<1>7. AnswerLosses'
  BY <1>1, <1>2, <1>3, SendAnswerLosses
<1>8. InTurn'
  BY <1>1, <1>2, <1>3, UpdateInTurn
<1> QED
  BY <1>5, <1>6, <1>7, <1>8

(* As it sends a ping.                                                     *)
LEMMA OrderPing ==
  ASSUME PingAssumption, PingTyped, PingWindow, InOrder, Close, G!sendClientPing
  PROVE  InOrder'
<1> USE DEF InOrder
<1> DEFINE id == (ping_id + 1) % BYTE
           p == [ping |-> id, lost |-> truth.down]
           m == packets_sent + 1
<1>1. /\ p \in Downs /\ G!Sends(p) /\ id \in Numbers
      /\ packets_sent' = m /\ ping_sent' = [ping_sent EXCEPT ![G!PITH(id)] = m]
      /\ G!PITH(id) \in 0..HASHSIZE - 1
      /\ \A i \in DOMAIN down : down[i].ping = -1 \/ G!PITH(down[i].ping) # G!PITH(id)
      /\ \A i \in DOMAIN up : up[i].answer = -1 \/ G!PITH(up[i].answer) # G!PITH(id)
  BY PingSentIs
<1>2. UNCHANGED <<last_num, s_to_c_dropped, c_to_s_dropped, judged, packets_received, cp_recv, cp_sent, up>>
  BY DEF G!sendClientPing
<1>3. p.ping = id /\ p.lost = truth.down
  OBVIOUS
<1> HIDE DEF p, id, m
<1>4. truth'.up = truth.up
  BY <1>1, DownSent
<1>5. ping_sent \in [0..HASHSIZE - 1 -> Nat]
  BY DEF PingTyped
<1>6. Sent(ping_sent', id) = packets_sent + 1
  BY <1>1, <1>5 DEF Sent, m
<1>7. \A n \in Flying : Sent(ping_sent', n) = Sent(ping_sent, n)
  <2>1. ASSUME NEW n \in Flying PROVE n \in Numbers /\ G!PITH(n) # G!PITH(id)
    BY <1>1 DEF Flying, Flights, Packets, Numbers
  <2>2. \A n \in Numbers : G!PITH(n) \in 0..HASHSIZE - 1
    BY <1>1, Places
  <2> QED
    BY <1>1, <1>5, <2>1, <2>2 DEF Sent
<1>8. DownCounts' /\ DownLosses'
  BY <1>1, <1>2, <1>3, <1>6, <1>7, DownSentRight DEF m
<1>9. \A i \in 1..Len(up) : up[i].answer # -1 => up[i].answer \in Flying
  BY PacketsAre
<1>10. UpCounts' /\ UpLosses' /\ Judged'
  <2>1. \A i \in 1..Len(up) : up[i].answer # -1 => Sent(ping_sent', up[i].answer) = Sent(ping_sent, up[i].answer)
    BY <1>7, <1>9
  <2> QED
    BY <1>2, <1>4, <2>1 DEF UpCounts, UpLosses, Judged
<1>11. AnswerLosses'
  BY <1>1, <1>2, <1>3, SendAnswerLosses
<1>12. InTurn'
  BY PingInTurn DEF Close
<1> QED
  BY <1>8, <1>10, <1>11, <1>12

(* As the client reads.                                                    *)
LEMMA OrderRead ==
  ASSUME PingAssumption, PingTyped, InOrder, G!ClientReads, ordered'
  PROVE  InOrder'
<1> USE DEF InOrder
<1>1. /\ UNCHANGED <<ping_id, last_num, ping_sent, s_to_c_dropped, c_to_s_dropped, judged,
                     packets_sent, packets_received>>
      /\ cp_recv' = cp_recv + 1 /\ PingTyped'
  BY PingReadIs
<1>2. /\ 1 \in DOMAIN down /\ down' = G!Without(down, 1)
      /\ \/ down[1].ping = -1 /\ UNCHANGED <<cp_sent, up, truth>>
         \/ down[1].ping # -1 /\ G!ClientSends(down[1].ping, down[1].lost)
  BY PingReadIs
<1> DEFINE a == down[1].ping
           n == down[1].lost
<1>3. a \in Numbers \cup {-1} /\ n \in Nat /\ cp_recv \in Nat /\ cp_recv' \in Nat /\ Len(up) \in Nat /\ BYTE \in Nat
  <2>1. 1 \in 1..Len(down)
    BY <1>2 DEF PingTyped
  <2> QED
    BY <1>1, <2>1, PacketsAre, Rings DEF PingTyped
<1>4. truth'.down = truth.down
  <2>1. CASE a = -1 /\ UNCHANGED <<cp_sent, up, truth>>
    BY <2>1
  <2>2. CASE a # -1 /\ G!ClientSends(a, n)
    BY <1>3, <2>2, UpSent
  <2> QED
    BY <1>2, <2>1, <2>2
<1>5. DownCounts' /\ DownLosses' /\ (a # -1 => Sent(ping_sent, a) = cp_recv' + n)
  BY <1>1, <1>2, <1>4, DownReadRight
<1>6. UpCounts' /\ UpLosses'
  <2>1. CASE a = -1 /\ UNCHANGED <<cp_sent, up, truth>>
    BY <1>1, <2>1 DEF UpCounts, UpLosses
  <2>2. CASE a # -1 /\ G!ClientSends(a, n)
    <3>1. cp_recv' >= 1
      BY <1>1, <1>3
    <3> HIDE DEF a, n
    <3> QED
      BY <1>1, <1>3, <1>5, <2>2, <3>1, UpSentRight
  <2> QED
    BY <1>2, <2>1, <2>2
<1>7. Judged'
  BY <1>1 DEF Judged
<1>8. \A i \in 1..Len(up') :
        \/ i \in 1..Len(up) /\ up'[i] = up[i]
        \/ i = Len(up) + 1 /\ up'[i].answer = a /\ up'[i].down = n
  <2>1. CASE a = -1 /\ UNCHANGED <<cp_sent, up, truth>>
    BY <2>1
  <2>2. CASE a # -1 /\ G!ClientSends(a, n)
    <3> HIDE DEF a, n
    <3> QED
      BY <1>3, <2>2, UpGrows
  <2> QED
    BY <1>2, <2>1, <2>2
<1>9. AnswerLosses'
  BY <1>1, <1>2, <1>3, <1>4, <1>8, ReadAnswerLosses
<1>10. Flying' \subseteq Flying
  BY <1>3, AnswerFlies
<1>11. InTurn'
  <2>1. ping_id \in Numbers
    BY DEF PingTyped
  <2> QED
    BY <1>1, <1>2, <1>3, <1>8, <1>10, <2>1, ReadInTurn
<1> QED
  BY <1>5, <1>6, <1>7, <1>9, <1>11

(* As the client sends what is no answer.                                  *)
LEMMA OrderAct ==
  ASSUME PingAssumption, PingTyped, InOrder, G!ClientActs
  PROVE  InOrder'
<1> USE DEF InOrder
<1>1. /\ UNCHANGED <<ping_id, last_num, ping_sent, s_to_c_dropped, c_to_s_dropped, judged,
                     packets_sent, packets_received, cp_recv, down, ordered>>
      /\ G!ClientSends(-1, 0) /\ -1 \in Numbers \cup {-1} /\ 0 \in Nat /\ cp_recv' \in Nat
  BY PingActsIs
<1>2. truth'.down = truth.down /\ Flying' = Flying
  <2>1. BYTE \in Nat
    BY Rings
  <2> QED
    BY <2>1, ActFlies
<1>3. DownCounts' /\ DownLosses' /\ Judged'
  BY <1>1, <1>2 DEF DownCounts, DownLosses, Judged
<1>4. UpCounts' /\ UpLosses'
  BY <1>1, UpSentRight
<1>5. \A i \in 1..Len(up') : (i \in 1..Len(up) /\ up'[i] = up[i]) \/ up'[i].answer = -1
  BY <1>1, UpGrows
<1>6. AnswerLosses' /\ InTurn'
  BY <1>1, <1>2, <1>5, ActAnswerLosses, ActInTurn
<1> QED
  BY <1>3, <1>4, <1>6

(* As the server reads: the losses it reckons are those that were counted. *)
LEMMA OrderServe ==
  ASSUME PingAssumption, PingTyped, InOrder, Close, G!ServerReads, ordered'
  PROVE  InOrder'
<1> USE DEF InOrder
<1>1. /\ 1 \in DOMAIN up /\ up' = G!Without(up, 1)
      /\ judged' = IF up[1].answer = -1 THEN judged ELSE [down |-> up[1].down, up |-> up[1].up]
      /\ \/ Ignores(up[1])
         \/ up[1].answer # -1 /\ ~Late(up[1]) /\ last_num' = up[1].answer /\ Reckons(up[1])
      /\ UNCHANGED <<ping_id, ping_sent, cp_recv, cp_sent, down, truth>>
  BY PingServedIs
<1> DEFINE p == up[1]
           n == p.answer
           v == Sent(ping_sent, n)
<1>2. /\ n \in Numbers \cup {-1} /\ p.down \in Nat /\ p.up \in Nat /\ p.cp_recv \in Nat /\ p.cp_sent \in Nat
      /\ n # -1 => n \in Flying /\ p.cp_recv >= 1 /\ v = p.cp_recv + p.down
      /\ n # -1 => judged.down <= p.down /\ p.down <= truth.down
      /\ judged.up <= p.up /\ p.cp_sent = packets_received + 1 + p.up
      /\ 1 \in 1..Len(up) /\ packets_received >= 0
  <2>1. 1 \in 1..Len(up)
    BY <1>1 DEF PingTyped
  <2> QED
    BY <2>1, PacketsAre DEF UpCounts, UpLosses, AnswerLosses
<1>3. /\ ping_id \in Numbers /\ last_num \in Numbers /\ packets_sent \in Nat /\ packets_received \in Int
      /\ judged.down \in Nat /\ judged.up \in Nat /\ s_to_c_dropped = judged.down /\ c_to_s_dropped = judged.up
  BY PacketsAre DEF PingTyped, Judged
<1>4. /\ n # -1 => judged' = [down |-> p.down, up |-> p.up]
      /\ n = -1 => judged' = judged
      /\ \/ Ignores(p)
         \/ n # -1 /\ ~Late(p) /\ last_num' = n /\ Reckons(p)
  BY <1>1
<1>5. ASSUME n # -1 PROVE ~Late(p)
  <2>1. n \in Numbers /\ n \in Flying
    BY <1>2, <1>5
  <2>2. \A m \in Flying : Ago(ping_id, m) <= Ago(ping_id, n)
    BY <1>1, <1>5, FirstIsOldest
  <2>3. Ago(ping_id, last_num) - Ago(ping_id, n) < BYTE \div 2 /\ Ago(ping_id, n) <= Ago(ping_id, last_num)
    BY <2>1, <2>2 DEF Close, InTurn
  <2>4. Ago(ping_id, last_num) - Ago(ping_id, n) \in 0..(BYTE \div 2) - 1
    BY <1>3, <2>1, <2>3, AgoNat, Rings
  <2> QED
    BY <1>3, <2>1, <2>4, Compared DEF Late
<1> HIDE DEF p, n
<1>6. /\ packets_sent' = packets_sent /\ packets_received' = packets_received + 1
      /\ s_to_c_dropped' = judged'.down /\ c_to_s_dropped' = judged'.up
      /\ \/ n = -1 /\ last_num' = last_num /\ judged' = judged
         \/ n # -1 /\ last_num' = n /\ judged'.down = p.down /\ judged'.up = p.up
  <2>1. CASE n = -1
    BY <1>3, <1>4, <2>1 DEF Ignores, n
  <2>2. CASE n # -1
    <3>1. v # 0
      BY <1>2, <2>2
    <3>2. packets_received + 1 # 0
      BY <1>2, <1>3
    <3>3. ~Ignores(p)
      BY <1>5, <2>2, <3>1, <3>2 DEF Ignores, Sent, n
    <3>4. Reckons(p) /\ last_num' = n
      BY <1>4, <3>3
    <3> DEFINE sc == v - p.cp_recv
               cs == p.cp_sent - (packets_received + 1)
    <3>5. Reckoned(sc, cs, packets_received + 1)
      BY <3>4, Zenon DEF Reckons, Sent, n
    <3>6. sc = p.down /\ cs = p.up
      BY <1>2, <1>3, <2>2
    <3>7. judged'.down = p.down /\ judged'.up = p.up
      BY <1>4, <2>2
    <3> HIDE DEF sc, cs
    <3>8. sc >= s_to_c_dropped /\ cs >= c_to_s_dropped
      BY <1>2, <1>3, <2>2, <3>6
    <3>9. ~(sc < s_to_c_dropped) /\ ~(cs < c_to_s_dropped)
      BY <1>2, <1>3, <3>6, <3>8
    <3>10. s_to_c_dropped' = sc /\ c_to_s_dropped' = cs /\ packets_sent' = packets_sent
           /\ packets_received' = packets_received + 1
      BY <3>5, <3>9 DEF Reckoned
    <3> QED
      BY <2>2, <3>4, <3>6, <3>7, <3>10
  <2> QED
    BY <2>1, <2>2
<1>7. Judged'
  BY <1>6 DEF Judged
<1>8. DownCounts'
  BY <1>1, <1>6 DEF DownCounts
<1>9. DownLosses'
  <2>1. CASE judged' = judged
    BY <1>1, <2>1 DEF DownLosses
  <2>2. CASE n # -1 /\ judged'.down = p.down
    BY <1>1, <1>2, <2>2 DEF DownLosses, AnswerLosses, p, n
  <2> QED
    BY <1>6, <2>1, <2>2
<1>10. UpCounts' /\ UpLosses'
  <2>1. judged'.up \in {judged.up, up[1].up}
    BY <1>6 DEF p
  <2> QED
    BY <1>1, <1>6, <2>1, UpReadRight
<1>11. AnswerLosses'
  <2>1. judged'.down = judged.down \/ (up[1].answer # -1 /\ judged'.down = up[1].down)
    BY <1>6 DEF p, n
  <2> QED
    BY <1>1, <2>1, ServeAnswerLosses
<1>12. InTurn'
  <2>1. last_num' = last_num \/ (up[1].answer # -1 /\ last_num' = up[1].answer)
    BY <1>6 DEF p, n
  <2>2. Flying' \subseteq Flying
    BY <1>1, ServedFlies
  <2> QED
    BY <1>1, <2>1, <2>2, ServeInTurn
<1> QED
  BY <1>7, <1>8, <1>9, <1>10, <1>11, <1>12

(* They hold after each step, as long as no answer is taken for a late     *)
(* one.                                                                    *)
LEMMA OrderStep ==
  PingAssumption /\ PingTyped /\ PingWindow /\ PingOrder /\ (ordered => Close) /\ [G!Next]_(G!vars)
    => PingOrder'
<1> SUFFICES ASSUME PingAssumption, PingTyped, PingWindow, PingOrder, ordered => Close,
                    [G!Next]_(G!vars), ordered'
             PROVE  InOrder'
  BY DEF PingOrder
<1>1. ordered
  <2>1. CASE UNCHANGED G!vars
    BY <2>1 DEF G!vars
  <2>2. CASE G!SendUpdate \/ G!sendClientPing
    BY <2>2 DEF G!SendUpdate, G!sendClientPing
  <2>3. CASE G!ClientReads
    BY <2>3, PingReadIs
  <2>4. CASE G!ClientActs
    BY <2>4, PingActsIs
  <2>5. CASE G!ServerReads
    BY <2>5, PingServedIs
  <2> QED
    BY <2>1, <2>2, <2>3, <2>4, <2>5 DEF G!Next
<1>2. InOrder /\ Close
  BY <1>1 DEF PingOrder
<1>3. CASE UNCHANGED G!vars
  <2>1. UNCHANGED <<ping_id, last_num, ping_sent, s_to_c_dropped, c_to_s_dropped, judged,
                    packets_sent, packets_received, cp_recv, cp_sent, down, up, truth>>
    BY <1>3 DEF G!vars
  <2> QED
    BY <1>2, <2>1 DEF InOrder, DownCounts, UpCounts, Judged, DownLosses, UpLosses, AnswerLosses, InTurn, Flying
<1> QED
  BY <1>2, <1>3, OrderUpdate, OrderPing, OrderRead, OrderAct, OrderServe DEF G!Next

(* With them the losses are true.                                          *)
LEMMA OrderTrue == PingOrder => G!LossTrue
BY DEF PingOrder, InOrder, Judged, G!LossTrue

(* The pings between two others.                                           *)
Lost == truth.down + truth.up
Between(id, A, r, q) == {s \in A : Ago(id, r) <= Ago(id, s) /\ Ago(id, s) < Ago(id, q)}

(* Of the pings between two that are under way, answered or sent last, all *)
(* are lost that are not under way themselves.                             *)
Gaps ==
  \A q \in Flying \cup {last_num} : \A r \in Flying \cup {last_num, ping_id} :
    Ago(ping_id, r) <= Ago(ping_id, q) =>
      Ago(ping_id, q) - Ago(ping_id, r) <= Lost + Cardinality(Between(ping_id, Flying, r, q))
Bounded == truth.down <= LostMax /\ truth.up <= LostMax
PingGaps == Bounded /\ (ordered => Gaps)

LossAssumption == 2 * LostMax + 1 < BYTE \div 2

(* Sets of numbers are finite.                                             *)
LEMMA FlyingFinite ==
  ASSUME PingAssumption, NEW A \in SUBSET Numbers
  PROVE  IsFiniteSet(A)
<1>1. IsFiniteSet(Numbers)
  BY Rings, FS_Interval DEF Numbers
<1> QED
  BY <1>1, FS_Subset

(* A part of a set of numbers has no more of them, and one less at least   *)
(* if it lacks one.                                                        *)
LEMMA Counted ==
  ASSUME PingAssumption, NEW Many \in SUBSET Numbers, NEW Few \in SUBSET Many
  PROVE  /\ Cardinality(Many) \in Nat /\ Cardinality(Few) \in Nat /\ Cardinality(Few) <= Cardinality(Many)
         /\ \A n : Many \ {n} \subseteq Few => Cardinality(Many) <= Cardinality(Few) + 1
         /\ \A n \in Many : n \notin Few => Cardinality(Few) + 1 <= Cardinality(Many)
<1>1. IsFiniteSet(Many) /\ IsFiniteSet(Few)
  BY FlyingFinite
<1>2. Cardinality(Many) \in Nat /\ Cardinality(Few) \in Nat /\ Cardinality(Few) <= Cardinality(Many)
  BY <1>1, FS_CardinalityType, FS_Subset
<1>3. ASSUME NEW n, Many \ {n} \subseteq Few PROVE Cardinality(Many) <= Cardinality(Few) + 1
  <2>1. Cardinality(Many \ {n}) = IF n \in Many THEN Cardinality(Many) - 1 ELSE Cardinality(Many)
    BY <1>1, FS_RemoveElement
  <2>2. Cardinality(Many \ {n}) <= Cardinality(Few)
    BY <1>1, <1>3, FS_Subset
  <2> DEFINE a == Cardinality(Many)
             b == Cardinality(Few)
             c == Cardinality(Many \ {n})
  <2>3. a \in Nat /\ b \in Nat /\ (c = a - 1 \/ c = a) /\ c <= b
    BY <1>2, <2>1, <2>2
  <2> HIDE DEF a, b, c
  <2>4. a <= b + 1
    BY <2>3
  <2> QED
    BY <2>4 DEF a, b
<1>4. ASSUME NEW n \in Many, n \notin Few PROVE Cardinality(Few) + 1 <= Cardinality(Many)
  <2>1. Cardinality(Few \cup {n}) = Cardinality(Few) + 1
    BY <1>1, <1>4, FS_AddElement
  <2>2. Few \cup {n} \subseteq Many
    BY <1>4
  <2>3. Cardinality(Few \cup {n}) <= Cardinality(Many)
    BY <1>1, <2>2, FS_Subset
  <2> QED
    BY <2>1, <2>3
<1> QED
  BY <1>2, <1>3, <1>4

(* A set of pings has an oldest.                                           *)
LEMMA OldestIs ==
  ASSUME PingAssumption, NEW A \in SUBSET Numbers, A # {}, NEW id \in Numbers
  PROVE  \E n \in A : \A m \in A : Ago(id, m) <= Ago(id, n)
<1> DEFINE X == {BYTE - Ago(id, n) : n \in A}
<1>1. \A n \in A : Ago(id, n) \in Nat /\ Ago(id, n) < BYTE /\ BYTE \in Nat
  BY AgoNat, Rings
<1>2. X \in SUBSET Nat /\ X # {}
  BY <1>1
<1> HIDE DEF X
<1>3. PICK x \in X : \A k \in Nat : <<k, x>> \in OpToRel(<, Nat) => k \notin X
  BY <1>2, NatLessThanWellFounded, WFMin, Zenon
<1>4. \A k \in X : ~(k < x)
  BY <1>2, <1>3, Zenon DEF OpToRel
<1>5. PICK n \in A : x = BYTE - Ago(id, n)
  BY DEF X
<1>6. ASSUME NEW m \in A PROVE Ago(id, m) <= Ago(id, n)
  <2>1. ~(BYTE - Ago(id, m) < BYTE - Ago(id, n))
    BY <1>4, <1>5 DEF X
  <2> QED
    BY <1>1, <2>1
<1> QED
  BY <1>6

(* The answers that come are not taken for late ones.                      *)
LEMMA GapsClose ==
  ASSUME PingAssumption, LossAssumption, PingTyped, PingWindow, InTurn, Bounded, Gaps
  PROVE  Close
<1> DEFINE h == BYTE \div 2
           l == Lost
<1>1. /\ h \in Nat /\ BYTE = 2 * h /\ HASHSIZE \in Nat \ {0} /\ HASHSIZE <= h /\ LostMax \in Nat
      /\ 2 * LostMax + 1 < h
  BY Rings DEF PingAssumption, LossAssumption
<1>2. l \in Nat /\ l <= 2 * LostMax
  <2>1. truth.down \in Nat /\ truth.up \in Nat
    BY PacketsAre
  <2> QED
    BY <1>1, <2>1 DEF Bounded, Lost
<1>3. Flying \in SUBSET Numbers /\ ping_id \in Numbers /\ last_num \in Numbers
  BY DEF PingTyped, Flying, Flights
<1> HIDE DEF h, l
<1>4. \A x \in Numbers : Ago(ping_id, x) \in Nat
  BY <1>3, AgoNat
<1>5. ASSUME NEW n \in Flying, \A m \in Flying : Ago(ping_id, m) <= Ago(ping_id, n)
      PROVE  Ago(ping_id, last_num) - Ago(ping_id, n) <= l + 1
  <2> DEFINE Mid == Between(ping_id, Flying, n, last_num)
  <2>1. \A s \in Mid : s = n
    <3>1. SUFFICES ASSUME NEW s \in Mid PROVE s = n
      OBVIOUS
    <3>2. s \in Flying /\ Ago(ping_id, s) = Ago(ping_id, n) /\ s \in Numbers /\ n \in Numbers
      BY <1>3, <1>4, <1>5 DEF Between
    <3>3. ping_id \in 0..BYTE - 1 /\ s \in 0..BYTE - 1 /\ n \in 0..BYTE - 1 /\ BYTE \in Nat
      BY <1>1, <1>3, <3>2 DEF Numbers
    <3> QED
      BY <3>2, <3>3 DEF Ago
  <2>2. Cardinality(Mid) \in Nat /\ Cardinality(Mid) <= 1
    <3>1. Mid \subseteq {n} /\ IsFiniteSet({n}) /\ Cardinality({n}) = 1
      BY <2>1, FS_Singleton
    <3> HIDE DEF Mid
    <3> QED
      BY <3>1, FS_Subset, FS_CardinalityType
  <2>3. Ago(ping_id, n) <= Ago(ping_id, last_num)
    BY <1>5 DEF InTurn
  <2>4. Ago(ping_id, last_num) - Ago(ping_id, n) <= l + Cardinality(Mid)
    BY <1>5, <2>3 DEF Gaps, l
  <2> HIDE DEF Mid
  <2> QED
    BY <1>2, <1>3, <1>4, <2>2, <2>4
<1>6. ASSUME NEW n \in Flying, \A m \in Flying : Ago(ping_id, m) <= Ago(ping_id, n)
      PROVE  Ago(ping_id, last_num) - Ago(ping_id, n) < h
  BY <1>1, <1>2, <1>3, <1>4, <1>5, <1>6
<1>7. Ago(ping_id, last_num) < BYTE - 1
  <2>1. CASE Flying = {}
    <3>1. Ago(ping_id, ping_id) = 0 /\ Between(ping_id, Flying, ping_id, last_num) = {}
      BY <1>3, <2>1, AgoIs DEF Between
    <3>2. Ago(ping_id, last_num) - 0 <= l + 0
      <4>1. Ago(ping_id, ping_id) <= Ago(ping_id, last_num)
        BY <1>3, <1>4, <3>1
      <4>2. Cardinality({}) = 0
        BY FS_EmptySet
      <4> QED
        BY <3>1, <4>1, <4>2 DEF Gaps, l
    <3> QED
      BY <1>1, <1>2, <1>3, <1>4, <3>2
  <2>2. CASE Flying # {}
    <3>1. PICK n \in Flying : \A m \in Flying : Ago(ping_id, m) <= Ago(ping_id, n)
      BY <1>3, <2>2, OldestIs
    <3>2. Ago(ping_id, last_num) - Ago(ping_id, n) <= l + 1 /\ Ago(ping_id, n) < HASHSIZE
      BY <1>5, <3>1 DEF PingWindow
    <3>3. Ago(ping_id, last_num) \in Nat /\ Ago(ping_id, n) \in Nat
      BY <1>3, <1>4
    <3> QED
      BY <1>1, <1>2, <3>2, <3>3
  <2> QED
    BY <2>1, <2>2
<1> QED
  BY <1>6, <1>7 DEF Close, h

(* The losses that were counted.                                           *)
LEMMA LostIs ==
  ASSUME PingTyped
  PROVE  truth.down \in Nat /\ truth.up \in Nat /\ Lost \in Nat
<1>1. truth.down \in Nat /\ truth.up \in Nat
  BY PacketsAre
<1> QED
  BY <1>1 DEF Lost

(* And the losses of the next state.                                       *)
LEMMA LostNext ==
  ASSUME PingTyped'
  PROVE  Lost' \in Nat
<1>1. truth'.down \in Nat /\ truth'.up \in Nat
  BY DEF PingTyped, Losses
<1> QED
  BY <1>1 DEF Lost

(* A gap that was closed stays so as losses and what lies between grow.    *)
LEMMA GapClosed ==
  ASSUME NEW a \in Nat, NEW b \in Nat, NEW c \in Nat, NEW d \in Nat, NEW k \in Nat, NEW l \in Nat,
         a - b <= k + c, k + c <= l + d
  PROVE  a - b <= l + d
OBVIOUS

(* One loss makes up for one ping.                                         *)
LEMMA LossCounted ==
  ASSUME NEW c \in Nat, NEW d \in Nat, NEW k \in Nat, NEW l \in Nat,
         (l >= k /\ c <= d) \/ (l = k + 1 /\ c <= d + 1)
  PROVE  k + c <= l + d
OBVIOUS

(* What is under way between two pings is finite.                          *)
LEMMA BetweenIs ==
  ASSUME PingAssumption, NEW A \in SUBSET Numbers, NEW id, NEW r, NEW q
  PROVE  Between(id, A, r, q) \in SUBSET Numbers /\ Cardinality(Between(id, A, r, q)) \in Nat
<1>1. Between(id, A, r, q) \in SUBSET Numbers
  BY DEF Between
<1> QED
  BY <1>1, Counted

(* The gaps stay closed while no ping is sent and what leaves between two  *)
(* pings is counted as lost.                                               *)
LEMMA GapsKept ==
  ASSUME PingAssumption, PingTyped, PingTyped', Gaps, ping_id' = ping_id, Flying' \subseteq Flying,
         last_num' \in Flying \cup {last_num},
         \A q \in Flying' \cup {last_num'}, r \in Flying' \cup {last_num', ping_id} :
           Lost + Cardinality(Between(ping_id, Flying, r, q))
             <= Lost' + Cardinality(Between(ping_id, Flying', r, q))
  PROVE  Gaps'
<1> SUFFICES ASSUME NEW q \in Flying' \cup {last_num'}, NEW r \in Flying' \cup {last_num', ping_id},
                    Ago(ping_id, r) <= Ago(ping_id, q)
             PROVE  Ago(ping_id, q) - Ago(ping_id, r) <= Lost' + Cardinality(Between(ping_id, Flying', r, q))
  BY DEF Gaps
<1>1. q \in Flying \cup {last_num} /\ r \in Flying \cup {last_num, ping_id}
  OBVIOUS
<1>2. Flying \in SUBSET Numbers /\ Flying' \in SUBSET Numbers
  BY DEF Flying, Flights
<1>3. ping_id \in Numbers /\ last_num \in Numbers
  BY DEF PingTyped
<1> DEFINE a == Ago(ping_id, q)
           b == Ago(ping_id, r)
           c == Cardinality(Between(ping_id, Flying, r, q))
           d == Cardinality(Between(ping_id, Flying', r, q))
<1>4. a \in Nat /\ b \in Nat
  BY <1>1, <1>2, <1>3, AgoNat
<1>5. c \in Nat /\ d \in Nat
  BY <1>2, BetweenIs
<1>6. Lost \in Nat /\ Lost' \in Nat
  BY LostIs, LostNext
<1>7. a - b <= Lost + c
  BY <1>1 DEF Gaps
<1>8. Lost + c <= Lost' + d
  OBVIOUS
<1> HIDE DEF a, b, c, d
<1>9. a - b <= Lost' + d
  BY <1>4, <1>5, <1>6, <1>7, <1>8, GapClosed
<1> QED
  BY <1>9 DEF a, b, d

(* A step that takes nothing off, or loses what it takes off.              *)
LEMMA GapsLose ==
  ASSUME PingAssumption, PingTyped, PingTyped', Gaps, ping_id' = ping_id, last_num' = last_num,
         \/ Flying' = Flying /\ Lost' >= Lost
         \/ /\ Lost' = Lost + 1
            /\ \E n \in Flying : Flying \ {n} \subseteq Flying' /\ Flying' \subseteq Flying
  PROVE  Gaps'
<1>1. Flying \in SUBSET Numbers /\ Flying' \in SUBSET Numbers /\ Flying' \subseteq Flying
  BY DEF Flying, Flights
<1>2. Lost \in Nat /\ Lost' \in Nat
  BY LostIs, LostNext
<1>3. ASSUME NEW q, NEW r
      PROVE  Lost + Cardinality(Between(ping_id, Flying, r, q))
               <= Lost' + Cardinality(Between(ping_id, Flying', r, q))
  <2> DEFINE c == Cardinality(Between(ping_id, Flying, r, q))
             d == Cardinality(Between(ping_id, Flying', r, q))
  <2>1. c \in Nat /\ d \in Nat
    BY <1>1, BetweenIs
  <2>2. CASE Flying' = Flying /\ Lost' >= Lost
    <3>1. c <= d
      BY <2>1, <2>2
    <3> HIDE DEF c, d
    <3>2. Lost + c <= Lost' + d
      BY <1>2, <2>1, <2>2, <3>1, LossCounted
    <3> QED
      BY <3>2 DEF c, d
  <2>3. CASE /\ Lost' = Lost + 1
             /\ \E n \in Flying : Flying \ {n} \subseteq Flying' /\ Flying' \subseteq Flying
    <3>1. PICK n \in Flying : Flying \ {n} \subseteq Flying'
      BY <2>3
    <3>2. /\ Between(ping_id, Flying, r, q) \ {n} \subseteq Between(ping_id, Flying', r, q)
          /\ Between(ping_id, Flying', r, q) \subseteq Between(ping_id, Flying, r, q)
          /\ Between(ping_id, Flying, r, q) \in SUBSET Numbers
      BY <1>1, <3>1 DEF Between
    <3>3. c <= d + 1
      BY <3>2, Counted
    <3> HIDE DEF c, d
    <3>4. Lost + c <= Lost' + d
      BY <1>2, <2>1, <2>3, <3>3, LossCounted
    <3> QED
      BY <3>4 DEF c, d
  <2> QED
    BY <2>2, <2>3
<1> QED
  BY <1>1, <1>3, GapsKept

(* The oldest of the pings is answered.                                    *)
LEMMA GapsServed ==
  ASSUME PingAssumption, PingTyped, PingTyped', Gaps, ping_id' = ping_id, Lost' = Lost,
         Flying' \subseteq Flying, last_num' \in Flying, Flying \ {last_num'} \subseteq Flying',
         \A n \in Flying : Ago(ping_id, n) <= Ago(ping_id, last_num')
  PROVE  Gaps'
<1>1. Flying \in SUBSET Numbers /\ Flying' \in SUBSET Numbers
  BY DEF Flying, Flights
<1>2. ping_id \in Numbers
  BY DEF PingTyped
<1>3. ASSUME NEW q \in Flying' \cup {last_num'}, NEW r
      PROVE  Between(ping_id, Flying, r, q) = Between(ping_id, Flying', r, q)
  <2>1. ASSUME NEW s \in Between(ping_id, Flying, r, q) PROVE s \in Flying'
    <3>1. s \in Flying /\ Ago(ping_id, s) < Ago(ping_id, q) /\ q \in Flying
      BY <2>1 DEF Between
    <3>2. Ago(ping_id, s) \in Nat /\ Ago(ping_id, q) \in Nat /\ Ago(ping_id, last_num') \in Nat
      BY <1>1, <1>2, <3>1, AgoNat
    <3>3. Ago(ping_id, q) <= Ago(ping_id, last_num')
      BY <3>1
    <3>4. s # last_num'
      BY <3>1, <3>2, <3>3
    <3> QED
      BY <3>1, <3>4
  <2> QED
    BY <2>1 DEF Between
<1>4. Lost \in Nat
  BY LostIs
<1>5. ASSUME NEW q \in Flying' \cup {last_num'}, NEW r
      PROVE  Lost + Cardinality(Between(ping_id, Flying, r, q))
               <= Lost' + Cardinality(Between(ping_id, Flying', r, q))
  <2> DEFINE c == Cardinality(Between(ping_id, Flying, r, q))
             d == Cardinality(Between(ping_id, Flying', r, q))
  <2>1. c = d /\ c \in Nat
    BY <1>1, <1>3, <1>5, BetweenIs
  <2> HIDE DEF c, d
  <2>2. Lost + c <= Lost' + d
    BY <1>4, <2>1, LossCounted
  <2> QED
    BY <2>2 DEF c, d
<1> QED
  BY <1>5, GapsKept

(* A ping is sent, or lost.                                                *)
LEMMA GapsSent ==
  ASSUME PingAssumption, PingTyped, PingWindow, Close, Gaps, G!sendClientPing
  PROVE  Gaps'
<1> DEFINE id == (ping_id + 1) % BYTE
           p == [ping |-> id, lost |-> truth.down]
<1>1. /\ PingTyped' /\ p \in Downs /\ G!Sends(p) /\ ping_id' = id /\ id \in Numbers
      /\ last_num' = last_num /\ up' = up
  BY PingSentIs DEF G!sendClientPing
<1>2. p.ping = id
  OBVIOUS
<1>3. \/ Flying' = Flying \cup {id} /\ truth' = truth
      \/ Flying' = Flying /\ truth'.down = truth.down + 1 /\ truth'.up = truth.up
  <2> HIDE DEF p
  <2> QED
    BY <1>1, <1>2, PingFlies
<1>4. /\ \A q \in Numbers : q # id => Ago(id, q) = Ago(ping_id, q) + 1
      /\ Ago(ping_id, id) = BYTE - 1
      /\ ping_id \in Numbers /\ last_num \in Numbers
  BY NextNumber DEF PingTyped
<1>5. HASHSIZE \in Nat \ {0} /\ BYTE \in Nat /\ HASHSIZE < BYTE /\ HASHSIZE <= BYTE - 1
  BY Rings DEF PingAssumption
<1> HIDE DEF id, p
<1>6. \A q \in Numbers : Ago(ping_id, q) \in Nat /\ Ago(id, q) \in Nat
  BY <1>1, <1>4, AgoNat
<1>7. Ago(id, id) = 0 /\ Ago(ping_id, ping_id) = 0
  BY <1>1, <1>4, AgoIs
<1>8. Flying \in SUBSET Numbers /\ Flying' \in SUBSET Numbers
  BY DEF Flying, Flights
<1>9. id \notin Flying /\ id # last_num /\ id # ping_id
  <2>1. id \notin Flying
    <3>1. SUFFICES ASSUME id \in Flying PROVE FALSE
      OBVIOUS
    <3>2. Ago(ping_id, id) < HASHSIZE
      BY <3>1 DEF PingWindow
    <3> QED
      BY <1>4, <1>5, <3>2
  <2>2. id # last_num
    BY <1>4, <1>5 DEF Close
  <2>3. id # ping_id
    BY <1>4, <1>5, <1>7
  <2> QED
    BY <2>1, <2>2, <2>3
<1>10. \A n \in Flying \cup {last_num, ping_id} : n \in Numbers /\ Ago(id, n) = Ago(ping_id, n) + 1
  BY <1>4, <1>8, <1>9
<1>11. Lost \in Nat /\ Lost' \in Nat
  BY <1>1, LostIs, LostNext
<1>12. \/ Flying' = Flying \cup {id} /\ Lost' = Lost
       \/ Flying' = Flying /\ Lost' = Lost + 1
  <2>1. truth.down \in Nat /\ truth.up \in Nat
    BY LostIs
  <2> QED
    BY <1>3, <2>1 DEF Lost
<1>13. ASSUME NEW q \in Flying \cup {last_num}, NEW r \in Flying \cup {last_num, ping_id}
       PROVE  Between(ping_id, Flying, r, q) \subseteq Between(id, Flying', r, q)
  <2>1. SUFFICES ASSUME NEW s \in Between(ping_id, Flying, r, q) PROVE s \in Between(id, Flying', r, q)
    OBVIOUS
  <2>2. s \in Flying /\ Ago(ping_id, r) <= Ago(ping_id, s) /\ Ago(ping_id, s) < Ago(ping_id, q)
    BY DEF Between
  <2>3. /\ Ago(ping_id, r) \in Nat /\ Ago(ping_id, s) \in Nat /\ Ago(ping_id, q) \in Nat
        /\ Ago(id, r) = Ago(ping_id, r) + 1 /\ Ago(id, s) = Ago(ping_id, s) + 1 /\ Ago(id, q) = Ago(ping_id, q) + 1
    BY <1>6, <1>10, <2>2
  <2>4. Ago(id, r) <= Ago(id, s) /\ Ago(id, s) < Ago(id, q)
    BY <2>2, <2>3
  <2>5. s \in Flying'
    BY <1>12, <2>2
  <2> QED
    BY <2>4, <2>5 DEF Between
<1>14. SUFFICES ASSUME NEW q \in Flying' \cup {last_num}, NEW r \in Flying' \cup {last_num, id},
                       Ago(id, r) <= Ago(id, q)
                PROVE  Ago(id, q) - Ago(id, r) <= Lost' + Cardinality(Between(id, Flying', r, q))
  BY <1>1 DEF Gaps
<1> DEFINE a == Ago(ping_id, q)
           b == Ago(ping_id, r)
           c == Cardinality(Between(ping_id, Flying, r, q))
           d == Cardinality(Between(id, Flying', r, q))
<1>15. d \in Nat
  BY <1>8, BetweenIs
<1>16. CASE q = id
  <2>1. Ago(id, q) = 0 /\ Ago(id, r) \in Nat
    BY <1>1, <1>4, <1>6, <1>7, <1>8, <1>16
  <2>2. Ago(id, r) = 0
    BY <1>14, <2>1
  <2> HIDE DEF d
  <2>3. 0 - 0 <= Lost' + d
    <3> DEFINE k == Lost'
    <3>1. k \in Nat
      BY <1>11
    <3> HIDE DEF k
    <3>2. 0 - 0 <= k + d
      BY <1>15, <3>1
    <3> QED
      BY <3>2 DEF k
  <2> QED
    BY <2>1, <2>2, <2>3 DEF d
<1>17. CASE q # id /\ r # id
  <2>1. q \in Flying \cup {last_num} /\ r \in Flying \cup {last_num, ping_id}
    BY <1>12, <1>17
  <2>2. /\ a \in Nat /\ b \in Nat /\ Ago(id, q) = a + 1 /\ Ago(id, r) = b + 1
    BY <1>6, <1>10, <2>1
  <2>3. b <= a
    BY <1>14, <2>2
  <2>4. a - b <= Lost + c
    BY <2>1, <2>3 DEF Gaps
  <2>5. c \in Nat /\ c <= d
    BY <1>8, <1>13, <2>1, BetweenIs, Counted
  <2> HIDE DEF a, b, c, d
  <2>6. Lost + c <= Lost' + d
    <3>1. Lost' >= Lost
      BY <1>11, <1>12
    <3> QED
      BY <1>11, <1>15, <2>5, <3>1, LossCounted
  <2>7. a - b <= Lost' + d
    BY <1>11, <1>15, <2>2, <2>4, <2>5, <2>6, GapClosed
  <2>8. (a + 1) - (b + 1) = a - b
    BY <2>2
  <2> QED
    BY <2>2, <2>7, <2>8 DEF d
<1>18. CASE q # id /\ r = id
  <2> DEFINE e == Cardinality(Between(ping_id, Flying, ping_id, q))
  <2>1. q \in Flying \cup {last_num}
    BY <1>12, <1>18
  <2>2. a \in Nat /\ Ago(id, q) = a + 1 /\ Ago(id, r) = 0
    BY <1>6, <1>7, <1>10, <1>18, <2>1
  <2>3. a - 0 <= Lost + e
    <3>1. Ago(ping_id, ping_id) <= a
      BY <1>7, <2>2
    <3> QED
      BY <1>7, <2>1, <3>1 DEF Gaps
  <2>4. Between(ping_id, Flying, ping_id, q) \subseteq Between(id, Flying', id, q)
    <3>1. SUFFICES ASSUME NEW s \in Between(ping_id, Flying, ping_id, q) PROVE s \in Between(id, Flying', id, q)
      OBVIOUS
    <3>2. s \in Between(id, Flying', ping_id, q)
      BY <1>13, <2>1
    <3>3. Ago(id, id) <= Ago(id, s)
      BY <1>6, <1>7, <1>8, <3>2 DEF Between
    <3> QED
      BY <3>2, <3>3 DEF Between
  <2>5. e \in Nat /\ e <= d
    BY <1>8, <1>18, <2>4, BetweenIs, Counted
  <2>6. Flying' = Flying \cup {id} => e + 1 <= d
    <3>1. SUFFICES ASSUME Flying' = Flying \cup {id} PROVE e + 1 <= d
      OBVIOUS
    <3>2. 0 < Ago(id, q)
      BY <2>2
    <3>3. id \in Between(id, Flying', id, q)
      <4>1. Ago(id, id) <= Ago(id, id) /\ Ago(id, id) < Ago(id, q)
        BY <1>7, <3>2
      <4> QED
        BY <3>1, <4>1 DEF Between
    <3>4. id \notin Between(ping_id, Flying, ping_id, q)
      BY <1>9 DEF Between
    <3> QED
      BY <1>8, <1>18, <2>4, <3>3, <3>4, BetweenIs, Counted
  <2> HIDE DEF a, d, e
  <2>7. a + 1 <= Lost' + d
    <3>1. CASE Flying' = Flying \cup {id} /\ Lost' = Lost
      <4>1. e + 1 <= d
        BY <2>6, <3>1
      <4> DEFINE k == Lost
      <4>2. k \in Nat /\ a - 0 <= k + e /\ Lost' = k
        BY <1>11, <2>3, <3>1
      <4> HIDE DEF k
      <4> QED
        BY <1>15, <2>2, <2>5, <4>1, <4>2
    <3>2. CASE Lost' = Lost + 1
      <4> DEFINE k == Lost
      <4>2. k \in Nat /\ a - 0 <= k + e /\ Lost' = k + 1
        BY <1>11, <2>3, <3>2
      <4> HIDE DEF k
      <4> QED
        BY <1>15, <2>2, <2>5, <4>2
    <3> QED
      BY <1>12, <3>1, <3>2
  <2>8. (a + 1) - 0 <= Lost' + d
    BY <2>2, <2>7
  <2> QED
    BY <2>2, <2>8 DEF d
<1> QED
  BY <1>16, <1>17, <1>18

(* An answer that comes in order is not taken for a late one.              *)
LEMMA NotLate ==
  ASSUME PingAssumption, PingTyped, InTurn, Close, 1 \in DOMAIN up, up[1].answer # -1
  PROVE  /\ up[1].answer \in Numbers /\ up[1].answer \in Flying
         /\ \A n \in Flying : Ago(ping_id, n) <= Ago(ping_id, up[1].answer)
         /\ ~Late(up[1])
<1> DEFINE p == up[1]
           n == p.answer
<1>1. n \in Numbers /\ n \in Flying
  <2>1. 1 \in 1..Len(up)
    BY DEF PingTyped
  <2> QED
    BY <2>1, PacketsAre
<1>2. \A m \in Flying : Ago(ping_id, m) <= Ago(ping_id, n)
  BY FirstIsOldest
<1>3. ping_id \in Numbers /\ last_num \in Numbers
  BY DEF PingTyped
<1> HIDE DEF p, n
<1>4. Ago(ping_id, last_num) - Ago(ping_id, n) < BYTE \div 2 /\ Ago(ping_id, n) <= Ago(ping_id, last_num)
  BY <1>1, <1>2 DEF Close, InTurn
<1>5. Ago(ping_id, last_num) - Ago(ping_id, n) \in 0..(BYTE \div 2) - 1
  BY <1>1, <1>3, <1>4, AgoNat, Rings
<1>6. ~Late(p)
  BY <1>1, <1>3, <1>5, Compared DEF Late, n
<1> QED
  BY <1>1, <1>2, <1>6 DEF p, n

(* Losses are bounded, as the network loses no more than it may.           *)
LEMMA BoundedStep ==
  ASSUME PingAssumption, PingTyped, Bounded, [G!Next]_(G!vars)
  PROVE  Bounded'
<1>1. LostMax \in Nat /\ truth.down \in Nat /\ truth.up \in Nat
  BY LostIs DEF PingAssumption
<1>2. truth \in [down : Nat, up : Nat]
  BY DEF PingTyped, Losses
<1>3. ASSUME NEW p, G!Sends(p) PROVE Bounded'
  <2>1. CASE truth' = truth
    BY <2>1 DEF Bounded
  <2>2. CASE truth.down < LostMax /\ truth' = [truth EXCEPT !.down = @ + 1]
    <3>1. truth'.down = truth.down + 1 /\ truth'.up = truth.up
      BY <1>2, <2>2
    <3> QED
      BY <1>1, <2>2, <3>1 DEF Bounded
  <2> QED
    BY <1>3, <2>1, <2>2 DEF G!Sends
<1>4. ASSUME NEW a, NEW n, G!ClientSends(a, n) PROVE Bounded'
  <2>1. CASE truth' = truth
    BY <2>1 DEF Bounded
  <2>2. CASE truth.up < LostMax /\ truth' = [truth EXCEPT !.up = @ + 1]
    <3>1. truth'.up = truth.up + 1 /\ truth'.down = truth.down
      BY <1>2, <2>2
    <3> QED
      BY <1>1, <2>2, <3>1 DEF Bounded
  <2> QED
    BY <1>4, <2>1, <2>2 DEF G!ClientSends
<1>5. CASE UNCHANGED G!vars
  BY <1>5 DEF G!vars, Bounded
<1>6. CASE G!SendUpdate
  <2>1. \E p : G!Sends(p)
    BY <1>6, PingUpdateIs
  <2> QED
    BY <1>3, <2>1
<1>7. CASE G!sendClientPing
  <2>1. \E p : G!Sends(p)
    BY <1>7, PingSentIs
  <2> QED
    BY <1>3, <2>1
<1>8. CASE G!ClientReads
  <2>1. truth' = truth \/ \E a, n : G!ClientSends(a, n)
    BY <1>8, PingReadIs
  <2>2. CASE truth' = truth
    BY <2>2 DEF Bounded
  <2> QED
    BY <1>4, <2>1, <2>2
<1>9. CASE G!ClientActs
  BY <1>4, <1>9, PingActsIs
<1>10. CASE G!ServerReads
  BY <1>10, PingServedIs DEF Bounded
<1> QED
  BY <1>5, <1>6, <1>7, <1>8, <1>9, <1>10 DEF G!Next

(* As long as packets are in order, they were.                             *)
LEMMA OrderedBefore ==
  ASSUME PingAssumption, PingTyped, [G!Next]_(G!vars), ordered'
  PROVE  ordered
<1>1. CASE UNCHANGED G!vars
  BY <1>1 DEF G!vars
<1>2. CASE G!SendUpdate \/ G!sendClientPing
  BY <1>2 DEF G!SendUpdate, G!sendClientPing
<1>3. CASE G!ClientReads
  BY <1>3, PingReadIs
<1>4. CASE G!ClientActs
  BY <1>4, PingActsIs
<1>5. CASE G!ServerReads
  BY <1>5, PingServedIs
<1> QED
  BY <1>1, <1>2, <1>3, <1>4, <1>5 DEF G!Next

(* The gaps stay closed.                                                   *)
LEMMA GapsStep ==
  ASSUME PingAssumption, PingTyped, PingWindow, InTurn, Close, Gaps, [G!Next]_(G!vars), ordered'
  PROVE  Gaps'
<1>0. PingTyped' /\ BYTE \in Nat
  BY WindowStep, Rings
<1>1. truth.down \in Nat /\ truth.up \in Nat /\ Lost \in Nat
  BY LostIs
<1>2. CASE UNCHANGED G!vars
  BY <1>2 DEF G!vars, Gaps, Lost, Flying
<1>3. CASE G!SendUpdate
  <2> DEFINE p == [ping |-> -1, lost |-> truth.down]
  <2>1. p \in Downs /\ G!Sends(p) /\ up' = up /\ ping_id' = ping_id /\ last_num' = last_num
    BY <1>3, PingUpdateIs DEF G!SendUpdate, G!counters
  <2>2. p.ping = -1
    OBVIOUS
  <2>3. truth' = truth \/ (truth'.down = truth.down + 1 /\ truth'.up = truth.up)
    <3>1. truth \in [down : Nat, up : Nat]
      BY DEF PingTyped, Losses
    <3> QED
      BY <2>1, <3>1 DEF G!Sends
  <2> HIDE DEF p
  <2>4. Flying' = Flying
    BY <1>0, <2>1, <2>2, UpdateFlies
  <2>5. Lost' >= Lost
    BY <1>1, <2>3 DEF Lost
  <2> QED
    BY <1>0, <2>1, <2>4, <2>5, GapsLose
<1>4. CASE G!sendClientPing
  BY <1>4, GapsSent
<1>5. CASE G!ClientReads
  <2>1. UNCHANGED <<ping_id, last_num>>
    BY <1>5, PingReadIs
  <2>2. CASE Flying' = Flying /\ truth'.down = truth.down /\ truth'.up \in {truth.up, truth.up + 1}
    <3>1. Lost' >= Lost
      BY <1>1, <2>2 DEF Lost
    <3> QED
      BY <1>0, <2>1, <2>2, <3>1, GapsLose
  <2>3. CASE /\ truth'.down = truth.down /\ truth'.up = truth.up + 1
             /\ \E n \in Flying : Flying \ {n} \subseteq Flying' /\ Flying' \subseteq Flying
    <3>1. Lost' = Lost + 1
      BY <1>1, <2>3 DEF Lost
    <3> QED
      BY <1>0, <2>1, <2>3, <3>1, GapsLose
  <2> QED
    BY <1>0, <1>5, <2>2, <2>3, AnswerFlies
<1>6. CASE G!ClientActs
  <2>1. UNCHANGED <<ping_id, last_num>>
    BY <1>6, PingActsIs
  <2>2. Flying' = Flying /\ truth'.down = truth.down /\ truth'.up \in {truth.up, truth.up + 1}
    BY <1>0, <1>6, ActFlies
  <2>3. Lost' >= Lost
    BY <1>1, <2>2 DEF Lost
  <2> QED
    BY <1>0, <2>1, <2>2, <2>3, GapsLose
<1>7. CASE G!ServerReads
  <2>1. /\ 1 \in DOMAIN up /\ up' = G!Without(up, 1)
        /\ \/ Ignores(up[1])
           \/ up[1].answer # -1 /\ ~Late(up[1]) /\ last_num' = up[1].answer /\ Reckons(up[1])
        /\ UNCHANGED <<ping_id, down, truth>>
    BY <1>7, PingServedIs
  <2> DEFINE p == up[1]
             n == p.answer
  <2>2. /\ Flying' \subseteq Flying
        /\ \A m \in Flying : m \in Flying' \/ m = n
    BY <2>1, ServedFlies
  <2>3. Lost' = Lost
    BY <2>1 DEF Lost
  <2>4. CASE n = -1
    <3>1. last_num' = last_num
      BY <2>1, <2>4 DEF Ignores
    <3>2. -1 \notin Flying
      BY <1>0 DEF Flying, Flights, Numbers
    <3>3. Flying' = Flying
      BY <2>2, <2>4, <3>2
    <3> QED
      BY <1>0, <1>1, <2>1, <2>3, <3>1, <3>3, GapsLose
  <2>5. CASE n # -1
    <3>1. n \in Flying /\ (\A m \in Flying : Ago(ping_id, m) <= Ago(ping_id, n)) /\ ~Late(p)
      BY <2>1, <2>5, NotLate
    <3>2. last_num' = n
      BY <2>1, <2>5, <3>1 DEF Ignores
    <3> HIDE DEF n
    <3> QED
      BY <1>0, <2>1, <2>2, <2>3, <3>1, <3>2, GapsServed
  <2> QED
    BY <2>4, <2>5
<1> QED
  BY <1>2, <1>3, <1>4, <1>5, <1>6, <1>7 DEF G!Next

(* At first nothing is lost and nothing is under way.                      *)
LEMMA GapsInit == PingAssumption /\ G!Init => PingGaps
<1> SUFFICES ASSUME PingAssumption, G!Init PROVE Bounded /\ Gaps
  BY DEF PingGaps
<1>1. Flying = {}
  BY DEF G!Init, Flying, Flights, Packets
<1>2. LostMax \in Nat /\ truth.down = 0 /\ truth.up = 0 /\ last_num = ping_id /\ Lost = 0
  BY DEF G!Init, PingAssumption, Lost
<1>3. ping_id \in Numbers
  BY PingInit DEF PingTyped
<1>4. Ago(ping_id, ping_id) = 0
  BY <1>3, AgoIs
<1>5. Between(ping_id, Flying, ping_id, ping_id) = {}
  BY <1>1 DEF Between
<1>6. Cardinality({}) = 0
  BY FS_EmptySet
<1>7. Gaps
  BY <1>1, <1>2, <1>4, <1>5, <1>6 DEF Gaps
<1> QED
  BY <1>2, <1>7 DEF Bounded

(* What the proofs need of a state, but for the losses.                    *)
PingInv == PingTyped /\ PingWindow /\ PingOrder

(* A step of this machine is a step of Ping.                               *)
LEMMA PingNext ==
  machine = "Ping" /\ [Next]_vars => machine' = "Ping" /\ [G!Next]_(G!vars)
BY DEF Next, vars, Ends, pings, G!vars

(* No step turns to another machine.                                       *)
LEMMA PingMachine == [Next]_vars => machine' = machine
BY DEF Next, vars, Ends

(* The invariant holds after each step.                                    *)
LEMMA GapsNext ==
  ASSUME PingAssumption, LossAssumption, PingInv, PingGaps, [G!Next]_(G!vars)
  PROVE  PingInv' /\ PingGaps'
<1>1. ordered => Close
  BY GapsClose DEF PingInv, PingGaps, PingOrder, InOrder
<1>2. PingInv'
  BY <1>1, WindowStep, OrderStep DEF PingInv
<1>3. Bounded'
  BY BoundedStep DEF PingInv, PingGaps
<1>4. ASSUME ordered' PROVE Gaps'
  <2>1. ordered
    BY <1>4, OrderedBefore DEF PingInv
  <2> QED
    BY <1>1, <1>4, <2>1, GapsStep DEF PingInv, PingGaps, PingOrder, InOrder
<1> QED
  BY <1>2, <1>3, <1>4 DEF PingGaps

(* The loss reckoned for the server's packets is a percentage (ping.c:     *)
(* calc_loss, the ring of HASHSIZE places), however many packets are lost  *)
(* and in whatever order they come.                                        *)
THEOREM LossIsAPercentage ==
  ASSUME PingAssumption
  PROVE  Spec => [](machine = "Ping" => G!Percentage)
<1> DEFINE Inv == machine = "Ping" => PingTyped /\ PingWindow
<1>1. Init => Inv
  BY PingInit, WindowInit DEF Init
<1>2. Inv /\ [Next]_vars => Inv'
  BY PingMachine, PingNext, WindowStep
<1>3. Inv => (machine = "Ping" => G!Percentage)
  BY WindowPercent
<1> QED
  BY <1>1, <1>2, <1>3, PTL DEF Spec

(* And, while no packet overtakes another, it is what the network has lost *)
(* up to the last ping that was answered, in both directions (ping.c:      *)
(* pingResponse, calc_loss), if the network loses fewer packets than a     *)
(* half of the ping numbers allow.                                         *)
THEOREM PingIsSound ==
  ASSUME PingAssumption, LossAssumption
  PROVE  Spec => []PingSound
<1> DEFINE Inv == machine = "Ping" => PingInv /\ PingGaps
<1>1. Init => Inv
  BY PingInit, WindowInit, OrderInit, GapsInit DEF Init, PingInv
<1>2. Inv /\ [Next]_vars => Inv'
  BY PingMachine, PingNext, GapsNext
<1>3. Inv => PingSound
  BY WindowPercent, OrderTrue DEF PingSound, G!PingSound, PingInv
<1> QED
  BY <1>1, <1>2, <1>3, PTL DEF Spec

(* Or if it loses any number of them, but never so many in a row that the  *)
(* next answer is half a turn of the numbers ahead of the last one: after  *)
(* that pingResponse takes it for a late one, and ignores it.              *)
THEOREM ClosePingsAreSound ==
  ASSUME PingAssumption
  PROVE  Spec /\ [](machine = "Ping" /\ ordered => Close) => []PingSound
<1> DEFINE Inv == machine = "Ping" => PingInv
           Kept == machine = "Ping" /\ ordered => Close
<1>1. Init => Inv
  BY PingInit, WindowInit, OrderInit DEF Init, PingInv
<1>2. Inv /\ Kept /\ [Next]_vars => Inv'
  <2>1. PingInv /\ (ordered => Close) /\ [G!Next]_(G!vars) => PingInv'
    BY WindowStep, OrderStep DEF PingInv
  <2> QED
    BY <2>1, PingMachine, PingNext
<1>3. Inv => PingSound
  BY WindowPercent, OrderTrue DEF PingSound, G!PingSound, PingInv
<1> QED
  BY <1>1, <1>2, <1>3, PTL DEF Spec

-----------------------------------------------------------------------------
(* Player slots.  What the daemon's counter can have reached, by where the *)
(* process of the slot is: who has had his turn since the last round has   *)
(* reset it, but for one who has just reached his client again.            *)
Fields == [p_status : L!Statuses, p_ghostbuster : 0 .. L!Busted, p_explode : Nat]

Watched(place, x) ==
  /\ place = "given" => x.p_ghostbuster = 0
  /\ place = "outfitLost" => x.p_status \in {"PDEAD", "PEXPLODE"} \/ x.p_ghostbuster = 0
  /\ place = "input" => x.p_ghostbuster <= 1
  /\ place = "inputLost" => x.p_ghostbuster = 0

SlotTypes ==
  /\ players \in [L!Slot -> Fields]
  /\ pc \in [Served -> L!Places] /\ me \in [Served -> L!Slot]
  /\ ran \subseteq Served /\ vacant \subseteq L!Slot

SlotInv ==
  /\ SlotTypes
  /\ hup = {}
  /\ L!SlotsSafe
  /\ \A s \in vacant : players[s].p_status = "PFREE" /\ players[s].p_ghostbuster = 0
  /\ \A p \in ran : Watched(pc[p], players[me[p]])
  /\ \A p \in Served : pc[p] = "inputLost" => players[me[p]].p_ghostbuster <= 1

(* Nothing happens but crashes and "control player n die".                 *)
Calm == L!SlotAssumption /\ Events \subseteq {"crash", "die"}

(* What a round does to the slot of one player.                            *)
LEMMA UdPlayerIs ==
  ASSUME Calm, NEW x \in Fields
  PROVE  /\ L!UdPlayer(x) \in Fields
         /\ L!UdPlayer(x).p_ghostbuster <= x.p_ghostbuster + 1
         /\ x.p_status = "PFREE" =>
              L!UdPlayer(x).p_status = "PFREE" /\ L!UdPlayer(x).p_ghostbuster = 0
         /\ x.p_status # "PFREE" /\ (x.p_status \in {"PDEAD", "PEXPLODE"} \/ x.p_ghostbuster <= 1)
              => L!UdPlayer(x).p_status # "PFREE"
<1> USE DEF Calm, L!SlotAssumption, Fields, L!Statuses, L!Busted
<1>1. CASE x.p_status = "PFREE"
  BY <1>1 DEF L!UdPlayer
<1> DEFINE y == L!Burnt(x)
<1>b. y \in Fields /\ y.p_status = x.p_status /\ y.p_ghostbuster = x.p_ghostbuster
  BY DEF L!Burnt
<1>2. CASE x.p_status = "PDEAD"
  <2>1. L!UdPlayer(x) \in {y, [y EXCEPT !.p_status = "POUTFIT"]}
    BY <1>2 DEF L!UdPlayer
  <2> HIDE DEF y
  <2>2. [y EXCEPT !.p_status = "POUTFIT"] \in Fields
        /\ [y EXCEPT !.p_status = "POUTFIT"].p_status = "POUTFIT"
        /\ [y EXCEPT !.p_status = "POUTFIT"].p_ghostbuster = x.p_ghostbuster
    BY <1>b
  <2>3. QED
    BY <2>1, <2>2, <1>2, <1>b
<1>3. CASE x.p_status = "PEXPLODE"
  <2> DEFINE z == [x EXCEPT !.p_status = "PDEAD", !.p_explode = DeadTime]
  <2>1. L!UdPlayer(x) \in {y, z}
    BY <1>3 DEF L!UdPlayer
  <2>2. z \in Fields /\ z.p_status = "PDEAD" /\ z.p_ghostbuster = x.p_ghostbuster
    OBVIOUS
  <2> HIDE DEF y, z
  <2>3. QED
    BY <2>1, <2>2, <1>3, <1>b
<1>4. CASE x.p_status \notin {"PFREE", "PDEAD", "PEXPLODE"}
  <2>1. L!UdPlayer(x) = L!Ghostbusted(x)
    BY <1>4 DEF L!UdPlayer
  <2>2. /\ L!Counted(x) \in Fields
        /\ L!Counted(x).p_ghostbuster <= x.p_ghostbuster + 1
        /\ L!Counted(x).p_status = x.p_status
    BY DEF L!Counted, L!Later
  <2>3. x.p_ghostbuster <= 1 => L!Counted(x).p_ghostbuster <= L!Limit(x)
    BY <2>2 DEF L!Limit
  <2>4. QED
    BY <1>4, <2>1, <2>2, <2>3 DEF L!Ghostbusted
<1>5. QED
  BY <1>1, <1>2, <1>3, <1>4

(* One turn of a process: it leaves and frees its slot, or keeps the slot, *)
(* with a counter that fits the loop it is in then.                        *)
LeavesSlot(p) ==
  /\ pc' = [pc EXCEPT ![p] = "ended"]
  /\ \E x \in Fields : /\ x.p_status = "PFREE"
                       /\ players' = [players EXCEPT ![me[p]] = x]
KeepsSlot(p) ==
  \E place \in L!Attached, x \in Fields :
    /\ pc' = [pc EXCEPT ![p] = place]
    /\ x.p_status # "PFREE" /\ Watched(place, x)
    /\ players' = [players EXCEPT ![me[p]] = x]

(* Who exits leaves his slot free.                                         *)
LEMMA ExitsLeaves ==
  ASSUME SlotTypes, NEW p \in Served, NEW x \in Fields, L!Exits(p, x)
  PROVE  LeavesSlot(p)
<1>1. L!Status(x, "PFREE") \in Fields /\ L!Status(x, "PFREE").p_status = "PFREE"
  BY DEF L!Status, Fields, L!Statuses
<1>2. QED
  BY <1>1 DEF L!Exits, L!SetSlot, L!Goes, LeavesSlot

(* Who stays, with a counter that fits where he is, keeps his slot.        *)
LEMMA StaysKeeps ==
  ASSUME NEW p \in Served, NEW x \in Fields, NEW place \in L!Attached, L!Stays(p, place, x),
         x.p_status # "PFREE", Watched(place, x)
  PROVE  KeepsSlot(p)
BY DEF L!Stays, L!SetSlot, L!Goes, KeepsSlot

(* Who tries to reach his client again keeps his slot.                     *)
LEMMA ReconnectsKeeps ==
  ASSUME NEW p \in Served, NEW x \in Fields, NEW place \in L!Attached,
         L!Reconnects(p, place, x), x.p_status # "PFREE", Watched(place, x)
  PROVE  KeepsSlot(p)
BY DEF L!Reconnects, L!SetSlot, L!Goes, KeepsSlot

(* Each try to reach the client ends the process or keeps the slot.        *)
LEMMA TriesKeeps ==
  ASSUME SlotTypes, NEW p \in Served, NEW x \in Fields, L!TriesAgain(p, x), pc[p] \in L!Attached,
         x.p_status # "PFREE", Watched(pc[p], x)
  PROVE  KeepsSlot(p)
<1>1. pc' = [pc EXCEPT ![p] = pc[p]]
  BY DEF L!TriesAgain, SlotTypes
<1>2. QED
  BY <1>1 DEF L!TriesAgain, L!SetSlot, KeepsSlot

(* What a lost client's process does to its slot, and what getEntry does.  *)
LEMMA RevivedIs ==
  ASSUME Calm, NEW x \in Fields
  PROVE  /\ L!Revived(x) \in Fields /\ L!Revived(x).p_status # "PFREE"
         /\ Watched("outfitLost", L!Revived(x))
<1>0. OUTFITTIME \in Nat /\ DeadTime \in Nat /\ 0 \in 0 .. L!Busted /\ "PDEAD" \in L!Statuses
  BY DEF Calm, L!SlotAssumption, L!Busted, L!Statuses
<1>1. CASE x.p_status = "PFREE"
  <2>1. L!Revived(x) = [x EXCEPT !.p_status = "PDEAD", !.p_explode = DeadTime]
    BY <1>1 DEF L!Revived
  <2>2. QED
    BY <2>1, <1>0 DEF Watched, Fields
<1>2. CASE x.p_status = "PDEAD"
  <2>1. L!Revived(x) = [x EXCEPT !.p_explode = DeadTime]
    BY <1>2 DEF L!Revived
  <2>2. QED
    BY <2>1, <1>2, <1>0 DEF Watched, Fields
<1>3. CASE x.p_status \in {"PALIVE", "POBSERVE"}
  <2>1. L!Revived(x) = [x EXCEPT !.p_ghostbuster = 0]
    BY <1>3 DEF L!Revived
  <2>2. QED
    BY <2>1, <1>3, <1>0 DEF Watched, Fields
<1>4. CASE x.p_status \notin {"PFREE", "PDEAD", "PALIVE", "POBSERVE"}
  <2>1. L!Revived(x) = [x EXCEPT !.p_explode = DeadTime, !.p_ghostbuster = 0]
    BY <1>4 DEF L!Revived
  <2>2. QED
    BY <2>1, <1>4, <1>0 DEF Watched, Fields
<1>5. QED
  BY <1>1, <1>2, <1>3, <1>4

(* What a process writes into its slot as it waits for its client.         *)
LEMMA WaitsIs ==
  ASSUME Calm, NEW x \in Fields, NEW y \in L!Waits(x)
  PROVE  y \in Fields /\ y.p_status # "PFREE" /\ Watched("outfit", y)
<1>0. /\ OUTFITTIME \in Nat /\ DeadTime \in Nat /\ 0 \in 0 .. L!Busted
      /\ {"PDEAD", "PTQUEUE", "POUTFIT"} \subseteq L!Statuses
  BY DEF Calm, L!SlotAssumption, L!Busted, L!Statuses
<1>1. \A st \in {"PTQUEUE", "POUTFIT"} : [x EXCEPT !.p_ghostbuster = 0, !.p_status = st] \in Fields
  BY <1>0 DEF Fields
<1>2. PICK z \in Fields :
        y = IF z.p_status = "PFREE" THEN [z EXCEPT !.p_status = "PDEAD", !.p_explode = DeadTime] ELSE z
  BY <1>1 DEF L!Waits
<1>3. /\ [z EXCEPT !.p_status = "PDEAD", !.p_explode = DeadTime] \in Fields
      /\ [z EXCEPT !.p_status = "PDEAD", !.p_explode = DeadTime].p_status = "PDEAD"
  BY <1>0 DEF Fields
<1>4. QED
  BY <1>2, <1>3 DEF Watched

(* What it writes as the player enters the game or observes.               *)
LEMMA EnteringIs ==
  ASSUME Calm, NEW x \in Fields, NEW st \in {"PALIVE", "POBSERVE"}
  PROVE  LET y == [x EXCEPT !.p_status = st, !.p_ghostbuster = 0]
         IN  y \in Fields /\ y.p_status # "PFREE" /\ Watched("input", y)
<1>0. OUTFITTIME \in Nat /\ 0 \in 0 .. L!Busted /\ st \in L!Statuses
  BY DEF Calm, L!SlotAssumption, L!Busted, L!Statuses
<1> DEFINE y == [x EXCEPT !.p_status = st, !.p_ghostbuster = 0]
<1>1. y \in Fields /\ y.p_status = st /\ y.p_ghostbuster = 0
  BY <1>0 DEF Fields
<1> HIDE DEF y
<1>2. y \in Fields /\ y.p_status # "PFREE" /\ Watched("input", y)
  BY <1>1 DEF Watched
<1>3. QED
  BY <1>2 DEF y

(* What it writes in an update: its counter is cleared.                    *)
LEMMA InterruptedIs ==
  ASSUME Calm, NEW x \in Fields, x.p_status # "PFREE", NEW y \in {x} \union L!Interrupted(x),
         NEW z \in L!Spared(y)
  PROVE  /\ z \in Fields /\ z.p_status # "PFREE" /\ z.p_ghostbuster = 0
<1>0. OUTFITTIME \in Nat /\ 0 \in 0 .. L!Busted /\ "POUTFIT" \in L!Statuses /\ "ping" \notin Events
  BY DEF Calm, L!SlotAssumption, L!Busted, L!Statuses
<1>1. y \in {x, L!Status(x, "POUTFIT")}
  BY DEF L!Interrupted
<1>2. y \in Fields /\ y.p_status # "PFREE"
  BY <1>0, <1>1 DEF L!Status, Fields
<1>3. z = [y EXCEPT !.p_ghostbuster = 0]
  BY <1>0 DEF L!Spared
<1>4. QED
  BY <1>0, <1>2, <1>3 DEF Fields

(* A turn of a process frees its slot and ends it, or keeps the slot with  *)
(* a counter that fits where the process is then.                          *)
LEMMA TurnEnds ==
  ASSUME Calm, SlotInv, NEW p \in Served, L!Turn(p)
  PROVE  LeavesSlot(p) \/ KeepsSlot(p)
<1> DEFINE x == players[me[p]]
<1>0. /\ x \in Fields /\ SlotTypes /\ pc[p] \in L!Attached
      /\ x.p_status # "PFREE"
  BY DEF SlotInv, SlotTypes, L!SlotsSafe, L!SlotKept, L!Turn, L!Attached, L!Holds
<1>a. L!Attached = {"login", "outfit", "outfitLost", "input", "inputLost"}
  BY DEF L!Attached
<1> HIDE DEF x
<1>1. CASE pc[p] = "login" /\ L!LoginTurn(p, x)
  <2>1. L!Status(x, "POUTFIT") \in Fields /\ L!Status(x, "POUTFIT").p_status # "PFREE"
    BY <1>0 DEF L!Status, Fields, L!Statuses
  <2>2. \A y : Watched("login", y) /\ Watched("outfit", y)
    BY DEF Watched
  <2>3. CASE L!Exits(p, x)
    BY <2>3, <1>0, ExitsLeaves
  <2>4. CASE L!Stays(p, "login", x)
    BY <2>4, <2>2, <1>0, <1>a, StaysKeeps
  <2>5. CASE L!Stays(p, "outfit", L!Status(x, "POUTFIT"))
    BY <2>5, <2>1, <2>2, <1>a, StaysKeeps
  <2>6. QED
    BY <1>1, <2>3, <2>4, <2>5 DEF L!LoginTurn
<1>2. CASE pc[p] = "outfit" /\ L!OutfitTurn(p, x)
  <2>1. CASE L!Exits(p, x)
    BY <2>1, <1>0, ExitsLeaves
  <2>2. CASE L!Stays(p, "outfitLost", L!Revived(x))
    BY <2>2, <1>0, <1>a, RevivedIs, StaysKeeps
  <2>3. CASE \E y \in L!Waits(x) : L!Stays(p, "outfit", y)
    BY <2>3, <1>0, <1>a, WaitsIs, StaysKeeps
  <2>4. ASSUME NEW st \in {"PALIVE", "POBSERVE"},
               L!Stays(p, "input", [x EXCEPT !.p_status = st, !.p_ghostbuster = 0])
        PROVE  KeepsSlot(p)
    <3>1. /\ [x EXCEPT !.p_status = st, !.p_ghostbuster = 0] \in Fields
          /\ [x EXCEPT !.p_status = st, !.p_ghostbuster = 0].p_status # "PFREE"
          /\ Watched("input", [x EXCEPT !.p_status = st, !.p_ghostbuster = 0])
      BY <1>0, EnteringIs
    <3>2. QED
      BY <3>1, <2>4, <1>a, StaysKeeps
  <2>5. QED
    BY <1>2, <2>1, <2>2, <2>3, <2>4 DEF L!OutfitTurn
<1>3. CASE pc[p] = "outfitLost" /\ L!OutfitLostTurn(p, x)
  <2>1. CASE \E y \in L!Waits(x) : L!Reconnects(p, "outfit", y)
    BY <2>1, <1>0, <1>a, WaitsIs, ReconnectsKeeps
  <2>2. CASE L!TriesAgain(p, L!Revived(x))
    BY <2>2, <1>3, <1>0, RevivedIs, TriesKeeps
  <2>3. CASE L!Exits(p, L!GivenUp(x))
    <3>1. L!GivenUp(x) \in Fields
      BY <1>0 DEF Calm, L!SlotAssumption, L!GivenUp, Fields, L!Busted
    <3>2. QED
      BY <3>1, <2>3, <1>0, ExitsLeaves
  <2>4. QED
    BY <1>3, <2>1, <2>2, <2>3 DEF L!OutfitLostTurn
<1>4. CASE pc[p] = "input" /\ L!InputTurn(p, x)
  <2>0. PICK y \in {x} \union L!Interrupted(x) : \E z \in L!Spared(y) :
            \/ L!Exits(p, z)
            \/ L!Stays(p, "outfit", z)
            \/ L!Stays(p, "input", z)
            \/ L!Stays(p, "inputLost", [z EXCEPT !.p_ghostbuster = 0])
    BY <1>4 DEF L!InputTurn
  <2>1. PICK z \in L!Spared(y) :
            \/ L!Exits(p, z)
            \/ L!Stays(p, "outfit", z)
            \/ L!Stays(p, "input", z)
            \/ L!Stays(p, "inputLost", [z EXCEPT !.p_ghostbuster = 0])
    BY <2>0
  <2>2. z \in Fields /\ z.p_status # "PFREE" /\ z.p_ghostbuster = 0
    BY <1>0, InterruptedIs
  <2>3. [z EXCEPT !.p_ghostbuster = 0] = z
    BY <2>2 DEF Fields
  <2>4. Watched("outfit", z) /\ Watched("input", z) /\ Watched("inputLost", z)
    BY <2>2 DEF Watched
  <2>5. QED
    BY <2>1, <2>2, <2>3, <2>4, <1>0, <1>a, ExitsLeaves, StaysKeeps
<1>5. CASE pc[p] = "inputLost" /\ L!InputLostTurn(p, x)
  <2>1. CASE L!Reconnects(p, "input", x)
    <3>1. Watched("input", x)
      BY <1>5 DEF Watched, SlotInv, x
    <3>2. QED
      BY <3>1, <2>1, <1>0, <1>a, ReconnectsKeeps
  <2>2. CASE L!TriesAgain(p, [x EXCEPT !.p_ghostbuster = 0])
    <3>1. /\ [x EXCEPT !.p_ghostbuster = 0] \in Fields
          /\ [x EXCEPT !.p_ghostbuster = 0].p_status # "PFREE"
          /\ Watched("inputLost", [x EXCEPT !.p_ghostbuster = 0])
      BY <1>0 DEF Calm, L!SlotAssumption, Fields, L!Busted, Watched
    <3>2. QED
      BY <3>1, <2>2, <1>5, <1>0, TriesKeeps
  <2>3. CASE L!Exits(p, x)
    BY <2>3, <1>0, ExitsLeaves
  <2>4. QED
    BY <1>5, <2>1, <2>2, <2>3 DEF L!InputLostTurn
<1>6. QED
  BY <1>1, <1>2, <1>3, <1>4, <1>5 DEF L!Turn, x

(* At first every slot is free and nobody has one.                         *)
LEMMA SlotInit == Calm /\ L!Init => SlotInv
BY DEF Calm, L!SlotAssumption, L!Init, SlotInv, SlotTypes, Fields, L!Statuses, L!Busted, L!Places,
       L!SlotsSafe, L!OnePlayerPerSlot, L!SlotKept, L!Holds, L!Attached, L!Slot

(* A process that does not hold a slot is not watched.                     *)
LEMMA WatchedHolds ==
  \A q \in Served : \A x : ~L!Holds(q) => Watched(pc[q], x)
BY DEF L!Holds, L!Attached, Watched

(* One slot in use changes its status, to one in use, and its counter does *)
(* not.                                                                    *)
LEMMA StatusChanges ==
  ASSUME SlotInv, NEW s \in L!Slot, NEW x \in Fields,
         players[s].p_status # "PFREE", x.p_status # "PFREE",
         x.p_ghostbuster = players[s].p_ghostbuster,
         \A q \in ran : me[q] = s /\ pc[q] = "outfitLost" => x.p_status = "PEXPLODE",
         players' = [players EXCEPT ![s] = x],
         UNCHANGED <<pc, me, ran, hup, vacant>>
  PROVE  SlotInv'
<1>1. SlotTypes'
  BY DEF SlotInv, SlotTypes
<1>2. L!SlotsSafe'
  BY DEF SlotInv, SlotTypes, L!SlotsSafe, L!OnePlayerPerSlot, L!SlotKept, L!Holds
<1>3. \A r \in L!Slot : players'[r].p_ghostbuster = players[r].p_ghostbuster
  BY DEF SlotInv, SlotTypes
<1>4. \A r \in vacant' : players'[r].p_status = "PFREE" /\ players'[r].p_ghostbuster = 0
  BY DEF SlotInv, SlotTypes
<1>5. \A q \in ran' : Watched(pc'[q], players'[me'[q]])
  BY <1>3 DEF SlotInv, SlotTypes, Watched
<1>6. \A q \in Served : pc'[q] = "inputLost" => players'[me'[q]].p_ghostbuster <= 1
  BY <1>3 DEF SlotInv, SlotTypes
<1>7. QED
  BY <1>1, <1>2, <1>4, <1>5, <1>6 DEF SlotInv

(* A process that frees its slot and ends keeps the invariant.             *)
LEMMA LeavesStep ==
  ASSUME SlotInv, NEW p \in Served, L!Holds(p), LeavesSlot(p),
         ran' \in {ran, ran \union {p}}, UNCHANGED <<me, hup, vacant>>
  PROVE  SlotInv'
<1>1. PICK x \in Fields : x.p_status = "PFREE" /\ players' = [players EXCEPT ![me[p]] = x]
  BY DEF LeavesSlot
<1>2. pc' = [pc EXCEPT ![p] = "ended"] /\ "ended" \in L!Places
  BY DEF LeavesSlot, L!Places
<1>3. SlotTypes'
  BY <1>1, <1>2 DEF SlotInv, SlotTypes
<1>4. \A q \in Served : L!Holds(q)' => /\ q # p /\ L!Holds(q)
                                       /\ me[q] # me[p] /\ players'[me'[q]] = players[me[q]]
  BY <1>1, <1>2 DEF SlotInv, SlotTypes, L!SlotsSafe, L!OnePlayerPerSlot, L!Holds, L!Attached
<1>5. L!SlotsSafe'
  BY <1>4 DEF SlotInv, SlotTypes, L!SlotsSafe, L!OnePlayerPerSlot, L!SlotKept
<1>6. \A r \in vacant' : players'[r].p_status = "PFREE" /\ players'[r].p_ghostbuster = 0
  BY <1>1 DEF SlotInv, SlotTypes, L!SlotsSafe, L!SlotKept
<1>7. \A q \in ran' : Watched(pc'[q], players'[me'[q]])
  <2> TAKE q \in ran'
  <2>1. q \in Served
    BY DEF SlotInv, SlotTypes
  <2>2. CASE L!Holds(q)'
    BY <2>1, <2>2, <1>2, <1>4 DEF SlotInv, SlotTypes
  <2>3. CASE ~L!Holds(q)'
    BY <2>1, <2>3 DEF L!Holds, L!Attached, Watched
  <2>4. QED
    BY <2>2, <2>3
<1>8. \A q \in Served : pc'[q] = "inputLost" => players'[me'[q]].p_ghostbuster <= 1
  BY <1>2, <1>4 DEF SlotInv, SlotTypes, L!Holds, L!Attached
<1>9. QED
  BY <1>3, <1>5, <1>6, <1>7, <1>8 DEF SlotInv

(* So does one that keeps its slot.                                        *)
LEMMA KeepsStep ==
  ASSUME SlotInv, NEW p \in Served, L!Holds(p), KeepsSlot(p), ran' = ran \union {p},
         UNCHANGED <<me, hup, vacant>>
  PROVE  SlotInv'
<1>1. PICK place \in L!Attached, x \in Fields :
        /\ pc' = [pc EXCEPT ![p] = place]
        /\ x.p_status # "PFREE" /\ Watched(place, x)
        /\ players' = [players EXCEPT ![me[p]] = x]
  BY DEF KeepsSlot
<1>2. place \in L!Places
  BY DEF L!Places
<1>3. SlotTypes'
  BY <1>1, <1>2 DEF SlotInv, SlotTypes
<1>4. \A q \in Served : q # p /\ L!Holds(q)' =>
                          L!Holds(q) /\ me[q] # me[p] /\ players'[me'[q]] = players[me[q]]
  BY <1>1 DEF SlotInv, SlotTypes, L!SlotsSafe, L!OnePlayerPerSlot, L!Holds
<1>5. players'[me'[p]] = x /\ pc'[p] = place
  BY <1>1 DEF SlotInv, SlotTypes
<1>6. L!SlotsSafe'
  BY <1>1, <1>4, <1>5 DEF SlotInv, SlotTypes, L!SlotsSafe, L!OnePlayerPerSlot, L!SlotKept
<1>7. \A r \in vacant' : players'[r].p_status = "PFREE" /\ players'[r].p_ghostbuster = 0
  BY <1>1 DEF SlotInv, SlotTypes, L!SlotsSafe, L!SlotKept
<1>8. \A q \in ran' : Watched(pc'[q], players'[me'[q]])
  <2> TAKE q \in ran'
  <2>1. q \in Served
    BY DEF SlotInv, SlotTypes
  <2>2. CASE q # p /\ L!Holds(q)'
    BY <2>1, <2>2, <1>1, <1>4 DEF SlotInv, SlotTypes
  <2>3. CASE ~L!Holds(q)'
    BY <2>1, <2>3 DEF L!Holds, L!Attached, Watched
  <2>4. CASE q = p
    BY <2>4, <1>1, <1>5
  <2>5. QED
    BY <2>2, <2>3, <2>4
<1>9. \A q \in Served : pc'[q] = "inputLost" => players'[me'[q]].p_ghostbuster <= 1
  <2> SUFFICES ASSUME NEW q \in Served, pc'[q] = "inputLost"
               PROVE  players'[me'[q]].p_ghostbuster <= 1
    OBVIOUS
  <2>1. CASE q = p
    BY <2>1, <1>1, <1>5 DEF Watched
  <2>2. CASE q # p
    BY <2>2, <1>1, <1>4 DEF SlotInv, SlotTypes, L!Holds, L!Attached
  <2>3. QED
    BY <2>1, <2>2
<1>10. QED
  BY <1>3, <1>6, <1>7, <1>8, <1>9 DEF SlotInv

(* What a round does to all slots: nobody who looks after his slot, or has *)
(* just taken it, loses it.                                                *)
LEMMA RoundIs ==
  ASSUME Calm, SlotInv, L!Round
  PROVE  /\ players' \in [L!Slot -> Fields]
         /\ \A s \in L!Slot :
              /\ players'[s].p_ghostbuster <= players[s].p_ghostbuster + 1
              /\ players[s].p_status = "PFREE" =>
                   players'[s].p_status = "PFREE" /\ players'[s].p_ghostbuster = 0
         /\ \A p \in Served : L!Holds(p) => players'[me[p]].p_status # "PFREE"
<1>1. PICK X \in SUBSET {s \in L!Slot : league /\ L!UdPlayer(players[s]).p_status = "POBSERVE"} :
        players' = L!LetIn([s \in L!Slot |-> L!UdPlayer(players[s])], X)
  BY DEF L!Round
<1>2. ASSUME NEW s \in L!Slot
      PROVE  /\ players'[s] \in Fields
             /\ players'[s].p_ghostbuster <= players[s].p_ghostbuster + 1
             /\ players[s].p_status = "PFREE" =>
                  players'[s].p_status = "PFREE" /\ players'[s].p_ghostbuster = 0
             /\ L!UdPlayer(players[s]).p_status # "PFREE" => players'[s].p_status # "PFREE"
  <2> DEFINE y == L!UdPlayer(players[s])
  <2>1. /\ players[s] \in Fields /\ y \in Fields
        /\ y.p_ghostbuster <= players[s].p_ghostbuster + 1
        /\ players[s].p_status = "PFREE" => y.p_status = "PFREE" /\ y.p_ghostbuster = 0
    BY UdPlayerIs DEF SlotInv, SlotTypes
  <2>2. CASE s \in X
    <3>1. players'[s] = [y EXCEPT !.p_status = "POUTFIT"] /\ y.p_status = "POBSERVE"
      BY <1>1, <2>2 DEF L!LetIn
    <3> HIDE DEF y
    <3>2. players'[s] \in Fields /\ players'[s].p_status = "POUTFIT"
          /\ players'[s].p_ghostbuster = y.p_ghostbuster
      BY <2>1, <3>1 DEF Fields, L!Statuses
    <3>3. QED
      BY <2>1, <3>1, <3>2
  <2>3. CASE s \notin X
    <3>1. players'[s] = y
      BY <1>1, <2>3 DEF L!LetIn
    <3>2. QED
      BY <3>1, <2>1
  <2>4. QED
    BY <2>2, <2>3
<1>3. players' = [s \in L!Slot |-> players'[s]]
  BY <1>1 DEF L!LetIn
<1>4. ASSUME NEW p \in Served, L!Holds(p)
      PROVE  players'[me[p]].p_status # "PFREE"
  <2> DEFINE x == players[me[p]]
  <2>1. me[p] \in L!Slot /\ x \in Fields /\ x.p_status # "PFREE"
    BY <1>4 DEF SlotInv, SlotTypes, L!SlotsSafe, L!SlotKept
  <2>2. L!UdPlayer(x).p_status # "PFREE"
    <3>1. CASE L!Choosing(p)
      BY <3>1 DEF L!Round, L!InTime
    <3>2. CASE ~L!Choosing(p)
      <4>1. pc[p] \in {"given", "outfitLost", "input", "inputLost"} /\ p \in ran
        BY <3>2, <1>4 DEF L!Choosing, L!Holds, L!Attached, L!Round, Calm
      <4>2. Watched(pc[p], x)
        BY <4>1 DEF SlotInv
      <4>3. x.p_status \in {"PDEAD", "PEXPLODE"} \/ x.p_ghostbuster <= 1
        BY <4>1, <4>2 DEF Watched
      <4> HIDE DEF x
      <4>4. QED
        BY <4>3, <2>1, UdPlayerIs
    <3>3. QED
      BY <3>1, <3>2
  <2>3. QED
    BY <2>1, <2>2, <1>2
<1>5. QED
  BY <1>2, <1>3, <1>4

(* So does every step: the daemon's round, the turns, crashes, and the way *)
(* to a slot.                                                              *)
LEMMA SlotStep == Calm /\ SlotInv /\ [L!Next]_(L!vars) => SlotInv'
<1> SUFFICES ASSUME Calm, SlotInv, [L!Next]_(L!vars) PROVE SlotInv'
  OBVIOUS
<1>1. CASE L!Round
  <2>1. SlotTypes'
    BY <1>1, RoundIs DEF SlotInv, SlotTypes, L!Round
  <2>2. L!SlotsSafe'
    BY <1>1, RoundIs DEF SlotInv, L!SlotsSafe, L!OnePlayerPerSlot, L!SlotKept, L!Round, L!Holds
  <2>3. \A s \in vacant' : players'[s].p_status = "PFREE" /\ players'[s].p_ghostbuster = 0
    BY <1>1, RoundIs DEF L!Round
  <2>4. ran' = {} /\ hup' = {}
    BY <1>1 DEF L!Round, SlotInv
  <2>5. \A p \in Served : pc'[p] = "inputLost" => players'[me'[p]].p_ghostbuster <= 1
    <3> SUFFICES ASSUME NEW p \in Served, pc'[p] = "inputLost"
                 PROVE  players'[me'[p]].p_ghostbuster <= 1
      OBVIOUS
    <3>1. pc[p] = "inputLost" /\ me' = me /\ p \in ran
      BY <1>1 DEF L!Round, L!Attached
    <3>2. players[me[p]].p_ghostbuster = 0 /\ me[p] \in L!Slot
      BY <3>1 DEF SlotInv, SlotTypes, Watched
    <3>3. QED
      BY <1>1, <3>1, <3>2, RoundIs
  <2>6. QED
    BY <2>1, <2>2, <2>3, <2>4, <2>5 DEF SlotInv
<1>2. ASSUME NEW p \in Served, L!FindSlot(p)
      PROVE  SlotInv'
  <2>1. PICK s \in L!Slot :
          /\ players[s].p_status = "PFREE" /\ s \in vacant
          /\ vacant' = vacant \ {s}
          /\ players' = [players EXCEPT ![s].p_status = "POUTFIT"]
          /\ me' = [me EXCEPT ![p] = s]
    BY <1>2 DEF L!FindSlot, Calm
  <2>2. /\ pc' = [pc EXCEPT ![p] = "given"] /\ "given" \in L!Places /\ ran' = ran \union {p}
        /\ hup' = hup /\ pc[p] = "outside"
    BY <1>2 DEF L!FindSlot, L!Goes, L!Places
  <2>3. players[s] \in Fields /\ players[s].p_ghostbuster = 0
    BY <2>1 DEF SlotInv, SlotTypes
  <2>4. /\ players'[s] \in Fields /\ players'[s].p_status = "POUTFIT"
        /\ players'[s].p_ghostbuster = 0
    BY <2>1, <2>3 DEF SlotInv, SlotTypes, Fields, L!Statuses
  <2>5. \A r \in L!Slot : r # s => players'[r] = players[r]
    BY <2>1 DEF SlotInv, SlotTypes
  <2>6. SlotTypes'
    <3>1. players' \in [L!Slot -> Fields]
      BY <2>1, <2>4, <2>5 DEF SlotInv, SlotTypes
    <3>2. QED
      BY <3>1, <2>1, <2>2 DEF SlotInv, SlotTypes
  <2>7. \A q \in Served : q # p => /\ pc'[q] = pc[q] /\ me'[q] = me[q] /\ (L!Holds(q)' <=> L!Holds(q))
                                   /\ L!Holds(q) => me[q] # s /\ players'[me[q]] = players[me[q]]
    BY <2>1, <2>2, <2>5 DEF SlotInv, SlotTypes, L!SlotsSafe, L!SlotKept, L!Holds
  <2>8. me'[p] = s /\ pc'[p] = "given"
    BY <2>1, <2>2 DEF SlotInv, SlotTypes
  <2>9. L!SlotsSafe'
    BY <2>4, <2>7, <2>8 DEF SlotInv, SlotTypes, L!SlotsSafe, L!OnePlayerPerSlot, L!SlotKept
  <2>10. \A r \in vacant' : players'[r].p_status = "PFREE" /\ players'[r].p_ghostbuster = 0
    BY <2>1, <2>5 DEF SlotInv, SlotTypes
  <2>11. \A q \in ran' : Watched(pc'[q], players'[me'[q]])
    <3> TAKE q \in ran'
    <3>1. q \in Served
      BY <2>2 DEF SlotInv, SlotTypes
    <3>2. CASE q = p
      BY <3>2, <2>4, <2>8 DEF Watched
    <3>3. CASE q # p /\ L!Holds(q)
      BY <3>1, <3>3, <2>2, <2>7 DEF SlotInv
    <3>4. CASE q # p /\ ~L!Holds(q)
      BY <3>1, <3>4, <2>7 DEF L!Holds, L!Attached, Watched
    <3>5. QED
      BY <3>2, <3>3, <3>4
  <2>12. \A q \in Served : pc'[q] = "inputLost" => players'[me'[q]].p_ghostbuster <= 1
    BY <2>7, <2>8 DEF SlotInv, L!Holds, L!Attached
  <2>13. QED
    BY <2>2, <2>6, <2>9, <2>10, <2>11, <2>12 DEF SlotInv
<1>3. ASSUME NEW p \in Served, L!Attach(p)
      PROVE  SlotInv'
  <2>1. /\ pc[p] = "given" /\ pc' = [pc EXCEPT ![p] = "login"] /\ ran' = ran \union {p}
        /\ UNCHANGED <<players, me, hup, vacant>> /\ "login" \in L!Places
    BY <1>3 DEF L!Attach, L!Goes, L!Places, L!Attached
  <2>2. SlotTypes'
    BY <2>1 DEF SlotInv, SlotTypes
  <2>3. \A q \in Served : L!Holds(q)' <=> L!Holds(q)
    BY <2>1 DEF SlotInv, SlotTypes, L!Holds, L!Attached
  <2>4. L!SlotsSafe'
    BY <2>1, <2>3 DEF SlotInv, L!SlotsSafe, L!OnePlayerPerSlot, L!SlotKept
  <2>5. \A q \in ran' : Watched(pc'[q], players'[me'[q]])
    BY <2>1 DEF SlotInv, SlotTypes, Watched
  <2>6. QED
    BY <2>1, <2>2, <2>4, <2>5 DEF SlotInv, SlotTypes
<1>4. ASSUME NEW p \in Served, L!Turn(p)
      PROVE  SlotInv'
  <2>1. LeavesSlot(p) \/ KeepsSlot(p)
    BY <1>4, TurnEnds
  <2>2. L!Holds(p) /\ ran' = ran \union {p} /\ UNCHANGED <<me, hup, vacant>>
    BY <1>4 DEF L!Turn, L!Holds, L!Attached
  <2>3. QED
    BY <2>1, <2>2, LeavesStep, KeepsStep
<1>5. ASSUME NEW p \in Served, L!HangUp(p)
      PROVE  SlotInv'
  BY <1>5 DEF L!HangUp, SlotInv, SlotTypes, L!SlotsSafe, L!OnePlayerPerSlot, L!SlotKept, L!Holds
<1>6. ASSUME NEW p \in Served, L!Crash(p)
      PROVE  SlotInv'
  <2>1. /\ pc' = [pc EXCEPT ![p] = "ended"] /\ UNCHANGED <<players, me, ran, hup, vacant>>
        /\ "ended" \in L!Places
    BY <1>6 DEF L!Crash, L!Goes, L!Places
  <2>2. SlotTypes'
    BY <2>1 DEF SlotInv, SlotTypes
  <2>3. \A q \in Served : L!Holds(q)' => L!Holds(q)
    BY <2>1 DEF SlotInv, SlotTypes, L!Holds, L!Attached
  <2>4. L!SlotsSafe'
    BY <2>1, <2>3 DEF SlotInv, L!SlotsSafe, L!OnePlayerPerSlot, L!SlotKept
  <2>5. \A q \in ran' : Watched(pc'[q], players'[me'[q]])
    BY <2>1 DEF SlotInv, SlotTypes, Watched
  <2>6. QED
    BY <2>1, <2>2, <2>4, <2>5 DEF SlotInv, SlotTypes
<1>7. ASSUME NEW p \in Served, L!Command(p)
      PROVE  SlotInv'
  <2> DEFINE s == me[p]
             x == players[s]
  <2>1. PICK st \in {"POBSERVE", "POUTFIT", "PTQUEUE"} :
          /\ x.p_status # "PFREE" /\ players' = [players EXCEPT ![s] = L!Status(x, st)]
          /\ UNCHANGED <<pc, me, ran, hup, vacant>>
    BY <1>7 DEF L!Command, L!Becomes
  <2>2. s \in L!Slot /\ x \in Fields /\ pc[p] \in {"outfit", "input"} /\ L!Holds(p)
    BY <1>7 DEF L!Command, SlotInv, SlotTypes, L!Holds, L!Attached
  <2> HIDE DEF x
  <2>3. /\ L!Status(x, st) \in Fields /\ L!Status(x, st).p_status = st
        /\ L!Status(x, st).p_ghostbuster = x.p_ghostbuster
    BY <2>2 DEF Fields, L!Status, L!Statuses
  <2>4. \A q \in ran : me[q] = s => pc[q] # "outfitLost"
    BY <2>2 DEF SlotInv, SlotTypes, L!SlotsSafe, L!OnePlayerPerSlot, L!Holds, L!Attached
  <2>5. QED
    BY <2>1, <2>2, <2>3, <2>4, StatusChanges DEF x
<1>8. ASSUME NEW s \in L!Slot, L!Explode(s)
      PROVE  SlotInv'
  <2> DEFINE x == players[s]
             y == [x EXCEPT !.p_status = "PEXPLODE", !.p_explode = 1]
  <2>1. /\ x.p_status # "PFREE" /\ players' = [players EXCEPT ![s] = y]
        /\ UNCHANGED <<pc, me, ran, hup, vacant>>
    BY <1>8 DEF L!Explode, L!Becomes
  <2>2. x \in Fields
    BY DEF SlotInv, SlotTypes
  <2> HIDE DEF x
  <2>3. y \in Fields /\ y.p_status = "PEXPLODE" /\ y.p_ghostbuster = x.p_ghostbuster
    BY <2>2 DEF Fields, L!Statuses
  <2> HIDE DEF y
  <2>4. QED
    BY <2>1, <2>3, StatusChanges DEF x
<1>9. CASE UNCHANGED L!vars
  BY <1>9 DEF L!vars, SlotInv, SlotTypes, L!SlotsSafe, L!OnePlayerPerSlot, L!SlotKept, L!Holds
<1>10. /\ \A p \in Served : ~L!Hup(p)
       /\ \A s \in L!Slot : ~L!FreeSlot(s)
       /\ ~L!EndgameEffects
  BY DEF L!Hup, L!FreeSlot, L!EndgameEffects, SlotInv, Calm
<1>11. QED
  BY <1>1, <1>2, <1>3, <1>4, <1>5, <1>6, <1>7, <1>8, <1>9, <1>10 DEF L!Next

(* A round of the daemon spares the slots that have just been taken.       *)
LEMMA NewcomersKept == Calm /\ SlotInv => L!NewcomersSpared
BY RoundIs DEF L!NewcomersSpared, L!Holds, SlotInv, SlotTypes

(* The steps of the history while it is about slots.                       *)
LEMMA SlotNext ==
  machine = "SlotLife" /\ [Next]_vars => machine' = "SlotLife" /\ [L!Next]_(L!vars)
BY DEF Next, vars, Ends, slot, L!vars

(* No two processes have the same slot; while a process looks after its    *)
(* slot, or tries to reach its client again, the ghostbuster does not give *)
(* the slot away; and a slot that has just been taken is not freed at once *)
(* (findslot.c, redraw.c, daemon/player.c: udplayers): for any number of   *)
(* slots and processes and any times, whoever crashes or is killed by the  *)
(* administrator.                                                          *)
THEOREM SlotsAreSafe ==
  ASSUME Calm
  PROVE  Spec => SlotsSafe
<1> DEFINE Inv == machine = "SlotLife" => SlotInv
<1>1. Init => Inv
  BY SlotInit DEF Init
<1>2. Inv /\ [Next]_vars => Inv'
  <2>1. [Next]_vars => machine' = machine
    BY DEF Next, vars, Ends
  <2>2. QED
    BY <2>1, SlotNext, SlotStep
<1>3. Inv /\ [Next]_vars => [machine = "SlotLife" => L!SlotsSafe' /\ L!NewcomersSpared]_vars
  BY <1>2, SlotNext, NewcomersKept DEF SlotInv
<1>4. QED
  BY <1>1, <1>2, <1>3, PTL DEF Spec, SlotsSafe

-----------------------------------------------------------------------------
(***************************************************************************)
(* Start-up.  While no two of its windows overlap (Overlaps = {}) the game *)
(* never has two daemons at all: a process forks one only when there is    *)
(* neither a segment nor a daemon on its way, and a restart kills the one  *)
(* that rules the segment (nukegame) before it forks another.  All else    *)
(* follows from where that one daemon is.                                  *)
(***************************************************************************)
StartAssumption ==
  /\ MaxSegs \in Nat
  /\ MaxDaemons \in Nat
  /\ NoOne \notin Ntserv
  /\ Overlaps = {}

(* A daemon that has not gone.  A process that is attached to a segment,   *)
(* and one that has a slot in it.                                          *)
Live(d) == daemons[d].at # "gone"
Attached == {"found", "outfit", "chosen", "alive"}
Seated == {"outfit", "chosen", "alive"}

StartTypes == U!TypeOK /\ shmkey \in 0 .. Len(segs)

OneDaemon ==
  /\ \A d, e \in DOMAIN daemons : Live(d) /\ Live(e) => d = e
  /\ shmkey # 0 => \E d \in DOMAIN daemons : Live(d)

(* What daemon d knows of the segment at the key, wherever it is.          *)
Serves(d) ==
  /\ daemons[d].at = "forked" =>
       IF daemons[d].attach THEN shmkey # 0 /\ segs[shmkey].shmem_size ELSE shmkey = 0
  /\ daemons[d].at \in {"created", "marked"} =>
       /\ ~daemons[d].attach
       /\ \A p \in Ntserv : nt[p].at \in Attached => nt[p].seg # shmkey
  /\ daemons[d].at = "attached" => daemons[d].attach
  /\ daemons[d].at \notin {"forked", "gone"} => shmkey # 0 /\ daemons[d].seg = shmkey
  /\ daemons[d].at \in {"running", "closing"} => segs[shmkey].nukegame = d
  /\ daemons[d].at = "closing" => ~segs[shmkey].gameup

(* Processes are attached to segments that were marked, and only the game  *)
(* at the key can be up.                                                   *)
AttachedRight ==
  /\ \A p \in Ntserv : nt[p].at \in Attached =>
       nt[p].seg \in DOMAIN segs /\ segs[nt[p].seg].shmem_size
  /\ \A g \in DOMAIN segs : segs[g].gameup => g = shmkey

StartInv ==
  /\ StartTypes
  /\ OneDaemon
  /\ \A d \in DOMAIN daemons : Serves(d)
  /\ AttachedRight
  /\ U!SlotsKept

(* The types, spelt out.                                                   *)
LEMMA StartTypeFacts ==
  ASSUME StartTypes, StartAssumption
  PROVE  /\ daemons \in Seq(U!Daemon) /\ Len(daemons) \in Nat /\ DOMAIN daemons = 1 .. Len(daemons)
         /\ segs \in Seq(U!Seg) /\ Len(segs) \in Nat /\ DOMAIN segs = 1 .. Len(segs)
         /\ shmkey \in Nat /\ (shmkey # 0 => shmkey \in DOMAIN segs)
         /\ \A d \in DOMAIN daemons : daemons[d] \in U!Daemon
         /\ \A g \in DOMAIN segs : segs[g] \in U!Seg
         /\ nt \in [Ntserv -> U!Process]
         /\ 0 \in U!SegIds /\ DOMAIN segs \subseteq U!SegIds
BY DEF StartTypes, StartAssumption, U!TypeOK, U!SegIds

(* A step of processes only: each stays where it is attached, gives that   *)
(* up, or attaches to the marked segment at the key while no daemon is on  *)
(* its way.                                                                *)
LEMMA ProcessesStep ==
  ASSUME StartAssumption, StartInv, UNCHANGED <<shmkey, segs, daemons>>,
         nt' \in [Ntserv -> U!Process],
         \A p \in Ntserv :
           \/ nt'[p].at \notin Attached
           \/ /\ nt'[p].at \in Attached /\ nt[p].at \in Attached /\ nt'[p].seg = nt[p].seg
              /\ nt'[p].at \in Seated => nt[p].at \in Seated
           \/ /\ nt'[p].at = "found" /\ nt'[p].seg = shmkey
              /\ shmkey # 0 /\ segs[shmkey].shmem_size /\ U!Coming = {}
  PROVE  StartInv'
<1> USE DEF Attached, Seated
<1>1. StartTypes'
  BY DEF StartInv, StartTypes, U!TypeOK
<1>2. OneDaemon'
  BY DEF StartInv, OneDaemon, Live
<1>3. ASSUME NEW d \in DOMAIN daemons
      PROVE  Serves(d)'
  <2>1. Serves(d)
    BY DEF StartInv
  <2>2. daemons[d].at \in {"created", "marked"} => U!Coming # {}
    BY DEF U!Coming
  <2>3. daemons[d].at \in {"created", "marked"} =>
          \A p \in Ntserv : nt'[p].at \in Attached => nt'[p].seg # shmkey
    BY <2>1, <2>2 DEF Serves
  <2> QED
    BY <2>1, <2>3 DEF Serves
<1>4. AttachedRight'
  <2>1. AttachedRight /\ (shmkey # 0 => shmkey \in DOMAIN segs)
    BY StartTypeFacts DEF StartInv
  <2> QED
    BY <2>1 DEF AttachedRight
<1>5. U!SlotsKept'
  <2>1. U!SlotsKept
    BY DEF StartInv
  <2> QED
    BY <2>1 DEF U!SlotsKept
<1> QED
  BY <1>1, <1>2, <1>3, <1>4, <1>5 DEF StartInv

(* The processes' own steps that touch neither slots nor daemons.          *)
LEMMA ConnectStep ==
  ASSUME StartAssumption, StartInv, NEW p \in Ntserv,
         \/ U!Connect(p) \/ U!Wakes(p) \/ U!Choose(p) \/ U!Enter(p)
         \/ U!OpenGame(p) /\ UNCHANGED daemons
  PROVE  StartInv'
<1> USE DEF Attached, Seated
<1>1. nt \in [Ntserv -> U!Process] /\ shmkey \in U!SegIds /\ 0 \in U!SegIds
  BY StartTypeFacts DEF StartInv, StartTypes, U!TypeOK
<1>2. nt[p] \in U!Process /\ nt[p].seg \in U!SegIds
  BY <1>1 DEF U!Process
<1>3. UNCHANGED <<shmkey, segs, daemons>>
  BY DEF U!Connect, U!Wakes, U!Choose, U!Enter, U!OpenGame
<1>4. \E r \in U!Process :
        /\ nt' = [nt EXCEPT ![p] = r]
        /\ \/ r.at \notin Attached
           \/ /\ r.at \in Attached /\ nt[p].at \in Attached /\ r.seg = nt[p].seg
              /\ r.at \in Seated => nt[p].at \in Seated
           \/ /\ r.at = "found" /\ r.seg = shmkey
              /\ shmkey # 0 /\ segs[shmkey].shmem_size /\ U!Coming = {}
  <2>1. CASE U!Connect(p)
    <3>1. nt' = [nt EXCEPT ![p] = [nt[p] EXCEPT !.at = "started"]]
      BY <2>1 DEF U!Connect
    <3>2. [nt[p] EXCEPT !.at = "started"] \in U!Process /\ [nt[p] EXCEPT !.at = "started"].at = "started"
      BY <1>2 DEF U!Process
    <3> QED
      BY <3>1, <3>2
  <2>2. CASE U!Choose(p) \/ U!Enter(p)
    <3>1. PICK a \in Seated : nt[p].at \in Seated /\ nt' = [nt EXCEPT ![p] = [nt[p] EXCEPT !.at = a]]
      BY <2>2 DEF U!Choose, U!Enter
    <3>2. /\ [nt[p] EXCEPT !.at = a] \in U!Process
          /\ [nt[p] EXCEPT !.at = a].at = a /\ [nt[p] EXCEPT !.at = a].seg = nt[p].seg
      BY <1>2 DEF U!Process
    <3> QED
      BY <3>1, <3>2
  <2>3. CASE U!Attaches(p) /\ U!Coming = {}
    <3>1. nt' = [nt EXCEPT ![p] = [at |-> "found", seg |-> shmkey]]
      BY <2>3 DEF U!Attaches
    <3>2. [at |-> "found", seg |-> shmkey] \in U!Process
      BY <1>1 DEF U!Process
    <3> QED
      BY <2>3, <3>1, <3>2 DEF U!Attaches
  <2>4. CASE nt' = [nt EXCEPT ![p] = U!Away]
    <3>1. U!Away \in U!Process /\ U!Away.at = "none"
      BY <1>1 DEF U!Away, U!Process
    <3> QED
      BY <2>4, <3>1
  <2>5. CASE U!Wakes(p)
    BY <2>3, <2>4, <2>5 DEF U!Wakes, StartAssumption
  <2>6. CASE U!OpenGame(p) /\ UNCHANGED daemons
    <3>1. ~U!Forks(FALSE)
      <4>1. daemons \in Seq(U!Daemon)
        BY StartTypeFacts DEF StartInv
      <4>2. Len(Append(daemons, [at |-> "forked", attach |-> FALSE, seg |-> 0])) # Len(daemons)
        BY <4>1
      <4> QED
        BY <2>6, <4>2 DEF U!Forks
    <3> QED
      BY <2>3, <2>4, <2>6, <3>1 DEF U!OpenGame, StartAssumption
  <2> QED
    BY <2>1, <2>2, <2>5, <2>6
<1>5. PICK r \in U!Process :
        /\ nt' = [nt EXCEPT ![p] = r]
        /\ \/ r.at \notin Attached
           \/ /\ r.at \in Attached /\ nt[p].at \in Attached /\ r.seg = nt[p].seg
              /\ r.at \in Seated => nt[p].at \in Seated
           \/ /\ r.at = "found" /\ r.seg = shmkey
              /\ shmkey # 0 /\ segs[shmkey].shmem_size /\ U!Coming = {}
  BY <1>4
<1>6. nt' \in [Ntserv -> U!Process] /\ nt'[p] = r /\ \A q \in Ntserv \ {p} : nt'[q] = nt[q]
  BY <1>1, <1>5
<1>7. ASSUME NEW q \in Ntserv
      PROVE  \/ nt'[q].at \notin Attached
             \/ /\ nt'[q].at \in Attached /\ nt[q].at \in Attached /\ nt'[q].seg = nt[q].seg
                /\ nt'[q].at \in Seated => nt[q].at \in Seated
             \/ /\ nt'[q].at = "found" /\ nt'[q].seg = shmkey
                /\ shmkey # 0 /\ segs[shmkey].shmem_size /\ U!Coming = {}
  <2>1. CASE q = p
    BY <1>5, <1>6, <2>1
  <2>2. CASE q # p
    BY <1>6, <2>2
  <2> QED
    BY <2>1, <2>2
<1> QED
  BY <1>3, <1>6, <1>7, ProcessesStep

(* A slot is taken, or given up: the segments keep all but their slots.    *)
LEMMA SlotsStep ==
  ASSUME StartAssumption, StartInv, UNCHANGED <<shmkey, daemons>>,
         nt' \in [Ntserv -> U!Process], segs' \in Seq(U!Seg), Len(segs') = Len(segs),
         \A g \in DOMAIN segs : /\ segs'[g].shmem_size = segs[g].shmem_size
                                /\ segs'[g].gameup = segs[g].gameup
                                /\ segs'[g].nukegame = segs[g].nukegame,
         \A p \in Ntserv : nt'[p].at \in Attached => nt[p].at \in Attached /\ nt'[p].seg = nt[p].seg,
         U!SlotsKept'
  PROVE  StartInv'
<1>1. DOMAIN segs' = DOMAIN segs
  BY StartTypeFacts DEF StartInv
<1>2. StartTypes'
  BY DEF StartInv, StartTypes, U!TypeOK
<1>3. OneDaemon'
  BY DEF StartInv, OneDaemon, Live
<1>4. ASSUME NEW d \in DOMAIN daemons
      PROVE  Serves(d)'
  <2>1. Serves(d) /\ (shmkey # 0 => shmkey \in DOMAIN segs)
    BY StartTypeFacts DEF StartInv
  <2> QED
    BY <2>1 DEF Serves
<1>5. AttachedRight'
  <2>1. AttachedRight
    BY DEF StartInv
  <2> QED
    BY <1>1, <2>1 DEF AttachedRight
<1> QED
  BY <1>2, <1>3, <1>4, <1>5 DEF StartInv

(* findslot.                                                               *)
LEMMA FindSlotStep ==
  ASSUME StartAssumption, StartInv, NEW p \in Ntserv, U!FindSlot(p)
  PROVE  StartInv'
<1> DEFINE g == nt[p].seg
<1>1. PICK s \in Seats :
        segs[g].players[s] = NoOne /\ segs' = [segs EXCEPT ![g].players[s] = p]
  BY DEF U!FindSlot
<1>2. /\ nt[p].at = "found"
      /\ nt' = [nt EXCEPT ![p].at = "outfit"]
      /\ UNCHANGED <<shmkey, daemons>>
  BY DEF U!FindSlot
<1>3. g \in DOMAIN segs
  BY <1>2 DEF StartInv, AttachedRight, Attached
<1>4. nt \in [Ntserv -> U!Process] /\ nt[p] \in U!Process
  BY StartTypeFacts DEF StartInv
<1>5. segs \in Seq(U!Seg) /\ segs[g] \in U!Seg
  BY <1>3, StartTypeFacts DEF StartInv
<1> HIDE DEF g
<1>6. /\ nt' \in [Ntserv -> U!Process]
      /\ nt'[p].at = "outfit" /\ nt'[p].seg = nt[p].seg
      /\ \A q \in Ntserv \ {p} : nt'[q] = nt[q]
  BY <1>2, <1>4 DEF U!Process
<1>7. segs' = [segs EXCEPT ![g] = [segs[g] EXCEPT !.players = [segs[g].players EXCEPT ![s] = p]]]
  BY <1>1, <1>3
<1> DEFINE r == [segs[g] EXCEPT !.players = [segs[g].players EXCEPT ![s] = p]]
<1>8. /\ r \in U!Seg /\ r.shmem_size = segs[g].shmem_size /\ r.gameup = segs[g].gameup
      /\ r.nukegame = segs[g].nukegame /\ r.players = [segs[g].players EXCEPT ![s] = p]
      /\ segs[g].players \in [Seats -> Ntserv \cup {NoOne}]
  BY <1>5 DEF U!Seg
<1> HIDE DEF r
<1>9. /\ segs' \in Seq(U!Seg) /\ Len(segs') = Len(segs)
      /\ segs'[g] = r /\ \A x \in DOMAIN segs \ {g} : segs'[x] = segs[x]
  BY <1>3, <1>5, <1>7, <1>8 DEF r
<1>10. \A x \in DOMAIN segs : /\ segs'[x].shmem_size = segs[x].shmem_size
                              /\ segs'[x].gameup = segs[x].gameup
                              /\ segs'[x].nukegame = segs[x].nukegame
  BY <1>8, <1>9
<1>11. ASSUME NEW q \in Ntserv, nt'[q].at \in Seated
       PROVE  \E t \in Seats : segs'[nt'[q].seg].players[t] = q
  <2>1. CASE q = p
    <3>1. segs'[nt'[q].seg].players[s] = q
      BY <1>6, <1>8, <1>9, <2>1 DEF g
    <3> QED
      BY <3>1
  <2>2. CASE q # p
    <3>1. nt'[q] = nt[q] /\ nt[q].seg \in DOMAIN segs
      BY <1>6, <1>11, <2>2 DEF StartInv, AttachedRight, Attached, Seated
    <3>2. PICK t \in Seats : segs[nt[q].seg].players[t] = q
      BY <1>11, <3>1 DEF StartInv, U!SlotsKept, Seated
    <3>3. nt[q].seg = g => t # s
      BY <1>1, <3>2 DEF StartAssumption
    <3>4. segs'[nt[q].seg].players[t] = q
      BY <1>8, <1>9, <3>1, <3>2, <3>3
    <3> QED
      BY <3>1, <3>4
  <2> QED
    BY <2>1, <2>2
<1>12. U!SlotsKept'
  BY <1>11 DEF U!SlotsKept, Seated
<1>13. \A q \in Ntserv : nt'[q].at \in Attached => nt[q].at \in Attached /\ nt'[q].seg = nt[q].seg
  BY <1>2, <1>6 DEF Attached
<1> QED
  BY <1>2, <1>6, <1>9, <1>10, <1>12, <1>13, SlotsStep

(* exitGame() frees the slot of the process that leaves, and no other.     *)
LEMMA LeaveStep ==
  ASSUME StartAssumption, StartInv, NEW p \in Ntserv, U!Leave(p)
  PROVE  StartInv'
<1> DEFINE g == nt[p].seg
           left == [s \in Seats |-> IF segs[g].players[s] = p THEN NoOne ELSE segs[g].players[s]]
           r == [segs[g] EXCEPT !.players = left]
<1>1. /\ nt[p].at \in Attached
      /\ nt' = [nt EXCEPT ![p] = U!Away]
      /\ segs' = [segs EXCEPT ![g].players = [s \in Seats |-> IF @[s] = p THEN NoOne ELSE @[s]]]
      /\ UNCHANGED <<shmkey, daemons>>
  BY DEF U!Leave, Attached
<1>2. g \in DOMAIN segs
  BY <1>1 DEF StartInv, AttachedRight
<1>3. segs \in Seq(U!Seg) /\ segs[g] \in U!Seg /\ nt \in [Ntserv -> U!Process]
  BY <1>2, StartTypeFacts DEF StartInv
<1>4. U!Away \in U!Process /\ U!Away.at \notin Attached
  BY StartTypeFacts DEF StartInv, U!Away, U!Process, Attached
<1>5. nt' \in [Ntserv -> U!Process] /\ nt'[p] = U!Away /\ \A q \in Ntserv \ {p} : nt'[q] = nt[q]
  BY <1>1, <1>3, <1>4
<1>6. segs' = [segs EXCEPT ![g] = r]
  BY <1>1, <1>2
<1>7. left \in [Seats -> Ntserv \cup {NoOne}]
  BY <1>3 DEF U!Seg
<1>8. /\ r \in U!Seg /\ r.shmem_size = segs[g].shmem_size /\ r.gameup = segs[g].gameup
      /\ r.nukegame = segs[g].nukegame /\ r.players = left
  <2> HIDE DEF left
  <2> QED
    BY <1>3, <1>7 DEF U!Seg
<1> HIDE DEF g, r
<1>9. /\ segs' \in Seq(U!Seg) /\ Len(segs') = Len(segs)
      /\ segs'[g] = r /\ \A x \in DOMAIN segs \ {g} : segs'[x] = segs[x]
  <2> HIDE DEF left
  <2> QED
    BY <1>2, <1>3, <1>6, <1>8
<1>10. \A x \in DOMAIN segs : /\ segs'[x].shmem_size = segs[x].shmem_size
                              /\ segs'[x].gameup = segs[x].gameup
                              /\ segs'[x].nukegame = segs[x].nukegame
  BY <1>8, <1>9
<1>11. ASSUME NEW q \in Ntserv, nt'[q].at \in Seated
       PROVE  \E t \in Seats : segs'[nt'[q].seg].players[t] = q
  <2>1. q # p /\ nt'[q] = nt[q]
    BY <1>4, <1>5, <1>11 DEF Seated, Attached
  <2>2. nt[q].seg \in DOMAIN segs
    BY <1>11, <2>1 DEF StartInv, AttachedRight, Attached, Seated
  <2>3. PICK t \in Seats : segs[nt[q].seg].players[t] = q
    BY <1>11, <2>1 DEF StartInv, U!SlotsKept, Seated
  <2>4. segs'[nt[q].seg].players[t] = q
    BY <1>8, <1>9, <2>1, <2>2, <2>3
  <2> QED
    BY <2>1, <2>4
<1>12. U!SlotsKept'
  BY <1>11 DEF U!SlotsKept, Seated
<1>13. \A q \in Ntserv : nt'[q].at \in Attached => nt[q].at \in Attached /\ nt'[q].seg = nt[q].seg
  BY <1>4, <1>5
<1> QED
  BY <1>1, <1>5, <1>9, <1>10, <1>12, <1>13, SlotsStep

(* A new daemon is forked when there is none, or when the one there was is *)
(* killed.                                                                 *)
LEMMA ForkStep ==
  ASSUME StartAssumption, StartInv, UNCHANGED <<shmkey, segs>>, Len(daemons) < MaxDaemons,
         nt' \in [Ntserv -> U!Process],
         \A p \in Ntserv :
           /\ nt'[p].at \in Attached => nt[p].at \in Attached /\ nt'[p].seg = nt[p].seg
           /\ nt'[p].at \in Seated => nt[p].at \in Seated,
         NEW old \in Seq(U!Daemon), Len(old) = Len(daemons),
         \A d \in DOMAIN old : old[d].at = "gone",
         NEW attach \in BOOLEAN,
         daemons' = Append(old, [at |-> "forked", attach |-> attach, seg |-> 0]),
         IF attach THEN shmkey # 0 /\ segs[shmkey].shmem_size ELSE shmkey = 0
  PROVE  StartInv'
<1> DEFINE new == [at |-> "forked", attach |-> attach, seg |-> 0]
           n == Len(daemons) + 1
<1>1. new \in U!Daemon /\ new.at = "forked" /\ new.attach = attach
  BY StartTypeFacts DEF StartInv, U!Daemon
<1>2. Len(daemons) \in Nat /\ DOMAIN old = 1 .. Len(daemons) /\ n <= MaxDaemons
  BY StartTypeFacts DEF StartInv, StartAssumption
<1> HIDE DEF new
<1>3. /\ daemons' \in Seq(U!Daemon) /\ Len(daemons') = n
      /\ DOMAIN daemons' = 1 .. n
      /\ daemons'[n] = new
      /\ \A d \in 1 .. Len(daemons) : daemons'[d] = old[d]
  BY <1>1, <1>2 DEF new
<1> HIDE DEF n
<1>4. n \in DOMAIN daemons' /\ \A d \in DOMAIN daemons' \ {n} : daemons'[d].at = "gone"
  BY <1>2, <1>3 DEF n
<1>5. StartTypes'
  BY <1>2, <1>3 DEF StartInv, StartTypes, U!TypeOK
<1>6. OneDaemon'
  BY <1>1, <1>3, <1>4 DEF OneDaemon, Live
<1>7. ASSUME NEW d \in DOMAIN daemons'
      PROVE  Serves(d)'
  <2>1. CASE d = n
    BY <1>1, <1>3, <2>1 DEF Serves
  <2>2. CASE d # n
    <3>1. daemons'[d].at = "gone"
      BY <1>4, <2>2
    <3> QED
      BY <3>1 DEF Serves
  <2> QED
    BY <2>1, <2>2
<1>8. AttachedRight'
  BY DEF StartInv, AttachedRight
<1>9. U!SlotsKept'
  <2>1. U!SlotsKept
    BY DEF StartInv
  <2>2. \A p \in Ntserv : nt'[p].at \in Seated => nt[p].at \in Seated /\ nt'[p].seg = nt[p].seg
    BY DEF Seated, Attached
  <2> QED
    BY <2>1, <2>2 DEF U!SlotsKept, Seated
<1> QED
  BY <1>5, <1>6, <1>7, <1>8, <1>9 DEF StartInv

(* openmem(1) without a segment.                                           *)
LEMMA FirstForkStep ==
  ASSUME StartAssumption, StartInv, NEW p \in Ntserv, U!OpenGame(p), daemons' # daemons
  PROVE  StartInv'
<1>1. /\ U!Coming = {} /\ shmkey = 0 /\ U!Forks(FALSE)
      /\ nt' = [nt EXCEPT ![p].at = "sleeping"]
      /\ UNCHANGED <<shmkey, segs>>
  BY DEF U!OpenGame, StartAssumption
<1>2. daemons \in Seq(U!Daemon) /\ nt \in [Ntserv -> U!Process] /\ nt[p] \in U!Process
      /\ \A d \in DOMAIN daemons : daemons[d] \in U!Daemon
  BY StartTypeFacts DEF StartInv
<1>3. ASSUME NEW d \in DOMAIN daemons
      PROVE  daemons[d].at = "gone"
  <2>1. Serves(d) /\ daemons[d].at \notin {"forked", "created", "marked", "attached"}
    BY <1>1 DEF StartInv, U!Coming
  <2> QED
    BY <1>1, <2>1 DEF Serves
<1>4. /\ nt' \in [Ntserv -> U!Process]
      /\ nt'[p].at = "sleeping"
      /\ \A q \in Ntserv \ {p} : nt'[q] = nt[q]
  BY <1>1, <1>2 DEF U!Process
<1>5. \A q \in Ntserv :
        /\ nt'[q].at \in Attached => nt[q].at \in Attached /\ nt'[q].seg = nt[q].seg
        /\ nt'[q].at \in Seated => nt[q].at \in Seated
  BY <1>4 DEF Attached, Seated
<1>6. /\ Len(daemons) < MaxDaemons
      /\ daemons' = Append(daemons, [at |-> "forked", attach |-> FALSE, seg |-> 0])
  BY <1>1 DEF U!Forks
<1> QED
  BY <1>1, <1>2, <1>3, <1>4, <1>5, <1>6, ForkStep

(* control restart: the daemon that is killed is the one there is.         *)
LEMMA RestartStep ==
  ASSUME StartAssumption, StartInv, NEW p \in Ntserv, U!Restart(p)
  PROVE  StartInv'
<1> DEFINE n == segs[shmkey].nukegame
           old == [d \in DOMAIN daemons |->
                     IF d = n THEN [daemons[d] EXCEPT !.at = "gone"] ELSE daemons[d]]
<1>1. /\ nt[p].at \in Attached /\ nt[p].seg = shmkey
      /\ U!Coming = {} /\ Len(daemons) < MaxDaemons
      /\ daemons' = Append(old, [at |-> "forked", attach |-> TRUE, seg |-> 0])
      /\ UNCHANGED <<shmkey, segs, nt>>
  BY DEF U!Restart, StartAssumption, Attached
<1>2. shmkey \in DOMAIN segs /\ shmkey # 0 /\ segs[shmkey].shmem_size
  BY <1>1, StartTypeFacts DEF StartInv, AttachedRight
<1>3. /\ daemons \in Seq(U!Daemon) /\ Len(daemons) \in Nat /\ DOMAIN daemons = 1 .. Len(daemons)
      /\ nt \in [Ntserv -> U!Process]
      /\ \A d \in DOMAIN daemons : daemons[d] \in U!Daemon
  BY StartTypeFacts DEF StartInv
<1>4. ASSUME NEW d \in DOMAIN daemons
      PROVE  daemons[d].at = "gone" \/ d = n
  <2>1. Serves(d) /\ daemons[d].at \notin {"forked", "created", "marked", "attached"}
    BY <1>1 DEF StartInv, U!Coming
  <2>2. daemons[d].at \in {"running", "closing", "gone"}
    BY <1>3, <2>1 DEF U!Daemon
  <2> QED
    BY <2>1, <2>2 DEF Serves
<1> HIDE DEF n
<1>5. \A d \in DOMAIN daemons :
        /\ [daemons[d] EXCEPT !.at = "gone"] \in U!Daemon
        /\ [daemons[d] EXCEPT !.at = "gone"].at = "gone"
  BY <1>3 DEF U!Daemon
<1>6. \A d \in DOMAIN daemons : old[d] \in U!Daemon /\ old[d].at = "gone"
  BY <1>3, <1>4, <1>5
<1>7. old \in Seq(U!Daemon) /\ Len(old) = Len(daemons) /\ DOMAIN old = DOMAIN daemons
  BY <1>3, <1>6
<1> HIDE DEF old
<1>8. \A q \in Ntserv :
        /\ nt'[q].at \in Attached => nt[q].at \in Attached /\ nt'[q].seg = nt[q].seg
        /\ nt'[q].at \in Seated => nt[q].at \in Seated
  BY <1>1
<1> QED
  BY <1>1, <1>2, <1>3, <1>6, <1>7, <1>8, ForkStep

(* The one daemon moves on.                                                *)
LEMMA MovedFacts ==
  ASSUME StartAssumption, StartInv, NEW d \in DOMAIN daemons,
         NEW place \in {"forked", "created", "marked", "attached", "running", "closing", "gone"},
         NEW seg \in U!SegIds, U!Is(d, place, seg)
  PROVE  /\ daemons' \in Seq(U!Daemon)
         /\ Len(daemons') = Len(daemons)
         /\ DOMAIN daemons' = DOMAIN daemons
         /\ daemons'[d].at = place /\ daemons'[d].seg = seg /\ daemons'[d].attach = daemons[d].attach
         /\ \A e \in DOMAIN daemons \ {d} : daemons'[e] = daemons[e]
<1> DEFINE r == [daemons[d] EXCEPT !.at = place]
           z == [r EXCEPT !.seg = seg]
<1>1. daemons \in Seq(U!Daemon) /\ daemons[d] \in U!Daemon
  BY StartTypeFacts DEF StartInv
<1>2. r \in U!Daemon /\ r.at = place /\ r.attach = daemons[d].attach
  BY <1>1 DEF U!Daemon
<1> HIDE DEF r
<1>3. z \in U!Daemon /\ z.at = place /\ z.seg = seg /\ z.attach = daemons[d].attach
  BY <1>2 DEF U!Daemon
<1>4. daemons' = [[daemons EXCEPT ![d] = r] EXCEPT ![d] = z]
  BY <1>1, <1>2 DEF U!Is, r
<1> HIDE DEF z
<1>5. daemons' = [daemons EXCEPT ![d] = z]
  BY <1>1, <1>4
<1> QED
  BY <1>1, <1>3, <1>5

(* What is left to show of a daemon's step.                                *)
LEMMA DaemonStep ==
  ASSUME StartAssumption, StartInv, NEW d \in DOMAIN daemons, Live(d),
         daemons' \in Seq(U!Daemon), DOMAIN daemons' = DOMAIN daemons,
         \A e \in DOMAIN daemons \ {d} : daemons'[e] = daemons[e],
         shmkey' # 0 => Live(d)',
         StartTypes', Serves(d)', AttachedRight', U!SlotsKept'
  PROVE  StartInv'
<1>1. \A e \in DOMAIN daemons \ {d} : daemons'[e].at = "gone"
  BY DEF StartInv, OneDaemon, Live
<1>2. OneDaemon'
  BY <1>1 DEF OneDaemon, Live
<1>3. \A e \in DOMAIN daemons' : Serves(e)'
  <2>1. \A e \in DOMAIN daemons \ {d} : Serves(e)'
    BY <1>1 DEF Serves
  <2> QED
    BY <2>1
<1> QED
  BY <1>2, <1>3 DEF StartInv

(* openmem(2): a new segment, when there is none at the key.               *)
LEMMA OpenMemStep ==
  ASSUME StartAssumption, StartInv, NEW d \in DOMAIN daemons, U!OpenMem(d)
  PROVE  StartInv'
<1> DEFINE new == [shmem_size |-> FALSE, gameup |-> FALSE, nukegame |-> 0, players |-> U!Empty]
           n == Len(segs) + 1
<1>1. /\ daemons[d].at = "forked" /\ ~daemons[d].attach
      /\ Len(segs) < MaxSegs
      /\ segs' = Append(segs, new)
      /\ shmkey' = n
      /\ U!Is(d, "created", n)
      /\ nt' = nt
  BY DEF U!OpenMem
<1>2. /\ segs \in Seq(U!Seg) /\ Len(segs) \in Nat /\ DOMAIN segs = 1 .. Len(segs)
      /\ n \in Nat /\ n # 0 /\ n <= MaxSegs /\ n \in U!SegIds
  BY <1>1, StartTypeFacts DEF StartInv, StartAssumption, U!SegIds
<1>3. new \in U!Seg /\ ~new.gameup
  BY DEF U!Seg, U!Empty, StartAssumption
<1> HIDE DEF new
<1>4. /\ segs' \in Seq(U!Seg) /\ Len(segs') = n /\ DOMAIN segs' = 1 .. n
      /\ segs'[n] = new /\ \A g \in DOMAIN segs : segs'[g] = segs[g]
  BY <1>1, <1>2, <1>3
<1>5. /\ daemons' \in Seq(U!Daemon) /\ Len(daemons') = Len(daemons) /\ DOMAIN daemons' = DOMAIN daemons
      /\ daemons'[d].at = "created" /\ daemons'[d].seg = n /\ daemons'[d].attach = daemons[d].attach
      /\ \A e \in DOMAIN daemons \ {d} : daemons'[e] = daemons[e]
  BY <1>1, <1>2, MovedFacts
<1>6. StartTypes'
  BY <1>1, <1>2, <1>4, <1>5 DEF StartInv, StartTypes, U!TypeOK
<1>7. \A p \in Ntserv : nt[p].at \in Attached => nt[p].seg \in DOMAIN segs /\ nt[p].seg # n
  BY <1>2 DEF StartInv, AttachedRight
<1>8. Serves(d)'
  BY <1>1, <1>2, <1>5, <1>7 DEF Serves
<1>9. AttachedRight'
  <2>1. \A g \in DOMAIN segs : ~segs[g].gameup
    BY <1>1, <1>2 DEF StartInv, AttachedRight, Serves
  <2> QED
    BY <1>1, <1>2, <1>3, <1>4, <1>7, <2>1 DEF StartInv, AttachedRight
<1>10. U!SlotsKept'
  <2>1. U!SlotsKept
    BY DEF StartInv
  <2> QED
    BY <1>1, <1>4, <1>7, <2>1 DEF U!SlotsKept, Attached
<1> QED
  BY <1>1, <1>5, <1>6, <1>8, <1>9, <1>10, DaemonStep DEF Live

(* openmem(0): a daemon with -a finds the segment it was forked for.       *)
LEMMA OpenOldStep ==
  ASSUME StartAssumption, StartInv, NEW d \in DOMAIN daemons, U!OpenOld(d)
  PROVE  StartInv'
<1>1. /\ daemons[d].at = "forked" /\ daemons[d].attach
      /\ UNCHANGED <<shmkey, segs, nt>>
  BY DEF U!OpenOld
<1>2. shmkey # 0 /\ segs[shmkey].shmem_size /\ shmkey \in U!SegIds
  BY <1>1 DEF StartInv, Serves, StartTypes, U!TypeOK
<1>3. U!Is(d, "attached", shmkey)
  BY <1>2 DEF U!OpenOld
<1>4. /\ daemons' \in Seq(U!Daemon) /\ Len(daemons') = Len(daemons) /\ DOMAIN daemons' = DOMAIN daemons
      /\ daemons'[d].at = "attached" /\ daemons'[d].seg = shmkey /\ daemons'[d].attach = daemons[d].attach
      /\ \A e \in DOMAIN daemons \ {d} : daemons'[e] = daemons[e]
  BY <1>2, <1>3, MovedFacts
<1>5. StartTypes'
  BY <1>1, <1>4 DEF StartInv, StartTypes, U!TypeOK
<1>6. Serves(d)'
  BY <1>1, <1>2, <1>4 DEF Serves
<1>7. AttachedRight' /\ U!SlotsKept'
  BY <1>1 DEF StartInv, AttachedRight, U!SlotsKept
<1> QED
  BY <1>1, <1>4, <1>5, <1>6, <1>7, DaemonStep DEF Live

(* A step that gives the segment at the key another record r.              *)
LEMMA SegmentFacts ==
  ASSUME StartAssumption, StartInv, shmkey # 0, NEW r \in U!Seg, segs' = [segs EXCEPT ![shmkey] = r]
  PROVE  /\ shmkey \in DOMAIN segs /\ shmkey \in U!SegIds
         /\ segs' \in Seq(U!Seg) /\ Len(segs') = Len(segs) /\ DOMAIN segs' = DOMAIN segs
         /\ segs'[shmkey] = r /\ \A g \in DOMAIN segs \ {shmkey} : segs'[g] = segs[g]
BY StartTypeFacts DEF StartInv

(* The new segment is marked with its size.                                *)
LEMMA MarksStep ==
  ASSUME StartAssumption, StartInv, NEW d \in DOMAIN daemons, U!Marks(d)
  PROVE  StartInv'
<1> DEFINE r == [segs[shmkey] EXCEPT !.shmem_size = TRUE]
<1>1. Serves(d) /\ daemons[d].at = "created" /\ UNCHANGED <<shmkey, nt>>
  BY DEF U!Marks, StartInv
<1>2. daemons[d].seg = shmkey /\ shmkey # 0
  BY <1>1 DEF Serves
<1>3. shmkey \in DOMAIN segs /\ segs[shmkey] \in U!Seg
  BY <1>2, StartTypeFacts DEF StartInv
<1>4. segs' = [segs EXCEPT ![shmkey] = r] /\ U!Is(d, "marked", shmkey)
  BY <1>2, <1>3 DEF U!Marks
<1>5. r \in U!Seg /\ r.shmem_size /\ r.gameup = segs[shmkey].gameup /\ r.players = segs[shmkey].players
  BY <1>3 DEF U!Seg
<1> HIDE DEF r
<1>6. /\ shmkey \in U!SegIds
      /\ segs' \in Seq(U!Seg) /\ Len(segs') = Len(segs) /\ DOMAIN segs' = DOMAIN segs
      /\ segs'[shmkey] = r /\ \A g \in DOMAIN segs \ {shmkey} : segs'[g] = segs[g]
  BY <1>2, <1>4, <1>5, SegmentFacts
<1>7. /\ daemons' \in Seq(U!Daemon) /\ Len(daemons') = Len(daemons) /\ DOMAIN daemons' = DOMAIN daemons
      /\ daemons'[d].at = "marked" /\ daemons'[d].seg = shmkey /\ daemons'[d].attach = daemons[d].attach
      /\ \A e \in DOMAIN daemons \ {d} : daemons'[e] = daemons[e]
  BY <1>4, <1>6, MovedFacts
<1>8. StartTypes'
  BY <1>1, <1>6, <1>7 DEF StartInv, StartTypes, U!TypeOK
<1>9. Serves(d)'
  BY <1>1, <1>2, <1>7 DEF Serves
<1>10. \A g \in DOMAIN segs : /\ segs[g].shmem_size => segs'[g].shmem_size
                              /\ segs'[g].gameup = segs[g].gameup
                              /\ segs'[g].players = segs[g].players
  BY <1>5, <1>6
<1>11. AttachedRight' /\ U!SlotsKept'
  <2>1. AttachedRight /\ U!SlotsKept
    BY DEF StartInv
  <2> QED
    BY <1>1, <1>6, <1>10, <2>1 DEF AttachedRight, U!SlotsKept, Attached
<1> QED
  BY <1>1, <1>7, <1>8, <1>9, <1>11, DaemonStep DEF Live

(* The game begins, or goes on under another daemon: with the slots as     *)
(* they are, if there is anybody to have one.                              *)
LEMMA StartsStep ==
  ASSUME StartAssumption, StartInv, NEW d \in DOMAIN daemons, U!Starts(d)
  PROVE  StartInv'
<1> DEFINE r == [segs[shmkey] EXCEPT !.gameup = TRUE, !.nukegame = d, !.players = U!Cleared(d)]
<1>1. Serves(d) /\ daemons[d].at \in {"marked", "attached"} /\ UNCHANGED <<shmkey, nt>>
  BY DEF U!Starts, StartInv
<1>2. daemons[d].seg = shmkey /\ shmkey # 0
  BY <1>1 DEF Serves
<1>3. shmkey \in DOMAIN segs /\ segs[shmkey] \in U!Seg
  BY <1>2, StartTypeFacts DEF StartInv
<1>4. segs' = [segs EXCEPT ![shmkey] = r] /\ U!Is(d, "running", shmkey)
  BY <1>2, <1>3 DEF U!Starts
<1>5. d \in 0 .. MaxDaemons
  BY StartTypeFacts DEF StartInv, StartTypes, U!TypeOK, StartAssumption
<1>6. /\ U!Cleared(d) \in [Seats -> Ntserv \cup {NoOne}]
      /\ daemons[d].at = "attached" => U!Cleared(d) = segs[shmkey].players
  BY <1>1, <1>2, <1>3 DEF U!Cleared, U!Empty, U!Seg, Serves
<1>7. /\ r \in U!Seg /\ r.shmem_size = segs[shmkey].shmem_size /\ r.gameup
      /\ r.nukegame = d /\ r.players = U!Cleared(d)
  BY <1>3, <1>5, <1>6 DEF U!Seg
<1> HIDE DEF r
<1>8. /\ shmkey \in U!SegIds
      /\ segs' \in Seq(U!Seg) /\ Len(segs') = Len(segs) /\ DOMAIN segs' = DOMAIN segs
      /\ segs'[shmkey] = r /\ \A g \in DOMAIN segs \ {shmkey} : segs'[g] = segs[g]
  BY <1>2, <1>4, <1>7, SegmentFacts
<1>9. /\ daemons' \in Seq(U!Daemon) /\ Len(daemons') = Len(daemons) /\ DOMAIN daemons' = DOMAIN daemons
      /\ daemons'[d].at = "running" /\ daemons'[d].seg = shmkey /\ daemons'[d].attach = daemons[d].attach
      /\ \A e \in DOMAIN daemons \ {d} : daemons'[e] = daemons[e]
  BY <1>4, <1>8, MovedFacts
<1>10. StartTypes'
  BY <1>1, <1>8, <1>9 DEF StartInv, StartTypes, U!TypeOK
<1>11. Serves(d)'
  BY <1>1, <1>2, <1>7, <1>8, <1>9 DEF Serves
<1>12. AttachedRight'
  <2>1. AttachedRight
    BY DEF StartInv
  <2> QED
    BY <1>1, <1>7, <1>8, <2>1 DEF AttachedRight
<1>13. U!SlotsKept'
  <2>1. \A p \in Ntserv : nt[p].at \in Seated =>
           nt[p].seg \in DOMAIN segs /\ \E s \in Seats : segs[nt[p].seg].players[s] = p
    BY DEF StartInv, AttachedRight, U!SlotsKept, Seated, Attached
  <2>2. ASSUME NEW p \in Ntserv, nt[p].at \in Seated
        PROVE  segs'[nt[p].seg].players = segs[nt[p].seg].players
    <3>1. CASE nt[p].seg # shmkey
      BY <1>8, <2>1, <2>2, <3>1
    <3>2. CASE nt[p].seg = shmkey
      <4>1. daemons[d].at = "attached"
        BY <1>1, <2>2, <3>2 DEF Serves, Seated, Attached
      <4> QED
        BY <1>6, <1>7, <1>8, <3>2, <4>1
    <3> QED
      BY <3>1, <3>2
  <2> QED
    BY <1>1, <2>1, <2>2 DEF U!SlotsKept, Seated
<1> QED
  BY <1>1, <1>9, <1>10, <1>11, <1>12, <1>13, DaemonStep DEF Live

(* freemem(): the game is down, and who flew is on the outfit screen.      *)
LEMMA FreememStep ==
  ASSUME StartAssumption, StartInv, NEW d \in DOMAIN daemons, U!Freemem(d)
  PROVE  StartInv'
<1> DEFINE r == [segs[shmkey] EXCEPT !.gameup = FALSE]
<1>1. Serves(d) /\ daemons[d].at = "running" /\ shmkey' = shmkey
  BY DEF U!Freemem, StartInv, StartAssumption
<1>2. daemons[d].seg = shmkey /\ shmkey # 0
  BY <1>1 DEF Serves
<1>3. /\ shmkey \in DOMAIN segs /\ segs[shmkey] \in U!Seg /\ nt \in [Ntserv -> U!Process]
  BY <1>2, StartTypeFacts DEF StartInv
<1>4. /\ segs' = [segs EXCEPT ![shmkey] = r] /\ U!Is(d, "closing", shmkey)
      /\ nt' = [p \in Ntserv |-> IF nt[p].at = "alive" /\ nt[p].seg = shmkey
                                 THEN [nt[p] EXCEPT !.at = "outfit"] ELSE nt[p]]
  BY <1>2, <1>3 DEF U!Freemem
<1>5. /\ r \in U!Seg /\ ~r.gameup /\ r.shmem_size = segs[shmkey].shmem_size
      /\ r.players = segs[shmkey].players /\ r.nukegame = segs[shmkey].nukegame
  BY <1>3 DEF U!Seg
<1> HIDE DEF r
<1>6. /\ shmkey \in U!SegIds
      /\ segs' \in Seq(U!Seg) /\ Len(segs') = Len(segs) /\ DOMAIN segs' = DOMAIN segs
      /\ segs'[shmkey] = r /\ \A g \in DOMAIN segs \ {shmkey} : segs'[g] = segs[g]
  BY <1>2, <1>4, <1>5, SegmentFacts
<1>7. /\ daemons' \in Seq(U!Daemon) /\ Len(daemons') = Len(daemons) /\ DOMAIN daemons' = DOMAIN daemons
      /\ daemons'[d].at = "closing" /\ daemons'[d].seg = shmkey /\ daemons'[d].attach = daemons[d].attach
      /\ \A e \in DOMAIN daemons \ {d} : daemons'[e] = daemons[e]
  BY <1>4, <1>6, MovedFacts
<1>8. ASSUME NEW p \in Ntserv
      PROVE  /\ nt'[p] \in U!Process /\ nt'[p].seg = nt[p].seg
             /\ nt'[p].at \in Attached <=> nt[p].at \in Attached
             /\ nt'[p].at \in Seated <=> nt[p].at \in Seated
  <2>1. nt[p] \in U!Process
    BY <1>3
  <2>2. /\ [nt[p] EXCEPT !.at = "outfit"] \in U!Process
        /\ [nt[p] EXCEPT !.at = "outfit"].at = "outfit"
        /\ [nt[p] EXCEPT !.at = "outfit"].seg = nt[p].seg
    BY <2>1 DEF U!Process
  <2>3. CASE nt[p].at = "alive" /\ nt[p].seg = shmkey
    BY <1>4, <2>2, <2>3 DEF Attached, Seated
  <2>4. CASE ~(nt[p].at = "alive" /\ nt[p].seg = shmkey)
    BY <1>4, <2>1, <2>4
  <2> QED
    BY <2>3, <2>4
<1>9. nt' \in [Ntserv -> U!Process]
  BY <1>4, <1>8
<1>10. StartTypes'
  BY <1>1, <1>6, <1>7, <1>9 DEF StartInv, StartTypes, U!TypeOK
<1>11. Serves(d)'
  BY <1>1, <1>2, <1>5, <1>6, <1>7 DEF Serves
<1>12. \A g \in DOMAIN segs : /\ segs'[g].shmem_size = segs[g].shmem_size
                              /\ segs'[g].gameup => segs[g].gameup
                              /\ segs'[g].players = segs[g].players
  BY <1>5, <1>6
<1>13. AttachedRight' /\ U!SlotsKept'
  <2>1. AttachedRight /\ U!SlotsKept
    BY DEF StartInv
  <2>2. AttachedRight'
    BY <1>1, <1>6, <1>8, <1>12, <2>1 DEF AttachedRight
  <2>3. U!SlotsKept'
    <3>1. \A p \in Ntserv : nt[p].at \in Seated =>
            nt[p].seg \in DOMAIN segs /\ \E s \in Seats : segs[nt[p].seg].players[s] = p
      BY <2>1 DEF AttachedRight, U!SlotsKept, Seated, Attached
    <3>2. \A p \in Ntserv : nt'[p].at \in Seated => \E s \in Seats : segs'[nt'[p].seg].players[s] = p
      BY <1>8, <1>12, <3>1
    <3> QED
      BY <3>2 DEF U!SlotsKept, Seated
  <2> QED
    BY <2>2, <2>3
<1> QED
  BY <1>1, <1>7, <1>10, <1>11, <1>13, DaemonStep DEF Live

(* blast_shmem(): the segment of a game that is down leaves the key.       *)
LEMMA BlastStep ==
  ASSUME StartAssumption, StartInv, NEW d \in DOMAIN daemons, U!BlastShmem(d)
  PROVE  StartInv'
<1>1. Serves(d) /\ daemons[d].at = "closing" /\ UNCHANGED <<segs, nt>>
  BY DEF U!BlastShmem, StartInv
<1>2. daemons[d].seg = shmkey /\ shmkey # 0 /\ ~segs[shmkey].gameup
  BY <1>1 DEF Serves
<1>3. shmkey' = 0 /\ U!Is(d, "gone", shmkey) /\ shmkey \in U!SegIds
  BY <1>2 DEF U!BlastShmem, StartInv, StartTypes, U!TypeOK
<1>4. /\ daemons' \in Seq(U!Daemon) /\ Len(daemons') = Len(daemons) /\ DOMAIN daemons' = DOMAIN daemons
      /\ daemons'[d].at = "gone"
      /\ \A e \in DOMAIN daemons \ {d} : daemons'[e] = daemons[e]
  BY <1>3, MovedFacts
<1>5. StartTypes'
  BY <1>1, <1>3, <1>4, StartTypeFacts DEF StartInv, StartTypes, U!TypeOK
<1>6. Serves(d)'
  BY <1>4 DEF Serves
<1>7. AttachedRight' /\ U!SlotsKept'
  <2>1. AttachedRight /\ U!SlotsKept
    BY DEF StartInv
  <2> QED
    BY <1>1, <1>2, <2>1 DEF AttachedRight, U!SlotsKept
<1> QED
  BY <1>1, <1>3, <1>4, <1>5, <1>6, <1>7, DaemonStep DEF Live

(* Nothing has been started.                                               *)
LEMMA StartInit == StartAssumption /\ U!Init => StartInv
<1> SUFFICES ASSUME StartAssumption, U!Init PROVE StartInv
  OBVIOUS
<1>1. shmkey = 0 /\ segs = <<>> /\ daemons = <<>> /\ nt = [p \in Ntserv |-> U!Away]
  BY DEF U!Init
<1>2. U!Away \in U!Process /\ U!Away.at = "none"
  BY DEF U!Away, U!Process, U!SegIds, StartAssumption
<1>3. StartTypes
  BY <1>1, <1>2 DEF StartTypes, U!TypeOK, U!SegIds, StartAssumption
<1>4. OneDaemon /\ \A d \in DOMAIN daemons : Serves(d)
  BY <1>1 DEF OneDaemon
<1>5. AttachedRight /\ U!SlotsKept
  BY <1>1, <1>2 DEF AttachedRight, U!SlotsKept, Attached
<1> QED
  BY <1>3, <1>4, <1>5 DEF StartInv

(* Every step of the start-up keeps the invariant.                         *)
LEMMA StartStep ==
  ASSUME StartAssumption, StartInv, [U!Next]_(U!vars)
  PROVE  StartInv'
<1>1. ASSUME NEW p \in Ntserv,
             \/ U!Connect(p) \/ U!OpenGame(p) \/ U!Wakes(p) \/ U!FindSlot(p) \/ U!Choose(p)
             \/ U!Enter(p) \/ U!Leave(p) \/ U!Restart(p)
      PROVE  StartInv'
  BY <1>1, ConnectStep, FirstForkStep, FindSlotStep, LeaveStep, RestartStep
<1>2. ASSUME NEW d \in DOMAIN daemons,
             \/ U!OpenMem(d) \/ U!OpenOld(d) \/ U!Marks(d) \/ U!Starts(d)
             \/ U!Freemem(d) \/ U!BlastShmem(d)
      PROVE  StartInv'
  BY <1>2, OpenMemStep, OpenOldStep, MarksStep, StartsStep, FreememStep, BlastStep
<1>3. CASE UNCHANGED U!vars
  BY <1>3 DEF U!vars, StartInv, StartTypes, U!TypeOK, OneDaemon, Live, Serves, AttachedRight, U!SlotsKept
<1> QED
  BY <1>1, <1>2, <1>3 DEF U!Next

(* The instance counts as this module does.                                *)
LEMMA StartCounts == \A X : U!Cardinality(X) = Cardinality(X)
BY DEF U!Cardinality, Cardinality

(* One daemon means one game, and a daemon that rules it or is coming.     *)
LEMMA StartImplies ==
  ASSUME StartAssumption, StartInv
  PROVE  U!StartSound
<1>1. U!GameServed
  <2> SUFFICES ASSUME shmkey # 0
               PROVE  /\ U!Cardinality(U!Ruling(shmkey)) <= 1
                      /\ \/ U!Coming # {}
                         \/ \E d \in DOMAIN daemons : /\ daemons[d].seg = shmkey
                                                      /\ daemons[d].at \in {"running", "closing"}
    BY DEF U!GameServed
  <2>1. PICK d \in DOMAIN daemons : Live(d) /\ \A e \in DOMAIN daemons : Live(e) => e = d
    BY DEF StartInv, OneDaemon
  <2>2. U!Ruling(shmkey) \subseteq {d}
    BY <2>1 DEF U!Ruling, Live
  <2>3. U!Ruling(shmkey) = {} \/ U!Ruling(shmkey) = {d}
    BY <2>2
  <2>4. U!Cardinality(U!Ruling(shmkey)) <= 1
    <3>1. Cardinality({}) = 0 /\ Cardinality({d}) = 1
      BY FS_EmptySet, FS_Singleton
    <3> QED
      BY <2>3, <3>1, StartCounts
  <2>5. daemons[d] \in U!Daemon /\ Serves(d)
    BY StartTypeFacts DEF StartInv
  <2>6. \/ daemons[d].at \in {"forked", "created", "marked", "attached"}
        \/ daemons[d].at \in {"running", "closing"}
    BY <2>1, <2>5 DEF Live, U!Daemon
  <2> QED
    BY <2>4, <2>5, <2>6 DEF U!Coming, Serves
<1>2. U!OneGame
  BY DEF StartInv, AttachedRight, U!OneGame, Attached
<1> QED
  BY <1>1, <1>2 DEF StartInv, U!StartSound

(* The steps of the history while it is about the start-up.                *)
LEMMA StartNext ==
  machine = "Startup" /\ [Next]_vars => machine' = "Startup" /\ [U!Next]_(U!vars)
BY DEF Next, vars, Ends, memory, U!vars

(* There is one game at a time, with one daemon, and who has been given a  *)
(* slot in it keeps it until he leaves, through restarts of the daemon     *)
(* and whatever the administrator and the end of a game do, for any number *)
(* of processes, slots, segments and daemons, as long as no two of the     *)
(* windows of the start-up (daemonII.c, shmem.c, message.c) overlap.       *)
THEOREM StartsSound ==
  ASSUME StartAssumption
  PROVE  Spec => []StartSound
<1> DEFINE Inv == machine = "Startup" => StartInv
<1>1. Init => Inv
  BY StartInit DEF Init
<1>2. Inv /\ [Next]_vars => Inv'
  <2>1. [Next]_vars => machine' = machine
    BY DEF Next, vars, Ends
  <2> QED
    BY <2>1, StartNext, StartStep
<1>3. Inv => StartSound
  BY StartImplies DEF StartSound
<1> QED
  BY <1>1, <1>2, <1>3, PTL DEF Spec
=============================================================================
