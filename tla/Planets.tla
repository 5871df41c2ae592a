-------------------------------- MODULE Planets --------------------------------
(***************************************************************************)
(* Armies: beamed up and down by the daemon for ships whose process has    *)
(* set the beam flags, bombed, bred and in revolt (daemon/player.c,        *)
(* daemon/planets.c, common/interface.c, ntserv/redraw.c).  Ownership, the *)
(* counts of planets and the end of the game are Conquest's, which this    *)
(* module implements.                                                      *)
(*                                                                         *)
(* The daemon handles one ship or planet per step; a process takes one     *)
(* command, or one turn of operate_transporters(), per step.               *)
(***************************************************************************)
EXTENDS Integers, FiniteSets, Functions

CONSTANTS
  Player, Planet, SURRSTART, SURREND, SURRLENGTH, tournplayers, victory_planets, \* Conquest's
  maxarmies,      \* s_maxarmies of every player's ship
  Fighters,       \* players whose ship has fighters for missiles (SFNHASFIGHTERS)
  FAE_RATE,       \* fighters to an army (8)
  FEW,            \* armies that are not bombed, and beamed up on a second order only (4)
  STARTREV,       \* checks of a revolt before it comes to a head (8)
  evacuation,     \* configvals: the last armies may be beamed up
  beamlastarmies, \* configvals: so may those of the last planet
  defended,       \* configvals: beamed armies may fall without effect
  Growing,        \* bound: planets that grow and revolt
  popcap,         \* armies up to which a planet grows
  Side,           \* bound: the team every player chooses
  Reached,        \* bound: planets ships fly to
  Leavers,        \* bound: players who leave the game
  Hosts           \* bound: players others dock at, who give no orders

ASSUME PlanetsAssumption ==
  /\ "NOBODY" \notin Planet /\ Planet \cap Player = {} /\ {"space", "dead"} \cap (Planet \cup Player) = {}
  /\ maxarmies \in [Player -> Nat] /\ Fighters \subseteq Player
  /\ {FAE_RATE, STARTREV} \subseteq Nat \ {0} /\ {FEW, popcap} \subseteq Nat
  /\ {evacuation, beamlastarmies, defended} \subseteq BOOLEAN
  /\ Growing \subseteq Planet /\ Reached \subseteq Planet
  /\ Side \in [Player -> {"FED", "ROM", "KLI", "ORI"}] /\ Hosts \cup Leavers \subseteq Player

VARIABLES
  pteam, tourn, galaxy, \* Conquest's
  armies,  \* pl_armies
  trevolt, \* pl_trevolt
  ship     \* of every player: where it is (orbit, dock), the one of the flags PFBEAMUP,
           \* PFBEAMDOWN and PFBOMB that is set, p_lastman, p_armies, s_missilestored

vars == <<pteam, tourn, galaxy, armies, trevolt, ship>>
worlds == <<galaxy, armies, trevolt>>

C == INSTANCE Conquest

owner == galaxy.owner
Where == Planet \cup Player \cup {"space", "dead"}
Orders == {"none", "up", "down", "bomb"}
NoShip == [at |-> "dead", order |-> "none", lastman |-> 0, armies |-> 0, stored |-> 0]

Init ==
  /\ pteam = [p \in Player |-> "free"]
  /\ tourn = FALSE
  /\ \E o \in [Planet -> C!Owner] :
       galaxy = [owner |-> o, plcount |-> [t \in C!Team |-> 0],
                 plcountold |-> [t \in C!Team |-> 0], surrender |-> [t \in C!Team |-> 0],
                 victor |-> C!NoVictor]
  /\ armies \in [Planet -> 0 .. popcap]
  /\ \A l \in Planet : owner[l] # "NOBODY" => armies[l] > 0
  /\ trevolt = [l \in Planet |-> 0]
  /\ ship = [p \in Player |-> NoShip]

PassUnchecked(l, o) == galaxy' = [galaxy EXCEPT !.owner[l] = o]   \* mutant

(* A planet changes hands, or is looked at again, and the win is checked.  *)
Pass(l, o) == galaxy' = C!checkwin([galaxy EXCEPT !.owner[l] = o])

EmptiedUnnoticed(l, left) == UNCHANGED galaxy   \* mutant

(* The last army of a planet has left it or died.                          *)
Emptied(l, left) == IF left = 0 THEN Pass(l, "NOBODY") ELSE UNCHANGED galaxy

-----------------------------------------------------------------------------
(* The commands of a process, and its player's comings and goings.         *)

InGame(p) == C!gameup /\ ship[p].at # "dead"
Sets(p, order, lastman) ==
  /\ ship' = [ship EXCEPT ![p].order = order, ![p].lastman = lastman]
  /\ UNCHANGED <<pteam, tourn, galaxy, armies, trevolt>>

(* enter(); the ship is a new one, p_lastman is not reset.                 *)
Enter(p) ==
  /\ C!gameup /\ ship[p].at = "dead"
  /\ pteam' = [pteam EXCEPT ![p] = Side[p]]
  /\ ship' = [ship EXCEPT ![p].at = "space", ![p].order = "none", ![p].armies = 0,
                          ![p].stored = 0]
  /\ UNCHANGED <<tourn, worlds>>

Thrown(s, who) == [q \in Player |-> IF q \in who THEN [s[q] EXCEPT !.at = "space"] ELSE s[q]]

Die(p) ==
  /\ InGame(p)
  /\ ship' = Thrown([ship EXCEPT ![p].at = "dead"], {q \in Player : ship[q].at = p})
  /\ UNCHANGED <<pteam, tourn, worlds>>

FreeSlot(p) ==
  /\ C!gameup /\ p \in Leavers /\ ship[p].at = "dead" /\ pteam[p] # "free"
  /\ pteam' = [pteam EXCEPT ![p] = "free"]
  /\ ship' = [ship EXCEPT ![p] = NoShip]
  /\ UNCHANGED <<tourn, worlds>>

(* Pulled or dropped out of orbit or dock: the beam flags stay.            *)
Dislodged(p) ==
  /\ InGame(p) /\ ship[p].at # "space"
  /\ ship' = Thrown(ship, {p})
  /\ UNCHANGED <<pteam, tourn, worlds>>

(* orbit()                                                                 *)
Arrive(p, a) ==
  /\ InGame(p) /\ p \notin Hosts /\ ship[p].at = "space"
  /\ a \in Planet \/ (a \in Hosts /\ InGame(a))
  /\ ship' = [ship EXCEPT ![p].at = a]
  /\ UNCHANGED <<pteam, tourn, worlds>>

(* set_speed(), set_course(), and lock_planet() and lock_player().         *)
Steer(p) ==
  /\ InGame(p) /\ ship[p].at # "space"
  /\ ship' = [ship EXCEPT ![p].at = "space", ![p].order = "none", ![p].lastman = 0]
  /\ UNCHANGED <<pteam, tourn, worlds>>

(* shield_up() and repair(); an order to stop bombing or beaming.          *)
ShieldUp(p) == InGame(p) /\ ship[p].order # "none" /\ Sets(p, "none", 0)
Stop(p)     == InGame(p) /\ ship[p].order # "none" /\ Sets(p, "none", ship[p].lastman)

Foreign(p, l) == owner[l] # pteam[p] /\ owner[l] # "NOBODY"
NumShips(o) == C!realNumShips(o)

bomb_planet(p) ==
  /\ InGame(p) /\ ship[p].at \in Planet
  /\ owner[ship[p].at] # pteam[p]
  /\ Foreign(p, ship[p].at) => NumShips(owner[ship[p].at]) > 0
  /\ Sets(p, "bomb", ship[p].lastman)

(* numPlanets((int) me->p_team && configvals->beamlastarmies) == 1         *)
OnlyPlanet(p) ==
  Cardinality(C!Owned(owner, IF beamlastarmies THEN "FED" ELSE "NOBODY")) = 1

beam_up(p) ==
  /\ InGame(p) /\ ship[p].at # "space"
  /\ \/ /\ ship[p].at \in Planet /\ owner[ship[p].at] = pteam[p]
        /\ \/ ship[p].lastman = 0 /\ Sets(p, "up", 1)
           \/ ship[p].lastman # 0 /\ armies[ship[p].at] > FEW /\ Sets(p, "up", ship[p].lastman)
           \/ /\ ship[p].lastman # 0 /\ armies[ship[p].at] <= FEW
              /\ ~OnlyPlanet(p) /\ Sets(p, "up", 2)
     \/ ship[p].at \in Player /\ pteam[ship[p].at] = pteam[p] /\ Sets(p, "up", ship[p].lastman)

(* The limits on planets in play, and war and peace, may refuse it; a      *)
(* refusal by the limits ends the bombing.                                 *)
beam_down(p) ==
  /\ InGame(p) /\ ship[p].at # "space"
  /\ \/ /\ ship[p].at \in Player => pteam[ship[p].at] = pteam[p]
        /\ ship[p].at \in Planet /\ Foreign(p, ship[p].at) => NumShips(owner[ship[p].at]) > 0
        /\ Sets(p, "down", 0)
     \/ ship[p].at \in Planet /\ ship[p].order = "bomb" /\ Sets(p, "none", ship[p].lastman)

(* The process looks at the transporters whenever it updates its client.   *)
operate_transporters(p, capacity) ==
  LET s == ship[p] IN
  /\ InGame(p)
  /\ \/ /\ s.order = "up" /\ s.at \in Planet
        /\ armies[s.at] < 1 \/ (armies[s.at] <= FEW /\ s.lastman # 2) \/ s.armies = capacity
     \/ s.order = "up" /\ s.at \in Player /\ (ship[s.at].armies = 0 \/ s.armies >= capacity)
     \/ s.order = "down" /\ s.armies = 0
     \/ s.order = "down" /\ s.at \in Player /\ ship[s.at].armies = maxarmies[s.at]
  /\ Sets(p, "none", s.lastman)

-----------------------------------------------------------------------------
(* The daemon beams. *)

(* The armies of a ship with fighters are its stored missiles.             *)
OneUp(p, s) ==
  IF p \in Fighters THEN [s EXCEPT !.stored = @ + FAE_RATE, !.armies = (s.stored + FAE_RATE) \div FAE_RATE]
                    ELSE [s EXCEPT !.armies = @ + 1]
OneDown(p, s) ==
  IF p \in Fighters /\ s.stored >= FAE_RATE
  THEN [s EXCEPT !.stored = @ - FAE_RATE, !.armies = (s.stored - FAE_RATE) \div FAE_RATE]
  ELSE [s EXCEPT !.armies = @ - 1]

GivesNothing(p, s) == s   \* mutant

(* The ship that p is docked at gives an army.                             *)
Gives(p, s) == [s EXCEPT !.armies = IF p \in Fighters THEN @ ELSE @ - 1]

Full(p, capacity) == ship[p].armies >= maxarmies[p] \/ ship[p].armies >= capacity
KAO(s) == [s EXCEPT !.lastman = IF @ = 2 THEN 1 ELSE @]

BeamUpFromPlanet(p, l, capacity) ==
  LET refused == armies[l] = 0 \/ (~evacuation /\ armies[l] <= FEW) \/ Full(p, capacity)
  IN  \/ refused /\ Sets(p, "none", ship[p].lastman)
      \/ /\ ~refused /\ owner[l] = pteam[p]
         /\ armies' = [armies EXCEPT ![l] = @ - 1]
         /\ ship' = [ship EXCEPT ![p] = KAO(OneUp(p, @))]
         /\ Emptied(l, armies[l] - 1)
         /\ UNCHANGED <<pteam, tourn, trevolt>>

BeamUpFromShip(p, h, capacity) ==
  LET refused == ship[h].armies = 0 \/ Full(p, capacity)
  IN  \/ refused /\ Sets(p, "none", ship[p].lastman)
      \/ /\ ~refused
         /\ ship' = [ship EXCEPT ![p] = OneUp(p, @), ![h] = Gives(p, @)]
         /\ UNCHANGED <<pteam, tourn, worlds>>

BeamDownToOwn(p, l) ==
  /\ owner[l] = pteam[p]
  /\ ship' = [ship EXCEPT ![p] = OneDown(p, @)]
  /\ armies' = [armies EXCEPT ![l] = @ + 1]
  /\ UNCHANGED <<pteam, tourn, galaxy, trevolt>>

(* killed: the defenders the army beamed down takes along.                 *)
BeamDownToForeign(p, l, killed) ==
  LET left == armies[l] - killed
  IN  /\ owner[l] # pteam[p]
      /\ killed = 1 \/ (armies[l] > 0 /\ defended)
      /\ ship' = [ship EXCEPT ![p].armies = @ - 1]
      /\ armies' = [armies EXCEPT ![l] = IF left < 0 THEN -left ELSE left]
      /\ trevolt' = [trevolt EXCEPT ![l] = IF left = 0 THEN 0 ELSE @]
      /\ CASE left = 0 -> Pass(l, "NOBODY")
           [] left < 0 -> Pass(l, pteam[p])
           [] OTHER    -> UNCHANGED galaxy
      /\ UNCHANGED <<pteam, tourn>>

BeamDownUnlimited(p, h) ==   \* mutant: the process will see that the base is full
  /\ pteam[h] = pteam[p]
  /\ ship' = [ship EXCEPT ![p].armies = @ - 1, ![h].armies = @ + 1]
  /\ UNCHANGED <<pteam, tourn, worlds>>

(* A ship with another number of armies aboard.                            *)
Aboard(s, n) == [s EXCEPT !.armies = n]

BeamDownToShip(p, h) ==
  /\ pteam[h] = pteam[p] /\ ship[h].armies # maxarmies[h]
  /\ ship' = [ship EXCEPT ![p] = Aboard(@, @.armies - 1), ![h] = Aboard(@, @.armies + 1)]
  /\ UNCHANGED <<pteam, tourn, worlds>>

beammeupscotty(p, capacity) ==
  /\ InGame(p) /\ ship[p].order = "up"
  /\ \/ ship[p].at \in Planet /\ BeamUpFromPlanet(p, ship[p].at, capacity)
     \/ ship[p].at \in Player /\ BeamUpFromShip(p, ship[p].at, capacity)

beamdown(p, killed) ==
  /\ InGame(p) /\ ship[p].order = "down" /\ ship[p].armies # 0
  /\ \/ ship[p].at \in Planet /\ BeamDownToOwn(p, ship[p].at)
     \/ ship[p].at \in Planet /\ BeamDownToForeign(p, ship[p].at, killed)
     \/ ship[p].at \in Player /\ BeamDownToShip(p, ship[p].at)

beam ==
  \/ \E p \in Player : \E capacity \in 0 .. maxarmies[p] : beammeupscotty(p, capacity)
  \/ \E p \in Player, killed \in 0 .. 1 : beamdown(p, killed)

-----------------------------------------------------------------------------
(* The daemon's other visits to planets. *)

(* pbomb(): rnd armies of more than FEW are killed, but for the last.      *)
pbomb(p, rnd, hostile) ==
  LET l == ship[p].at IN
  /\ InGame(p) /\ ship[p].order = "bomb" /\ l \in Planet
  /\ \/ owner[l] # "NOBODY" /\ ~(hostile /\ Foreign(p, l)) /\ Sets(p, "none", ship[p].lastman)
     \/ /\ owner[l] = "NOBODY" \/ (hostile /\ Foreign(p, l))
        /\ rnd > 0 /\ armies[l] > FEW
        /\ armies' = [armies EXCEPT ![l] = IF @ - rnd < 1 THEN 1 ELSE @ - rnd]
        /\ UNCHANGED <<pteam, tourn, galaxy, trevolt, ship>>

Governor(l) == \E p \in Player : ship[p].at = l /\ pteam[p] = owner[l]

(* check_revolt() and revolt() *)
revolt(l) ==
  /\ C!gameup /\ tourn /\ l \in Growing /\ armies[l] > 0 /\ owner[l] # "NOBODY"
  /\ \/ trevolt[l] = 0 /\ armies[l] <= 2 /\ trevolt' = [trevolt EXCEPT ![l] = STARTREV]
        /\ UNCHANGED <<galaxy, armies>>
     \/ trevolt[l] > 1 /\ ~Governor(l) /\ trevolt' = [trevolt EXCEPT ![l] = @ - 1]
        /\ UNCHANGED <<galaxy, armies>>
     \/ trevolt[l] = 1 /\ ~Governor(l) /\ armies[l] > 2 /\ trevolt' = [trevolt EXCEPT ![l] = 0]
        /\ UNCHANGED <<galaxy, armies>>
     \/ trevolt[l] = 1 /\ ~Governor(l) /\ armies[l] = 2 /\ trevolt' = [trevolt EXCEPT ![l] = STARTREV]
        /\ armies' = [armies EXCEPT ![l] = 1] /\ UNCHANGED galaxy
     \/ trevolt[l] = 1 /\ ~Governor(l) /\ armies[l] = 1 /\ trevolt' = [trevolt EXCEPT ![l] = 0]
        /\ Pass(l, "NOBODY") /\ UNCHANGED armies
  /\ UNCHANGED <<pteam, tourn, ship>>

(* popplanets(), for the planet it picks: armies are born, or some of FEW  *)
(* or more die.  A planet without armies that gets none is given up again. *)
pop_one_planet(l, n) ==
  /\ C!gameup /\ tourn /\ l \in Growing
  /\ \/ n > 0 /\ armies[l] + n <= popcap
     \/ n < 0 /\ armies[l] >= FEW
     \/ n = 0 /\ armies[l] = 0
  /\ LET left == IF armies[l] + n < 0 THEN 0 ELSE armies[l] + n
     IN  /\ armies' = [armies EXCEPT ![l] = left]
         /\ Emptied(l, left)
  /\ UNCHANGED <<pteam, tourn, trevolt, ship>>

udsurrend ==
  LET after == C!Surrender(galaxy) IN
  /\ C!gameup /\ tourn
  /\ galaxy' = after
  /\ armies' = [l \in Planet |-> IF after.owner[l] = owner[l] THEN armies[l] ELSE 0]
  /\ UNCHANGED <<pteam, tourn, trevolt, ship>>

udtourny == C!udtourny /\ UNCHANGED <<armies, trevolt, ship>>

Daemon ==
  \/ beam
  \/ \E p \in Player, rnd \in 1 .. 3, hostile \in BOOLEAN : pbomb(p, rnd, hostile)
  \/ \E l \in Planet : revolt(l)
  \/ \E l \in Planet, n \in -2 .. 2 : pop_one_planet(l, n)
  \/ udsurrend
  \/ udtourny

Process(p) ==
  \/ Enter(p) \/ FreeSlot(p) \/ Die(p) \/ Dislodged(p) \/ Steer(p) \/ ShieldUp(p) \/ Stop(p)
  \/ \E a \in Reached \cup Hosts : Arrive(p, a)
  \/ p \notin Hosts /\ (bomb_planet(p) \/ beam_up(p) \/ beam_down(p))
  \/ \E capacity \in 0 .. maxarmies[p] : operate_transporters(p, capacity)

Next == Daemon \/ \E p \in Player : Process(p)

Spec == Init /\ [][Next]_vars

-----------------------------------------------------------------------------
TypeOK ==
  /\ pteam \in [Player -> C!Owner \cup {"free"}] /\ tourn \in BOOLEAN
  /\ galaxy \in C!Galaxies
  /\ armies \in [Planet -> Nat] /\ trevolt \in [Planet -> 0 .. STARTREV]
  /\ ship \in [Player -> [at : Where, order : Orders, lastman : 0 .. 2, armies : Int, stored : Int]]

(* A planet that a team owns has armies: beaming, bombing, breeding,       *)
(* plague, revolts and the collapse of an empire never leave one behind    *)
(* that belongs to a team and stands empty.                                *)
OwnedIsHeld == \A l \in Planet : owner[l] # "NOBODY" => armies[l] > 0

(* No ship, and no base others beam to, carries more than it can hold or   *)
(* less than nothing, whichever of the processes' orders the daemon still  *)
(* finds set.                                                              *)
HoldRespected == \A p \in Player : 0 <= ship[p].armies /\ ship[p].armies <= maxarmies[p]

(* Armies are conserved: beaming moves them, and only breeding makes new    *)
(* ones.  (Not so for ships with fighters, see the README.)                *)
Armies == SumFunction(armies) + SumFunction([p \in Player |-> ship[p].armies])
Bred == \E l \in Growing, n \in 1 .. 2 : pop_one_planet(l, n)
ArmiesConserved == [][Armies' > Armies => Bred]_vars

(* The surrender clocks, the counts of planets and the end of the game are *)
(* as conquer.c has them, whatever the ships and the planets do.           *)
ConquestSpec == C!Spec
===============================================================================
