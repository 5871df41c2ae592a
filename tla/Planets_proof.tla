---------------------------- MODULE Planets_proof ----------------------------
(***************************************************************************)
(* Proofs about Planets: a planet that is owned has armies, the armies     *)
(* aboard a ship stay between nothing and its hold, Planets implements     *)
(* Conquest, and armies are never made but by breeding, for any number of  *)
(* planets and ships.  The last rests on lemmas about sums: two functions  *)
(* that differ in one argument have sums that differ by as much.           *)
(***************************************************************************)
EXTENDS Planets, Folds, FiniteSetTheorems, WellFoundedInduction, TLAPS

USE DEF C!Team, C!Owner

-----------------------------------------------------------------------------
(* What conquer.c does to the owners of planets, and to nothing else here. *)

HasOwners(g) == "owner" \in DOMAIN g

LEMMA RefreshedOwners ==
  ASSUME NEW g, HasOwners(g)
  PROVE  HasOwners(C!Refreshed(g)) /\ C!Refreshed(g).owner = g.owner
BY DEF HasOwners, C!Refreshed

LEMMA ClockOwners ==
  ASSUME NEW g, HasOwners(g), NEW t, NEW others
  PROVE  /\ HasOwners(C!checksurrender(g, t, others))
         /\ C!checksurrender(g, t, others).owner = g.owner
BY DEF HasOwners, C!checksurrender

LEMMA EndOwners ==
  ASSUME NEW g, HasOwners(g), NEW t, NEW u
  PROVE  HasOwners(C!endgame_effects(g, t, u)) /\ C!endgame_effects(g, t, u).owner = g.owner
BY RefreshedOwners DEF HasOwners, C!endgame_effects

LEMMA CheckwinOwners ==
  ASSUME NEW g, HasOwners(g)
  PROVE  HasOwners(C!checkwin(g)) /\ C!checkwin(g).owner = g.owner
BY RefreshedOwners, ClockOwners, EndOwners DEF C!checkwin

(* A minute of the surrender clocks gives planets to nobody.               *)
GivesUp(g, h) ==
  /\ HasOwners(h) /\ h.owner \in [Planet -> C!Owner]
  /\ \A l \in Planet : h.owner[l] \in {g.owner[l], "NOBODY"}

LEMMA MinuteOwners ==
  ASSUME NEW g, HasOwners(g), g.owner \in [Planet -> C!Owner], NEW t
  PROVE  GivesUp(g, C!Minute(g, t))
<1> DEFINE c == [g EXCEPT !.surrender[t] = @ - 1]
           d == [g EXCEPT !.surrender[t] = -1]
           n == C!Neutralized(d, t)
<1>1. HasOwners(c) /\ c.owner = g.owner /\ HasOwners(d) /\ d.owner = g.owner
  BY DEF HasOwners
<1>2. C!Minute(g, t) \in {g, c, C!checkwin(n)}
  BY DEF C!Minute
<1> HIDE DEF c, d
<1>3. /\ HasOwners(n) /\ n.owner \in [Planet -> C!Owner]
      /\ \A l \in Planet : n.owner[l] \in {g.owner[l], "NOBODY"}
  BY <1>1 DEF C!Neutralized, HasOwners
<1> HIDE DEF n
<1>4. HasOwners(C!checkwin(n)) /\ C!checkwin(n).owner = n.owner
  BY <1>3, CheckwinOwners
<1> QED BY <1>1, <1>2, <1>3, <1>4 DEF GivesUp

LEMMA SurrenderOwners ==
  ASSUME NEW g, HasOwners(g), g.owner \in [Planet -> C!Owner]
  PROVE  GivesUp(g, C!Surrender(g))
<1> DEFINE f == C!Minute(g, "FED")
           r == C!Minute(f, "ROM")
           k == C!Minute(r, "KLI")
           o == C!Minute(k, "ORI")
<1>1. GivesUp(g, f)
  BY MinuteOwners
<1> HIDE DEF f
<1>2. GivesUp(f, r)
  BY <1>1, MinuteOwners DEF GivesUp
<1> HIDE DEF r
<1>3. GivesUp(r, k)
  BY <1>2, MinuteOwners DEF GivesUp
<1> HIDE DEF k
<1>4. GivesUp(k, o)
  BY <1>3, MinuteOwners DEF GivesUp
<1> HIDE DEF o
<1>5. GivesUp(g, o)
  BY <1>1, <1>2, <1>3, <1>4 DEF GivesUp
<1> QED BY <1>5 DEF C!Surrender, f, r, k, o

-----------------------------------------------------------------------------
(* The inductive invariant.  That a ship in the game has a team, and that  *)
(* a planet without armies is nobody's, make an army that is beamed down   *)
(* on an empty planet a step of Conquest.                                  *)

Ships == [at : Where, order : Orders, lastman : 0 .. 2, armies : Int, stored : Int]

LEMMA FieldSet ==
  ASSUME NEW s \in Ships
  PROVE  /\ \A x \in Where : [s EXCEPT !.at = x] \in Ships
         /\ \A x \in Orders : [s EXCEPT !.order = x] \in Ships
         /\ [s EXCEPT !.lastman = 0] \in Ships
         /\ [s EXCEPT !.armies = 0] \in Ships /\ [s EXCEPT !.stored = 0] \in Ships
         /\ \A x \in Int : [s EXCEPT !.armies = x] \in Ships /\ [s EXCEPT !.stored = x] \in Ships
BY DEF Ships

Types ==
  /\ pteam \in [Player -> C!Owner \cup {"free"}] /\ tourn \in BOOLEAN
  /\ HasOwners(galaxy) /\ owner \in [Planet -> C!Owner]
  /\ armies \in [Planet -> Nat] /\ trevolt \in [Planet -> 0 .. STARTREV]
  /\ ship \in [Player -> Ships]
CrewsHaveTeams == \A p \in Player : ship[p].at # "dead" => pteam[p] # "free"
PInv == Types /\ CrewsHaveTeams /\ OwnedIsHeld

(* What a step has to do: keep the invariant, and be a step of Conquest.   *)
Good == PInv' /\ [C!Next]_(C!cvars)

LEMMA InitPInv == Init => PInv /\ C!Init
<1> SUFFICES ASSUME Init PROVE PInv /\ C!Init
  OBVIOUS
<1>1. PICK o \in [Planet -> C!Owner] :
        galaxy = [owner |-> o, plcount |-> [t \in C!Team |-> 0],
                  plcountold |-> [t \in C!Team |-> 0], surrender |-> [t \in C!Team |-> 0],
                  victor |-> C!NoVictor]
  BY DEF Init
<1>2. HasOwners(galaxy) /\ owner \in [Planet -> C!Owner]
  BY <1>1 DEF HasOwners, owner
<1>3. NoShip \in Ships /\ NoShip.at = "dead"
  BY DEF NoShip, Ships, Where, Orders
<1>4. armies \in [Planet -> Nat] /\ trevolt \in [Planet -> 0 .. STARTREV]
  BY PlanetsAssumption DEF Init, PlanetsAssumption
<1>5. PInv
  BY <1>2, <1>3, <1>4 DEF PInv, Types, CrewsHaveTeams, OwnedIsHeld, Init
<1>6. C!Init
  BY <1>1 DEF Init, C!Init
<1> QED BY <1>5, <1>6

(* Most commands change only what is aboard or around ships.               *)
LEMMA QuietGood ==
  ASSUME PInv, UNCHANGED <<pteam, tourn, galaxy, armies, trevolt>>, ship' \in [Player -> Ships],
         \A p \in Player : ship'[p].at # "dead" => ship[p].at # "dead"
  PROVE  Good
BY DEF PInv, Types, CrewsHaveTeams, OwnedIsHeld, Good, HasOwners, owner, C!cvars

LEMMA SetsGood ==
  ASSUME PInv, NEW p \in Player, NEW order \in Orders, NEW lastman \in 0 .. 2, Sets(p, order, lastman)
  PROVE  Good
<1>1. ship[p] \in Ships /\ ship \in [Player -> Ships]
  BY DEF PInv, Types
<1>2. ship' = [ship EXCEPT ![p] = [@ EXCEPT !.order = order, !.lastman = lastman]]
  BY DEF Sets
<1>3. LET s == [ship[p] EXCEPT !.order = order, !.lastman = lastman] IN s \in Ships /\ s.at = ship[p].at
  BY <1>1 DEF Ships
<1>4. ship' \in [Player -> Ships] /\ \A q \in Player : ship'[q].at = ship[q].at
  BY <1>1, <1>2, <1>3
<1> QED BY <1>4, QuietGood DEF Sets

LEMMA CommandsSet ==
  ASSUME PInv, NEW p \in Player,
         \/ ShieldUp(p) \/ Stop(p) \/ bomb_planet(p) \/ beam_up(p) \/ beam_down(p)
         \/ \E capacity \in 0 .. maxarmies[p] : operate_transporters(p, capacity)
  PROVE  Good
<1>1. ship[p].lastman \in 0 .. 2
  BY DEF PInv, Types, Ships
<1>2. \E order \in Orders, lastman \in 0 .. 2 : Sets(p, order, lastman)
  BY <1>1 DEF ShieldUp, Stop, bomb_planet, beam_up, beam_down, operate_transporters, Orders
<1> QED BY <1>2, SetsGood

LEMMA MovesGood ==
  ASSUME PInv, NEW p \in Player,
         Die(p) \/ Dislodged(p) \/ Steer(p) \/ \E a \in Reached \cup Hosts : Arrive(p, a)
  PROVE  Good
<1> USE DEF PInv, Types, Ships, InGame
<1>1. UNCHANGED <<pteam, tourn, galaxy, armies, trevolt>>
  BY DEF Die, Dislodged, Steer, Arrive, worlds
<1>2. \A q \in Player : ship'[q].at # "dead" => ship[q].at # "dead"
  <2>1. CASE Die(p)
    BY <2>1, PlanetsAssumption DEF Die, Thrown, PlanetsAssumption
  <2>2. CASE Dislodged(p)
    BY <2>2 DEF Dislodged, Thrown
  <2>3. CASE Steer(p)
    BY <2>3 DEF Steer
  <2>4. CASE \E a \in Reached \cup Hosts : Arrive(p, a)
    BY <2>4 DEF Arrive
  <2> QED BY <2>1, <2>2, <2>3, <2>4
<1>3. ship' \in [Player -> Ships]
  <2>1. CASE Die(p)
    <3>1. [ship EXCEPT ![p].at = "dead"] \in [Player -> Ships]
      BY DEF Where
    <3> QED BY <2>1, <3>1 DEF Die, Thrown, Where
  <2>2. CASE Dislodged(p)
    BY <2>2 DEF Dislodged, Thrown, Where
  <2>3. CASE Steer(p)
    <3> DEFINE one == [ship[p] EXCEPT !.at = "space"]
               two == [one EXCEPT !.order = "none"]
               three == [two EXCEPT !.lastman = 0]
    <3>1. one \in Ships
      BY FieldSet DEF Where
    <3> HIDE DEF one
    <3>2. two \in Ships
      BY <3>1, FieldSet DEF Orders
    <3> HIDE DEF two
    <3>3. three \in Ships
      BY <3>2, FieldSet
    <3>4. ship' = [ship EXCEPT ![p] = three]
      BY <2>3 DEF Steer, one, two
    <3> HIDE DEF three
    <3> QED BY <3>3, <3>4
  <2>4. CASE \E a \in Reached \cup Hosts : Arrive(p, a)
    BY <2>4, PlanetsAssumption DEF Arrive, Where, PlanetsAssumption
  <2> QED BY <2>1, <2>2, <2>3, <2>4
<1> QED BY <1>1, <1>2, <1>3, QuietGood

LEMMA EnterGood == ASSUME PInv, NEW p \in Player, Enter(p) PROVE Good
<1> USE DEF PInv, Types
<1>1. Side[p] \in C!Owner /\ Side[p] # "free"
  BY PlanetsAssumption DEF PlanetsAssumption
<1>2. ship' \in [Player -> Ships] /\ \A q \in Player \ {p} : ship'[q] = ship[q]
  <2> DEFINE new == [ship[p] EXCEPT !.at = "space", !.order = "none", !.armies = 0, !.stored = 0]
  <2>1. new \in Ships
    <3> DEFINE one == [ship[p] EXCEPT !.at = "space"]
               two == [one EXCEPT !.order = "none"]
               three == [two EXCEPT !.armies = 0]
    <3>1. one \in Ships
      BY FieldSet DEF Where
    <3> HIDE DEF one
    <3>2. two \in Ships
      BY <3>1, FieldSet DEF Orders
    <3> HIDE DEF two
    <3>3. three \in Ships
      BY <3>2, FieldSet
    <3> HIDE DEF three
    <3>4. [three EXCEPT !.stored = 0] \in Ships
      BY <3>3, FieldSet
    <3> QED BY <3>4 DEF one, two, three
  <2>2. ship' = [ship EXCEPT ![p] = new]
    BY DEF Enter
  <2> HIDE DEF new
  <2> QED BY <2>1, <2>2
<1>3. PInv'
  BY <1>1, <1>2 DEF Enter, worlds, CrewsHaveTeams, OwnedIsHeld, HasOwners, owner
<1>4. CASE pteam[p] = Side[p]
  BY <1>3, <1>4 DEF Enter, worlds, Good, C!cvars
<1>5. CASE pteam[p] # Side[p]
  <2>1. C!Change(p, Side[p])
    BY <1>5 DEF Enter, worlds, C!Change
  <2> QED BY <1>1, <1>3, <2>1 DEF Good, C!Next
<1> QED BY <1>4, <1>5

LEMMA FreeSlotGood == ASSUME PInv, NEW p \in Player, FreeSlot(p) PROVE Good
<1> USE DEF PInv, Types
<1>1. NoShip \in Ships /\ NoShip.at = "dead"
  BY DEF NoShip, Ships, Where, Orders
<1>2. PInv'
  BY <1>1 DEF FreeSlot, worlds, CrewsHaveTeams, OwnedIsHeld, HasOwners, owner
<1>3. C!Change(p, "free")
  BY DEF FreeSlot, worlds, C!Change
<1> QED BY <1>2, <1>3 DEF Good, C!Next

-----------------------------------------------------------------------------
(* The daemon. *)

(* A planet passes from or to nobody, with armies if it is then a team's.  *)
LEMMA PassGood ==
  ASSUME PInv, C!gameup, NEW l \in Planet, NEW o \in C!Owner, Pass(l, o), UNCHANGED <<pteam, tourn>>,
         "NOBODY" \in {o, owner[l]}, o # "NOBODY" => armies'[l] > 0,
         armies' \in [Planet -> Nat], \A k \in Planet \ {l} : armies'[k] = armies[k],
         trevolt' \in [Planet -> 0 .. STARTREV], ship' \in [Player -> Ships],
         \A p \in Player : ship'[p].at = ship[p].at
  PROVE  Good
<1> DEFINE g == [galaxy EXCEPT !.owner[l] = o]
<1>1. HasOwners(g) /\ g.owner = [owner EXCEPT ![l] = o]
  BY DEF PInv, Types, HasOwners, owner
<1>2. galaxy' = C!checkwin(g)
  BY DEF Pass
<1>3. C!Pass(l, o)
  BY <1>2 DEF C!Pass, owner
<1> HIDE DEF g
<1>4. HasOwners(galaxy') /\ owner' = [owner EXCEPT ![l] = o]
  BY <1>1, <1>2, CheckwinOwners DEF owner
<1>5. PInv'
  BY <1>4 DEF PInv, Types, CrewsHaveTeams, OwnedIsHeld
<1> QED BY <1>3, <1>5 DEF Good, C!Next

(* The armies of planets change, and those of the owned stay above zero.   *)
LEMMA ArmiesGood ==
  ASSUME PInv, UNCHANGED <<pteam, tourn, galaxy>>,
         armies' \in [Planet -> Nat], trevolt' \in [Planet -> 0 .. STARTREV], ship' \in [Player -> Ships],
         \A p \in Player : ship'[p].at = ship[p].at,
         \A l \in Planet : armies[l] > 0 => armies'[l] > 0
  PROVE  Good
BY DEF PInv, Types, CrewsHaveTeams, OwnedIsHeld, Good, HasOwners, owner, C!cvars

(* What is loaded or given away changes armies and stored missiles only.   *)
LEMMA Loads ==
  ASSUME NEW p \in Player, NEW s \in Ships
  PROVE  \A x \in {OneUp(p, s), OneDown(p, s), Gives(p, s), KAO(OneUp(p, s))} : x \in Ships /\ x.at = s.at
<1>1. FAE_RATE \in Nat \ {0}
  BY PlanetsAssumption DEF PlanetsAssumption
<1>2. \A n \in Int : n \div FAE_RATE \in Int
  BY <1>1
<1>3. \A i, j \in Int : LET x == [[s EXCEPT !.stored = i] EXCEPT !.armies = j] IN x \in Ships /\ x.at = s.at
  <2> SUFFICES ASSUME NEW i \in Int, NEW j \in Int
               PROVE  LET x == [[s EXCEPT !.stored = i] EXCEPT !.armies = j] IN x \in Ships /\ x.at = s.at
    OBVIOUS
  <2> DEFINE one == [s EXCEPT !.stored = i]
  <2>1. one \in Ships /\ one.at = s.at
    BY FieldSet DEF Ships
  <2> HIDE DEF one
  <2>2. [one EXCEPT !.armies = j] \in Ships /\ [one EXCEPT !.armies = j].at = one.at
    BY <2>1, FieldSet DEF Ships
  <2> QED BY <2>1, <2>2 DEF one
<1>4. /\ OneUp(p, s) \in Ships /\ OneUp(p, s).at = s.at
      /\ OneDown(p, s) \in Ships /\ OneDown(p, s).at = s.at
  <2>1. s.stored + FAE_RATE \in Int /\ s.stored - FAE_RATE \in Int /\ s.armies + 1 \in Int /\ s.armies - 1 \in Int
    BY <1>1 DEF Ships
  <2>2. \A j \in Int : [s EXCEPT !.armies = j] \in Ships /\ [s EXCEPT !.armies = j].at = s.at
    BY FieldSet DEF Ships
  <2> QED BY <1>2, <1>3, <2>1, <2>2 DEF OneUp, OneDown
<1>5. Gives(p, s) \in Ships /\ Gives(p, s).at = s.at
  BY DEF Gives, Ships
<1>6. \A x \in Ships : KAO(x) \in Ships /\ KAO(x).at = x.at
  BY DEF KAO, Ships
<1> QED BY <1>3, <1>4, <1>5, <1>6

LEMMA BeamUpGood ==
  ASSUME PInv, NEW p \in Player, NEW capacity \in 0 .. maxarmies[p], beammeupscotty(p, capacity)
  PROVE  Good
<1> USE DEF PInv, Types
<1>1. CASE Sets(p, "none", ship[p].lastman)
  BY <1>1, SetsGood DEF Orders, Ships
<1>2. CASE \E l \in Planet : /\ ship[p].at = l /\ armies[l] # 0
                            /\ armies' = [armies EXCEPT ![l] = @ - 1]
                            /\ ship' = [ship EXCEPT ![p] = KAO(OneUp(p, @))]
                            /\ Emptied(l, armies[l] - 1)
                            /\ UNCHANGED <<pteam, tourn, trevolt>>
  <2> PICK l \in Planet : /\ ship[p].at = l /\ armies[l] # 0
                          /\ armies' = [armies EXCEPT ![l] = @ - 1]
                          /\ ship' = [ship EXCEPT ![p] = KAO(OneUp(p, @))]
                          /\ Emptied(l, armies[l] - 1)
                          /\ UNCHANGED <<pteam, tourn, trevolt>>
    BY <1>2
  <2>1. armies[l] - 1 \in Nat /\ armies' \in [Planet -> Nat]
    OBVIOUS
  <2>2. ship' \in [Player -> Ships] /\ \A q \in Player : ship'[q].at = ship[q].at
    BY Loads
  <2>3. CASE armies[l] - 1 = 0
    <3>1. Pass(l, "NOBODY")
      BY <2>3 DEF Emptied
    <3> QED BY <2>1, <2>2, <3>1, PassGood DEF beammeupscotty, InGame
  <2>4. CASE armies[l] - 1 # 0
    <3>1. UNCHANGED galaxy
      BY <2>4 DEF Emptied
    <3> QED BY <2>1, <2>2, <2>4, <3>1, ArmiesGood
  <2> QED BY <2>3, <2>4
<1>3. CASE \E h \in Player : BeamUpFromShip(p, h, capacity) /\ ~Sets(p, "none", ship[p].lastman)
  <2> PICK h \in Player : BeamUpFromShip(p, h, capacity) /\ ~Sets(p, "none", ship[p].lastman)
    BY <1>3
  <2>1. ship' = [ship EXCEPT ![p] = OneUp(p, @), ![h] = Gives(p, @)] /\ UNCHANGED <<pteam, tourn, worlds>>
    BY DEF BeamUpFromShip
  <2>2. ship' \in [Player -> Ships] /\ \A q \in Player : ship'[q].at = ship[q].at
    BY <2>1, Loads
  <2> QED BY <2>1, <2>2, QuietGood DEF worlds
<1> QED BY <1>1, <1>2, <1>3 DEF beammeupscotty, BeamUpFromPlanet, BeamUpFromShip

LEMMA BeamDownGood ==
  ASSUME PInv, NEW p \in Player, NEW killed \in 0 .. 1, beamdown(p, killed)
  PROVE  Good
<1> USE DEF PInv, Types
<1>0. ship[p] \in Ships
  OBVIOUS
<1>1. CASE \E l \in Planet : ship[p].at = l /\ BeamDownToOwn(p, l)
  <2> PICK l \in Planet : BeamDownToOwn(p, l)
    BY <1>1
  <2>1. armies' \in [Planet -> Nat] /\ \A k \in Planet : armies[k] > 0 => armies'[k] > 0
    BY DEF BeamDownToOwn
  <2>2. ship' \in [Player -> Ships] /\ \A q \in Player : ship'[q].at = ship[q].at
    BY <1>0, Loads DEF BeamDownToOwn
  <2> QED BY <2>1, <2>2, ArmiesGood DEF BeamDownToOwn
<1>2. CASE \E l \in Planet : ship[p].at = l /\ BeamDownToForeign(p, l, killed)
  <2> PICK l \in Planet : ship[p].at = l /\ BeamDownToForeign(p, l, killed)
    BY <1>2
  <2> DEFINE left == armies[l] - killed
  <2>1. left \in Int /\ armies' = [armies EXCEPT ![l] = IF left < 0 THEN -left ELSE left]
    BY DEF BeamDownToForeign
  <2>2. armies' \in [Planet -> Nat] /\ \A k \in Planet \ {l} : armies'[k] = armies[k]
    BY <2>1
  <2>3. trevolt' \in [Planet -> 0 .. STARTREV]
    BY PlanetsAssumption DEF BeamDownToForeign, PlanetsAssumption
  <2>4. ship' \in [Player -> Ships] /\ \A q \in Player : ship'[q].at = ship[q].at
    <3>1. ship[p].armies - 1 \in Int
      BY <1>0 DEF Ships
    <3>2. [ship[p] EXCEPT !.armies = @ - 1] \in Ships /\ [ship[p] EXCEPT !.armies = @ - 1].at = ship[p].at
      BY <1>0, <3>1, FieldSet DEF Ships
    <3> QED BY <3>2 DEF BeamDownToForeign
  <2>5. C!gameup /\ UNCHANGED <<pteam, tourn>>
    BY DEF beamdown, InGame, BeamDownToForeign
  <2>6. CASE left = 0
    <3>1. Pass(l, "NOBODY")
      BY <2>6 DEF BeamDownToForeign
    <3> QED BY <2>2, <2>3, <2>4, <2>5, <3>1, PassGood
  <2>7. CASE left < 0
    <3>1. Pass(l, pteam[p])
      BY <2>7 DEF BeamDownToForeign
    <3>2. armies[l] = 0 /\ owner[l] = "NOBODY"
      BY <2>1, <2>7 DEF OwnedIsHeld
    <3>3. pteam[p] \in C!Owner
      BY PlanetsAssumption DEF CrewsHaveTeams, PlanetsAssumption
    <3>4. armies'[l] > 0
      BY <2>1, <2>7
    <3> QED BY <2>2, <2>3, <2>4, <2>5, <3>1, <3>2, <3>3, <3>4, PassGood
  <2>8. CASE left > 0
    <3>1. UNCHANGED galaxy
      BY <2>8 DEF BeamDownToForeign
    <3>2. \A k \in Planet : armies[k] > 0 => armies'[k] > 0
      BY <2>1, <2>8
    <3> QED BY <2>2, <2>3, <2>4, <2>5, <3>1, <3>2, ArmiesGood
  <2> QED BY <2>1, <2>6, <2>7, <2>8
<1>3. CASE \E h \in Player : BeamDownToShip(p, h)
  <2> PICK h \in Player : BeamDownToShip(p, h)
    BY <1>3
  <2> DEFINE Less(s) == Aboard(s, s.armies - 1)
             More(s) == Aboard(s, s.armies + 1)
  <2>1. ship' = [ship EXCEPT ![p] = Less(@), ![h] = More(@)]
    BY DEF BeamDownToShip
  <2>2. \A s \in Ships : \A x \in Int : Aboard(s, x) \in Ships /\ Aboard(s, x).at = s.at
    BY FieldSet DEF Aboard, Ships
  <2>3. \A s \in Ships : s.armies - 1 \in Int /\ s.armies + 1 \in Int
    BY DEF Ships
  <2>4. \A s \in Ships : \A x \in {Less(s), More(s)} : x \in Ships /\ x.at = s.at
    BY <2>2, <2>3
  <2> HIDE DEF Less, More
  <2>5. ship' \in [Player -> Ships] /\ \A q \in Player : ship'[q].at = ship[q].at
    BY <2>1, <2>4
  <2> QED BY <2>5, QuietGood DEF BeamDownToShip, worlds
<1> QED BY <1>1, <1>2, <1>3 DEF beamdown

LEMMA BombGood ==
  ASSUME PInv, NEW p \in Player, NEW rnd \in 1 .. 3, NEW hostile \in BOOLEAN, pbomb(p, rnd, hostile)
  PROVE  Good
<1> USE DEF PInv, Types
<1>1. CASE Sets(p, "none", ship[p].lastman)
  BY <1>1, SetsGood DEF Orders, Ships
<1>2. CASE ~Sets(p, "none", ship[p].lastman)
  <2> DEFINE l == ship[p].at
  <2>1. /\ l \in Planet /\ armies' = [armies EXCEPT ![l] = IF @ - rnd < 1 THEN 1 ELSE @ - rnd]
        /\ UNCHANGED <<pteam, tourn, galaxy, trevolt, ship>>
    BY <1>2 DEF pbomb
  <2> HIDE DEF l
  <2>2. armies' \in [Planet -> Nat] /\ \A k \in Planet : armies[k] > 0 => armies'[k] > 0
    BY <2>1
  <2> QED BY <2>1, <2>2, ArmiesGood
<1> QED BY <1>1, <1>2

LEMMA RevoltGood == ASSUME PInv, NEW l \in Planet, revolt(l) PROVE Good
<1> USE DEF PInv, Types
<1>1. UNCHANGED <<pteam, tourn, ship>> /\ C!gameup
  BY DEF revolt
<1>2. trevolt' \in [Planet -> 0 .. STARTREV]
  BY PlanetsAssumption DEF revolt, PlanetsAssumption
<1>3. CASE UNCHANGED galaxy
  <2>1. armies' = armies \/ armies' = [armies EXCEPT ![l] = 1]
    BY <1>3 DEF revolt
  <2> QED BY <1>1, <1>2, <1>3, <2>1, ArmiesGood
<1>4. CASE Pass(l, "NOBODY") /\ UNCHANGED armies
  BY <1>1, <1>2, <1>4, PassGood
<1> QED BY <1>3, <1>4 DEF revolt

LEMMA PopGood == ASSUME PInv, NEW l \in Planet, NEW n \in -2 .. 2, pop_one_planet(l, n) PROVE Good
<1> USE DEF PInv, Types
<1> DEFINE left == IF armies[l] + n < 0 THEN 0 ELSE armies[l] + n
<1>1. left \in Nat /\ armies' = [armies EXCEPT ![l] = left] /\ Emptied(l, left)
  BY DEF pop_one_planet
<1>2. UNCHANGED <<pteam, tourn, trevolt, ship>> /\ C!gameup
  BY DEF pop_one_planet
<1> HIDE DEF left
<1>3. armies' \in [Planet -> Nat] /\ \A k \in Planet \ {l} : armies'[k] = armies[k]
  BY <1>1
<1>4. CASE left = 0
  <2>1. Pass(l, "NOBODY")
    BY <1>1, <1>4 DEF Emptied
  <2> QED BY <1>2, <1>3, <2>1, PassGood
<1>5. CASE left # 0
  <2>1. UNCHANGED galaxy /\ armies'[l] > 0
    BY <1>1, <1>5 DEF Emptied
  <2> QED BY <1>2, <1>3, <2>1, ArmiesGood
<1> QED BY <1>4, <1>5

LEMMA SurrenderGood == ASSUME PInv, udsurrend PROVE Good
<1>1. GivesUp(galaxy, C!Surrender(galaxy)) /\ galaxy' = C!Surrender(galaxy)
  BY SurrenderOwners DEF PInv, Types, owner, udsurrend
<1>2. armies' = [l \in Planet |-> IF owner'[l] = owner[l] THEN armies[l] ELSE 0]
  BY DEF udsurrend, owner
<1>3. \A l \in Planet : owner'[l] # "NOBODY" => armies'[l] > 0
  BY <1>1, <1>2 DEF GivesUp, owner, PInv, Types, OwnedIsHeld
<1>4. PInv'
  BY <1>1, <1>2, <1>3 DEF PInv, Types, GivesUp, owner, CrewsHaveTeams, OwnedIsHeld, udsurrend
<1>5. C!udsurrend
  BY DEF udsurrend, C!udsurrend
<1> QED BY <1>4, <1>5 DEF Good, C!Next

LEMMA TourneyGood == ASSUME PInv, udtourny PROVE Good
<1>1. PInv'
  BY DEF PInv, Types, CrewsHaveTeams, OwnedIsHeld, HasOwners, owner, udtourny, C!udtourny
<1> QED BY <1>1 DEF Good, udtourny, C!Next

LEMMA StepGood == ASSUME PInv, [Next]_vars PROVE Good
<1>1. CASE UNCHANGED vars
  BY <1>1, QuietGood DEF vars, PInv, Types
<1>2. ASSUME NEW p \in Player, Process(p) PROVE Good
  <2>1. CASE Enter(p) \/ FreeSlot(p)
    BY <2>1, EnterGood, FreeSlotGood
  <2>2. CASE \/ ShieldUp(p) \/ Stop(p) \/ bomb_planet(p) \/ beam_up(p) \/ beam_down(p)
             \/ \E capacity \in 0 .. maxarmies[p] : operate_transporters(p, capacity)
    BY <2>2, CommandsSet
  <2>3. CASE Die(p) \/ Dislodged(p) \/ Steer(p) \/ \E a \in Reached \cup Hosts : Arrive(p, a)
    BY <2>3, MovesGood
  <2> QED BY <1>2, <2>1, <2>2, <2>3 DEF Process
<1>3. CASE Daemon
  BY <1>3, BeamUpGood, BeamDownGood, BombGood, RevoltGood, PopGood, SurrenderGood, TourneyGood DEF Daemon, beam
<1> QED BY <1>1, <1>2, <1>3 DEF Next

LEMMA Invariant == Spec => []PInv
BY InitPInv, StepGood, PTL DEF Spec, Good

(* A planet that a team owns is never left without armies.                 *)
THEOREM PlanetsHeld == Spec => []OwnedIsHeld
<1>1. PInv => OwnedIsHeld
  BY DEF PInv
<1> QED BY <1>1, Invariant, PTL

(* Whatever ships, bombs, births and revolts do to planets is what         *)
(* Conquest lets happen to them: it is implemented by this module.         *)
THEOREM PlanetsConquest == Spec => ConquestSpec
<1>1. Init => C!Init
  BY InitPInv
<1>2. PInv /\ [Next]_vars => [C!Next]_(C!cvars)
  BY StepGood DEF Good
<1> QED BY <1>1, <1>2, Invariant, PTL DEF Spec, ConquestSpec, C!Spec

-----------------------------------------------------------------------------
(* The holds.  A host gives no orders and is docked nowhere, so that no    *)
(* ship beams to itself; only then do the daemon's own checks of the two   *)
(* holds suffice.                                                          *)

Fits(p, s) ==
  /\ 0 <= s.armies /\ s.armies <= maxarmies[p]
  /\ s.at \in Player => s.at \in Hosts
  /\ p \in Hosts => s.at \in {"space", "dead"}
HInv == \A p \in Player : Fits(p, ship[p])

LEMMA SameFits ==
  ASSUME HInv, NEW q \in Player, ship'[q].armies = ship[q].armies, ship'[q].at = ship[q].at
  PROVE  Fits(q, ship'[q])
BY DEF HInv, Fits

LEMMA BeamedFits ==
  ASSUME Fighters = {}, PInv, HInv, beam
  PROVE  HInv'
<1> USE DEF PInv, Types
<1>1. \A q \in Player, s \in Ships :
        /\ OneUp(q, s) = Aboard(s, s.armies + 1) /\ OneDown(q, s) = Aboard(s, s.armies - 1)
        /\ Gives(q, s) = Aboard(s, s.armies - 1)
  BY DEF OneUp, OneDown, Gives, Aboard, Ships
<1>2. \A s \in Ships : \A n \in Int : Aboard(s, n) \in Ships /\ Aboard(s, n).armies = n /\ Aboard(s, n).at = s.at
  BY FieldSet DEF Aboard, Ships
<1>3. \A s \in Ships : s.armies \in Int /\ KAO(s).armies = s.armies /\ KAO(s).at = s.at
  BY DEF KAO, Ships
<1>4. \A q \in Player, s \in Ships :
        /\ KAO(OneUp(q, s)).armies = s.armies + 1 /\ KAO(OneUp(q, s)).at = s.at
        /\ OneUp(q, s).armies = s.armies + 1 /\ OneUp(q, s).at = s.at
        /\ OneDown(q, s).armies = s.armies - 1 /\ OneDown(q, s).at = s.at
        /\ Gives(q, s).armies = s.armies - 1 /\ Gives(q, s).at = s.at
  <2> TAKE q \in Player, s \in Ships
  <2>1. s.armies - 1 \in Int /\ s.armies + 1 \in Int
    BY <1>3
  <2>2. OneUp(q, s) \in Ships /\ OneUp(q, s).armies = s.armies + 1 /\ OneUp(q, s).at = s.at
    <3>1. OneUp(q, s) = Aboard(s, s.armies + 1)
      BY <1>1
    <3>2. \A n \in Int : Aboard(s, n) \in Ships /\ Aboard(s, n).armies = n /\ Aboard(s, n).at = s.at
      BY <1>2
    <3> DEFINE n == s.armies + 1
    <3>3. n \in Int
      BY <2>1
    <3> HIDE DEF n
    <3>4. Aboard(s, n) \in Ships /\ Aboard(s, n).armies = n /\ Aboard(s, n).at = s.at
      BY <3>2, <3>3
    <3> QED BY <3>1, <3>4 DEF n
  <2>3. KAO(OneUp(q, s)).armies = s.armies + 1 /\ KAO(OneUp(q, s)).at = s.at
    BY <1>3, <2>2
  <2>4. \A x \in {OneDown(q, s), Gives(q, s)} : x.armies = s.armies - 1 /\ x.at = s.at
    <3>1. OneDown(q, s) = Aboard(s, s.armies - 1) /\ Gives(q, s) = Aboard(s, s.armies - 1)
      BY <1>1
    <3> QED BY <1>2, <2>1, <3>1
  <2> QED BY <2>2, <2>3, <2>4
<1>5. \A q \in Player : maxarmies[q] \in Nat /\ ship[q] \in Ships /\ ship[q].armies \in Int
  BY <1>3, PlanetsAssumption DEF PlanetsAssumption
<1>6. \A q \in Player : ship[q].at \in Player => ship[q].at # q
  BY PlanetsAssumption DEF HInv, Fits, PlanetsAssumption
<1>7. ASSUME NEW p \in Player, NEW capacity \in 0 .. maxarmies[p], beammeupscotty(p, capacity)
      PROVE  HInv'
  <2>1. CASE Sets(p, "none", ship[p].lastman)
    BY <2>1, SameFits DEF Sets, HInv, Ships
  <2>2. CASE ~Full(p, capacity) /\ ship' = [ship EXCEPT ![p] = KAO(OneUp(p, @))]
    <3>1. ship'[p].armies = ship[p].armies + 1 /\ ship'[p].at = ship[p].at
      BY <1>4, <1>5, <2>2
    <3>2. ship[p].armies < maxarmies[p]
      BY <1>5, <2>2 DEF Full
    <3>3. \A q \in Player \ {p} : ship'[q] = ship[q]
      BY <2>2
    <3> QED BY <1>5, <3>1, <3>2, <3>3 DEF HInv, Fits
  <2>3. CASE ~Sets(p, "none", ship[p].lastman) /\ \E h \in Player : h = ship[p].at /\ BeamUpFromShip(p, h, capacity)
    <3> PICK h \in Player : h = ship[p].at /\ BeamUpFromShip(p, h, capacity)
      BY <2>3
    <3>1. /\ ship' = [ship EXCEPT ![p] = OneUp(p, @), ![h] = Gives(p, @)]
          /\ ship[h].armies # 0 /\ ~Full(p, capacity) /\ h # p
      BY <1>6, <2>3 DEF BeamUpFromShip
    <3>2. ship'[p] = OneUp(p, ship[p]) /\ ship'[h] = Gives(p, ship[h]) /\ \A q \in Player \ {p, h} : ship'[q] = ship[q]
      BY <3>1
    <3>3. /\ ship'[p].armies = ship[p].armies + 1 /\ ship'[p].at = ship[p].at
          /\ ship'[h].armies = ship[h].armies - 1 /\ ship'[h].at = ship[h].at
      BY <1>4, <1>5, <3>2
    <3>4. ship[p].armies < maxarmies[p]
      BY <1>5, <3>1 DEF Full
    <3> QED BY <1>5, <3>1, <3>2, <3>3, <3>4 DEF HInv, Fits
  <2> QED BY <1>7, <2>1, <2>2, <2>3 DEF beammeupscotty, BeamUpFromPlanet
<1>8. ASSUME NEW p \in Player, NEW killed \in 0 .. 1, beamdown(p, killed)
      PROVE  HInv'
  <2>1. ship[p].armies # 0
    BY <1>8 DEF beamdown
  <2>2. CASE ship'[p].armies = ship[p].armies - 1 /\ ship'[p].at = ship[p].at
             /\ \A q \in Player \ {p} : ship'[q] = ship[q]
    BY <1>5, <2>1, <2>2 DEF HInv, Fits
  <2>3. CASE \E l \in Planet : BeamDownToOwn(p, l)
    <3>1. ship' = [ship EXCEPT ![p] = OneDown(p, @)]
      BY <2>3 DEF BeamDownToOwn
    <3>2. ship'[p] = OneDown(p, ship[p]) /\ \A q \in Player \ {p} : ship'[q] = ship[q]
      BY <3>1
    <3> QED BY <1>4, <1>5, <2>2, <3>2
  <2>4. CASE \E l \in Planet : BeamDownToForeign(p, l, killed)
    <3>1. ship' = [ship EXCEPT ![p].armies = @ - 1]
      BY <2>4 DEF BeamDownToForeign
    <3>2. ship'[p] = Aboard(ship[p], ship[p].armies - 1) /\ \A q \in Player \ {p} : ship'[q] = ship[q]
      BY <3>1 DEF Aboard
    <3>3. ship[p].armies - 1 \in Int
      BY <1>5
    <3> QED BY <1>2, <1>5, <2>2, <3>2, <3>3
  <2>5. CASE \E h \in Player : h = ship[p].at /\ BeamDownToShip(p, h)
    <3> PICK h \in Player : h = ship[p].at /\ BeamDownToShip(p, h)
      BY <2>5
    <3> DEFINE Less(s) == Aboard(s, s.armies - 1)
               More(s) == Aboard(s, s.armies + 1)
    <3>1. ship' = [ship EXCEPT ![p] = Less(@), ![h] = More(@)] /\ ship[h].armies # maxarmies[h] /\ h # p
      BY <1>6 DEF BeamDownToShip
    <3>2. \A s \in Ships : /\ Less(s).armies = s.armies - 1 /\ Less(s).at = s.at
                          /\ More(s).armies = s.armies + 1 /\ More(s).at = s.at
      <4>1. \A s \in Ships : s.armies - 1 \in Int /\ s.armies + 1 \in Int
        BY <1>3
      <4> QED BY <1>2, <4>1
    <3> HIDE DEF Less, More
    <3>3. ship'[p] = Less(ship[p]) /\ ship'[h] = More(ship[h]) /\ \A q \in Player \ {p, h} : ship'[q] = ship[q]
      BY <3>1
    <3>4. /\ ship'[p].armies = ship[p].armies - 1 /\ ship'[p].at = ship[p].at
          /\ ship'[h].armies = ship[h].armies + 1 /\ ship'[h].at = ship[h].at
      BY <1>5, <3>2, <3>3
    <3> QED BY <1>5, <2>1, <3>1, <3>3, <3>4 DEF HInv, Fits
  <2> QED BY <1>8, <2>3, <2>4, <2>5 DEF beamdown
<1> QED BY <1>7, <1>8 DEF beam

LEMMA StepFits == ASSUME Fighters = {}, PInv, HInv, [Next]_vars PROVE HInv'
<1> USE DEF PInv, Types
<1>1. CASE UNCHANGED ship
  BY <1>1 DEF HInv
<1>2. ASSUME NEW p \in Player, NEW order, NEW lastman, Sets(p, order, lastman) PROVE HInv'
  <2>1. \A q \in Player : ship'[q].armies = ship[q].armies /\ ship'[q].at = ship[q].at
    BY <1>2 DEF Sets, Ships
  <2> QED BY <2>1, SameFits DEF HInv
<1>3. CASE Daemon
  <2>1. CASE \E p \in Player, rnd \in 1 .. 3, hostile \in BOOLEAN : pbomb(p, rnd, hostile)
    BY <1>1, <1>2, <2>1 DEF pbomb
  <2>2. CASE (\E l \in Planet : revolt(l)) \/ (\E l \in Planet, n \in -2 .. 2 : pop_one_planet(l, n))
             \/ udsurrend \/ udtourny
    BY <1>1, <2>2 DEF revolt, pop_one_planet, udsurrend, udtourny
  <2> QED BY <1>3, <2>1, <2>2, BeamedFits DEF Daemon
<1>4. ASSUME NEW p \in Player, Process(p) PROVE HInv'
  <2>1. CASE \E order, lastman : Sets(p, order, lastman)
    BY <1>2, <2>1
  <2>2. CASE ShieldUp(p) \/ Stop(p) \/ bomb_planet(p) \/ beam_up(p) \/ beam_down(p)
             \/ \E capacity \in 0 .. maxarmies[p] : operate_transporters(p, capacity)
    BY <2>1, <2>2 DEF ShieldUp, Stop, bomb_planet, beam_up, beam_down, operate_transporters
  <2>3. CASE Enter(p) \/ FreeSlot(p)
    <3>1. ship'[p].armies = 0 /\ ship'[p].at \in {"space", "dead"}
      BY <2>3 DEF Enter, FreeSlot, NoShip, Ships
    <3>2. \A q \in Player \ {p} : ship'[q] = ship[q]
      BY <2>3 DEF Enter, FreeSlot
    <3>3. maxarmies[p] \in Nat /\ {"space", "dead"} \cap Player = {}
      BY PlanetsAssumption DEF PlanetsAssumption
    <3> QED BY <3>1, <3>2, <3>3 DEF HInv, Fits
  <2>4. CASE Die(p) \/ Dislodged(p) \/ Steer(p) \/ \E a \in Reached \cup Hosts : Arrive(p, a)
    <3>1. \A q \in Player :
            /\ ship'[q].armies = ship[q].armies
            /\ \/ ship'[q].at \in {ship[q].at, "space", "dead"}
               \/ q \notin Hosts /\ ship'[q].at \in Reached \cup Hosts
      <4>1. CASE Die(p) \/ Dislodged(p)
        BY <4>1 DEF Die, Dislodged, Thrown, Ships
      <4>2. CASE Steer(p)
        BY <4>2 DEF Steer, Ships
      <4>3. CASE \E a \in Reached \cup Hosts : Arrive(p, a)
        BY <4>3 DEF Arrive, Ships
      <4> QED BY <2>4, <4>1, <4>2, <4>3
    <3>2. {"space", "dead"} \cap Player = {} /\ Reached \cap Player = {}
      BY PlanetsAssumption DEF PlanetsAssumption
    <3> QED BY <3>1, <3>2 DEF HInv, Fits
  <2> QED BY <1>4, <2>2, <2>3, <2>4 DEF Process
<1> QED BY <1>1, <1>3, <1>4 DEF Next, vars

(* Where no ship carries fighters for missiles, no ship's hold is ever     *)
(* overfull or owed armies, whatever orders the daemon still finds set.    *)
THEOREM PlanetsHold == ASSUME Fighters = {} PROVE Spec => []HoldRespected
<1>1. Init => HInv
  BY PlanetsAssumption DEF Init, HInv, Fits, NoShip, PlanetsAssumption
<1>2. PInv /\ HInv /\ [Next]_vars => HInv'
  BY StepFits
<1>3. HInv => HoldRespected
  BY DEF HInv, Fits, HoldRespected
<1> QED BY <1>1, <1>2, <1>3, Invariant, PTL DEF Spec

-----------------------------------------------------------------------------
(* Sums.  The sum of a function adds its values in the order in which      *)
(* CHOOSE picks arguments, which is the same for all functions of one      *)
(* domain: two sums can be compared one subset after the other.            *)
Pick(s) == CHOOSE x \in s : TRUE
Sums(f, g, S) ==
  [s \in SUBSET S |-> IF s = {} THEN 0 ELSE f[Pick(s)] + g[s \ {Pick(s)}]]
SumTable(f, S) == CHOOSE g : g = Sums(f, g, S)

(* The sum is the last entry of its table.                                 *)
LEMMA SumIs ==
  ASSUME NEW f
  PROVE  SumFunction(f) = SumTable(f, DOMAIN f)[DOMAIN f]
BY Zenon DEF SumFunction, SumFunctionOnSet, FoldFunctionOnSet, MapThenFoldSet, Pick, Sums, SumTable

(* A nonempty set of naturals has a least member.                          *)
LEMMA LeastNatural ==
  ASSUME NEW X \in SUBSET Nat, X # {}
  PROVE  \E m \in X : \A k \in X : m <= k
<1>1. PICK m \in X : \A k \in Nat : <<k, m>> \in OpToRel(<, Nat) => k \notin X
  BY NatLessThanWellFounded, WFMin, Zenon
<1>2. \A k \in X : ~(k < m)
  BY <1>1, Zenon DEF OpToRel
<1> QED
  BY <1>2

(* What is picked is there, and leaves one less.                           *)
LEMMA PickFacts ==
  ASSUME NEW S, IsFiniteSet(S), NEW s \in SUBSET S, s # {}
  PROVE  /\ Pick(s) \in s /\ s \ {Pick(s)} \in SUBSET S
         /\ Cardinality(s) \in Nat /\ Cardinality(s \ {Pick(s)}) \in Nat
         /\ Cardinality(s \ {Pick(s)}) = Cardinality(s) - 1
<1>1. Pick(s) \in s
  BY DEF Pick
<1>2. IsFiniteSet(s)
  BY FS_Subset
<1> QED
  BY <1>1, <1>2, FS_RemoveElement, FS_CardinalityType

(* Whatever holds of nothing, and of a set if it holds of what is left of  *)
(* it when one is picked, holds of all.                                    *)
LEMMA PickInduction ==
  ASSUME NEW S, IsFiniteSet(S), NEW G, {} \in G,
         \A s \in SUBSET S : s # {} /\ s \ {Pick(s)} \in G => s \in G
  PROVE  SUBSET S \subseteq G
<1> DEFINE Bad == {t \in SUBSET S : t \notin G}
           X == {Cardinality(t) : t \in Bad}
<1>1. SUFFICES ASSUME Bad # {} PROVE FALSE
  OBVIOUS
<1>2. \A t \in SUBSET S : Cardinality(t) \in Nat
  BY FS_Subset, FS_CardinalityType
<1>3. X \in SUBSET Nat /\ X # {}
  BY <1>1, <1>2
<1> HIDE DEF X
<1>4. PICK m \in X : \A k \in X : m <= k
  BY <1>3, LeastNatural
<1>5. PICK t \in Bad : m = Cardinality(t)
  BY <1>4 DEF X
<1>6. t # {}
  BY <1>5
<1> DEFINE r == t \ {Pick(t)}
<1>7. r \in SUBSET S /\ Cardinality(r) \in Nat /\ Cardinality(r) = m - 1 /\ m \in Nat
  BY <1>5, <1>6, PickFacts
<1>8. r \in Bad
  BY <1>5, <1>6, <1>7
<1>9. Cardinality(r) \in X
  BY <1>8 DEF X
<1> HIDE DEF r
<1> QED
  BY <1>4, <1>7, <1>9

(* There is such a table: one that is right up to n elements can be made   *)
(* right up to n + 1.                                                      *)
RightUpTo(f, g, S, n) ==
  \A s \in SUBSET S : Cardinality(s) <= n => g[s] = Sums(f, g, S)[s]

(* A table that is right up to a size makes one that is right one further. *)
LEMMA TableGrows ==
  ASSUME NEW S, IsFiniteSet(S), NEW f, NEW n \in Nat, NEW g, RightUpTo(f, g, S, n)
  PROVE  RightUpTo(f, Sums(f, g, S), S, n + 1)
<1> DEFINE h == Sums(f, g, S)
<1>1. SUFFICES ASSUME NEW s \in SUBSET S, Cardinality(s) <= n + 1
               PROVE  h[s] = Sums(f, h, S)[s]
  BY DEF RightUpTo
<1>2. CASE s = {}
  BY <1>2 DEF Sums
<1>3. CASE s # {}
  <2> DEFINE r == s \ {Pick(s)}
  <2>1. r \in SUBSET S /\ Cardinality(r) <= n
    BY <1>1, <1>3, PickFacts
  <2>2. g[r] = h[r]
    BY <2>1 DEF RightUpTo
  <2>3. h[s] = f[Pick(s)] + g[r] /\ Sums(f, h, S)[s] = f[Pick(s)] + h[r]
    BY <1>3 DEF Sums
  <2> QED
    BY <2>2, <2>3
<1> QED
  BY <1>2, <1>3

(* For every size there is a table that is right up to it.                 *)
LEMMA TablesUpTo ==
  ASSUME NEW S, IsFiniteSet(S), NEW f
  PROVE  \A n \in Nat : \E g : RightUpTo(f, g, S, n)
<1> DEFINE X == {n \in Nat : ~\E g : RightUpTo(f, g, S, n)}
<1>1. SUFFICES ASSUME X # {} PROVE FALSE
  OBVIOUS
<1>2. PICK m \in X : \A k \in X : m <= k
  BY <1>1, LeastNatural
<1>3. CASE m = 0
  <2> DEFINE g == [s \in SUBSET S |-> 0]
  <2>1. \A s \in SUBSET S : Cardinality(s) <= 0 => s = {}
    BY FS_Subset, FS_CardinalityType, FS_EmptySet
  <2>2. RightUpTo(f, g, S, 0)
    BY <2>1 DEF RightUpTo, Sums
  <2> QED
    BY <1>3, <2>2
<1>4. CASE m # 0
  <2>1. m - 1 \in Nat /\ m - 1 \notin X /\ (m - 1) + 1 = m
    BY <1>2, <1>4
  <2>2. PICK g : RightUpTo(f, g, S, m - 1)
    BY <2>1
  <2>3. RightUpTo(f, Sums(f, g, S), S, (m - 1) + 1)
    BY <2>1, <2>2, TableGrows
  <2> QED
    BY <2>1, <2>3
<1> QED
  BY <1>3, <1>4

(* The table of all subsets is right.                                      *)
LEMMA TableIs ==
  ASSUME NEW S, IsFiniteSet(S), NEW f
  PROVE  SumTable(f, S) = Sums(f, SumTable(f, S), S)
<1> DEFINE n == Cardinality(S)
<1>1. n \in Nat /\ \A s \in SUBSET S : Cardinality(s) <= n
  BY FS_Subset, FS_CardinalityType
<1> HIDE DEF n
<1>2. PICK g : RightUpTo(f, g, S, n)
  BY <1>1, TablesUpTo
<1> DEFINE h == Sums(f, g, S)
<1>3. \A s \in SUBSET S : g[s] = h[s]
  BY <1>1, <1>2 DEF RightUpTo
<1>4. h = Sums(f, h, S)
  <2>1. \A s \in SUBSET S : s # {} => s \ {Pick(s)} \in SUBSET S
    OBVIOUS
  <2> QED
    BY <1>3, <2>1 DEF Sums
<1> QED
  BY <1>4 DEF SumTable

(* Its entries add what is picked to the entry of the rest.                *)
LEMMA SumStep ==
  ASSUME NEW S, IsFiniteSet(S), NEW f
  PROVE  /\ SumTable(f, S)[{}] = 0
         /\ \A s \in SUBSET S : s # {} =>
              SumTable(f, S)[s] = f[Pick(s)] + SumTable(f, S)[s \ {Pick(s)}]
<1> DEFINE g == SumTable(f, S)
<1>1. g = Sums(f, g, S)
  BY TableIs
<1> HIDE DEF g
<1>2. g[{}] = 0 /\ \A s \in SUBSET S : s # {} => g[s] = f[Pick(s)] + g[s \ {Pick(s)}]
  BY <1>1 DEF Sums
<1> QED
  BY <1>2 DEF g

(* The sum of integers is one.                                             *)
LEMMA SumInt ==
  ASSUME NEW S, IsFiniteSet(S), NEW f \in [S -> Int]
  PROVE  \A s \in SUBSET S : SumTable(f, S)[s] \in Int
<1> DEFINE g == SumTable(f, S)
           G == {s \in SUBSET S : g[s] \in Int}
<1>1. g[{}] = 0 /\ \A s \in SUBSET S : s # {} => g[s] = f[Pick(s)] + g[s \ {Pick(s)}]
  BY SumStep
<1> HIDE DEF g
<1>2. \A s \in SUBSET S : s # {} /\ s \ {Pick(s)} \in G => s \in G
  BY <1>1, PickFacts
<1>3. {} \in G
  BY <1>1
<1>4. SUBSET S \subseteq G
  <2> HIDE DEF G
  <2> QED
    BY <1>2, <1>3, PickInduction
<1> QED
  BY <1>4 DEF g

(* A sum does not grow if none of its parts does.                          *)
LEMMA SumFalls ==
  ASSUME NEW S, IsFiniteSet(S), NEW f \in [S -> Int], NEW h \in [S -> Int],
         \A x \in S : h[x] <= f[x]
  PROVE  SumFunction(h) <= SumFunction(f) /\ SumFunction(f) \in Int /\ SumFunction(h) \in Int
<1> DEFINE a == SumTable(f, S)
           b == SumTable(h, S)
           G == {s \in SUBSET S : b[s] <= a[s]}
<1>1. /\ a[{}] = 0 /\ \A s \in SUBSET S : s # {} => a[s] = f[Pick(s)] + a[s \ {Pick(s)}]
      /\ b[{}] = 0 /\ \A s \in SUBSET S : s # {} => b[s] = h[Pick(s)] + b[s \ {Pick(s)}]
  BY SumStep
<1>2. \A s \in SUBSET S : a[s] \in Int /\ b[s] \in Int
  BY SumInt
<1>3. SumFunction(f) = a[S] /\ SumFunction(h) = b[S]
  BY SumIs
<1> HIDE DEF a, b
<1>4. ASSUME NEW s \in SUBSET S, s # {}, s \ {Pick(s)} \in G PROVE s \in G
  <2>1. Pick(s) \in S /\ s \ {Pick(s)} \in SUBSET S
    BY <1>4, PickFacts
  <2> DEFINE x == Pick(s)
             r == s \ {x}
  <2>2. a[s] = f[x] + a[r] /\ b[s] = h[x] + b[r] /\ b[r] <= a[r]
    BY <1>1, <1>4
  <2>3. f[x] \in Int /\ h[x] \in Int /\ h[x] <= f[x] /\ a[r] \in Int /\ b[r] \in Int
    BY <2>1, <1>2
  <2> HIDE DEF x, r
  <2>4. b[s] <= a[s]
    BY <2>2, <2>3
  <2> QED
    BY <2>4
<1>5. {} \in G
  BY <1>1
<1>6. SUBSET S \subseteq G
  <2> HIDE DEF G
  <2> QED
    BY <1>4, <1>5, PickInduction
<1> QED
  BY <1>2, <1>3, <1>6

(* A sum changes as its one part that changes.                             *)
LEMMA SumChanges ==
  ASSUME NEW S, IsFiniteSet(S), NEW f \in [S -> Int], NEW x \in S, NEW v \in Int
  PROVE  /\ SumFunction([f EXCEPT ![x] = v]) = SumFunction(f) + (v - f[x])
         /\ SumFunction(f) \in Int
<1> DEFINE h == [f EXCEPT ![x] = v]
           a == SumTable(f, S)
           b == SumTable(h, S)
           G == {s \in SUBSET S : b[s] = a[s] + (IF x \in s THEN v - f[x] ELSE 0)}
<1>0. h \in [S -> Int] /\ h[x] = v /\ \A y \in S \ {x} : h[y] = f[y]
  OBVIOUS
<1>d. DOMAIN h = S /\ DOMAIN f = S
  OBVIOUS
<1> HIDE DEF h
<1>1. /\ a[{}] = 0 /\ \A s \in SUBSET S : s # {} => a[s] = f[Pick(s)] + a[s \ {Pick(s)}]
      /\ b[{}] = 0 /\ \A s \in SUBSET S : s # {} => b[s] = h[Pick(s)] + b[s \ {Pick(s)}]
  BY SumStep
<1>2. \A s \in SUBSET S : a[s] \in Int /\ b[s] \in Int
  BY <1>0, SumInt
<1>3. SumFunction(f) = a[S] /\ SumFunction(h) = b[S]
  BY <1>d, SumIs
<1> HIDE DEF a, b
<1>4. ASSUME NEW s \in SUBSET S, s # {}, s \ {Pick(s)} \in G PROVE s \in G
  <2>1. Pick(s) \in s /\ Pick(s) \in S /\ s \ {Pick(s)} \in SUBSET S
    BY <1>4, PickFacts
  <2> DEFINE y == Pick(s)
             r == s \ {y}
  <2>2. a[s] = f[y] + a[r] /\ b[s] = h[y] + b[r] /\ b[r] = a[r] + (IF x \in r THEN v - f[x] ELSE 0)
    BY <1>1, <1>4
  <2>3. f[y] \in Int /\ h[y] \in Int /\ a[r] \in Int /\ b[r] \in Int /\ f[x] \in Int
    BY <2>1, <1>0, <1>2
  <2>4. CASE y = x
    <3>1. x \notin r /\ x \in s /\ h[y] = v
      BY <2>1, <2>4, <1>0
    <3> HIDE DEF y, r
    <3>2. b[s] = a[s] + (v - f[x])
      BY <2>2, <2>3, <2>4, <3>1
    <3> QED
      BY <3>1, <3>2
  <2>5. CASE y # x
    <3>1. (x \in r <=> x \in s) /\ h[y] = f[y]
      BY <2>1, <2>5, <1>0
    <3> HIDE DEF y, r
    <3>2. b[s] = a[s] + (IF x \in s THEN v - f[x] ELSE 0)
      BY <2>2, <2>3, <3>1
    <3> QED
      BY <3>2
  <2> QED
    BY <2>4, <2>5
<1>5. {} \in G
  BY <1>1
<1>6. SUBSET S \subseteq G
  <2> HIDE DEF G
  <2> QED
    BY <1>4, <1>5, PickInduction
<1>7. b[S] = a[S] + (v - f[x]) /\ a[S] \in Int
  BY <1>2, <1>6
<1> QED
  BY <1>3, <1>7 DEF h

-----------------------------------------------------------------------------
(* Armies are moved, and counted by the sums over planets and crews.       *)
Crews(s) == [p \in Player |-> s[p].armies]
Finite == IsFiniteSet(Player) /\ IsFiniteSet(Planet)
NoneBorn == Armies' <= Armies

(* The crews are as many as the ships have aboard.                         *)
LEMMA CrewsFacts ==
  ASSUME NEW s \in [Player -> Ships]
  PROVE  Crews(s) \in [Player -> Int] /\ \A p \in Player : Crews(s)[p] = s[p].armies
BY DEF Crews, Ships

(* All armies are those of the planets and the crews.                      *)
LEMMA ArmiesIs == Armies = SumFunction(armies) + SumFunction(Crews(ship))
BY DEF Armies, Crews

(* Nothing grows.                                                          *)
LEMMA NothingGrows ==
  ASSUME Finite, PInv, PInv', \A l \in Planet : armies'[l] <= armies[l],
         \A p \in Player : ship'[p].armies <= ship[p].armies
  PROVE  NoneBorn
<1>1. SumFunction(armies') <= SumFunction(armies) /\ SumFunction(armies) \in Int /\ SumFunction(armies') \in Int
  <2>1. armies \in [Planet -> Int] /\ armies' \in [Planet -> Int]
    BY DEF PInv, Types
  <2> QED
    BY <2>1, SumFalls DEF Finite
<1>2. /\ SumFunction(Crews(ship')) <= SumFunction(Crews(ship))
      /\ SumFunction(Crews(ship)) \in Int /\ SumFunction(Crews(ship')) \in Int
  <2>1. ship \in [Player -> Ships] /\ ship' \in [Player -> Ships]
    BY DEF PInv, Types
  <2>2. Crews(ship) \in [Player -> Int] /\ Crews(ship') \in [Player -> Int]
        /\ \A p \in Player : Crews(ship')[p] <= Crews(ship)[p]
    BY <2>1, CrewsFacts
  <2> HIDE DEF Crews
  <2> QED
    BY <2>2, SumFalls DEF Finite
<1> QED
  BY <1>1, <1>2 DEF NoneBorn, Armies, Crews

(* An army is moved between a planet and a ship, or lost on the way.       *)
LEMMA PlanetTrade ==
  ASSUME Finite, PInv, PInv', NEW p \in Player, NEW l \in Planet, NEW n \in Int,
         armies' = [armies EXCEPT ![l] = n],
         \A q \in Player \ {p} : ship'[q].armies = ship[q].armies,
         n + ship'[p].armies <= armies[l] + ship[p].armies
  PROVE  NoneBorn
<1>1. ship \in [Player -> Ships] /\ ship' \in [Player -> Ships] /\ armies \in [Planet -> Int]
  BY DEF PInv, Types
<1> DEFINE c == Crews(ship)
           d == Crews(ship')
           m == ship'[p].armies
<1>2. c \in [Player -> Int] /\ d \in [Player -> Int] /\ m \in Int
      /\ \A q \in Player : c[q] = ship[q].armies /\ d[q] = ship'[q].armies
  BY <1>1, CrewsFacts DEF Ships
<1>3. Armies = SumFunction(armies) + SumFunction(c) /\ Armies' = SumFunction(armies') + SumFunction(d)
  BY DEF Armies, Crews
<1>7. d[p] = m /\ c[p] = ship[p].armies
  BY <1>2
<1>8. \A q \in Player \ {p} : d[q] = c[q]
  BY <1>2
<1> HIDE DEF c, d, m
<1>4. d = [c EXCEPT ![p] = m]
  BY <1>2, <1>7, <1>8
<1>5. SumFunction(d) = SumFunction(c) + (m - c[p]) /\ SumFunction(c) \in Int
  <2>1. SumFunction([c EXCEPT ![p] = m]) = SumFunction(c) + (m - c[p]) /\ SumFunction(c) \in Int
    BY <1>2, SumChanges DEF Finite
  <2> QED
    BY <1>4, <2>1, Zenon
<1>6. SumFunction(armies') = SumFunction(armies) + (n - armies[l]) /\ SumFunction(armies) \in Int
  BY <1>1, SumChanges DEF Finite
<1>9. n + m <= armies[l] + c[p] /\ armies[l] \in Int /\ c[p] \in Int
  BY <1>1, <1>2, <1>7 DEF m
<1> QED
  BY <1>2, <1>3, <1>5, <1>6, <1>9 DEF NoneBorn

(* Two parts of a sum change.                                              *)
LEMMA SumTwo ==
  ASSUME NEW S, IsFiniteSet(S), NEW f \in [S -> Int], NEW g \in [S -> Int],
         NEW x \in S, NEW y \in S, x # y, \A z \in S \ {x, y} : g[z] = f[z]
  PROVE  SumFunction(g) = SumFunction(f) + (g[x] - f[x]) + (g[y] - f[y])
<1> DEFINE v == g[x]
           w == g[y]
           e == [f EXCEPT ![x] = v]
           i == [e EXCEPT ![y] = w]
<1>0. v \in Int /\ w \in Int /\ v = g[x] /\ w = g[y]
  OBVIOUS
<1> HIDE DEF v, w
<1>1. e \in [S -> Int] /\ e[y] = f[y] /\ f[x] \in Int /\ f[y] \in Int
  BY <1>0
<1>2. SumFunction(e) = SumFunction(f) + (v - f[x]) /\ SumFunction(f) \in Int
  BY <1>0, SumChanges
<1>3. e \in [S -> Int] /\ \A z \in S \ {x} : e[z] = f[z]
  BY <1>0
<1>6. e[x] = v
  BY <1>0
<1> HIDE DEF e
<1>7. i \in [S -> Int] /\ i[y] = w /\ \A z \in S \ {y} : i[z] = e[z]
  BY <1>0, <1>1, <1>3
<1>8. g = i
  <2> HIDE DEF i
  <2>1. \A z \in S : g[z] = i[z]
    BY <1>0, <1>3, <1>6, <1>7
  <2> QED
    BY <1>7, <2>1
<1>4. SumFunction(i) = SumFunction(e) + (w - e[y])
  BY <1>0, <1>1, SumChanges
<1> HIDE DEF i
<1>5. SumFunction(g) = SumFunction(e) + (w - e[y])
  BY <1>8, <1>4
<1> QED
  BY <1>0, <1>1, <1>2, <1>5

(* An army is handed from ship to ship.                                    *)
LEMMA ShipTrade ==
  ASSUME Finite, PInv, PInv', NEW p \in Player, NEW h \in Player, p # h, armies' = armies,
         \A q \in Player \ {p, h} : ship'[q].armies = ship[q].armies,
         ship'[p].armies + ship'[h].armies <= ship[p].armies + ship[h].armies
  PROVE  NoneBorn
<1>1. ship \in [Player -> Ships] /\ ship' \in [Player -> Ships] /\ armies \in [Planet -> Int]
  BY DEF PInv, Types
<1> DEFINE c == Crews(ship)
           d == Crews(ship')
           m == ship'[p].armies
           n == ship'[h].armies
<1>2. c \in [Player -> Int] /\ d \in [Player -> Int] /\ m \in Int /\ n \in Int
      /\ \A q \in Player : c[q] = ship[q].armies /\ d[q] = ship'[q].armies
  BY <1>1, CrewsFacts DEF Ships
<1>3. Armies = SumFunction(armies) + SumFunction(c) /\ Armies' = SumFunction(armies') + SumFunction(d)
  BY DEF Armies, Crews
<1>7. d[p] = m /\ d[h] = n /\ c[p] = ship[p].armies /\ c[h] = ship[h].armies
  BY <1>2
<1>8. \A q \in Player \ {p, h} : d[q] = c[q]
  BY <1>2
<1>9. m + n <= c[p] + c[h]
  BY <1>7
<1> HIDE DEF c, d, m, n
<1>5. SumFunction(c) \in Int /\ SumFunction(d) = SumFunction(c) + (d[p] - c[p]) + (d[h] - c[h])
  <2>1. SumFunction(d) = SumFunction(c) + (d[p] - c[p]) + (d[h] - c[h])
    BY <1>2, <1>8, SumTwo DEF Finite
  <2> QED
    BY <1>2, <2>1, SumFalls DEF Finite
<1>10. SumFunction(armies) \in Int
  BY <1>1, SumFalls DEF Finite
<1>11. c[p] \in Int /\ c[h] \in Int
  BY <1>2
<1> QED
  BY <1>2, <1>3, <1>5, <1>7, <1>9, <1>10, <1>11 DEF NoneBorn

(* What beaming does to what is aboard.                                    *)
LEMMA BeamedAboard ==
  ASSUME Fighters = {}, NEW q \in Player, NEW s \in Ships
  PROVE  /\ KAO(OneUp(q, s)).armies = s.armies + 1 /\ OneUp(q, s).armies = s.armies + 1
         /\ OneDown(q, s).armies = s.armies - 1 /\ Gives(q, s).armies = s.armies - 1
         /\ s.armies \in Int
<1> DEFINE n == s.armies + 1
           m == s.armies - 1
<1>1. n \in Int /\ m \in Int /\ s.armies \in Int
  BY DEF Ships
<1>2. OneUp(q, s) = [s EXCEPT !.armies = n] /\ OneDown(q, s) = [s EXCEPT !.armies = m]
      /\ Gives(q, s) = [s EXCEPT !.armies = m]
  BY DEF OneUp, OneDown, Gives
<1> HIDE DEF n, m
<1>3. OneUp(q, s).armies = n /\ OneDown(q, s).armies = m /\ Gives(q, s).armies = m
  BY <1>2 DEF Ships
<1>4. OneUp(q, s) \in Ships
  BY <1>1, <1>2, FieldSet
<1>5. \A r \in Ships : KAO(r).armies = r.armies
  BY DEF KAO, Ships
<1> QED
  BY <1>1, <1>3, <1>4, <1>5 DEF n, m

(* An army that is beamed, by whatever way, is not there twice.            *)
LEMMA BeamConserves ==
  ASSUME Fighters = {}, Finite, PInv, PInv', HInv, beam
  PROVE  NoneBorn
<1> USE DEF PInv, Types
<1>1. \A q \in Player : ship[q] \in Ships /\ ship[q].armies \in Int
  BY DEF Ships
<1>2. \A q \in Player : ship[q].at \in Player => ship[q].at # q
  BY PlanetsAssumption DEF HInv, Fits, PlanetsAssumption
<1>3. ASSUME NEW p \in Player, NEW order, NEW lastman, Sets(p, order, lastman) PROVE NoneBorn
  <2>1. \A q \in Player : ship'[q].armies = ship[q].armies
    BY <1>3 DEF Sets, Ships
  <2>2. armies' = armies
    BY <1>3 DEF Sets
  <2> QED
    BY <2>1, <2>2, <1>1, NothingGrows
<1>4. ASSUME NEW p \in Player, NEW capacity \in 0 .. maxarmies[p], beammeupscotty(p, capacity)
      PROVE  NoneBorn
  <2>1. CASE Sets(p, "none", ship[p].lastman)
    BY <1>3, <2>1
  <2>2. CASE ~Sets(p, "none", ship[p].lastman) /\ \E l \in Planet : BeamUpFromPlanet(p, l, capacity)
    <3> PICK l \in Planet : BeamUpFromPlanet(p, l, capacity)
      BY <2>2
    <3>1. armies' = [armies EXCEPT ![l] = armies[l] - 1] /\ ship' = [ship EXCEPT ![p] = KAO(OneUp(p, @))]
      BY <2>2 DEF BeamUpFromPlanet
    <3>2. ship'[p].armies = ship[p].armies + 1
      BY <1>1, <3>1, BeamedAboard
    <3>3. \A q \in Player \ {p} : ship'[q].armies = ship[q].armies
      BY <3>1
    <3>4. armies[l] - 1 \in Int /\ (armies[l] - 1) + ship'[p].armies <= armies[l] + ship[p].armies
      BY <1>1, <3>2
    <3> QED
      BY <3>1, <3>3, <3>4, PlanetTrade
  <2>3. CASE ~Sets(p, "none", ship[p].lastman) /\ \E h \in Player : h = ship[p].at /\ BeamUpFromShip(p, h, capacity)
    <3> PICK h \in Player : h = ship[p].at /\ BeamUpFromShip(p, h, capacity)
      BY <2>3
    <3>1. ship' = [ship EXCEPT ![p] = OneUp(p, @), ![h] = Gives(p, @)] /\ h # p /\ armies' = armies
      BY <1>2, <2>3 DEF BeamUpFromShip, worlds
    <3>2. ship'[p] = OneUp(p, ship[p]) /\ ship'[h] = Gives(p, ship[h]) /\ \A q \in Player \ {p, h} : ship'[q] = ship[q]
      BY <3>1
    <3>3. ship'[p].armies = ship[p].armies + 1 /\ ship'[h].armies = ship[h].armies - 1
      BY <1>1, <3>2, BeamedAboard
    <3>4. ship'[p].armies + ship'[h].armies <= ship[p].armies + ship[h].armies
      BY <1>1, <3>3
    <3> QED
      BY <3>1, <3>2, <3>4, ShipTrade
  <2> QED
    BY <1>4, <2>1, <2>2, <2>3 DEF beammeupscotty
<1>5. ASSUME NEW p \in Player, NEW killed \in 0 .. 1, beamdown(p, killed)
      PROVE  NoneBorn
  <2>1. CASE \E l \in Planet : BeamDownToOwn(p, l)
    <3> PICK l \in Planet : BeamDownToOwn(p, l)
      BY <2>1
    <3>1. armies' = [armies EXCEPT ![l] = armies[l] + 1] /\ ship' = [ship EXCEPT ![p] = OneDown(p, @)]
      BY DEF BeamDownToOwn
    <3>2. ship'[p].armies = ship[p].armies - 1
      BY <1>1, <3>1, BeamedAboard
    <3>3. \A q \in Player \ {p} : ship'[q].armies = ship[q].armies
      BY <3>1
    <3>4. armies[l] + 1 \in Int /\ (armies[l] + 1) + ship'[p].armies <= armies[l] + ship[p].armies
      BY <1>1, <3>2
    <3> QED
      BY <3>1, <3>3, <3>4, PlanetTrade
  <2>2. CASE \E l \in Planet : BeamDownToForeign(p, l, killed)
    <3> PICK l \in Planet : BeamDownToForeign(p, l, killed)
      BY <2>2
    <3> DEFINE left == armies[l] - killed
               n == IF left < 0 THEN -left ELSE left
    <3>1. armies' = [armies EXCEPT ![l] = n] /\ ship' = [ship EXCEPT ![p].armies = @ - 1]
          /\ (killed = 1 \/ armies[l] > 0)
      BY DEF BeamDownToForeign
    <3>2. armies[l] \in Nat
      OBVIOUS
    <3>3. n \in Int /\ n <= armies[l] + 1
      BY <3>1, <3>2
    <3>4. ship'[p].armies = ship[p].armies - 1
      BY <1>1, <3>1 DEF Ships
    <3>5. \A q \in Player \ {p} : ship'[q].armies = ship[q].armies
      BY <3>1
    <3> HIDE DEF n
    <3>6. n + ship'[p].armies <= armies[l] + ship[p].armies
      BY <1>1, <3>2, <3>3, <3>4
    <3> QED
      BY <3>1, <3>3, <3>5, <3>6, PlanetTrade
  <2>3. CASE \E h \in Player : h = ship[p].at /\ BeamDownToShip(p, h)
    <3> PICK h \in Player : h = ship[p].at /\ BeamDownToShip(p, h)
      BY <2>3
    <3> DEFINE Less(s) == Aboard(s, s.armies - 1)
               More(s) == Aboard(s, s.armies + 1)
    <3>1. ship' = [ship EXCEPT ![p] = Less(@), ![h] = More(@)] /\ h # p /\ armies' = armies
      BY <1>2 DEF BeamDownToShip, worlds
    <3>2. \A s \in Ships : Less(s).armies = s.armies - 1 /\ More(s).armies = s.armies + 1
      BY DEF Aboard, Ships
    <3> HIDE DEF Less, More
    <3>3. ship'[p] = Less(ship[p]) /\ ship'[h] = More(ship[h]) /\ \A q \in Player \ {p, h} : ship'[q] = ship[q]
      BY <3>1
    <3>4. ship'[p].armies = ship[p].armies - 1 /\ ship'[h].armies = ship[h].armies + 1
      BY <1>1, <3>2, <3>3
    <3>5. ship'[p].armies + ship'[h].armies <= ship[p].armies + ship[h].armies
      BY <1>1, <3>4
    <3> QED
      BY <3>1, <3>3, <3>5, ShipTrade
  <2> QED
    BY <1>5, <2>1, <2>2, <2>3 DEF beamdown
<1> QED
  BY <1>4, <1>5 DEF beam

(* A step that is not the daemon's breeding adds nothing.                  *)
LEMMA StepConserves ==
  ASSUME Fighters = {}, Finite, PInv, PInv', HInv, [Next]_vars
  PROVE  NoneBorn \/ Bred
<1> USE DEF PInv, Types
<1>1. \A q \in Player : ship[q].armies \in Int /\ ship[q].armies >= 0 /\ ship[q] \in Ships
  BY PlanetsAssumption DEF Ships, HInv, Fits, PlanetsAssumption
<1>2. \A l \in Planet : armies[l] \in Nat
  OBVIOUS
<1>3. CASE ship' = ship /\ \A l \in Planet : armies'[l] <= armies[l]
  BY <1>1, <1>3, NothingGrows
<1>4. CASE armies' = armies /\ \A q \in Player : ship'[q].armies \in {ship[q].armies, 0}
  BY <1>1, <1>2, <1>4, NothingGrows
<1>5. ASSUME NEW p \in Player, NEW order, NEW lastman, Sets(p, order, lastman) PROVE NoneBorn
  <2>1. \A q \in Player : ship'[q].armies = ship[q].armies
    BY <1>5 DEF Sets, Ships
  <2> QED
    BY <2>1, <1>5, <1>1, <1>2, NothingGrows DEF Sets
<1>6. CASE UNCHANGED vars
  BY <1>1, <1>2, <1>6, NothingGrows DEF vars
<1>7. CASE Daemon
  <2>1. CASE beam
    BY <2>1, BeamConserves
  <2>2. ASSUME NEW p \in Player, NEW rnd \in 1 .. 3, NEW hostile \in BOOLEAN, pbomb(p, rnd, hostile)
        PROVE  NoneBorn
    <3>1. CASE Sets(p, "none", ship[p].lastman)
      BY <1>5, <3>1
    <3>2. CASE ~Sets(p, "none", ship[p].lastman)
      <4> DEFINE l == ship[p].at
      <4>1. /\ l \in Planet /\ armies[l] > FEW /\ ship' = ship
            /\ armies' = [armies EXCEPT ![l] = IF @ - rnd < 1 THEN 1 ELSE @ - rnd]
        BY <2>2, <3>2 DEF pbomb
      <4> HIDE DEF l
      <4>2. armies'[l] <= armies[l] /\ \A k \in Planet \ {l} : armies'[k] = armies[k]
        BY <1>2, <4>1, PlanetsAssumption DEF PlanetsAssumption
      <4> QED
        BY <1>1, <1>2, <4>1, <4>2, NothingGrows
    <3> QED
      BY <3>1, <3>2
  <2>3. ASSUME NEW l \in Planet, revolt(l) PROVE NoneBorn
    <3>1. ship' = ship /\ \A k \in Planet : armies'[k] <= armies[k]
      BY <1>2, <2>3 DEF revolt
    <3> QED
      BY <1>1, <3>1, NothingGrows
  <2>4. ASSUME NEW l \in Planet, NEW n \in -2 .. 2, pop_one_planet(l, n) PROVE NoneBorn \/ Bred
    <3>1. CASE n > 0
      <4>1. l \in Growing /\ n \in 1 .. 2
        BY <2>4, <3>1 DEF pop_one_planet
      <4> QED
        BY <2>4, <4>1 DEF Bred
    <3>2. CASE n <= 0
      <4>1. ship' = ship /\ armies' = [armies EXCEPT ![l] = IF @ + n < 0 THEN 0 ELSE @ + n]
        BY <2>4 DEF pop_one_planet
      <4>2. \A k \in Planet : armies'[k] <= armies[k]
        BY <1>2, <3>2, <4>1
      <4> QED
        BY <1>1, <4>1, <4>2, NothingGrows
    <3> QED
      BY <3>1, <3>2
  <2>5. CASE udsurrend
    <3>1. ship' = ship /\ \A l \in Planet : armies'[l] \in {armies[l], 0}
      BY <2>5 DEF udsurrend
    <3>2. \A l \in Planet : armies'[l] <= armies[l]
      BY <1>2, <3>1
    <3> QED
      BY <1>1, <3>1, <3>2, NothingGrows
  <2>6. CASE udtourny
    <3>1. ship' = ship /\ armies' = armies
      BY <2>6 DEF udtourny
    <3> QED
      BY <1>1, <1>2, <3>1, NothingGrows
  <2> QED
    BY <1>7, <2>1, <2>2, <2>3, <2>4, <2>5, <2>6 DEF Daemon
<1>8. ASSUME NEW p \in Player, Process(p) PROVE NoneBorn
  <2>1. CASE \E order, lastman : Sets(p, order, lastman)
    BY <1>5, <2>1
  <2>2. CASE ShieldUp(p) \/ Stop(p) \/ bomb_planet(p) \/ beam_up(p) \/ beam_down(p)
             \/ \E capacity \in 0 .. maxarmies[p] : operate_transporters(p, capacity)
    BY <2>1, <2>2 DEF ShieldUp, Stop, bomb_planet, beam_up, beam_down, operate_transporters
  <2>3. CASE Enter(p) \/ FreeSlot(p)
    <3>1. ship'[p].armies = 0 /\ armies' = armies
      BY <2>3 DEF Enter, FreeSlot, NoShip, Ships, worlds
    <3>2. \A q \in Player \ {p} : ship'[q] = ship[q]
      BY <2>3 DEF Enter, FreeSlot
    <3>3. \A q \in Player : ship'[q].armies <= ship[q].armies
      BY <1>1, <3>1, <3>2
    <3> QED
      BY <1>2, <3>1, <3>3, NothingGrows
  <2>4. CASE Die(p) \/ Dislodged(p) \/ Steer(p) \/ \E a \in Reached \cup Hosts : Arrive(p, a)
    <3>1. \A q \in Player : ship'[q].armies = ship[q].armies
      <4>1. CASE Die(p) \/ Dislodged(p)
        BY <4>1 DEF Die, Dislodged, Thrown, Ships
      <4>2. CASE Steer(p)
        BY <4>2 DEF Steer, Ships
      <4>3. CASE \E a \in Reached \cup Hosts : Arrive(p, a)
        BY <4>3 DEF Arrive, Ships
      <4> QED
        BY <2>4, <4>1, <4>2, <4>3
    <3>2. armies' = armies
      BY <2>4 DEF Die, Dislodged, Steer, Arrive, worlds
    <3> QED
      BY <1>1, <1>2, <3>1, <3>2, NothingGrows
  <2> QED
    BY <1>8, <2>2, <2>3, <2>4 DEF Process
<1> QED
  BY <1>6, <1>7, <1>8 DEF Next, vars

(* Armies are never made but by breeding: whatever is beamed up, down or   *)
(* across, bombed or lost in a revolt, a crash or a collapse, the armies   *)
(* on all planets and aboard all ships do not become more.                 *)
THEOREM PlanetsConserve ==
  ASSUME Fighters = {}, Finite
  PROVE  Spec => ArmiesConserved
<1>1. Init => HInv
  BY PlanetsAssumption DEF Init, HInv, Fits, NoShip, PlanetsAssumption
<1>2. PInv /\ HInv /\ [Next]_vars => HInv'
  BY StepFits
<1>3. PInv /\ PInv' /\ HInv /\ [Next]_vars => [Armies' > Armies => Bred]_vars
  <2> SUFFICES ASSUME PInv, PInv', HInv, [Next]_vars
               PROVE  Armies' > Armies => Bred
    OBVIOUS
  <2>1. Armies \in Int /\ Armies' \in Int
    <3>1. ship \in [Player -> Ships] /\ ship' \in [Player -> Ships]
          /\ armies \in [Planet -> Int] /\ armies' \in [Planet -> Int]
      BY DEF PInv, Types
    <3> DEFINE c == Crews(ship)
               d == Crews(ship')
    <3>2. c \in [Player -> Int] /\ d \in [Player -> Int]
      BY <3>1, CrewsFacts
    <3>3. Armies = SumFunction(armies) + SumFunction(c) /\ Armies' = SumFunction(armies') + SumFunction(d)
      BY DEF Armies, Crews
    <3> HIDE DEF c, d
    <3>4. /\ SumFunction(armies) \in Int /\ SumFunction(armies') \in Int
          /\ SumFunction(c) \in Int /\ SumFunction(d) \in Int
      BY <3>1, <3>2, SumFalls DEF Finite
    <3> QED
      BY <3>3, <3>4
  <2>2. NoneBorn \/ Bred
    BY StepConserves
  <2> HIDE DEF Armies
  <2> QED
    BY <2>1, <2>2 DEF NoneBorn
<1> QED
  BY <1>1, <1>2, <1>3, Invariant, PTL DEF Spec, ArmiesConserved
=============================================================================
