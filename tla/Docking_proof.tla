---------------------------- MODULE Docking_proof ----------------------------
(***************************************************************************)
(* What the routines of DockTable do to a consistent table: each of them   *)
(* hands a consistent table on; and from that, in the second section, that *)
(* the docking table stays consistent, for any number of players, bays and *)
(* ship classes, as long as none of the abrupt steps is taken.             *)
(*                                                                         *)
(* The five parts of IInv need each other.  A process on the outfit screen *)
(* has no docking (OutsideUndocked), so enter() may clear PFDOCK; that     *)
(* rests on DockedAreInGame, by which the dead and the waiting have none;  *)
(* a ship in orbit is not docked (OrbitOrDock), so do_refit may make it a  *)
(* base; and TableConsistent lets each routine find the other end.         *)
(*                                                                         *)
(* The last section adds the docking ring: IInv and RingMatchesHull        *)
(* together are inductive where no hit is eroded and hulls bear the loss   *)
(* of all their bays (HullBears).                                          *)
(***************************************************************************)
EXTENDS Docking, FiniteSetTheorems, WellFoundedInduction, TLAPS

(* The number of bays of every player's ship.                              *)
BayNumbers == [Player -> 0 .. MAXPORTS]

(* Bays are port numbers, and finitely many of them hold ships.            *)
LEMMA BaysFacts ==
  ASSUME NEW n \in 0 .. MAXPORTS
  PROVE  /\ Bays(n) \subseteq PortNo
         /\ IsFiniteSet(Bays(n))
         /\ Cardinality(Bays(n)) \in Nat
<1>1. n \in Nat /\ n - 1 \in Int
  BY SizesAssumption
<1>2. Bays(n) \subseteq PortNo
  BY <1>1, SizesAssumption DEF Bays, PortNo
<1>3. IsFiniteSet(0 .. n - 1)
  BY <1>1, FS_Interval
<1> QED
  BY <1>2, <1>3, FS_CardinalityType DEF Bays

(* Finitely many of finitely many bays hold a ship.                        *)
LEMMA HoldsShipFinite ==
  ASSUME NEW d, NEW b, NEW S, IsFiniteSet(S)
  PROVE  /\ HoldsShip(d, b, S) \subseteq S
         /\ IsFiniteSet(HoldsShip(d, b, S))
         /\ Cardinality(HoldsShip(d, b, S)) \in Nat
<1>1. HoldsShip(d, b, S) \subseteq S
  BY DEF HoldsShip
<1> QED
  BY <1>1, FS_Subset, FS_CardinalityType

(* Port 0 exists.                                                          *)
LEMMA PortZero == 0 \in PortNo /\ 0 \in Int
BY SizesAssumption DEF PortNo

-----------------------------------------------------------------------------
(* undock_player, field by field, for a ship that is docked.               *)
LEMMA UndockPlayerFields ==
  ASSUME NEW d \in DockTables, NEW p \in d.PFDOCK,
         d.p_docked[p] \in Player, d.p_docked[p] # p, d.p_port[p][0] # VACANT
  PROVE  LET e == UndockPlayer(d, p)
             b == d.p_docked[p]
             i == d.p_port[p][0]
         IN /\ e \in DockTables
            /\ e.PFDOCK = d.PFDOCK \ {p}
            /\ e.p_docked[b] = d.p_docked[b] - 1
            /\ e.p_docked[p] = -1
            /\ \A q \in Player \ {p, b} : e.p_docked[q] = d.p_docked[q] /\ e.p_port[q] = d.p_port[q]
            /\ \A k \in PortNo : e.p_port[b][k] = IF k = i THEN VACANT ELSE d.p_port[b][k]
            /\ \A k \in PortNo : e.p_port[p][k] = IF k = 0 THEN VACANT ELSE d.p_port[p][k]
<1> DEFINE e == UndockPlayer(d, p)
           b == d.p_docked[p]
           i == d.p_port[p][0]
<1>1. /\ p \in Player /\ d.PFDOCK \subseteq Player
      /\ d.p_docked \in [Player -> Int]
      /\ d.p_port \in [Player -> [PortNo -> Player \union PortNo \union {VACANT, PDAMAGE}]]
  BY DEF DockTables
<1>2. e = [PFDOCK   |-> d.PFDOCK \ {p},
           p_docked |-> [d.p_docked EXCEPT ![b] = @ - 1, ![p] = -1],
           p_port   |-> [d.p_port EXCEPT ![b] = [k \in PortNo |-> IF k = i THEN VACANT ELSE @[k]],
                                         ![p] = [k \in PortNo |-> IF k = 0 THEN VACANT ELSE @[k]]]]
  BY DEF UndockPlayer
<1>3. e.PFDOCK = d.PFDOCK \ {p}
  BY <1>2
<1>4. e.p_docked = [d.p_docked EXCEPT ![b] = @ - 1, ![p] = -1]
  BY <1>2
<1>5. e.p_port = [d.p_port EXCEPT ![b] = [k \in PortNo |-> IF k = i THEN VACANT ELSE @[k]],
                                  ![p] = [k \in PortNo |-> IF k = 0 THEN VACANT ELSE @[k]]]
  BY <1>2
<1>6. e.p_docked \in [Player -> Int]
  BY <1>1, <1>4
<1>7. e.p_port \in [Player -> [PortNo -> Player \union PortNo \union {VACANT, PDAMAGE}]]
  BY <1>1, <1>5
<1>8. e \in DockTables
  BY <1>1, <1>2, <1>3, <1>6, <1>7 DEF DockTables
<1>9. /\ e.p_docked[b] = d.p_docked[b] - 1
      /\ e.p_docked[p] = -1
      /\ \A q \in Player \ {p, b} : e.p_docked[q] = d.p_docked[q]
  BY <1>1, <1>4
<1>10. /\ e.p_port[b] = [k \in PortNo |-> IF k = i THEN VACANT ELSE d.p_port[b][k]]
       /\ e.p_port[p] = [k \in PortNo |-> IF k = 0 THEN VACANT ELSE d.p_port[p][k]]
       /\ \A q \in Player \ {p, b} : e.p_port[q] = d.p_port[q]
  BY <1>1, <1>5
<1> QED
  BY <1>3, <1>8, <1>9, <1>10

(* undock_player of a ship that is not docked does nothing.                *)
LEMMA UndockPlayerNotDocked ==
  ASSUME NEW d, NEW p, p \notin d.PFDOCK
  PROVE  UndockPlayer(d, p) = d
BY DEF UndockPlayer

(* undock_player hands a consistent table on, and touches nobody else's    *)
(* docking.                                                                *)
LEMMA UndockPlayerConsistent ==
  ASSUME NEW bays \in BayNumbers, NEW d \in DockTables, Consistent(d, bays), NEW p \in Player
  PROVE  LET e == UndockPlayer(d, p)
         IN /\ e \in DockTables
            /\ Consistent(e, bays)
            /\ e.PFDOCK = d.PFDOCK \ {p}
            /\ \A s \in e.PFDOCK : e.p_docked[s] = d.p_docked[s]
            /\ p \in d.PFDOCK => e.p_port[d.p_docked[p]][d.p_port[p][0]] = VACANT
<1> DEFINE e == UndockPlayer(d, p)
           b == d.p_docked[p]
           i == d.p_port[p][0]
<1>1. CASE p \notin d.PFDOCK
  BY <1>1, UndockPlayerNotDocked
<1>2. CASE p \in d.PFDOCK
  <2>1. /\ ShipsKnowTheirBay(d, bays)
        /\ BaysKnowTheirShip(d, bays)
        /\ CountsAreRight(d, bays)
    BY DEF Consistent
  <2>2. \A q \in Player : Bays(bays[q]) \subseteq PortNo /\ IsFiniteSet(Bays(bays[q]))
    BY BaysFacts DEF BayNumbers
  <2>3. /\ bays[p] = 0
        /\ b \in Player
        /\ i \in Bays(bays[b])
        /\ d.p_port[b][i] = p
    BY <1>2, <2>1 DEF ShipsKnowTheirBay
  <2>4. /\ b # p
        /\ i # VACANT
        /\ i \in PortNo
    BY <2>2, <2>3, SizesAssumption DEF Bays, VACANT
  <2>5. /\ e \in DockTables
        /\ e.PFDOCK = d.PFDOCK \ {p}
        /\ e.p_docked[b] = d.p_docked[b] - 1
        /\ e.p_docked[p] = -1
        /\ \A q \in Player \ {p, b} : e.p_docked[q] = d.p_docked[q] /\ e.p_port[q] = d.p_port[q]
        /\ \A k \in PortNo : e.p_port[b][k] = IF k = i THEN VACANT ELSE d.p_port[b][k]
        /\ \A k \in PortNo : e.p_port[p][k] = IF k = 0 THEN VACANT ELSE d.p_port[p][k]
    BY <1>2, <2>3, <2>4, UndockPlayerFields
  <2> HIDE DEF e, b, i
  <2>6. d.PFDOCK \subseteq Player
    BY DEF DockTables
  <2>7. \A s \in e.PFDOCK : s \in Player /\ s # p /\ s # b
    BY <2>1, <2>3, <2>5, <2>6 DEF ShipsKnowTheirBay, Bays
  <2>8. ShipsKnowTheirBay(e, bays)
    <3> SUFFICES ASSUME NEW s \in e.PFDOCK
                 PROVE  /\ bays[s] = 0
                        /\ e.p_docked[s] \in Player
                        /\ e.p_port[s][0] \in Bays(bays[e.p_docked[s]])
                        /\ e.p_port[e.p_docked[s]][e.p_port[s][0]] = s
      BY DEF ShipsKnowTheirBay
    <3>1. /\ s \in d.PFDOCK
          /\ s \in Player /\ s # p /\ s # b
          /\ e.p_docked[s] = d.p_docked[s]
          /\ e.p_port[s] = d.p_port[s]
      BY <2>5, <2>7
    <3>2. /\ bays[s] = 0
          /\ d.p_docked[s] \in Player
          /\ d.p_port[s][0] \in Bays(bays[d.p_docked[s]])
          /\ d.p_port[d.p_docked[s]][d.p_port[s][0]] = s
      BY <2>1, <3>1 DEF ShipsKnowTheirBay
    <3>3. d.p_docked[s] # p /\ d.p_port[s][0] \in PortNo
      BY <2>2, <2>3, <3>2, SizesAssumption DEF Bays
    <3>4. CASE d.p_docked[s] = b
      <4>1. d.p_port[s][0] # i
        BY <2>3, <3>1, <3>2, <3>4
      <4> QED
        BY <2>5, <3>1, <3>2, <3>3, <3>4, <4>1
    <3>5. CASE d.p_docked[s] # b
      BY <2>5, <3>1, <3>2, <3>3, <3>5
    <3> QED
      BY <3>4, <3>5
  <2>9. \A c \in Player \ {p} : \A k \in Bays(bays[c]) :
          /\ k \in PortNo
          /\ (c = b /\ k = i) => e.p_port[c][k] = VACANT
          /\ ~(c = b /\ k = i) => e.p_port[c][k] = d.p_port[c][k]
    BY <2>2, <2>5
  <2>10. Bays(bays[p]) = {}
    BY <2>3 DEF Bays
  <2>11. \A c \in Player \ {b} : HoldsShip(e, c, Bays(bays[c])) = HoldsShip(d, c, Bays(bays[c]))
    BY <2>9, <2>10 DEF HoldsShip
  <2>12. /\ i \in HoldsShip(d, b, Bays(bays[b]))
         /\ HoldsShip(e, b, Bays(bays[b])) = HoldsShip(d, b, Bays(bays[b])) \ {i}
    BY <2>3, <2>4, <2>9 DEF HoldsShip, VACANT, Player
  <2>13. BaysKnowTheirShip(e, bays)
    <3> SUFFICES ASSUME NEW c \in Player, NEW k \in HoldsShip(e, c, Bays(bays[c]))
                 PROVE  LET s == e.p_port[c][k]
                        IN s \in e.PFDOCK /\ e.p_docked[s] = c /\ e.p_port[s][0] = k
      BY DEF BaysKnowTheirShip
    <3>1. /\ k \in HoldsShip(d, c, Bays(bays[c]))
          /\ ~(c = b /\ k = i)
          /\ c # p
      BY <2>10, <2>11, <2>12 DEF HoldsShip
    <3>2. k \in Bays(bays[c]) /\ e.p_port[c][k] = d.p_port[c][k]
      BY <2>9, <3>1 DEF HoldsShip
    <3>3. LET s == d.p_port[c][k]
          IN s \in d.PFDOCK /\ d.p_docked[s] = c /\ d.p_port[s][0] = k
      BY <2>1, <3>1 DEF BaysKnowTheirShip
    <3>4. d.p_port[c][k] # p
      BY <3>1, <3>3 DEF b, i
    <3>5. d.p_port[c][k] \in e.PFDOCK
      BY <2>5, <3>3, <3>4
    <3> QED
      BY <2>5, <2>7, <3>2, <3>3, <3>5
  <2>14. CountsAreRight(e, bays)
    <3> SUFFICES ASSUME NEW c \in Player, bays[c] > 0
                 PROVE  e.p_docked[c] = Cardinality(HoldsShip(e, c, Bays(bays[c])))
      BY DEF CountsAreRight
    <3>1. c # p /\ d.p_docked[c] = Cardinality(HoldsShip(d, c, Bays(bays[c])))
      BY <2>1, <2>3 DEF CountsAreRight
    <3>2. CASE c = b
      <4>1. IsFiniteSet(HoldsShip(d, b, Bays(bays[b])))
        BY <2>2, <2>3, HoldsShipFinite
      <4>2. Cardinality(HoldsShip(e, b, Bays(bays[b]))) = Cardinality(HoldsShip(d, b, Bays(bays[b]))) - 1
        BY <2>12, <4>1, FS_RemoveElement, SMTT(30)
      <4>3. d.p_docked[b] = Cardinality(HoldsShip(d, b, Bays(bays[b])))
        BY <3>1, <3>2
      <4>4. e.p_docked[b] = Cardinality(HoldsShip(d, b, Bays(bays[b]))) - 1
        <5>1. e.p_docked[b] = d.p_docked[b] - 1
          BY <2>5
        <5> QED
          BY <4>3, <5>1
      <4>5. e.p_docked[b] = Cardinality(HoldsShip(e, b, Bays(bays[b])))
        BY <4>2, <4>4
      <4> QED
        BY <3>2, <4>5
    <3>3. CASE c # b
      <4>1. e.p_docked[c] = d.p_docked[c]
        BY <2>5, <3>1, <3>3
      <4>2. HoldsShip(e, c, Bays(bays[c])) = HoldsShip(d, c, Bays(bays[c]))
        BY <2>11, <3>3
      <4> QED
        BY <3>1, <4>1, <4>2
    <3> QED
      BY <3>2, <3>3
  <2>15. \A s \in e.PFDOCK : e.p_docked[s] = d.p_docked[s]
    BY <2>5, <2>7
  <2> QED
    BY <2>4, <2>5, <2>8, <2>13, <2>14, <2>15 DEF e, b, i, Consistent
<1> QED
  BY <1>1, <1>2
-----------------------------------------------------------------------------
(* No ship is docked at b.                                                 *)
NobodyAt(d, b) == \A s \in d.PFDOCK : d.p_docked[s] # b

(* In a consistent table the ships say that nobody is docked at b exactly  *)
(* when b's bays say so.                                                   *)
LEMMA EmptyBays ==
  ASSUME NEW bays \in BayNumbers, NEW d \in DockTables, Consistent(d, bays), NEW b \in Player
  PROVE  HoldsShip(d, b, Bays(bays[b])) = {} <=> NobodyAt(d, b)
<1>1. ASSUME HoldsShip(d, b, Bays(bays[b])) = {}, NEW s \in d.PFDOCK, d.p_docked[s] = b
      PROVE  FALSE
  <2>1. s \in Player /\ d.p_port[s][0] \in Bays(bays[b]) /\ d.p_port[b][d.p_port[s][0]] = s
    BY <1>1 DEF Consistent, ShipsKnowTheirBay, DockTables
  <2>2. s >= 0
    BY <2>1, SizesAssumption DEF Player
  <2> QED
    BY <1>1, <2>1, <2>2 DEF HoldsShip
<1>2. ASSUME NobodyAt(d, b), NEW i \in HoldsShip(d, b, Bays(bays[b]))
      PROVE  FALSE
  BY <1>2 DEF Consistent, BaysKnowTheirShip, NobodyAt
<1> QED
  BY <1>1, <1>2 DEF NobodyAt

(* The bays of a table are integers.                                       *)
LEMMA PortsAreInt ==
  ASSUME NEW d \in DockTables, NEW c \in Player, NEW k \in PortNo
  PROVE  d.p_port[c][k] \in Int
<1>1. d.p_port[c][k] \in Player \union PortNo \union {VACANT, PDAMAGE}
  BY DEF DockTables
<1> QED
  BY <1>1, SizesAssumption DEF Player, PortNo, VACANT, PDAMAGE

(* Two tables that differ only in which empty bays of b are damaged.       *)
DamageDiffers(d, e, b) ==
  /\ e.PFDOCK = d.PFDOCK
  /\ e.p_docked = d.p_docked
  /\ \A q \in Player \ {b} : e.p_port[q] = d.p_port[q]
  /\ \A k \in PortNo : \/ e.p_port[b][k] = d.p_port[b][k]
                       \/ e.p_port[b][k] < 0 /\ d.p_port[b][k] < 0

(* Tables that differ only so are consistent together.                     *)
LEMMA DamageKeepsConsistent ==
  ASSUME NEW bays \in BayNumbers, NEW d \in DockTables, Consistent(d, bays),
         NEW e \in DockTables, NEW b \in Player, bays[b] > 0, DamageDiffers(d, e, b)
  PROVE  Consistent(e, bays)
<1> USE DEF DamageDiffers
<1>1. /\ ShipsKnowTheirBay(d, bays)
      /\ BaysKnowTheirShip(d, bays)
      /\ CountsAreRight(d, bays)
  BY DEF Consistent
<1>2. \A q \in Player : Bays(bays[q]) \subseteq PortNo /\ IsFiniteSet(Bays(bays[q]))
  BY BaysFacts DEF BayNumbers
<1>3. \A c \in Player : HoldsShip(e, c, Bays(bays[c])) = HoldsShip(d, c, Bays(bays[c]))
  <2> SUFFICES ASSUME NEW c \in Player, NEW k \in Bays(bays[c])
               PROVE  e.p_port[c][k] >= 0 <=> d.p_port[c][k] >= 0
    BY DEF HoldsShip
  <2>1. k \in PortNo
    BY <1>2
  <2>2. e.p_port[c][k] \in Int /\ d.p_port[c][k] \in Int
    BY <2>1, PortsAreInt
  <2> QED
    BY <2>1, <2>2
<1>4. \A c \in Player : \A k \in HoldsShip(e, c, Bays(bays[c])) : e.p_port[c][k] = d.p_port[c][k]
  <2> SUFFICES ASSUME NEW c \in Player, NEW k \in Bays(bays[c]), e.p_port[c][k] >= 0
               PROVE  e.p_port[c][k] = d.p_port[c][k]
    BY DEF HoldsShip
  <2>1. k \in PortNo
    BY <1>2
  <2>2. e.p_port[c][k] \in Int
    BY <2>1, PortsAreInt
  <2> QED
    BY <2>1, <2>2
<1>5. \A s \in d.PFDOCK : s \in Player /\ s # b /\ e.p_port[s] = d.p_port[s]
  BY <1>1 DEF ShipsKnowTheirBay, DockTables
<1>6. ShipsKnowTheirBay(e, bays)
  <2> SUFFICES ASSUME NEW s \in d.PFDOCK
               PROVE  /\ bays[s] = 0
                      /\ d.p_docked[s] \in Player
                      /\ d.p_port[s][0] \in Bays(bays[d.p_docked[s]])
                      /\ e.p_port[d.p_docked[s]][d.p_port[s][0]] = s
    BY <1>5 DEF ShipsKnowTheirBay
  <2>1. /\ bays[s] = 0
        /\ d.p_docked[s] \in Player
        /\ d.p_port[s][0] \in Bays(bays[d.p_docked[s]])
        /\ d.p_port[d.p_docked[s]][d.p_port[s][0]] = s
    BY <1>1 DEF ShipsKnowTheirBay
  <2>2. d.p_port[s][0] \in PortNo /\ s >= 0 /\ s \in Int
    BY <1>2, <1>5, <2>1, SizesAssumption DEF Player
  <2> QED
    BY <2>1, <2>2
<1>7. BaysKnowTheirShip(e, bays)
  <2> SUFFICES ASSUME NEW c \in Player, NEW k \in HoldsShip(e, c, Bays(bays[c]))
               PROVE  LET s == e.p_port[c][k]
                      IN s \in e.PFDOCK /\ e.p_docked[s] = c /\ e.p_port[s][0] = k
    BY DEF BaysKnowTheirShip
  <2>1. LET s == d.p_port[c][k]
        IN s \in d.PFDOCK /\ d.p_docked[s] = c /\ d.p_port[s][0] = k
    BY <1>1, <1>3 DEF BaysKnowTheirShip
  <2> QED
    BY <1>4, <1>5, <2>1
<1>8. CountsAreRight(e, bays)
  BY <1>1, <1>3 DEF CountsAreRight
<1> QED
  BY <1>6, <1>7, <1>8 DEF Consistent

(* repair_docking_ring of a base.                                          *)
LEMMA RepairRingConsistent ==
  ASSUME NEW bays \in BayNumbers, NEW d \in DockTables, Consistent(d, bays),
         NEW b \in Player, bays[b] > 0, NEW h \in Int
  PROVE  LET e == RepairRing(d, b, bays[b], h)
         IN /\ e \in DockTables
            /\ Consistent(e, bays)
            /\ e.PFDOCK = d.PFDOCK
            /\ e.p_docked = d.p_docked
<1> DEFINE e == RepairRing(d, b, bays[b], h)
           dam == DamagedBays(d, b, bays[b])
           M == {i \in dam : Cardinality({k \in dam : k >= i}) > BaysKeptDamaged(h)}
<1>1. /\ e = [PFDOCK   |-> d.PFDOCK,
              p_docked |-> d.p_docked,
              p_port   |-> [d.p_port EXCEPT ![b] = [i \in PortNo |-> IF i \in M THEN VACANT ELSE @[i]]]]
      /\ M \subseteq dam
  BY DEF RepairRing
<1> HIDE DEF e, M
<1>2. \A i \in M : d.p_port[b][i] = PDAMAGE
  BY <1>1 DEF DamagedBays
<1>3. d.p_port \in [Player -> [PortNo -> Player \union PortNo \union {VACANT, PDAMAGE}]]
  BY DEF DockTables
<1>4. /\ e.PFDOCK = d.PFDOCK
      /\ e.p_docked = d.p_docked
      /\ e.p_port = [d.p_port EXCEPT ![b] = [i \in PortNo |-> IF i \in M THEN VACANT ELSE @[i]]]
  BY <1>1 DEF DockTables
<1>5. e.p_port \in [Player -> [PortNo -> Player \union PortNo \union {VACANT, PDAMAGE}]]
  BY <1>3, <1>4
<1>6. e \in DockTables
  BY <1>1, <1>4, <1>5 DEF DockTables
<1>7. \A k \in PortNo : \/ e.p_port[b][k] = d.p_port[b][k]
                        \/ e.p_port[b][k] < 0 /\ d.p_port[b][k] < 0
  BY <1>2, <1>3, <1>4 DEF VACANT, PDAMAGE
<1>8. \A q \in Player \ {b} : e.p_port[q] = d.p_port[q]
  BY <1>3, <1>4
<1>9. Consistent(e, bays)
  <2>1. DamageDiffers(d, e, b)
    BY <1>4, <1>7, <1>8 DEF DamageDiffers
  <2> QED
    BY <1>6, <2>1, DamageKeepsConsistent
<1> QED
  BY <1>4, <1>6, <1>9 DEF e

(* dotractor tears off a bay that has just been vacated.                   *)
LEMMA DamageBayConsistent ==
  ASSUME NEW bays \in BayNumbers, NEW d \in DockTables, Consistent(d, bays),
         NEW b \in Player, bays[b] > 0, NEW i \in PortNo, d.p_port[b][i] = VACANT
  PROVE  LET e == DamageBay(d, b, i)
         IN /\ e \in DockTables
            /\ Consistent(e, bays)
            /\ e.PFDOCK = d.PFDOCK
            /\ e.p_docked = d.p_docked
<1> DEFINE e == DamageBay(d, b, i)
<1>1. i # VACANT
  BY SizesAssumption DEF PortNo, VACANT
<1>2. /\ d.p_docked \in [Player -> Int]
      /\ d.p_port \in [Player -> [PortNo -> Player \union PortNo \union {VACANT, PDAMAGE}]]
  BY DEF DockTables
<1>3. e = [PFDOCK   |-> d.PFDOCK,
           p_docked |-> [d.p_docked EXCEPT ![b] = IF i = VACANT THEN PDAMAGE ELSE @],
           p_port   |-> [d.p_port EXCEPT ![b] = [k \in PortNo |-> IF k = i THEN PDAMAGE ELSE @[k]]]]
  BY DEF DamageBay
<1>4. /\ e.PFDOCK = d.PFDOCK
      /\ e.p_docked = [d.p_docked EXCEPT ![b] = IF i = VACANT THEN PDAMAGE ELSE @]
      /\ e.p_port = [d.p_port EXCEPT ![b] = [k \in PortNo |-> IF k = i THEN PDAMAGE ELSE @[k]]]
  BY <1>3 DEF DockTables
<1> HIDE DEF e
<1>5. e.p_docked = d.p_docked
  BY <1>1, <1>2, <1>4
<1>6. e.p_port \in [Player -> [PortNo -> Player \union PortNo \union {VACANT, PDAMAGE}]]
  BY <1>2, <1>4
<1>7. e \in DockTables
  BY <1>2, <1>3, <1>4, <1>5, <1>6 DEF DockTables
<1>8. \A k \in PortNo : \/ e.p_port[b][k] = d.p_port[b][k]
                        \/ e.p_port[b][k] < 0 /\ d.p_port[b][k] < 0
  BY <1>2, <1>4 DEF VACANT, PDAMAGE
<1>9. \A q \in Player \ {b} : e.p_port[q] = d.p_port[q]
  BY <1>2, <1>4
<1>10. Consistent(e, bays)
  <2>1. DamageDiffers(d, e, b)
    BY <1>4, <1>5, <1>8, <1>9 DEF DamageDiffers
  <2> QED
    BY <1>7, <2>1, DamageKeepsConsistent
<1> QED
  BY <1>4, <1>5, <1>7, <1>10 DEF e
-----------------------------------------------------------------------------
(* dock_to, of a plain ship that is not docked, at a vacant bay.           *)
LEMMA DockToConsistent ==
  ASSUME NEW bays \in BayNumbers, NEW d \in DockTables, Consistent(d, bays),
         NEW p \in Player, p \notin d.PFDOCK, bays[p] = 0,
         NEW b \in Player, b # p, NEW i \in Bays(bays[b]), d.p_port[b][i] = VACANT
  PROVE  LET e == DockTo(d, p, b, i)
         IN /\ e \in DockTables
            /\ Consistent(e, bays)
            /\ e.PFDOCK = d.PFDOCK \union {p}
            /\ e.p_docked[p] = b
            /\ \A s \in d.PFDOCK : e.p_docked[s] = d.p_docked[s]
<1> DEFINE e == DockTo(d, p, b, i)
<1>1. /\ ShipsKnowTheirBay(d, bays)
      /\ BaysKnowTheirShip(d, bays)
      /\ CountsAreRight(d, bays)
  BY DEF Consistent
<1>2. \A q \in Player : Bays(bays[q]) \subseteq PortNo /\ IsFiniteSet(Bays(bays[q]))
  BY BaysFacts DEF BayNumbers
<1>3. /\ d.PFDOCK \subseteq Player
      /\ d.p_docked \in [Player -> Int]
      /\ d.p_port \in [Player -> [PortNo -> Player \union PortNo \union {VACANT, PDAMAGE}]]
  BY DEF DockTables
<1>4. e = [PFDOCK   |-> d.PFDOCK \union {p},
           p_docked |-> [d.p_docked EXCEPT ![b] = @ + 1, ![p] = b],
           p_port   |-> [d.p_port EXCEPT ![b] = [k \in PortNo |-> IF k = i THEN p ELSE @[k]],
                                         ![p] = [k \in PortNo |-> IF k = 0 THEN i ELSE @[k]]]]
  BY UndockPlayerNotDocked DEF DockTo
<1>5. /\ e.PFDOCK = d.PFDOCK \union {p}
      /\ e.p_docked = [d.p_docked EXCEPT ![b] = @ + 1, ![p] = b]
      /\ e.p_port = [d.p_port EXCEPT ![b] = [k \in PortNo |-> IF k = i THEN p ELSE @[k]],
                                     ![p] = [k \in PortNo |-> IF k = 0 THEN i ELSE @[k]]]
  BY <1>4
<1>6. i \in PortNo /\ b \in Int /\ bays[b] > 0
  BY <1>2, SizesAssumption DEF Player, Bays, BayNumbers
<1>7. e.p_docked \in [Player -> Int]
  BY <1>3, <1>5, <1>6
<1>8. e.p_port \in [Player -> [PortNo -> Player \union PortNo \union {VACANT, PDAMAGE}]]
  BY <1>3, <1>5, <1>6
<1>9. e \in DockTables
  BY <1>3, <1>4, <1>5, <1>7, <1>8 DEF DockTables
<1>10. /\ e.p_docked[b] = d.p_docked[b] + 1
       /\ e.p_docked[p] = b
       /\ \A q \in Player \ {p, b} : e.p_docked[q] = d.p_docked[q] /\ e.p_port[q] = d.p_port[q]
  BY <1>3, <1>5
<1>11. /\ \A k \in PortNo : e.p_port[b][k] = IF k = i THEN p ELSE d.p_port[b][k]
       /\ e.p_port[p][0] = i
  BY <1>3, <1>5, PortZero
<1> HIDE DEF e
<1>12. \A s \in d.PFDOCK : s \in Player /\ s # p /\ s # b
  BY <1>1, <1>3, <1>6 DEF ShipsKnowTheirBay
<1>13. ShipsKnowTheirBay(e, bays)
  <2> SUFFICES ASSUME NEW s \in e.PFDOCK
               PROVE  /\ bays[s] = 0
                      /\ e.p_docked[s] \in Player
                      /\ e.p_port[s][0] \in Bays(bays[e.p_docked[s]])
                      /\ e.p_port[e.p_docked[s]][e.p_port[s][0]] = s
    BY DEF ShipsKnowTheirBay
  <2>1. CASE s = p
    BY <1>6, <1>10, <1>11, <2>1
  <2>2. CASE s # p
    <3>1. s \in d.PFDOCK /\ e.p_docked[s] = d.p_docked[s] /\ e.p_port[s] = d.p_port[s]
      BY <1>5, <1>10, <1>12, <2>2
    <3>2. /\ bays[s] = 0
          /\ d.p_docked[s] \in Player
          /\ d.p_port[s][0] \in Bays(bays[d.p_docked[s]])
          /\ d.p_port[d.p_docked[s]][d.p_port[s][0]] = s
      BY <1>1, <3>1 DEF ShipsKnowTheirBay
    <3>3. d.p_docked[s] # p /\ d.p_port[s][0] \in PortNo
      BY <1>2, <3>2 DEF Bays
    <3>4. s \in Int /\ s >= 0
      BY <1>12, <3>1, SizesAssumption DEF Player
    <3>5. ~(d.p_docked[s] = b /\ d.p_port[s][0] = i)
      BY <3>2, <3>4 DEF VACANT
    <3> QED
      BY <1>10, <1>11, <3>1, <3>2, <3>3, <3>5
  <2> QED
    BY <2>1, <2>2
<1>14. /\ i \notin HoldsShip(d, b, Bays(bays[b]))
       /\ HoldsShip(e, b, Bays(bays[b])) = HoldsShip(d, b, Bays(bays[b])) \union {i}
  <2>1. p \in Int /\ p >= 0
    BY SizesAssumption DEF Player
  <2> QED
    BY <1>2, <1>11, <2>1 DEF HoldsShip, VACANT
<1>15. \A c \in Player \ {b} : /\ HoldsShip(e, c, Bays(bays[c])) = HoldsShip(d, c, Bays(bays[c]))
                             /\ \A k \in HoldsShip(e, c, Bays(bays[c])) : e.p_port[c][k] = d.p_port[c][k]
  <2>1. Bays(bays[p]) = {}
    BY DEF Bays
  <2> QED
    BY <1>10, <2>1 DEF HoldsShip
<1>16. BaysKnowTheirShip(e, bays)
  <2> SUFFICES ASSUME NEW c \in Player, NEW k \in HoldsShip(e, c, Bays(bays[c]))
               PROVE  LET s == e.p_port[c][k]
                      IN s \in e.PFDOCK /\ e.p_docked[s] = c /\ e.p_port[s][0] = k
    BY DEF BaysKnowTheirShip
  <2>1. CASE c = b /\ k = i
    BY <1>5, <1>6, <1>10, <1>11, <2>1
  <2>2. CASE ~(c = b /\ k = i)
    <3>1. k \in HoldsShip(d, c, Bays(bays[c]))
      BY <1>14, <1>15, <2>2
    <3>2. e.p_port[c][k] = d.p_port[c][k]
      BY <1>2, <1>11, <1>15, <2>2, <3>1 DEF HoldsShip
    <3>3. LET s == d.p_port[c][k]
          IN s \in d.PFDOCK /\ d.p_docked[s] = c /\ d.p_port[s][0] = k
      BY <1>1, <3>1 DEF BaysKnowTheirShip
    <3> DEFINE s == d.p_port[c][k]
    <3>4. s \in d.PFDOCK /\ d.p_docked[s] = c /\ d.p_port[s][0] = k
      BY <3>3
    <3> HIDE DEF s
    <3>5. s \in Player \ {p, b}
      BY <1>12, <3>4
    <3>6. e.p_docked[s] = d.p_docked[s] /\ e.p_port[s] = d.p_port[s]
      BY <1>10, <3>5
    <3>7. s \in e.PFDOCK
      BY <1>5, <3>4
    <3>8. e.p_port[c][k] = s
      BY <3>2 DEF s
    <3> QED
      BY <3>4, <3>6, <3>7, <3>8
  <2> QED
    BY <2>1, <2>2
<1>17. CountsAreRight(e, bays)
  <2> SUFFICES ASSUME NEW c \in Player, bays[c] > 0
               PROVE  e.p_docked[c] = Cardinality(HoldsShip(e, c, Bays(bays[c])))
    BY DEF CountsAreRight
  <2>1. c # p /\ d.p_docked[c] = Cardinality(HoldsShip(d, c, Bays(bays[c])))
    BY <1>1 DEF CountsAreRight
  <2>2. CASE c = b
    <3>1. IsFiniteSet(HoldsShip(d, b, Bays(bays[b])))
      BY <1>2, HoldsShipFinite
    <3>2. Cardinality(HoldsShip(e, b, Bays(bays[b]))) = Cardinality(HoldsShip(d, b, Bays(bays[b]))) + 1
      <4> DEFINE held == HoldsShip(d, b, Bays(bays[b]))
      <4>1. IsFiniteSet(held) /\ i \notin held
        BY <1>14, <3>1
      <4>2. HoldsShip(e, b, Bays(bays[b])) = held \union {i}
        BY <1>14
      <4> HIDE DEF held
      <4>3. Cardinality(held \union {i}) = Cardinality(held) + 1
        BY <4>1, FS_AddElement
      <4> QED
        BY <4>2, <4>3 DEF held
    <3>3. e.p_docked[b] = d.p_docked[b] + 1 /\ d.p_docked[b] = Cardinality(HoldsShip(d, b, Bays(bays[b])))
      BY <1>10, <2>1, <2>2
    <3> QED
      BY <2>2, <3>2, <3>3
  <2>3. CASE c # b
    BY <1>10, <1>15, <2>1, <2>3
  <2> QED
    BY <2>2, <2>3
<1>18. \A s \in d.PFDOCK : e.p_docked[s] = d.p_docked[s]
  BY <1>10, <1>12
<1> QED
  BY <1>5, <1>9, <1>10, <1>13, <1>16, <1>17, <1>18 DEF e, Consistent

-----------------------------------------------------------------------------
(* p_docked = 0 and PFDOCK cleared, of a player nobody is docked at and    *)
(* who is not docked: nothing is forgotten.                                *)
LEMMA ClearDockedConsistent ==
  ASSUME NEW bays \in BayNumbers, NEW d \in DockTables, Consistent(d, bays),
         NEW p \in Player, p \notin d.PFDOCK, NobodyAt(d, p)
  PROVE  LET e == ClearDocked(d, p)
         IN /\ e \in DockTables
            /\ Consistent(e, bays)
            /\ e.PFDOCK = d.PFDOCK
            /\ e.p_port = d.p_port
            /\ \A s \in d.PFDOCK : e.p_docked[s] = d.p_docked[s]
<1> DEFINE e == ClearDocked(d, p)
<1>1. /\ e = [PFDOCK |-> d.PFDOCK, p_docked |-> [d.p_docked EXCEPT ![p] = 0], p_port |-> d.p_port]
      /\ e.PFDOCK = d.PFDOCK
      /\ e.p_docked = [d.p_docked EXCEPT ![p] = 0]
      /\ e.p_port = d.p_port
  BY DEF ClearDocked
<1> HIDE DEF e
<1>2. d.p_docked \in [Player -> Int] /\ d.PFDOCK \subseteq Player
  BY DEF DockTables
<1>3. e.p_docked \in [Player -> Int]
  BY <1>1, <1>2
<1>4. e \in DockTables
  BY <1>1, <1>3 DEF DockTables
<1>5. \A q \in Player : e.p_docked[q] = IF q = p THEN 0 ELSE d.p_docked[q]
  BY <1>1, <1>2
<1>6. \A s \in d.PFDOCK : e.p_docked[s] = d.p_docked[s]
  BY <1>2, <1>5
<1>7. \A c, S : HoldsShip(e, c, S) = HoldsShip(d, c, S)
  BY <1>1 DEF HoldsShip
<1>8. ShipsKnowTheirBay(e, bays)
  BY <1>1, <1>6 DEF Consistent, ShipsKnowTheirBay
<1>9. BaysKnowTheirShip(e, bays)
  BY <1>1, <1>6, <1>7 DEF Consistent, BaysKnowTheirShip
<1>10. CountsAreRight(e, bays)
  <2> SUFFICES ASSUME NEW c \in Player, bays[c] > 0
               PROVE  e.p_docked[c] = Cardinality(HoldsShip(d, c, Bays(bays[c])))
    BY <1>7 DEF CountsAreRight
  <2>1. CASE c = p
    BY <1>5, <2>1, EmptyBays, FS_EmptySet
  <2>2. CASE c # p
    BY <1>5, <2>2 DEF Consistent, CountsAreRight
  <2> QED
    BY <2>1, <2>2
<1> QED
  BY <1>1, <1>4, <1>6, <1>8, <1>9, <1>10 DEF e, Consistent

-----------------------------------------------------------------------------
(* base_undock of the bays of S: the ships there, and only they, leave.    *)
LEMMA BaseUndockConsistent ==
  ASSUME NEW bays \in BayNumbers, NEW d \in DockTables, Consistent(d, bays),
         NEW b \in Player, NEW S \in SUBSET Bays(bays[b])
  PROVE  LET e == BaseUndock(d, b, S)
         IN /\ e \in DockTables
            /\ Consistent(e, bays)
            /\ e.PFDOCK \subseteq d.PFDOCK
            /\ \A s \in e.PFDOCK : e.p_docked[s] = d.p_docked[s]
            /\ S = Bays(bays[b]) => NobodyAt(e, b)
<1> DEFINE e == BaseUndock(d, b, S)
           held == HoldsShip(d, b, S)
           ships == {d.p_port[b][i] : i \in held}
<1>1. /\ ShipsKnowTheirBay(d, bays)
      /\ BaysKnowTheirShip(d, bays)
      /\ CountsAreRight(d, bays)
  BY DEF Consistent
<1>2. \A q \in Player : Bays(bays[q]) \subseteq PortNo /\ IsFiniteSet(Bays(bays[q]))
  BY BaysFacts DEF BayNumbers
<1>3. /\ d.PFDOCK \subseteq Player
      /\ d.p_docked \in [Player -> Int]
      /\ d.p_port \in [Player -> [PortNo -> Player \union PortNo \union {VACANT, PDAMAGE}]]
  BY DEF DockTables
<1>4. /\ held \subseteq HoldsShip(d, b, Bays(bays[b])) /\ held \subseteq S
      /\ IsFiniteSet(held) /\ Cardinality(held) \in Nat
  <2>1. IsFiniteSet(S)
    BY <1>2, FS_Subset
  <2> QED
    BY <2>1, HoldsShipFinite DEF HoldsShip
<1>5. /\ \A i \in held : LET s == d.p_port[b][i]
                         IN s \in d.PFDOCK /\ d.p_docked[s] = b /\ d.p_port[s][0] = i
  BY <1>1, <1>4 DEF BaysKnowTheirShip
<1>6. \A s \in ships : /\ s \in d.PFDOCK /\ s \in Player
                       /\ bays[s] = 0
                       /\ d.p_docked[s] = b
                       /\ d.p_port[s][0] \in held
  BY <1>1, <1>3, <1>5 DEF ShipsKnowTheirBay
<1>7. e = [PFDOCK   |-> d.PFDOCK \ ships,
           p_docked |-> [q \in Player |-> IF q \in ships THEN -1
                                          ELSE IF q = b THEN d.p_docked[b] - Cardinality(held)
                                          ELSE d.p_docked[q]],
           p_port   |-> [q \in Player |-> [k \in PortNo |->
                           IF (q = b /\ k \in held) \/ (q \in ships /\ k = 0) THEN VACANT
                           ELSE d.p_port[q][k]]]]
  BY DEF BaseUndock
<1> HIDE DEF e, held, ships
<1>8. /\ e.PFDOCK = d.PFDOCK \ ships
      /\ \A q \in Player : e.p_docked[q] = IF q \in ships THEN -1
                                           ELSE IF q = b THEN d.p_docked[b] - Cardinality(held)
                                           ELSE d.p_docked[q]
      /\ \A q \in Player : \A k \in PortNo :
           e.p_port[q][k] = IF (q = b /\ k \in held) \/ (q \in ships /\ k = 0) THEN VACANT
                            ELSE d.p_port[q][k]
  BY <1>7
<1>9. e.p_docked \in [Player -> Int]
  <2>1. \A q \in Player : d.p_docked[q] \in Int
    BY <1>3
  <2>2. d.p_docked[b] - Cardinality(held) \in Int
    BY <1>4, <2>1
  <2> QED
    BY <1>7, <2>1, <2>2
<1>10. e.p_port \in [Player -> [PortNo -> Player \union PortNo \union {VACANT, PDAMAGE}]]
  <2>1. \A q \in Player : \A k \in PortNo :
          d.p_port[q][k] \in Player \union PortNo \union {VACANT, PDAMAGE}
    BY <1>3
  <2> QED
    BY <1>7, <2>1
<1>11. e \in DockTables
  BY <1>3, <1>7, <1>8, <1>9, <1>10 DEF DockTables
<1>12. b \notin ships \/ bays[b] = 0
  BY <1>6
<1>13. \A s \in e.PFDOCK : /\ s \in d.PFDOCK /\ s \notin ships /\ s \in Player
                           /\ ~(d.p_docked[s] = b /\ d.p_port[s][0] \in held)
  <2> SUFFICES ASSUME NEW s \in d.PFDOCK, d.p_docked[s] = b, d.p_port[s][0] \in held
               PROVE  s \in ships
    BY <1>3, <1>8
  <2>1. d.p_port[b][d.p_port[s][0]] = s
    BY <1>1 DEF ShipsKnowTheirBay
  <2> QED
    BY <2>1 DEF ships
<1>14. held # {} => bays[b] > 0
  <2>1. bays[b] \in Int /\ (bays[b] <= 0 => Bays(bays[b]) = {})
    BY SizesAssumption DEF Bays, BayNumbers
  <2> QED
    BY <1>4, <2>1
<1>15. \A s \in e.PFDOCK : e.p_docked[s] = d.p_docked[s]
  <2> SUFFICES ASSUME NEW s \in e.PFDOCK, s = b
               PROVE  d.p_docked[b] - Cardinality(held) = d.p_docked[b]
    BY <1>8, <1>13
  <2>1. held = {}
    BY <1>1, <1>13, <1>14 DEF ShipsKnowTheirBay
  <2>2. d.p_docked[b] \in Int
    BY <1>3
  <2> QED
    BY <2>1, <2>2, FS_EmptySet
<1>16. ShipsKnowTheirBay(e, bays)
  <2> SUFFICES ASSUME NEW s \in e.PFDOCK
               PROVE  /\ bays[s] = 0
                      /\ d.p_docked[s] \in Player
                      /\ e.p_port[s][0] \in Bays(bays[d.p_docked[s]])
                      /\ e.p_port[d.p_docked[s]][e.p_port[s][0]] = s
    BY <1>15 DEF ShipsKnowTheirBay
  <2>1. /\ bays[s] = 0
        /\ d.p_docked[s] \in Player
        /\ d.p_port[s][0] \in Bays(bays[d.p_docked[s]])
        /\ d.p_port[d.p_docked[s]][d.p_port[s][0]] = s
    BY <1>1, <1>13 DEF ShipsKnowTheirBay
  <2>2. s \in Player /\ s \notin ships /\ (s = b => held = {})
    BY <1>13, <1>14, <2>1
  <2>3. e.p_port[s][0] = d.p_port[s][0]
    BY <1>8, <2>2, PortZero
  <2>4. d.p_docked[s] \notin ships /\ d.p_port[s][0] \in PortNo
    BY <1>2, <1>6, <2>1 DEF Bays
  <2> QED
    BY <1>8, <1>13, <2>1, <2>3, <2>4
<1>17. \A c \in Player : HoldsShip(e, c, Bays(bays[c])) =
                           HoldsShip(d, c, Bays(bays[c])) \ (IF c = b THEN held ELSE {})
  <2> SUFFICES ASSUME NEW c \in Player, NEW k \in Bays(bays[c])
               PROVE  e.p_port[c][k] >= 0 <=> d.p_port[c][k] >= 0 /\ ~(c = b /\ k \in held)
    BY DEF HoldsShip
  <2>1. k \in PortNo /\ c \notin ships
    BY <1>2, <1>6 DEF Bays
  <2>2. e.p_port[c][k] = IF c = b /\ k \in held THEN VACANT ELSE d.p_port[c][k]
    BY <1>8, <2>1
  <2> QED
    BY <2>2 DEF VACANT
<1>18. BaysKnowTheirShip(e, bays)
  <2> SUFFICES ASSUME NEW c \in Player, NEW k \in HoldsShip(e, c, Bays(bays[c]))
               PROVE  LET s == e.p_port[c][k]
                      IN s \in e.PFDOCK /\ e.p_docked[s] = c /\ e.p_port[s][0] = k
    BY DEF BaysKnowTheirShip
  <2>1. /\ k \in HoldsShip(d, c, Bays(bays[c])) /\ k \in Bays(bays[c]) /\ k \in PortNo
        /\ ~(c = b /\ k \in held)
        /\ c \notin ships
    BY <1>2, <1>6, <1>17 DEF HoldsShip, Bays
  <2>2. e.p_port[c][k] = d.p_port[c][k]
    BY <1>8, <2>1
  <2> DEFINE s == d.p_port[c][k]
  <2>3. s \in d.PFDOCK /\ d.p_docked[s] = c /\ d.p_port[s][0] = k
    BY <1>1, <2>1 DEF BaysKnowTheirShip
  <2>4. s \notin ships
    BY <1>6, <2>1, <2>3
  <2> HIDE DEF s
  <2>5. s \in e.PFDOCK /\ s \in Player /\ bays[s] = 0
    BY <1>1, <1>3, <1>8, <2>3, <2>4 DEF ShipsKnowTheirBay
  <2>6. e.p_port[s][0] = d.p_port[s][0]
    BY <1>8, <1>14, <2>4, <2>5, PortZero
  <2> QED
    BY <1>15, <2>2, <2>3, <2>5, <2>6 DEF s
<1>19. CountsAreRight(e, bays)
  <2> SUFFICES ASSUME NEW c \in Player, bays[c] > 0
               PROVE  e.p_docked[c] = Cardinality(HoldsShip(e, c, Bays(bays[c])))
    BY DEF CountsAreRight
  <2>1. c \notin ships /\ d.p_docked[c] = Cardinality(HoldsShip(d, c, Bays(bays[c])))
    BY <1>1, <1>6 DEF CountsAreRight
  <2>2. CASE c = b
    <3> DEFINE H == HoldsShip(d, b, Bays(bays[b]))
    <3>1. IsFiniteSet(H) /\ H \intersect held = held
      BY <1>2, <1>4, HoldsShipFinite
    <3>2. Cardinality(H \ held) = Cardinality(H) - Cardinality(H \intersect held)
      BY <3>1, FS_Difference
    <3>3. HoldsShip(e, b, Bays(bays[b])) = H \ held
      BY <1>17
    <3>4. Cardinality(H \ held) = d.p_docked[b] - Cardinality(held)
      BY <2>1, <2>2, <3>1, <3>2
    <3>5. e.p_docked[b] = d.p_docked[b] - Cardinality(held)
      BY <1>8, <2>1, <2>2
    <3>6. e.p_docked[b] = Cardinality(HoldsShip(e, b, Bays(bays[b])))
      BY <3>3, <3>4, <3>5
    <3> QED
      BY <2>2, <3>6
  <2>3. CASE c # b
    <3>1. e.p_docked[c] = d.p_docked[c]
      BY <1>8, <2>1, <2>3
    <3>2. HoldsShip(e, c, Bays(bays[c])) = HoldsShip(d, c, Bays(bays[c]))
      BY <1>17, <2>3
    <3> QED
      BY <2>1, <3>1, <3>2
  <2> QED
    BY <2>2, <2>3
<1>20. Consistent(e, bays)
  BY <1>16, <1>18, <1>19 DEF Consistent
<1>21. S = Bays(bays[b]) => NobodyAt(e, b)
  <2> SUFFICES ASSUME S = Bays(bays[b])
               PROVE  HoldsShip(e, b, Bays(bays[b])) = {}
    BY <1>11, <1>20, EmptyBays
  <2> QED
    BY <1>17 DEF held
<1> QED
  BY <1>8, <1>11, <1>15, <1>20, <1>21 DEF e

-----------------------------------------------------------------------------
(* get_ship_for_player, for a player nobody is docked at; only a player    *)
(* who is not docked may become a base.                                    *)
LEMMA NewShipConsistent ==
  ASSUME NEW bays \in BayNumbers, NEW d \in DockTables, Consistent(d, bays),
         NEW p \in Player, NobodyAt(d, p),
         NEW n \in 0 .. MAXPORTS, n > 0 => p \notin d.PFDOCK
  PROVE  LET e == NewShip(d, p, n)
         IN /\ e \in DockTables
            /\ Consistent(e, [bays EXCEPT ![p] = n])
            /\ e.PFDOCK = d.PFDOCK
            /\ \A s \in d.PFDOCK : e.p_docked[s] = d.p_docked[s]
<1> DEFINE e == NewShip(d, p, n)
           new == [bays EXCEPT ![p] = n]
<1>1. /\ ShipsKnowTheirBay(d, bays)
      /\ BaysKnowTheirShip(d, bays)
      /\ CountsAreRight(d, bays)
  BY DEF Consistent
<1>2. /\ d.PFDOCK \subseteq Player
      /\ d.p_docked \in [Player -> Int]
      /\ d.p_port \in [Player -> [PortNo -> Player \union PortNo \union {VACANT, PDAMAGE}]]
  BY DEF DockTables
<1>3. new \in BayNumbers /\ \A q \in Player : new[q] = IF q = p THEN n ELSE bays[q]
  BY DEF BayNumbers
<1>4. NoPorts \in [PortNo -> Player \union PortNo \union {VACANT, PDAMAGE}]
  BY DEF NoPorts
<1>5. /\ e \in DockTables
      /\ e.PFDOCK = d.PFDOCK
      /\ \A q \in Player \ {p} : e.p_docked[q] = d.p_docked[q] /\ e.p_port[q] = d.p_port[q]
      /\ n = 0 => e = d
      /\ n # 0 => e.p_docked[p] = 0 /\ e.p_port[p] = NoPorts
  <2>1. CASE n = 0
    BY <2>1 DEF NewShip
  <2>2. CASE n # 0
    <3>1. e = [PFDOCK   |-> d.PFDOCK,
               p_docked |-> [d.p_docked EXCEPT ![p] = 0],
               p_port   |-> [d.p_port EXCEPT ![p] = NoPorts]]
      BY <2>2 DEF NewShip
    <3>2. /\ e.PFDOCK = d.PFDOCK
          /\ e.p_docked = [d.p_docked EXCEPT ![p] = 0]
          /\ e.p_port = [d.p_port EXCEPT ![p] = NoPorts]
      BY <3>1
    <3>3. e.p_docked \in [Player -> Int]
      BY <1>2, <3>2
    <3>4. e.p_port \in [Player -> [PortNo -> Player \union PortNo \union {VACANT, PDAMAGE}]]
      BY <1>2, <1>4, <3>2
    <3>5. e \in DockTables
      BY <1>2, <3>1, <3>2, <3>3, <3>4 DEF DockTables
    <3> QED
      BY <1>2, <2>2, <3>2, <3>5
  <2> QED
    BY <2>1, <2>2
<1> HIDE DEF e, new
<1>6. \A s \in d.PFDOCK : s \in Player /\ d.p_docked[s] # p /\ (s = p => n = 0)
  BY <1>2 DEF NobodyAt
<1>7. \A s \in d.PFDOCK : e.p_docked[s] = d.p_docked[s] /\ e.p_port[s] = d.p_port[s]
  BY <1>5, <1>6
<1>8. HoldsShip(e, p, Bays(new[p])) = {}
  <2>1. CASE n = 0
    BY <1>3, <2>1 DEF HoldsShip, Bays
  <2>2. CASE n # 0
    <3>1. Bays(n) \subseteq PortNo
      BY BaysFacts
    <3>2. \A i \in PortNo : NoPorts[i] = VACANT
      BY DEF NoPorts
    <3> QED
      BY <1>3, <1>5, <2>2, <3>1, <3>2 DEF HoldsShip, VACANT
  <2> QED
    BY <2>1, <2>2
<1>9. \A c \in Player \ {p} : /\ new[c] = bays[c]
                            /\ e.p_port[c] = d.p_port[c]
                            /\ HoldsShip(e, c, Bays(new[c])) = HoldsShip(d, c, Bays(bays[c]))
  BY <1>3, <1>5 DEF HoldsShip
<1>10. ShipsKnowTheirBay(e, new)
  <2> SUFFICES ASSUME NEW s \in d.PFDOCK
               PROVE  /\ new[s] = 0
                      /\ d.p_docked[s] \in Player
                      /\ d.p_port[s][0] \in Bays(new[d.p_docked[s]])
                      /\ e.p_port[d.p_docked[s]][d.p_port[s][0]] = s
    BY <1>5, <1>7 DEF ShipsKnowTheirBay
  <2>1. /\ bays[s] = 0
        /\ d.p_docked[s] \in Player
        /\ d.p_port[s][0] \in Bays(bays[d.p_docked[s]])
        /\ d.p_port[d.p_docked[s]][d.p_port[s][0]] = s
    BY <1>1 DEF ShipsKnowTheirBay
  <2> QED
    BY <1>3, <1>6, <1>9, <2>1
<1>11. BaysKnowTheirShip(e, new)
  <2> SUFFICES ASSUME NEW c \in Player, NEW k \in HoldsShip(e, c, Bays(new[c]))
               PROVE  LET s == e.p_port[c][k]
                      IN s \in e.PFDOCK /\ e.p_docked[s] = c /\ e.p_port[s][0] = k
    BY DEF BaysKnowTheirShip
  <2>1. c # p /\ k \in HoldsShip(d, c, Bays(bays[c])) /\ e.p_port[c][k] = d.p_port[c][k]
    BY <1>8, <1>9
  <2> QED
    BY <1>1, <1>5, <1>7, <2>1 DEF BaysKnowTheirShip
<1>12. CountsAreRight(e, new)
  <2> SUFFICES ASSUME NEW c \in Player, new[c] > 0
               PROVE  e.p_docked[c] = Cardinality(HoldsShip(e, c, Bays(new[c])))
    BY DEF CountsAreRight
  <2>1. CASE c = p
    <3>1. n # 0 /\ e.p_docked[p] = 0
      BY <1>3, <1>5, <2>1
    <3>2. Cardinality(HoldsShip(e, p, Bays(new[p]))) = 0
      BY <1>8, FS_EmptySet
    <3> QED
      BY <2>1, <3>1, <3>2
  <2>2. CASE c # p
    BY <1>1, <1>5, <1>9, <2>2 DEF CountsAreRight
  <2> QED
    BY <2>1, <2>2
<1> QED
  BY <1>5, <1>7, <1>10, <1>11, <1>12 DEF e, new, Consistent

-----------------------------------------------------------------------------
(* The docking of the game.                                                *)
IInv ==
  /\ TypeOK
  /\ TableConsistent
  /\ DockedAreInGame
  /\ OutsideUndocked
  /\ OrbitOrDock

(* What the last three say, of a table d, with "nobody is docked at q" in  *)
(* place of "no bay of q holds a ship".                                    *)
InGame == {PALIVE, PEXPLODE}

Safe(d, st, ns, orb) ==
  /\ \A s \in d.PFDOCK : st[s] \in InGame /\ st[d.p_docked[s]] \in InGame
  /\ \A q \in Player : ns[q] # "input" => st[q] # PALIVE /\ q \notin d.PFDOCK /\ NobodyAt(d, q)
  /\ orb \intersect d.PFDOCK = {}

-----------------------------------------------------------------------------
(* IInv, taken apart and put together again.                               *)
LEMMA Unfold ==
  ASSUME IInv
  PROVE  /\ TypeOK
         /\ dock \in DockTables
         /\ NumPortsOf \in BayNumbers
         /\ \A q \in Player : BaysOf(q) = Bays(NumPortsOf[q]) /\ NumPortsOf[q] = NumPorts[p_type[q]]
         /\ Consistent(dock, NumPortsOf)
         /\ Safe(dock, p_status, ntserv, PFORBIT)
<1>1. TypeOK /\ dock \in DockTables /\ Consistent(dock, NumPortsOf)
  BY DEF IInv, TypeOK, TableConsistent
<1>2. NumPortsOf \in BayNumbers
  BY <1>1, ShipsAssumption DEF TypeOK, NumPortsOf, BayNumbers
<1>3. \A q \in Player : BaysOf(q) = Bays(NumPortsOf[q]) /\ NumPortsOf[q] = NumPorts[p_type[q]]
  BY DEF BaysOf, NumPortsOf
<1>4. \A q \in Player : Undocked(q) => NobodyAt(dock, q)
  BY <1>1, <1>2, <1>3, EmptyBays DEF Undocked
<1>5. Safe(dock, p_status, ntserv, PFORBIT)
  BY <1>4 DEF IInv, Safe, DockedAreInGame, OutsideUndocked, OrbitOrDock, Undocked, InGame
<1> QED
  BY <1>1, <1>2, <1>3, <1>5

(* Put together again, for the state a step leads to.                      *)
LEMMA Fold ==
  ASSUME TypeOK',
         Consistent(dock', NumPortsOf'),
         Safe(dock', p_status', ntserv', PFORBIT')
  PROVE  IInv'
<1>1. dock' \in DockTables
  BY DEF TypeOK
<1>2. NumPortsOf' \in BayNumbers
  BY ShipsAssumption DEF TypeOK, NumPortsOf, BayNumbers
<1>3. \A q \in Player : BaysOf(q)' = Bays(NumPortsOf'[q])
  BY DEF BaysOf, NumPortsOf
<1>4. \A q \in Player : NobodyAt(dock', q) => HoldsShip(dock', q, BaysOf(q)') = {}
  BY <1>1, <1>2, <1>3, EmptyBays
<1>5. OutsideUndocked'
  BY <1>4 DEF Safe, OutsideUndocked, Undocked
<1>6. DockedAreInGame' /\ OrbitOrDock'
  BY DEF Safe, InGame, DockedAreInGame, OrbitOrDock
<1> QED
  BY <1>5, <1>6 DEF IInv, TableConsistent

(* A step after which no ship is docked that was not, and at the same base.*)
Fewer(d, e) ==
  /\ e.PFDOCK \subseteq d.PFDOCK
  /\ \A s \in e.PFDOCK : e.p_docked[s] = d.p_docked[s]

(* Fewer dockings are still safe if nobody docked leaves the game.         *)
LEMMA SafeFewer ==
  ASSUME NEW d, NEW bays, d \in DockTables, Consistent(d, bays), NEW e, Fewer(d, e),
         NEW st, NEW ns, NEW orb, Safe(d, st, ns, orb),
         NEW st2, NEW ns2, NEW orb2,
         \A q \in Player :
           /\ st[q] \in InGame /\ st2[q] \notin InGame => q \notin e.PFDOCK /\ NobodyAt(e, q)
           /\ ns2[q] # "input" => /\ st2[q] # PALIVE
                                  /\ ns[q] # "input" \/ (q \notin e.PFDOCK /\ NobodyAt(e, q)),
         orb2 \intersect e.PFDOCK = {}
  PROVE  Safe(e, st2, ns2, orb2)
<1>1. \A s \in e.PFDOCK : /\ s \in d.PFDOCK /\ s \in Player /\ d.p_docked[s] \in Player
                          /\ e.p_docked[s] = d.p_docked[s]
  BY DEF Fewer, DockTables, Consistent, ShipsKnowTheirBay
<1>2. \A s \in e.PFDOCK : st2[s] \in InGame /\ st2[e.p_docked[s]] \in InGame
  BY <1>1 DEF Safe, NobodyAt
<1>3. \A q \in Player : NobodyAt(d, q) => NobodyAt(e, q)
  BY <1>1 DEF NobodyAt
<1>4. \A q \in Player : ns2[q] # "input" => st2[q] # PALIVE /\ q \notin e.PFDOCK /\ NobodyAt(e, q)
  BY <1>1, <1>3 DEF Safe
<1> QED
  BY <1>2, <1>4 DEF Safe

-----------------------------------------------------------------------------
(* A step that only changes statuses and processes, and by which nobody    *)
(* who is docked, or docked at, leaves the game.                           *)
LEMMA StatusStep ==
  ASSUME IInv,
         ntserv' \in [Player -> Processes], p_status' \in [Player -> Statuses],
         \A q \in Player :
           /\ p_status[q] \in InGame /\ p_status'[q] \notin InGame => Undocked(q)
           /\ ntserv'[q] # "input" => /\ p_status'[q] # PALIVE
                                      /\ ntserv[q] # "input" \/ Undocked(q),
         UNCHANGED <<p_type, p_damage, PFORBIT, PFDOCKOK, dock>>
  PROVE  IInv'
<1>1. TypeOK'
  BY DEF IInv, TypeOK
<1>2. NumPortsOf' = NumPortsOf
  BY DEF NumPortsOf
<1>3. Consistent(dock', NumPortsOf')
  BY <1>2, Unfold
<1>4. \A q \in Player : Undocked(q) => q \notin dock.PFDOCK /\ NobodyAt(dock, q)
  BY Unfold, EmptyBays DEF Undocked
<1>5. Fewer(dock, dock')
  BY DEF Fewer
<1>6. PFORBIT' \intersect dock'.PFDOCK = {}
  BY Unfold DEF Safe
<1>7. Safe(dock', p_status', ntserv', PFORBIT')
  BY <1>4, <1>5, <1>6, Unfold, SafeFewer
<1> QED
  BY <1>1, <1>3, <1>7, Fold

(* A player who is not in the game has no docking.                         *)
LEMMA OutOfGameUndocked ==
  ASSUME IInv, NEW p \in Player, p_status[p] \notin InGame
  PROVE  Undocked(p)
<1>1. p \notin dock.PFDOCK /\ NobodyAt(dock, p)
  BY Unfold DEF Safe, NobodyAt
<1> QED
  BY <1>1, Unfold, EmptyBays DEF Undocked

(* The same for SetBoth, the body of many small handlers.                  *)
LEMMA SetBothStep ==
  ASSUME IInv, NEW p \in Player, NEW s \in Statuses, NEW w \in Processes, SetBoth(p, s, w),
         s \notin InGame => Undocked(p),
         s # PALIVE,
         w # "input" => ntserv[p] # "input" \/ Undocked(p)
  PROVE  IInv'
<1> USE DEF SetBoth
<1>1. /\ ntserv \in [Player -> Processes] /\ p_status \in [Player -> Statuses]
      /\ ntserv' \in [Player -> Processes] /\ p_status' \in [Player -> Statuses]
  BY DEF IInv, TypeOK
<1>2. \A q \in Player :
        /\ p_status[q] \in InGame /\ p_status'[q] \notin InGame => Undocked(q)
        /\ ntserv'[q] # "input" => /\ p_status'[q] # PALIVE
                                   /\ ntserv[q] # "input" \/ Undocked(q)
  BY <1>1, Unfold DEF Safe
<1> QED
  BY <1>1, <1>2, StatusStep

(* The actions that change only the status or the process of one player.   *)
LEMMA StatusActions ==
  ASSUME IInv, Abrupt = {}, NEW p \in Player,
         \/ FindSlot(p) \/ LeaveInput(p) \/ Exit(p) \/ Kill(p) \/ Death(p)
         \/ Detourneyqueue(p) \/ Busted(p) \/ LeaveBench(p) \/ FreeSlot(p) \/ UdOut(p)
  PROVE  IInv'
<1> USE DEF PFREE, POUTFIT, PALIVE, PEXPLODE, PDEAD, POBSERVE, PTQUEUE, Statuses, Processes, InGame
<1>0. ntserv[p] \in Processes /\ p_status[p] \in Statuses
  BY DEF IInv, TypeOK
<1>1. CASE FindSlot(p)
  BY <1>1, OutOfGameUndocked, SetBothStep DEF FindSlot
<1>2. CASE LeaveInput(p)
  BY <1>0, <1>2, OutOfGameUndocked, SetBothStep DEF LeaveInput
<1>3. CASE Exit(p)
  BY <1>3, SetBothStep DEF Exit, Forgets
<1>4. CASE Kill(p)
  BY <1>0, <1>4, SetBothStep DEF Kill, SetStatus
<1>5. CASE Death(p)
  BY <1>0, <1>5, OutOfGameUndocked, SetBothStep DEF Death, SetStatus
<1>6. CASE Detourneyqueue(p)
  BY <1>0, <1>6, OutOfGameUndocked, SetBothStep DEF Detourneyqueue, SetStatus
<1>7. CASE Busted(p)
  BY <1>0, <1>7, OutOfGameUndocked, SetBothStep DEF Busted, SetStatus
<1>8. CASE LeaveBench(p)
  BY <1>0, <1>8, OutOfGameUndocked, SetBothStep DEF LeaveBench, SetStatus
<1>9. CASE FreeSlot(p)
  BY <1>0, <1>9, SetBothStep DEF FreeSlot, SetStatus, Forgets
<1>10. CASE UdOut(p)
  BY <1>0, <1>10, OutOfGameUndocked, SetBothStep DEF UdOut, SetStatus
<1> QED
  BY <1>1, <1>2, <1>3, <1>4, <1>5, <1>6, <1>7, <1>8, <1>9, <1>10

(* explode_everyone only sends ships from life to explosion.               *)
LEMMA ExplodeEveryoneSafe ==
  ASSUME IInv, ExplodeEveryone
  PROVE  IInv'
<1> USE DEF PFREE, POUTFIT, PALIVE, PEXPLODE, PDEAD, POBSERVE, PTQUEUE, Statuses, InGame
<1>1. PICK S \in SUBSET Player :
        p_status' = [q \in Player |-> IF q \in S THEN PEXPLODE ELSE p_status[q]]
  BY DEF ExplodeEveryone
<1>2. /\ ntserv' \in [Player -> Processes] /\ p_status \in [Player -> Statuses]
      /\ UNCHANGED <<ntserv, p_type, p_damage, PFORBIT, PFDOCKOK, dock>>
  BY DEF IInv, TypeOK, ExplodeEveryone
<1>3. p_status' \in [Player -> Statuses]
  BY <1>1, <1>2
<1>4. \A q \in Player :
        /\ p_status[q] \in InGame /\ p_status'[q] \notin InGame => Undocked(q)
        /\ ntserv'[q] # "input" => /\ p_status'[q] # PALIVE
                                   /\ ntserv[q] # "input" \/ Undocked(q)
  BY <1>1, <1>2, Unfold DEF Safe
<1> QED
  BY <1>2, <1>3, <1>4, StatusStep

(* The end of a league game while nobody is docked.                        *)
LEMMA EndgameSafe ==
  ASSUME IInv, Abrupt = {}, EndgameEffects
  PROVE  IInv'
<1> USE DEF PFREE, POUTFIT, PALIVE, PEXPLODE, PDEAD, POBSERVE, PTQUEUE, Statuses, InGame
<1>1. /\ \A q \in Player : Undocked(q)
      /\ p_status' = [q \in Player |-> IF p_status[q] = PFREE THEN PFREE ELSE POUTFIT]
      /\ UNCHANGED <<ntserv, p_type, p_damage, PFORBIT, PFDOCKOK, dock>>
  BY DEF EndgameEffects, Forgets
<1>2. ntserv' \in [Player -> Processes] /\ p_status' \in [Player -> Statuses]
  BY <1>1 DEF IInv, TypeOK
<1> QED
  BY <1>1, <1>2, StatusStep

-----------------------------------------------------------------------------
(* A step after which fewer ships are docked.                              *)
LEMMA FewerStep ==
  ASSUME IInv, TypeOK', Consistent(dock', NumPortsOf'), Fewer(dock, dock'),
         \A q \in Player :
           /\ p_status[q] \in InGame /\ p_status'[q] \notin InGame =>
                q \notin dock'.PFDOCK /\ NobodyAt(dock', q)
           /\ ntserv'[q] # "input" =>
                /\ p_status'[q] # PALIVE
                /\ ntserv[q] # "input" \/ (q \notin dock'.PFDOCK /\ NobodyAt(dock', q)),
         PFORBIT' \intersect dock'.PFDOCK = {}
  PROVE  IInv'
<1>1. Safe(dock', p_status', ntserv', PFORBIT')
  BY Unfold, SafeFewer
<1> QED
  BY <1>1, Fold

(* The same, of a step that leaves statuses, processes and ships alone.    *)
LEMMA FewerDockStep ==
  ASSUME IInv, dock' \in DockTables, Consistent(dock', NumPortsOf), Fewer(dock, dock'),
         PFORBIT' \subseteq Player, PFDOCKOK' \subseteq Player,
         PFORBIT' \intersect dock'.PFDOCK = {},
         UNCHANGED <<ntserv, p_status, p_type, p_damage>>
  PROVE  IInv'
<1>1. TypeOK'
  BY DEF IInv, TypeOK
<1>2. NumPortsOf' = NumPortsOf
  BY DEF NumPortsOf
<1>3. \A q \in Player : ntserv[q] # "input" => p_status[q] # PALIVE
  BY Unfold DEF Safe
<1> QED
  BY <1>1, <1>2, <1>3, FewerStep

(* Undocking in two steps is undocking.                                    *)
LEMMA FewerTransitive ==
  ASSUME NEW d, NEW e, NEW f, Fewer(d, e), Fewer(e, f)
  PROVE  Fewer(d, f)
BY DEF Fewer

(* undock_player, in any consistent table.                                 *)
LEMMA UndockFewer ==
  ASSUME IInv, NEW d \in DockTables, Consistent(d, NumPortsOf), NEW p \in Player
  PROVE  LET e == UndockPlayer(d, p)
         IN /\ e \in DockTables
            /\ Consistent(e, NumPortsOf)
            /\ Fewer(d, e)
            /\ p \notin e.PFDOCK
            /\ e.PFDOCK = d.PFDOCK \ {p}
BY Unfold, UndockPlayerConsistent DEF Fewer

(* base_undock of some bays.                                               *)
LEMMA BaseUndockFewer ==
  ASSUME IInv, NEW d \in DockTables, Consistent(d, NumPortsOf), NEW p \in Player,
         NEW S \in SUBSET BaysOf(p)
  PROVE  LET e == BaseUndock(d, p, S)
         IN /\ e \in DockTables
            /\ Consistent(e, NumPortsOf)
            /\ Fewer(d, e)
            /\ S = BaysOf(p) => NobodyAt(e, p)
<1>1. S \in SUBSET Bays(NumPortsOf[p]) /\ BaysOf(p) = Bays(NumPortsOf[p]) /\ NumPortsOf \in BayNumbers
  BY Unfold
<1> QED
  BY <1>1, BaseUndockConsistent DEF Fewer

(* A base, which is never docked itself.                                   *)
LEMMA BaseNotDocked ==
  ASSUME IInv, NEW d \in DockTables, Consistent(d, NumPortsOf), NEW p \in Player, AllowsDocking(p)
  PROVE  p \notin d.PFDOCK
BY Unfold DEF AllowsDocking, Consistent, ShipsKnowTheirBay

(* handleDockingReq and others put every ship off a base.                  *)
LEMMA PutOffAllFewer ==
  ASSUME IInv, NEW d \in DockTables, Consistent(d, NumPortsOf), NEW p \in Player, AllowsDocking(p)
  PROVE  LET e == PutOffAll(d, p)
         IN /\ e \in DockTables
            /\ Consistent(e, NumPortsOf)
            /\ Fewer(d, e)
            /\ NobodyAt(e, p)
<1> DEFINE b == BaseUndock(d, p, BaysOf(p))
           e == ClearDocked(b, p)
<1>1. /\ b \in DockTables
      /\ Consistent(b, NumPortsOf)
      /\ Fewer(d, b)
      /\ NobodyAt(b, p)
  BY BaseUndockFewer
<1>2. p \notin b.PFDOCK
  BY <1>1, BaseNotDocked
<1> HIDE DEF b
<1>3. /\ e \in DockTables
      /\ Consistent(e, NumPortsOf)
      /\ e.PFDOCK = b.PFDOCK
      /\ \A s \in b.PFDOCK : e.p_docked[s] = b.p_docked[s]
  BY <1>1, <1>2, Unfold, ClearDockedConsistent
<1>4. Fewer(d, e) /\ NobodyAt(e, p)
  BY <1>1, <1>3 DEF Fewer, NobodyAt
<1>5. PutOffAll(d, p) = e
  BY DEF PutOffAll, b
<1> QED
  BY <1>3, <1>4, <1>5

(* evaporate and doshipexplode: p is docked nowhere, and nobody at p.      *)
LEMMA LeaveTableFewer ==
  ASSUME IInv, NEW p \in Player
  PROVE  LET e == LeaveTable(dock, p)
         IN /\ e \in DockTables
            /\ Consistent(e, NumPortsOf)
            /\ Fewer(dock, e)
            /\ p \notin e.PFDOCK
            /\ NobodyAt(e, p)
<1> DEFINE u == UndockPlayer(dock, p)
<1>1. /\ u \in DockTables
      /\ Consistent(u, NumPortsOf)
      /\ Fewer(dock, u)
      /\ p \notin u.PFDOCK
  BY Unfold, UndockFewer
<1> HIDE DEF u
<1>2. CASE AllowsDocking(p)
  <2>1. LeaveTable(dock, p) = PutOffAll(u, p)
    BY <1>2 DEF LeaveTable, u
  <2>2. /\ PutOffAll(u, p) \in DockTables
        /\ Consistent(PutOffAll(u, p), NumPortsOf)
        /\ Fewer(u, PutOffAll(u, p))
        /\ NobodyAt(PutOffAll(u, p), p)
    BY <1>1, <1>2, PutOffAllFewer
  <2>3. p \notin PutOffAll(u, p).PFDOCK /\ Fewer(dock, PutOffAll(u, p))
    BY <1>1, <2>2 DEF Fewer
  <2> QED
    BY <2>1, <2>2, <2>3
<1>3. CASE ~AllowsDocking(p)
  <2>1. LeaveTable(dock, p) = u
    BY <1>3 DEF LeaveTable, u
  <2>2. NumPortsOf[p] \in Int /\ ~(NumPortsOf[p] > 0)
    BY <1>3, Unfold, SizesAssumption DEF AllowsDocking, BayNumbers
  <2>3. Bays(NumPortsOf[p]) = {}
    BY <2>2 DEF Bays
  <2>4. HoldsShip(u, p, Bays(NumPortsOf[p])) = {}
    BY <2>3 DEF HoldsShip
  <2>5. NobodyAt(u, p)
    BY <1>1, <2>4, Unfold, EmptyBays
  <2> QED
    BY <1>1, <2>1, <2>5
<1> QED
  BY <1>2, <1>3

-----------------------------------------------------------------------------
(* The commands by which ships only leave bases, and refits.               *)
LEMMA DisengageSafe ==
  ASSUME IInv, NEW p \in Player, Disengage(p) \/ LeaveOrbit(p)
  PROVE  IInv'
<1>1. PFORBIT \intersect dock.PFDOCK = {} /\ PFORBIT \subseteq Player /\ PFDOCKOK \subseteq Player
  BY Unfold DEF Safe, TypeOK
<1>2. CASE Disengage(p)
  BY <1>1, <1>2, Unfold, UndockFewer, FewerDockStep DEF Disengage, Fewer
<1>3. CASE LeaveOrbit(p)
  BY <1>1, <1>3, Unfold, FewerDockStep DEF LeaveOrbit, Fewer
<1> QED
  BY <1>2, <1>3

(* handleDockingReq.                                                       *)
LEMMA DockPermissionSafe ==
  ASSUME IInv, NEW p \in Player, NEW on \in BOOLEAN, DockPermission(p, on)
  PROVE  IInv'
<1>1. PFORBIT \intersect dock.PFDOCK = {} /\ PFORBIT \subseteq Player /\ PFDOCKOK' \subseteq Player
  BY Unfold DEF Safe, TypeOK, DockPermission
<1> QED
  BY <1>1, Unfold, PutOffAllFewer, FewerDockStep DEF DockPermission, Fewer

(* declare_war.                                                            *)
LEMMA DeclareWarSafe ==
  ASSUME IInv, NEW p \in Player, NEW S \in SUBSET PortNo, DeclareWar(p, S)
  PROVE  IInv'
<1>1. PFORBIT \intersect dock.PFDOCK = {} /\ PFORBIT \subseteq Player /\ PFDOCKOK \subseteq Player
  BY Unfold DEF Safe, TypeOK
<1>2. CASE p \in dock.PFDOCK
  BY <1>1, <1>2, Unfold, UndockFewer, FewerDockStep DEF DeclareWar, Fewer
<1>3. CASE p \notin dock.PFDOCK
  <2>1. S \intersect BaysOf(p) \in SUBSET BaysOf(p)
    OBVIOUS
  <2> QED
    BY <1>1, <1>3, <2>1, Unfold, BaseUndockFewer, FewerDockStep DEF DeclareWar, Fewer
<1> QED
  BY <1>2, <1>3

(* evaporate.                                                              *)
LEMMA EvaporateSafe ==
  ASSUME IInv, NEW p \in Player, NEW s \in {PTQUEUE, POBSERVE, POUTFIT}, Evaporate(p, s)
  PROVE  IInv'
<1> USE DEF PFREE, POUTFIT, PALIVE, PEXPLODE, PDEAD, POBSERVE, PTQUEUE, Statuses, InGame
<1>1. /\ dock' = LeaveTable(dock, p)
      /\ PFORBIT' = PFORBIT \ {p}
      /\ p_status' = [p_status EXCEPT ![p] = s]
      /\ UNCHANGED <<ntserv, p_type, p_damage, PFDOCKOK>>
  BY DEF Evaporate
<1>2. /\ dock' \in DockTables
      /\ Consistent(dock', NumPortsOf)
      /\ Fewer(dock, dock')
      /\ p \notin dock'.PFDOCK
      /\ NobodyAt(dock', p)
  BY <1>1, LeaveTableFewer
<1>3. TypeOK' /\ NumPortsOf' = NumPortsOf
  BY <1>1, <1>2 DEF IInv, TypeOK, NumPortsOf
<1>4. PFORBIT' \intersect dock'.PFDOCK = {}
  BY <1>1, <1>2, Unfold DEF Safe, Fewer
<1>5. \A q \in Player :
        /\ p_status[q] \in InGame /\ p_status'[q] \notin InGame =>
             q \notin dock'.PFDOCK /\ NobodyAt(dock', q)
        /\ ntserv'[q] # "input" =>
             /\ p_status'[q] # PALIVE
             /\ ntserv[q] # "input" \/ (q \notin dock'.PFDOCK /\ NobodyAt(dock', q))
  BY <1>1, <1>2, Unfold DEF Safe, TypeOK
<1> QED
  BY <1>2, <1>3, <1>4, <1>5, FewerStep

(* A refit, by do_refit or by "control player n ship": the bays of the old *)
(* ship are emptied, and no docked ship becomes a base.                    *)
LEMMA RefitSafe ==
  ASSUME IInv, NEW p \in Player, NEW t \in ShipTypes,
         NumPorts[t] > 0 => p \notin dock.PFDOCK,
         GetShip(p, t, IF AllowsDocking(p) THEN BaseUndock(dock, p, BaysOf(p)) ELSE dock),
         UNCHANGED <<ntserv, p_status, PFORBIT, PFDOCKOK>>
  PROVE  IInv'
<1> DEFINE d == IF AllowsDocking(p) THEN BaseUndock(dock, p, BaysOf(p)) ELSE dock
<1>1. /\ p_type' = [p_type EXCEPT ![p] = t]
      /\ p_damage' = [p_damage EXCEPT ![p] = 0]
      /\ dock' = NewShip(d, p, NumPorts[t])
  BY DEF GetShip
<1>2. /\ d \in DockTables
      /\ Consistent(d, NumPortsOf)
      /\ Fewer(dock, d)
      /\ NobodyAt(d, p)
  <2>1. CASE AllowsDocking(p)
    BY <2>1, Unfold, BaseUndockFewer
  <2>2. CASE ~AllowsDocking(p)
    <3>1. NumPortsOf[p] \in Int /\ ~(NumPortsOf[p] > 0)
      BY <2>2, Unfold, SizesAssumption DEF AllowsDocking, BayNumbers
    <3>2. HoldsShip(dock, p, Bays(NumPortsOf[p])) = {}
      BY <3>1 DEF Bays, HoldsShip
    <3> QED
      BY <2>2, <3>2, Unfold, EmptyBays DEF Fewer
  <2> QED
    BY <2>1, <2>2
<1> HIDE DEF d
<1>3. NumPorts[t] \in 0 .. MAXPORTS
  BY ShipsAssumption
<1>4. NumPorts[t] > 0 => p \notin d.PFDOCK
  BY <1>2 DEF Fewer
<1>5. NumPortsOf' = [NumPortsOf EXCEPT ![p] = NumPorts[t]]
  BY <1>1, Unfold DEF NumPortsOf, TypeOK
<1>6. /\ dock' \in DockTables
      /\ Consistent(dock', NumPortsOf')
      /\ dock'.PFDOCK = d.PFDOCK
      /\ \A s \in d.PFDOCK : dock'.p_docked[s] = d.p_docked[s]
  <2> DEFINE e == NewShip(d, p, NumPorts[t])
             n == [NumPortsOf EXCEPT ![p] = NumPorts[t]]
  <2>1. NumPortsOf \in BayNumbers
    BY Unfold
  <2>2. /\ e \in DockTables
        /\ Consistent(e, n)
        /\ e.PFDOCK = d.PFDOCK
        /\ \A s \in d.PFDOCK : e.p_docked[s] = d.p_docked[s]
    BY <1>2, <1>3, <1>4, <2>1, NewShipConsistent
  <2> QED
    BY <1>1, <1>5, <2>2
<1>7. Fewer(dock, dock')
  BY <1>2, <1>6 DEF Fewer
<1>8. TypeOK'
  BY <1>1, <1>6, ShipsAssumption DEF IInv, TypeOK
<1>9. PFORBIT' \intersect dock'.PFDOCK = {}
  BY <1>7, Unfold DEF Safe, Fewer
<1>10. \A q \in Player : ntserv[q] # "input" => p_status[q] # PALIVE
  BY Unfold DEF Safe
<1> QED
  BY <1>6, <1>7, <1>8, <1>9, <1>10, FewerStep

(* do_refit: a docked ship gets a plain ship, one in orbit is not docked.  *)
LEMMA DoRefitSafe ==
  ASSUME IInv, NEW p \in Player, NEW t \in ShipTypes, DoRefit(p, t)
  PROVE  IInv'
<1>1. NumPorts[t] > 0 => p \notin dock.PFDOCK
  BY Unfold DEF DoRefit, Safe
<1> QED
  BY <1>1, RefitSafe DEF DoRefit

(* "control player n ship", of a plain ship or an undocked player.         *)
LEMMA ControlShipSafe ==
  ASSUME IInv, Abrupt = {}, NEW p \in Player, NEW t \in ShipTypes, ControlShip(p, t)
  PROVE  IInv'
<1>1. NumPorts[t] > 0 => p \notin dock.PFDOCK
  BY DEF ControlShip
<1> QED
  BY <1>1, RefitSafe DEF ControlShip

-----------------------------------------------------------------------------
(* Docking.  newdock leaves the table alone, or adds p at base b.          *)
Docks(d, e, p, b) ==
  /\ e.PFDOCK = d.PFDOCK \union {p}
  /\ e.p_docked[p] = b
  /\ \A s \in d.PFDOCK : e.p_docked[s] = d.p_docked[s]

(* newdock, in any consistent table where p is not docked.                 *)
LEMMA NewDockFacts ==
  ASSUME NEW bays \in BayNumbers, NEW d \in DockTables, Consistent(d, bays),
         NEW p \in Player, p \notin d.PFDOCK, bays[p] = 0,
         NEW b \in Player, b # p, bays[b] = NumPorts[p_type[b]],
         NEW e \in NewDock(d, p, b)
  PROVE  /\ e \in DockTables
         /\ Consistent(e, bays)
         /\ e = d \/ Docks(d, e, p, b)
<1>1. BaysOf(b) = Bays(bays[b])
  BY DEF BaysOf
<1>2. CASE e = d
  BY <1>2
<1>3. CASE e # d
  <2>1. PICK i \in BaysOf(b) : e = DockTo(d, p, b, i) /\ d.p_port[b][i] = VACANT
    BY <1>3 DEF NewDock
  <2> QED
    BY <1>1, <2>1, DockToConsistent DEF Docks
<1> QED
  BY <1>2, <1>3

(* A docking is safe between two players who are in the game.              *)
LEMMA SafeDocks ==
  ASSUME NEW d \in DockTables, NEW bays, Consistent(d, bays), NEW p \in Player, NEW b \in Player,
         NEW e, e = d \/ Docks(d, e, p, b),
         NEW st, NEW ns, NEW orb, Safe(d, st, ns, orb),
         ns[p] = "input", ns[b] = "input", st[p] \in InGame, st[b] \in InGame, p \notin orb
  PROVE  Safe(e, st, ns, orb)
<1>1. CASE e = d
  BY <1>1
<1>2. CASE Docks(d, e, p, b)
  <2>1. \A s \in e.PFDOCK : st[s] \in InGame /\ st[e.p_docked[s]] \in InGame
    BY <1>2 DEF Docks, Safe
  <2>2. \A q \in Player : ns[q] # "input" => st[q] # PALIVE /\ q \notin e.PFDOCK /\ NobodyAt(e, q)
    BY <1>2 DEF Docks, Safe, NobodyAt
  <2>3. orb \intersect e.PFDOCK = {}
    BY <1>2 DEF Docks, Safe
  <2> QED
    BY <2>1, <2>2, <2>3 DEF Safe
<1> QED
  BY <1>1, <1>2

(* orbit() at a base.                                                      *)
LEMMA OrbitBaseSafe ==
  ASSUME IInv, Abrupt = {}, NEW p \in Player, NEW b \in Player, OrbitBase(p, b)
  PROVE  IInv'
<1> USE DEF PALIVE, PEXPLODE, PDEAD, InGame
<1> DEFINE d == UndockPlayer(dock, p)
<1>1. /\ ntserv[p] = "input" /\ p_status[p] \in InGame /\ p \notin PFORBIT
      /\ NumPortsOf[p] = 0
      /\ b # p /\ p_status[b] = PALIVE
      /\ dock' \in NewDock(d, p, b)
      /\ UNCHANGED <<ntserv, p_status, p_type, p_damage, PFORBIT, PFDOCKOK>>
  BY Unfold DEF OrbitBase, MayOrbit, Commanding, CanDock
<1>2. /\ d \in DockTables
      /\ Consistent(d, NumPortsOf)
      /\ Fewer(dock, d)
      /\ p \notin d.PFDOCK
  BY Unfold, UndockFewer
<1> HIDE DEF d
<1>3. /\ dock' \in DockTables
      /\ Consistent(dock', NumPortsOf)
      /\ dock' = d \/ Docks(d, dock', p, b)
  BY <1>1, <1>2, Unfold, NewDockFacts
<1>4. TypeOK' /\ NumPortsOf' = NumPortsOf
  BY <1>1, <1>3 DEF IInv, TypeOK, NumPortsOf
<1>5. Safe(d, p_status, ntserv, PFORBIT)
  <2>1. PFORBIT \intersect d.PFDOCK = {}
    BY <1>2, Unfold DEF Safe, Fewer
  <2>2. \A q \in Player : ntserv[q] # "input" => p_status[q] # PALIVE
    BY Unfold DEF Safe
  <2> QED
    BY <1>2, <2>1, <2>2, Unfold, SafeFewer
<1>6. ntserv[b] = "input"
  BY <1>1, Unfold DEF Safe
<1>7. Safe(dock', p_status, ntserv, PFORBIT)
  BY <1>1, <1>2, <1>3, <1>5, <1>6, SafeDocks
<1> QED
  BY <1>1, <1>3, <1>4, <1>7, Fold

(* orbit() at a planet.                                                    *)
LEMMA OrbitPlanetSafe ==
  ASSUME IInv, NEW p \in Player, OrbitPlanet(p)
  PROVE  IInv'
<1> USE DEF PFREE, POUTFIT, PALIVE, PEXPLODE, PDEAD, POBSERVE, PTQUEUE, Statuses, InGame
<1>1. /\ ntserv[p] = "input"
      /\ (p_status' = p_status \/ (p_status[p] = PDEAD /\ p_status' = [p_status EXCEPT ![p] = POUTFIT]))
      /\ dock' = UndockPlayer(dock, p)
      /\ PFORBIT' \subseteq PFORBIT \union {p}
      /\ UNCHANGED <<ntserv, p_type, p_damage, PFDOCKOK>>
  BY DEF OrbitPlanet, MayOrbit, Commanding
<1>2. /\ dock' \in DockTables
      /\ Consistent(dock', NumPortsOf)
      /\ Fewer(dock, dock')
      /\ p \notin dock'.PFDOCK
  BY <1>1, Unfold, UndockFewer
<1>3. TypeOK' /\ NumPortsOf' = NumPortsOf
  BY <1>1, <1>2 DEF IInv, TypeOK, NumPortsOf
<1>4. PFORBIT' \intersect dock'.PFDOCK = {}
  BY <1>1, <1>2, Unfold DEF Safe, Fewer
<1>5. \A q \in Player :
        /\ ~(p_status[q] \in InGame /\ p_status'[q] \notin InGame)
        /\ ntserv'[q] # "input" => p_status'[q] # PALIVE /\ ntserv[q] # "input"
  BY <1>1, Unfold DEF Safe, TypeOK
<1> QED
  BY <1>2, <1>3, <1>4, <1>5, FewerStep

-----------------------------------------------------------------------------
(* enter(): the table of a player on the outfit screen has nothing to lose.*)
LEMMA EnterTableFacts ==
  ASSUME IInv, NEW p \in Player, NEW t \in ShipTypes, ntserv[p] = "getEntry"
  PROVE  LET e == EnterTable(p, t)
         IN /\ e \in DockTables
            /\ Consistent(e, [NumPortsOf EXCEPT ![p] = NumPorts[t]])
            /\ Fewer(dock, e)
            /\ p \notin e.PFDOCK
<1> DEFINE new == [NumPortsOf EXCEPT ![p] = NumPorts[t]]
           n == NewShip(dock, p, NumPorts[t])
           c == ClearDocked(n, p)
           e == EnterTable(p, t)
<1>1. p \notin dock.PFDOCK /\ NobodyAt(dock, p)
  BY Unfold DEF Safe
<1>2. NumPorts[t] \in 0 .. MAXPORTS /\ new \in BayNumbers
  BY ShipsAssumption, Unfold DEF BayNumbers
<1>3. /\ n \in DockTables
      /\ Consistent(n, new)
      /\ n.PFDOCK = dock.PFDOCK
      /\ \A s \in dock.PFDOCK : n.p_docked[s] = dock.p_docked[s]
  BY <1>1, <1>2, Unfold, NewShipConsistent
<1>4. p \notin n.PFDOCK /\ NobodyAt(n, p)
  BY <1>1, <1>3 DEF NobodyAt
<1> HIDE DEF n, new
<1>5. /\ c \in DockTables
      /\ Consistent(c, new)
      /\ c.PFDOCK = n.PFDOCK
      /\ \A s \in n.PFDOCK : c.p_docked[s] = n.p_docked[s]
  BY <1>2, <1>3, <1>4, ClearDockedConsistent
<1>6. c = [PFDOCK |-> n.PFDOCK, p_docked |-> [n.p_docked EXCEPT ![p] = 0], p_port |-> n.p_port]
  BY DEF ClearDocked
<1>7. e = [PFDOCK |-> c.PFDOCK \ {p}, p_docked |-> c.p_docked, p_port |-> c.p_port]
  BY DEF EnterTable, n
<1> HIDE DEF c, e
<1>8. c.PFDOCK \ {p} = n.PFDOCK
  BY <1>4, <1>5
<1>9. e = c
  <2>1. c.p_docked = [n.p_docked EXCEPT ![p] = 0] /\ c.p_port = n.p_port
    BY <1>6
  <2> QED
    BY <1>6, <1>7, <1>8, <2>1
<1>10. Fewer(dock, c) /\ p \notin c.PFDOCK
  BY <1>1, <1>3, <1>5 DEF Fewer
<1> QED
  BY <1>5, <1>9, <1>10 DEF new, e

(* enter(), docked to a base or not.                                       *)
LEMMA EnterSafe ==
  ASSUME IInv, Abrupt = {}, NEW p \in Player, NEW t \in ShipTypes, Enter(p, t)
  PROVE  IInv'
<1> USE DEF PFREE, POUTFIT, PALIVE, PEXPLODE, PDEAD, POBSERVE, PTQUEUE, Statuses, Processes, InGame
<1> DEFINE d == EnterTable(p, t)
           new == [NumPortsOf EXCEPT ![p] = NumPorts[t]]
<1>1. PICK s \in {PALIVE, POBSERVE} : /\ p \in dock'.PFDOCK => s = PALIVE
                                      /\ p_status' = [p_status EXCEPT ![p] = s]
  BY DEF Enter
<1>2. /\ ntserv[p] = "getEntry"
      /\ ntserv' = [ntserv EXCEPT ![p] = "input"]
      /\ p_type' = [p_type EXCEPT ![p] = t]
      /\ p_damage' = [p_damage EXCEPT ![p] = 0]
      /\ PFORBIT' = PFORBIT \ {p}
      /\ PFDOCKOK' \subseteq PFDOCKOK \union {p}
  BY DEF Enter
<1>3. /\ d \in DockTables
      /\ Consistent(d, new)
      /\ Fewer(dock, d)
      /\ p \notin d.PFDOCK
  BY <1>2, EnterTableFacts
<1>4. new \in BayNumbers /\ NumPortsOf' = new
  BY <1>2, ShipsAssumption, Unfold DEF NumPortsOf, BayNumbers, TypeOK
<1>5. dock' = d \/ \E b \in Hosts(p) : t \in MassProduced /\ dock' \in NewDock(d, p, b)
  BY DEF Enter
<1> HIDE DEF d
<1>6. /\ p_status' \in [Player -> Statuses] /\ ntserv' \in [Player -> Processes]
      /\ p_status'[p] = s /\ ntserv'[p] = "input"
      /\ \A q \in Player \ {p} : p_status'[q] = p_status[q] /\ ntserv'[q] = ntserv[q]
  BY <1>1, <1>2, Unfold DEF TypeOK
<1>7. Safe(d, p_status', ntserv', PFORBIT')
  <2>1. p_status[p] # PALIVE /\ p \notin dock.PFDOCK /\ NobodyAt(dock, p)
    BY <1>2, Unfold DEF Safe
  <2>2. NobodyAt(d, p)
    BY <1>3, <2>1 DEF Fewer, NobodyAt
  <2>3. PFORBIT' \intersect d.PFDOCK = {}
    BY <1>2, <1>3, Unfold DEF Safe, Fewer
  <2>4. \A q \in Player :
          /\ p_status[q] \in InGame /\ p_status'[q] \notin InGame => q \notin d.PFDOCK /\ NobodyAt(d, q)
          /\ ntserv'[q] # "input" => /\ p_status'[q] # PALIVE
                                     /\ ntserv[q] # "input" \/ (q \notin d.PFDOCK /\ NobodyAt(d, q))
    BY <1>3, <1>6, <2>2, Unfold DEF Safe
  <2> QED
    BY <1>3, <2>3, <2>4, Unfold, SafeFewer
<1>8. /\ dock' \in DockTables
      /\ Consistent(dock', new)
      /\ Safe(dock', p_status', ntserv', PFORBIT')
  <2>1. CASE dock' = d
    BY <1>3, <1>7, <2>1
  <2>2. CASE dock' # d
    <3>1. PICK b \in Hosts(p) : t \in MassProduced /\ dock' \in NewDock(d, p, b)
      BY <1>5, <2>2
    <3>2. /\ b \in Player /\ b # p
          /\ p_status[b] = PALIVE
          /\ ntserv[b] = "input"
          /\ new[p] = 0
          /\ new[b] = NumPorts[p_type[b]]
      BY <3>1, ShipsAssumption, Unfold DEF Hosts, Safe, BayNumbers
    <3> HIDE DEF new
    <3>3. /\ dock' \in DockTables
          /\ Consistent(dock', new)
          /\ Docks(d, dock', p, b)
      BY <1>3, <1>4, <2>2, <3>1, <3>2, NewDockFacts
    <3>4. p \in dock'.PFDOCK
      BY <3>3 DEF Docks
    <3>5. p_status'[p] \in InGame /\ p_status'[b] \in InGame /\ ntserv'[b] = "input"
      BY <1>1, <1>6, <3>2, <3>4
    <3>6. p \notin PFORBIT'
      BY <1>2
    <3> QED
      BY <1>3, <1>6, <1>7, <3>2, <3>3, <3>5, <3>6, SafeDocks
  <2> QED
    BY <2>1, <2>2
<1>9. TypeOK'
  BY <1>2, <1>6, <1>8, ShipsAssumption DEF IInv, TypeOK
<1> QED
  BY <1>4, <1>8, <1>9, Fold

-----------------------------------------------------------------------------
(* The daemon.  Hull damage stays in its range, and a hit only kills.      *)
LEMMA HullAfterType ==
  ASSUME NEW q, NEW h \in 0 .. MaxHull, NEW hit \in Nat
  PROVE  HullAfter(q, h, hit) \in 0 .. MaxHull
BY ShipsAssumption DEF HullAfter

(* inflict_damage from afar.                                               *)
LEMMA HitSafe ==
  ASSUME IInv, NEW p \in Player, NEW hit \in 1 .. MaxHull, Hit(p, hit)
  PROVE  IInv'
<1> USE DEF PALIVE, PEXPLODE, Statuses, InGame
<1>1. /\ p_status[p] = PALIVE
      /\ p_damage' = [p_damage EXCEPT ![p] = HullAfter(p, @, hit)]
      /\ p_status' = p_status \/ p_status' = [p_status EXCEPT ![p] = PEXPLODE]
      /\ UNCHANGED <<ntserv, p_type, PFORBIT, PFDOCKOK, dock>>
  <2>1. p_status = [p_status EXCEPT ![p] = p_status[p]]
    BY Unfold DEF TypeOK
  <2> QED
    BY <2>1 DEF Hit
<1>2. HullAfter(p, p_damage[p], hit) \in 0 .. MaxHull
  BY ShipsAssumption, Unfold, HullAfterType DEF TypeOK
<1>3. TypeOK' /\ NumPortsOf' = NumPortsOf /\ Fewer(dock, dock')
  BY <1>1, <1>2, Unfold DEF TypeOK, NumPortsOf, Fewer
<1>4. PFORBIT' \intersect dock'.PFDOCK = {} /\ Consistent(dock', NumPortsOf')
  BY <1>1, <1>3, Unfold DEF Safe
<1>5. \A q \in Player :
        /\ ~(p_status[q] \in InGame /\ p_status'[q] \notin InGame)
        /\ ntserv'[q] # "input" => p_status'[q] # PALIVE /\ ntserv[q] # "input"
  BY <1>1, Unfold DEF Safe, TypeOK
<1> QED
  BY <1>3, <1>4, <1>5, FewerStep

(* doshipexplode.                                                          *)
LEMMA UdExplodeSafe ==
  ASSUME IInv, NEW j \in Player, UdExplode(j)
  PROVE  IInv'
<1> USE DEF PALIVE, PEXPLODE, PDEAD, Statuses, InGame
<1>1. PICK V \in SUBSET {q \in Player \ {j} : p_status[q] = PALIVE},
           hit \in 1 .. MaxHull, s \in {PEXPLODE, PDEAD} :
       /\ p_damage' = [q \in Player |-> IF q \in V THEN HullAfter(q, p_damage[q], hit)
                                        ELSE p_damage[q]]
       /\ p_status' = [q \in Player |-> IF q = j THEN s
                                        ELSE IF q \in V /\ Dies(q, p_damage[q], hit) THEN PEXPLODE
                                        ELSE p_status[q]]
  BY DEF UdExplode
<1>2. /\ dock' = LeaveTable(dock, j)
      /\ PFORBIT' = PFORBIT \ {j}
      /\ UNCHANGED <<ntserv, p_type, PFDOCKOK>>
  BY DEF UdExplode
<1>3. /\ dock' \in DockTables
      /\ Consistent(dock', NumPortsOf)
      /\ Fewer(dock, dock')
      /\ j \notin dock'.PFDOCK
      /\ NobodyAt(dock', j)
  BY <1>2, LeaveTableFewer
<1>4. p_damage' \in [Player -> 0 .. MaxHull]
  <2>1. \A q \in Player : HullAfter(q, p_damage[q], hit) \in 0 .. MaxHull /\ p_damage[q] \in 0 .. MaxHull
    BY ShipsAssumption, Unfold, HullAfterType DEF TypeOK
  <2> QED
    BY <1>1, <2>1
<1>5. p_status' \in [Player -> Statuses]
  BY <1>1, Unfold DEF TypeOK
<1>6. TypeOK' /\ NumPortsOf' = NumPortsOf
  BY <1>2, <1>3, <1>4, <1>5, Unfold DEF TypeOK, NumPortsOf
<1>7. PFORBIT' \intersect dock'.PFDOCK = {}
  BY <1>2, <1>3, Unfold DEF Safe, Fewer
<1>8. \A q \in Player :
        /\ p_status[q] \in InGame /\ p_status'[q] \notin InGame => q = j
        /\ ntserv'[q] # "input" => p_status'[q] # PALIVE /\ ntserv[q] # "input"
  BY <1>1, <1>2, Unfold DEF Safe
<1> QED
  BY <1>3, <1>6, <1>7, <1>8, FewerStep

(* A tractor, applied to the tables d, st, h that the rest of the player's *)
(* step has made of dock, p_status and p_damage.                           *)
LEMMA TractorFacts ==
  ASSUME IInv, NEW j \in Player, NEW v \in Player,
         NEW d \in DockTables, Consistent(d, NumPortsOf), Fewer(dock, d),
         NEW st \in [Player -> Statuses], NEW h \in [Player -> 0 .. MaxHull],
         Tractor(j, v, d, st, h)
  PROVE  /\ dock' \in DockTables
         /\ Consistent(dock', NumPortsOf)
         /\ Fewer(d, dock')
         /\ PFORBIT' \subseteq PFORBIT
         /\ p_damage' \in [Player -> 0 .. MaxHull]
         /\ p_status' \in [Player -> Statuses]
         /\ \A q \in Player : p_status'[q] \in {st[q], PEXPLODE}
<1> USE DEF PALIVE, PEXPLODE, Statuses
<1>1. CASE ~(v \notin PFORBIT /\ v \in d.PFDOCK)
  BY <1>1 DEF Tractor, Fewer
<1>2. CASE v \notin PFORBIT /\ v \in d.PFDOCK
  <2> DEFINE b == d.p_docked[v]
             i == d.p_port[v][0]
             u == UndockPlayer(d, v)
  <2>1. PICK e \in 0 .. Erosion, vDies \in BOOLEAN :
          /\ dock' = DamageBay(u, b, i)
          /\ p_damage' = [h EXCEPT ![b] = HullAfter(b, @, DOCKDAMAGE - e)]
          /\ p_status' = [q \in Player |->
               IF (q = v /\ vDies) \/ (q = b /\ Dies(b, h[b], DOCKDAMAGE)) THEN PEXPLODE ELSE st[q]]
          /\ PFORBIT' = PFORBIT
    BY <1>2 DEF Tractor, PullOff
  <2>2. /\ b \in Player
        /\ i \in Bays(NumPortsOf[b])
        /\ NumPortsOf \in BayNumbers
    BY <1>2, Unfold DEF Consistent, ShipsKnowTheirBay
  <2>3. i \in PortNo /\ NumPortsOf[b] > 0
    BY <2>2, SizesAssumption DEF Bays, PortNo, BayNumbers
  <2>4. /\ u \in DockTables
        /\ Consistent(u, NumPortsOf)
        /\ Fewer(d, u)
        /\ u.p_port[b][i] = VACANT
    BY <1>2, <2>2, UndockPlayerConsistent DEF Fewer
  <2> HIDE DEF b, i, u
  <2>5. /\ dock' \in DockTables
        /\ Consistent(dock', NumPortsOf)
        /\ dock'.PFDOCK = u.PFDOCK
        /\ dock'.p_docked = u.p_docked
    BY <2>1, <2>2, <2>3, <2>4, DamageBayConsistent
  <2>6. Fewer(d, dock')
    BY <2>4, <2>5 DEF Fewer
  <2>7. HullAfter(b, h[b], DOCKDAMAGE - e) \in 0 .. MaxHull
    <3>1. DOCKDAMAGE - e \in Nat
      BY SizesAssumption, ShipsAssumption
    <3> QED
      BY <2>2, <3>1, HullAfterType
  <2>8. p_damage' \in [Player -> 0 .. MaxHull]
    BY <2>1, <2>7
  <2>9. p_status' \in [Player -> Statuses] /\ \A q \in Player : p_status'[q] \in {st[q], PEXPLODE}
    BY <2>1
  <2> QED
    BY <2>1, <2>5, <2>6, <2>8, <2>9
<1> QED
  BY <1>1, <1>2

(* The live branch of udplayers.                                           *)
LEMMA UdAliveSafe ==
  ASSUME IInv, NEW j \in Player, UdAlive(j)
  PROVE  IInv'
<1> USE DEF PALIVE, PEXPLODE, Statuses, InGame
<1>1. PICK s \in {PALIVE, PEXPLODE}, hd \in Repaired(p_damage[j]) :
        LET d    == IF AllowsDocking(j) THEN RepairRing(dock, j, NumPorts[p_type[j]], hd) ELSE dock
            st   == [p_status EXCEPT ![j] = s]
            hull == [p_damage EXCEPT ![j] = hd]
        IN \/ /\ dock' = d /\ p_status' = st /\ p_damage' = hull
              /\ PFORBIT' = PFORBIT
           \/ \E v \in Player : Tractor(j, v, d, st, hull)
  BY DEF UdAlive
<1> DEFINE d    == IF AllowsDocking(j) THEN RepairRing(dock, j, NumPorts[p_type[j]], hd) ELSE dock
           st   == [p_status EXCEPT ![j] = s]
           hull == [p_damage EXCEPT ![j] = hd]
<1>2. p_status[j] = PALIVE /\ UNCHANGED <<ntserv, p_type, PFDOCKOK>>
  BY DEF UdAlive
<1>3. hd \in Int /\ hull \in [Player -> 0 .. MaxHull]
  BY ShipsAssumption, Unfold DEF TypeOK, Repaired
<1>4. st \in [Player -> Statuses] /\ \A q \in Player : st[q] \in {p_status[q], PEXPLODE}
  BY <1>2, Unfold DEF TypeOK
<1>5. /\ d \in DockTables
      /\ Consistent(d, NumPortsOf)
      /\ Fewer(dock, d)
  <2>1. CASE AllowsDocking(j)
    <3>1. NumPortsOf[j] = NumPorts[p_type[j]] /\ NumPortsOf[j] > 0
      BY <2>1, Unfold DEF AllowsDocking
    <3> QED
      BY <1>3, <2>1, <3>1, Unfold, RepairRingConsistent DEF Fewer
  <2>2. CASE ~AllowsDocking(j)
    BY <2>2, Unfold DEF Fewer
  <2> QED
    BY <2>1, <2>2
<1> HIDE DEF d, st, hull
<1>6. /\ dock' \in DockTables
      /\ Consistent(dock', NumPortsOf)
      /\ Fewer(d, dock')
      /\ PFORBIT' \subseteq PFORBIT
      /\ p_damage' \in [Player -> 0 .. MaxHull]
      /\ p_status' \in [Player -> Statuses]
      /\ \A q \in Player : p_status'[q] \in {st[q], PEXPLODE}
  <2>1. CASE dock' = d /\ p_status' = st /\ p_damage' = hull /\ PFORBIT' = PFORBIT
    BY <1>3, <1>4, <1>5, <2>1 DEF Fewer
  <2>2. CASE \E v \in Player : Tractor(j, v, d, st, hull)
    BY <1>3, <1>4, <1>5, <2>2, TractorFacts
  <2> QED
    BY <1>1, <2>1, <2>2 DEF d, st, hull
<1>7. Fewer(dock, dock')
  BY <1>5, <1>6, FewerTransitive
<1>8. TypeOK' /\ NumPortsOf' = NumPortsOf
  BY <1>2, <1>6, Unfold DEF TypeOK, NumPortsOf
<1>9. PFORBIT' \intersect dock'.PFDOCK = {}
  BY <1>6, <1>7, Unfold DEF Safe, Fewer
<1>10. \A q \in Player :
        /\ ~(p_status[q] \in InGame /\ p_status'[q] \notin InGame)
        /\ ntserv'[q] # "input" => p_status'[q] # PALIVE /\ ntserv[q] # "input"
  BY <1>2, <1>4, <1>6, Unfold DEF Safe
<1> QED
  BY <1>6, <1>7, <1>8, <1>9, <1>10, FewerStep

-----------------------------------------------------------------------------
(* All slots are free at first.                                            *)
LEMMA InitSafe ==
  ASSUME Init
  PROVE  IInv
<1> USE DEF PFREE, PALIVE, Statuses, Processes
<1>1. PICK t \in ShipTypes : NumPorts[t] = 0 /\ p_type = [p \in Player |-> t]
  BY DEF Init
<1>2. /\ ntserv = [p \in Player |-> "none"]
      /\ p_status = [p \in Player |-> PFREE]
      /\ p_damage = [p \in Player |-> 0]
      /\ PFORBIT = {} /\ PFDOCKOK = {}
      /\ dock = [PFDOCK |-> {}, p_docked |-> [p \in Player |-> 0],
                 p_port |-> [p \in Player |-> [i \in PortNo |-> 0]]]
  BY DEF Init
<1>3. dock.PFDOCK = {}
  BY <1>2
<1>4. dock \in DockTables
  <2>1. 0 \in Player /\ 0 \in Int
    BY SizesAssumption DEF Player
  <2> QED
    BY <1>2, <2>1 DEF DockTables
<1>5. TypeOK
  BY <1>1, <1>2, <1>4, ShipsAssumption DEF TypeOK
<1>6. \A p \in Player : NumPortsOf[p] = 0 /\ HoldsShip(dock, p, Bays(NumPortsOf[p])) = {}
  BY <1>1 DEF NumPortsOf, HoldsShip, Bays
<1>7. TableConsistent
  BY <1>3, <1>6 DEF TableConsistent, Consistent, ShipsKnowTheirBay, BaysKnowTheirShip, CountsAreRight
<1>8. DockedAreInGame /\ OrbitOrDock
  BY <1>2, <1>3 DEF DockedAreInGame, OrbitOrDock
<1>9. OutsideUndocked
  BY <1>2, <1>3, <1>6 DEF OutsideUndocked, Undocked, BaysOf, NumPortsOf
<1> QED
  BY <1>5, <1>7, <1>8, <1>9 DEF IInv

(* Every step of every process keeps the invariant.                        *)
LEMMA NextSafe ==
  ASSUME IInv, Abrupt = {}, [Next]_vars
  PROVE  IInv'
<1>1. CASE UNCHANGED vars
  <2>1. UNCHANGED <<ntserv, p_status, p_type, p_damage, PFORBIT, PFDOCKOK, dock>>
    BY <1>1 DEF vars
  <2>2. \A q \in Player : ntserv[q] # "input" => p_status[q] # PALIVE
    BY Unfold DEF Safe
  <2> QED
    BY <2>1, <2>2, StatusStep, Unfold DEF TypeOK
<1>2. ASSUME NEW p \in Player,
             \/ Disengage(p) \/ LeaveOrbit(p) \/ OrbitPlanet(p)
             \/ FindSlot(p) \/ LeaveInput(p) \/ Exit(p) \/ Kill(p) \/ Death(p)
             \/ Detourneyqueue(p) \/ Busted(p) \/ LeaveBench(p) \/ FreeSlot(p)
             \/ UdPlayer(p)
      PROVE  IInv'
  BY <1>2, DisengageSafe, OrbitPlanetSafe, StatusActions, UdAliveSafe, UdExplodeSafe DEF UdPlayer
<1>3. ASSUME NEW p \in Player, NEW b \in Player, OrbitBase(p, b)
      PROVE  IInv'
  BY <1>3, OrbitBaseSafe
<1>4. ASSUME NEW p \in Player, NEW on \in BOOLEAN, DockPermission(p, on)
      PROVE  IInv'
  BY <1>4, DockPermissionSafe
<1>5. ASSUME NEW p \in Player, NEW S \in SUBSET PortNo, DeclareWar(p, S)
      PROVE  IInv'
  BY <1>5, DeclareWarSafe
<1>6. ASSUME NEW p \in Player, NEW t \in ShipTypes, DoRefit(p, t) \/ ControlShip(p, t) \/ Enter(p, t)
      PROVE  IInv'
  BY <1>6, DoRefitSafe, ControlShipSafe, EnterSafe
<1>7. ASSUME NEW p \in Player, NEW s \in {PTQUEUE, POBSERVE, POUTFIT}, Evaporate(p, s)
      PROVE  IInv'
  BY <1>7, EvaporateSafe
<1>8. ASSUME NEW p \in Player, NEW hit \in 1 .. MaxHull, Hit(p, hit)
      PROVE  IInv'
  BY <1>8, HitSafe
<1>9. CASE ExplodeEveryone
  BY <1>9, ExplodeEveryoneSafe
<1>10. CASE EndgameEffects
  BY <1>10, EndgameSafe
<1> QED
  BY <1>1, <1>2, <1>3, <1>4, <1>5, <1>6, <1>7, <1>8, <1>9, <1>10 DEF Next

-----------------------------------------------------------------------------
(* Without abrupt steps all five parts hold in every reachable state.      *)
THEOREM DockingInvariant ==
  ASSUME Abrupt = {}
  PROVE  Spec => []IInv
<1>1. Init => IInv
  BY InitSafe
<1>2. IInv /\ [Next]_vars => IInv'
  BY NextSafe
<1> QED
  BY <1>1, <1>2, PTL DEF Spec

(* The state keeps its type: in particular p_docked and p_port of every    *)
(* player hold player numbers, bay numbers or their two markers.           *)
THEOREM DockingType ==
  ASSUME Abrupt = {}
  PROVE  Spec => []TypeOK
<1>1. IInv => TypeOK
  BY DEF IInv
<1> QED
  BY <1>1, DockingInvariant, PTL

(* Both ends of every docking agree, and every base counts its ships       *)
(* right, however plutil.c, orbit.c, player.c and their callers interleave.*)
THEOREM DockingConsistent ==
  ASSUME Abrupt = {}
  PROVE  Spec => []TableConsistent
<1>1. IInv => TableConsistent
  BY DEF IInv
<1> QED
  BY <1>1, DockingInvariant, PTL

(* No live ship is at a bay of a corpse, and no corpse at a live base's.   *)
THEOREM DockedStayInGame ==
  ASSUME Abrupt = {}
  PROVE  Spec => []DockedAreInGame
<1>1. IInv => DockedAreInGame
  BY DEF IInv
<1> QED
  BY <1>1, DockingInvariant, PTL

(* enter() never clears the docking of a player who still has one.         *)
THEOREM EnterForgetsNothing ==
  ASSUME Abrupt = {}
  PROVE  Spec => []OutsideUndocked
<1>1. IInv => OutsideUndocked
  BY DEF IInv
<1> QED
  BY <1>1, DockingInvariant, PTL

-----------------------------------------------------------------------------
(***************************************************************************)
(* The docking ring and the hull.  RingMatchesHull is inductive once the   *)
(* table is known to be consistent, but only if no hit is eroded and if    *)
(* even a base with all its bays but one torn off is not at the end of its *)
(* hull: HullAfter stops counting at MaxHull, and a pull that costs less   *)
(* than DOCKDAMAGE would otherwise buy a bay too cheaply.  Of the classes  *)
(* with bays in daemon/shipvals.c the smallest hull is the jump ship's, 60,*)
(* and no class has more than 6 bays: 5 * 10 < 60.                         *)
(***************************************************************************)
HullBears == (MAXPORTS - 1) * DOCKDAMAGE < MaxHull

(* The bays damaged in e were damaged in d.                                *)
Mends(d, e) ==
  \A q \in Player, k \in PortNo : e.p_port[q][k] = PDAMAGE => d.p_port[q][k] = PDAMAGE

(* One base's part of RingMatchesHull: n bays, hull damage h.              *)
RingOf(d, b, n, h) ==
  LET damaged == Cardinality(DamagedBays(d, b, n))
  IN n > 0 /\ damaged > 0 => (damaged - 1) * DOCKDAMAGE < h

(* No bay of q is damaged.                                                 *)
Whole(d, q) == \A k \in PortNo : d.p_port[q][k] # PDAMAGE

(* Multiplying by a natural number keeps the order.                        *)
LEMMA TimesMonotone ==
  ASSUME NEW x \in Int, NEW y \in Int, NEW m \in Nat, x <= y
  PROVE  x * m <= y * m
<1>1. (y - x) * m >= 0
  BY SMT
<1>2. (y - x) * m = y * m - x * m
  BY SMT
<1>3. x * m \in Int /\ y * m \in Int
  BY SMT
<1> QED
  BY <1>1, <1>2, <1>3

(* Mending in two steps is mending.                                        *)
LEMMA MendsTransitive ==
  ASSUME NEW d, NEW e, NEW f, Mends(d, e), Mends(e, f)
  PROVE  Mends(d, f)
BY DEF Mends

(* undock_player damages no bay.                                           *)
LEMMA UndockMends ==
  ASSUME NEW d \in DockTables, NEW p \in Player
  PROVE  Mends(d, UndockPlayer(d, p))
<1> DEFINE e == UndockPlayer(d, p)
           b == d.p_docked[p]
           i == d.p_port[p][0]
           pb == [k \in PortNo |-> IF k = i THEN VACANT ELSE d.p_port[b][k]]
<1>1. CASE p \notin d.PFDOCK
  BY <1>1 DEF Mends, UndockPlayer
<1>2. CASE p \in d.PFDOCK
  <2>1. e.p_port = [d.p_port EXCEPT ![b] = [k \in PortNo |-> IF k = i THEN VACANT ELSE @[k]],
                                    ![p] = [k \in PortNo |-> IF k = 0 THEN VACANT ELSE @[k]]]
    BY <1>2 DEF UndockPlayer
  <2>2. d.p_port \in [Player -> [PortNo -> Player \union PortNo \union {VACANT, PDAMAGE}]]
    BY DEF DockTables
  <2> HIDE DEF e, b, i
  <2>3. ASSUME NEW q \in Player, NEW k \in PortNo, e.p_port[q][k] = PDAMAGE
        PROVE  d.p_port[q][k] = PDAMAGE
    BY <2>1, <2>2, <2>3 DEF VACANT, PDAMAGE
  <2> QED
    BY <2>3 DEF Mends, e
<1> QED
  BY <1>1, <1>2

(* base_undock damages no bay.                                             *)
LEMMA BaseUndockMends ==
  ASSUME NEW d \in DockTables, NEW b, NEW S
  PROVE  Mends(d, BaseUndock(d, b, S))
BY DEF Mends, BaseUndock, VACANT, PDAMAGE

(* dock_to damages no bay.                                                 *)
LEMMA DockToMends ==
  ASSUME NEW d0 \in DockTables, NEW p \in Player, NEW b \in Player, NEW i \in PortNo,
         UndockPlayer(d0, p) \in DockTables
  PROVE  Mends(d0, DockTo(d0, p, b, i))
<1> DEFINE d == UndockPlayer(d0, p)
           e == DockTo(d0, p, b, i)
<1>1. d.p_port \in [Player -> [PortNo -> Player \union PortNo \union {VACANT, PDAMAGE}]]
  BY DEF DockTables
<1>2. Mends(d0, d)
  BY UndockMends
<1>3. e.p_port = [d.p_port EXCEPT ![b] = [k \in PortNo |-> IF k = i THEN p ELSE @[k]],
                                  ![p] = [k \in PortNo |-> IF k = 0 THEN i ELSE @[k]]]
  BY DEF DockTo
<1>4. p # PDAMAGE /\ i # PDAMAGE
  BY SizesAssumption DEF Player, PortNo, PDAMAGE
<1> HIDE DEF d, e
<1>5. ASSUME NEW q \in Player, NEW k \in PortNo, e.p_port[q][k] = PDAMAGE
      PROVE  d.p_port[q][k] = PDAMAGE
  BY <1>1, <1>3, <1>4, <1>5
<1>6. Mends(d, e)
  BY <1>5 DEF Mends
<1> QED
  BY <1>2, <1>6, MendsTransitive DEF e

(* get_ship_for_player damages no bay, and gives a base whole ones.        *)
LEMMA NewShipMends ==
  ASSUME NEW d \in DockTables, NEW p \in Player, NEW n \in Nat
  PROVE  /\ Mends(d, NewShip(d, p, n))
         /\ n > 0 => Whole(NewShip(d, p, n), p)
<1>1. CASE n = 0
  BY <1>1 DEF NewShip, Mends
<1>2. CASE n # 0
  <2>1. NewShip(d, p, n).p_port = [d.p_port EXCEPT ![p] = NoPorts]
    BY <1>2 DEF NewShip
  <2>2. d.p_port \in [Player -> [PortNo -> Player \union PortNo \union {VACANT, PDAMAGE}]]
    BY DEF DockTables
  <2> QED
    BY <2>1, <2>2 DEF Mends, Whole, NoPorts, VACANT, PDAMAGE
<1> QED
  BY <1>1, <1>2

(* Clearing p_docked leaves the bays alone.                                *)
LEMMA ClearDockedMends ==
  ASSUME NEW d, NEW p
  PROVE  /\ Mends(d, ClearDocked(d, p))
         /\ ClearDocked(d, p).p_port = d.p_port
BY DEF Mends, ClearDocked

(* repair_docking_ring damages no bay.                                     *)
LEMMA RepairRingMends ==
  ASSUME NEW d \in DockTables, NEW b \in Player, NEW n, NEW h
  PROVE  Mends(d, RepairRing(d, b, n, h))
<1> DEFINE dam == DamagedBays(d, b, n)
           Gone(i) == i \in dam /\ Cardinality({k \in dam : k >= i}) > BaysKeptDamaged(h)
           e == RepairRing(d, b, n, h)
<1>1. d.p_port \in [Player -> [PortNo -> Player \union PortNo \union {VACANT, PDAMAGE}]]
  BY DEF DockTables
<1>2. e.p_port = [d.p_port EXCEPT ![b] = [i \in PortNo |-> IF Gone(i) THEN VACANT ELSE @[i]]]
  BY DEF RepairRing
<1> HIDE DEF Gone, e
<1>3. Mends(d, e)
  BY <1>1, <1>2 DEF Mends, VACANT, PDAMAGE
<1> QED
  BY <1>3 DEF e

(* A base puts all its ships off.                                          *)
LEMMA PutOffAllMends ==
  ASSUME NEW d \in DockTables, NEW p
  PROVE  Mends(d, PutOffAll(d, p))
BY BaseUndockMends, ClearDockedMends, MendsTransitive DEF PutOffAll

(* evaporate and doshipexplode.                                            *)
LEMMA LeaveTableMends ==
  ASSUME IInv, NEW p \in Player
  PROVE  Mends(dock, LeaveTable(dock, p))
<1>1. UndockPlayer(dock, p) \in DockTables
  BY Unfold, UndockFewer
<1> QED
  BY <1>1, Unfold, UndockMends, PutOffAllMends, MendsTransitive DEF LeaveTable

(* newdock.                                                                *)
LEMMA NewDockMends ==
  ASSUME IInv, NEW d \in DockTables, NEW p \in Player, p \notin d.PFDOCK, NEW b \in Player,
         NEW e \in NewDock(d, p, b)
  PROVE  Mends(d, e)
<1>1. BaysOf(b) \subseteq PortNo
  BY Unfold, BaysFacts DEF BayNumbers
<1>2. UndockPlayer(d, p) = d
  BY UndockPlayerNotDocked
<1>3. e = d \/ \E i \in BaysOf(b) : e = DockTo(d, p, b, i)
  BY DEF NewDock
<1>4. CASE e = d
  BY <1>4 DEF Mends
<1>5. CASE \E i \in BaysOf(b) : e = DockTo(d, p, b, i)
  BY <1>1, <1>2, <1>5, DockToMends
<1> QED
  BY <1>3, <1>4, <1>5

-----------------------------------------------------------------------------
(* The damaged bays of a table that mends another.                         *)
LEMMA DamagedFacts ==
  ASSUME NEW n \in 0 .. MAXPORTS, NEW d, NEW b \in Player
  PROVE  /\ IsFiniteSet(DamagedBays(d, b, n))
         /\ Cardinality(DamagedBays(d, b, n)) \in Nat
         /\ DamagedBays(d, b, n) \subseteq PortNo
<1>1. DamagedBays(d, b, n) \subseteq Bays(n)
  BY DEF DamagedBays
<1> QED
  BY <1>1, BaysFacts, FS_Subset, FS_CardinalityType

(* Fewer damaged bays and no less hull damage.                             *)
LEMMA RingKept ==
  ASSUME NEW n \in 0 .. MAXPORTS, NEW d, NEW e, NEW b \in Player,
         \A k \in PortNo : e.p_port[b][k] = PDAMAGE => d.p_port[b][k] = PDAMAGE,
         NEW h \in Int, NEW h2 \in Int, h <= h2,
         RingOf(d, b, n, h)
  PROVE  RingOf(e, b, n, h2)
<1> DEFINE x == Cardinality(DamagedBays(d, b, n))
           y == Cardinality(DamagedBays(e, b, n))
<1>1. DamagedBays(e, b, n) \subseteq DamagedBays(d, b, n)
  BY BaysFacts DEF DamagedBays
<1>2. x \in Nat /\ y \in Nat /\ y <= x
  BY <1>1, DamagedFacts, FS_Subset
<1>3. n > 0 /\ x > 0 => (x - 1) * DOCKDAMAGE < h
  BY DEF RingOf
<1> HIDE DEF x, y
<1>4. ASSUME n > 0, y > 0
      PROVE  (y - 1) * DOCKDAMAGE < h2
  <2>1. (x - 1) * DOCKDAMAGE < h /\ x - 1 \in Int /\ y - 1 \in Int /\ y - 1 <= x - 1
    BY <1>2, <1>3, <1>4
  <2>2. (y - 1) * DOCKDAMAGE <= (x - 1) * DOCKDAMAGE
    BY <2>1, SizesAssumption, TimesMonotone
  <2>3. (y - 1) * DOCKDAMAGE \in Int /\ (x - 1) * DOCKDAMAGE \in Int
    BY <2>1, SizesAssumption
  <2> HIDE DEF RingOf
  <2> QED
    BY <2>1, <2>2, <2>3
<1> QED
  BY <1>4 DEF RingOf, y

(* A step that damages no bay, and lowers no hull but that of a new ship.  *)
LEMMA RingStep ==
  ASSUME IInv, IInv', RingMatchesHull, Mends(dock, dock'),
         \A q \in Player :
           \/ p_type'[q] = p_type[q] /\ p_damage[q] <= p_damage'[q]
           \/ NumPorts[p_type'[q]] = 0
           \/ Whole(dock', q)
  PROVE  RingMatchesHull'
<1> SUFFICES ASSUME NEW b \in Player
             PROVE  RingOf(dock', b, NumPorts[p_type'[b]], p_damage'[b])
  BY DEF RingMatchesHull, RingOf, AllowsDocking
<1>1. /\ RingOf(dock, b, NumPorts[p_type[b]], p_damage[b])
      /\ NumPorts[p_type[b]] \in 0 .. MAXPORTS
      /\ NumPorts[p_type'[b]] \in 0 .. MAXPORTS
      /\ p_damage[b] \in Int /\ p_damage'[b] \in Int
  BY ShipsAssumption DEF RingMatchesHull, RingOf, AllowsDocking, IInv, TypeOK
<1>2. CASE p_type'[b] = p_type[b] /\ p_damage[b] <= p_damage'[b]
  BY <1>1, <1>2, RingKept DEF Mends
<1>3. CASE NumPorts[p_type'[b]] = 0
  BY <1>3 DEF RingOf
<1>4. CASE Whole(dock', b)
  <2>1. DamagedBays(dock', b, NumPorts[p_type'[b]]) = {}
    BY <1>1, <1>4, BaysFacts DEF Whole, DamagedBays
  <2> QED
    BY <2>1, FS_EmptySet DEF RingOf
<1> QED
  BY <1>2, <1>3, <1>4

-----------------------------------------------------------------------------
(* Hits raise the hull damage of whom they touch.                          *)
LEMMA HullAfterGrows ==
  ASSUME NEW q, NEW h \in 0 .. MaxHull, NEW hit \in Nat
  PROVE  h <= HullAfter(q, h, hit)
BY ShipsAssumption DEF HullAfter

(* The handlers that change neither hull nor class.                        *)
LEMMA SameHull ==
  ASSUME IInv, IInv', RingMatchesHull, Mends(dock, dock'), UNCHANGED <<p_type, p_damage>>
  PROVE  RingMatchesHull'
<1>1. \A q \in Player : p_type'[q] = p_type[q] /\ p_damage[q] <= p_damage'[q]
  BY ShipsAssumption DEF IInv, TypeOK
<1> QED
  BY <1>1, RingStep

(* The handlers that leave the docking table alone, too.                   *)
LEMMA SameDock ==
  ASSUME IInv, IInv', RingMatchesHull, UNCHANGED <<p_type, p_damage, dock>>
  PROVE  RingMatchesHull'
<1>1. Mends(dock, dock')
  BY DEF Mends
<1> QED
  BY <1>1, SameHull

(* One player gets a new ship, undamaged, with whole bays or none.         *)
LEMMA NewHull ==
  ASSUME IInv, IInv', RingMatchesHull, Mends(dock, dock'), NEW p \in Player, NEW t \in ShipTypes,
         p_type' = [p_type EXCEPT ![p] = t],
         p_damage' = [p_damage EXCEPT ![p] = 0],
         NumPorts[t] = 0 \/ Whole(dock', p)
  PROVE  RingMatchesHull'
<1>1. p_type \in [Player -> ShipTypes] /\ p_damage \in [Player -> 0 .. MaxHull]
  BY DEF IInv, TypeOK
<1>2. ASSUME NEW q \in Player, q # p
      PROVE  p_type'[q] = p_type[q] /\ p_damage[q] <= p_damage'[q]
  BY <1>1, <1>2, ShipsAssumption
<1>3. p_type'[p] = t
  BY <1>1
<1> QED
  BY <1>2, <1>3, RingStep

(* The client's handlers that undock.                                      *)
LEMMA CommandRing ==
  ASSUME IInv, IInv', RingMatchesHull, NEW p \in Player,
         \/ Disengage(p) \/ LeaveOrbit(p) \/ OrbitPlanet(p)
         \/ \E b \in Player : OrbitBase(p, b)
         \/ \E on \in BOOLEAN : DockPermission(p, on)
         \/ \E S \in SUBSET PortNo : DeclareWar(p, S)
         \/ \E s \in {PTQUEUE, POBSERVE, POUTFIT} : Evaporate(p, s)
  PROVE  RingMatchesHull'
<1>1. dock \in DockTables
  BY Unfold
<1>2. CASE Disengage(p)
  BY <1>1, <1>2, UndockMends, SameHull DEF Disengage
<1>3. CASE LeaveOrbit(p)
  BY <1>3, SameDock DEF LeaveOrbit
<1>4. CASE OrbitPlanet(p)
  BY <1>1, <1>4, UndockMends, SameHull DEF OrbitPlanet
<1>5. ASSUME NEW b \in Player, OrbitBase(p, b)
      PROVE  RingMatchesHull'
  <2> DEFINE d == UndockPlayer(dock, p)
  <2>1. d \in DockTables /\ p \notin d.PFDOCK
    BY Unfold, UndockFewer
  <2>2. Mends(dock, d)
    BY <1>1, UndockMends
  <2>3. dock' \in NewDock(d, p, b) /\ UNCHANGED <<p_type, p_damage>>
    BY <1>5 DEF OrbitBase
  <2> HIDE DEF d
  <2>4. Mends(dock, dock')
    BY <2>1, <2>2, <2>3, NewDockMends, MendsTransitive
  <2> QED
    BY <2>3, <2>4, SameHull
<1>6. ASSUME NEW on \in BOOLEAN, DockPermission(p, on)
      PROVE  RingMatchesHull'
  BY <1>1, <1>6, PutOffAllMends, SameHull DEF DockPermission
<1>7. ASSUME NEW S \in SUBSET PortNo, DeclareWar(p, S)
      PROVE  RingMatchesHull'
  <2>1. Mends(dock, dock')
    BY <1>1, <1>7, UndockMends, BaseUndockMends DEF DeclareWar
  <2> QED
    BY <1>7, <2>1, SameHull DEF DeclareWar
<1>8. ASSUME NEW s \in {PTQUEUE, POBSERVE, POUTFIT}, Evaporate(p, s)
      PROVE  RingMatchesHull'
  BY <1>8, LeaveTableMends, SameHull DEF Evaporate
<1> QED
  BY <1>2, <1>3, <1>4, <1>5, <1>6, <1>7, <1>8

(* The handlers of statuses and processes.                                 *)
LEMMA StatusRing ==
  ASSUME IInv, IInv', RingMatchesHull, NEW p \in Player,
         \/ FindSlot(p) \/ LeaveInput(p) \/ Exit(p) \/ Kill(p) \/ Death(p)
         \/ Detourneyqueue(p) \/ Busted(p) \/ LeaveBench(p) \/ FreeSlot(p) \/ UdOut(p)
         \/ ExplodeEveryone \/ EndgameEffects
  PROVE  RingMatchesHull'
<1>1. UNCHANGED <<p_type, p_damage, dock>>
  BY DEF FindSlot, LeaveInput, Exit, Kill, Death, Detourneyqueue, Busted, LeaveBench, FreeSlot,
         UdOut, ExplodeEveryone, EndgameEffects, SetStatus, SetBoth
<1> QED
  BY <1>1, SameDock

(* do_refit, "control player n ship" and enter().                          *)
LEMMA ShipRing ==
  ASSUME IInv, IInv', RingMatchesHull, NEW p \in Player, NEW t \in ShipTypes,
         DoRefit(p, t) \/ ControlShip(p, t) \/ Enter(p, t)
  PROVE  RingMatchesHull'
<1>1. dock \in DockTables /\ NumPorts[t] \in Nat /\ NumPorts[t] \in 0 .. MAXPORTS
  BY Unfold, ShipsAssumption, SizesAssumption
<1>2. CASE DoRefit(p, t) \/ ControlShip(p, t)
  <2> DEFINE d == IF AllowsDocking(p) THEN BaseUndock(dock, p, BaysOf(p)) ELSE dock
  <2>1. GetShip(p, t, d)
    BY <1>2 DEF DoRefit, ControlShip
  <2>2. d \in DockTables /\ Mends(dock, d)
    <3>1. CASE AllowsDocking(p)
      <4>1. BaseUndock(dock, p, BaysOf(p)) \in DockTables
        BY Unfold, BaseUndockFewer
      <4> QED
        BY <1>1, <3>1, <4>1, BaseUndockMends
    <3>2. CASE ~AllowsDocking(p)
      BY <1>1, <3>2 DEF Mends
    <3> QED
      BY <3>1, <3>2
  <2> HIDE DEF d
  <2>3. /\ p_type' = [p_type EXCEPT ![p] = t]
        /\ p_damage' = [p_damage EXCEPT ![p] = 0]
        /\ dock' = NewShip(d, p, NumPorts[t])
    BY <2>1 DEF GetShip
  <2>4. Mends(dock, dock') /\ (NumPorts[t] > 0 => Whole(dock', p))
    BY <1>1, <2>2, <2>3, NewShipMends, MendsTransitive
  <2>5. NumPorts[t] = 0 \/ Whole(dock', p)
    BY <1>1, <2>4
  <2> QED
    BY <2>3, <2>4, <2>5, NewHull
<1>3. CASE Enter(p, t)
  <2> DEFINE n == NewShip(dock, p, NumPorts[t])
             d == EnterTable(p, t)
  <2>1. Mends(dock, n) /\ (NumPorts[t] > 0 => Whole(n, p))
    BY <1>1, NewShipMends
  <2>2. d.p_port = n.p_port
    BY DEF EnterTable, ClearDocked
  <2>3. d \in DockTables /\ p \notin d.PFDOCK
    BY <1>3, EnterTableFacts DEF Enter
  <2>4. /\ p_type' = [p_type EXCEPT ![p] = t]
        /\ p_damage' = [p_damage EXCEPT ![p] = 0]
        /\ dock' = d \/ (NumPorts[t] = 0 /\ \E b \in Player : dock' \in NewDock(d, p, b))
    BY <1>3, ShipsAssumption DEF Enter, Hosts
  <2> HIDE DEF n, d
  <2>5. Mends(n, d) /\ (NumPorts[t] > 0 => Whole(d, p))
    BY <2>1, <2>2 DEF Mends, Whole
  <2>6. Mends(d, dock')
    <3>1. CASE dock' = d
      BY <3>1 DEF Mends
    <3>2. CASE \E b \in Player : dock' \in NewDock(d, p, b)
      BY <2>3, <3>2, NewDockMends
    <3> QED
      BY <2>4, <3>1, <3>2
  <2>7. Mends(dock, dock')
    BY <2>1, <2>5, <2>6, MendsTransitive
  <2>8. NumPorts[t] = 0 \/ Whole(dock', p)
    BY <1>1, <2>4, <2>5
  <2> QED
    BY <2>4, <2>7, <2>8, NewHull
<1> QED
  BY <1>2, <1>3

(* Hits from afar, and the blast of an explosion.                          *)
LEMMA HitRing ==
  ASSUME IInv, IInv', RingMatchesHull, NEW p \in Player,
         UdExplode(p) \/ \E hit \in 1 .. MaxHull : Hit(p, hit)
  PROVE  RingMatchesHull'
<1>1. p_damage \in [Player -> 0 .. MaxHull] /\ 1 .. MaxHull \subseteq Nat
  BY ShipsAssumption DEF IInv, TypeOK
<1>2. \A q \in Player : p_damage[q] <= p_damage'[q]
  <2> SUFFICES ASSUME NEW q \in Player
               PROVE  p_damage[q] <= p_damage'[q]
    OBVIOUS
  <2>1. p_damage[q] \in 0 .. MaxHull
    BY <1>1
  <2>2. p_damage'[q] = p_damage[q] \/ \E hit \in 1 .. MaxHull : p_damage'[q] = HullAfter(q, p_damage[q], hit)
    BY <1>1 DEF UdExplode, Hit
  <2> QED
    BY <1>1, <2>1, <2>2, HullAfterGrows, ShipsAssumption
<1>3. p_type' = p_type
  BY DEF UdExplode, Hit
<1>4. Mends(dock, dock')
  <2>1. dock' = dock \/ dock' = LeaveTable(dock, p)
    BY DEF UdExplode, Hit
  <2>2. Mends(dock, dock)
    BY DEF Mends
  <2> QED
    BY <2>1, <2>2, LeaveTableMends
<1> QED
  BY <1>2, <1>3, <1>4, RingStep

-----------------------------------------------------------------------------
(* A nonempty set of naturals has a least member.                          *)
LEMMA Least ==
  ASSUME NEW S \in SUBSET Nat, S # {}
  PROVE  \E m \in S : \A k \in S : m <= k
<1>1. PICK m \in S : \A k \in Nat : <<k, m>> \in OpToRel(<, Nat) => k \notin S
  BY NatLessThanWellFounded, WFMin, Zenon
<1>2. \A k \in S : ~(k < m)
  BY <1>1, Zenon DEF OpToRel
<1> QED
  BY <1>2

(* repair_docking_ring leaves no more bays damaged than it promises: those *)
(* still damaged are counted from the lowest of them upwards.              *)
LEMMA FewKept ==
  ASSUME NEW n \in 0 .. MAXPORTS, NEW d \in DockTables, NEW b \in Player, NEW h \in Nat
  PROVE  LET left == DamagedBays(RepairRing(d, b, n, h), b, n)
         IN left # {} => ~(Cardinality(left) > BaysKeptDamaged(h))
<1> DEFINE dam == DamagedBays(d, b, n)
           Gone(i) == i \in dam /\ Cardinality({k \in dam : k >= i}) > BaysKeptDamaged(h)
           e == RepairRing(d, b, n, h)
           left == DamagedBays(e, b, n)
<1>1. d.p_port \in [Player -> [PortNo -> Player \union PortNo \union {VACANT, PDAMAGE}]]
  BY DEF DockTables
<1>2. e.p_port = [d.p_port EXCEPT ![b] = [i \in PortNo |-> IF Gone(i) THEN VACANT ELSE @[i]]]
  BY DEF RepairRing
<1>3. Bays(n) \subseteq PortNo /\ PortNo \subseteq Nat
  BY BaysFacts, SizesAssumption DEF PortNo
<1> HIDE DEF e
<1>4. \A i \in left : i \in dam /\ ~Gone(i)
  <2>1. \A i \in PortNo : e.p_port[b][i] = IF Gone(i) THEN VACANT ELSE d.p_port[b][i]
    BY <1>1, <1>2
  <2> SUFFICES ASSUME NEW i \in left
               PROVE  i \in dam /\ ~Gone(i)
    OBVIOUS
  <2>2. i \in Bays(n) /\ i \in PortNo /\ e.p_port[b][i] = PDAMAGE
    BY <1>3 DEF DamagedBays
  <2> HIDE DEF Gone, left, dam
  <2>3. ~Gone(i) /\ d.p_port[b][i] = PDAMAGE
    BY <2>1, <2>2 DEF VACANT, PDAMAGE
  <2> QED
    BY <2>2, <2>3 DEF dam, DamagedBays
<1>5. dam \subseteq Nat /\ IsFiniteSet(dam)
  BY <1>3, DamagedFacts DEF DamagedBays
<1> HIDE DEF left, dam
<1>6. SUFFICES ASSUME left # {}
               PROVE  ~(Cardinality(left) > BaysKeptDamaged(h))
  BY DEF left, e
<1>7. PICK m \in left : \A k \in left : m <= k
  <2>1. left \subseteq Nat
    BY <1>4, <1>5
  <2> QED
    BY <1>6, <2>1, Least
<1>8. m \in dam /\ ~(Cardinality({k \in dam : k >= m}) > BaysKeptDamaged(h))
  BY <1>4, <1>7
<1>9. left \subseteq {k \in dam : k >= m}
  BY <1>4, <1>5, <1>7
<1>10. IsFiniteSet({k \in dam : k >= m})
  BY <1>5, FS_Subset
<1>11. /\ Cardinality(left) <= Cardinality({k \in dam : k >= m})
       /\ Cardinality(left) \in Nat /\ Cardinality({k \in dam : k >= m}) \in Nat
  BY <1>9, <1>10, FS_Subset, FS_CardinalityType
<1>12. BaysKeptDamaged(h) \in Int
  BY SizesAssumption DEF BaysKeptDamaged
<1> QED
  BY <1>8, <1>11, <1>12

(* So the ring matches the hull after a repair.                            *)
LEMMA RepairedRing ==
  ASSUME NEW n \in 0 .. MAXPORTS, NEW d \in DockTables, NEW b \in Player, NEW h \in Nat
  PROVE  RingOf(RepairRing(d, b, n, h), b, n, h)
<1> DEFINE c == Cardinality(DamagedBays(RepairRing(d, b, n, h), b, n))
           K == BaysKeptDamaged(h)
<1>1. c \in Nat
  BY DamagedFacts
<1>2. K \in Int /\ K * DOCKDAMAGE <= h + DOCKDAMAGE - 1
  <2>1. h + DOCKDAMAGE - 1 \in Nat /\ DOCKDAMAGE \in Nat \ {0}
    BY SizesAssumption
  <2>2. \A x \in Nat, m \in Nat \ {0} : x \div m \in Int /\ (x \div m) * m <= x
    BY SMT
  <2> QED
    BY <2>1, <2>2 DEF BaysKeptDamaged
<1> HIDE DEF c, K
<1>3. ASSUME c > 0
      PROVE  (c - 1) * DOCKDAMAGE < h
  <2>1. DamagedBays(RepairRing(d, b, n, h), b, n) # {}
    BY <1>3, FS_EmptySet DEF c
  <2>2. c <= K
    BY <1>1, <1>2, <2>1, FewKept DEF c, K
  <2>3. c * DOCKDAMAGE <= K * DOCKDAMAGE
    BY <1>1, <1>2, <2>2, TimesMonotone, SizesAssumption
  <2>4. (c - 1) * DOCKDAMAGE = c * DOCKDAMAGE - DOCKDAMAGE
    BY <1>1, SizesAssumption
  <2>5. c * DOCKDAMAGE \in Int /\ K * DOCKDAMAGE \in Int /\ DOCKDAMAGE \in Int
    BY <1>1, <1>2, SizesAssumption
  <2> QED
    BY <1>2, <2>3, <2>4, <2>5
<1> QED
  BY <1>3 DEF RingOf, c

(* A pull tears one bay off and costs the base DOCKDAMAGE.                 *)
LEMMA PulledRing ==
  ASSUME HullBears, NEW n \in 0 .. MAXPORTS, NEW d, NEW e, NEW b \in Player, NEW i,
         \A k \in PortNo : e.p_port[b][k] = PDAMAGE => k = i \/ d.p_port[b][k] = PDAMAGE,
         NEW h \in 0 .. MaxHull, RingOf(d, b, n, h)
  PROVE  RingOf(e, b, n, IF h + DOCKDAMAGE > MaxHull THEN MaxHull ELSE h + DOCKDAMAGE)
<1> DEFINE x == DamagedBays(d, b, n)
           y == DamagedBays(e, b, n)
           c == Cardinality(x)
           k == Cardinality(y)
           h2 == IF h + DOCKDAMAGE > MaxHull THEN MaxHull ELSE h + DOCKDAMAGE
<1>1. /\ IsFiniteSet(x) /\ c \in Nat
      /\ IsFiniteSet(y) /\ k \in Nat
  BY DamagedFacts
<1>2. k <= c + 1
  <2>1. y \subseteq x \union {i}
    BY BaysFacts DEF DamagedBays
  <2> HIDE DEF x, y
  <2>2. IsFiniteSet(x \union {i}) /\ Cardinality(x \union {i}) <= c + 1
    <3>1. IsFiniteSet(x \union {i}) /\ Cardinality(x \union {i}) \in {c, c + 1}
      BY <1>1, FS_AddElement
    <3> QED
      BY <1>1, <3>1
  <2>3. k <= Cardinality(x \union {i}) /\ Cardinality(x \union {i}) \in Nat
    BY <2>1, <2>2, FS_Subset, FS_CardinalityType
  <2> QED
    BY <1>1, <2>2, <2>3
<1>3. k <= MAXPORTS
  <2>1. MAXPORTS \in Nat /\ MAXPORTS - 1 \in Int /\ 0 \in Int
    BY SizesAssumption
  <2>2. IsFiniteSet(PortNo) /\ Cardinality(PortNo) = MAXPORTS
    BY <2>1, FS_Interval, SizesAssumption DEF PortNo
  <2>3. y \subseteq PortNo
    BY DamagedFacts
  <2> HIDE DEF y
  <2> QED
    BY <1>1, <2>2, <2>3, FS_Subset
<1>4. n > 0 /\ c > 0 => (c - 1) * DOCKDAMAGE < h
  BY DEF RingOf
<1>5. h \in Nat /\ MaxHull \in Nat /\ DOCKDAMAGE \in Nat \ {0} /\ MAXPORTS \in Nat
  BY SizesAssumption, ShipsAssumption
<1> HIDE DEF c, k, x, y
<1>6. ASSUME n > 0, k > 0
      PROVE  (k - 1) * DOCKDAMAGE < h2
  <2>1. CASE h + DOCKDAMAGE > MaxHull
    <3>1. (k - 1) * DOCKDAMAGE <= (MAXPORTS - 1) * DOCKDAMAGE
      <4>1. k - 1 \in Int /\ MAXPORTS - 1 \in Int /\ k - 1 <= MAXPORTS - 1 /\ DOCKDAMAGE \in Nat
        BY <1>1, <1>3, <1>5
      <4> QED
        BY <4>1, TimesMonotone
    <3>2. (k - 1) * DOCKDAMAGE \in Int /\ (MAXPORTS - 1) * DOCKDAMAGE \in Int
      BY <1>1, <1>5
    <3> QED
      BY <1>5, <2>1, <3>1, <3>2 DEF HullBears
  <2>2. CASE ~(h + DOCKDAMAGE > MaxHull) /\ c > 0
    <3>1. (k - 1) * DOCKDAMAGE <= c * DOCKDAMAGE
      <4>1. k - 1 \in Int /\ c \in Int /\ k - 1 <= c /\ DOCKDAMAGE \in Nat
        BY <1>1, <1>2, <1>5
      <4> QED
        BY <4>1, TimesMonotone
    <3>2. (c - 1) * DOCKDAMAGE = c * DOCKDAMAGE - DOCKDAMAGE
      BY <1>1, <1>5
    <3>3. (k - 1) * DOCKDAMAGE \in Int /\ c * DOCKDAMAGE \in Int
      BY <1>1, <1>5
    <3> QED
      BY <1>4, <1>5, <1>6, <2>2, <3>1, <3>2, <3>3
  <2>3. CASE ~(h + DOCKDAMAGE > MaxHull) /\ c = 0
    <3>1. k = 1
      BY <1>1, <1>2, <1>6, <2>3
    <3> QED
      BY <1>5, <2>3, <3>1
  <2> QED
    BY <1>1, <2>1, <2>2, <2>3
<1> QED
  BY <1>6 DEF RingOf, k, y
(* The live branch of udplayers: repair of hull and ring, then the pull.   *)
LEMMA UdAliveRing ==
  ASSUME IInv, IInv', RingMatchesHull, Erosion = 0, HullBears, NEW j \in Player, UdAlive(j)
  PROVE  RingMatchesHull'
<1>1. PICK s \in {PALIVE, PEXPLODE}, hd \in Repaired(p_damage[j]) :
        LET d    == IF AllowsDocking(j) THEN RepairRing(dock, j, NumPorts[p_type[j]], hd) ELSE dock
            st   == [p_status EXCEPT ![j] = s]
            hull == [p_damage EXCEPT ![j] = hd]
        IN \/ /\ dock' = d /\ p_status' = st /\ p_damage' = hull
              /\ PFORBIT' = PFORBIT
           \/ \E v \in Player : Tractor(j, v, d, st, hull)
  BY DEF UdAlive
<1> DEFINE d    == IF AllowsDocking(j) THEN RepairRing(dock, j, NumPorts[p_type[j]], hd) ELSE dock
           st   == [p_status EXCEPT ![j] = s]
           hull == [p_damage EXCEPT ![j] = hd]
           n(q) == NumPorts[p_type[q]]
<1>2. /\ dock \in DockTables /\ Consistent(dock, NumPortsOf)
      /\ p_damage \in [Player -> 0 .. MaxHull] /\ MaxHull \in Nat
      /\ \A q \in Player : n(q) \in 0 .. MAXPORTS /\ n(q) = NumPortsOf[q]
  BY Unfold, ShipsAssumption DEF TypeOK
<1>3. hd \in Nat /\ hd \in 0 .. MaxHull
  BY <1>2 DEF Repaired
<1>4. hull \in [Player -> 0 .. MaxHull] /\ hull[j] = hd
  BY <1>2, <1>3
<1>5. \A q \in Player : RingOf(dock, q, n(q), p_damage[q])
  BY DEF RingMatchesHull, RingOf, AllowsDocking
<1>6. /\ d \in DockTables
      /\ Consistent(d, NumPortsOf)
      /\ Mends(dock, d)
  <2>1. CASE AllowsDocking(j)
    <3>1. n(j) = NumPortsOf[j] /\ NumPortsOf[j] > 0
      BY <1>2, <2>1 DEF AllowsDocking
    <3> QED
      BY <1>2, <1>3, <2>1, <3>1, Unfold, RepairRingConsistent, RepairRingMends
  <2>2. CASE ~AllowsDocking(j)
    BY <1>2, <2>2 DEF Mends
  <2> QED
    BY <2>1, <2>2
<1>7. ASSUME NEW q \in Player
      PROVE  RingOf(d, q, n(q), hull[q])
  <2>1. CASE q = j /\ AllowsDocking(j)
    BY <1>2, <1>3, <1>4, <2>1, RepairedRing
  <2>2. CASE q = j /\ ~AllowsDocking(j)
    BY <1>2, <2>2 DEF RingOf, AllowsDocking
  <2>3. CASE q # j
    <3>1. hull[q] = p_damage[q] /\ p_damage[q] \in Int /\ p_damage[q] <= hull[q]
      BY <1>2, <2>3
    <3>2. \A k \in PortNo : d.p_port[q][k] = PDAMAGE => dock.p_port[q][k] = PDAMAGE
      BY <1>6 DEF Mends
    <3> HIDE DEF d, hull
    <3> QED
      BY <1>2, <1>5, <3>1, <3>2, RingKept
  <2> QED
    BY <2>1, <2>2, <2>3
<1>8. p_type' = p_type
  BY DEF UdAlive
<1> HIDE DEF d, hull, st
<1>9. \A q \in Player : RingOf(dock', q, n(q), p_damage'[q])
  <2>1. CASE dock' = d /\ p_damage' = hull
    BY <1>7, <2>1
  <2>2. ASSUME NEW v \in Player, Tractor(j, v, d, st, hull), ~(dock' = d /\ p_damage' = hull)
        PROVE  \A q \in Player : RingOf(dock', q, n(q), p_damage'[q])
    <3> DEFINE b == d.p_docked[v]
               i == d.p_port[v][0]
               u == UndockPlayer(d, v)
    <3>1. /\ v \in d.PFDOCK
          /\ dock' = DamageBay(u, b, i)
          /\ p_damage' = [hull EXCEPT ![b] = HullAfter(b, @, DOCKDAMAGE)]
      <4>1. v \in d.PFDOCK /\ PullOff(v, d, st, hull)
        BY <2>2 DEF Tractor
      <4>2. 0 .. Erosion = {0} /\ DOCKDAMAGE - 0 = DOCKDAMAGE
        BY SizesAssumption
      <4> QED
        BY <4>1, <4>2 DEF PullOff
    <3>2. b \in Player /\ n(b) > 0
      <4>1. b \in Player /\ i \in Bays(NumPortsOf[b])
        BY <1>6, <3>1 DEF Consistent, ShipsKnowTheirBay
      <4>2. NumPortsOf[b] > 0
        BY <1>2, <4>1, SizesAssumption DEF Bays
      <4> QED
        BY <1>2, <4>1, <4>2
    <3>3. Mends(d, u) /\ u \in DockTables
      BY <1>6, UndockMends, UndockFewer
    <3> HIDE DEF b, i, u
    <3>4. \A q \in Player, k \in PortNo :
            dock'.p_port[q][k] = PDAMAGE => (q = b /\ k = i) \/ d.p_port[q][k] = PDAMAGE
      <4>1. dock'.p_port = [u.p_port EXCEPT ![b] = [k \in PortNo |-> IF k = i THEN PDAMAGE ELSE @[k]]]
        BY <3>1 DEF DamageBay
      <4>2. u.p_port \in [Player -> [PortNo -> Player \union PortNo \union {VACANT, PDAMAGE}]]
        BY <3>3 DEF DockTables
      <4>3. \A q \in Player, k \in PortNo :
              dock'.p_port[q][k] = PDAMAGE => (q = b /\ k = i) \/ u.p_port[q][k] = PDAMAGE
        BY <4>1, <4>2
      <4> QED
        BY <3>3, <4>3 DEF Mends
    <3>5. ASSUME NEW q \in Player, q # b
          PROVE  RingOf(dock', q, n(q), p_damage'[q])
      <4>1. p_damage'[q] = hull[q] /\ hull[q] \in Int /\ hull[q] <= p_damage'[q]
        BY <1>2, <1>4, <3>1, <3>5
      <4>2. \A k \in PortNo : dock'.p_port[q][k] = PDAMAGE => d.p_port[q][k] = PDAMAGE
        BY <3>4, <3>5
      <4> QED
        BY <1>2, <1>7, <4>1, <4>2, RingKept
    <3>6. RingOf(dock', b, n(b), p_damage'[b])
      <4>1. p_damage'[b] = IF hull[b] + DOCKDAMAGE > MaxHull THEN MaxHull ELSE hull[b] + DOCKDAMAGE
        BY <1>4, <3>1, <3>2 DEF HullAfter, AllowsDocking
      <4>2. \A k \in PortNo : dock'.p_port[b][k] = PDAMAGE => k = i \/ d.p_port[b][k] = PDAMAGE
        BY <3>2, <3>4
      <4>3. hull[b] \in 0 .. MaxHull /\ n(b) \in 0 .. MAXPORTS /\ RingOf(d, b, n(b), hull[b])
        BY <1>2, <1>4, <1>7, <3>2
      <4> QED
        BY <3>2, <4>1, <4>2, <4>3, PulledRing
    <3> QED
      BY <3>5, <3>6
  <2> QED
    BY <1>1, <2>1, <2>2 DEF d, st, hull
<1> QED
  BY <1>8, <1>9 DEF RingMatchesHull, RingOf, AllowsDocking

(* All bays are whole, and no ship has any, at first.                      *)
LEMMA RingInit ==
  ASSUME Init
  PROVE  RingMatchesHull
<1>1. \A q \in Player : NumPorts[p_type[q]] = 0
  BY DEF Init
<1> QED
  BY <1>1 DEF RingMatchesHull, AllowsDocking

(* Every step keeps the ring.                                              *)
LEMMA RingNext ==
  ASSUME Abrupt = {}, Erosion = 0, HullBears, IInv, RingMatchesHull, [Next]_vars
  PROVE  RingMatchesHull'
<1>1. IInv'
  BY NextSafe
<1>2. CASE UNCHANGED vars
  BY <1>1, <1>2, SameDock DEF vars
<1>3. ASSUME NEW p \in Player,
             \/ Disengage(p) \/ LeaveOrbit(p) \/ OrbitPlanet(p)
             \/ \E b \in Player : OrbitBase(p, b)
             \/ \E on \in BOOLEAN : DockPermission(p, on)
             \/ \E S \in SUBSET PortNo : DeclareWar(p, S)
             \/ \E s \in {PTQUEUE, POBSERVE, POUTFIT} : Evaporate(p, s)
      PROVE  RingMatchesHull'
  BY <1>1, <1>3, CommandRing
<1>4. ASSUME NEW p \in Player,
             \/ FindSlot(p) \/ LeaveInput(p) \/ Exit(p) \/ Kill(p) \/ Death(p)
             \/ Detourneyqueue(p) \/ Busted(p) \/ LeaveBench(p) \/ FreeSlot(p) \/ UdOut(p)
      PROVE  RingMatchesHull'
  BY <1>1, <1>4, StatusRing
<1>5. ASSUME NEW p \in Player, NEW t \in ShipTypes, DoRefit(p, t) \/ ControlShip(p, t) \/ Enter(p, t)
      PROVE  RingMatchesHull'
  BY <1>1, <1>5, ShipRing
<1>6. ASSUME NEW p \in Player, UdExplode(p) \/ \E hit \in 1 .. MaxHull : Hit(p, hit)
      PROVE  RingMatchesHull'
  BY <1>1, <1>6, HitRing
<1>7. ASSUME NEW p \in Player, UdAlive(p)
      PROVE  RingMatchesHull'
  BY <1>1, <1>7, UdAliveRing
<1>8. CASE ExplodeEveryone \/ EndgameEffects
  <2>1. UNCHANGED <<p_type, p_damage, dock>>
    BY <1>8 DEF ExplodeEveryone, EndgameEffects
  <2> QED
    BY <1>1, <2>1, SameDock
<1> QED
  BY <1>2, <1>3, <1>4, <1>5, <1>6, <1>7, <1>8 DEF Next, UdPlayer

(* No ship is in orbit and at a bay at once, and the docking ring of a     *)
(* base is never more damaged than its hull accounts for: through pulls,   *)
(* hits, refits and repairs, repair_docking_ring finds the bays it expects.*)
THEOREM MooringHolds ==
  ASSUME Abrupt = {}, Erosion = 0, HullBears
  PROVE  Spec => []MooredRight
<1>1. Init => IInv /\ RingMatchesHull
  BY InitSafe, RingInit
<1>2. IInv /\ RingMatchesHull /\ [Next]_vars => (IInv /\ RingMatchesHull)'
  BY NextSafe, RingNext
<1>3. IInv /\ RingMatchesHull => MooredRight
  BY DEF IInv, MooredRight
<1> QED
  BY <1>1, <1>2, <1>3, PTL DEF Spec
=============================================================================
