------------------------------ MODULE DockTable ------------------------------
(***************************************************************************)
(* The docking table of Paradise Netrek: three fields of struct player in  *)
(* the shared-memory segment, and the routines of common/plutil.c,         *)
(* common/orbit.c and daemon/player.c that rewrite them.                   *)
(*                                                                         *)
(* p_docked and p_port each hold one of two things.  A ship with docking   *)
(* bays (a "base") keeps the NUMBER of docked ships in p_docked and, per   *)
(* bay, a player number, VACANT or PDAMAGE in p_port.  Any other ship      *)
(* keeps the player number of its base in p_docked and the number of its   *)
(* bay in p_port[0], which mean something only while its PFDOCK flag is    *)
(* set.  Player numbers start at 0, as in the code: p_docked = 0 is both   *)
(* "no ship docked" and "docked to player 0".                              *)
(*                                                                         *)
(* A table d is a record: d.PFDOCK is the set of players with the flag,    *)
(* d.p_docked and d.p_port are the two fields of every player.             *)
(***************************************************************************)
EXTENDS Integers, FiniteSets

CONSTANTS
  MAXPLAYER,    \* number of player slots (32 in include/defs.h)
  MAXPORTS,     \* length of p_port (6 in include/struct.h)
  DOCKDAMAGE    \* hull damage of a bay torn off by a tractor (10 in player.c)

ASSUME SizesAssumption ==
  /\ MAXPLAYER \in Nat \ {0}
  /\ MAXPORTS \in Nat \ {0}
  /\ DOCKDAMAGE \in Nat \ {0}

Player == 0 .. MAXPLAYER - 1
PortNo == 0 .. MAXPORTS - 1

VACANT  == -1   \* no ship at this bay
PDAMAGE == -2   \* this bay cannot be used until it is repaired

NoPorts == [i \in PortNo |-> VACANT]

(* The values the fields can hold.                                         *)
DockTables ==
  [PFDOCK   : SUBSET Player,
   p_docked : [Player -> Int],
   p_port   : [Player -> [PortNo -> Player \union PortNo \union {VACANT, PDAMAGE}]]]

-----------------------------------------------------------------------------
(* A mutant of UndockPlayer: the base goes on counting the ship.           *)
UndockPlayerStillCounted(d, p) ==
  IF p \notin d.PFDOCK THEN d
  ELSE LET b == d.p_docked[p]
       IN [PFDOCK   |-> d.PFDOCK \ {p},
           p_docked |-> [d.p_docked EXCEPT ![p] = -1],
           p_port   |-> [d.p_port EXCEPT ![b][d.p_port[p][0]] = VACANT, ![p][0] = VACANT]]

(* plutil.c: undock_player.  The bay named by p_port[0] becomes vacant.    *)
(* When p_port[0] is VACANT (a state the orderly handlers never leave, see *)
(* Docking!ControlShip) the store goes to p_port[-1], which is the         *)
(* preceding field of struct player: p_docked.                             *)
UndockPlayer(d, p) ==
  IF p \notin d.PFDOCK THEN d
  ELSE LET b == d.p_docked[p]
           i == d.p_port[p][0]
       IN [PFDOCK   |-> d.PFDOCK \ {p},
           p_docked |-> [d.p_docked EXCEPT ![b] = IF i = VACANT THEN VACANT ELSE @ - 1,
                                           ![p] = -1],
           p_port   |-> [d.p_port EXCEPT ![b] = [k \in PortNo |-> IF k = i THEN VACANT ELSE @[k]],
                                         ![p] = [k \in PortNo |-> IF k = 0 THEN VACANT ELSE @[k]]]]

(* The bays of b, among the set S, that hold a ship.                       *)
HoldsShip(d, b, S) == {i \in S : d.p_port[b][i] >= 0}

(* A mutant of BaseUndock: however many ships leave, one is discounted.    *)
BaseUndockCountsOne(d, b, S) ==
  LET bays  == HoldsShip(d, b, S)
      ships == {d.p_port[b][i] : i \in bays}
  IN [PFDOCK   |-> d.PFDOCK \ ships,
      p_docked |-> [q \in Player |-> IF q \in ships THEN -1
                                     ELSE IF q = b /\ bays # {} THEN d.p_docked[b] - 1
                                     ELSE d.p_docked[q]],
      p_port   |-> [q \in Player |-> [k \in PortNo |->
                      IF (q = b /\ k \in bays) \/ (q \in ships /\ k = 0) THEN VACANT
                      ELSE d.p_port[q][k]]]]

(* plutil.c: base_undock, applied by its callers to every bay of S.        *)
BaseUndock(d, b, S) ==
  LET bays  == HoldsShip(d, b, S)
      ships == {d.p_port[b][i] : i \in bays}
  IN [PFDOCK   |-> d.PFDOCK \ ships,
      p_docked |-> [q \in Player |-> IF q \in ships THEN -1
                                     ELSE IF q = b THEN d.p_docked[b] - Cardinality(bays)
                                     ELSE d.p_docked[q]],
      p_port   |-> [q \in Player |-> [k \in PortNo |->
                      IF (q = b /\ k \in bays) \/ (q \in ships /\ k = 0) THEN VACANT
                      ELSE d.p_port[q][k]]]]

(* plutil.c: dock_to.                                                      *)
DockTo(d0, p, b, i) ==
  LET d == UndockPlayer(d0, p)
  IN [PFDOCK   |-> d.PFDOCK \union {p},
      p_docked |-> [d.p_docked EXCEPT ![b] = @ + 1, ![p] = b],
      p_port   |-> [d.p_port EXCEPT ![b] = [k \in PortNo |-> IF k = i THEN p ELSE @[k]],
                                    ![p] = [k \in PortNo |-> IF k = 0 THEN i ELSE @[k]]]]

(* getship.c: get_ship_for_player, for a ship with n bays: a base starts   *)
(* with every bay vacant, another ship keeps the fields as they are.       *)
NewShip(d, p, n) ==
  IF n = 0 THEN d
  ELSE [PFDOCK   |-> d.PFDOCK,
        p_docked |-> [d.p_docked EXCEPT ![p] = 0],
        p_port   |-> [d.p_port EXCEPT ![p] = NoPorts]]

(* p_docked of p is set to 0: no ship docked, if p is a base.              *)
ClearDocked(d, p) ==
  [PFDOCK |-> d.PFDOCK, p_docked |-> [d.p_docked EXCEPT ![p] = 0], p_port |-> d.p_port]

-----------------------------------------------------------------------------
(* The bays 0 .. n-1 a base's ship type gives it.                          *)
Bays(n) == 0 .. n - 1

DamagedBays(d, b, n) == {i \in Bays(n) : d.p_port[b][i] = PDAMAGE}

(* player.c: dotractor, base->p_port[port_num] = PDAMAGE.  As above, bay   *)
(* number VACANT lands in p_docked.                                        *)
DamageBay(d, b, i) ==
  [PFDOCK   |-> d.PFDOCK,
   p_docked |-> [d.p_docked EXCEPT ![b] = IF i = VACANT THEN PDAMAGE ELSE @],
   p_port   |-> [d.p_port EXCEPT ![b] = [k \in PortNo |-> IF k = i THEN PDAMAGE ELSE @[k]]]]

(* player.c: repair_docking_ring.  The loop repairs bays in index order    *)
(* until (damaged - 1) * DOCKDAMAGE + 1 <= p_damage: hull damage h keeps   *)
(* at most this many bays damaged, the ones with the highest numbers.      *)
BaysKeptDamagedOneMore(h) == 1 + h \div DOCKDAMAGE   \* mutant: a bay too many
BaysKeptDamaged(h) == (h + DOCKDAMAGE - 1) \div DOCKDAMAGE

RepairRing(d, b, n, h) ==
  LET damaged == DamagedBays(d, b, n)
      Mended(i) == i \in damaged /\ Cardinality({k \in damaged : k >= i}) > BaysKeptDamaged(h)
  IN [PFDOCK   |-> d.PFDOCK,
      p_docked |-> d.p_docked,
      p_port   |-> [d.p_port EXCEPT ![b] = [i \in PortNo |-> IF Mended(i) THEN VACANT ELSE @[i]]]]

-----------------------------------------------------------------------------
(* Consistency of a table, where bays[p] is the number of bays of p's ship *)
(* (s_numports).  This is what the comments of struct.h:524-526 say of the *)
(* two fields: "If SB, # docked to, else no base host" and "If SB, pno of  *)
(* ship docked to that port, else p_port[0] = port # docked to on host".   *)

(* A docked ship names a base, and a bay of it, that names the ship back.  *)
ShipsKnowTheirBay(d, bays) ==
  \A s \in d.PFDOCK :
    /\ bays[s] = 0
    /\ d.p_docked[s] \in Player
    /\ d.p_port[s][0] \in Bays(bays[d.p_docked[s]])
    /\ d.p_port[d.p_docked[s]][d.p_port[s][0]] = s

(* A bay that holds a ship holds a ship that is docked at that very bay.   *)
BaysKnowTheirShip(d, bays) ==
  \A b \in Player : \A i \in HoldsShip(d, b, Bays(bays[b])) :
    LET s == d.p_port[b][i]
    IN s \in d.PFDOCK /\ d.p_docked[s] = b /\ d.p_port[s][0] = i

(* p_docked of a base is the number of its bays that hold a ship.          *)
CountsAreRight(d, bays) ==
  \A b \in Player :
    bays[b] > 0 => d.p_docked[b] = Cardinality(HoldsShip(d, b, Bays(bays[b])))

Consistent(d, bays) ==
  ShipsKnowTheirBay(d, bays) /\ BaysKnowTheirShip(d, bays) /\ CountsAreRight(d, bays)
=============================================================================
