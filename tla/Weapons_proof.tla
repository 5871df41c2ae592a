---------------------------- MODULE Weapons_proof ----------------------------
(***************************************************************************)
(* Proofs about Weapons: the counters of torpedoes and plasma are the      *)
(* numbers of slots in use, for any number of players, slots and missiles. *)
(***************************************************************************)
EXTENDS Weapons, FiniteSetTheorems, WellFoundedInduction, TLAPS

(* What the source's interleavings must not do (see the README): take over *)
(* a slot, or reset all counters, while weapons fly, let a carrier fire    *)
(* torpedoes of its own, and free a torpedo of a ship that is no carrier   *)
(* between detothers()'s look at it and its detonation.                    *)
Orderly ==
  /\ Hasty = {} /\ ~Nuked /\ Armed \cap Carriers = {}
  /\ \A p \in Slow : Player \ Carriers \subseteq {p}

Weapon == [status : {"TFREE", "TMOVE", "TDET", "TEXPLODE", "TOFF"}, owner : Player]

Types ==
  /\ p_status \in [Player -> {"alive", "explode", "dead", "outfit"}]
  /\ carrier \in [Player -> BOOLEAN] /\ \A p \in Player : carrier[p] => p \in Carriers
  /\ p_ntorp \in [Player -> Int] /\ p_nplasmatorp \in [Player -> Int]
  /\ torp \in [TorpSlots -> Weapon] /\ plasma \in [Player -> Weapon]
  /\ aim \in [Player -> TorpSlots \cup {NoSlot}]

(* Weapons lie in the slots of their owners, those looked at also when     *)
(* they are gone.                                                          *)
Owned ==
  /\ \A s \in TorpSlots : Live(torp[s]) => torp[s].owner = s[1]
  /\ \A p \in Player : aim[p] \in TorpSlots => torp[aim[p]].owner = aim[p][1]
  /\ \A p \in Player : Live(plasma[p]) => plasma[p].owner = p

InUse(t, p) == {i \in 1 .. MAXTORP : Live(t[<<p, i>>])}

(* The counters, and the reason why enter() may reset them.                *)
Counted(p) ==
  /\ p_ntorp[p] = Cardinality(InUse(torp, p))
  /\ p_nplasmatorp[p] = IF Live(plasma[p]) THEN 1 ELSE 0
  /\ p_status[p] = "outfit" => InUse(torp, p) = {} /\ ~Live(plasma[p])

WInv == Types /\ Owned /\ \A p \in Player \ Carriers : Counted(p)

-----------------------------------------------------------------------------
LEMMA InUseFacts ==
  ASSUME NEW t, NEW p
  PROVE  /\ InUse(t, p) \subseteq 1 .. MAXTORP
         /\ IsFiniteSet(InUse(t, p)) /\ Cardinality(InUse(t, p)) \in Nat
         /\ Cardinality(InUse(t, p)) = 0 <=> InUse(t, p) = {}
<1>1. InUse(t, p) \subseteq 1 .. MAXTORP /\ IsFiniteSet(1 .. MAXTORP)
  BY WeaponsAssumption, FS_Interval DEF InUse, WeaponsAssumption
<1>2. IsFiniteSet(InUse(t, p))
  BY <1>1, FS_Subset
<1> QED BY <1>1, <1>2, FS_CardinalityType, FS_EmptySet

(* One slot is written; its status is changed.                             *)
Writes(t, u, s, w) == u = [t EXCEPT ![s] = w]
Marks(t, u, s, status) == u = [t EXCEPT ![s].status = status]

LEMMA OneWrite ==
  ASSUME NEW S, NEW t \in [S -> Weapon], NEW s \in S, NEW w \in Weapon, NEW u, Writes(t, u, s, w)
  PROVE  u \in [S -> Weapon] /\ u[s] = w /\ \A r \in S \ {s} : u[r] = t[r]
BY DEF Writes

LEMMA OneSlot ==
  ASSUME NEW t \in [TorpSlots -> Weapon], NEW p \in Player, NEW i \in 1 .. MAXTORP, NEW w \in Weapon,
         NEW u, Writes(t, u, <<p, i>>, w)
  PROVE  /\ u \in [TorpSlots -> Weapon]
         /\ u[<<p, i>>] = w /\ \A s \in TorpSlots \ {<<p, i>>} : u[s] = t[s]
         /\ InUse(u, p) = IF Live(w) THEN InUse(t, p) \cup {i} ELSE InUse(t, p) \ {i}
         /\ \A q \in Player \ {p} : InUse(u, q) = InUse(t, q)
<1>1. <<p, i>> \in TorpSlots /\ \A q \in Player, j \in 1 .. MAXTORP : <<q, j>> \in TorpSlots
  BY DEF TorpSlots
<1>2. u \in [TorpSlots -> Weapon] /\ u[<<p, i>>] = w /\ \A s \in TorpSlots \ {<<p, i>>} : u[s] = t[s]
  BY <1>1 DEF Writes
<1>3. \A j \in (1 .. MAXTORP) \ {i} : u[<<p, j>>] = t[<<p, j>>]
  BY <1>1, <1>2
<1>4. \A q \in Player \ {p}, j \in 1 .. MAXTORP : u[<<q, j>>] = t[<<q, j>>]
  BY <1>1, <1>2
<1>5. InUse(u, p) = IF Live(w) THEN InUse(t, p) \cup {i} ELSE InUse(t, p) \ {i}
  BY <1>2, <1>3 DEF InUse
<1>6. \A q \in Player \ {p} : InUse(u, q) = InUse(t, q)
  BY <1>4 DEF InUse
<1> QED BY <1>2, <1>5, <1>6

(* A slot that is in use stays so, or one that nobody counts is written.   *)
LEMMA StatusWritten ==
  ASSUME NEW t \in [TorpSlots -> Weapon], NEW s \in TorpSlots,
         NEW status \in {"TMOVE", "TDET", "TEXPLODE", "TOFF"},
         NEW u, Marks(t, u, s, status)
  PROVE  /\ u \in [TorpSlots -> Weapon]
         /\ \A r \in TorpSlots : u[r].owner = t[r].owner /\ (r # s => u[r] = t[r])
         /\ Live(t[s]) => \A p \in Player : InUse(u, p) = InUse(t, p)
         /\ \A p \in Player \ {s[1]} : InUse(u, p) = InUse(t, p)
<1> DEFINE w == [t[s] EXCEPT !.status = status]
<1>1. w \in Weapon /\ w.owner = t[s].owner /\ Live(w)
  BY DEF Weapon, Live
<1>2. u = [t EXCEPT ![s] = w]
  BY DEF Marks
<1> HIDE DEF w
<1>3. PICK p \in Player, i \in 1 .. MAXTORP : s = <<p, i>> /\ s[1] = p
  BY DEF TorpSlots
<1>4. Writes(t, u, <<p, i>>, w)
  BY <1>2, <1>3 DEF Writes
<1>5. /\ u \in [TorpSlots -> Weapon] /\ u[<<p, i>>] = w /\ \A r \in TorpSlots \ {<<p, i>>} : u[r] = t[r]
      /\ InUse(u, p) = InUse(t, p) \cup {i} /\ \A q \in Player \ {p} : InUse(u, q) = InUse(t, q)
  BY <1>1, <1>4, OneSlot
<1>6. Live(t[s]) => i \in InUse(t, p)
  BY <1>3 DEF InUse
<1> QED BY <1>1, <1>3, <1>5, <1>6

-----------------------------------------------------------------------------
(* Steps that fire and free nothing. *)

LEMMA StillCounted ==
  ASSUME WInv, NEW p \in Player \ Carriers,
         p_ntorp'[p] = p_ntorp[p], p_nplasmatorp'[p] = p_nplasmatorp[p],
         InUse(torp', p) = InUse(torp, p), Live(plasma'[p]) <=> Live(plasma[p]),
         p_status'[p] = "outfit" => p_status[p] = "outfit"
  PROVE  Counted(p)'
BY DEF WInv, Counted

LEMMA QuietStep ==
  ASSUME WInv, UNCHANGED <<carrier, p_ntorp, p_nplasmatorp, torp, plasma, aim>>,
         p_status' \in [Player -> {"alive", "explode", "dead", "outfit"}],
         \A p \in Player : p_status'[p] = "outfit" => p_status[p] = "outfit"
  PROVE  WInv'
<1>1. Types' /\ Owned'
  BY DEF WInv, Types, Owned
<1>2. \A p \in Player \ Carriers : Counted(p)'
  BY StillCounted
<1> QED BY <1>1, <1>2 DEF WInv

LEMMA HurtStatus ==
  ASSUME Types, NEW others \in SUBSET Player, Hurt(others)
  PROVE  /\ p_status' \in [Player -> {"alive", "explode", "dead", "outfit"}]
         /\ \A p \in Player : p_status'[p] = "outfit" => p_status[p] = "outfit"
BY DEF Types, Hurt, Dies

LEMMA QuietActions ==
  ASSUME WInv, NEW p \in Player,
         \/ Board(p) \/ Kill(p) \/ doshipexplode(p)
         \/ \E i \in 1 .. NPTHINGIES : fire_missile_dir(p, i) \/ DetOwnMissile(p, i)
         \/ \E s \in MissileSlots : DetonateMissile(p, s) \/ PhaserFighter(p, s)
  PROVE  WInv'
<1>1. UNCHANGED <<carrier, p_ntorp, p_nplasmatorp, torp, plasma, aim>>
  BY DEF Board, Kill, doshipexplode, fire_missile_dir, DetOwnMissile, DetonateMissile, PhaserFighter, ships, racks
<1>2. \/ UNCHANGED p_status \/ Dies(p)
      \/ p_status[p] = "explode" /\ p_status' = [p_status EXCEPT ![p] = "dead"]
  BY DEF Board, Kill, doshipexplode, fire_missile_dir, DetOwnMissile, DetonateMissile, PhaserFighter, ships
<1>3. /\ p_status' \in [Player -> {"alive", "explode", "dead", "outfit"}]
      /\ \A q \in Player : p_status'[q] = "outfit" => p_status[q] = "outfit"
  BY <1>2 DEF WInv, Types, Dies
<1> QED BY <1>1, <1>3, QuietStep

-----------------------------------------------------------------------------
(* Lives: the counters are reset when there is nothing to count.           *)

LEMMA EnterStep == ASSUME WInv, NEW p \in Player, enter(p) PROVE WInv'
<1>1. /\ p_ntorp' = [p_ntorp EXCEPT ![p] = 0] /\ p_nplasmatorp' = [p_nplasmatorp EXCEPT ![p] = 0]
      /\ p_status[p] = "outfit" /\ p_status' = [p_status EXCEPT ![p] = "alive"]
      /\ UNCHANGED <<torp, plasma, aim>>
  BY DEF enter
<1>2. carrier' \in [Player -> BOOLEAN] /\ \A q \in Player : carrier'[q] => q \in Carriers
  <2> PICK c \in IF p \in Carriers THEN BOOLEAN ELSE {FALSE} : carrier' = [carrier EXCEPT ![p] = c]
    BY DEF enter
  <2>1. c \in BOOLEAN /\ (c => p \in Carriers)
    OBVIOUS
  <2> QED BY <2>1 DEF WInv, Types
<1>3. Types' /\ Owned'
  <2>1. /\ p_ntorp' \in [Player -> Int] /\ p_nplasmatorp' \in [Player -> Int]
        /\ p_status' \in [Player -> {"alive", "explode", "dead", "outfit"}]
    BY <1>1 DEF WInv, Types
  <2>2. Types'
    BY <1>1, <1>2, <2>1 DEF WInv, Types
  <2> QED BY <1>1, <2>2 DEF WInv, Owned
<1>4. ASSUME NEW q \in Player \ Carriers PROVE Counted(q)'
  <2>1. CASE q = p
    <3>1. InUse(torp, p) = {} /\ ~Live(plasma[p])
      BY <1>1, <2>1 DEF WInv, Counted
    <3>2. p_ntorp'[p] = 0 /\ p_nplasmatorp'[p] = 0 /\ p_status'[p] = "alive"
      BY <1>1 DEF WInv, Types
    <3> QED BY <1>1, <2>1, <3>1, <3>2, InUseFacts DEF Counted
  <2>2. CASE q # p
    BY <1>1, <2>2, StillCounted DEF WInv, Types
  <2> QED BY <2>1, <2>2
<1> QED BY <1>3, <1>4 DEF WInv

LEMMA LeaveStep ==
  ASSUME WInv, Orderly, NEW p \in Player, death(p) \/ TakeOver(p)
  PROVE  WInv'
<1>1. /\ p_status' = [p_status EXCEPT ![p] = "outfit"] /\ aim' = [aim EXCEPT ![p] = NoSlot]
      /\ UNCHANGED <<carrier, p_ntorp, p_nplasmatorp, torp, plasma>>
  BY DEF death, TakeOver
<1>2. NoSlot \notin TorpSlots
  BY WeaponsAssumption DEF NoSlot, TorpSlots, Player, WeaponsAssumption
<1>3. Types' /\ Owned'
  BY <1>1, <1>2 DEF WInv, Types, Owned
<1>4. p \notin Carriers => InUse(torp, p) = {} /\ ~Live(plasma[p])
  <2>1. CASE death(p)
    BY <2>1, InUseFacts DEF death, WInv, Counted
  <2>2. CASE TakeOver(p)
    BY <2>2 DEF TakeOver, Orderly, Torps, InUse
  <2> QED BY <2>1, <2>2
<1>5. ASSUME NEW q \in Player \ Carriers PROVE Counted(q)'
  <2>1. CASE q = p
    BY <1>1, <1>4, <2>1 DEF WInv, Counted
  <2>2. CASE q # p
    BY <1>1, <2>2, StillCounted DEF WInv, Types
  <2> QED BY <2>1, <2>2
<1> QED BY <1>3, <1>5 DEF WInv

LEMMA EveryoneStep == ASSUME WInv, Orderly, explode_everyone PROVE WInv'
<1>1. UNCHANGED <<carrier, torp, plasma, aim>> /\ \A p \in Player : InUse(torp, p) = {} /\ ~Live(plasma[p])
  BY DEF explode_everyone, Orderly, racks, Torps, InUse
<1>2. Types' /\ Owned'
  BY <1>1 DEF WInv, Types, Owned, explode_everyone
<1>3. ASSUME NEW q \in Player \ Carriers PROVE Counted(q)'
  <2>1. p_ntorp[q] = 0 /\ p_nplasmatorp[q] = 0
    BY <1>1, InUseFacts DEF WInv, Counted
  <2>2. p_ntorp'[q] = 0 /\ p_nplasmatorp'[q] = 0
    BY <2>1 DEF explode_everyone
  <2> QED BY <1>1, <2>2, InUseFacts DEF Counted
<1> QED BY <1>2, <1>3 DEF WInv

-----------------------------------------------------------------------------
(* Torpedoes. *)

LEMMA LeastElement ==
  ASSUME NEW S \in SUBSET Nat, S # {}
  PROVE  \E i \in S : \A j \in S : i <= j
<1>1. IsWellFoundedOn(OpToRel(<, Nat), Nat)
  BY NatLessThanWellFounded
<1>2. PICK x \in S : \A y \in S : ~(<<y, x>> \in OpToRel(<, Nat))
  BY <1>1, WFMin
<1>3. OpToRel(<, Nat) = {ij \in Nat \X Nat : ij[1] < ij[2]}
  BY DEF OpToRel
<1>4. \A y \in S : ~(y < x)
  <2> SUFFICES ASSUME NEW y \in S, y < x PROVE FALSE
    OBVIOUS
  <2>1. <<y, x>> \in {ij \in Nat \X Nat : ij[1] < ij[2]}
    OBVIOUS
  <2> QED BY <1>2, <1>3, <2>1
<1> QED BY <1>4

(* The owner of the counters finds a free slot: they are right.            *)
LEMMA FreeTorpSlot ==
  ASSUME NEW p \in Player, InUse(torp, p) # 1 .. MAXTORP
  PROVE  \E i \in 1 .. MAXTORP : TorpSlot(p) = <<p, i>> /\ i \notin InUse(torp, p)
<1> DEFINE free == (1 .. MAXTORP) \ InUse(torp, p)
<1>1. free # {} /\ free \subseteq Nat
  <2>1. InUse(torp, p) \subseteq 1 .. MAXTORP
    BY InUseFacts
  <2>2. PICK i \in 1 .. MAXTORP : i \notin InUse(torp, p)
    BY <2>1
  <2>3. MAXTORP \in Nat
    BY WeaponsAssumption DEF WeaponsAssumption
  <2> QED BY <2>2, <2>3
<1>2. PICK i \in free : \A j \in free : i <= j
  BY <1>1, LeastElement
<1>3. (CHOOSE k \in free : \A j \in free : k <= j) \in free
  BY <1>2
<1> QED BY <1>3 DEF TorpSlot, Torps, InUse

LEMMA TorpStep ==
  ASSUME WInv, Orderly, NEW p \in Player, ntorp(p)
  PROVE  WInv'
<1>1. p \notin Carriers /\ p_status[p] # "outfit" /\ p_ntorp[p] # MAXTORP
  BY DEF ntorp, Orderly, Fires
<1>2. InUse(torp, p) # 1 .. MAXTORP
  <2>1. Cardinality(1 .. MAXTORP) = MAXTORP
    BY WeaponsAssumption, FS_Interval DEF WeaponsAssumption
  <2> QED BY <1>1, <2>1 DEF WInv, Counted
<1>3. PICK i \in 1 .. MAXTORP : TorpSlot(p) = <<p, i>> /\ i \notin InUse(torp, p)
  BY <1>2, FreeTorpSlot
<1> DEFINE w == [status |-> "TMOVE", owner |-> p]
<1>4. w \in Weapon /\ Live(w) /\ w.owner = p
  BY DEF Weapon, Live
<1>5. /\ Writes(torp, torp', <<p, i>>, w) /\ p_ntorp' = [p_ntorp EXCEPT ![p] = @ + 1]
      /\ UNCHANGED <<p_status, carrier, p_nplasmatorp, plasma, aim>>
  BY <1>3 DEF ntorp, ships, racks, Writes
<1> HIDE DEF w
<1>6. /\ torp' \in [TorpSlots -> Weapon] /\ torp'[<<p, i>>] = w /\ \A s \in TorpSlots \ {<<p, i>>} : torp'[s] = torp[s]
      /\ InUse(torp', p) = InUse(torp, p) \cup {i} /\ \A q \in Player \ {p} : InUse(torp', q) = InUse(torp, q)
  BY <1>4, <1>5, OneSlot DEF WInv, Types
<1>7. Types'
  BY <1>5, <1>6 DEF WInv, Types
<1>8. Owned'
  BY <1>4, <1>5, <1>6 DEF WInv, Owned
<1>9. ASSUME NEW q \in Player \ Carriers PROVE Counted(q)'
  <2>1. CASE q = p
    <3>1. Cardinality(InUse(torp, p) \cup {i}) = Cardinality(InUse(torp, p)) + 1
      BY <1>3, InUseFacts, FS_AddElement
    <3>2. p_ntorp'[p] = p_ntorp[p] + 1 /\ p_ntorp[p] = Cardinality(InUse(torp, p))
      BY <1>1, <1>5 DEF WInv, Types, Counted
    <3> QED BY <1>1, <1>5, <1>6, <2>1, <3>1, <3>2 DEF WInv, Counted
  <2>2. CASE q # p
    BY <1>5, <1>6, <2>2, StillCounted DEF WInv, Types
  <2> QED BY <2>1, <2>2
<1> QED BY <1>7, <1>8, <1>9 DEF WInv

(* A fighter's torpedo lies in a slot of its carrier, which is not counted.*)
LEMMA FighterStep ==
  ASSUME WInv, NEW s \in MissileSlots, f_torp(s),
         UNCHANGED <<carrier, p_ntorp, p_nplasmatorp, plasma, aim>>
  PROVE  WInv'
<1>1. PICK p \in Player : p = s[1]
  BY DEF MissileSlots
<1>2. p \in Carriers /\ InUse(torp, p) # 1 .. MAXTORP
  BY <1>1 DEF f_torp, Fighter, WInv, Types, Torps, InUse
<1>3. PICK i \in 1 .. MAXTORP : TorpSlot(p) = <<p, i>> /\ i \notin InUse(torp, p)
  BY <1>2, FreeTorpSlot
<1> DEFINE w == [status |-> "TMOVE", owner |-> p]
<1>4. w \in Weapon /\ w.owner = p
  BY DEF Weapon
<1>5. Writes(torp, torp', <<p, i>>, w) /\ UNCHANGED p_status
  BY <1>1, <1>3 DEF f_torp, Writes
<1> HIDE DEF w
<1>6. /\ torp' \in [TorpSlots -> Weapon] /\ torp'[<<p, i>>] = w /\ \A r \in TorpSlots \ {<<p, i>>} : torp'[r] = torp[r]
      /\ \A q \in Player \ {p} : InUse(torp', q) = InUse(torp, q)
  BY <1>4, <1>5, OneSlot DEF WInv, Types
<1>7. Types' /\ Owned'
  BY <1>4, <1>5, <1>6 DEF WInv, Types, Owned
<1>8. \A q \in Player \ Carriers : Counted(q)'
  BY <1>2, <1>5, <1>6, StillCounted
<1> QED BY <1>7, <1>8 DEF WInv

(* A torpedo's status is changed, but the slot is not freed.               *)
LEMMA StatusStep ==
  ASSUME WInv, NEW s \in TorpSlots, NEW status \in {"TMOVE", "TDET", "TEXPLODE", "TOFF"},
         Marks(torp, torp', s, status),
         Live(torp[s]) \/ (s[1] \in Carriers /\ torp[s].owner = s[1]),
         aim' = aim \/ \E p \in Player : aim' = [aim EXCEPT ![p] = NoSlot],
         UNCHANGED <<carrier, p_ntorp, p_nplasmatorp, plasma>>,
         p_status' \in [Player -> {"alive", "explode", "dead", "outfit"}],
         \A p \in Player : p_status'[p] = "outfit" => p_status[p] = "outfit"
  PROVE  WInv'
<1>1. /\ torp' \in [TorpSlots -> Weapon]
      /\ \A r \in TorpSlots : torp'[r].owner = torp[r].owner /\ (r # s => torp'[r] = torp[r])
      /\ Live(torp[s]) => \A p \in Player : InUse(torp', p) = InUse(torp, p)
      /\ \A p \in Player \ {s[1]} : InUse(torp', p) = InUse(torp, p)
  BY StatusWritten DEF WInv, Types
<1>2. /\ aim' \in [Player -> TorpSlots \cup {NoSlot}]
      /\ \A p \in Player : aim'[p] \in TorpSlots => aim'[p] = aim[p]
  <2>1. NoSlot \notin TorpSlots
    BY WeaponsAssumption DEF NoSlot, TorpSlots, Player, WeaponsAssumption
  <2> QED BY <2>1 DEF WInv, Types
<1>3. Types'
  BY <1>1, <1>2 DEF WInv, Types
<1>4. torp[s].owner = s[1]
  BY DEF WInv, Owned
<1>5. Owned'
  BY <1>1, <1>2, <1>4 DEF WInv, Owned
<1>6. \A p \in Player \ Carriers : Counted(p)'
  BY <1>1, StillCounted
<1> QED BY <1>3, <1>5, <1>6 DEF WInv

LEMMA DetonateStep ==
  ASSUME WInv, Orderly, NEW p \in Player, NEW s \in TorpSlots, Detonate(p, s) \/ DetOwn(p, s)
  PROVE  WInv'
<1>1. /\ UNCHANGED <<p_status, carrier, p_ntorp, p_nplasmatorp, plasma>>
      /\ \E status \in {"TDET", "TOFF"} : Marks(torp, torp', s, status)
      /\ aim' = aim \/ aim' = [aim EXCEPT ![p] = NoSlot]
  BY DEF Detonate, DetOwn, ships, racks, Marks
<1>2. Live(torp[s]) \/ (s[1] \in Carriers /\ torp[s].owner = s[1])
  <2>1. CASE Flying(torp[s])
    BY <2>1 DEF Flying, Live
  <2>2. CASE ~Flying(torp[s])
    <3>1. p \in Slow /\ aim[p] = s /\ s[1] # p
      BY <2>2 DEF Detonate, DetOwn
    <3>2. s[1] \in Player
      BY DEF TorpSlots
    <3> QED BY <3>1, <3>2 DEF Orderly, WInv, Owned
  <2> QED BY <2>1, <2>2
<1> QED BY <1>1, <1>2, StatusStep DEF WInv, Types

LEMMA LookStep == ASSUME WInv, NEW p \in Player, NEW s \in TorpSlots, Look(p, s) PROVE WInv'
<1>1. /\ Live(torp[s]) /\ aim' = [aim EXCEPT ![p] = s]
      /\ UNCHANGED <<p_status, carrier, p_ntorp, p_nplasmatorp, torp, plasma>>
  BY DEF Look, ships, racks, Flying, Live
<1>2. Types' /\ Owned'
  BY <1>1 DEF WInv, Types, Owned
<1>3. \A q \in Player \ Carriers : Counted(q)'
  BY <1>1, StillCounted
<1> QED BY <1>2, <1>3 DEF WInv

LEMMA FreesStep ==
  ASSUME WInv, NEW s \in TorpSlots, Live(torp[s]), Frees(s),
         UNCHANGED <<p_status, carrier, p_nplasmatorp, plasma, aim>>
  PROVE  WInv'
<1>1. PICK p \in Player, i \in 1 .. MAXTORP : s = <<p, i>> /\ s[1] = p
  BY DEF TorpSlots
<1>2. torp[s].owner = p
  BY <1>1 DEF WInv, Owned
<1> DEFINE w == [torp[s] EXCEPT !.status = "TFREE"]
<1>3. w \in Weapon /\ w.owner = p /\ ~Live(w)
  <2>1. torp[s] \in Weapon
    BY DEF WInv, Types
  <2> QED BY <1>2, <2>1 DEF Weapon, Live
<1>4. Writes(torp, torp', <<p, i>>, w) /\ p_ntorp' = [p_ntorp EXCEPT ![p] = @ - 1]
  BY <1>1, <1>2 DEF Frees, Writes
<1> HIDE DEF w
<1>5. /\ torp' \in [TorpSlots -> Weapon] /\ torp'[<<p, i>>] = w /\ \A r \in TorpSlots \ {<<p, i>>} : torp'[r] = torp[r]
      /\ InUse(torp', p) = InUse(torp, p) \ {i} /\ \A q \in Player \ {p} : InUse(torp', q) = InUse(torp, q)
  BY <1>3, <1>4, OneSlot DEF WInv, Types
<1>6. Types'
  BY <1>4, <1>5 DEF WInv, Types
<1>7. Owned'
  BY <1>3, <1>5 DEF WInv, Owned
<1>8. ASSUME NEW q \in Player \ Carriers PROVE Counted(q)'
  <2>1. CASE q = p
    <3>1. i \in InUse(torp, p)
      BY <1>1 DEF InUse
    <3>2. Cardinality(InUse(torp, p) \ {i}) = Cardinality(InUse(torp, p)) - 1
      BY <3>1, InUseFacts, FS_RemoveElement
    <3>3. p_ntorp'[p] = p_ntorp[p] - 1 /\ p_ntorp[p] = Cardinality(InUse(torp, p))
      BY <1>4, <2>1 DEF WInv, Types, Counted
    <3>4. p_status[p] # "outfit"
      BY <2>1, <3>1 DEF WInv, Counted
    <3> QED BY <1>5, <2>1, <3>2, <3>3, <3>4 DEF WInv, Counted
  <2>2. CASE q # p
    BY <1>4, <1>5, <2>2, StillCounted DEF WInv, Types
  <2> QED BY <2>1, <2>2
<1> QED BY <1>6, <1>7, <1>8 DEF WInv

LEMMA UdtorpStep == ASSUME WInv, NEW s \in TorpSlots, udtorp(s) PROVE WInv'
<1>1. CASE torp[s].status \in {"TMOVE", "TDET"} /\ ExplodesTorp(s) /\ Hurt(Player \ {torp[s].owner})
  <2>1. /\ p_status' \in [Player -> {"alive", "explode", "dead", "outfit"}]
        /\ \A p \in Player : p_status'[p] = "outfit" => p_status[p] = "outfit"
    BY <1>1, HurtStatus DEF WInv
  <2>2. Marks(torp, torp', s, "TEXPLODE") /\ Live(torp[s]) /\ UNCHANGED <<carrier, p_ntorp, p_nplasmatorp, plasma, aim>>
    BY <1>1 DEF udtorp, ExplodesTorp, Live, Marks
  <2> QED BY <2>1, <2>2, StatusStep
<1>2. CASE torp[s].status \in {"TMOVE", "TEXPLODE", "TOFF"} /\ Frees(s) /\ UNCHANGED p_status
  BY <1>2, FreesStep DEF udtorp, Live
<1> QED BY <1>1, <1>2 DEF udtorp

-----------------------------------------------------------------------------
(* Plasma. *)

(* A player's slot for plasma becomes w: it explodes, is fired or is freed. *)
PlasmaTo(p, w) ==
  /\ Writes(plasma, plasma', p, w)
  /\ Live(w) => w.owner = p
  /\ \/ Live(w) /\ Live(plasma[p]) /\ UNCHANGED p_nplasmatorp
     \/ /\ Live(w) /\ ~Live(plasma[p]) /\ p \notin Carriers /\ p_status[p] # "outfit"
        /\ p_nplasmatorp' = [p_nplasmatorp EXCEPT ![p] = @ + 1]
     \/ ~Live(w) /\ Live(plasma[p]) /\ p_nplasmatorp' = [p_nplasmatorp EXCEPT ![p] = @ - 1]

LEMMA PlasmaWritten ==
  ASSUME WInv, NEW p \in Player, NEW w \in Weapon,
         PlasmaTo(p, w),
         UNCHANGED <<carrier, p_ntorp, torp, aim>>,
         p_status' \in [Player -> {"alive", "explode", "dead", "outfit"}],
         \A q \in Player : p_status'[q] = "outfit" => p_status[q] = "outfit"
  PROVE  WInv'
<1>1. plasma \in [Player -> Weapon] /\ p_nplasmatorp \in [Player -> Int]
  BY DEF WInv, Types
<1>2. plasma' \in [Player -> Weapon] /\ plasma'[p] = w /\ \A q \in Player \ {p} : plasma'[q] = plasma[q]
  BY <1>1, OneWrite DEF PlasmaTo
<1>3. p_nplasmatorp' \in [Player -> Int] /\ \A q \in Player \ {p} : p_nplasmatorp'[q] = p_nplasmatorp[q]
  BY <1>1 DEF PlasmaTo
<1>4. Types'
  BY <1>2, <1>3 DEF WInv, Types
<1>5. Owned'
  <2>1. \A q \in Player : Live(plasma'[q]) => plasma'[q].owner = q
    BY <1>2 DEF WInv, Owned, PlasmaTo
  <2> QED BY <2>1 DEF WInv, Owned
<1>6. ASSUME NEW q \in Player \ Carriers PROVE Counted(q)'
  <2>1. CASE q = p
    <3>1. p_nplasmatorp[p] = IF Live(plasma[p]) THEN 1 ELSE 0
      BY <2>1 DEF WInv, Counted
    <3>2. p_nplasmatorp'[p] = IF Live(plasma'[p]) THEN 1 ELSE 0
      BY <1>1, <1>2, <3>1 DEF PlasmaTo
    <3>3. p_status'[p] # "outfit"
      BY <2>1 DEF WInv, Counted, PlasmaTo
    <3>4. p_ntorp'[p] = Cardinality(InUse(torp', p))
      BY <2>1 DEF WInv, Counted
    <3> QED BY <2>1, <3>2, <3>3, <3>4 DEF Counted
  <2>2. CASE q # p
    BY <1>2, <1>3, <2>2, StillCounted
  <2> QED BY <2>1, <2>2
<1> QED BY <1>4, <1>5, <1>6 DEF WInv

LEMMA PlasmaStep ==
  ASSUME WInv, Orderly, NEW p \in Player,
         nplasmatorp(p) \/ udplasmatorp(p) \/ \E q \in Player : PhaserPlasma(q, p)
  PROVE  WInv'
<1> USE DEF WInv, Types
<1>1. UNCHANGED <<carrier, p_ntorp, torp, aim>>
  BY DEF nplasmatorp, udplasmatorp, PhaserPlasma, ships, racks
<1>2. /\ p_status' \in [Player -> {"alive", "explode", "dead", "outfit"}]
      /\ \A q \in Player : p_status'[q] = "outfit" => p_status[q] = "outfit"
  BY HurtStatus DEF nplasmatorp, udplasmatorp, PhaserPlasma, ships
<1>3. \E w \in Weapon : PlasmaTo(p, w)
  <2>1. CASE nplasmatorp(p)
    <3> DEFINE w == [status |-> "TMOVE", owner |-> p]
    <3>1. w \in Weapon /\ Live(w) /\ w.owner = p
      BY DEF Weapon, Live
    <3>2. p \notin Carriers /\ p_status[p] # "outfit" /\ ~Live(plasma[p])
      BY <2>1 DEF nplasmatorp, Orderly, Counted, Fires
    <3> QED BY <2>1, <3>1, <3>2 DEF nplasmatorp, Writes, PlasmaTo
  <2>2. CASE udplasmatorp(p)
    <3> DEFINE Made(x) == [plasma[p] EXCEPT !.status = x]
    <3>1. \A x \in {"TFREE", "TEXPLODE"} : Made(x) \in Weapon /\ Made(x).owner = plasma[p].owner
      BY DEF Weapon
    <3>2. Live(Made("TEXPLODE")) /\ ~Live(Made("TFREE"))
      BY DEF Live, Weapon
    <3>3. Live(plasma[p]) /\ plasma[p].owner = p
      BY <2>2 DEF udplasmatorp, Live, Owned
    <3>4. \/ Writes(plasma, plasma', p, Made("TEXPLODE")) /\ UNCHANGED p_nplasmatorp
          \/ Writes(plasma, plasma', p, Made("TFREE")) /\ p_nplasmatorp' = [p_nplasmatorp EXCEPT ![p] = @ - 1]
      BY <2>2, <3>3 DEF udplasmatorp, Writes
    <3> HIDE DEF Made
    <3> QED BY <3>1, <3>2, <3>3, <3>4 DEF PlasmaTo
  <2>3. CASE \E q \in Player : PhaserPlasma(q, p)
    <3> DEFINE w == [plasma[p] EXCEPT !.status = "TEXPLODE"]
    <3>1. w \in Weapon /\ w.owner = plasma[p].owner /\ Live(w)
      BY DEF Weapon, Live
    <3>2. /\ Live(plasma[p]) /\ plasma[p].owner = p
          /\ Writes(plasma, plasma', p, w) /\ UNCHANGED p_nplasmatorp
      BY <2>3 DEF PhaserPlasma, Flying, Live, Owned, Writes
    <3> HIDE DEF w
    <3> QED BY <3>1, <3>2 DEF PlasmaTo
  <2> QED BY <2>1, <2>2, <2>3
<1> HIDE DEF WInv, Types
<1> QED BY <1>1, <1>2, <1>3, PlasmaWritten

-----------------------------------------------------------------------------
LEMMA MissileStep == ASSUME WInv, NEW s \in MissileSlots, udmissile(s) PROVE WInv'
<1>1. UNCHANGED <<carrier, p_ntorp, p_nplasmatorp, plasma, aim>>
  BY DEF udmissile
<1>2. CASE f_torp(s)
  BY <1>1, <1>2, FighterStep
<1>3. CASE ~f_torp(s)
  <2>1. UNCHANGED torp /\ (UNCHANGED p_status \/ Hurt(Player \ {s[1]}))
    BY <1>3 DEF udmissile, Land, RunOut, ExplodeMissile, BurnOut, Kamikaze, TurnBack, f_land
  <2>2. /\ p_status' \in [Player -> {"alive", "explode", "dead", "outfit"}]
        /\ \A q \in Player : p_status'[q] = "outfit" => p_status[q] = "outfit"
    BY <2>1, HurtStatus DEF WInv, Types
  <2> QED BY <1>1, <2>1, <2>2, QuietStep
<1> QED BY <1>2, <1>3

LEMMA WeaponsStep == ASSUME Orderly, WInv, [Next]_vars PROVE WInv'
<1>1. CASE UNCHANGED vars
  BY <1>1, QuietStep DEF vars, ships, racks, WInv, Types
<1>2. CASE Daemon
  BY <1>2, QuietActions, PlasmaStep, UdtorpStep, MissileStep, EveryoneStep DEF Daemon
<1>3. ASSUME NEW p \in Player, Process(p) PROVE WInv'
  BY <1>3, QuietActions, EnterStep, LeaveStep, TorpStep, PlasmaStep, LookStep, DetonateStep DEF Process
<1> QED BY <1>1, <1>2, <1>3 DEF Next

LEMMA InitWInv == Init => WInv
<1> SUFFICES ASSUME Init PROVE WInv
  OBVIOUS
<1>1. 1 \in Player /\ NoSlot \notin TorpSlots
  BY WeaponsAssumption DEF Player, WeaponsAssumption, NoSlot, TorpSlots
<1>2. Gone \in Weapon /\ ~Live(Gone)
  BY <1>1 DEF Gone, Weapon, Live
<1>3. Types /\ Owned
  BY <1>1, <1>2 DEF Init, Types, Owned
<1>4. ASSUME NEW p \in Player PROVE InUse(torp, p) = {} /\ ~Live(plasma[p])
  BY <1>2 DEF Init, InUse, TorpSlots
<1>5. \A p \in Player : Counted(p)
  BY <1>4, InUseFacts DEF Init, Counted
<1> QED BY <1>3, <1>5 DEF WInv

(* The counters of torpedoes and plasma are the numbers of slots in use,   *)
(* and a player's slots hold his own weapons: whatever is fired, detonated *)
(* or burns out, whoever dies meanwhile, with any number of players, slots *)
(* and missiles, unless one of the interleavings that Orderly names comes  *)
(* in between.                                                             *)
THEOREM WeaponsCounted == ASSUME Orderly PROVE Spec => []SlotsCounted
<1>1. WInv /\ [Next]_vars => WInv'
  BY WeaponsStep
<1>2. WInv => SlotsCounted
  <2> SUFFICES ASSUME WInv, NEW p \in Player \ Carriers
               PROVE  /\ p_ntorp[p] = Cardinality(Torps(p))
                      /\ \A i \in Torps(p) : torp[<<p, i>>].owner = p
                      /\ p_nplasmatorp[p] = IF Live(plasma[p]) THEN 1 ELSE 0
                      /\ Live(plasma[p]) => plasma[p].owner = p
    BY DEF SlotsCounted
  <2>1. Torps(p) = InUse(torp, p)
    BY DEF Torps, InUse
  <2>2. \A i \in Torps(p) : torp[<<p, i>>].owner = p
    BY DEF Torps, TorpSlots, WInv, Owned
  <2> QED BY <2>1, <2>2 DEF WInv, Counted, Owned
<1> QED BY <1>1, <1>2, InitWInv, PTL DEF Spec
=============================================================================
