--------------------------- MODULE WaitQueue_proof ---------------------------
(***************************************************************************)
(* The waiting processes keep different numbers, all of them below the     *)
(* next number to take, whatever the number of processes and slots and     *)
(* however they leave the queue.                                           *)
(***************************************************************************)
EXTENDS WaitQueue, TLAPS

(* The inductive invariant: NumbersUnique and the types it needs.          *)
QTypes == count \in Nat /\ num \in [Proc -> Nat] /\ pc \in [Proc -> Places]
QInv == QTypes /\ NumbersUnique

(* A step that takes no number, gives none back and lets nobody else in.   *)
LEMMA QuietSafe ==
  ASSUME QInv, UNCHANGED <<daemonUp, count, num>>, pc' \in [Proc -> Places],
         \A q \in Proc : Waiting(q)' => Waiting(q)
  PROVE  QInv'
BY DEF QInv, QTypes, NumbersUnique

(* Where one process goes, the others stay.                                *)
LEMMA GoesQuietly ==
  ASSUME QInv, NEW p \in Proc, NEW place \in Places, NEW m, NEW ticks, Goes(p, place, m, ticks),
         Waiting(p) \/ place \in {"playing", "ended"}, UNCHANGED <<daemonUp, count, num>>
  PROVE  QInv'
<1>1. pc' \in [Proc -> Places]
  BY DEF Goes, QInv, QTypes
<1>2. \A q \in Proc : Waiting(q)' => Waiting(q)
  BY DEF Goes, QInv, QTypes, Waiting
<1> QED BY <1>1, <1>2, QuietSafe

(* A process that ends takes its own number with it, and no other.         *)
LEMMA GiveBack ==
  ASSUME QInv, NEW p \in Proc, Waiting(p), Ends(p), UNCHANGED <<daemonUp, num>>,
         count' = IF num[p] = count - 1 THEN count - 1 ELSE count
  PROVE  QInv'
<1>1. /\ pc' \in [Proc -> Places]
      /\ \A q \in Proc : Waiting(q)' => Waiting(q) /\ q # p
  BY DEF Ends, Goes, QInv, QTypes, Waiting, Places
<1>2. count' \in Nat
  BY DEF QInv, QTypes
<1>3. NumbersUnique'
  <2> SUFFICES ASSUME daemonUp, NEW a \in Proc, NEW b \in Proc, Waiting(a)', Waiting(b)'
               PROVE  num[a] < count' /\ (a # b => num[a] # num[b])
    BY DEF NumbersUnique
  <2>1. num[a] < count /\ num[a] # num[p] /\ (a # b => num[a] # num[b])
    BY <1>1 DEF QInv, NumbersUnique
  <2> QED BY <2>1 DEF QInv, QTypes
<1> QED BY <1>1, <1>2, <1>3 DEF QInv, QTypes

(* The top of the loop: the process sleeps again, or gives its number back.*)
LEMMA LoopTopSafe ==
  ASSUME QInv, NEW p \in Proc, Waiting(p), NEW m, NEW w, LoopTop(p, m, w),
         UNCHANGED <<daemonUp, num>>
  PROVE  QInv'
<1>1. CASE Goes(p, "top", m, 1) /\ count' = count
  BY <1>1, GoesQuietly DEF Places
<1>2. CASE Ends(p) /\ count' = IF num[p] = count - 1 THEN count - 1 ELSE count
  BY <1>2, GiveBack
<1> QED BY <1>1, <1>2 DEF LoopTop

(* The rest of a turn.                                                     *)
LEMMA RestOfTurnSafe ==
  ASSUME QInv, NEW p \in Proc, Waiting(p), NEW m, RestOfTurn(p, m), UNCHANGED <<daemonUp, num>>
  PROVE  QInv'
<1>1. CASE Idle(p, m)
  BY <1>1, LoopTopSafe DEF Idle
<1>2. CASE TakeSlot(p, m)
  BY <1>2, LoopTopSafe DEF TakeSlot
<1>3. CASE BePatient(p, m)
  BY <1>3, LoopTopSafe DEF BePatient
<1>4. CASE ClaimNext(p, m)
  BY <1>4, GoesQuietly DEF ClaimNext, Places
<1> QED BY <1>1, <1>2, <1>3, <1>4 DEF RestOfTurn

(* A process wakes.                                                        *)
LEMMA WakeSafe ==
  ASSUME QInv, NEW p \in Proc, Wake(p)
  PROVE  QInv'
<1>1. CASE DaemonDied(p)
  BY <1>1, GoesQuietly DEF DaemonDied, Ends, Places
<1>2. CASE LeaveQueue(p)
  BY <1>2, GoesQuietly DEF LeaveQueue, Ends, Returns, Places
<1>3. CASE Turn(p)
  <2>1. Waiting(p) /\ UNCHANGED <<daemonUp, num>>
    BY <1>3 DEF Turn, Due, Waiting
  <2>2. CASE CorrectWait(p, TurnMe(p))
    BY <2>1, <2>2, GoesQuietly DEF CorrectWait, Places
  <2>3. CASE RestOfTurn(p, TurnMe(p))
    BY <2>1, <2>3, RestOfTurnSafe
  <2> QED BY <1>3, <2>2, <2>3 DEF Turn
<1>4. CASE AfterCorrecting(p)
  BY <1>4, RestOfTurnSafe DEF AfterCorrecting, Due, Waiting
<1>5. CASE AfterClaiming(p)
  BY <1>5, LoopTopSafe DEF AfterClaiming, Due, Waiting
<1> QED BY <1>1, <1>2, <1>3, <1>4, <1>5 DEF Wake

(* A process takes the next number.                                        *)
LEMMA TakeNumberSafe ==
  ASSUME QInv, NEW p \in Proc, TakeNumber(p)
  PROVE  QInv'
<1>1. /\ QTypes'
      /\ num' = [num EXCEPT ![p] = count] /\ count' = count + 1
      /\ \A q \in Proc \ {p} : Waiting(q)' => Waiting(q)
  BY DEF TakeNumber, Goes, QInv, QTypes, Waiting, Places
<1>2. NumbersUnique'
  <2> SUFFICES ASSUME daemonUp, NEW a \in Proc, NEW b \in Proc, Waiting(a)', Waiting(b)'
               PROVE  num'[a] < count' /\ (a # b => num'[a] # num'[b])
    BY DEF NumbersUnique, TakeNumber
  <2>1. \A q \in Proc \ {p} : Waiting(q)' => num'[q] < count /\ num'[q] = num[q]
    BY <1>1 DEF QInv, QTypes, NumbersUnique
  <2>2. num'[p] = count
    BY <1>1 DEF QInv, QTypes
  <2>3. a # p /\ b # p /\ a # b => num'[a] # num'[b]
    BY <1>1 DEF QInv, QTypes, NumbersUnique
  <2> QED BY <1>1, <2>1, <2>2, <2>3 DEF QInv, QTypes
<1> QED BY <1>1, <1>2 DEF QInv

(* Every step keeps the invariant.                                         *)
LEMMA QNext ==
  ASSUME QInv, [Next]_vars
  PROVE  QInv'
<1>1. CASE UNCHANGED vars
  BY <1>1, QuietSafe DEF vars, QInv, QTypes, Waiting
<1>2. ASSUME NEW p \in Proc, EnterDirectly(p)
      PROVE  QInv'
  BY <1>2, GoesQuietly DEF EnterDirectly, Returns, Places
<1>3. ASSUME NEW p \in Proc, TakeNumber(p)
      PROVE  QInv'
  BY <1>3, TakeNumberSafe
<1>4. ASSUME NEW p \in Proc, Wake(p)
      PROVE  QInv'
  BY <1>4, WakeSafe
<1>5. ASSUME NEW p \in Proc, Crash(p)
      PROVE  QInv'
  BY <1>5, GoesQuietly DEF Crash, Ends, Places
<1>6. ASSUME NEW s \in Slot, Release(s)
      PROVE  QInv'
  <2>1. pc' \in [Proc -> Places] /\ \A q \in Proc : Waiting(q)' => Waiting(q)
    BY <1>6 DEF Release, QInv, QTypes, Places, Waiting
  <2> QED BY <1>6, <2>1, QuietSafe DEF Release
<1>7. CASE Freemem
  BY <1>7 DEF Freemem, QInv, QTypes, NumbersUnique
<1>8. CASE Tick
  BY <1>8, QuietSafe DEF Tick, QInv, QTypes, Waiting
<1> QED BY <1>1, <1>2, <1>3, <1>4, <1>5, <1>6, <1>7, <1>8 DEF Next

(* findslot.c: while the daemon lives, the processes in the queue hold     *)
(* different numbers below status->count, in every game and with every way *)
(* of leaving; none sees count = 0, "message from daemon that it died".    *)
THEOREM QueueNumbers == Spec => []NumbersUnique
<1>1. Init => QInv
  BY DEF Init, QInv, QTypes, NumbersUnique, Waiting, Places
<1>2. QInv /\ [Next]_vars => QInv'
  BY QNext
<1>3. QInv => NumbersUnique
  BY DEF QInv
<1> QED BY <1>1, <1>2, <1>3, PTL DEF Spec
=============================================================================
