------------------------------ MODULE WaitQueue ------------------------------
(***************************************************************************)
(* ntserv/findslot.c: how the ntserv processes of clients that find the    *)
(* game full wait for a player slot.  There is no queue manager and no     *)
(* lock: every process takes a number from struct status and from then on  *)
(* looks at the shared fields once a second.                               *)
(*                                                                         *)
(* One Wake is one turn of grabslot()'s loop, from one sleep to the next,  *)
(* taken as one step.  All processes sleep by the same clock: between two  *)
(* Ticks every process that is due wakes once, in any order.               *)
(***************************************************************************)
EXTENDS Integers, FiniteSets

CONSTANTS
  Proc,         \* processes that come for a slot, each of them once
  MAXPLAYER,    \* number of slots
  ntesters,     \* configvals->ntesters: the last slots, kept for testers
  Testers,      \* processes with overload: they want a tester's slot
  league,       \* status2->league # 0
  Side,         \* homeaway of each process
  Departures,   \* how a waiting process may end: see Ways
  Shutdown,     \* whether the daemon may end
  ReqTurns,     \* turns a request is left to be answered (4)
  StaleTurns,   \* sightings after which a request counts as obsolete (8)
  PatientTurns, \* turns a free slot is left to whoever is being served (5)
  LongQueue     \* a process with more waiters in front leaves (18)

Sides == {"home", "away"}

Ways ==
  {"quit",    \* its client hangs up while it waits in line
   "served",  \* its client hangs up while it announces that it leaves
   "crash"}   \* "processes may die, and not report it": findslot.c:112

ASSUME QueueAssumption ==
  /\ MAXPLAYER \in Nat \ {0}
  /\ ntesters \in 0 .. MAXPLAYER
  /\ Testers \subseteq Proc
  /\ league \in BOOLEAN /\ Shutdown \in BOOLEAN
  /\ Departures \subseteq Ways
  /\ Side \in [Proc -> Sides]
  /\ {ReqTurns, StaleTurns, PatientTurns, LongQueue} \subseteq Nat \ {0}

VARIABLES
  daemonUp, \* the daemon has not shut the game down
  wait,     \* status->wait: number being served
  count,    \* status->count: next number to take
  req,      \* status->request, status->number, status->answer
  players,  \* p_status and p_homeaway of every slot
  pc,       \* where each process is: see Places
  num,      \* its own number (the local variable count)
  me,       \* its other local variables
  nap       \* Ticks until it wakes; 0 when it is due

vars == <<daemonUp, wait, count, req, players, pc, num, me, nap>>

Slot == 0 .. MAXPLAYER - 1

(* Before grabslot; asleep at the top of the loop, after lowering wait or  *)
(* after claiming it; in the game with slot wearein; ended.                *)
Places == {"outside", "top", "corrected", "claimed", "playing", "ended"}
Waiting(p) == pc[p] \in {"top", "corrected", "claimed"}

Requests == [request : {"REQFREE", "REQWHO", "REQDEAD"}, number : Nat, answer : Nat]
NoRequest == [request |-> "REQFREE", number |-> 0, answer |-> 0]

Fresh == [pseudocount |-> -1, myRequest |-> 0, lastRequest |-> "REQFREE", lastNumber |-> 0,
          reqCount |-> 0, idie |-> FALSE, wearein |-> -1, waits |-> 0, oldwait |-> -1]

(* The game is full when the first process comes, and in a league the two  *)
(* sides have their shares.                                                *)
HeldBy(f, side) == {s \in Slot : f[s].p_status # "PFREE" /\ f[s].p_homeaway = side}

FullGames ==
  {f \in [Slot -> [p_status : {"POUTFIT"}, p_homeaway : Sides]] :
     IF league THEN \A side \in Sides : 2 * Cardinality(HeldBy(f, side)) <= MAXPLAYER - ntesters
     ELSE HeldBy(f, "away") = {}}

Init ==
  /\ daemonUp = TRUE
  /\ wait = 0 /\ count = 0
  /\ req = NoRequest
  /\ players \in FullGames
  /\ pc = [p \in Proc |-> "outside"]
  /\ num = [p \in Proc |-> 0]
  /\ me = [p \in Proc |-> Fresh]
  /\ nap = [p \in Proc |-> 0]

-----------------------------------------------------------------------------
(* allocate_slot: the slot process p would get, -1 for none.  In a league  *)
(* neither side gets more than half of the slots.                          *)
FreeSlots(S) == {s \in S : players[s].p_status = "PFREE"}

TeamIsFull(side) == 2 * Cardinality(HeldBy(players, side)) >= MAXPLAYER - ntesters

SlotFor(p) ==
  LET open == FreeSlots(IF p \in Testers THEN Slot ELSE 0 .. MAXPLAYER - ntesters - 1)
  IN IF open = {} \/ (p \notin Testers /\ league /\ TeamIsFull(Side[p])) THEN -1
     ELSE IF p \in Testers THEN CHOOSE s \in open : \A t \in open : t <= s
     ELSE CHOOSE s \in open : \A t \in open : s <= t

(* A mutant of Allocated: the slot still looks free.                       *)
NotAllocated(s) == players

(* allocate_slot with allocate = 1.  p_homeaway still names the side of the*)
(* slot's last player, until main() runs.                                  *)
Allocated(s) == [players EXCEPT ![s].p_status = "POUTFIT"]

(* main(), once findslot has returned slot s: the slot is on p's side.     *)
TakesSide(f, p, s) == [f EXCEPT ![s].p_homeaway = Side[p]]

-----------------------------------------------------------------------------
(* Where p goes next, with which local variables, and for how long it      *)
(* sleeps there; its local variables end with grabslot.                    *)
Goes(p, place, m, ticks) ==
  /\ pc' = [pc EXCEPT ![p] = place]
  /\ me' = [me EXCEPT ![p] = m]
  /\ nap' = [nap EXCEPT ![p] = ticks]

Returns(p, s) == Goes(p, "playing", [Fresh EXCEPT !.wearein = s], 0)
Ends(p) == Goes(p, "ended", Fresh, 0)

(* A mutant of EnterDirectly: it does not look whether others wait.        *)
EnterAhead(p) ==
  /\ pc[p] = "outside"
  /\ SlotFor(p) # -1
  /\ players' = TakesSide(Allocated(SlotFor(p)), p, SlotFor(p))
  /\ Returns(p, SlotFor(p))
  /\ UNCHANGED <<daemonUp, wait, count, req, num>>

(* grabslot up to its loop.  Nobody waits if wait = count.                 *)
EnterDirectly(p) ==
  /\ pc[p] = "outside"
  /\ p \in Testers \/ wait = count
  /\ SlotFor(p) # -1
  /\ players' = TakesSide(Allocated(SlotFor(p)), p, SlotFor(p))
  /\ Returns(p, SlotFor(p))
  /\ UNCHANGED <<daemonUp, wait, count, req, num>>

(* count - status->wait is unsigned, so it is below 1 only when it is 0.   *)
TakeNumber(p) ==
  /\ pc[p] = "outside"
  /\ (p \in Testers \/ wait = count) => SlotFor(p) = -1
  /\ num' = [num EXCEPT ![p] = count]
  /\ count' = count + 1
  /\ Goes(p, "top", [Fresh EXCEPT !.pseudocount = IF count = wait THEN 0 ELSE -1], 1)
  /\ UNCHANGED <<daemonUp, wait, req, players>>

-----------------------------------------------------------------------------
(* One turn of the loop: r and m are req and me[p] as they change.  First, *)
(* the request p has made is completed ...                                 *)
Completes(m) == m.myRequest = 1
LeavesNow(r, m) == Completes(m) /\ m.idie /\ r.request = "REQDEAD"

Completed(r, m) ==
  IF Completes(m) THEN [m EXCEPT !.myRequest = 0, !.pseudocount = r.answer,
                                 !.idie = @ \/ r.answer > LongQueue]
  ELSE [m EXCEPT !.myRequest = IF @ = 0 THEN 0 ELSE @ - 1]
CompletedReq(r, m) == IF Completes(m) THEN [r EXCEPT !.request = "REQFREE"] ELSE r

(* ... then p may make one: REQDEAD to leave, REQWHO to learn its place ... *)
Asks(r, m) == r.request = "REQFREE" /\ (m.idie \/ m.pseudocount = -1)
Asked(r, m) == IF Asks(r, m) THEN [m EXCEPT !.myRequest = ReqTurns] ELSE m
AskedReq(r, m, n) ==
  IF ~Asks(r, m) THEN r
  ELSE IF m.idie THEN [r EXCEPT !.request = "REQDEAD", !.number = n]
  ELSE [request |-> "REQWHO", number |-> n, answer |-> 0]

(* ... and otherwise notices the request of another process.  reqCount is  *)
(* only compared with StaleTurns and stops growing beyond it.              *)
Notices(r, m) == r.request # "REQFREE" /\ m.myRequest = 0
SeenBefore(r, m) == r.request = m.lastRequest /\ r.number = m.lastNumber
Noticed(r, m, n) ==
  IF ~Notices(r, m) THEN m
  ELSE IF SeenBefore(r, m) THEN [m EXCEPT !.reqCount = IF @ > StaleTurns THEN @ ELSE @ + 1]
  ELSE [m EXCEPT !.lastRequest = r.request, !.lastNumber = r.number, !.reqCount = 1,
                 !.pseudocount = IF r.request = "REQDEAD" /\ n > r.number /\ @ # -1 THEN @ - 1
                                 ELSE @]
NoticedReq(r, m, n) ==
  IF ~Notices(r, m) THEN r
  ELSE IF SeenBefore(r, m)
  THEN IF m.reqCount + 1 > StaleTurns THEN [r EXCEPT !.request = "REQFREE"] ELSE r
  ELSE IF r.request = "REQWHO" /\ n < r.number THEN [r EXCEPT !.answer = @ + 1]
  ELSE r

(* req and me[p] after all three.                                          *)
TurnMe(p) ==
  LET m1 == Completed(req, me[p])
      r1 == CompletedReq(req, me[p])
      m2 == Asked(r1, m1)
      r2 == AskedReq(r1, m1, num[p])
  IN Noticed(r2, m2, num[p])
TurnReq(p) ==
  LET m1 == Completed(req, me[p])
      r1 == CompletedReq(req, me[p])
      m2 == Asked(r1, m1)
      r2 == AskedReq(r1, m1, num[p])
  IN NoticedReq(r2, m2, num[p])

(* Mutants of LoopTop: any number is given back as if it were the last one *)
(* taken; a number being served is withdrawn by serving the one before it. *)
LoopTopAnyNumber(p, m, w) ==
  \/ Goes(p, "top", m, 1) /\ wait' = w /\ count' = count
  \/ /\ (IF m.idie THEN "served" ELSE "quit") \in Departures
     /\ Ends(p) /\ count' = count - 1 /\ wait' = w
LoopTopDecrease(p, m, w) ==
  \/ Goes(p, "top", m, 1) /\ wait' = w /\ count' = count
  \/ /\ (IF m.idie THEN "served" ELSE "quit") \in Departures
     /\ Ends(p)
     /\ count' = IF num[p] = count - 1 THEN count - 1 ELSE count
     /\ wait' = IF num[p] # count - 1 /\ num[p] = w THEN w - 1 ELSE w

(* The top of the loop, with local variables m: go on, or exit because the *)
(* client has hung up, and then withdraw the number if it is the last one  *)
(* taken or the one being served.                                          *)
LoopTop(p, m, w) ==
  \/ /\ Goes(p, "top", m, 1)
     /\ wait' = w /\ count' = count
  \/ /\ (IF m.idie THEN "served" ELSE "quit") \in Departures
     /\ Ends(p)
     /\ count' = IF num[p] = count - 1 THEN count - 1 ELSE count
     /\ wait' = IF num[p] # count - 1 /\ num[p] = w THEN w + 1 ELSE w

(* The rest of a turn, with local variables m: serve itself if its number  *)
(* is up, else see whether a free slot is left unused for too long.        *)
Idle(p, m) ==
  /\ m.idie \/ SlotFor(p) = -1
  /\ LoopTop(p, m, wait)
  /\ UNCHANGED players

TakeSlot(p, m) ==
  /\ ~m.idie /\ num[p] = wait /\ SlotFor(p) # -1
  /\ players' = Allocated(SlotFor(p))
  /\ LoopTop(p, [m EXCEPT !.wearein = SlotFor(p), !.idie = TRUE], wait + 1)

TurnsNotCounted(m) == 1   \* mutant
Turns(m) == IF m.oldwait = wait THEN m.waits + 1 ELSE 1

BePatient(p, m) ==
  /\ ~m.idie /\ num[p] # wait /\ SlotFor(p) # -1
  /\ Turns(m) # PatientTurns
  /\ LoopTop(p, [m EXCEPT !.waits = Turns(m), !.oldwait = wait], wait)
  /\ UNCHANGED players

ClaimNext(p, m) ==
  /\ ~m.idie /\ num[p] # wait /\ SlotFor(p) # -1
  /\ Turns(m) = PatientTurns
  /\ wait' = num[p]
  /\ Goes(p, "claimed", [m EXCEPT !.waits = 0, !.oldwait = wait], 2)
  /\ UNCHANGED <<count, players>>

RestOfTurn(p, m) == Idle(p, m) \/ TakeSlot(p, m) \/ BePatient(p, m) \/ ClaimNext(p, m)

(* A turn of a process that is due.                                        *)
Due(p, place) == pc[p] = place /\ nap[p] = 0

(* "Message from daemon that it died"                                      *)
DaemonDied(p) ==
  /\ Due(p, "top") /\ count = 0
  /\ Ends(p)
  /\ UNCHANGED <<daemonUp, wait, count, req, players, num>>

LeaveQueue(p) ==
  /\ Due(p, "top") /\ count # 0 /\ LeavesNow(req, me[p])
  /\ req' = [req EXCEPT !.request = "REQFREE"]
  /\ IF me[p].wearein = -1
     THEN Ends(p) /\ UNCHANGED players
     ELSE Returns(p, me[p].wearein) /\ players' = TakesSide(players, p, me[p].wearein)
  /\ UNCHANGED <<daemonUp, wait, count, num>>

(* "If someone raised wait too high"                                       *)
TooHigh(p, m) == wait > num[p] /\ ~m.idie

CorrectWait(p, m) ==
  /\ wait' = num[p]
  /\ Goes(p, "corrected", m, 2)
  /\ UNCHANGED <<count, players>>

Turn(p) ==
  /\ Due(p, "top") /\ count # 0 /\ ~LeavesNow(req, me[p])
  /\ req' = TurnReq(p)
  /\ IF TooHigh(p, TurnMe(p)) THEN CorrectWait(p, TurnMe(p)) ELSE RestOfTurn(p, TurnMe(p))
  /\ UNCHANGED <<daemonUp, num>>

AfterCorrecting(p) ==
  /\ Due(p, "corrected")
  /\ RestOfTurn(p, me[p])
  /\ UNCHANGED <<daemonUp, req, num>>

AfterClaiming(p) ==
  /\ Due(p, "claimed")
  /\ LoopTop(p, me[p], wait)
  /\ UNCHANGED <<daemonUp, req, players, num>>

Wake(p) == DaemonDied(p) \/ LeaveQueue(p) \/ Turn(p) \/ AfterCorrecting(p) \/ AfterClaiming(p)

-----------------------------------------------------------------------------
(* A waiting process is killed.                                            *)
Crash(p) ==
  /\ "crash" \in Departures /\ Waiting(p)
  /\ Ends(p)
  /\ UNCHANGED <<daemonUp, wait, count, req, players, num>>

(* A player leaves the game, or the daemon frees the slot of one that is   *)
(* no longer there.                                                        *)
InGameAt(p, s) == pc[p] = "playing" /\ me[p].wearein = s
Release(s) ==
  /\ players[s].p_status # "PFREE"
  /\ \A p \in Proc : Waiting(p) => me[p].wearein # s
  /\ players' = [players EXCEPT ![s].p_status = "PFREE"]
  /\ pc' = [p \in Proc |-> IF InGameAt(p, s) THEN "ended" ELSE pc[p]]
  /\ me' = [p \in Proc |-> IF InGameAt(p, s) THEN Fresh ELSE me[p]]
  /\ UNCHANGED <<daemonUp, wait, count, req, num, nap>>

(* daemonII.c: freemem.  Processes that are attached live on.              *)
Freemem ==
  /\ Shutdown /\ daemonUp
  /\ daemonUp' = FALSE
  /\ players' = [s \in Slot |-> [players[s] EXCEPT !.p_status = "POUTFIT"]]
  /\ count' = 0
  /\ UNCHANGED <<wait, req, pc, num, me, nap>>

(* A second passes once every process that was due has had its turn.       *)
Tick ==
  /\ \A p \in Proc : Waiting(p) => nap[p] > 0
  /\ nap' = [p \in Proc |-> IF Waiting(p) THEN nap[p] - 1 ELSE 0]
  /\ UNCHANGED <<daemonUp, wait, count, req, players, pc, num, me>>

Next ==
  \/ \E p \in Proc : EnterDirectly(p) \/ TakeNumber(p) \/ Wake(p) \/ Crash(p)
  \/ \E s \in Slot : Release(s)
  \/ Freemem
  \/ Tick

Spec == Init /\ [][Next]_vars

(* Sleeping processes wake: sleep() returns and the kernel schedules them. *)
FairSpec == Spec /\ WF_vars(Tick) /\ \A p \in Proc : WF_vars(Wake(p))
-----------------------------------------------------------------------------
TypeOK ==
  /\ daemonUp \in BOOLEAN
  /\ wait \in Nat /\ count \in Nat
  /\ req \in Requests
  /\ players \in [Slot -> [p_status : {"PFREE", "POUTFIT"}, p_homeaway : Sides]]
  /\ pc \in [Proc -> Places]
  /\ num \in [Proc -> Nat]
  /\ nap \in [Proc -> 0 .. 2]
  /\ \A p \in Proc : me[p].wearein \in Slot \union {-1}

(* While the daemon lives the waiting processes have different numbers,    *)
(* all below the next number to take, although numbers are given back: so  *)
(* none of them mistakes count = 0 for the daemon's message that it died.  *)
NumbersUnique ==
  daemonUp =>
    \A p, q \in {r \in Proc : Waiting(r)} :
      num[p] < count /\ (p # q => num[p] # num[q])

(* No slot is given to two processes, nor to one while somebody is in it.  *)
SlotsHeldOnce ==
  \A p, q \in {r \in Proc : Waiting(r) /\ me[r].wearein # -1} :
    /\ players[me[p].wearein].p_status # "PFREE"
    /\ p # q => me[p].wearein # me[q].wearein

(* "only one process can make a request at any one time": findslot.c:106.  *)
OneRequest ==
  \A p, q \in {r \in Proc : Waiting(r) /\ me[r].myRequest > 0} : p = q

(* Who waits for a slot, in the queue and not yet served.                  *)
InLine(p) == Waiting(p) /\ ~me[p].idie

(* "the process with the lowest count will be served" (findslot.c:124):    *)
(* nobody is given a slot while a process with a lower number waits for    *)
(* it, and a newcomer gets in line behind those who wait (findslot.c:189). *)
LowestServed ==
  [][\A p \in Proc \ Testers : daemonUp /\ me[p].wearein = -1 /\ me'[p].wearein # -1 =>
       \A q \in Proc \ {p} : ~(InLine(q) /\ (Waiting(p) => num[q] < num[p]))]_vars

(* A slot that a waiting process could take does not stay open for ever.   *)
OpenSlotTaken ==
  \A p \in Proc : []<>~(InLine(p) /\ SlotFor(p) # -1)

(* "Kill waiting players" (daemonII.c:129): once the daemon has ended they *)
(* end too.                                                                *)
WaitersEnd ==
  \A p \in Proc : (~daemonUp /\ Waiting(p)) ~> ~Waiting(p)
=============================================================================
