------------------------------- MODULE Startup -------------------------------
(***************************************************************************)
(* How a game comes up and goes away: shmem.c, main() and freemem() of     *)
(* daemonII.c, the end of checkwin() in conquer.c, main() of ntserv and of *)
(* listen, and the administrator's nuke and restart in message.c.          *)
(* The listener starts a process for each connection.  The process looks   *)
(* for the shared memory segment at the key and, when there is none,       *)
(* forks a daemon and sleeps for two seconds.  The daemon removes what is  *)
(* at the key, makes a new segment, marks it with its size and fills it.   *)
(* When a game ends its segment is removed, but processes that are still   *)
(* attached keep it.  A restart kills the daemon without giving it the     *)
(* time to remove the segment and starts another one to attach to it.      *)
(* The wait for a slot is in WaitQueue, a process's later life in          *)
(* SlotLife; pids are not used again here.                                 *)
(***************************************************************************)
EXTENDS Integers, Sequences, FiniteSets

CONSTANTS
  Ntserv,      \* processes of players
  Seats,       \* player slots of a segment
  NoOne,       \* a slot that is PFREE
  MaxSegs,     \* segments made at all: a bound
  MaxDaemons,  \* daemons forked at all: a bound
  Overlaps     \* what may fall together: "early", "late", "twice", "afterwards", "unborn"

VARIABLES
  shmkey,   \* the segment at the key, 0: none
  segs,     \* every segment ever made
  daemons,  \* every daemon ever forked
  nt        \* every process: where it is, the segment it is attached to

vars == <<shmkey, segs, daemons, nt>>

SegIds == 0..MaxSegs
Seg == [shmem_size : BOOLEAN, gameup : BOOLEAN, nukegame : 0..MaxDaemons,
        players : [Seats -> Ntserv \cup {NoOne}]]
Daemon == [at : {"forked", "created", "marked", "attached", "running", "closing", "gone"},
           attach : BOOLEAN, seg : SegIds]
Process == [at : {"none", "started", "sleeping", "found", "outfit", "chosen", "alive"}, seg : SegIds]

TypeOK ==
  /\ shmkey \in SegIds
  /\ segs \in Seq(Seg) /\ Len(segs) <= MaxSegs
  /\ daemons \in Seq(Daemon) /\ Len(daemons) <= MaxDaemons
  /\ nt \in [Ntserv -> Process]

Away == [at |-> "none", seg |-> 0]
Empty == [s \in Seats |-> NoOne]

Init == shmkey = 0 /\ segs = <<>> /\ daemons = <<>> /\ nt = [p \in Ntserv |-> Away]

Coming == {d \in DOMAIN daemons : daemons[d].at \in {"forked", "created", "marked", "attached"}}

-----------------------------------------------------------------------------
(* A process (openmem(1), findslot, getEntry, enter).                      *)

Forks(attach) ==
  /\ Len(daemons) < MaxDaemons
  /\ daemons' = Append(daemons, [at |-> "forked", attach |-> attach, seg |-> 0])

Attaches(p) ==
  /\ shmkey # 0 /\ segs[shmkey].shmem_size
  /\ nt' = [nt EXCEPT ![p] = [at |-> "found", seg |-> shmkey]]

(* The listener accepts a connection and forks a process for it.           *)
Connect(p) ==
  /\ nt[p].at = "none"
  /\ nt' = [nt EXCEPT ![p].at = "started"]
  /\ UNCHANGED <<shmkey, segs, daemons>>

(* openmem(1).  A segment that is not yet marked turns the process away    *)
(* ("magic number mismatch").                                              *)
OpenGame(p) ==
  /\ nt[p].at = "started"
  /\ Coming = {} \/ "early" \in Overlaps
  /\ \/ Attaches(p) /\ UNCHANGED daemons
     \/ /\ shmkey # 0 /\ ~segs[shmkey].shmem_size
        /\ nt' = [nt EXCEPT ![p] = Away] /\ UNCHANGED daemons
     \/ shmkey = 0 /\ Forks(FALSE) /\ nt' = [nt EXCEPT ![p].at = "sleeping"]
  /\ UNCHANGED <<shmkey, segs>>

(* Two seconds later, which is enough for the daemon unless it is "late".  *)
Wakes(p) ==
  /\ nt[p].at = "sleeping"
  /\ Coming = {} \/ "late" \in Overlaps
  /\ \/ Attaches(p)
     \/ shmkey = 0 /\ nt' = [nt EXCEPT ![p] = Away]
  /\ UNCHANGED <<shmkey, segs, daemons>>

FindSlot(p) ==
  /\ nt[p].at = "found"
  /\ \E s \in Seats :
       /\ segs[nt[p].seg].players[s] = NoOne
       /\ segs' = [segs EXCEPT ![nt[p].seg].players[s] = p]
  /\ nt' = [nt EXCEPT ![p].at = "outfit"]
  /\ UNCHANGED <<shmkey, daemons>>

(* A team can be chosen only while the game is up (getentry.c:90); enter() *)
(* then makes the player PALIVE without another look.                      *)
Choose(p) ==
  /\ nt[p].at = "outfit" /\ segs[nt[p].seg].gameup
  /\ nt' = [nt EXCEPT ![p].at = "chosen"]
  /\ UNCHANGED <<shmkey, segs, daemons>>

Enter(p) ==
  /\ nt[p].at = "chosen"
  /\ nt' = [nt EXCEPT ![p].at = "alive"]
  /\ UNCHANGED <<shmkey, segs, daemons>>

(* The connection ends: exitGame() frees the slot.                         *)
Leave(p) ==
  /\ nt[p].at \in {"found", "outfit", "chosen", "alive"}
  /\ nt' = [nt EXCEPT ![p] = Away]
  /\ segs' = [segs EXCEPT ![nt[p].seg].players =
                [s \in Seats |-> IF @[s] = p THEN NoOne ELSE @[s]]]
  /\ UNCHANGED <<shmkey, daemons>>

(* control restart: startdaemon(league, 1).  The pause between the kill    *)
(* and the fork is left out: the new daemon has one before it attaches.    *)
Restart(p) ==
  /\ nt[p].at \in {"outfit", "alive"}
  /\ nt[p].seg = shmkey \/ "afterwards" \in Overlaps
  /\ Coming = {} \/ "twice" \in Overlaps
  /\ Len(daemons) < MaxDaemons
  /\ LET n == segs[nt[p].seg].nukegame
     IN  daemons' = Append([d \in DOMAIN daemons |->
                              IF d = n THEN [daemons[d] EXCEPT !.at = "gone"] ELSE daemons[d]],
                           [at |-> "forked", attach |-> TRUE, seg |-> 0])
  /\ UNCHANGED <<shmkey, segs, nt>>

-----------------------------------------------------------------------------
(* A daemon (main, openmem(2) or, with -a, openmem(0)).                    *)

Is(d, at, seg) == daemons' = [daemons EXCEPT ![d].at = at, ![d].seg = seg]

OpenMem(d) ==
  /\ daemons[d].at = "forked" /\ ~daemons[d].attach
  /\ Len(segs) < MaxSegs
  /\ segs' = Append(segs, [shmem_size |-> FALSE, gameup |-> FALSE, nukegame |-> 0,
                           players |-> Empty])
  /\ shmkey' = Len(segs) + 1
  /\ Is(d, "created", Len(segs) + 1)
  /\ UNCHANGED nt

OpenOld(d) ==
  /\ daemons[d].at = "forked" /\ daemons[d].attach
  /\ IF shmkey # 0 /\ segs[shmkey].shmem_size
     THEN Is(d, "attached", shmkey)
     ELSE Is(d, "gone", 0)
  /\ UNCHANGED <<shmkey, segs, nt>>

Marks(d) ==
  /\ daemons[d].at = "created"
  /\ segs' = [segs EXCEPT ![daemons[d].seg].shmem_size = TRUE]
  /\ Is(d, "marked", daemons[d].seg)
  /\ UNCHANGED <<shmkey, nt>>

(* Mutant: the slots are freed by a daemon that attaches, too.             *)
ClearedAlways(d) == Empty

Cleared(d) == IF daemons[d].attach THEN segs[daemons[d].seg].players ELSE Empty

Starts(d) ==
  /\ daemons[d].at \in {"marked", "attached"}
  /\ segs' = [segs EXCEPT ![daemons[d].seg] =
                [@ EXCEPT !.gameup = TRUE, !.nukegame = d, !.players = Cleared(d)]]
  /\ Is(d, "running", daemons[d].seg)
  /\ UNCHANGED <<shmkey, nt>>

(* A signal, the administrator's nuke, the end of a tournament or of the   *)
(* galaxy: all players are put in the outfit.  A player who has chosen is  *)
(* in outfit already, and goes on.                                         *)
Freemem(d) ==
  /\ daemons[d].at = "running" \/ (daemons[d].at = "marked" /\ "unborn" \in Overlaps)
  /\ segs' = [segs EXCEPT ![daemons[d].seg].gameup = FALSE]
  /\ nt' = [p \in Ntserv |-> IF nt[p].at = "alive" /\ nt[p].seg = daemons[d].seg
                             THEN [nt[p] EXCEPT !.at = "outfit"] ELSE nt[p]]
  /\ Is(d, "closing", daemons[d].seg)
  /\ UNCHANGED shmkey

(* Two seconds later the segment, known by its id, is removed.             *)
BlastShmem(d) ==
  /\ daemons[d].at = "closing"
  /\ shmkey' = IF shmkey = daemons[d].seg THEN 0 ELSE shmkey
  /\ Is(d, "gone", daemons[d].seg)
  /\ UNCHANGED <<segs, nt>>

-----------------------------------------------------------------------------
Next ==
  \/ \E p \in Ntserv : \/ Connect(p) \/ OpenGame(p) \/ Wakes(p) \/ FindSlot(p) \/ Choose(p) \/ Enter(p)
                       \/ Leave(p) \/ Restart(p)
  \/ \E d \in DOMAIN daemons : \/ OpenMem(d) \/ OpenOld(d) \/ Marks(d) \/ Starts(d)
                               \/ Freemem(d) \/ BlastShmem(d)

Spec == Init /\ [][Next]_vars

-----------------------------------------------------------------------------
Ruling(g) == {d \in DOMAIN daemons : daemons[d].seg = g /\ daemons[d].at = "running"}

(* The game at the key has a daemon, or will have one or be removed, and   *)
(* never two.                                                              *)
GameServed ==
  shmkey # 0 =>
    /\ Cardinality(Ruling(shmkey)) <= 1
    /\ \/ Coming # {}
       \/ \E d \in DOMAIN daemons : daemons[d].seg = shmkey /\ daemons[d].at \in {"running", "closing"}

(* Who has been given a slot has it until he leaves.                       *)
SlotsKept ==
  \A p \in Ntserv : nt[p].at \in {"outfit", "chosen", "alive"} =>
    \E s \in Seats : segs[nt[p].seg].players[s] = p

(* All who play are in the game that the next one to come finds            *)
(* ("There can be only one", shmem.c:161).                                 *)
OneGame ==
  \A p \in Ntserv : nt[p].at = "alive" /\ segs[nt[p].seg].gameup => nt[p].seg = shmkey

StartSound == GameServed /\ SlotsKept /\ OneGame
=============================================================================
