------------------------------ MODULE SlotLife ------------------------------
(***************************************************************************)
(* The life of a player slot: p_status with its two timers, counted by the *)
(* daemon's udplayers() once a round, and the ntserv processes that hold   *)
(* the slot.  Nothing but p_status tells a process that it still has its   *)
(* slot; p_ntspid is written and never compared.                           *)
(*                                                                         *)
(* Time passes in Rounds.  Between two Rounds every process takes at least *)
(* one Turn of the loop it is in, in any order: the loops wake every few   *)
(* seconds or earlier, the daemon's timers run for half a minute or more.  *)
(***************************************************************************)
EXTENDS Integers, FiniteSets

CONSTANTS
  Proc,        \* ntserv processes, each of them started once
  MAXPLAYER,   \* number of slots
  GHOSTTIME,   \* rounds that a player in the game may be silent (300)
  OUTFITTIME,  \* rounds that a slot may be in the outfit screen (3600)
  ExplodeTime, \* rounds an explosion takes (10 to 20)
  DeadTime,    \* rounds a slot stays PDEAD (600)
  Tries,       \* attempts to reach a client again, one a turn (24)
  league,      \* status2->league # 0, in tournament mode
  Events       \* what may happen besides: see Happenings

Happenings ==
  {"crash",    \* a process is killed
   "die",      \* "control player n die", on a slot in any status
   "endgame",  \* a league game ends and sends everybody to the outfit screen
   "freeslot", \* "control freeslot n", "league freeslot n"
   "idle",     \* a player stays in the outfit screen for OUTFITTIME
   "slow",     \* a player takes as long to get out of the queue and to log in
   "ping",     \* a player is ghostbusted for not answering pings
   "retake"}   \* a slot is taken before the next round has seen it free

ASSUME SlotAssumption ==
  /\ MAXPLAYER \in Nat \ {0}
  /\ {GHOSTTIME, OUTFITTIME, ExplodeTime, DeadTime, Tries} \subseteq Nat \ {0}
  /\ 1 < GHOSTTIME /\ GHOSTTIME < OUTFITTIME
  /\ league \in BOOLEAN
  /\ Events \subseteq Happenings

VARIABLES
  players,  \* p_status, p_ghostbuster and p_explode of every slot
  p_ntspid, \* "proc ID of ntserv in control of this slot", 0 for none
  pc,       \* where each process is: see Places
  me,       \* the slot of each process
  client,   \* whether the process reads from its client
  tries,    \* how often it has tried to reach it again
  ran,      \* the processes that have had their Turn in this round
  hup,      \* the processes that have been sent SIGHUP
  seen      \* the slots that the last round has seen free, and nobody took

vars == <<players, p_ntspid, pc, me, client, tries, ran, hup, seen>>

Slot == 0 .. MAXPLAYER - 1

Statuses == {"PFREE", "POUTFIT", "PALIVE", "PEXPLODE", "PDEAD", "POBSERVE", "PTQUEUE"}

(* findslot has returned; getname(); getEntry() and its loop for a client  *)
(* that went away; input() and reconnect().                                *)
Attached == {"login", "outfit", "outfitLost", "input", "inputLost"}
Places == {"outside", "given", "ended"} \union Attached
Holds(p) == pc[p] \in Attached \union {"given"}

(* "gone": the client has said that it will not come back.                 *)
Clients == {"up", "down", "gone"}

(* p_ghostbuster is set to 100000 and counted on from there; every value   *)
(* above OUTFITTIME is as good as any other.                               *)
Busted == OUTFITTIME + 1
Later(ghost) == IF ghost = Busted THEN Busted ELSE ghost + 1

Init ==
  /\ players = [s \in Slot |-> [p_status |-> "PFREE", p_ghostbuster |-> 0, p_explode |-> 0]]
  /\ p_ntspid = [s \in Slot |-> 0]
  /\ pc = [p \in Proc |-> "outside"]
  /\ me = [p \in Proc |-> 0]
  /\ client = [p \in Proc |-> "up"]
  /\ tries = [p \in Proc |-> 0]
  /\ ran = {} /\ hup = {}
  /\ seen = Slot

-----------------------------------------------------------------------------
(* daemon/player.c: udplayers, for a slot with fields x.  A timer at 0 is  *)
(* not told apart from one below.                                          *)
CountedNotQueued(x) ==   \* mutant
  IF x.p_status = "PTQUEUE" THEN x ELSE [x EXCEPT !.p_ghostbuster = Later(@)]
Counted(x) == [x EXCEPT !.p_ghostbuster = Later(@)]
Limit(x) == IF x.p_status = "POUTFIT" THEN OUTFITTIME ELSE GHOSTTIME
Burnt(x) == [x EXCEPT !.p_explode = IF @ > 0 THEN @ - 1 ELSE 0]

Ghostbusted(x) ==
  IF Counted(x).p_ghostbuster <= Limit(x) THEN Counted(x)
  ELSE IF x.p_status = "PALIVE"
  THEN [Counted(x) EXCEPT !.p_status = "PEXPLODE", !.p_explode = ExplodeTime]
  ELSE [Counted(x) EXCEPT !.p_status = "PFREE"]

BustedForEver(x) ==   \* mutant: the counter of a free slot is left alone
  IF x.p_status \in {"PFREE", "PDEAD", "PEXPLODE"} THEN x ELSE Ghostbusted(x)
UdPlayer(x) ==
  CASE x.p_status = "PFREE" -> [x EXCEPT !.p_ghostbuster = 0]
    [] x.p_status = "PDEAD" ->
         IF Burnt(x).p_explode = 0 THEN [Burnt(x) EXCEPT !.p_status = "POUTFIT"] ELSE Burnt(x)
    [] x.p_status = "PEXPLODE" ->
         IF Burnt(x).p_explode = 0
         THEN [x EXCEPT !.p_status = "PDEAD", !.p_explode = DeadTime] ELSE Burnt(x)
    [] OTHER -> Ghostbusted(x)

(* In a league observers who want to play are let in when a team is short. *)
LetIn(f, S) == [s \in Slot |-> IF s \in S THEN [f[s] EXCEPT !.p_status = "POUTFIT"] ELSE f[s]]

(* The players that would be ghostbusted for want of a choice; not those   *)
(* that have come since the last round.                                    *)
Choosing(p) ==
  \/ pc[p] = "outfit" /\ "idle" \notin Events
  \/ pc[p] = "login" /\ "slow" \notin Events
  \/ pc[p] = "given" /\ "slow" \notin Events /\ p \notin ran
InTime ==
  \A p \in Proc : Choosing(p) => UdPlayer(players[me[p]]).p_status # "PFREE"

Round ==
  /\ \A p \in Proc : pc[p] \in Attached => p \in ran
  /\ InTime
  /\ \E S \in SUBSET {s \in Slot : league /\ UdPlayer(players[s]).p_status = "POBSERVE"} :
       players' = LetIn([s \in Slot |-> UdPlayer(players[s])], S)
  /\ ran' = {}
  /\ seen' = {s \in Slot : players[s].p_status = "PFREE"}
  /\ UNCHANGED <<p_ntspid, pc, me, client, tries, hup>>

-----------------------------------------------------------------------------
SetSlot(p, x) == players' = [players EXCEPT ![me[p]] = x]
Status(x, st) == [x EXCEPT !.p_status = st]
Goes(p, place) == pc' = [pc EXCEPT ![p] = place]

(* exitGame and atexitfunc: the slot is p's, whoever else may hold it.     *)
Exits(p, x) ==
  /\ SetSlot(p, Status(x, "PFREE"))
  /\ p_ntspid' = [p_ntspid EXCEPT ![me[p]] = 0]
  /\ Goes(p, "ended")
  /\ UNCHANGED <<client, tries>>

Stays(p, place, x) ==
  /\ SetSlot(p, x) /\ Goes(p, place)
  /\ UNCHANGED <<p_ntspid, client, tries>>

(* findslot.c: allocate_slot; WaitQueue says which slot and who is first.  *)
FindSlotUnreserved(p) ==   \* mutant: leaves it to main() to set p_status
  /\ pc[p] = "outside"
  /\ \E s \in Slot :
       /\ players[s].p_status = "PFREE"
       /\ s \in seen
       /\ seen' = seen \ {s}
       /\ me' = [me EXCEPT ![p] = s]
  /\ Goes(p, "given")
  /\ ran' = ran \union {p}
  /\ UNCHANGED <<players, p_ntspid, client, tries, hup>>
FindSlot(p) ==
  /\ pc[p] = "outside"
  /\ \E s \in Slot :
       /\ players[s].p_status = "PFREE"
       /\ s \in seen \/ "retake" \in Events
       /\ seen' = seen \ {s}
       /\ players' = [players EXCEPT ![s].p_status = "POUTFIT"]
       /\ me' = [me EXCEPT ![p] = s]
  /\ Goes(p, "given")
  /\ ran' = ran \union {p}
  /\ UNCHANGED <<p_ntspid, client, tries, hup>>

(* main(), up to getname().                                                *)
Attach(p) ==
  /\ pc[p] = "given"
  /\ p_ntspid' = [p_ntspid EXCEPT ![me[p]] = p]
  /\ Goes(p, "login")
  /\ ran' = ran \union {p}
  /\ UNCHANGED <<players, me, client, tries, hup, seen>>

(* handleLogin; when it is done main() sets the slot to POUTFIT, without a *)
(* look at what it was.                                                    *)
LoginTurn(p, x) ==
  \/ x.p_status = "PFREE" /\ Exits(p, x)
  \/ /\ x.p_status # "PFREE"
     /\ \/ client[p] # "up" /\ Exits(p, x)
        \/ client[p] = "up" /\ (Stays(p, "login", x) \/ Stays(p, "outfit", Status(x, "POUTFIT")))

(* getEntry, from one socketPause to the next.  PTQUEUE does not time out, *)
(* and "Have we been busted?" takes a free slot back.                      *)
Waits(x) ==
  {IF y.p_status = "PFREE" THEN [y EXCEPT !.p_status = "PDEAD", !.p_explode = DeadTime] ELSE y :
     y \in IF x.p_status # "PTQUEUE" THEN {x}
           ELSE {[x EXCEPT !.p_ghostbuster = 0, !.p_status = st] : st \in {"PTQUEUE", "POUTFIT"}}}

(* What getEntry does to the slot while it tries to reach its client.      *)
RevivedDeadOnly(x) ==   \* mutant: forgets the players who wait
  CASE x.p_status = "PFREE" -> [x EXCEPT !.p_status = "PDEAD", !.p_explode = DeadTime]
    [] x.p_status = "PDEAD" -> [x EXCEPT !.p_explode = DeadTime]
    [] OTHER -> [x EXCEPT !.p_explode = DeadTime]
Revived(x) ==
  CASE x.p_status = "PFREE" -> [x EXCEPT !.p_status = "PDEAD", !.p_explode = DeadTime]
    [] x.p_status = "PDEAD" -> [x EXCEPT !.p_explode = DeadTime]
    [] x.p_status \in {"PALIVE", "POBSERVE"} -> [x EXCEPT !.p_ghostbuster = 0]
    [] OTHER -> [x EXCEPT !.p_explode = DeadTime, !.p_ghostbuster = 0]

GivenUp(x) == IF x.p_status \in {"PFREE", "PDEAD"} THEN x ELSE [x EXCEPT !.p_ghostbuster = Busted]

(* Until enter() and main() have put the player into the game.             *)
OutfitTurn(p, x) ==
  \/ client[p] = "gone" /\ Exits(p, x)
  \/ client[p] = "down" /\ Stays(p, "outfitLost", Revived(x))
  \/ /\ client[p] = "up"
     /\ \/ \E y \in Waits(x) : Stays(p, "outfit", y)
        \/ \E st \in {"PALIVE", "POBSERVE"} :
             Stays(p, "input", [x EXCEPT !.p_status = st, !.p_ghostbuster = 0])

(* connectToClient succeeds, and all is sent again.                        *)
Reconnects(p, place, x) ==
  /\ SetSlot(p, x) /\ Goes(p, place)
  /\ client' = [client EXCEPT ![p] = "up"]
  /\ tries' = [tries EXCEPT ![p] = 0]
  /\ UNCHANGED p_ntspid

TriesForEver(p, x) ==   \* mutant
  /\ SetSlot(p, x)
  /\ UNCHANGED <<p_ntspid, pc, client, tries>>
TriesTooOften(p, x) ==   \* mutant
  /\ tries' = [tries EXCEPT ![p] = @ + 1]
  /\ SetSlot(p, x)
  /\ UNCHANGED <<p_ntspid, pc, client>>
TriesAgain(p, x) ==
  /\ tries[p] + 1 < Tries
  /\ tries' = [tries EXCEPT ![p] = @ + 1]
  /\ SetSlot(p, x)
  /\ UNCHANGED <<p_ntspid, pc, client>>
LastTry(p) == tries[p] + 1 = Tries

OutfitLostTurn(p, x) ==
  \/ \E y \in Waits(x) : Reconnects(p, "outfit", y)
  \/ TriesAgain(p, Revived(x))
  \/ LastTry(p) /\ Exits(p, GivenUp(x))

(* input, from one select to the next.  intrupt() runs if the timer has    *)
(* expired; it takes a free slot back, and death() waits until the         *)
(* player's torpedoes are gone.                                            *)
Interrupted(x) ==
  LET y == IF x.p_status = "PFREE" THEN [x EXCEPT !.p_status = "PDEAD", !.p_ghostbuster = 0] ELSE x
  IN IF y.p_status \in {"PDEAD", "POUTFIT"} THEN {y, Status(y, "POUTFIT")} ELSE {y}

(* "Keep self from being nuked...", or be nuked for the client's silence.  *)
Spared(x) ==
  {[x EXCEPT !.p_ghostbuster = 0]} \union
  IF "ping" \in Events /\ x.p_status \in {"PALIVE", "POBSERVE"}
  THEN {[x EXCEPT !.p_ghostbuster = Busted]} ELSE {}

InInput == {"PALIVE", "PEXPLODE", "PDEAD", "POBSERVE"}

InputTurn(p, x) ==
  \E y \in {x} \union Interrupted(x) : \E z \in Spared(y) :
    \/ z.p_status = "PFREE" /\ Exits(p, z)
    \/ z.p_status \in {"POUTFIT", "PTQUEUE"} /\ Stays(p, "outfit", z)
    \/ /\ z.p_status \in InInput
       /\ \/ client[p] = "up" /\ Stays(p, "input", z)
          \/ client[p] = "down" /\ Stays(p, "inputLost", [z EXCEPT !.p_ghostbuster = 0])
          \/ client[p] = "gone" /\ Exits(p, z)

InputLostTurn(p, x) ==
  \/ Reconnects(p, "input", x)
  \/ TriesAgain(p, [x EXCEPT !.p_ghostbuster = 0])
  \/ LastTry(p) /\ Exits(p, x)

Turn(p) ==
  /\ \/ pc[p] = "login" /\ LoginTurn(p, players[me[p]])
     \/ pc[p] = "outfit" /\ OutfitTurn(p, players[me[p]])
     \/ pc[p] = "outfitLost" /\ OutfitLostTurn(p, players[me[p]])
     \/ pc[p] = "input" /\ InputTurn(p, players[me[p]])
     \/ pc[p] = "inputLost" /\ InputLostTurn(p, players[me[p]])
  /\ ran' = ran \union {p}
  /\ UNCHANGED <<me, hup, seen>>

-----------------------------------------------------------------------------
(* The client's connection breaks, or it says goodbye first (CP_BYE).      *)
HangUp(p) ==
  /\ Holds(p) /\ client[p] = "up"
  /\ \E c \in {"down", "gone"} : client' = [client EXCEPT ![p] = c]
  /\ UNCHANGED <<players, p_ntspid, pc, me, tries, ran, hup, seen>>

(* A process is killed, or fails where atexitfunc is not reached.          *)
Crash(p) ==
  /\ "crash" \in Events /\ Holds(p)
  /\ Goes(p, "ended")
  /\ UNCHANGED <<players, p_ntspid, me, client, tries, ran, hup, seen>>

Becomes(s, old, x) ==
  /\ players[s].p_status \in old
  /\ players' = [players EXCEPT ![s] = x]
  /\ UNCHANGED <<p_ntspid, pc, me, client, tries, ran, hup, seen>>

(* Damage, self-destruction, explode_everyone; "control player n die" does *)
(* it to players in any status.                                            *)
Explode(s) ==
  Becomes(s, IF "die" \in Events THEN Statuses \ {"PFREE"} ELSE {"PALIVE", "POBSERVE"},
          [players[s] EXCEPT !.p_status = "PEXPLODE", !.p_explode = ExplodeTime])

(* daemon/conquer.c: endgame_effects.                                      *)
EndgameEffects ==
  /\ "endgame" \in Events
  /\ players' = [s \in Slot |-> IF players[s].p_status = "PFREE" THEN players[s]
                                ELSE Status(players[s], "POUTFIT")]
  /\ UNCHANGED <<p_ntspid, pc, me, client, tries, ran, hup, seen>>

(* The player's commands: message.c's "observe 1", "observe 0", "queue" in *)
(* and out, and handleQuitReq of an observer.                              *)
Command(p) ==
  /\ pc[p] \in {"outfit", "input"} /\ client[p] = "up"
  /\ LET s == me[p]
         x == players[s]
     IN \/ Becomes(s, Statuses \ {"PFREE"}, Status(x, "POBSERVE"))
        \/ Becomes(s, {"POBSERVE"}, Status(x, "POUTFIT"))
        \/ Becomes(s, Statuses \ {"PFREE", "PTQUEUE"}, Status(x, "PTQUEUE"))
        \/ Becomes(s, {"PTQUEUE"}, Status(x, "POUTFIT"))

(* message.c: FREESLOTTOK, for gods and for captains.                      *)
FreeSlot(s) ==
  /\ "freeslot" \in Events
  /\ players' = [players EXCEPT ![s].p_status = "PFREE"]
  /\ hup' = hup \union {p \in Proc : p_ntspid[s] = p /\ pc[p] # "ended"}
  /\ p_ntspid' = [p_ntspid EXCEPT ![s] = 0]
  /\ UNCHANGED <<pc, me, client, tries, ran, seen>>

(* The process gets to handle the signal; main() sets the handler only     *)
(* when the player has logged in.                                          *)
Hup(p) ==
  /\ p \in hup /\ pc[p] # "ended"
  /\ IF pc[p] = "login"
     THEN Goes(p, "ended") /\ UNCHANGED <<players, p_ntspid, client, tries>>
     ELSE Exits(p, players[me[p]])
  /\ UNCHANGED <<me, ran, hup, seen>>

Next ==
  \/ Round
  \/ \E p \in Proc : FindSlot(p) \/ Attach(p) \/ Turn(p) \/ HangUp(p) \/ Crash(p) \/ Command(p)
                     \/ Hup(p)
  \/ \E s \in Slot : Explode(s) \/ FreeSlot(s)
  \/ EndgameEffects

Spec == Init /\ [][Next]_vars

(* The daemon's interval timer runs while the game is not paused; no loop  *)
(* of a process blocks for ever.                                           *)
FairSpec ==
  /\ Spec
  /\ WF_vars(Round)
  /\ \A p \in Proc : WF_vars(Attach(p)) /\ WF_vars(p \notin ran /\ Turn(p))
-----------------------------------------------------------------------------
TypeOK ==
  /\ players \in [Slot -> [p_status : Statuses, p_ghostbuster : 0 .. Busted, p_explode : Nat]]
  /\ p_ntspid \in [Slot -> Proc \union {0}]
  /\ pc \in [Proc -> Places] /\ me \in [Proc -> Slot]
  /\ client \in [Proc -> Clients] /\ tries \in [Proc -> 0 .. Tries]
  /\ ran \subseteq Proc /\ hup \subseteq Proc /\ seen \subseteq Slot

OnePlayerPerSlot ==
  \A p, q \in {r \in Proc : Holds(r)} : p # q => me[p] # me[q]
SlotKept ==
  \A p \in Proc : Holds(p) => players[me[p]].p_status # "PFREE"

(* "fixing 2 players/1 slot bug here": redraw.c:559.  No two processes     *)
(* have the same slot, and while a process looks after its slot, or tries  *)
(* to reach its client again, the ghostbuster does not give the slot away. *)
SlotsSafe == OnePlayerPerSlot /\ SlotKept

(* The counter of a free slot is cleared "so not to bust new players"      *)
(* (player.c:1227): a slot that has just been taken is not freed at once.  *)
NewcomersSpared ==
  Round => \A p \in ran : pc[p] = "given" => players'[me[p]].p_status # "PFREE"

(* A slot whose process is gone is free again in the end, whatever status  *)
(* it was left in.                                                         *)
OrphansFreed ==
  \A s \in Slot :
    (\A p \in Proc : Holds(p) => me[p] # s) ~>
      (players[s].p_status = "PFREE" \/ \E p \in Proc : Holds(p) /\ me[p] = s)

(* A process whose client is gone leaves, or reaches it again, and does    *)
(* not stay in one of its two loops for reconnection.                      *)
HungUpLeaves ==
  \A p \in Proc : (Holds(p) /\ client[p] # "up") ~> (client[p] = "up" \/ pc[p] = "ended")
=============================================================================
