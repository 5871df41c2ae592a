--------------------------------- MODULE FatUdp ---------------------------------
(***************************************************************************)
(* The connection of one client: TCP, and UDP in three modes              *)
(* (ntserv/socket.c, sockio.c, fatudp.c, input.c).  In fat mode packets    *)
(* that matter ("semi-critical") are sent again with the next datagrams:   *)
(* every such packet is a node that moves from list to list, linked by     *)
(* pointers, each time it has been sent again, until it leaves the last.   *)
(*                                                                         *)
(* The client is external: it asks for anything at any time, may die and   *)
(* come back, and believes what arrives last.  A late datagram is a lost   *)
(* one, for its sequence number is too low (and it is not late after what  *)
(* comes by TCP).  One update, from its first packet to the merge of the   *)
(* lists, is a step: the process does nothing else meanwhile.  All packets *)
(* have one size.  The packet that is sent as a critical one after a full  *)
(* update (SP_YOU) is left out.                                            *)
(***************************************************************************)
EXTENDS Naturals, FiniteSets

CONSTANTS
  Node,            \* semi-critical packets, one for each thing the client is told of
  NULL,
  Retained,        \* those compared with a copy that nothing invalidates:
                   \* clientThingyStatus[] (missiles), clientStatus2
  MAX_FAT_LIST,    \* lists
  Room,            \* packets that fit into MAX_FAT_DATA
  FatAnswers,      \* what forceUpdate() may answer when fat mode is asked for
  Mortal           \* the modes in which the client may die (and come back)

Lists == 0 .. MAX_FAT_LIST - 1
Invalid == "invalid" \* what forceUpdate() and initClientData() write into a packet

VARIABLES
  packet,          \* the packet last sent of each thing, clientTorpsInfo[] and the
                   \* like: "true" or "false" of the thing as it is now, or Invalid
  seen,            \* what the client believes, in the same way
  lost,            \* history: how often this packet was sent in vain
  queued,          \* history: the packets last sent in fat mode
  links,           \* prev and next of every node, head and tail of fatlist[] and tmplist[]
  commMode, udpMode,
  udpSock,         \* open once the client has been told its port
  clientDead

things == <<packet, seen, lost, queued, links>>
modes == <<commMode, udpMode, udpSock, clientDead>>
vars == <<things, modes>>

Empty == [l \in Lists |-> NULL]
NoLinks == [prev |-> [n \in Node |-> NULL], next |-> [n \in Node |-> NULL],
            fhead |-> Empty, ftail |-> Empty, thead |-> Empty, ttail |-> Empty]

(* What is retained is zero at first, and so it is at the client.          *)
Init ==
  /\ packet = [n \in Node |-> IF n \in Retained THEN "false" ELSE Invalid]
  /\ seen = packet /\ lost = [n \in Node |-> 0] /\ queued = {}
  /\ links = NoLinks
  /\ commMode = "TCP" /\ udpMode = "SIMPLE" /\ udpSock = "closed"
  /\ clientDead = FALSE

-----------------------------------------------------------------------------
(* The lists.  prev leads from the head, which is sent first, to the tail. *)

Least(S) == CHOOSE l \in S : \A k \in S : l <= k

(* If n is a head its predecessor becomes the head, else it is bridged.    *)
OffHead(L, n) ==
  LET heads == {l \in Lists : L.fhead[l] = n}
      p == L.prev[n]
      Bridged == IF p = NULL THEN L ELSE [L EXCEPT !.next[p] = L.next[n]]
  IN
  CASE L.next[n] # NULL -> Bridged
    [] L.next[n] = NULL /\ heads = {} -> L
    [] OTHER -> [L EXCEPT !.fhead[Least(heads)] = p,
                          !.next = IF p = NULL THEN @ ELSE [@ EXCEPT ![p] = NULL]]

OffTailNever(L, n) == L   \* mutant: "it's not at the tail"

OffTail(L, n) ==
  LET tails == {l \in Lists : L.ftail[l] = n}
      q == L.next[n]
      Bridged == IF q = NULL THEN L ELSE [L EXCEPT !.prev[q] = L.prev[n]]
  IN
  CASE L.prev[n] # NULL -> Bridged
    [] L.prev[n] = NULL /\ tails = {} -> L
    [] OTHER -> [L EXCEPT !.ftail[Least(tails)] = q,
                          !.prev = IF q = NULL THEN @ ELSE [@ EXCEPT ![q] = NULL]]

dequeue(L, n) == [OffTail(OffHead(L, n), n) EXCEPT !.prev[n] = NULL, !.next[n] = NULL]

enqueue(L, n, l) ==
  LET t == L.ttail[l] IN
  IF t = NULL THEN [L EXCEPT !.thead[l] = n, !.ttail[l] = n]
  ELSE [L EXCEPT !.next[n] = t, !.prev[t] = n, !.ttail[l] = n]

(* "Remove it, move this dude to temporary list 0."                        *)
updateFat(L, n) == enqueue(dequeue(L, n), n, 0)

Merge(L, l) ==
  LET h == L.thead[l]
      t == L.ftail[l]
      Joined == IF L.fhead[l] = NULL THEN [L EXCEPT !.fhead[l] = h, !.ftail[l] = L.ttail[l]]
                ELSE [L EXCEPT !.next[h] = t, !.prev[t] = h, !.ftail[l] = L.ttail[l]]
  IN
  IF h = NULL THEN L ELSE [Joined EXCEPT !.thead[l] = NULL, !.ttail[l] = NULL]

fatMerge(L) ==
  LET merged[l \in 0 .. MAX_FAT_LIST] == IF l = 0 THEN L ELSE Merge(merged[l - 1], l - 1)
  IN  merged[MAX_FAT_LIST]

LeavesEarly(L, n, l) ==   \* mutant: a packet leaves the list before the last
  IF l + 2 >= MAX_FAT_LIST THEN dequeue(L, n) ELSE enqueue(dequeue(L, n), n, l + 1)

(* A packet of list l that has been sent again goes on to the next list.   *)
Moved(L, n, l) ==
  IF l + 1 = MAX_FAT_LIST THEN dequeue(L, n) ELSE enqueue(dequeue(L, n), n, l + 1)

(* What is sent again next is the head of the first list that has one; the *)
(* next in line ("move toward tail") becomes the head when it has moved.   *)
Filled(L) == {l \in Lists : L.fhead[l] # NULL}

SendNext(x) ==
  IF Filled(x.links) = {} THEN x
  ELSE LET l == Least(Filled(x.links))
           n == x.links.fhead[l]
       IN  [links |-> Moved(x.links, n, l), sent |-> x.sent \cup {n}]

(* The lists after it, and what has been sent: as much as there is room.   *)
NotFattened(L) == [links |-> L, sent |-> {}]

fatten(L) ==
  LET added[k \in 0 .. Room] == IF k = 0 THEN NotFattened(L) ELSE SendNext(added[k - 1])
  IN  added[Room]

-----------------------------------------------------------------------------
(* The game goes on, and the client is told. *)

Turned(word) == CASE word = "true" -> "false" [] word = "false" -> "true" [] OTHER -> word

Change(n) ==
  /\ packet' = [packet EXCEPT ![n] = Turned(@)]
  /\ seen' = [seen EXCEPT ![n] = Turned(@)]
  /\ UNCHANGED <<lost, queued, links, modes>>

Changed == {n \in Node : packet[n] # "true"}

(* sendClientPacket(): by UDP, or by TCP.                                  *)
ByUdp == commMode = "UDP" /\ udpMode # "TCP"

(* What has been sent of every thing, and what has arrived.                *)
Tell(sent, arrived) ==
  /\ packet' = [n \in Node |-> "true"]
  /\ seen' = [n \in Node |-> IF n \in arrived THEN "true" ELSE seen[n]]
  /\ lost' = [n \in Node |->
       IF n \in arrived THEN 0
       ELSE IF n \in Changed THEN 1
       ELSE IF n \in sent /\ lost[n] <= MAX_FAT_LIST THEN lost[n] + 1 ELSE lost[n]]
  /\ queued' = IF ByUdp /\ udpMode = "FAT" THEN queued \cup Changed ELSE queued \ Changed

(* All that is sent is noted, in the order in which it is sent.            *)
Order ==
  CHOOSE q \in [1 .. Cardinality(Node) -> Node] : \A i, j \in DOMAIN q : q[i] = q[j] => i = j

Noted ==
  LET noted[k \in 0 .. Cardinality(Node)] ==
        IF k = 0 THEN links
        ELSE IF Order[k] \in Changed THEN updateFat(noted[k - 1], Order[k]) ELSE noted[k - 1]
  IN  IF udpMode = "FAT" THEN noted[Cardinality(Node)] ELSE links

Disconnected ==
  /\ udpSock = "open" /\ udpSock' = "closed" /\ commMode' = "TCP"
  /\ UNCHANGED <<udpMode, clientDead>>

(* What has been sent arrives, or is lost unless it is sure to arrive; or  *)
(* the datagram cannot be written, and the connection is closed.           *)
flushSockBuf(fat, sure) ==
  LET sent == Changed \cup fat.sent IN
  /\ links' = IF udpMode = "FAT" THEN fatMerge(fat.links) ELSE fat.links
  /\ \/ \E arrived \in SUBSET sent : sure \subseteq arrived /\ Tell(sent, arrived) /\ UNCHANGED modes
     \/ Tell(sent, sure) /\ Disconnected

(* A datagram is filled up as long as the socket is open, even if all else *)
(* goes by TCP.                                                            *)
UpdateByTcp ==
  /\ ~clientDead /\ ~ByUdp
  /\ LET fat == IF udpMode = "FAT" /\ udpSock = "open" THEN fatten(links) ELSE NotFattened(links)
     IN  flushSockBuf(fat, Changed)

(* Nothing is added to a datagram that is long already.                    *)
UpdateByUdp ==
  /\ ~clientDead /\ ByUdp
  /\ \E fat \in IF udpMode = "FAT" THEN {NotFattened(Noted), fatten(Noted)} ELSE {NotFattened(links)} :
       flushSockBuf(fat, {})

(* flushSockBuf() returns at once, and does not merge.                     *)
UpdateInVain ==
  /\ clientDead
  /\ Tell(Changed, {})
  /\ links' = IF ByUdp THEN Noted ELSE links
  /\ UNCHANGED modes

updateClient == UpdateByTcp \/ UpdateByUdp \/ UpdateInVain

-----------------------------------------------------------------------------
(* Requests, and ends *)

Forgotten == [n \in Node |-> IF n \in Retained THEN packet[n] ELSE Invalid]

(* "denied" within UDP_UPDATE_WAIT seconds of the last full update.        *)
forceUpdate(answers) ==
  \/ "given" \in answers /\ packet' = Forgotten
  \/ "denied" \in answers /\ UNCHANGED packet

(* A socket that is open is closed first, and the new one may fail.  A     *)
(* client that asks in UDP mode is confused, and is back in TCP mode.      *)
ReqUdp ==
  /\ ~clientDead
  /\ commMode' = "TCP"
  /\ udpSock' \in {"open", "closed"}
  /\ UNCHANGED <<things, udpMode, clientDead>>

(* COMM_VERIFY comes by UDP; a second one is only answered.                *)
Verify ==
  /\ ~clientDead /\ udpSock = "open" /\ commMode = "TCP"
  /\ commMode' = "UDP" /\ udpMode' = "SIMPLE"
  /\ UNCHANGED <<things, udpSock, clientDead>>

ReqTcp ==
  /\ ~clientDead
  /\ commMode' = "TCP" /\ udpSock' = "closed"
  /\ UNCHANGED <<things, udpMode, clientDead>>

(* Double UDP is not compiled in and becomes simple UDP.                   *)
ReqMode(mode) ==
  /\ ~clientDead
  /\ IF mode = "FAT" THEN forceUpdate(FatAnswers) ELSE UNCHANGED packet
  /\ udpMode' = mode
  /\ UNCHANGED <<seen, lost, queued, links, commMode, udpSock, clientDead>>

ReqUpdate ==
  /\ ~clientDead /\ forceUpdate({"given", "denied"})
  /\ UNCHANGED <<seen, lost, queued, links, modes>>

(* doRead() of the UDP socket fails and cannot be connected again.         *)
UdpFails ==
  /\ ~clientDead /\ udpSock = "open"
  /\ udpSock' = "closed" /\ commMode' = "TCP"
  /\ UNCHANGED <<things, udpMode, clientDead>>

Die ==
  /\ udpMode \in Mortal /\ ~clientDead /\ clientDead' = TRUE
  /\ UNCHANGED <<things, commMode, udpMode, udpSock>>

(* initClientData() clears the nodes and fatlist[], not tmplist[].  The    *)
(* new client knows nothing.                                               *)
initClientData ==
  /\ packet' = Forgotten
  /\ links' = [NoLinks EXCEPT !.thead = links.thead, !.ttail = links.ttail]

reconnect ==
  /\ clientDead /\ clientDead' = FALSE
  /\ commMode' = "TCP" /\ udpSock' = "closed"
  /\ initClientData
  /\ seen' = [n \in Node |-> Invalid] /\ lost' = [n \in Node |-> 0] /\ queued' = {}
  /\ UNCHANGED udpMode

handleUdpReq ==
  ReqUdp \/ Verify \/ ReqTcp \/ ReqUpdate \/ \E mode \in {"TCP", "SIMPLE", "FAT"} : ReqMode(mode)

Next ==
  \/ \E n \in Node : Change(n)
  \/ updateClient \/ handleUdpReq \/ UdpFails \/ Die \/ reconnect

Spec == Init /\ [][Next]_vars

-----------------------------------------------------------------------------
(* The nodes that links lead to from n on; NULL after the last.            *)
Along(link, n) ==
  LET at[k \in 0 .. Cardinality(Node)] ==
        IF k = 0 THEN n ELSE IF at[k - 1] = NULL THEN NULL ELSE link[at[k - 1]]
  IN  at

Forwards(L, l) == Along(L.prev, L.fhead[l])
Backwards(L, l) == Along(L.next, L.ftail[l])
OnList(L, l) == {Forwards(L, l)[k] : k \in 0 .. Cardinality(Node)} \ {NULL}

(* A list ends, and read from its tail it is the list read from its head.  *)
BothWays(L, l) ==
  \E len \in 0 .. Cardinality(Node) :
    /\ \A k \in 0 .. Cardinality(Node) :
         (Forwards(L, l)[k] # NULL <=> k < len) /\ (Backwards(L, l)[k] # NULL <=> k < len)
    /\ \A k \in 0 .. len - 1 : Backwards(L, l)[k] = Forwards(L, l)[len - 1 - k]

(* Every node is in one place: each list is in order, no two lists share a *)
(* node, and a node in no list has no links.  (Otherwise fatten() never    *)
(* ends, or the merge follows a null pointer.)                             *)
ListsSound ==
  ~clientDead =>
    /\ \A l \in Lists : BothWays(links, l)
    /\ \A l, k \in Lists : l # k => OnList(links, l) \cap OnList(links, k) = {}
    /\ \A n \in Node : (\A l \in Lists : n \notin OnList(links, l)) =>
                         links.prev[n] = NULL /\ links.next[n] = NULL

Missed(n) == packet[n] # Invalid /\ seen[n] # packet[n]

OnAList(n) == \E l \in Lists : n \in OnList(links, l)

InFatMode == ~clientDead /\ commMode = "UDP" /\ udpMode = "FAT"

(* In fat mode, what the client has missed is on a list, to be sent again, *)
(* until it has been sent once and MAX_FAT_LIST times more: every packet   *)
(* that the full update sends anew, and of the retained ones those that were   *)
(* last sent in fat mode.                                                  *)
Promised(n) == n \notin Retained \/ n \in queued

NotForgotten ==
  InFatMode => \A n \in Node : Missed(n) /\ Promised(n) /\ lost[n] <= MAX_FAT_LIST => OnAList(n)

(* The comment of forceUpdate() (socket.c 3303) says so of every packet:   *)
(* "This guarantees that every packet will end up on a queue".  It does    *)
(* not hold of the retained ones.                                              *)
EveryPacketQueued ==
  InFatMode => \A n \in Node : Missed(n) /\ lost[n] <= MAX_FAT_LIST => OnAList(n)
===============================================================================
