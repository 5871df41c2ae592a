-------------------------------- MODULE Ping ---------------------------------
(***************************************************************************)
(* Pings over UDP and the packet loss reckoned from them: ntserv/ping.c,   *)
(* with the counters of socket.c.  Every few seconds the server sends a    *)
(* ping with a number of one byte; the client answers with the number of   *)
(* packets it has received and sent so far.  A datagram is one packet      *)
(* here; times and the loss of the last interval are left out.             *)
(***************************************************************************)
EXTENDS Integers, Sequences

CONSTANTS
  BYTE,        \* numbers of pings (256)
  HASHSIZE,    \* pings that are remembered (32); 2 * HASHSIZE divides BYTE
  PingMax,     \* packets that the server sends: a bound
  AnswerMax,   \* packets that the client sends: a bound
  LostMax,     \* packets that the network loses in each direction: a bound
  Flight,      \* packets in flight in one direction: a bound
  Disorder     \* packets may overtake each other

VARIABLES
  ping_id, last_num,
  packets_sent, packets_received,
  ping_sent,                      \* packets_sent_at_ping of each place
  s_to_c_dropped, c_to_s_dropped, \* as reckoned at the last answer
  cp_recv, cp_sent,               \* the client's counters
  down, up,                       \* packets on their way
  truth,                          \* packets really lost, down and up
  judged,                         \* truth when the ping and its answer were sent
  ordered                         \* no packet has overtaken another

vars == <<ping_id, last_num, packets_sent, packets_received, ping_sent, s_to_c_dropped,
          c_to_s_dropped, cp_recv, cp_sent, down, up, truth, judged, ordered>>
counters == <<ping_id, last_num, ping_sent, s_to_c_dropped, c_to_s_dropped, judged>>

NoPing == -1
DownPacket == [ping : NoPing..BYTE - 1, lost : 0..LostMax]
UpPacket == [answer : NoPing..BYTE - 1, cp_recv : 0..PingMax, cp_sent : 0..AnswerMax,
             down : 0..LostMax, up : 0..LostMax]

TypeOK ==
  /\ ping_id \in 0..BYTE - 1 /\ last_num \in 0..BYTE - 1
  /\ packets_sent \in Nat /\ packets_received \in Int
  /\ ping_sent \in [0..HASHSIZE - 1 -> Nat]
  /\ s_to_c_dropped \in Int /\ c_to_s_dropped \in Int
  /\ cp_recv \in 0..PingMax /\ cp_sent \in 0..AnswerMax
  /\ down \in Seq(DownPacket) /\ up \in Seq(UpPacket)
  /\ truth \in [down : 0..LostMax, up : 0..LostMax]
  /\ judged \in [down : 0..LostMax, up : 0..LostMax] /\ ordered \in BOOLEAN

(* UDP has just been opened; pings that were answered over TCP before have *)
(* counted nothing.                                                        *)
Init ==
  /\ ping_id \in {0, BYTE - 2} /\ last_num = ping_id /\ packets_sent = 0 /\ packets_received = 0
  /\ ping_sent = [i \in 0..HASHSIZE - 1 |-> 0]
  /\ s_to_c_dropped = 0 /\ c_to_s_dropped = 0 /\ cp_recv = 0 /\ cp_sent = 0
  /\ down = <<>> /\ up = <<>>
  /\ truth = [down |-> 0, up |-> 0] /\ judged = truth /\ ordered = TRUE

-----------------------------------------------------------------------------
PITH(n) == n % HASHSIZE

(* Mutant: the wrap is forgotten.                                         *)
uchar_diffNoWrap(x, y) == x - y

(* Numbers of one byte, compared across the wrap.                          *)
uchar_diff(x, y) ==
  IF x - y > BYTE \div 2 THEN x - y - BYTE
  ELSE IF x - y < -(BYTE \div 2) THEN x - y + BYTE
  ELSE x - y

(* The network takes a packet or loses it.                                 *)
Sends(p) ==
  \/ Len(down) < Flight /\ down' = Append(down, p) /\ UNCHANGED truth
  \/ truth.down < LostMax /\ truth' = [truth EXCEPT !.down = @ + 1] /\ UNCHANGED down

(* Any packet but a ping.                                                  *)
SendUpdate ==
  /\ packets_sent < PingMax
  /\ packets_sent' = packets_sent + 1
  /\ Sends([ping |-> NoPing, lost |-> truth.down])
  /\ UNCHANGED <<counters, packets_received, cp_recv, cp_sent, up, ordered>>

(* The place of the ping holds how many packets were sent, itself among    *)
(* them.  The client must answer before the place is used again.           *)
sendClientPing ==
  /\ packets_sent < PingMax
  /\ LET id == (ping_id + 1) % BYTE
     IN  /\ \A q \in {down[i].ping : i \in DOMAIN down} \cup {up[i].answer : i \in DOMAIN up} :
              q = NoPing \/ PITH(q) # PITH(id)
         /\ ping_id' = id
         /\ packets_sent' = packets_sent + 1
         /\ ping_sent' = [ping_sent EXCEPT ![PITH(id)] = packets_sent + 1]
         /\ Sends([ping |-> id, lost |-> truth.down])
  /\ UNCHANGED <<last_num, packets_received, s_to_c_dropped, c_to_s_dropped, cp_recv, cp_sent, up,
                 judged, ordered>>

First(q) == IF Disorder THEN DOMAIN q ELSE DOMAIN q \cap {1}
Without(q, i) == SubSeq(q, 1, i - 1) \o SubSeq(q, i + 1, Len(q))

(* The client takes a packet, and answers a ping at once.                  *)
ClientSends(answer, lost) ==
  /\ cp_sent < AnswerMax
  /\ cp_sent' = cp_sent + 1
  /\ \/ /\ Len(up) < Flight
        /\ up' = Append(up, [answer |-> answer, cp_recv |-> cp_recv', cp_sent |-> cp_sent + 1,
                             down |-> lost, up |-> truth.up])
        /\ UNCHANGED truth
     \/ truth.up < LostMax /\ truth' = [truth EXCEPT !.up = @ + 1] /\ UNCHANGED up

ClientReads ==
  /\ \E i \in First(down) :
       /\ down' = Without(down, i) /\ ordered' = (ordered /\ i = 1)
       /\ cp_recv' = cp_recv + 1
       /\ IF down[i].ping = NoPing THEN UNCHANGED <<cp_sent, up, truth>>
          ELSE ClientSends(down[i].ping, down[i].lost)
  /\ UNCHANGED <<counters, packets_sent, packets_received>>

ClientActs ==
  /\ UNCHANGED cp_recv
  /\ ClientSends(NoPing, 0)
  /\ UNCHANGED <<counters, packets_sent, packets_received, down, ordered>>

(* calc_loss(): a count that has gone down is put back, and the packets    *)
(* that are too many are added to those sent or taken from those received. *)
calc_loss(p, received) ==
  LET sc == ping_sent[PITH(p.answer)] - p.cp_recv
      cs == p.cp_sent - received
  IN  /\ s_to_c_dropped' = IF sc < s_to_c_dropped THEN s_to_c_dropped ELSE sc
      /\ packets_sent' = IF sc < s_to_c_dropped THEN packets_sent + s_to_c_dropped - sc ELSE packets_sent
      /\ c_to_s_dropped' = IF cs < c_to_s_dropped THEN c_to_s_dropped ELSE cs
      /\ packets_received' = IF cs < c_to_s_dropped THEN received - (c_to_s_dropped - cs) ELSE received

(* The server reads a packet; pingResponse() ignores an answer that comes  *)
(* after a later one.                                                      *)
ServerReads ==
  /\ \E i \in First(up) :
       LET p == up[i]
           received == packets_received + 1
           late == uchar_diff(p.answer, last_num) < 0
       IN  /\ up' = Without(up, i) /\ ordered' = (ordered /\ i = 1)
           /\ judged' = IF p.answer = NoPing THEN judged ELSE [down |-> p.down, up |-> p.up]
           /\ IF p.answer = NoPing \/ late
              THEN /\ packets_received' = received
                   /\ UNCHANGED <<last_num, s_to_c_dropped, c_to_s_dropped, packets_sent>>
              ELSE /\ last_num' = p.answer
                   /\ IF received = 0 \/ ping_sent[PITH(p.answer)] = 0
                      THEN /\ packets_received' = received
                           /\ UNCHANGED <<s_to_c_dropped, c_to_s_dropped, packets_sent>>
                      ELSE calc_loss(p, received)
  /\ UNCHANGED <<ping_id, ping_sent, cp_recv, cp_sent, down, truth>>

Next == SendUpdate \/ sendClientPing \/ ClientReads \/ ClientActs \/ ServerReads

Spec == Init /\ [][Next]_vars

-----------------------------------------------------------------------------
(* As long as no packet has overtaken another, the packets reckoned to be  *)
(* dropped are those that the network had lost when the last ping that was *)
(* answered, and its answer, were sent.                                    *)
LossTrue == ordered => s_to_c_dropped = judged.down /\ c_to_s_dropped = judged.up

(* The total loss from the server to the client is a percentage.           *)
tloss_sc(i) == 100 - (100 * (ping_sent[i] - s_to_c_dropped)) \div ping_sent[i]
Percentage == ping_sent[PITH(last_num)] # 0 => tloss_sc(PITH(last_num)) \in 0..100

PingSound == LossTrue /\ Percentage
=============================================================================
