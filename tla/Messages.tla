------------------------------- MODULE Messages -------------------------------
(***************************************************************************)
(* The ring of messages in shared memory (common/smessage.c: pmessage2),   *)
(* into which every process writes, and the process of one player, Me,     *)
(* that gives its client the messages that are for it (ntserv/socket.c:    *)
(* updateMessages, handleMessageReq, parseIgnore, parseQuery, bounce).     *)
(*                                                                         *)
(* A letter is [from, group, mine]: who says it, to whom (MALL, MTEAM,     *)
(* MINDIV, MGOD; QUERY is a MINDIV one that asks for statistics), and      *)
(* whether that is Me or the team of Me.  In the ring the address and the  *)
(* text of a message are written at different times, and a reader that     *)
(* gets a text gets the letter it belongs to.  How often one may speak,    *)
(* who is censured and what a message says are left out.                   *)
(***************************************************************************)
EXTENDS Integers, Sequences

CONSTANTS
  MAXMESSAGE,
  MySays, OthersSay,             \* the letters that Me, and another process, may send
  Races                          \* "fill": others act while a message is written;
                                 \* "wrap": ... before the index is set back to 0;
                                 \* "lap": ... until the ring comes round to its place

GOD == "GOD"
Writer == {"Me", "Other"}
NoLetter == [from |-> GOD, group |-> "none", mine |-> FALSE]
Blank == [valid |-> FALSE, address |-> NoLetter, text |-> NoLetter]
Idle == [at |-> -1, open |-> FALSE, letter |-> NoLetter]

VARIABLES
  mc_current, messages,          \* shared memory
  out,                           \* per writer: the place he writes to, and what
  msgCurrent, reading, ignored,  \* of Me's process: the next to read; in updateMessages; groups of Other's he ignores
  unread, clean                  \* the letters after msgCurrent; none was overtaken or read too early

vars == <<mc_current, messages, out, msgCurrent, reading, ignored, unread, clean>>

Init ==
  /\ mc_current = 0 /\ messages = [i \in 0 .. MAXMESSAGE - 1 |-> Blank]
  /\ out = [w \in Writer |-> Idle]
  /\ msgCurrent = 1 /\ reading = FALSE /\ ignored = {}
  /\ unread = <<>> /\ clean = TRUE

-----------------------------------------------------------------------------
(* pmessage2() in steps: the index, the address with the message not       *)
(* valid, the text and MVALID.                                             *)

OverLate(n) == n > MAXMESSAGE    \* mutant: the index may be MAXMESSAGE
Over(n) == n >= MAXMESSAGE

Next1(n) == (n + 1) % MAXMESSAGE
Open(w) == out[w] # Idle
Atomic == "wrap" \in Races \/ \A w \in Writer : ~Over(out[w].at)

MayWrite(w) ==
  /\ ~Open(w) /\ Atomic
  /\ "fill" \in Races \/ \A v \in Writer : ~Open(v)
  /\ "lap" \in Races \/ \A v \in Writer : out[v].at # Next1(mc_current)

Number(w, l) ==
  /\ mc_current' = mc_current + 1
  /\ out' = [out EXCEPT ![w] = [at |-> mc_current + 1, open |-> FALSE, letter |-> l]]
  /\ UNCHANGED messages

Begin(w, l) ==
  /\ MayWrite(w) /\ Number(w, l)
  /\ clean' = (clean /\ Len(unread) + 1 < MAXMESSAGE)
  /\ unread' = IF clean' THEN Append(unread, l) ELSE <<>>

SetBack(w) ==
  /\ Over(out[w].at)
  /\ mc_current' = 0 /\ out' = [out EXCEPT ![w].at = 0]
  /\ UNCHANGED <<messages, msgCurrent, reading, ignored, unread, clean>>

AddressedValid(w) ==             \* mutant: the message is valid from the start
  [messages EXCEPT ![out[w].at].valid = TRUE, ![out[w].at].address = out[w].letter]

Addressed(w) ==
  [messages EXCEPT ![out[w].at].valid = FALSE, ![out[w].at].address = out[w].letter]

Address(w) ==
  /\ Open(w) /\ ~Over(out[w].at) /\ ~out[w].open
  /\ messages' = Addressed(w)
  /\ out' = [out EXCEPT ![w].open = TRUE]
  /\ UNCHANGED <<mc_current, msgCurrent, reading, ignored, unread, clean>>

Fill(w) ==
  /\ out[w].open
  /\ messages' = [messages EXCEPT ![out[w].at].valid = TRUE, ![out[w].at].text = out[w].letter]
  /\ out' = [out EXCEPT ![w] = Idle]
  /\ UNCHANGED <<mc_current, msgCurrent, reading, ignored, unread, clean>>

-----------------------------------------------------------------------------
(* handleMessageReq(): what one says himself; he cannot speak to whom he   *)
(* ignores.                                                                *)
handleMessageReq ==
  /\ ~reading
  /\ \E l \in MySays : (l.group = "MINDIV" /\ ~l.mine => "MINDIV" \notin ignored) /\ Begin("Me", l)
  /\ UNCHANGED <<msgCurrent, reading, ignored>>

OtherSays ==
  /\ \E l \in OthersSay : Begin("Other", l)
  /\ UNCHANGED <<msgCurrent, reading, ignored>>

Kind(l) == IF l.group = "QUERY" THEN "MINDIV" ELSE l.group

(* parseIgnore(): ":i" and the like; it is not sent.                       *)
parseIgnore ==
  /\ ~reading /\ ~Open("Me") /\ Atomic
  /\ \E what \in {Kind(l) : l \in OthersSay} \cap {"MALL", "MTEAM", "MINDIV"} :
       ignored' = IF what \in ignored THEN ignored \ {what} ELSE ignored \cup {what}
  /\ UNCHANGED <<mc_current, messages, out, msgCurrent, reading, unread, clean>>

(* updateMessages(), step by step.                                         *)

Mine(l) == l.mine /\ l.group # "none"
Behind == msgCurrent # Next1(mc_current)
Ignores(l) == l.from = "Other" /\ Kind(l) \in ignored

Update ==
  /\ ~reading /\ ~Open("Me") /\ Atomic /\ Behind
  /\ reading' = TRUE
  /\ UNCHANGED <<mc_current, messages, out, msgCurrent, ignored, unread, clean>>

TooEarly == \E w \in Writer : out[w].at = msgCurrent   \* it is being written

Passed ==
  /\ msgCurrent' = Next1(msgCurrent)
  /\ unread' = IF unread = <<>> THEN <<>> ELSE Tail(unread)

Ignored(l) == l.group = "QUERY" \/ Ignores(l)
Packet(m) == IF m.valid /\ Mine(m.address) /\ ~Ignored(m.address) THEN m.text ELSE NoLetter

Give(m) ==                       \* Packet(m) is sent
  /\ Passed /\ clean' = (clean /\ ~TooEarly)
  /\ UNCHANGED <<mc_current, messages, out, reading, ignored>>

(* parseQuery(), bounce(): the answer to a question, or to a letter that   *)
(* is ignored, is a message from GOD; the loop goes on when it is written. *)
Answered(m) ==
  /\ m.valid /\ Mine(m.address)
  /\ m.address.group = "QUERY" \/ (m.address.group = "MINDIV" /\ Ignores(m.address))

Bounce(m) ==
  LET l == [from |-> GOD, group |-> "MINDIV", mine |-> m.address.from = "Me"]
  IN  /\ MayWrite("Me") /\ Number("Me", l)
      /\ msgCurrent' = Next1(msgCurrent)
      /\ unread' = Append(IF unread = <<>> THEN <<>> ELSE Tail(unread), l)
      /\ clean' = (clean /\ ~TooEarly)
      /\ UNCHANGED <<reading, ignored>>

Reads == reading /\ ~Open("Me") /\ Atomic /\ Behind

ReadOne ==
  /\ Reads
  /\ LET m == messages[msgCurrent] IN IF Answered(m) THEN Bounce(m) ELSE Give(m)

Done ==
  /\ reading /\ ~Open("Me") /\ Atomic /\ ~Behind
  /\ reading' = FALSE
  /\ UNCHANGED <<mc_current, messages, out, msgCurrent, ignored, unread, clean>>

(* initClientData(), after a reconnection.                                 *)
Reconnect ==
  /\ ~reading /\ ~Open("Me") /\ Atomic
  /\ msgCurrent' = Next1(mc_current) /\ unread' = <<>> /\ clean' = TRUE
  /\ UNCHANGED <<mc_current, messages, out, reading, ignored>>

Next ==
  \/ \E w \in Writer : SetBack(w) \/ Address(w) \/ Fill(w)
  \/ handleMessageReq \/ OtherSays \/ parseIgnore
  \/ Update \/ ReadOne \/ Done \/ Reconnect

Spec == Init /\ [][Next]_vars

-----------------------------------------------------------------------------
(* The client is given nothing that is not for it.                         *)
Discreet == Reads => LET l == Packet(messages[msgCurrent]) IN l = NoLetter \/ Mine(l)

(* What is for the client and not ignored it is given, in the order of the *)
(* ring and each once, unless MAXMESSAGE letters came between two updates  *)
(* or one was read while it was being written.                             *)
Delivered ==
  Reads /\ clean /\ ~TooEarly =>
    LET l == Head(unread) IN Packet(messages[msgCurrent]) = IF Mine(l) /\ ~Ignored(l) THEN l ELSE NoLetter
=============================================================================
