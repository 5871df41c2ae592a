------------------------------- MODULE Warnings -------------------------------
(***************************************************************************)
(* The warnings of one player's process (ntserv/warning.c): they are       *)
(* shown at intervals, and those in between are queued in a ring.          *)
(* imm_warning() sends its text at once and touches none of this.          *)
(***************************************************************************)
EXTENDS Integers, Sequences

CONSTANTS Texts, WQLEN

Slots == 0 .. WQLEN - 1
Nothing == "nothing"

VARIABLES
  w_buf, numw, whichw,
  spaced,                        \* WARN_GAP has passed since the last one
  waiting,                       \* the texts that are queued, oldest first
  shown                          \* what was sent by the last step, and whether it was the oldest

vars == <<w_buf, numw, whichw, spaced, waiting, shown>>

Init ==
  /\ w_buf = [i \in Slots |-> Nothing] /\ numw = 0 /\ whichw = 0 /\ spaced = TRUE
  /\ waiting = <<>> /\ shown = [text |-> Nothing, due |-> Nothing]

GapPasses ==
  /\ ~spaced /\ spaced' = TRUE
  /\ UNCHANGED <<w_buf, numw, whichw, waiting, shown>>

Show(text, queue) ==             \* queue: what is waiting, with this one
  /\ shown' = [text |-> text, due |-> Head(queue)]
  /\ waiting' = Tail(queue)

DirectlyIfSpaced == spaced       \* mutant: a new one is shown before those that wait
Directly == numw = 0 /\ spaced

(* What a new one is compared with: w_buf[(whichw + numw - 1) % WQLEN].    *)
(* In C -1 % WQLEN is -1: at the start of the ring with nothing queued it  *)
(* is what lies before the ring in memory, anything.                       *)
Queued ==
  IF whichw + numw = 0 THEN Texts \cup {Nothing} ELSE {w_buf[(whichw + numw - 1) % WQLEN]}

Longer == IF numw + 1 = WQLEN THEN WQLEN - 1 ELSE numw + 1   \* the last one is dropped

warning(text) ==
  /\ spaced' = FALSE
  /\ IF Directly THEN
       /\ Show(text, Append(waiting, text)) /\ UNCHANGED <<w_buf, numw, whichw>>
     ELSE \E last \in Queued : IF last = text THEN
       UNCHANGED <<w_buf, numw, whichw, waiting, shown>>
     ELSE LET slot == (whichw + numw) % WQLEN
              queue == IF Longer > numw THEN Append(waiting, text) ELSE waiting
          IN  /\ w_buf' = [w_buf EXCEPT ![slot] = text]
              /\ IF spaced
                 THEN Show(w_buf'[whichw], queue) /\ whichw' = (whichw + 1) % WQLEN /\ numw' = Longer - 1
                 ELSE waiting' = queue /\ numw' = Longer /\ UNCHANGED <<whichw, shown>>

updateWarnings ==
  /\ numw > 0 /\ spaced /\ spaced' = FALSE
  /\ Show(w_buf[whichw], waiting)
  /\ whichw' = (whichw + 1) % WQLEN /\ numw' = numw - 1
  /\ UNCHANGED w_buf

Next == (\E text \in Texts : warning(text)) \/ updateWarnings \/ GapPasses

Spec == Init /\ [][Next]_vars

-----------------------------------------------------------------------------
(* Warnings are shown in the order in which they were given.               *)
InOrder == shown.text = shown.due /\ Len(waiting) = numw
=============================================================================
