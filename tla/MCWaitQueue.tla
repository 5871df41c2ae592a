----------------------------- MODULE MCWaitQueue -----------------------------
(***************************************************************************)
(* Instances of WaitQueue: which processes come for the home side.         *)
(***************************************************************************)
EXTENDS WaitQueue

CONSTANT Home   \* processes of the home side; the others are the away side's

MCSide == [p \in Proc |-> IF p \in Home THEN "home" ELSE "away"]
=============================================================================
