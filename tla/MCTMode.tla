------------------------------- MODULE MCTMode -------------------------------
(* TMode with the populations that its conditions tell apart.              *)
EXTENDS TMode, TLC

MCPopulations ==
  {[i \in 0 .. 3 |-> 0],                          \* nobody
   <<2, 1, 0>> @@ (0 :> 1),                       \* one team with enough players
   <<2, 2, 5>> @@ (0 :> 1),                       \* a third is not compared
   <<1, 2, 5>> @@ (0 :> 0)}                       \* two teams that are not balanced
==============================================================================
