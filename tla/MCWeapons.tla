------------------------------- MODULE MCWeapons -------------------------------
(***************************************************************************)
(* Weapons for TLC: the first player fires, both detonate and shoot.       *)
(***************************************************************************)
EXTENDS Weapons

MCCounts == -1 .. 1
===============================================================================
