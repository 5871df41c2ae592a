------------------------------ MODULE DaemonEnd ------------------------------
(***************************************************************************)
(* What is promised of the daemon that ends itself because nobody is there *)
(* (daemonII.c: move(), player.c: udplayers()).  TMode extends it with the *)
(* timers that have to keep the promise.                                   *)
(***************************************************************************)
EXTENDS Integers

CONSTANTS
  TicksPerSec,  \* TICKSPERSEC (10)
  SecsPerMin    \* seconds in a minute (60)

VARIABLES
  up,      \* the daemon runs
  hist     \* what has happened so far: see History in TMode

MINUTE == TicksPerSec * SecsPerMin

(* The daemon ends for want of players only after it has seen none for a   *)
(* whole minute (daemonII.c:293), whoever came and left in between.        *)
LonelyEnd == [][up /\ ~up' => hist.lonely = MINUTE]_up
==============================================================================
