----------------------------- MODULE TourneyLog ------------------------------
(***************************************************************************)
(* The log of a tournament (daemon/tourny.c) for one player slot.  What    *)
(* the daemon itself does to a ship it logs at once; that a player has     *)
(* quit, died otherwise or refitted it finds out by comparing his slot     *)
(* with what it was at the last update (scan).  Lines of planets and       *)
(* armies are left out.                                                    *)
(***************************************************************************)
EXTENDS Integers

CONSTANTS
  Types,     \* ship types
  NoShip,    \* -1
  Unsigned   \* the compiler makes the enumeration of ship types unsigned

VARIABLES
  tmode,         \* status2->league: "warmup" (2), "play" (3), "over" (1)
  tlog,          \* the file is open
  stat, type,    \* the slot: p_status and p_ship.s_type
  status_cache, ship_cache,
  lines,         \* lines that tell of the end of this life
  ended,         \* this life ended in the tournament
  garbage,       \* a refit has been logged with a ship type that is none
  crashed        \* and that has ended the daemon

vars == <<tmode, tlog, stat, type, status_cache, ship_cache, lines, ended, garbage, crashed>>
cache == <<status_cache, ship_cache>>
ub == <<garbage, crashed>>

Stats == {"PFREE", "POUTFIT", "PALIVE", "PEXPLODE", "PDEAD"}

TypeOK ==
  /\ tmode \in {"warmup", "play", "over"} /\ tlog \in BOOLEAN
  /\ stat \in Stats /\ type \in Types /\ status_cache \in Stats
  /\ ship_cache \in Types \cup {NoShip} /\ lines \in 0..2 /\ ended \in BOOLEAN
  /\ garbage \in BOOLEAN /\ crashed \in BOOLEAN

Init ==
  /\ tmode = "warmup" /\ tlog = FALSE /\ stat = "PFREE" /\ type \in Types
  /\ status_cache = "PFREE" /\ ship_cache = NoShip
  /\ lines = 0 /\ ended = FALSE /\ garbage = FALSE /\ crashed = FALSE

Logs == tmode = "play" /\ tlog
Ends(line) ==
  /\ lines' = IF line /\ Logs THEN lines + 1 ELSE lines
  /\ ended' = (ended \/ (Logs /\ stat = "PALIVE" /\ status_cache = "PALIVE"))

-----------------------------------------------------------------------------
(* A player's process.  Nobody comes back before the next scan.            *)
Enter ==
  /\ stat \in {"PFREE", "POUTFIT", "PDEAD"} /\ status_cache # "PALIVE"
  /\ stat' = "PALIVE" /\ type' \in Types
  /\ lines' = 0 /\ ended' = FALSE
  /\ UNCHANGED <<tmode, tlog, cache, ub>>

Refit ==
  /\ stat = "PALIVE" /\ type' \in Types \ {type}
  /\ UNCHANGED <<tmode, tlog, stat, cache, lines, ended, ub>>

Quit ==
  /\ stat' = "PFREE"
  /\ Ends(FALSE)
  /\ UNCHANGED <<tmode, tlog, type, cache, ub>>

(* The daemon.  Mutant: the end is logged before the ship explodes, so the *)
(* status that is remembered is the old one.                               *)
RememberedBefore == IF Logs THEN stat ELSE status_cache

Remembered == IF Logs THEN stat' ELSE status_cache

(* tlog_plkill, tlog_plankill: after cause_kaboom().                       *)
Killed ==
  /\ ~crashed /\ stat = "PALIVE" /\ stat' = "PEXPLODE"
  /\ Ends(TRUE)
  /\ status_cache' = Remembered
  /\ UNCHANGED <<tmode, tlog, type, ship_cache, ub>>

(* A death that nobody is credited with, or an order of the league.        *)
Dies ==
  /\ ~crashed /\ stat = "PALIVE" /\ stat' \in {"PEXPLODE", "POUTFIT"}
  /\ Ends(FALSE)
  /\ UNCHANGED <<tmode, tlog, type, cache, ub>>

Fades ==
  /\ \/ stat = "PEXPLODE" /\ stat' = "PDEAD"
     \/ stat = "PDEAD" /\ stat' = "POUTFIT"
  /\ UNCHANGED <<tmode, tlog, type, cache, lines, ended, ub>>

(* tlog_refit(): a ship type of -1 is printed from what lies outside the   *)
(* table, or ends the daemon.                                              *)
LogRefit ==
  IF ~Logs THEN UNCHANGED <<cache, ub>>
  ELSE /\ ship_cache' = type /\ UNCHANGED status_cache
       /\ IF ship_cache # NoShip THEN UNCHANGED ub
          ELSE garbage' = TRUE /\ crashed' \in BOOLEAN

(* scan_for_unexpected_tourny_events(), at the end of each update and of   *)
(* the tournament.                                                         *)
ScanSlot ==
  IF status_cache # "PALIVE"
  THEN status_cache' = stat /\ ship_cache' = NoShip /\ UNCHANGED <<lines, ub>>
  ELSE IF stat # "PALIVE"
  THEN /\ status_cache' = stat /\ lines' = IF Logs THEN lines + 1 ELSE lines
       /\ UNCHANGED <<ship_cache, ub>>
  ELSE /\ UNCHANGED lines
       /\ IF ship_cache = NoShip /\ ~Unsigned
          THEN ship_cache' = type /\ UNCHANGED <<status_cache, ub>>
          ELSE IF ship_cache # type THEN LogRefit
          ELSE UNCHANGED <<cache, ub>>

Scan ==
  /\ ~crashed /\ tmode # "over"
  /\ ScanSlot
  /\ UNCHANGED <<tmode, tlog, stat, type, ended>>

(* All ships explode; opening the file may fail.                           *)
starttourn ==
  /\ ~crashed /\ tmode = "warmup" /\ tmode' = "play"
  /\ tlog' \in BOOLEAN
  /\ stat' = IF stat = "PALIVE" THEN "PEXPLODE" ELSE stat
  /\ UNCHANGED <<type, cache, lines, ended, ub>>

endtourn ==
  /\ ~crashed /\ tmode = "play" /\ tmode' = "over"
  /\ ScanSlot
  /\ tlog' = FALSE
  /\ UNCHANGED <<stat, type, ended>>

Next ==
  \/ Enter \/ Refit \/ Quit \/ Killed \/ Dies \/ Fades \/ Scan \/ starttourn \/ endtourn

Spec == Init /\ [][Next]_vars

-----------------------------------------------------------------------------
(* A life that ends in the tournament is told of once: by the next scan at *)
(* the latest, and not by the scan again after the daemon's own line.      *)
ToldOnce ==
  /\ lines <= 1
  /\ ended /\ status_cache # "PALIVE" => lines = 1

(* "we have to print the OLD ship type he was flying", tourny.c.           *)
RefitsRight == ~garbage
=============================================================================
