------------------------------ MODULE PlayerFile ------------------------------
(***************************************************************************)
(* The file of characters (PLAYERFILE): how a process finds or makes the   *)
(* character of its player (ntserv/getname.c: handleLogin, getname), and   *)
(* how the process (savestats) and the daemon (daemon/daemonII.c:          *)
(* saveplayer) write what he has done back to its place in the file.       *)
(*                                                                         *)
(* A process keeps what it has read of the last name it was asked for      *)
(* (`player`, `position`), and reads again only for another name.  A new   *)
(* character is written behind the entries that were counted in a step     *)
(* before.  Passwords are abstracted to an answer, statistics to a number. *)
(***************************************************************************)
EXTENDS Integers, Sequences, FiniteSets

CONSTANTS
  Proc, Names,
  MaxStats, MaxFile,             \* bounds: of the statistics and of the file
  Races                          \* "create": two count the entries at once;
                                 \* "twice": a character is played by two at once
NoName == "none"
Guest == "Guest"

VARIABLES
  file,                          \* a sequence of [name, stats]; its first place is 0
  player, position,              \* what the process has read, or made up, last
  stage,                         \* "login", "counted", "playing"
  entries,                       \* (of a new character)
  p_name, p_pos, p_stats

vars == <<file, player, position, stage, entries, p_name, p_pos, p_stats>>

Nobody == [name |-> NoName, stats |-> 0]

Init ==
  /\ file = <<>>
  /\ player = [p \in Proc |-> Nobody] /\ position = [p \in Proc |-> -1]
  /\ stage = [p \in Proc |-> "login"] /\ entries = [p \in Proc |-> 0]
  /\ p_name = [p \in Proc |-> NoName] /\ p_pos = [p \in Proc |-> -1] /\ p_stats = [p \in Proc |-> 0]

-----------------------------------------------------------------------------
(* handleLogin(): the file is searched unless this is the name that was    *)
(* searched before; in vain leaves the position -1 and the last entry's    *)
(* statistics.                                                             *)

Places == 0 .. Len(file) - 1
Entry(i) == file[i + 1]
Found(n) == {i \in Places : Entry(i).name = n}
First(S) == CHOOSE i \in S : \A j \in S : i <= j

InVainAt(p) == Len(file)         \* mutant: the position is not set to -1 at the end of the file
InVain(p) == -1

Look(p, n) ==
  IF player[p].name = n THEN [at |-> position[p], entry |-> player[p]]
  ELSE IF Found(n) # {} THEN [at |-> First(Found(n)), entry |-> Entry(First(Found(n)))]
  ELSE [at |-> InVain(p),
        entry |-> [name |-> n, stats |-> IF file = <<>> THEN player[p].stats ELSE Entry(Len(file) - 1).stats]]

Looked(p, n) ==
  /\ stage[p] = "login"
  /\ LET found == Look(p, n)
     IN  player' = [player EXCEPT ![p] = found.entry] /\ position' = [position EXCEPT ![p] = found.at]

Query(p, n) ==
  /\ Looked(p, n)
  /\ UNCHANGED <<file, stage, entries, p_name, p_pos, p_stats>>

Refused(p, n) ==
  /\ Looked(p, n) /\ position'[p] # -1
  /\ UNCHANGED <<file, stage, entries, p_name, p_pos, p_stats>>

Accepted(p, n) ==
  /\ Looked(p, n) /\ position'[p] # -1
  /\ "twice" \in Races \/ \A q \in Proc : p_name[q] # n
  /\ stage' = [stage EXCEPT ![p] = "playing"]
  /\ p_name' = [p_name EXCEPT ![p] = n] /\ p_pos' = [p_pos EXCEPT ![p] = position'[p]]
  /\ p_stats' = [p_stats EXCEPT ![p] = player'[p].stats]
  /\ UNCHANGED <<file, entries>>

(* A new one: the length of the file, and then the entry.                  *)
CountEntries(p, n) ==
  /\ "create" \in Races \/ \A q \in Proc : stage[q] # "counted"
  /\ stage[p] = "login" /\ Look(p, n).at = -1
  /\ Len(file) + Cardinality({q \in Proc : stage[q] = "counted"}) < MaxFile
  /\ player' = [player EXCEPT ![p] = [name |-> n, stats |-> 0]]
  /\ position' = [position EXCEPT ![p] = -1]
  /\ stage' = [stage EXCEPT ![p] = "counted"] /\ entries' = [entries EXCEPT ![p] = Len(file)]
  /\ UNCHANGED <<file, p_name, p_pos, p_stats>>

Written(i, e) == IF i \in Places THEN [file EXCEPT ![i + 1] = e] ELSE Append(file, e)

WriteEntry(p) ==
  /\ stage[p] = "counted"
  /\ file' = Written(entries[p], player[p])
  /\ stage' = [stage EXCEPT ![p] = "playing"]
  /\ p_name' = [p_name EXCEPT ![p] = player[p].name] /\ p_pos' = [p_pos EXCEPT ![p] = entries[p]]
  /\ p_stats' = [p_stats EXCEPT ![p] = 0] /\ entries' = [entries EXCEPT ![p] = 0]
  /\ UNCHANGED <<player, position>>

(* A guest is not in the file; what was read is not his.                   *)
GuestLogin(p) ==
  /\ stage[p] = "login"
  /\ stage' = [stage EXCEPT ![p] = "playing"]
  /\ player' = [player EXCEPT ![p].stats = 0]
  /\ p_name' = [p_name EXCEPT ![p] = Guest] /\ p_pos' = [p_pos EXCEPT ![p] = -1]
  /\ p_stats' = [p_stats EXCEPT ![p] = 0]
  /\ UNCHANGED <<file, position, entries>>

handleLogin(p) == (\E n \in Names : Query(p, n) \/ Refused(p, n) \/ Accepted(p, n) \/ CountEntries(p, n))
                    \/ WriteEntry(p) \/ GuestLogin(p)

-----------------------------------------------------------------------------
Play(p) ==
  /\ stage[p] = "playing" /\ p_stats[p] < MaxStats
  /\ p_stats' = [p_stats EXCEPT ![p] = @ + 1]
  /\ UNCHANGED <<file, player, position, stage, entries, p_name, p_pos>>

handleReset(p) ==
  /\ stage[p] = "playing"
  /\ p_stats' = [p_stats EXCEPT ![p] = 0]
  /\ UNCHANGED <<file, player, position, stage, entries, p_name, p_pos>>

(* Only the statistics are written, at the player's place.                 *)
Save(p) == IF p_pos[p] \in Places THEN [file EXCEPT ![p_pos[p] + 1].stats = p_stats[p]] ELSE file

savestats(p) ==                  \* at his death, or by the daemon as saveplayer()
  /\ stage[p] = "playing" /\ p_pos[p] >= 0
  /\ file' = Save(p)
  /\ UNCHANGED <<player, position, stage, entries, p_name, p_pos, p_stats>>

exitGame(p) ==                   \* and another process takes the slot
  /\ stage[p] \in {"login", "playing"}
  /\ file' = IF stage[p] = "login" THEN file ELSE Save(p)
  /\ stage' = [stage EXCEPT ![p] = "login"]
  /\ player' = [player EXCEPT ![p] = Nobody] /\ position' = [position EXCEPT ![p] = -1]
  /\ p_name' = [p_name EXCEPT ![p] = NoName] /\ p_pos' = [p_pos EXCEPT ![p] = -1]
  /\ p_stats' = [p_stats EXCEPT ![p] = 0]
  /\ UNCHANGED entries

Next == \E p \in Proc : handleLogin(p) \/ Play(p) \/ handleReset(p) \/ savestats(p) \/ exitGame(p)

Spec == Init /\ [][Next]_vars

-----------------------------------------------------------------------------
(* What a player does is saved at the place of the character he plays.     *)
OwnPlace ==
  \A p \in Proc : stage[p] = "playing" /\ p_pos[p] >= 0 =>
    p_pos[p] \in Places /\ Entry(p_pos[p]).name = p_name[p]
=============================================================================
