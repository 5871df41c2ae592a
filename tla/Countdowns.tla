------------------------------- MODULE Countdowns -------------------------------
(***************************************************************************)
(* What is counted down for one player: the pauses after a declaration of  *)
(* war and during a refit, his self-destruction, the clue check, and his   *)
(* explosion.  The first four are counted in his own process, once per     *)
(* update that is sent to him (ntserv/redraw.c: intrupt; ntserv/input.c;   *)
(* ntserv/cluecheck.c), the last by the daemon (daemon/player.c:           *)
(* udplayers), and others may kill him in between.                         *)
(*                                                                         *)
(* delay, rdelay and selfdest are kept as what p_updates has to grow by    *)
(* until it reaches them.  Observers and the queue are left out.           *)
(***************************************************************************)
EXTENDS Integers

CONSTANTS
  WarTime, RefitTime, DestructTime, ExplodeTime, DeadTime,   \* 100, 50, 100 or 600, 10, 600 / PLAYERFUSE
  ClueDelay, ClueTime,       \* of the updates between two clue checks, and until one must be answered
  Veterans                   \* subset of BOOLEAN: has he answered 25 clue checks?

VARIABLES
  p_status, flags, p_explode, p_whydead,
  unhurt,                    \* green alert, no damage and full shields
  torps,                     \* he has torpedoes in flight
  inputMask,                 \* "all", "outfit", or "none"
  delay, rdelay, selfdest,
  veteran, p_cluedelay, p_cluecountdown,
  owed, rdue, asked, told    \* history: rounds he still has to wait for war and refit; rounds left since he
                             \* asked for his end, or -1; he was told of a clue check and has not answered

Flags == {"PFSELFDEST", "PFWAR", "PFREFITTING"}
Restrained == flags \cap {"PFWAR", "PFREFITTING"} # {}

ship == <<p_status, p_explode, p_whydead, unhurt, torps, inputMask>>
timers == <<delay, rdelay, selfdest>>
clue == <<veteran, p_cluedelay, p_cluecountdown, told>>
waits == <<owed, rdue>>
vars == <<ship, flags, timers, clue, waits, asked>>

Init ==
  /\ p_status = "POUTFIT" /\ flags = {} /\ p_explode = 0 /\ p_whydead = "none"
  /\ unhurt = TRUE /\ torps = FALSE /\ inputMask = "outfit"
  /\ delay = -1 /\ rdelay = -1 /\ selfdest = -1
  /\ veteran \in Veterans /\ p_cluedelay = 1 /\ p_cluecountdown = 0 /\ told = FALSE
  /\ owed = 0 /\ rdue = 0 /\ asked = -1

Less(n) == IF n > -1 THEN n - 1 ELSE -1
LessTo0(n) == IF n > 0 THEN n - 1 ELSE 0

-----------------------------------------------------------------------------
(* doRead(): a request that input_allowed() lets through ends the self-    *)
(* destruction, before its handler runs.                                   *)

Allowed == inputMask = "all" /\ ~Restrained

MessageIgnored ==   \* mutant: what is always allowed does not end it
  flags' = flags /\ asked' = -1 /\ UNCHANGED <<ship, timers, clue, waits>>

(* CP_MESSAGE and others that are always allowed.                          *)
Message == flags' = flags \ {"PFSELFDEST"} /\ asked' = -1 /\ UNCHANGED <<ship, timers, clue, waits>>

(* handleQuitReq() *)
Quit ==
  /\ Allowed /\ flags' = flags \cup {"PFSELFDEST"}
  /\ selfdest' = DestructTime /\ asked' = DestructTime
  /\ UNCHANGED <<ship, delay, rdelay, clue, waits>>

(* declare_war() on somebody he was at peace with.                         *)
declare_war ==
  /\ Allowed /\ flags' = (flags \ {"PFSELFDEST"}) \cup {"PFWAR"}
  /\ delay' = WarTime /\ owed' = WarTime /\ asked' = -1
  /\ UNCHANGED <<ship, rdelay, selfdest, clue, rdue>>

(* do_refit(): he is in orbit of a shipyard or at his base and in good     *)
(* condition.                                                              *)
do_refit ==
  /\ Allowed /\ p_status = "PALIVE"
  /\ flags' = (flags \ {"PFSELFDEST"}) \cup {"PFREFITTING"}
  /\ rdelay' = RefitTime /\ rdue' = RefitTime /\ asked' = -1 /\ unhurt' = TRUE
  /\ UNCHANGED <<p_status, p_explode, p_whydead, torps, inputMask, delay, selfdest, clue, owed>>

fire ==
  /\ Allowed /\ p_status = "PALIVE"
  /\ torps' = TRUE /\ flags' = flags \ {"PFSELFDEST"} /\ asked' = -1
  /\ UNCHANGED <<p_status, p_explode, p_whydead, unhurt, inputMask, timers, clue, waits>>

accept_cluecheckStays ==   \* mutant: the next check is not put off
  /\ p_cluedelay <= 0
  /\ p_cluedelay' = p_cluedelay /\ told' = FALSE
  /\ flags' = flags \ {"PFSELFDEST"} /\ asked' = -1
  /\ UNCHANGED <<ship, timers, veteran, p_cluecountdown, waits>>

(* accept_cluecheck(): the word he sends himself.  The countdown is not    *)
(* reset, it waits behind p_cluedelay.                                     *)
accept_cluecheck ==
  /\ p_cluedelay <= 0
  /\ p_cluedelay' = ClueDelay /\ told' = FALSE
  /\ flags' = flags \ {"PFSELFDEST"} /\ asked' = -1
  /\ UNCHANGED <<ship, timers, veteran, p_cluecountdown, waits>>

-----------------------------------------------------------------------------
(* An update of the player's process: intrupt(), and the end of input()'s  *)
(* loop; afterwards main() looks at p_status.                              *)

Explodes(s) == [s EXCEPT !.status = "PEXPLODE", !.explode = ExplodeTime, !.why = "KQUIT"]

death(s) ==
  IF s.status \in {"PDEAD", "POUTFIT"} /\ ~torps
  THEN [s EXCEPT !.status = "POUTFIT", !.flags = s.flags \ {"PFWAR", "PFREFITTING"}]
  ELSE s

selfdestruct_countdown(s) ==
  IF "PFSELFDEST" \in s.flags /\ (selfdest <= 0 \/ unhurt)
  THEN Explodes([s EXCEPT !.flags = s.flags \ {"PFSELFDEST"}])
  ELSE s

(* demand_clue() tells him; a veteran is not asked every time.             *)
Demand(s) == [s EXCEPT !.cluecountdown = ClueTime, !.told = TRUE]

Delayed(s) ==
  LET d == [s EXCEPT !.cluedelay = s.cluedelay - 1]
  IN  CASE d.cluedelay >= 1 -> {d}
        [] d.cluedelay < 1 /\ ~veteran -> {Demand(d)}
        [] d.cluedelay < 1 /\ veteran -> {d, Demand(d)}

countdown_clue(s) ==
  CASE s.status = "POUTFIT" -> {s}
    [] s.status # "POUTFIT" /\ s.cluedelay > 0 -> Delayed(s)
    [] s.status # "POUTFIT" /\ s.cluedelay <= 0 /\ s.cluecountdown > 1 ->
         {[s EXCEPT !.cluecountdown = s.cluecountdown - 1]}
    [] s.status # "POUTFIT" /\ s.cluedelay <= 0 /\ s.cluecountdown = 1 ->
         {[Explodes(s) EXCEPT !.cluecountdown = 0, !.blasted = TRUE]}
    [] OTHER -> {[s EXCEPT !.cluedelay = ClueDelay]}

(* The pauses are over when p_updates has gone beyond them.                *)
ResumedTogether(f) ==   \* mutant: one pause ends the other
  IF delay < 0 \/ rdelay < 0 THEN f \ {"PFWAR", "PFREFITTING"} ELSE f

Resumed(f) ==
  f \ ((IF delay < 0 THEN {"PFWAR"} ELSE {}) \cup IF rdelay < 0 THEN {"PFREFITTING"} ELSE {})

Now ==
  [status |-> p_status, explode |-> p_explode, why |-> p_whydead, flags |-> flags,
   cluedelay |-> p_cluedelay, cluecountdown |-> p_cluecountdown, told |-> told, blasted |-> FALSE]

intrupt ==
  /\ p_status \in {"PALIVE", "PEXPLODE", "PDEAD"}
  /\ \E s \in countdown_clue(selfdestruct_countdown(death(Now))) :
       /\ p_status' = s.status /\ p_explode' = s.explode /\ p_whydead' = s.why
       /\ flags' = Resumed(s.flags)
       /\ p_cluedelay' = s.cluedelay /\ p_cluecountdown' = s.cluecountdown
       /\ told' = (s.told /\ ~s.blasted)
       /\ IF s.status = "POUTFIT" THEN owed' = 0 /\ rdue' = 0 ELSE UNCHANGED waits
  /\ inputMask' = IF p_status \in {"PEXPLODE", "PDEAD"} THEN "none" ELSE inputMask
  /\ UNCHANGED <<unhurt, torps, timers, veteran, asked>>

(* main(): getEntry() and enter().  Who changed teams declares war on his  *)
(* old team in it, and enter() then sets delay to 0.                       *)
enter(changes) ==
  /\ p_status = "POUTFIT"
  /\ p_status' = "PALIVE" /\ inputMask' = "all" /\ unhurt' = TRUE /\ torps' = FALSE
  /\ flags' = IF changes THEN {"PFWAR"} ELSE {}
  /\ delay' = 0 /\ asked' = -1 /\ owed' = 0 /\ rdue' = 0
  /\ UNCHANGED <<p_explode, p_whydead, rdelay, selfdest, clue>>

-----------------------------------------------------------------------------
(* The daemon's round: p_updates grows only while the player lives.        *)
udplayers ==
  \/ /\ p_status = "PALIVE"
     /\ delay' = Less(delay) /\ rdelay' = Less(rdelay) /\ selfdest' = Less(selfdest)
     /\ owed' = LessTo0(owed) /\ rdue' = LessTo0(rdue)
     /\ asked' = IF asked > 0 THEN asked - 1 ELSE asked
     /\ UNCHANGED <<ship, flags, clue>>
  \/ /\ p_status = "PEXPLODE"
     /\ p_status' = IF p_explode <= 1 THEN "PDEAD" ELSE "PEXPLODE"
     /\ p_explode' = IF p_explode <= 1 THEN DeadTime ELSE p_explode - 1
     /\ UNCHANGED <<p_whydead, unhurt, torps, inputMask, flags, timers, clue, waits, asked>>
  \/ /\ p_status = "PDEAD"
     /\ p_explode' = p_explode - 1
     /\ p_status' = IF p_explode <= 1 THEN "POUTFIT" ELSE "PDEAD"
     /\ UNCHANGED <<p_whydead, unhurt, torps, inputMask, flags, timers, clue, waits, asked>>

(* He is hit, killed, or repaired; his last torpedo is gone.               *)
Hurt ==
  /\ p_status = "PALIVE" /\ unhurt' = FALSE
  /\ \/ UNCHANGED <<p_status, p_explode, p_whydead>>
     \/ p_status' = "PEXPLODE" /\ p_explode' = ExplodeTime /\ p_whydead' = "killed"
  /\ UNCHANGED <<torps, inputMask, flags, timers, clue, waits, asked>>

Well ==
  /\ p_status = "PALIVE" /\ unhurt' = TRUE
  /\ UNCHANGED <<p_status, p_explode, p_whydead, torps, inputMask, flags, timers, clue, waits, asked>>

TorpsGone ==
  /\ torps /\ torps' = FALSE
  /\ UNCHANGED <<p_status, p_explode, p_whydead, unhurt, inputMask, flags, timers, clue, waits, asked>>

Next ==
  \/ Message \/ Quit \/ declare_war \/ do_refit \/ fire \/ accept_cluecheck
  \/ intrupt \/ \E changes \in BOOLEAN : enter(changes)
  \/ udplayers \/ Hurt \/ Well \/ TorpsGone

Spec == Init /\ [][Next]_vars

-----------------------------------------------------------------------------
(* A ship that destroys itself was asked to by its player's last request,  *)
(* and has waited for the time it says, or is unhurt.  (A clue check that  *)
(* was not answered ends it as well.)                                      *)
Destroys == p_whydead' = "KQUIT" /\ "PFSELFDEST" \in flags /\ "PFSELFDEST" \notin flags' /\ UNCHANGED asked
Justified == Destroys => asked = 0 \/ (asked > 0 /\ unhurt)
SelfDestructs == [][Justified]_vars

(* Nobody is blasted for a clue check he was not told of, or has answered. *)
BlastedTold == p_cluecountdown = 1 /\ p_cluecountdown' = 0 => told
ClueTold == [][BlastedTold]_vars

(* Who declares war or changes his ship gives no other command until the   *)
(* pause is over.                                                          *)
PauseServed ==
  /\ "PFWAR" \notin flags => owed = 0
  /\ "PFREFITTING" \notin flags => rdue = 0

(* "this is the last time doshipexplode will be called for this player":   *)
(* who is dead does not explode again.                                     *)
Revived == p_status \in {"PDEAD", "POUTFIT"} /\ p_status' = "PEXPLODE"
ExplodesOnce == [][~Revived]_vars
=============================================================================
