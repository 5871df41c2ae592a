-------------------------------- MODULE ShipView --------------------------------
(***************************************************************************)
(* What one client is shown of another player's ship (ntserv/socket.c:     *)
(* updateShips, updatePhasers; pvisible and pfire of daemon/planets.c,     *)
(* which say who has been seen).  Packets that only carry what differs     *)
(* (names, kills, statistics, hostility) are left out; the status, the     *)
(* flags and the place decide each other.  The client is external and      *)
(* shows what was sent last.                                               *)
(***************************************************************************)
EXTENDS Naturals

CONSTANTS
  Near, Far,     \* places of the other ship on the client's screen, and beyond it
  Nine           \* every efticks(9)th update tells of ships that are far away

nowhere == "nowhere"     \* (-100000, -100000)
vaguelyNear == "vaguelyNear"   \* up to 1000 beside the true place, and on the screen
vaguelyFar == "vaguelyFar"
nothing == "nothing"     \* not sent yet
Places == Near \cup Far

VARIABLES
  foe,             \* of another team
  alive,           \* his status is PALIVE; otherwise the slot is free
  at,
  PFSEEN,          \* seen by our team
  PFCLOAK,         \* cloaked, all the way
  paused,          \* status2->paused, and hiddenenemy with status->tourn
  hiddenenemy,
  repCount,        \* modulo Nine
  pstatus, cpl,    \* clientPStatus[] and clientPlayers[]: what was sent
  ignored,         \* we ignore his messages
  updated, before  \* history: the step was updateClient(); the place sent before it

game == <<foe, alive, at, PFSEEN, PFCLOAK, paused, hiddenenemy>>
client == <<repCount, pstatus, cpl, ignored>>
vars == <<game, client, updated, before>>

Init ==
  /\ foe \in BOOLEAN /\ hiddenenemy \in BOOLEAN
  /\ alive = FALSE /\ at \in Far /\ PFSEEN = FALSE /\ PFCLOAK = FALSE /\ paused = FALSE
  /\ repCount = 0 /\ pstatus = nothing /\ cpl = nothing /\ ignored = FALSE
  /\ updated = FALSE /\ before = nothing

-----------------------------------------------------------------------------
(* The game. *)
ClientUnchanged == updated' = FALSE /\ UNCHANGED <<client, before>>

EnterOrLeave ==
  /\ alive' = ~alive /\ at' \in Places /\ PFCLOAK' = FALSE
  /\ UNCHANGED <<foe, PFSEEN, paused, hiddenenemy>> /\ ClientUnchanged

Fly ==
  /\ alive /\ ~paused
  /\ at' \in Places \ {at}
  /\ UNCHANGED <<foe, alive, PFSEEN, PFCLOAK, paused, hiddenenemy>> /\ ClientUnchanged

Cloak ==
  /\ alive /\ PFCLOAK' = ~PFCLOAK
  /\ UNCHANGED <<foe, alive, at, PFSEEN, paused, hiddenenemy>> /\ ClientUnchanged

Pause ==
  /\ paused' = ~paused
  /\ UNCHANGED <<foe, alive, at, PFSEEN, PFCLOAK, hiddenenemy>> /\ ClientUnchanged

(* pvisible() and pfire(): the flags of all are cleared, and set for those *)
(* whom an enemy's ship or planet is near.                                 *)
plfight ==
  /\ PFSEEN' \in IF foe /\ alive THEN BOOLEAN ELSE {FALSE}
  /\ UNCHANGED <<foe, alive, at, PFCLOAK, paused, hiddenenemy>> /\ ClientUnchanged

Ignore ==
  /\ alive /\ ~ignored /\ ignored' = TRUE
  /\ updated' = FALSE /\ UNCHANGED <<game, repCount, pstatus, cpl, before>>

-----------------------------------------------------------------------------
(* updateShips() *)

(* "enemies are invisible when the game is paused"                         *)
plstat == IF alive /\ ~(paused /\ foe) THEN "PALIVE" ELSE "PFREE"

Hidden == hiddenenemy /\ foe /\ ~PFSEEN
Place == IF Hidden THEN nowhere ELSE at

ToldOnScreen == pstatus # plstat \/ repCount = 0 \/ Place \in Near   \* mutant: "on the screen recently" is forgotten

(* He is on the screen, or was in the last packet; or his status has       *)
(* changed; or it is every ship's turn.                                    *)
Told ==
  pstatus # plstat \/ repCount = 0 \/ cpl \in Near \cup {vaguelyNear} \/ Place \in Near

Vaguely == IF Hidden THEN {nowhere} ELSE {vaguelyFar} \cup (IF at \in Near THEN {vaguelyNear} ELSE {})

NextPlacesPhasered ==   \* mutant: who is cloaked is shown all the time
  IF cpl = Place \/ ~Told THEN {cpl} ELSE {Place}

(* mustUpdate[] is always 0 here: updatePhasers() sets it after this, and  *)
(* the next updateClient() clears it first.                                *)
NextPlaces ==
  CASE cpl = Place \/ ~Told -> {cpl}
    [] cpl # Place /\ Told /\ PFCLOAK -> IF repCount = 0 THEN Vaguely ELSE {cpl}
    [] OTHER -> {Place}

updateShips ==
  /\ pstatus' = plstat /\ cpl' \in NextPlaces
  /\ ignored' = (ignored /\ ~(pstatus # plstat /\ ~alive))

updateClient ==
  /\ updateShips
  /\ repCount' = (repCount + 1) % Nine
  /\ updated' = TRUE /\ before' = cpl
  /\ UNCHANGED game

(* initClientData(): a client that is reached again is told everything.    *)
initClientData ==
  /\ pstatus' = nothing /\ cpl' = nothing
  /\ updated' = FALSE /\ UNCHANGED <<game, repCount, ignored, before>>

Next ==
  \/ EnterOrLeave \/ Fly \/ Cloak \/ Pause \/ plfight \/ Ignore
  \/ updateClient \/ initClientData

Spec == Init /\ [][Next]_vars
FairSpec == Spec /\ WF_vars(updateClient)

-----------------------------------------------------------------------------
(* A ship on the screen that is neither hidden nor cloaked is shown where  *)
(* it is after every update, and one that has left the screen is not       *)
(* shown there any more; enemies are not shown while the game is paused.   *)
OnScreen ==
  updated =>
    /\ pstatus = "PALIVE" <=> alive /\ ~(foe /\ paused)
    /\ ~PFCLOAK /\ Place \in Near => cpl = at
    /\ ~PFCLOAK /\ cpl \in Near => cpl = at

(* Nobody is told anew where an enemy is whom his team does not see, or    *)
(* exactly where a cloaked one is.                                         *)
NotGivenAway ==
  updated /\ cpl # before => /\ Hidden => cpl = nowhere
                             /\ PFCLOAK => cpl \notin Places

(* A ship that stays is shown where it is in the end, if it may be.        *)
Stays == alive /\ ~Hidden /\ ~PFCLOAK
ShownInTheEnd == <>[](Stays /\ cpl # nothing) /\ (\E p \in Places : <>[](at = p)) => <>[](cpl = at)
===============================================================================
