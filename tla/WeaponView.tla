------------------------------- MODULE WeaponView -------------------------------
(***************************************************************************)
(* What one client is shown of one weapon (ntserv/socket.c: updateTorps,   *)
(* updateTorpInfos, short_updateTorps, updateMissiles, updatePlasmas).     *)
(* The server remembers the packets it sent last and sends what differs    *)
(* from them, with two exceptions: a weapon that is far away or gone is    *)
(* sent as gone once, and an explosion is left to the client to end.       *)
(*                                                                         *)
(* The war bits, which are compared and sent with the status, are left     *)
(* out.  The client is external.                                           *)
(***************************************************************************)
EXTENDS Naturals

CONSTANTS
  Kinds,     \* of weapons: subset of {"torp", "short", "missile", "plasma"}, "short"
             \* for torpedoes of a client that asked for short packets
  Whose,    \* subset of {"me", "friend", "foe"}
  Paused,    \* kinds that are watched while the game is paused
  Still,     \* kinds that may be where they were in the last update
  Reused,    \* kinds whose slot may be used again before an update
  Returns    \* kinds that are watched while the client is reached again, or asks
             \* for everything again after something was lost

VARIABLES
  kind, owner,
  status,    \* of the weapon: "TFREE", "TMOVE", "TEXPLODE", and "TOFF" (switched
             \* off, or landed) of missiles
  at,        \* its place: "here" and "there" are on the client's screen, "away" is not
  paused,    \* status2->paused
  info, loc, \* clientTorpsInfo[].status and clientTorps[].x, clientThingyStatus[] ...
  pic,       \* what the client shows: its status and place
  missed,    \* history: something was lost since the last full update
  updated    \* history: the step was updateClient()

weapon == <<kind, owner, status, at, paused>>
cache == <<info, loc>>
vars == <<weapon, cache, pic, missed, updated>>

Places == {"here", "there", "away"}

Init ==
  /\ kind \in Kinds /\ owner \in Whose
  /\ status = "TFREE" /\ at = "away" /\ paused = FALSE
  /\ info = IF kind = "missile" THEN "TFREE" ELSE "invalid"
  /\ loc = "invalid"
  /\ pic = [status |-> "TFREE", at |-> "away"]
  /\ missed = FALSE /\ updated = TRUE

-----------------------------------------------------------------------------
(* The game: the weapon is fired, flies, explodes, is gone. *)

Flies(s, places) ==
  /\ ~paused
  /\ status' = s /\ at' \in places
  /\ updated' = FALSE /\ UNCHANGED <<kind, owner, paused, cache, pic, missed>>

Fired == status = "TFREE" /\ (updated \/ kind \in Reused) /\ Flies("TMOVE", Places)
Moves == status = "TMOVE" /\ Flies("TMOVE", Places \ {at})
Explodes == status = "TMOVE" /\ Flies("TEXPLODE", Places)
SwitchedOff == kind = "missile" /\ status = "TMOVE" /\ Flies("TOFF", {at})
IsGone == status # "TFREE" /\ Flies("TFREE", {at})

Pause ==
  /\ kind \in Paused /\ paused' = ~paused
  /\ updated' = FALSE /\ UNCHANGED <<kind, owner, status, at, cache, pic, missed>>

(* "Let the client fade away the explosion on its own."                    *)
Fades ==
  /\ pic.status = "TEXPLODE" /\ pic' = [pic EXCEPT !.status = "TFREE"]
  /\ updated' = FALSE /\ UNCHANGED <<weapon, cache, missed>>

-----------------------------------------------------------------------------
(* An update of a kind: what the server remembers then, the status and the *)
(* place it sends ("none": it is not sent).                                *)

Sent(i, l, s, a) == [info |-> i, loc |-> l, status |-> s, at |-> a]

(* "enemy torps are invisible during game pause"                           *)
Masked == IF paused /\ owner = "foe" THEN "TFREE" ELSE status

StatusIfNew(s) == IF s = info THEN "none" ELSE s
PlaceIfNew == IF at = loc THEN "none" ELSE at

OutOfSightStays(s) == "none"   \* mutant: nothing is sent of what has left the screen

(* Far away or gone: what is sent and remembered of the status.            *)
OutOfSight(s) ==
  CASE s = "TFREE" /\ info = "TEXPLODE" -> "none"
    [] OTHER -> StatusIfNew("TFREE")

updateTorps ==
  CASE owner = "me" -> Sent(status, at, StatusIfNew(status), PlaceIfNew)
    [] owner # "me" /\ (at = "away" \/ status = "TFREE") ->
         Sent("TFREE", loc, OutOfSight(status), "none")
    [] OTHER -> IF Masked = "TFREE"
                THEN Sent("TFREE", loc, StatusIfNew("TFREE"), "none")
                ELSE Sent(status, at, StatusIfNew(status), PlaceIfNew)

updatePlasmas ==
  CASE owner = "me" -> Sent(status, at, StatusIfNew(status), PlaceIfNew)
    [] owner # "me" /\ (at = "away" \/ Masked = "TFREE") ->
         Sent("TFREE", loc, OutOfSight(Masked), "none")
    [] OTHER -> Sent(status, at, StatusIfNew(status), at)

(* A missile is shown as a shape, and what is switched off as a blank.     *)
Shape(s) == IF s = "TOFF" THEN "TFREE" ELSE s

updateMissiles ==
  CASE owner = "me" -> Sent(Masked, at, Shape(StatusIfNew(Masked)), PlaceIfNew)
    [] owner # "me" /\ (at = "away" \/ Masked = "TFREE") ->
         Sent("TFREE", loc, OutOfSight(Masked), "none")
    [] OTHER -> Sent(Masked, at, Shape(StatusIfNew(Masked)), PlaceIfNew)

(* What the client makes of it.                                            *)
Seen(sent) == [status |-> IF sent.status = "none" THEN pic.status ELSE sent.status,
               at |-> IF sent.at = "none" THEN pic.at ELSE sent.at]

-----------------------------------------------------------------------------
(* Short packets: eight torpedoes in one, with a bit for each whose place  *)
(* is sent and one for each whose status is sent.  A torpedo that flies    *)
(* has only its place sent, and one without either bit is gone.            *)

encode_torp_status ==
  CASE owner # "me" /\ (at = "away" \/ status = "TFREE") ->
         [info |-> "TFREE", bit |-> FALSE, mustsend |-> OutOfSight(status) # "none"]
    [] ~(owner # "me" /\ (at = "away" \/ status = "TFREE")) /\ status # info ->
         [info |-> status,
          bit |-> status = "TEXPLODE" \/ (info = "TEXPLODE" /\ status = "TFREE"),
          mustsend |-> status = "TFREE" /\ info # "TEXPLODE"]
    [] OTHER -> [info |-> info, bit |-> FALSE, mustsend |-> FALSE]

(* A torpedo of one's own that is off the screen is sent as such.          *)
encode_torp_position ==
  at # loc /\ status # "TFREE" /\ ~(paused /\ owner = "foe") /\ (at # "away" \/ owner = "me")

(* It is sent when something has to be, when another of the eight has      *)
(* (others), or when mustsend, which is never set to 0, says so.           *)
ShortSeen(others) ==
  LET s == encode_torp_status IN
  CASE ~(s.bit \/ s.mustsend \/ encode_torp_position \/ others) -> pic
    [] s.bit -> [status |-> status, at |-> IF encode_torp_position THEN at ELSE pic.at]
    [] ~s.bit /\ encode_torp_position -> [status |-> "TMOVE", at |-> at]
    [] ~s.bit /\ ~encode_torp_position /\ (s.mustsend \/ others) ->
         [pic EXCEPT !.status = IF @ = "TMOVE" THEN "TFREE" ELSE @]

short_updateTorps ==
  /\ kind = "short"
  /\ info' = encode_torp_status.info /\ loc' = at
  /\ \E others \in BOOLEAN : pic' = ShortSeen(others)

-----------------------------------------------------------------------------
Update(sent) ==
  /\ info' = sent.info /\ loc' = sent.loc
  /\ pic' = Seen(sent)

updateClient ==
  /\ status = "TMOVE" /\ loc = at => kind \in Still
  /\ \/ kind = "torp" /\ Update(updateTorps)
     \/ kind = "plasma" /\ Update(updatePlasmas)
     \/ kind = "missile" /\ Update(updateMissiles)
     \/ short_updateTorps
  /\ updated' = TRUE
  /\ UNCHANGED <<weapon, missed>>

(* The same, and what is sent is lost.                                     *)
UpdateLost ==
  /\ kind \in Returns \ {"short"}
  /\ \/ kind = "torp" /\ info' = updateTorps.info /\ loc' = updateTorps.loc
     \/ kind = "plasma" /\ info' = updatePlasmas.info /\ loc' = updatePlasmas.loc
     \/ kind = "missile" /\ info' = updateMissiles.info /\ loc' = updateMissiles.loc
  /\ missed' = TRUE /\ updated' = FALSE
  /\ UNCHANGED <<weapon, pic>>

InvalidatedAsFree == IF kind = "missile" THEN info ELSE "TFREE"   \* mutant

(* Invalid is what is sent in any case; clientThingyStatus[] is left alone.*)
Invalidated == IF kind = "missile" THEN info ELSE "invalid"

forceUpdate ==
  /\ kind \in Returns
  /\ info' = Invalidated /\ missed' = FALSE
  /\ updated' = FALSE /\ UNCHANGED <<weapon, loc, pic>>

(* initClientData(), when a client is reached again that knows nothing.    *)
Reconnect ==
  /\ kind \in Returns
  /\ info' = Invalidated /\ loc' = "invalid"
  /\ pic' = [status |-> "TFREE", at |-> "away"] /\ missed' = FALSE
  /\ updated' = FALSE /\ UNCHANGED weapon

Next ==
  \/ Fired \/ Moves \/ Explodes \/ SwitchedOff \/ IsGone \/ Pause \/ Fades
  \/ updateClient \/ UpdateLost \/ forceUpdate \/ Reconnect

Spec == Init /\ [][Next]_vars

-----------------------------------------------------------------------------
(* Weapons the client is to be shown.                                      *)
Shown == owner = "me" \/ (at # "away" /\ ~(paused /\ owner = "foe"))

(* After an update the client shows a weapon as flying if and only if it   *)
(* flies and may be shown, although the server sends differences, lets     *)
(* explosions end by themselves, and may have lost what it sent before the *)
(* last full update.  ("otherwise you could have torps floating around     *)
(* forever", socket.c 3305.)                                               *)
PictureTrue ==
  updated /\ ~missed => (pic.status = "TMOVE" <=> status = "TMOVE" /\ Shown)

===============================================================================
