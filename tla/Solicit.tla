------------------------------- MODULE Solicit -------------------------------
(***************************************************************************)
(* Reports to the metaservers (daemon/solicit.c): the daemon calls         *)
(* solicit() at regular intervals, the unit of time here.  A metaserver is *)
(* told of a game that has changed, but not again before its minimum, and  *)
(* at its maximum even if nothing has changed.  What sendto() accepts is   *)
(* taken to arrive.                                                        *)
(***************************************************************************)
EXTENDS Integers

CONSTANTS
  Metas,      \* number of metaservers
  minimum, maximum,
  Reports,    \* what there is to tell of the game
  Hosts,      \* names under which metaservers know this server
  Fails       \* a transmission can fail

VARIABLES
  game,     \* what there is to tell
  ours,     \* this.host.name of each metaserver
  age,      \* now - sent
  prior,    \* last packet of each, NoPacket at first
  known,    \* what the metaserver has been told of the game
  wrong,    \* calls since what it knows was right, or a transmission failed
  failing   \* the last transmission failed, or there was none

vars == <<game, ours, age, prior, known, wrong, failing>>

Meta == 1..Metas
NoPacket == [game |-> "", ours |-> ""]
Ages == 0..(maximum + 2)
Older(n) == IF n = maximum + 2 THEN n ELSE n + 1

TypeOK ==
  /\ game \in Reports /\ ours \in [Meta -> Hosts] /\ age \in [Meta -> Ages]
  /\ prior \in [Meta -> [game : Reports, ours : Hosts] \cup {NoPacket}]
  /\ known \in [Meta -> Reports \cup {""}]
  /\ wrong \in [Meta -> Ages] /\ failing \in [Meta -> BOOLEAN]

(* The list of metaservers has been read.                                  *)
Init ==
  /\ game \in Reports /\ ours \in [Meta -> Hosts]
  /\ age = [m \in Meta |-> maximum + 2]
  /\ prior = [m \in Meta |-> NoPacket] /\ known = [m \in Meta |-> ""]
  /\ wrong = [m \in Meta |-> 0] /\ failing = [m \in Meta |-> TRUE]

GameChanges ==
  /\ game' \in Reports \ {game}
  /\ UNCHANGED <<ours, age, prior, known, wrong, failing>>

-----------------------------------------------------------------------------
Now == [m \in Meta |-> Older(age[m])]

(* One that is over its maximum forces its own report and those of all     *)
(* that come after it in the list.                                         *)
Forced(m) == \E k \in 1..m : Now[k] > maximum

(* Not told recently, or one before it is over its maximum.                *)
Due(m) == Forced(m - 1) \/ Now[m] >= minimum

(* The packet is made once, for the first that is due.                     *)
First == CHOOSE m \in Meta : Due(m) /\ \A k \in Meta : Due(k) => m <= k
Packet == [game |-> game, ours |-> ours[First]]

Told == {m \in Meta : Due(m) /\ (Forced(m) \/ prior[m] # Packet)}

(* Mutant: the packet is remembered even if it could not be sent.          *)
RememberedAnyway(sent) == [m \in Meta |-> IF m \in Told THEN Packet ELSE prior[m]]

Remembered(sent) == [m \in Meta |-> IF m \in sent THEN Packet ELSE prior[m]]

solicit ==
  \E sent \in IF Fails THEN SUBSET Told ELSE {Told} :
    /\ age' = [m \in Meta |-> IF m \in sent THEN 0 ELSE Now[m]]
    /\ prior' = Remembered(sent)
    /\ known' = [m \in Meta |-> IF m \in sent THEN game ELSE known[m]]
    /\ wrong' = [m \in Meta |-> IF known'[m] = game \/ m \in Told \ sent THEN 0 ELSE Older(wrong[m])]
    /\ failing' = [m \in Meta |-> IF m \in Told THEN m \notin sent ELSE failing[m]]
    /\ UNCHANGED <<game, ours>>

Next == GameChanges \/ solicit

Spec == Init /\ [][Next]_vars

-----------------------------------------------------------------------------
(* Unless transmissions fail, what a metaserver knows of the game is not   *)
(* wrong for longer than its minimum, it is told something at least once   *)
(* in its maximum, and it is told the name under which it knows this       *)
(* server.                                                                 *)
ReportsFresh ==
  \A m \in Meta :
    /\ wrong[m] < minimum
    /\ age[m] <= maximum \/ failing[m]
    /\ prior[m] # NoPacket => prior[m].ours = ours[m]

(* Nobody is told again before his minimum.                                *)
NotTooOften == [][\A m \in Meta : age'[m] = 0 => age[m] + 1 >= minimum]_vars
=============================================================================
