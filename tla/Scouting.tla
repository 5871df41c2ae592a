-------------------------------- MODULE Scouting --------------------------------
(***************************************************************************)
(* What teams know of a planet, and what a player of one team is shown.    *)
(* pl_tinfo[t] is what team t was told of the planet, by scouting it, by   *)
(* fighting for it, or because it is theirs; whoever changes a planet has  *)
(* to tell its owner (daemon/planets.c, daemon/player.c, common/plutil.c,  *)
(* updatePlanets of ntserv/socket.c).  Planets.tla has the armies' moves   *)
(* in full; here they matter for who is told.  Of the facilities there is  *)
(* the fuel depot; the others differ in their timers.  Timestamps, which   *)
(* only make the server send more often, are left out.                     *)
(***************************************************************************)
EXTENDS Integers

CONSTANTS
  Team, NOBODY,
  Me,            \* the team of the player whose client it is
  MAXARMIES,     \* bound on the armies of the planet
  Safe,          \* 4: so few armies are not bombed
  PLGFUEL        \* the fuel timer's limit

Owners == Team \cup {NOBODY}

VARIABLES
  pl_owner, pl_armies,
  PLFUEL,        \* the planet has a fuel depot
  pl_tfuel,
  pl_hinfo,      \* the teams that have information
  pl_tinfo,      \* what each has been told: [owner, armies, fuel]; that of NOBODY,
                 \* which is written, too, is never read
  packet,        \* clientPlanets2[] of one player, which is also what his client shows;
                 \* info: whether the bit of his own team is set
  updated,       \* history: the step was updateClient()
  untold         \* history: the planet was changed and nobody was told, since the
                 \* last reset of the galaxy

planet == <<pl_owner, pl_armies, PLFUEL, pl_tfuel>>
told == <<pl_hinfo, pl_tinfo>>
vars == <<planet, told, packet, updated, untold>>

Information == [owner : Owners, armies : -1 .. MAXARMIES, fuel : BOOLEAN]
Truth == [owner |-> pl_owner, armies |-> pl_armies, fuel |-> PLFUEL]
NoInformation == [owner |-> NOBODY, armies |-> 0, fuel |-> FALSE]

(* A galaxy as it is generated: an owner knows his planets.                *)
NewGalaxy(owner, armies, fuel) ==
  /\ owner # NOBODY => armies > 0
  /\ pl_tfuel' = IF fuel THEN PLGFUEL ELSE 0
  /\ pl_owner' = owner /\ pl_armies' = armies /\ PLFUEL' = fuel
  /\ pl_hinfo' = {owner} \ {NOBODY}
  /\ pl_tinfo' = [t \in Team |-> IF t = owner
                                 THEN [owner |-> owner, armies |-> armies, fuel |-> fuel]
                                 ELSE NoInformation]

Init ==
  /\ \E t \in Team : /\ pl_owner = t /\ pl_armies = MAXARMIES /\ PLFUEL = TRUE
                     /\ pl_tfuel = PLGFUEL /\ pl_hinfo = {t}
                     /\ pl_tinfo = [u \in Team |-> IF u = t THEN Truth ELSE NoInformation]
  /\ packet = [info |-> FALSE, of |-> [NoInformation EXCEPT !.armies = -1]]
  /\ updated = FALSE /\ untold = FALSE

-----------------------------------------------------------------------------
ClientUnchanged == updated' = FALSE /\ UNCHANGED <<packet, untold>>

scout_planet(t) ==
  /\ pl_hinfo' = pl_hinfo \cup {t}
  /\ pl_tinfo' = IF pl_owner # t THEN [pl_tinfo EXCEPT ![t] = Truth] ELSE pl_tinfo
  /\ UNCHANGED planet /\ ClientUnchanged

(* The timer grows with the armies, and faster with a starbase in orbit.   *)
growplanets ==
  /\ pl_owner # NOBODY
  /\ \E grown \in pl_tfuel .. PLGFUEL :
       /\ pl_tfuel' = grown
       /\ IF ~PLFUEL /\ grown = PLGFUEL
          THEN PLFUEL' = TRUE /\ pl_tinfo' = [pl_tinfo EXCEPT ![pl_owner].fuel = TRUE]
          ELSE UNCHANGED <<PLFUEL, pl_tinfo>>
  /\ UNCHANGED <<pl_owner, pl_armies, pl_hinfo>> /\ ClientUnchanged

Both(t, f) == [u \in Team |-> IF u \in {pl_owner, t} THEN f[u] ELSE pl_tinfo[u]]

(* pbomb(), armies: at least one is left, and both sides are told.         *)
BombArmies(t) ==
  /\ pl_owner # t /\ pl_armies > Safe
  /\ \E left \in 1 .. pl_armies - 1 :
       /\ pl_armies' = left
       /\ pl_tinfo' = Both(t, [u \in Team |-> [pl_tinfo[u] EXCEPT !.armies = left]])
  /\ UNCHANGED <<pl_owner, PLFUEL, pl_tfuel, pl_hinfo>> /\ ClientUnchanged

blast_resource_bomber_only(t) ==   \* mutant: the owner is not told
  [pl_tinfo EXCEPT ![t].fuel = FALSE]

blast_resource(t) == Both(t, [u \in Team |-> [pl_tinfo[u] EXCEPT !.fuel = FALSE]])

(* pbomb(), the depot: its timer is knocked down, and at 0 it is gone.  A  *)
(* ship that cannot bomb armies bombs facilities whatever the armies.      *)
BombFuel(t) ==
  /\ pl_owner # t
  /\ \E left \in 0 .. pl_tfuel :
       /\ pl_tfuel' = left
       /\ IF left = 0 /\ PLFUEL THEN PLFUEL' = FALSE /\ pl_tinfo' = blast_resource(t)
          ELSE UNCHANGED <<PLFUEL, pl_tinfo>>
  /\ UNCHANGED <<pl_owner, pl_armies, pl_hinfo>> /\ ClientUnchanged

-----------------------------------------------------------------------------
(* Armies, and planets that become nobody's.                               *)

Lost(info) == [info EXCEPT ![pl_owner].owner = NOBODY]

(* Growth or famine, of NOBODY's planets as well.                          *)
pop_one_planet ==
  /\ \E n \in 0 .. MAXARMIES :
       /\ pl_armies' = n
       /\ IF n = 0
          THEN /\ pl_owner' = NOBODY
               /\ pl_tinfo' = [u \in Team |-> IF u # pl_owner THEN pl_tinfo[u]
                                              ELSE [pl_tinfo[u] EXCEPT !.armies = 0, !.owner = NOBODY]]
          ELSE /\ pl_tinfo' = [u \in Team |-> IF u # pl_owner THEN pl_tinfo[u]
                                              ELSE [pl_tinfo[u] EXCEPT !.armies = n]]
               /\ UNCHANGED pl_owner
  /\ UNCHANGED <<PLFUEL, pl_tfuel, pl_hinfo>> /\ ClientUnchanged

(* An army dies in a revolt, or it succeeds, and leaves the last one.      *)
revolt ==
  /\ pl_owner # NOBODY
  /\ \/ /\ pl_armies = 2 /\ pl_armies' = 1
        /\ pl_tinfo' = [pl_tinfo EXCEPT ![pl_owner].armies = 1]
        /\ UNCHANGED pl_owner
     \/ /\ pl_armies = 1 /\ pl_owner' = NOBODY
        /\ pl_tinfo' = Lost(pl_tinfo) /\ UNCHANGED pl_armies
  /\ UNCHANGED <<PLFUEL, pl_tfuel, pl_hinfo>> /\ ClientUnchanged

beammeupscotty(t) ==
  /\ pl_owner = t /\ pl_armies > 0
  /\ pl_armies' = pl_armies - 1
  /\ LET counted == [pl_tinfo EXCEPT ![t].armies = pl_armies - 1] IN
     IF pl_armies = 1 THEN pl_owner' = NOBODY /\ pl_tinfo' = Lost(counted)
     ELSE pl_tinfo' = counted /\ UNCHANGED pl_owner
  /\ UNCHANGED <<PLFUEL, pl_tfuel, pl_hinfo>> /\ ClientUnchanged

ReinforcePlanet(t) ==
  /\ pl_owner = t /\ pl_armies < MAXARMIES
  /\ pl_armies' = pl_armies + 1
  /\ pl_tinfo' = [pl_tinfo EXCEPT ![t].armies = pl_armies + 1]
  /\ UNCHANGED <<pl_owner, PLFUEL, pl_tfuel, pl_hinfo>> /\ ClientUnchanged

(* An army is beamed to a foreign planet: it kills one, the last one, or,  *)
(* when there is none, takes the planet.  The defenders may kill it.       *)
InvadePlanet(t) ==
  /\ pl_owner # t
  /\ \/ \E left \in {pl_armies - 1, pl_armies} \ {-1, 0} :
            /\ pl_armies' = left
            /\ pl_tinfo' = Both(t, [u \in Team |-> [pl_tinfo[u] EXCEPT !.armies = left]])
            /\ UNCHANGED <<pl_owner, pl_hinfo>>
     \/ /\ pl_armies = 1
        /\ pl_armies' = 0 /\ pl_owner' = NOBODY
        /\ pl_tinfo' = Both(t, [u \in Team |-> [pl_tinfo[u] EXCEPT !.armies = 0, !.owner = NOBODY]])
        /\ UNCHANGED pl_hinfo
     \/ /\ pl_armies = 0
        /\ pl_armies' = 1 /\ pl_owner' = t /\ pl_hinfo' = pl_hinfo \cup {t}
        /\ pl_tinfo' = [pl_tinfo EXCEPT ![t] = [owner |-> t, armies |-> 1, fuel |-> PLFUEL]]
  /\ UNCHANGED <<PLFUEL, pl_tfuel>> /\ ClientUnchanged

(* countplanets(): the losers' planets are nobody's.                       *)
Surrender ==
  /\ pl_owner # NOBODY
  /\ pl_owner' = NOBODY /\ pl_armies' = 0
  /\ untold' = TRUE /\ updated' = FALSE
  /\ UNCHANGED <<PLFUEL, pl_tfuel, told, packet>>

(* ghostmess(): a lost player's armies are placed on a planet of his team. *)
ghostmess ==
  /\ pl_owner # NOBODY /\ pl_armies < MAXARMIES
  /\ pl_armies' = pl_armies + 1
  /\ untold' = TRUE /\ updated' = FALSE
  /\ UNCHANGED <<pl_owner, PLFUEL, pl_tfuel, told, packet>>

(* resetgalaxy(), and starttourn(), which keeps the planet and forgets who *)
(* but the owner has information.                                          *)
resetgalaxy ==
  /\ \E owner \in Owners, armies \in {0, MAXARMIES}, fuel \in BOOLEAN : NewGalaxy(owner, armies, fuel)
  /\ untold' = FALSE /\ updated' = FALSE /\ UNCHANGED packet

starttourn ==
  /\ pl_hinfo' = {pl_owner} \ {NOBODY}
  /\ UNCHANGED <<planet, pl_tinfo>> /\ ClientUnchanged

-----------------------------------------------------------------------------
(* updatePlanets() of a player of team Me, without durablescouting, which  *)
(* shows everybody the truth.  What differs is sent.                       *)
updatePlanets ==
  /\ packet' = IF Me \notin pl_hinfo /\ packet.info
               THEN [info |-> FALSE, of |-> [packet.of EXCEPT !.fuel = FALSE]]
               ELSE [info |-> Me \in pl_hinfo, of |-> pl_tinfo[Me]]
  /\ updated' = TRUE
  /\ UNCHANGED <<planet, told, untold>>

Next ==
  \/ \E t \in Team : \/ scout_planet(t) \/ BombArmies(t) \/ BombFuel(t)
                     \/ beammeupscotty(t) \/ ReinforcePlanet(t) \/ InvadePlanet(t)
  \/ growplanets \/ pop_one_planet \/ revolt \/ Surrender \/ ghostmess
  \/ resetgalaxy \/ starttourn \/ updatePlanets

Spec == Init /\ [][Next]_vars

-----------------------------------------------------------------------------
TypeOK ==
  /\ pl_owner \in Owners /\ pl_armies \in 0 .. MAXARMIES
  /\ PLFUEL \in BOOLEAN /\ pl_tfuel \in 0 .. PLGFUEL
  /\ pl_hinfo \subseteq Team /\ pl_tinfo \in [Team -> Information]

(* A team that owns a planet knows that, its armies and its facilities,    *)
(* its client shows it so after an update, and a team that believes it     *)
(* owns the planet does, whoever has bombed, taken, starved or abandoned   *)
(* it; but nobody is told of a surrender, nor of the armies that           *)
(* ghostmess() places.                                                     *)
OwnerKnows ==
  ~untold => /\ \A t \in Team : /\ pl_tinfo[t].owner = t <=> pl_owner = t
                               /\ pl_owner = t => t \in pl_hinfo /\ pl_tinfo[t] = Truth
             /\ updated /\ pl_owner = Me => packet.info /\ packet.of = Truth

===============================================================================
