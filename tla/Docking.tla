------------------------------- MODULE Docking -------------------------------
(***************************************************************************)
(* Ships, bases and the life of a player slot, as far as they touch the    *)
(* docking table: every handler of the per-client server (ntserv) and      *)
(* every per-player step of the daemon's udplayers that docks, undocks,    *)
(* kills, frees or re-equips a player.                                     *)
(*                                                                         *)
(* One action is one handler run to its end; the processes interleave      *)
(* between handlers.  (DockRace looks inside one.)  Distances, speeds,     *)
(* teams and the kill timers are abstracted: where the code tests one of   *)
(* them the model lets either outcome happen.                              *)
(***************************************************************************)
EXTENDS DockTable

CONSTANTS
  ShipTypes,     \* ship classes (shipvals.c)
  NumPorts,      \* s_numports of each class
  Undockable,    \* classes with SFNUNDOCKABLE
  MassProduced,  \* classes with SFNMASSPRODUCED: they enter docked to a base
  MaxHull,       \* s_maxdamage of a base; the hull damage of a ship is not kept
  Erosion,       \* bound on the points of one hit that configvals->erosion
                 \*   takes from s_maxdamage instead of adding to p_damage
  Abrupt         \* which of the AbruptKinds may happen

(***************************************************************************)
(* The steps of the code that drop a player, or turn one into a base,      *)
(* without undoing the docking.  Each can be left out, to see what the     *)
(* rest of the code guarantees and what each of them breaks.               *)
(***************************************************************************)
AbruptKinds ==
  {"exit",      \* the ntserv of a live player leaves: exitGame, atexitfunc
   "freeslot",  \* "control freeslot" and "league freeslot": message.c
   "endgame",   \* the time of a league game is done: tourny.c, conquer.c
   "corpse",    \* follow_player steers a dead player into a bay: redraw.c
   "control",   \* "control player n ship": message.c
   "observer"}  \* an observer enters as a mass-produced ship

ASSUME ShipsAssumption ==
  /\ NumPorts \in [ShipTypes -> 0 .. MAXPORTS]
  /\ Undockable \subseteq ShipTypes
  /\ MassProduced \subseteq {t \in ShipTypes : NumPorts[t] = 0}
  /\ MaxHull \in Nat \ {0}
  /\ Erosion \in 0 .. DOCKDAMAGE
  /\ Abrupt \subseteq AbruptKinds

VARIABLES
  ntserv,     \* where the player's own process is: see Processes
  p_status,   \* struct player: p_status
  p_type,     \* p_ship, by its class
  p_damage,   \* hull damage of bases, 0 for other ships
  PFORBIT,    \* players with flag PFORBIT: orbiting a planet
  PFDOCKOK,   \* players with flag PFDOCKOK: docking permitted
  dock        \* PFDOCK, p_docked and p_port of every player

vars == <<ntserv, p_status, p_type, p_damage, PFORBIT, PFDOCKOK, dock>>

PFREE == "PFREE"        POUTFIT == "POUTFIT"    PALIVE == "PALIVE"
PEXPLODE == "PEXPLODE"  PDEAD == "PDEAD"        POBSERVE == "POBSERVE"
PTQUEUE == "PTQUEUE"
(* No process serves the slot, or the one that does is choosing a team and *)
(* ship in getEntry(), or obeys the client in input().  Two processes that *)
(* share a slot by the race of findslot are left to another model.         *)
Processes == {"none", "getEntry", "input"}

Statuses == {PFREE, POUTFIT, PALIVE, PEXPLODE, PDEAD, POBSERVE, PTQUEUE}

NumPortsOf == [p \in Player |-> NumPorts[p_type[p]]]
BaysOf(p) == Bays(NumPorts[p_type[p]])
AllowsDocking(p) == NumPorts[p_type[p]] > 0
CanDock(p) == NumPorts[p_type[p]] = 0 /\ p_type[p] \notin Undockable

(* Nobody is docked at p, nor is p docked.                                 *)
Undocked(p) == p \notin dock.PFDOCK /\ HoldsShip(dock, p, BaysOf(p)) = {}

(* A base puts every ship off: base_undock on all bays, and p_docked = 0.  *)
PutOffAll(d, p) == ClearDocked(BaseUndock(d, p, BaysOf(p)), p)

(* Mutants of LeaveTable: one of the two sides is forgotten.               *)
LeaveTableKeepsBays(d, p) == UndockPlayer(d, p)
LeaveTableKeepsShip(d, p) == IF AllowsDocking(p) THEN PutOffAll(d, p) ELSE d

(* The docking undone on both sides, as evaporate and doshipexplode do it. *)
LeaveTable(d, p) ==
  LET off == UndockPlayer(d, p) IN IF AllowsDocking(p) THEN PutOffAll(off, p) ELSE off

(* A step that forgets the docking: harmless when there is none to forget. *)
Forgets(kind, p) == Undocked(p) \/ kind \in Abrupt

(***************************************************************************)
(* main.c and daemonII.c: every slot starts free.                          *)
(***************************************************************************)
Init ==
  /\ ntserv = [p \in Player |-> "none"]
  /\ p_status = [p \in Player |-> PFREE]
  /\ p_type \in {[p \in Player |-> t] : t \in {u \in ShipTypes : NumPorts[u] = 0}}
  /\ p_damage = [p \in Player |-> 0]
  /\ PFORBIT = {}
  /\ PFDOCKOK = {}
  /\ dock = [PFDOCK |-> {}, p_docked |-> [p \in Player |-> 0],
             p_port |-> [p \in Player |-> [i \in PortNo |-> 0]]]

-----------------------------------------------------------------------------
(* The commands of the player's own ntserv.  input() reads them while the  *)
(* status is one of these; input_allowed() bars an observer's.             *)
Commanding(p) == ntserv[p] = "input" /\ p_status[p] \in {PALIVE, PEXPLODE, PDEAD}

(* set_speed, set_course, a tractor or pressor request, and orbit off:     *)
(* leave the base unless it moves faster than warp 4, and leave orbit.     *)
Disengage(p) ==
  /\ Commanding(p)
  /\ dock' = UndockPlayer(dock, p)
  /\ PFORBIT' = PFORBIT \ {p}
  /\ UNCHANGED <<ntserv, p_status, p_type, p_damage, PFDOCKOK>>

(* lock_player, lock_planet, and orbit off at a fast base.                 *)
LeaveOrbit(p) ==
  /\ Commanding(p)
  /\ PFORBIT' = PFORBIT \ {p}
  /\ UNCHANGED <<ntserv, p_status, p_type, p_damage, PFDOCKOK, dock>>

(* orbit.c: newdock, in a table d where p is not docked.  Any vacant bay   *)
(* may be the nearest.                                                     *)
NewDock(d, p, b) ==
  LET vacant == {i \in BaysOf(b) : d.p_port[b][i] = VACANT}
  IN IF b \in PFDOCKOK /\ vacant # {}
     THEN {DockTo(d, p, b, i) : i \in vacant}
     ELSE {d}

(* orbit() runs for the orbit command and, whatever the status, from the   *)
(* auto_features of every client update, in which death() may just have    *)
(* sent a dead player to the outfit screen.                                *)
MayOrbit(p) ==
  /\ Commanding(p)
  /\ p \notin PFORBIT
  /\ p_status' \in {p_status} \union
       (IF p_status[p] = PDEAD THEN {[p_status EXCEPT ![p] = POUTFIT]} ELSE {})

(* orbit() with a friendly base in range.                                  *)
OrbitBase(p, b) ==
  /\ MayOrbit(p)
  /\ p_status[p] = PDEAD => "corpse" \in Abrupt
  /\ CanDock(p)
  /\ b # p /\ AllowsDocking(b) /\ p_status[b] = PALIVE
  /\ dock' \in NewDock(UndockPlayer(dock, p), p, b)
  /\ UNCHANGED <<ntserv, p_type, p_damage, PFORBIT, PFDOCKOK>>

(* A mutant of OrbitPlanet: the ship stays at its bay.                     *)
OrbitPlanetStillDocked(p) ==
  /\ MayOrbit(p)
  /\ PFORBIT' \in {PFORBIT, PFORBIT \union {p}}
  /\ UNCHANGED <<ntserv, p_type, p_damage, PFDOCKOK, dock>>

(* orbit() with no base in range: orbit a planet, or only leave the base.  *)
OrbitPlanet(p) ==
  /\ MayOrbit(p)
  /\ dock' = UndockPlayer(dock, p)
  /\ PFORBIT' \in {PFORBIT, PFORBIT \union {p}}
  /\ UNCHANGED <<ntserv, p_type, p_damage, PFDOCKOK>>

(* handleDockingReq: permission on or off, after all ships are put off.    *)
DockPermission(p, on) ==
  /\ Commanding(p)
  /\ AllowsDocking(p)
  /\ dock' = PutOffAll(dock, p)
  /\ PFDOCKOK' = IF on THEN PFDOCKOK \union {p} ELSE PFDOCKOK \ {p}
  /\ UNCHANGED <<ntserv, p_status, p_type, p_damage, PFORBIT>>

(* declare_war: a docked ship leaves the base it is now at war with; a     *)
(* base that believes it has ships docked puts off the ones in bays S.     *)
DeclareWar(p, S) ==
  /\ Commanding(p)
  /\ IF p \in dock.PFDOCK THEN dock' = UndockPlayer(dock, p)
     ELSE /\ AllowsDocking(p) /\ dock.p_docked[p] > 0
          /\ dock' = BaseUndock(dock, p, S \intersect BaysOf(p))
  /\ UNCHANGED <<ntserv, p_status, p_type, p_damage, PFORBIT, PFDOCKOK>>

(* get_ship_for_player: the new ship is undamaged.                         *)
GetShip(p, t, d) ==
  /\ p_type' = [p_type EXCEPT ![p] = t]
  /\ p_damage' = [p_damage EXCEPT ![p] = 0]
  /\ dock' = NewShip(d, p, NumPorts[t])

(* do_refit: at a shipyard planet to anything, at a base to a plain ship.  *)
DoRefit(p, t) ==
  /\ Commanding(p)
  /\ \/ p \in PFORBIT
     \/ p \in dock.PFDOCK /\ NumPorts[t] = 0
  /\ GetShip(p, t, IF AllowsDocking(p) THEN BaseUndock(dock, p, BaysOf(p)) ELSE dock)
  /\ UNCHANGED <<ntserv, p_status, PFORBIT, PFDOCKOK>>

(* plutil.c: evaporate, then the caller's status: the tournament queue,    *)
(* observing, or back to the outfit screen.  Messages are read in every    *)
(* status, so these commands are too.                                      *)
Evaporate(p, s) ==
  /\ \/ p_status[p] \notin {PFREE, PTQUEUE} /\ s \in {PTQUEUE, POBSERVE}
     \/ p_status[p] = POBSERVE /\ s = POUTFIT
  /\ dock' = LeaveTable(dock, p)
  /\ PFORBIT' = PFORBIT \ {p}
  /\ p_status' = [p_status EXCEPT ![p] = s]
  /\ UNCHANGED <<ntserv, p_type, p_damage, PFDOCKOK>>

(* message.c, "control player n ship": anyone, docked or not, becomes t.   *)
ControlShip(p, t) ==
  /\ p_status[p] # PFREE
  /\ p \in dock.PFDOCK /\ NumPorts[t] > 0 => "control" \in Abrupt
  /\ GetShip(p, t, IF AllowsDocking(p) THEN BaseUndock(dock, p, BaysOf(p)) ELSE dock)
  /\ UNCHANGED <<ntserv, p_status, PFORBIT, PFDOCKOK>>

-----------------------------------------------------------------------------
(* Changes of p_status and ntserv alone.                                   *)
SetBoth(p, s, w) ==
  /\ p_status' = [p_status EXCEPT ![p] = s]
  /\ ntserv' = [ntserv EXCEPT ![p] = w]
  /\ UNCHANGED <<p_type, p_damage, PFORBIT, PFDOCKOK, dock>>

SetStatus(p, s) == SetBoth(p, s, ntserv[p])

(* findslot: a new ntserv takes a free slot.                               *)
FindSlot(p) == p_status[p] = PFREE /\ ntserv[p] = "none" /\ SetBoth(p, POUTFIT, "getEntry")

(* input() ends, and the main loop asks for a new team and ship.           *)
LeaveInput(p) ==
  /\ ntserv[p] = "input" /\ p_status[p] \in {POUTFIT, PTQUEUE}
  /\ SetBoth(p, p_status[p], "getEntry")

(* exitGame and atexitfunc: the ntserv process ends, whatever the status.  *)
Exit(p) == ntserv[p] # "none" /\ Forgets("exit", p) /\ SetBoth(p, PFREE, "none")

(* Killed by the server itself: self-destruct, authentication, "control    *)
(* player n die", a defection in a league.                                 *)
Kill(p) == p_status[p] # PFREE /\ SetStatus(p, PEXPLODE)

(* death(), called by intrupt.                                             *)
Death(p) == ntserv[p] = "input" /\ p_status[p] = PDEAD /\ SetStatus(p, POUTFIT)

(* detourneyqueue, called by getEntry in tournament mode.                  *)
Detourneyqueue(p) == ntserv[p] = "getEntry" /\ p_status[p] = PTQUEUE /\ SetStatus(p, POUTFIT)

(* intrupt and getEntry: "Have we been busted?"                            *)
Busted(p) == ntserv[p] # "none" /\ p_status[p] = PFREE /\ SetStatus(p, PDEAD)

(* An observer quits to the queue, or the league lets him play.            *)
LeaveBench(p) ==
  /\ p_status[p] = POBSERVE
  /\ Forgets("observer", p)
  /\ \E s \in {PTQUEUE, POUTFIT} : SetStatus(p, s)

(* "control freeslot n" of message.c.                                      *)
FreeSlot(p) == Forgets("freeslot", p) /\ SetStatus(p, PFREE)

(* plutil.c: explode_everyone, for the players that have lived minlive.    *)
ExplodeEveryone ==
  /\ \E S \in SUBSET {p \in Player : p_status[p] \in {PALIVE, POBSERVE}} :
       p_status' = [p \in Player |-> IF p \in S THEN PEXPLODE ELSE p_status[p]]
  /\ UNCHANGED <<ntserv, p_type, p_damage, PFORBIT, PFDOCKOK, dock>>

(* conquer.c, called by endtourn of tourny.c when the time of a league game*)
(* is done: everyone is sent to the outfit screen.  (checkwin calls it too,*)
(* for a conquered galaxy, and then ends the daemon.)                      *)
EndgameEffects ==
  /\ \A p \in Player : Forgets("endgame", p)
  /\ p_status' = [p \in Player |-> IF p_status[p] = PFREE THEN PFREE ELSE POUTFIT]
  /\ UNCHANGED <<ntserv, p_type, p_damage, PFORBIT, PFDOCKOK, dock>>

(* main.c and enter.c: an ntserv that has chosen a ship enters the game,   *)
(* even if the slot was freed, killed or sent to observe meanwhile.        *)
(* A mass-produced ship is docked to a base b of its side that believes it *)
(* has room; enter() first forgets whatever docking the slot still had.    *)
EnterTable(p, t) ==
  LET d == ClearDocked(NewShip(dock, p, NumPorts[t]), p)
  IN [PFDOCK |-> d.PFDOCK \ {p}, p_docked |-> d.p_docked, p_port |-> d.p_port]

Hosts(p) == {b \in Player \ {p} : /\ AllowsDocking(b) /\ p_status[b] = PALIVE
                                  /\ b \in PFDOCKOK
                                  /\ dock.p_docked[b] < NumPorts[p_type[b]]}

Enter(p, t) ==
  /\ ntserv[p] = "getEntry"
  /\ ntserv' = [ntserv EXCEPT ![p] = "input"]
  /\ p_type' = [p_type EXCEPT ![p] = t]
  /\ p_damage' = [p_damage EXCEPT ![p] = 0]
  /\ PFORBIT' = PFORBIT \ {p}
  /\ PFDOCKOK' = IF NumPorts[t] > 0 THEN PFDOCKOK \union {p} ELSE PFDOCKOK \ {p}
  /\ \/ dock' = EnterTable(p, t)
     \/ /\ t \in MassProduced
        /\ \E b \in Hosts(p) : dock' \in NewDock(EnterTable(p, t), p, b)
  /\ \E s \in {PALIVE, POBSERVE} :
       /\ s = POBSERVE /\ p \in dock'.PFDOCK => "observer" \in Abrupt
       /\ p_status' = [p_status EXCEPT ![p] = s]

-----------------------------------------------------------------------------
(* The daemon.  udplayers() does, for one player per step, what the switch *)
(* on p_status says; timers run out when they like.                        *)

(* dutil.c: inflict_damage, on the hull.  Of a plain ship only death is    *)
(* modelled, so every modelled hit kills it.                               *)
HullAfter(q, h, hit) ==
  IF AllowsDocking(q) THEN (IF h + hit > MaxHull THEN MaxHull ELSE h + hit) ELSE h
Dies(q, h, hit) == AllowsDocking(q) => h + hit >= MaxHull

(* Torpedoes, phasers, plasma, missiles, planets, stars: somebody is hit.  *)
Hit(p, hit) ==
  /\ p_status[p] = PALIVE
  /\ p_damage' = [p_damage EXCEPT ![p] = HullAfter(p, @, hit)]
  /\ p_status' = [p_status EXCEPT ![p] = IF Dies(p, p_damage[p], hit) THEN PEXPLODE ELSE @]
  /\ UNCHANGED <<ntserv, p_type, PFORBIT, PFDOCKOK, dock>>

(* dotractor of j on victim v, in the state its own step has reached: a    *)
(* ship is pulled out of orbit, or off its base, which costs both of them  *)
(* DOCKDAMAGE on the hull and the base a bay.                              *)
PullOff(v, d, st, h) ==
  LET b == d.p_docked[v]
      i == d.p_port[v][0]
  IN \E e \in 0 .. Erosion, vDies \in BOOLEAN :
       /\ dock' = DamageBay(UndockPlayer(d, v), b, i)
       /\ p_damage' = [h EXCEPT ![b] = HullAfter(b, @, DOCKDAMAGE - e)]
       /\ p_status' = [q \in Player |->
            IF (q = v /\ vDies) \/ (q = b /\ Dies(b, h[b], DOCKDAMAGE)) THEN PEXPLODE
            ELSE st[q]]
       /\ PFORBIT' = PFORBIT

Tractor(j, v, d, st, h) ==
  /\ v # j /\ st[v] = PALIVE
  /\ j \notin PFORBIT /\ j \notin d.PFDOCK
  /\ IF v \notin PFORBIT /\ v \in d.PFDOCK THEN PullOff(v, d, st, h)
     ELSE /\ PFORBIT' = PFORBIT \ {v}
          /\ dock' = d /\ p_status' = st /\ p_damage' = h

(* doresources: hull damage h may be repaired to any of these, and never   *)
(* beyond zero, which a mutant forgets.                                    *)
RepairedBelowZero(h) == -1 .. h
Repaired(h) == 0 .. h

(* A live player: perhaps ghostbusted (but still handled in this round),   *)
(* repaired to hull damage h, docking ring repaired, tractor applied.      *)
UdAlive(j) ==
  /\ p_status[j] = PALIVE
  /\ \E s \in {PALIVE, PEXPLODE}, h \in Repaired(p_damage[j]) :
       LET d    == IF AllowsDocking(j) THEN RepairRing(dock, j, NumPorts[p_type[j]], h) ELSE dock
           st   == [p_status EXCEPT ![j] = s]
           hull == [p_damage EXCEPT ![j] = h]
       IN \/ /\ dock' = d /\ p_status' = st /\ p_damage' = hull
             /\ PFORBIT' = PFORBIT
          \/ \E v \in Player : Tractor(j, v, d, st, hull)
  /\ UNCHANGED <<ntserv, p_type, PFDOCKOK>>

(* doshipexplode: the blast hits live players around, then the exploding   *)
(* player leaves its base, its bays are emptied, and perhaps it is over.   *)
UdExplode(j) ==
  /\ p_status[j] = PEXPLODE
  /\ \E V \in SUBSET {q \in Player \ {j} : p_status[q] = PALIVE}, hit \in 1 .. MaxHull,
        s \in {PEXPLODE, PDEAD} :
       /\ p_damage' = [q \in Player |-> IF q \in V THEN HullAfter(q, p_damage[q], hit)
                                        ELSE p_damage[q]]
       /\ p_status' = [q \in Player |-> IF q = j THEN s
                                        ELSE IF q \in V /\ Dies(q, p_damage[q], hit) THEN PEXPLODE
                                        ELSE p_status[q]]
  /\ dock' = LeaveTable(dock, j)
  /\ PFORBIT' = PFORBIT \ {j}
  /\ UNCHANGED <<ntserv, p_type, PFDOCKOK>>

(* The ghost timer of a player who is not in the game.                     *)
UdOut(j) ==
  \/ p_status[j] = PDEAD /\ SetStatus(j, POUTFIT)
  \/ p_status[j] \in {POUTFIT, PTQUEUE} /\ SetStatus(j, PFREE)
  \/ p_status[j] = POBSERVE /\ Forgets("observer", j) /\ SetStatus(j, PFREE)

UdPlayer(j) == UdAlive(j) \/ UdExplode(j) \/ UdOut(j)

-----------------------------------------------------------------------------
Next ==
  \/ \E p \in Player :
       \/ Disengage(p) \/ LeaveOrbit(p) \/ OrbitPlanet(p)
       \/ FindSlot(p) \/ LeaveInput(p) \/ Exit(p) \/ Kill(p) \/ Death(p)
       \/ Detourneyqueue(p) \/ Busted(p) \/ LeaveBench(p) \/ FreeSlot(p)
       \/ \E b \in Player : OrbitBase(p, b)
       \/ \E on \in BOOLEAN : DockPermission(p, on)
       \/ \E S \in SUBSET PortNo : DeclareWar(p, S)
       \/ \E t \in ShipTypes : DoRefit(p, t) \/ ControlShip(p, t) \/ Enter(p, t)
       \/ \E s \in {PTQUEUE, POBSERVE, POUTFIT} : Evaporate(p, s)
       \/ \E hit \in 1 .. MaxHull : Hit(p, hit)
       \/ UdPlayer(p)
  \/ ExplodeEveryone
  \/ EndgameEffects

Spec == Init /\ [][Next]_vars

(* The daemon's timer signal keeps calling udplayers while the game is not *)
(* paused, so every player's step is taken again and again.                *)
FairSpec == Spec /\ \A p \in Player : WF_vars(UdExplode(p))

-----------------------------------------------------------------------------
TypeOK ==
  /\ ntserv \in [Player -> Processes]
  /\ p_status \in [Player -> Statuses]
  /\ p_type \in [Player -> ShipTypes]
  /\ p_damage \in [Player -> 0 .. MaxHull]
  /\ PFORBIT \subseteq Player
  /\ PFDOCKOK \subseteq Player
  /\ dock \in DockTables

(* The two ends of every docking agree and every base counts its ships     *)
(* right: what plutil.c, orbit.c and player.c keep together by hand, in    *)
(* two structs and three fields, across a dozen handlers.                  *)
TableConsistent == Consistent(dock, NumPortsOf)

(* A docked ship is in the game or exploding, and so is its base: death,   *)
(* evaporation and refitting never leave a live ship at a bay of a corpse, *)
(* nor a corpse at a bay of a live base.                                   *)
DockedAreInGame ==
  \A s \in dock.PFDOCK :
    /\ p_status[s] \in {PALIVE, PEXPLODE}
    /\ p_status[dock.p_docked[s]] \in {PALIVE, PEXPLODE}

(* A process outside its input loop has no docking to lose: enter() clears *)
(* PFDOCK and p_docked of the slot without undocking anybody, so all that  *)
(* leads back to the outfit screen must have done so before.               *)
OutsideUndocked ==
  \A p \in Player : ntserv[p] # "input" => p_status[p] # PALIVE /\ Undocked(p)

(* No ship is in orbit and docked at once.  do_refit relies on it: only    *)
(* its orbit branch allows a base, and a docked ship must not become one.  *)
OrbitOrDock == PFORBIT \intersect dock.PFDOCK = {}

(* The docking ring is never more damaged than the hull accounts for: the  *)
(* rule by which repair_docking_ring ends holds at every moment, through   *)
(* pulls, hits, refits and repairs, as long as hits are not eroded.        *)
RingMatchesHull ==
  \A b \in Player :
    LET damaged == Cardinality(DamagedBays(dock, b, NumPorts[p_type[b]]))
    IN AllowsDocking(b) /\ damaged > 0 => (damaged - 1) * DOCKDAMAGE < p_damage[b]

(* A ship is moored or in orbit as its hull and its docking field say.     *)
MooredRight == OrbitOrDock /\ RingMatchesHull

(* What struct.h:524-526 says of p_docked and p_port ("If SB, # docked to",*)
(* "If SB, pno of ship docked to that port"), of the bases in the game.    *)
BaysAsDocumented ==
  \A b \in Player : p_status[b] = PALIVE /\ AllowsDocking(b) =>
    LET held == HoldsShip(dock, b, BaysOf(b))
    IN /\ dock.p_docked[b] = Cardinality(held)
       /\ \A i \in held : LET s == dock.p_port[b][i]
                         IN s \in dock.PFDOCK /\ dock.p_docked[s] = b /\ dock.p_port[s][0] = i

(* Whoever is docked to an exploding base is put off, and an exploding     *)
(* ship leaves its bay: neither stays docked for good.                     *)
ExplosionUndocks ==
  \A p \in Player : (p_status[p] = PEXPLODE /\ ~Undocked(p)) ~> Undocked(p)
=============================================================================
