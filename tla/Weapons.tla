-------------------------------- MODULE Weapons --------------------------------
(***************************************************************************)
(* Torpedoes, plasma, missiles, fighters and phasers: fired and detonated  *)
(* by the processes of the players, flown, exploded and freed by the       *)
(* daemon (common/torp.c, phaser.c, detonate.c, ntserv/plasma.c,           *)
(* missile.c, socket.c, daemon/weapons.c).  Every player has slots of his  *)
(* own in the shared arrays, and counters of the slots in use, which       *)
(* nobody locks; a dead player waits until his weapons are gone, for       *)
(* enter() resets the counters.                                            *)
(*                                                                         *)
(* A process handles one command, or one torpedo of detothers()'s loop, in *)
(* a step, the daemon one slot.  Fuses, courses, distances, fuel and heat  *)
(* are choices.                                                            *)
(***************************************************************************)
EXTENDS Integers, FiniteSets

CONSTANTS
  MAXPLAYER,
  MAXTORP,      \* torpedoes a player may have in flight (8)
  NPTHINGIES,   \* missiles or fighters (16)
  RACK,         \* missiles in a new ship's rack; fighters that come aboard at a time
  Armed,        \* bound: players who fire torpedoes and plasma
  Racked,       \* bound: players who fire missiles
  Carriers,     \* players whose ships may have fighters for missiles
  Hasty,        \* players whose slot is taken over while their weapons fly
  Slow,         \* players whose process may be interrupted in detothers()
  Nuked,        \* explode_everyone() comes while weapons fly
  Counts        \* bound: values of the counters

Player == 1 .. MAXPLAYER

ASSUME WeaponsAssumption ==
  /\ MAXPLAYER \in Nat \ {0} /\ MAXTORP \in Nat \ {0} /\ NPTHINGIES \in Nat \ {0} /\ RACK \in Nat
  /\ Armed \cup Racked \cup Carriers \cup Hasty \cup Slow \subseteq Player /\ Nuked \in BOOLEAN
  /\ Counts \subseteq Int

VARIABLES
  p_status,       \* "alive", "explode", "dead" (also POUTFIT, before death()), "outfit" (also PFREE)
  carrier,        \* the ship has SFNHASFIGHTERS
  stored,         \* s_missilestored
  p_ntorp, p_nplasmatorp, p_nthingys,
  torp,           \* of every slot t_status and t_owner
  plasma,         \* of every player's one slot pt_status and pt_owner
  missile,        \* of every slot ms_status, whether ms_type is FIGHTERTHINGY, fi_hasfired
  aim             \* the torpedo a process has looked at and is going to detonate

vars == <<p_status, carrier, stored, p_ntorp, p_nplasmatorp, p_nthingys, torp, plasma, missile, aim>>
ships == <<p_status, carrier>>
racks == <<stored, p_nthingys, missile>>

TorpSlots == Player \X (1 .. MAXTORP)
MissileSlots == Player \X (1 .. NPTHINGIES)
NoSlot == <<0, 0>>

Gone == [status |-> "TFREE", owner |-> 1]  \* zeroed memory
NoMissile == [status |-> "TFREE", fighter |-> FALSE, fired |-> FALSE]
Live(x) == x.status # "TFREE"
Flying(x) == x.status = "TMOVE"

Torps(p) == {i \in 1 .. MAXTORP : Live(torp[<<p, i>>])}
Missiles(p) == {i \in 1 .. NPTHINGIES : Live(missile[<<p, i>>])}

Init ==
  /\ p_status = [p \in Player |-> "outfit"] /\ carrier = [p \in Player |-> FALSE]
  /\ stored = [p \in Player |-> 0] /\ p_nthingys = [p \in Player |-> 0]
  /\ p_ntorp = [p \in Player |-> 0] /\ p_nplasmatorp = [p \in Player |-> 0]
  /\ torp = [s \in TorpSlots |-> Gone] /\ plasma = [p \in Player |-> Gone]
  /\ missile = [s \in MissileSlots |-> NoMissile]
  /\ aim = [p \in Player |-> NoSlot]

-----------------------------------------------------------------------------
(* Lives *)

(* inflict_damage(): one more player, or nobody, is hurt too much.         *)
Dies(v) == p_status' = [p_status EXCEPT ![v] = IF @ = "alive" THEN "explode" ELSE @]
Hurt(others) == UNCHANGED p_status \/ \E v \in others : p_status[v] = "alive" /\ Dies(v)

(* enter(); a carrier's fighters come aboard later, as armies.             *)
enter(p) ==
  /\ p_status[p] = "outfit"
  /\ p_status' = [p_status EXCEPT ![p] = "alive"]
  /\ \E c \in IF p \in Carriers THEN BOOLEAN ELSE {FALSE} :
       /\ carrier' = [carrier EXCEPT ![p] = c]
       /\ stored' = [stored EXCEPT ![p] = IF c THEN 0 ELSE RACK]
  /\ p_ntorp' = [p_ntorp EXCEPT ![p] = 0] /\ p_nplasmatorp' = [p_nplasmatorp EXCEPT ![p] = 0]
  /\ UNCHANGED <<p_nthingys, torp, plasma, missile, aim>>

Board(p) ==
  /\ p_status[p] = "alive" /\ carrier[p] /\ stored[p] = 0
  /\ stored' = [stored EXCEPT ![p] = RACK]
  /\ UNCHANGED <<ships, p_nthingys, missile, p_ntorp, p_nplasmatorp, torp, plasma, aim>>

(* Hit by something else, self-destruction, ghostbusters.                  *)
Kill(p) ==
  /\ p_status[p] = "alive" /\ Dies(p)
  /\ UNCHANGED <<carrier, racks, p_ntorp, p_nplasmatorp, torp, plasma, aim>>

doshipexplode(p) ==
  /\ p_status[p] = "explode" /\ p_status' = [p_status EXCEPT ![p] = "dead"]
  /\ UNCHANGED <<carrier, racks, p_ntorp, p_nplasmatorp, torp, plasma, aim>>

deathUnawaited(p) ==   \* mutant: the process does not wait for its weapons
  /\ p_status[p] = "dead"
  /\ p_status' = [p_status EXCEPT ![p] = "outfit"] /\ aim' = [aim EXCEPT ![p] = NoSlot]
  /\ UNCHANGED <<carrier, racks, p_ntorp, p_nplasmatorp, torp, plasma>>

(* intrupt() calls death() as soon as the weapons are gone.                *)
death(p) ==
  /\ p_status[p] = "dead" /\ p_ntorp[p] <= 0 /\ p_nplasmatorp[p] <= 0
  /\ p_status' = [p_status EXCEPT ![p] = "outfit"] /\ aim' = [aim EXCEPT ![p] = NoSlot]
  /\ UNCHANGED <<carrier, racks, p_ntorp, p_nplasmatorp, torp, plasma>>

(* The process ends and another one gets the slot.                         *)
TakeOver(p) ==
  /\ p_status[p] # "outfit"
  /\ p \in Hasty \/ (Torps(p) = {} /\ ~Live(plasma[p]))
  /\ p_status' = [p_status EXCEPT ![p] = "outfit"] /\ aim' = [aim EXCEPT ![p] = NoSlot]
  /\ UNCHANGED <<carrier, racks, p_ntorp, p_nplasmatorp, torp, plasma>>

(* A tournament begins, or a galaxy ends.                                  *)
explode_everyone ==
  /\ Nuked \/ \A p \in Player : Torps(p) = {} /\ ~Live(plasma[p])
  /\ p_status' = [p \in Player |-> IF p_status[p] = "alive" THEN "explode" ELSE p_status[p]]
  /\ p_ntorp' = [p \in Player |-> IF p_status[p] = "alive" THEN 0 ELSE p_ntorp[p]]
  /\ p_nplasmatorp' = [p \in Player |-> IF p_status[p] = "alive" THEN 0 ELSE p_nplasmatorp[p]]
  /\ UNCHANGED <<carrier, racks, torp, plasma, aim>>

-----------------------------------------------------------------------------
(* The processes fire and detonate. *)

(* The process handles commands until it sees that its ship explodes.      *)
Fires(p) == p_status[p] \in {"alive", "explode"}

(* The first free slot; if there is none, the loop ends at the next        *)
(* player's first.                                                         *)
TorpSlot(p) ==
  IF Torps(p) = 1 .. MAXTORP THEN <<p + 1, 1>>
  ELSE <<p, CHOOSE i \in (1 .. MAXTORP) \ Torps(p) : \A j \in (1 .. MAXTORP) \ Torps(p) : i <= j>>

ntorp(p) ==
  /\ Fires(p) /\ p \in Armed
  /\ p_ntorp[p] # MAXTORP
  /\ ~(p_nthingys[p] > 0 /\ carrier[p])
  /\ p_ntorp' = [p_ntorp EXCEPT ![p] = @ + 1]
  /\ torp' = [torp EXCEPT ![TorpSlot(p)] = [status |-> "TMOVE", owner |-> p]]
  /\ UNCHANGED <<ships, racks, p_nplasmatorp, plasma, aim>>

(* With MAXPLASMA = 1 the same.                                            *)
nplasmatorp(p) ==
  /\ Fires(p) /\ p \in Armed
  /\ p_nplasmatorp[p] # 1
  /\ p_nplasmatorp' = [p_nplasmatorp EXCEPT ![p] = @ + 1]
  /\ plasma' = [plasma EXCEPT ![IF Live(plasma[p]) THEN p + 1 ELSE p] = [status |-> "TMOVE", owner |-> p]]
  /\ UNCHANGED <<ships, racks, p_ntorp, torp, aim>>

(* A slot whose fighter is just landing is taken for a free one.           *)
fire_missile_dir(p, i) ==
  /\ Fires(p) /\ p \in Racked
  /\ stored[p] # 0
  /\ ~(carrier[p] /\ p_ntorp[p] > 0)
  /\ missile[<<p, i>>].status \in {"TFREE", "TLAND"}
  /\ \A j \in 1 .. i - 1 : missile[<<p, j>>].status \notin {"TFREE", "TLAND"}
  /\ p_nthingys[p] + 1 \in Counts
  /\ stored' = [stored EXCEPT ![p] = @ - 1]
  /\ missile' = [missile EXCEPT ![<<p, i>>] = [status |-> "TMOVE", fighter |-> carrier[p], fired |-> FALSE]]
  /\ p_nthingys' = [p_nthingys EXCEPT ![p] = @ + 1]
  /\ UNCHANGED <<ships, p_ntorp, p_nplasmatorp, torp, plasma, aim>>

(* detothers(): it looks at a torpedo and then detonates it.               *)
Look(p, s) ==
  /\ Fires(p) /\ p \in Slow /\ s[1] # p /\ aim[p] = NoSlot
  /\ Flying(torp[s]) /\ aim' = [aim EXCEPT ![p] = s]
  /\ UNCHANGED <<ships, racks, p_ntorp, p_nplasmatorp, torp, plasma>>

Detonate(p, s) ==
  /\ Fires(p) /\ s[1] # p
  /\ IF p \in Slow THEN aim[p] = s ELSE Flying(torp[s])
  /\ torp' = [torp EXCEPT ![s].status = "TDET"] /\ aim' = [aim EXCEPT ![p] = NoSlot]
  /\ UNCHANGED <<ships, racks, p_ntorp, p_nplasmatorp, plasma>>

DetonateMissile(p, s) ==
  /\ Fires(p) /\ s[1] # p /\ Flying(missile[s])
  /\ missile' = [missile EXCEPT ![s].status = "TDET"]
  /\ UNCHANGED <<ships, stored, p_nthingys, p_ntorp, p_nplasmatorp, torp, plasma, aim>>

(* handleDetMReq(), for one torpedo, which its owner's number identifies,  *)
(* or for one of all missiles, when no torpedo flies.                      *)
DetOwn(p, s) ==
  /\ Fires(p) /\ Flying(torp[s]) /\ torp[s].owner = p
  /\ torp' = [torp EXCEPT ![s].status = "TOFF"]
  /\ UNCHANGED <<ships, racks, p_ntorp, p_nplasmatorp, plasma, aim>>

DetOwnMissile(p, i) ==
  /\ Fires(p) /\ \A j \in Torps(p) : ~Flying(torp[<<p, j>>])
  /\ Flying(missile[<<p, i>>])
  /\ missile' = [missile EXCEPT ![<<p, i>>].status = IF missile[<<p, i>>].fighter THEN "TRETURN" ELSE "TOFF"]
  /\ UNCHANGED <<ships, stored, p_nthingys, p_ntorp, p_nplasmatorp, torp, plasma, aim>>

(* Flying plasma is shot at, and fighters, gone ones too.  (A phaser that  *)
(* hits a player is one of the ways to be killed.)                         *)
PhaserPlasma(p, o) ==
  /\ Fires(p) /\ Flying(plasma[o]) /\ plasma[o].owner # p
  /\ plasma' = [plasma EXCEPT ![o].status = "TEXPLODE"]
  /\ UNCHANGED <<ships, racks, p_ntorp, p_nplasmatorp, torp, aim>>

PhaserFighter(p, s) ==
  /\ Fires(p) /\ missile[s].fighter /\ s[1] # p
  /\ missile' = [missile EXCEPT ![s].status = "TDET"]
  /\ UNCHANGED <<ships, stored, p_nthingys, p_ntorp, p_nplasmatorp, torp, plasma, aim>>

-----------------------------------------------------------------------------
(* The daemon: every slot, one after the other. *)

ExplodesTorp(s) == torp' = [torp EXCEPT ![s].status = "TEXPLODE"] /\ UNCHANGED p_ntorp

FreesUncounted(s) == torp' = [torp EXCEPT ![s].status = "TFREE"] /\ UNCHANGED p_ntorp   \* mutant

Frees(s) ==
  /\ p_ntorp[torp[s].owner] - 1 \in Counts
  /\ torp' = [torp EXCEPT ![s].status = "TFREE"]
  /\ p_ntorp' = [p_ntorp EXCEPT ![torp[s].owner] = @ - 1]

udtorp(s) ==
  /\ \/ /\ torp[s].status \in {"TMOVE", "TDET"} /\ ExplodesTorp(s)
        /\ Hurt(Player \ {torp[s].owner})
     \/ /\ torp[s].status \in {"TMOVE", "TEXPLODE", "TOFF"} /\ Frees(s)
        /\ UNCHANGED p_status
  /\ UNCHANGED <<carrier, racks, p_nplasmatorp, plasma, aim>>

udplasmatorp(o) ==
  LET p == plasma[o].owner IN
  /\ \/ /\ plasma[o].status \in {"TMOVE", "TDET"} /\ plasma' = [plasma EXCEPT ![o].status = "TEXPLODE"]
        /\ Hurt(Player \ {p}) /\ UNCHANGED p_nplasmatorp
     \/ /\ plasma[o].status \in {"TMOVE", "TEXPLODE"} /\ plasma' = [plasma EXCEPT ![o].status = "TFREE"]
        /\ p_nplasmatorp' = [p_nplasmatorp EXCEPT ![p] = @ - 1] /\ UNCHANGED p_status
  /\ UNCHANGED <<carrier, racks, p_ntorp, torp, aim>>

Underway(x) == x.status \in {"TMOVE", "TRETURN"}
Becomes(s, status) == missile' = [missile EXCEPT ![s].status = status]

(* A fighter is back on its carrier.                                       *)
Land(s) ==
  /\ missile[s].status = "TLAND" /\ Becomes(s, "TFREE")
  /\ stored' = [stored EXCEPT ![s[1]] = @ + 1]
  /\ p_nthingys' = [p_nthingys EXCEPT ![s[1]] = @ - 1]
  /\ UNCHANGED <<p_status, torp>>

(* One that runs out, and one its owner has switched off, is freed and not *)
(* discounted.                                                             *)
RunOut(s) ==
  /\ Underway(missile[s]) \/ missile[s].status = "TOFF"
  /\ Becomes(s, "TFREE") /\ UNCHANGED <<p_status, stored, p_nthingys, torp>>

(* explode(): near an enemy, in a star or among asteroids, or detonated.   *)
ExplodeMissile(s) ==
  /\ Underway(missile[s]) \/ missile[s].status = "TDET"
  /\ Becomes(s, "TEXPLODE") /\ Hurt(Player \ {s[1]})
  /\ UNCHANGED <<stored, p_nthingys, torp>>

BurnOut(s) ==
  /\ missile[s].status = "TEXPLODE" /\ p_nthingys[s[1]] - 1 \in Counts
  /\ Becomes(s, "TFREE") /\ p_nthingys' = [p_nthingys EXCEPT ![s[1]] = @ - 1]
  /\ UNCHANGED <<p_status, stored, torp>>

Fighter(s) == Underway(missile[s]) /\ missile[s].fighter

Kamikaze(s) ==   \* the player has another ship by now
  /\ Fighter(s) /\ ~carrier[s[1]]
  /\ missile' = [missile EXCEPT ![s] = [status |-> "TMOVE", fighter |-> FALSE, fired |-> FALSE]]
  /\ UNCHANGED <<p_status, stored, p_nthingys, torp>>

(* A fighter's torpedo takes a slot of its owner and is not counted.  It   *)
(* needs a target: an enemy who is alive and within its reach.             *)
f_torp(s) ==
  /\ Fighter(s) /\ carrier[s[1]] /\ ~missile[s].fired /\ Torps(s[1]) # 1 .. MAXTORP
  /\ \E v \in Player \ {s[1]} : p_status[v] = "alive"
  /\ torp' = [torp EXCEPT ![TorpSlot(s[1])] = [status |-> "TMOVE", owner |-> s[1]]]
  /\ missile' = [missile EXCEPT ![s].fired = TRUE]
  /\ UNCHANGED <<p_status, stored, p_nthingys>>

(* Half of its fuel is used, or it has fired; then it is at its carrier.   *)
TurnBack(s) ==
  /\ Fighter(s) /\ carrier[s[1]] /\ missile[s].status = "TMOVE"
  /\ Becomes(s, "TRETURN") /\ UNCHANGED <<p_status, stored, p_nthingys, torp>>

f_land(s) ==
  /\ Fighter(s) /\ carrier[s[1]] /\ missile[s].status = "TRETURN"
  /\ Becomes(s, "TLAND") /\ UNCHANGED <<p_status, stored, p_nthingys, torp>>

udmissile(s) ==
  /\ \/ Land(s) \/ RunOut(s) \/ ExplodeMissile(s) \/ BurnOut(s)
     \/ Kamikaze(s) \/ f_torp(s) \/ TurnBack(s) \/ f_land(s)
  /\ UNCHANGED <<carrier, p_ntorp, p_nplasmatorp, plasma, aim>>

Daemon ==
  \/ \E p \in Player : doshipexplode(p) \/ udplasmatorp(p)
  \/ \E s \in TorpSlots : udtorp(s)
  \/ \E s \in MissileSlots : udmissile(s)
  \/ explode_everyone

Process(p) ==
  \/ enter(p) \/ Board(p) \/ Kill(p) \/ death(p) \/ TakeOver(p) \/ ntorp(p) \/ nplasmatorp(p)
  \/ \E i \in 1 .. NPTHINGIES : fire_missile_dir(p, i) \/ DetOwnMissile(p, i)
  \/ \E s \in TorpSlots : Look(p, s) \/ Detonate(p, s) \/ DetOwn(p, s)
  \/ \E s \in MissileSlots : DetonateMissile(p, s) \/ PhaserFighter(p, s)
  \/ \E o \in Player : PhaserPlasma(p, o)

Next == Daemon \/ \E p \in Player : Process(p)

Spec == Init /\ [][Next]_vars

(* The daemon's timers go on, and a process looks whether it is dead.      *)
Fairness ==
  /\ \A s \in TorpSlots : WF_vars(udtorp(s))
  /\ \A p \in Player : WF_vars(udplasmatorp(p)) /\ WF_vars(death(p))
FairSpec == Spec /\ Fairness

-----------------------------------------------------------------------------
(* A player's counters are the numbers of his slots in use, and his slots  *)
(* hold his own weapons, whoever detonates them and whenever he dies: for  *)
(* enter() resets the counters, and the loops that look for a free slot    *)
(* do not stop at the last.  (Not so for ships with fighters, see the      *)
(* README.)                                                                *)
SlotsCounted ==
  \A p \in Player \ Carriers :
    /\ p_ntorp[p] = Cardinality(Torps(p))
    /\ \A i \in Torps(p) : torp[<<p, i>>].owner = p
    /\ p_nplasmatorp[p] = IF Live(plasma[p]) THEN 1 ELSE 0
    /\ Live(plasma[p]) => plasma[p].owner = p

(* The dead do not wait for ever: their weapons run out and are given back.*)
DeathComes == \A p \in Player : p_status[p] = "dead" ~> p_status[p] # "dead"

(* "Our computers limit us to having 8 live torpedos at a time captain!"   *)
(* (torp.c 83)                                                             *)
TorpLimit == \A p \in Player : Cardinality({s \in TorpSlots : Live(torp[s]) /\ torp[s].owner = p}) <= MAXTORP
===============================================================================
