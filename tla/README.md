# A verification project for the Netrek Paradise server

TLA+ models of the server in `src/src` (C, about 43 000 lines), TLC configurations that
check them on small instances, and theorems that TLAPS proves for every size. Line numbers
are those of the sources under `src/src`.

    tlc -workers 2 -config MCDocking.cfg MCDocking.tla      # a run; PROJECT.json lists all
    tlapm Docking_proof.tla                                 # a proof

| module | models | checked by run | proved in |
|---|---|---|---|
| `DockTable` | the docking fields and the routines that rewrite them | through `Docking` | `Docking_proof` |
| `Docking` | every handler that docks, undocks, kills or re-equips a player | `docking_pair` | `Docking_proof` |
| `WaitQueue` | `ntserv/findslot.c`, the queue for a player slot | `queue_order`, `queue_live` | `WaitQueue_proof` |
| `SlotLife` | `p_status`, its timers and the processes that hold a slot | `slot_live`, `parts` | `Parts_proof` |
| `TMode`, `DaemonEnd` | tournament mode, the reset of the galaxy, the end of the daemon | `tmode` | `League_proof` |
| `League` | a league game: captains' commands, phases, pause | `league` | `League_proof` |
| `Conquest` | `daemon/conquer.c`: planet counts, surrender clocks, the end of a game | `conquest` | `Conquest_proof` |
| `Planets` | armies and owners: beaming, bombing, breeding, revolt; implements `Conquest` | `planets` | `Planets_proof` |
| `Weapons` | slots and counters of torpedoes, plasma, missiles and fighters | `weapons`, `weapons_limit` | `Weapons_proof` |
| `Outfit` | who gets which ship: `allowed_ship`, `do_refit`, `getEntry`, building times | `parts`, `outfit_limit` | `Parts_proof` |
| `Warp`, `Countdowns` | the warp drive; war, refit, self-destruction, clue check, explosion | `parts` | `Parts_proof` |
| `FatUdp` | the client connection and what is sent again | `parts` | `Services_proof` |
| `Ping` | pings and the loss reckoned from them | `parts` | `Parts_proof` |
| `WeaponView`, `ShipView`, `Scouting` | what a client is shown of weapons, ships and planets | `parts` | `Parts_proof` |
| `Messages`, `Warnings` | the ring of messages and its readers; the queue of warnings | `parts` | `Services_proof` |
| `PlayerFile` | how a character is found, made and saved | `parts` | `Services_proof` |
| `Robot`, `Snake` | the robots' second and the space snake's alarm | `parts` | `Parts_proof` |
| `Startup` | shared memory, the daemon's birth, end and restart, the listener | `parts` | `Parts_proof` |
| `Solicit`, `TourneyLog` | reports to the metaservers; the log of a tournament | `parts` | `Services_proof` |

`MC...` modules give constants that a .cfg cannot, and restrict initial states; `MCParts` joins 17 of the modules in one run (below).

Conventions. Names are the source's where TLA+ allows. Operators marked "mutant" are plausible
bugs: each property of a passing run is violated when a definition of the code is replaced by
its mutant. Two runs end in a violation and exhibit a disagreement between the code and one of
its own comments ("Findings"). Auxiliary variables, which no code has, are said to be so where they are declared.

## The system

A game is one shared-memory segment (`include/shmem.h`, `struct.h`) and a set of processes
that map it. **None of them takes a lock**: an `ntserv` writes the fields of its own player, and
very often of others; the daemon writes everything, ten times a second.

    client --TCP/UDP--> ntserv (one per client) --+
                        robots, snake ------------+--> shared memory <-- daemon (one)
    listen (accepts, forks ntserv) ... tools -----+        |
    metaservers <--UDP-- daemon; player file <-- ntserv, daemon

### Inventory

| component | state | operations | interacts with | hard | correct if | status |
|---|---|---|---|---|---|---|
| **Docking** `common/plutil.c orbit.c getship.c enter.c`, `daemon/player.c` | `p_docked`, `p_port[]`, `PFDOCK`, `PFDOCKOK`, `PFORBIT` | orbit, dock, undock, permission, refit, war, tractor, bay repair, explosion, entering | some twenty handlers of two kinds of process | one relation kept in three fields of two structs, each field with two meanings | both ends agree; counts are right; nobody is docked to a corpse | `Docking` |
| **Wait queue** `ntserv/findslot.c` | `status->wait, count, request, number, answer`; ten locals per process | take a number, be served, ask one's place, leave, claim the next turn | exit of players, daemon's end | no lock, no manager, processes that die silently, numbers re-used | no number twice; lowest first; free slots get taken | `WaitQueue` |
| **Slot life cycle** `ntserv/main.c getentry.c input.c death.c redraw.c`, `daemon/player.c` | `p_status`, `p_ghostbuster`, `p_explode`, `p_ntspid` | log in, outfit, enter, die, observe, queue, reconnect, exit, ghostbust, freeslot | wait queue, docking | timers of the daemon against loops of the processes | one process per slot; orphans are freed | `SlotLife` |
| **Tournament mode, reset, end** `daemon/misc.c daemonII.c player.c` | `status->tourn, clock`, `status2->starttourn, newgalaxy`, `dietime`, statics | start and halt the mode, count an ended game down, make a galaxy, end | slots, planets | counters in statics beside shared ones; the clock is set back under them | balanced teams play, unbalanced ones do not; an ended game is cleared away | `TMode` |
| **League** `ntserv/message.c`, `daemon/tourny.c daemonII.c` | `status2->league, leagueticksleft, paused, awaypassed, home, away`, `p_homeaway` | captains, empires, start, restart, pause, phases | slots, tournament mode | commands of two sides in any phase, captains who leave | empires differ, both sides are ready, the phases follow each other, a pause holds and ends | `League` |
| **Planets and armies** `daemon/planets.c player.c conquer.c`, `common/interface.c` | `pl_armies, pl_owner, p_armies, PFBEAMUP/DOWN, PFBOMB`, surrender timers | beam, bomb, grow, plague, revolt, conquer | docking, t-mode | flags set by processes, used by the daemon | armies conserved; ownership follows armies; counts are fresh | `Conquest`, `Planets` |
| **Scouting** `daemon/planets.c player.c`, `common/plutil.c` | `pl_tinfo[]`, `pl_hinfo` | tell a team, forget, show | planets | every writer tells by hand | the owner knows his planet | `Scouting` |
| **Weapons** `common/torp.c phaser.c detonate.c`, `ntserv/plasma.c missile.c`, `daemon/weapons.c` | torpedo, plasma, missile, phaser tables; `p_ntorp...` | fire, move, detonate, explode | damage, docking (fighters) | slots taken by one process, freed by another | counts equal tables; the dead are reborn | `Weapons` |
| **Ship allowance** `common/interface.c getship.c`, `ntserv/getentry.c` | building times, ships of all | ask for a ship, refit, enter | entering | checked, then used | limits per class hold | `Outfit` |
| **Fat UDP and connection** `ntserv/fatudp.c socket.c sockio.c` | retransmission lists, mode, sockets | send, fatten, switch mode, resurrect | slot life | lost, late datagrams; lists re-linked while sent | what was missed is sent again | `FatUdp` |
| **Client's view** `ntserv/socket.c`, `daemon/planets.c` | copies of the packets sent last | compare, send, update all | weapons, ships | the copy and the screen drift apart | shown is what is | `WeaponView`, `ShipView` |
| **Ping** `ntserv/ping.c` | ping ring, loss counters | send, answer, compute loss | connection | wrap, late answers | no loss that was none | `Ping` |
| **Messages** `common/smessage.c`, `ntserv/message.c warning.c` | `mctl->mc_current`, message ring | write, read, ignore, bounce | commands | a ring written by all | read once, in order, by whom it is for | `Messages`, `Warnings` |
| **Votes, administrator** `ntserv/message.c` | vote tables | vote, control | all | | | commands as actions of other modules; votes not |
| **Movement** `daemon/player.c`, `ntserv/redraw.c` | speed, course, warp, countdowns | set speed/course, warp, lock | docking, slot life | countdown in the process, effect in the daemon | interrupted countdowns are cancelled | `Warp`, `Countdowns` |
| **Shared memory, start-up, listener** `common/shmem.c`, `daemon/daemonII.c`, `listen/listen.c` | the segment and its key, `nukegame`, processes | create, attach, remove, restart | all | daemon, processes and restarts overlap | one game, one daemon | `Startup` |
| **Robots, snake** `robot/`, `snake/` | their own plans | the operations of a player | all | flags changed by the daemon in between | | `Robot`, `Snake` |
| **Statistics, logins** `ntserv/getname.c`, `daemon/daemonII.c stats.c` | file of player records | look up, make, save | slot life | file shared by processes | what one does is saved for oneself | `PlayerFile` |
| **Metaserver, log** `daemon/solicit.c tourny.c` | last report, caches | report, compare | all | failures, comparing later | told in time, once | `Solicit`, `TourneyLog` |
| **Position grid** `common/grid.c`, **configuration** `daemon/sysdefaults.c shipvals.c`, `ntserv/reserved.c timecheck.c`, **galaxy generation** `daemon/galaxygen/`, `terrain.c`, **RSA** `ntserv/rsa-server.c`, **tools**, **pped** | | | | | | not modelled |

`PROJECT.json` lists the same components with their status and, under "hazards", what is hard
to test in each at the line where it bites.

### Plan

1. `DockTable`, `Docking`, `WaitQueue`, `SlotLife`, `TMode`, `League`, with three proofs: done.
2. `Conquest` and `Planets`, the second shown to implement the first; `Weapons`; `Outfit`; `Warp`, `Countdowns`;
   `FatUdp` and the views; `Messages`; `PlayerFile`; robots, snake, ping, start-up, reports: done.
3. Proofs about `Conquest`, `Planets`, `Weapons` (`SlotsCounted`), the ring of `Docking`, `SlotLife` and the other parts of `parts`: done but for what the last section lists. Worth proving next: the counters of `TMode`,
   `HoldRespected` with fighters, `SlotsCounted` with stale detonations of one player.
4. Not begun: two handlers of docking, or two turns of the queue, interleaved statement by statement (`newdock`, `undock_player`, `dock_to`; `status->count++`);
   votes; the benching of league players; the shares of a league in the wait queue.

## Docking

**State.** `dock` is the three fields of all players; `p_status`, `p_type`, `p_damage` (of bases),
`PFORBIT`, `PFDOCKOK` and `ntserv`, the loop in which a player's process is. `p_docked` and
`p_port` keep their two meanings (a base's count and its bays; a ship's host and bay), and
stores through `p_port[-1]` land in `p_docked` as they do in `struct player`.

**Actions.** One handler, run to its end, is one action: `Disengage`, `LeaveOrbit`, `OrbitBase`,
`OrbitPlanet`, `DockPermission`, `DeclareWar`, `DoRefit`, `Evaporate`, `ControlShip` for commands;
`FindSlot`, `LeaveInput`, `Exit`, `Kill`, `Death`, `Detourneyqueue`, `Busted`, `LeaveBench`, `FreeSlot`,
`Enter` for the process; `UdAlive` (with `Tractor`), `UdExplode`, `UdOut`, `Hit` for the daemon's
rounds, one player a step; `ExplodeEveryone` and `EndgameEffects`. Distances, speeds, teams
and kill timers are choices.

**Abrupt steps.** Six places drop a player, or make a base of a ship, without undoing the docking
(`AbruptKinds`). With `Abrupt = {}` such a step happens only when there is nothing to undo; the
passing run shows that everything else keeps the table right, so its results are conditional.
Each abrupt step, switched on, corrupts a base ("Findings").

**Run** `docking_pair`: two slots, every status and class, one bay. A ship can find the only bay taken by damage, be torn off
it by the other's tractor, or find its base gone. With `DOCKDAMAGE = 1` and `MaxHull = 2` the ring is damaged partly and
wholly. `Erosion = 0`: an eroded hit (`configvals->erosion`) tears a bay
off but adds less hull damage, and then a bay may be damaged more than the hull accounts for (`MooredRight`). Erosion above 0, more slots and more bays are covered by the proof only.

**Fairness.** The interval timer calls `udplayers()` in each round while the game is not paused, and it
handles every slot; nothing else is assumed fair.

**Proved** (`Docking_proof`, from the assumptions on the constants and `Abrupt = {}`): `IInv`, an
inductive invariant that is the conjunction of the type, the table's consistency, `DockedAreInGame`, `OutsideUndocked`
and `OrbitOrDock`. They need each other: `DoRefit` may make a base of a player in orbit, which is harmless
only if nobody in orbit is docked; `enter()` clears the docking fields, which is harmless only if a
process outside `input()` has none. The first section has one lemma per routine (what it does to the
fields, that it keeps the table consistent); the second introduces `Fewer`, the relation between tables in which
ships have only left, so that the nine actions that undock share one argument; the others have a lemma each.
`MooringHolds` adds the ring, `MooredRight`, where `Erosion = 0` and `HullBears`: the loss of all bays but one does not reach the end of the hull. The code's classes with
bays satisfy that by far (`daemon/shipvals.c`: at most 6 bays, `DOCKDAMAGE` 10, the smallest hull 60); without it the hull stops counting before the bays do.
`RingMatchesHull` is inductive beside `IInv`: every docking routine `Mends` (damages no bay), so bays are torn off only by hits and by tractors, which cost hull (`HitRing`, `PulledRing`), and a repair of the hull mends the ring with it (`RepairedRing`).
Model-checked only: `ExplosionUndocks`.

## Wait queue

**State.** The five shared fields, the slots (status and side), and the locals of `grabslot()`.
`pseudocount` is computed unsigned in the source (`count - status->wait`), so it is 0 only on equality.

**Actions.** `EnterDirectly`, `TakeNumber` up to the loop; `Wake` is one turn of the loop from one `sleep(1)` to
the next: `DaemonDied`, `LeaveQueue`, `Turn` (complete a request, ask, or notice; then correct `wait`, or
`TakeSlot`, `BePatient`, `ClaimNext`), `AfterCorrecting` and `AfterClaiming` after the two inner sleeps.
Around it: `Crash`, `Release` (a player leaves), `Freemem` (the daemon ends), `Tick`.

**Abstractions.** A turn is one step: it has no blocking call and takes
microseconds of each second; races inside it are left out. `Tick` waits for
all that are due: processes sleep the same second, in any order within it. `Departures` says which ways
of leaving are allowed in a run.

**Runs.** `queue_order`: three processes, one of them a tester who does not stand in line, come for one
slot; they hang up or are killed in the queue, leave it when it is too long, and the daemon may end.
`queue_live`: a slot that someone could take is taken in the end, though others quit from the middle of the queue. (With `Departures = {"quit", "crash"}`, where numbers never come back, TLC finds no error either, in 1.6 million states; as this takes it more than five minutes it is not the run's setting.) Three processes are the least for a
queue with a middle; the counts of turns (4, 8, 5) are the code's own; `LongQueue` is 1 instead of 18 in
`queue_order`, so that it is reached. `league` is FALSE in both.

**Fairness.** Weak fairness of `Tick` and of every `Wake`: `sleep()` returns and the kernel schedules the process.

**Proved** (`WaitQueue_proof`): `QueueNumbers`, that while the daemon lives waiting processes have
different numbers below `count`, for any number of processes and slots and any departures. `QInv` adds the types it needs and
that `count` is a number while the daemon is up; the one subtle step is
giving a number back (`count - 1`), which is right because only the holder of the last number does it (`GiveBack`).
Model-checked only: `LowestServed` (last section), `OpenSlotTaken`.

## Slot life cycle

**State.** `p_status`, `p_ghostbuster`, `p_explode` of every slot, `p_ntspid`, and for every process the loop it is in (`pc`: given a
slot, logging in, outfit screen, game, and the two loops for reconnection), its slot, whether its client is there, its tries,
pending SIGHUPs. `ran` and `seen` are auxiliary: who has had a turn in this round, and which slots
the last round has seen free.

**Actions.** `Round` is `udplayers()` for all slots at once, as in the code. `FindSlot`, `Attach`, and `Turn`: one turn of the loop
a process is in (`LoginTurn`, `OutfitTurn`, `OutfitLostTurn`, `InputTurn`, `InputLostTurn`). `HangUp`, `Crash`; `Explode`, `EndgameEffects`,
`Command`, `FreeSlot`, `Hup` are what others do to the slot.

**Time.** The code's loops wake at least every 5 s, its timers run for 30 s (`GHOSTTIME`) or 360 s (`OUTFITTIME`). So every attached process has
a turn between two rounds, and the limits are 2 and 4 rounds, which keeps their order and lets every timer run out;
counters above `OUTFITTIME` are one value (`Busted`, 100000 in the code).
A round of the model stands for many of the daemon's, and a process that the kernel does not run for half a minute is not modelled.

**Events** say what may happen besides. In `parts` (`SlotsSafe`) there are crashes and kills in any status, but players choose in time
(`InTime`) and a slot is taken only after a round has seen it free: then no slot is shared, given away or freed at once.
Each of "idle", "ping", "retake", "freeslot", "endgame" breaks a part of that ("Findings").
`slot_live` has every event but "die" (an administrator who explodes an empty slot for ever keeps it for ever) and shows that
orphaned slots are freed and that the loops for reconnection end.

**Fairness.** `Round` as above; `Attach` and a first turn per round of every process: the loops have no unbounded wait (`socketWait` of
`input()` is ended by its interval timer, `socketPause` by its timeout of a second, the others by `sleep`).

**Bounds.** One slot, as slots do not influence each other here and sharing one is what is at stake; three processes in `parts`: the holder, the next, and one more; two in `slot_live`.

## Tournament mode

**State.** `s` is what `move()` and `tournamentMode()` keep between two calls: fields of `struct status` and `status2`, and the
statics `oldtourn`, `fuse`, `wt`, `lct` and `dietime` (in ticks from now). `players` counts the slots in use by team; team 0 is whoever is not
counted (observers, robots) but keeps the daemon alive. `hist` is auxiliary: how long the mode has been off, how long the daemon has seen nobody, whether
an imbalance has been announced.

**Actions.** `Move` is one call of `move()`: `AfterTick` composes its blocks in their order (`EverySecond`, `udplayers`, `EveryMinute`,
`NewGalaxy`), each a function on `s`. `SelfDestruct` is its early end. `ComeAndGo` changes the players between two ticks in any way; `AskNewGalaxy` is
"control newgalaxy" and `tool-reset`. `status->clock - wt` is unsigned in the source, so are `Unsigned` and `Since` (modulo `WORD`).

**Run** `tmode`: a second is two ticks, a minute two seconds, patience two minutes, `nottimeout` two. The order of the timers is
the code's (second < minute < patience), `fuse > 60` keeps its off-by-one. `MCPopulations` has the four cases that the conditions tell
apart: nobody, one eligible team, two balanced ones with a third that is not compared, two unbalanced ones. `MaxClock` caps the clock while no timestamp is
compared with it; `WORD = 8` is above twice the largest clock, so a negative difference still wraps to a large number, as it does with 64 bits.
The daemon may stop: `CHECK_DEADLOCK FALSE`.

The properties are about the timers' survival: `LonelyEnd` (the clock of the empty game, which a reset of the galaxy by `longjmp` interrupts),
`GamesEnd` (a finished game is cleared away and an empty one ends), `BalancedPlays` and `UnbalancedHalts` (the statics of earlier imbalances).
`UnbalancedHalts` says only that the mode is halted again and again: the countdown after the halt makes a new galaxy and sets the clock back, and the mode starts again.

**Fairness.** `Move` and `SelfDestruct`: the interval timer goes on.

**Proved** (`League_proof`, from `ClockAssumption`, which is `TModeAssumption` without the bounds on the clock): `LonelyEnd`. Its invariant `LonelyInv` says that while the count down runs, the ticks
in which the daemon has seen nobody and the ticks it still waits make up the minute; that each block of `move()` (`SecondKept`, `LastsKept`) leaves the count down alone, the reset of the galaxy
included, and that `udplayers` puts it away as soon as somebody is there (`DietimeIs`), makes it inductive. Model-checked only: `GamesEnd`, `BalancedPlays`, `UnbalancedHalts`, which are liveness.

## League

**State.** `team` is `status2->home` and `away` (empire, captain, named, ready, and the three wishes), with `league`, `ticksleft`, `awaypassed`, `paused`, `newgalaxy`;
`players` is status, side and empire of every slot ("out" are all statuses outside the game).

**Actions.** One command is one action: `TakeCaptain`, `QuitCaptain`, `Teamname`, `ChooseEmpire`, `Pass`, `Start`, `NotReady`, `Restart`, `NewGalaxy`, `Pause`,
`Continue`, `trydefect`; a refused command changes nothing and is no step. `Join`, `Enter`, `Die`, `Leave` are the players. `Tick` is the part of `move()`
that concerns the game: `handle_pause_goop`, then `udtourny` unless paused. The captain is a slot number, as in the code, so it is inherited by whoever gets the slot.

**Run** `league`: two slots are enough for a captain on each side, both on one, an overthrown captain and a defector; two empires make every collision of choices possible
(the code has four); every length is one tick. Two bounds keep the space small: of the captains' three kinds of wishes at most `Wishes = 1` is outstanding at a time
(the wishes do not refer to each other except that starting over drops "restart"), and a pause is asked for in warm-up and in play (`PausePhases`; in preparation it only stops a game that does not run).

**Fairness.** `Tick`: the interval timer goes on. No captain has to do anything: `GameGoesOn` ends with a pause, `PauseEnds` with a captain who wants it again.

**Proved** (`League_proof`, from the assumptions on the constants, for all their values): `LInv`, the conjunction of the type, `EmpiresDiffer`, `GameHasTeams`, `AwayFirst` and `PauseHeld`,
is inductive as it stands, with one lemma per command. The argument behind `GameHasTeams`: the phases change in `Start` only, which looks at the other side again, and every
command that takes an empire back is refused outside preparation. `FieldWritten` and `StartedOverKeeps` are the two patterns most commands follow.
Model-checked only: `GameGoesOn`, `PauseEnds`. Left out: "time" and "maxplayer", the benching of excess players, a conquest that ends the game early, overtime (not implemented in the code either).

## Conquest

**State.** `galaxy`: the owner of every planet, of every team `s_plcount`, `s_plcountold` and `s_surrender`, and who has conquered whom; `pteam` of every slot, `tourn`.

**Actions.** `Pass` is a planet that changes hands, with `checkwin()` in the same step, as everywhere in the code; `udsurrend` is a minute of the clocks of all teams in
their order; `Change` and `udtourny` are the players and the mode, whose delays are in `TMode`. `checkwin` composes its steps: `Refreshed`, `Biggest` (the two teams with most ships, found
with the code's order of comparisons), `Ranked`, `checksurrender` of each, `genocide`.

**Run** `conquest`: two players, four planets, three teams (`MCTeams`), thresholds 1 and 2, clocks of two minutes. Four planets let a team drop to half of its enemy's and below; with
three teams the biggest two change while clocks run, so that the clock of a third goes on unattended. The game ends for good: `CHECK_DEADLOCK FALSE`.

**Properties.** `CountsFresh` (the cached counts are those of the planets), `LoserHasLost`, `ClockJustified` (when a planet changes hands only a team that is short of planets has a running clock), `CollapseComes`.
The clock of a third team is not looked at until it is one of the biggest again; `ClockJustified` therefore speaks of these two.

**Fairness.** `Minutes` is weak fairness of `udsurrend`, with its enabling condition written out: the daemon's minutes go by.

**Proved** (`Conquest_proof`, for any number of players and planets and any thresholds): `CountsFresh`, `LoserHasLost` and, where `SURRSTART < SURREND`
(4 and 7 in the code), `ClockJustified`. The invariant is `CInv`: `Ordered` (the types, fresh counts, an end only for a loser) together with the
fact that clocks are still zero before the first count. Its heart is the lemma `Checked`: `checkwin()` recounts, looks at the clocks of both biggest teams and ends the game only for one that has lost, so
every change of an owner re-establishes all three. A minute neutralizes planets team by team, so what a step does to owners and clocks (`Follows`) is shown for one team's minute and is transitive over the four.
`CollapseComes` is liveness and only model-checked.

## Planets

**State.** `Conquest`'s variables, `armies`, `trevolt`, and of every ship where it is (orbit, dock), the one beam or bomb flag that is set, `p_lastman`, `p_armies` and `s_missilestored`.

**Actions.** The daemon's `beam` (one ship a step), `pbomb`, `revolt`, `pop_one_planet`, `udsurrend`; the commands `bomb_planet`, `beam_up`, `beam_down`, `Arrive`, `Steer`, `ShieldUp`, `Stop`, the process's `operate_transporters`;
`Enter`, `Die`, `FreeSlot`, `Dislodged`. `Dislodged` leaves the beam flags set, as an explosion of the base or a tractor does, so that the daemon goes on beaming wherever the ship orbits next.
How many bombs fall, whether defenders die and how large a hold the kills allow (`capacity`) are choices, so the tests of the process and of the daemon need not agree.

**Run** `planets`: two planets, one of which breeds and revolts, two ships of two teams with room for an army each and a base others dock at (`Hosts`, `Leavers`, `Reached`, `Growing` and `Side` bound who does what).
Two armies are above `FEW = 1`, so that the last ones need the second order. `Fighters = {}`: for ships with fighters armies are computed from stored missiles and are not conserved ("Findings").

**Properties.** `OwnedIsHeld`, `HoldRespected`, `ArmiesConserved`, and `ConquestSpec`: this module implements `Conquest` with the same `galaxy`, `pteam` and `tourn`. The interesting step is an army beamed down on an
empty planet, which gives it to a team: `Conquest` lets a planet pass only from or to nobody, and that the planet was nobody's is `OwnedIsHeld`.

**Proved** (`Planets_proof`, from `PlanetsAssumption` only): `OwnedIsHeld`, `ConquestSpec` and, where `Fighters = {}`, `HoldRespected` and, for finitely many players and planets, `ArmiesConserved`.
The invariant `PInv` joins the types, `CrewsHaveTeams` (a ship in the game belongs to a team) and `OwnedIsHeld`; every action is shown to be `Good`: it keeps `PInv` and its step is a step of `Conquest` or
stutters there. `PassGood` and `ArmiesGood` are the two patterns of the daemon's actions. Nothing is used of `Conquest` but that recounts and clocks leave owners alone and that a surrender gives planets to nobody (`GivesUp`).
For the holds (`HInv`) one also needs that no ship is docked at itself, hence that hosts are docked nowhere; then the checks the daemon makes itself suffice, whatever the process has seen.
`ArmiesConserved` compares sums over all ships and planets before and after a step. The sums are folds over sets; what the proof needs of them (`SumStep`, `SumChanges`: a sum changes by what its changed
terms change) is an induction over finite sets, done as a search for the smallest set that would refute it, since the library's induction theorems cannot be instantiated. `PlanetsConserve` then shows for each action which ships
and planets it changes, and that none of them gets more than another gives, but where a planet breeds. Only model-checked are the types of `galaxy` inside `Planets` other than the owners.

## Weapons

**State.** The slots of the shared arrays with status and owner, the counters `p_ntorp`, `p_nplasmatorp`, `p_nthingys`, the rack, `p_status`; `aim` is the torpedo that the loop of `detothers()` has looked at and not yet detonated.

**Actions.** `ntorp`, `nplasmatorp`, `fire_missile_dir`, the detonations and the phaser of a process; `udtorp`, `udplasmatorp`, `udmissile` (one slot a step) and `doshipexplode` of the daemon; `death`, `enter`, `TakeOver`, `explode_everyone`.

**Run** `weapons`: the first player fires torpedoes and plasma, the second has missiles and a carrier, both detonate and shoot; one slot of each kind is enough, as slots of a kind are alike and a full one is
one that is not taken. `Hasty`, `Slow` and `Nuked` allow the interleavings that break `SlotsCounted` ("Findings"); `Slow = {1}` lets the first player's
`detothers()` be interrupted between its look at one of the carrier's torpedoes and the detonation, which leaves the counters of the others alone; `Slow = {2}`, the other way round, breaks `SlotsCounted`.
`SlotsCounted` speaks of players who never fly a carrier: fighters fire torpedoes that nobody counts, which `weapons_limit` shows.

**Fairness.** `udtorp`, `udplasmatorp`: fuses burn in every round. `death`: the loop of a dead player's process looks at his weapons. Only `DeathComes` uses it.

**Proved** (`Weapons_proof`): `SlotsCounted`, under `Orderly`, which says which interleavings are left out: nobody is `Hasty`, no `Nuked`, carriers fire no torpedoes of their own, and a process is `Slow` only towards carriers. The
invariant `WInv` adds to the counters that weapons lie in the slots of their owners, also those that `aim` points at and that are gone, and why `enter()` may reset the counters: whoever is outside the game has no
weapons. Because the counters are right, the search for a free slot never runs past the owner's slots, which in turn keeps the counters of the next player right. `DeathComes` is model-checked only.

## The parts of one run

`MCParts` chooses one of 17 modules in its initial state and runs it alone: its states are the sum of theirs, not the product. Variables of one name are shared by
the modules that have it, and a module's variables are `None` while another one runs. Each property says what holds of one module, or of two that are concerned with the same thing.
The sum exists because the modules are small (from some hundred to some hundred thousand states) and each is about one hazard. `Symmetric` permutes the names of players and processes, which no formula tells apart.
`Ends` lets those modules stop that have an end or a bound: a robot's process, the pings, the start-ups.

| module | state and actions | bounds and what they leave out | property |
|---|---|---|---|
| `FatUdp` | the lists as pointers (`lost`, `links`), the modes `commMode`, `udpMode`, the socket, what the client `seen`; an update is a step, any datagram may be lost | two packets, two lists, room for one: a list that is not emptied in a turn. `b` is `Retained`: the full update and a reconnection do not reset the copy it is compared with (missiles, `SP_STATUS2`). `queued` is auxiliary: the packets last sent in fat mode. `FatAnswers`, `Mortal` exclude two cases ("Findings"); `SP_YOU` is left out | `FatSound`: the lists are acyclic, disjoint and complete; what the client has missed is on one, unless the packet is retained and was last sent in another mode (`Promised`) |
| `WeaponView` | one weapon, the copy of its packet, the client's picture; four routines that compare | kinds for which an exception breaks the picture are excluded per event (`Paused`, `Still`, `Reused`, `Returns`) | `ScreenTrue` |
| `ShipView` | another ship, its place near or far, cloak, who has seen it, the copy of the packet | two places near and two far: moved and not moved; `Nine = 3` updates for `efticks(9)` | `ScreenTrue`: shown where it is; a cloaked one not |
| `Scouting` | a planet, what two teams were told, what a player of one is shown; every writer of `pl_tinfo` | two armies, one facility; `untold` is auxiliary and marks the two writers who tell nobody | `OwnerKnows` |
| `Warp` | the drive's flags with every request, and the daemon's rounds | three steps of preparation, four speeds in the code's order; `ByAdmin = FALSE`, no "TABORTNOW" | `WarpEarned` |
| `Countdowns` | `delay`, `rdelay`, `selfdest`, the clue check, the explosion | times of 1 or 2 updates; `Veterans = {FALSE}` | `CountedDown` |
| `Outfit` | three players, two teams, a limited type of ship; reading the others and taking the ship are two steps | "mass-produced" is the only of the `Loopholes` that is open: it is about types without ports, and the limited type here has ports; each other one breaks `OutfitSound` | `OutfitSound`: no team has more of a type than its limit; who returns to a tournament may rejoin |
| `Messages` | a ring of three, one reader, writers interrupted between taking a place and filling it ("fill") | `Races` of the wrap are excluded | `LettersRight`: nobody else's letter, none lost, none twice |
| `Warnings` | the queue, its gap | `WQLEN = 4`, three texts | `LettersRight`: in order |
| `PlayerFile` | the file, the cached character, lookup and creation in two steps each | two processes, two names; one character may be played twice ("twice"), two creations at once ("create") are excluded | `OwnPlace` |
| `Snake` | four segments, two eyes, the counters, the daemon's explosions between two alarms | two segments a half; `Guard = FALSE` | `SnakeSound` |
| `Robot` | cloak, shields, repair, beams, fire of three characters; distances as three classes | one torpedo, short boredom | `RobotSound` |
| `Ping` | a ring of two pings, bytes of eight values, counters, packets in flight | `BYTE` is two rings, so numbers wrap within a few pings; one loss each way | `PingSound`, the losses only while nothing is reordered (`ordered`) |
| `Solicit` | when each of two metaservers was told, what it knows, failures | minimum 2, maximum 3 calls; one name for the server | `RecordsTrue`: told within the maximum |
| `TourneyLog` | one slot and what the log remembers of it | two ship types; the enum is unsigned, as gcc makes it | `RecordsTrue`: every end of a life logged once |
| `Startup` | the segment at the key, segments, daemons and `nukegame`, three processes | two segments, three daemons; `Overlaps = {}`: start, end and restart do not overlap | `StartSound` |
| `SlotLife` | above | above | `SlotsSafe` |

No fairness is assumed in this run; all its properties are safety.

**Proved** (`Parts_proof`, about ships, robots, clients, slots and start-up; `Services_proof`, about files, messages, reports and fat UDP). Each theorem is about the specification of `MCParts`, for every value of
its constants; a part is unaffected by the steps of the others, so each proof is about the steps of one part.

| theorem | hypotheses, and why the code justifies them | invariant, and why it is needed |
|---|---|---|
| `RobotsSound` | none | `RobotSound` itself, after each of the functions a tick strings together |
| `SnakesSound` | `~Guard`: a snake that guards counts an exploding eye twice ("Findings") | `SnakeInv`: the property with the types, and that a new snake does not hunt |
| `OwnersKnow` | `TeamsAssumption`: nobody is no team; a planet has room for an army | `ToldInv`: an owner was told field by field, unless `untold`; what his client has agrees with what he was told or is out of date |
| `CountdownsRun` | `CountdownsAssumption`: a clue check takes time; nobody is a veteran ("Findings") | `CountInv`: the code's clocks run with those of the history, and a request for the end excludes the pauses |
| `WarpIsEarned` | the preparation is a number | `WarpInv`: what is left of `p_warptime` and what was counted make up the preparation at least |
| `ScreenIsTrue` | `ViewAssumption`: the exceptions of kinds and events that break the picture ("Findings"), as in the run; "nowhere" and the vague places are no places | `ViewInv`: what the copy of a packet says of the screen; an explosion is remembered only at its place. `ShipsInv` is the property itself |
| `OutfitIsSound` | `AllowanceAssumption`: no loophole but "mass-produced", and then limited types have ports; the mass-produced type is not limited | `OutfitInv`: a place in the limit is held by one player at most, and nothing is built while it is |
| `LossIsAPercentage`, `PingIsSound`, `ClosePingsAreSound` | `PingAssumption`: the ring of `HASHSIZE` places fits an even number of times into the byte's numbers (32 and 256). The first needs nothing else. For the losses themselves `LossAssumption`, that the network loses fewer than about half of the numbers, or `Close`, that the next answer is never half a turn ahead of the last one: with more, `uchar_diff` takes it for a late one and throws it out ("Findings"; TLC finds it with four losses and eight numbers) | `PingWindow`: no ping is under way for a whole ring, so a place holds what was sent with the ping asked for; `PingOrder`: what each packet in flight says, against the counts when it is read; `PingGaps`: between two answers are only pings under way or lost |
| `SlotsAreSafe` | `Calm`: `1 < GHOSTTIME < OUTFITTIME`; crashes and kills only, as in the run | `SlotInv`: what the daemon's counter can have reached by where the slot's process is, given that each has a turn between two rounds |
| `StartsSound` | `StartAssumption`: `Overlaps = {}`, as in the run | `StartInv`: there is never a second daemon, not even on its way |
| `RecordsHold` | `MetasAssumption`: `0 < minimum <= maximum`; all metaservers know the server by one name ("Findings"); nothing is assumed of the log | `MetaInv`: what a metaserver knows is what it was last sent; `LogInv`: the caches against the slot |
| `CharactersKeepPlace` | "create" is excluded, as in the run | `LoginInv`: one process at a time makes a character, the file only grows and no entry changes its name |
| `FatIsSound` | `FatAssumption`: finitely many packets, one list at least, and what is none of the packets (`NULL`) is not one of them. `FatGiven`: who asks for fat mode is given the full update, and no client dies in it (the two cases of "Findings") | `FatInv`: there is a place for every packet, a list, a temporary list or none, and a rank, such that heads, tails, `prev` and `next` are what places and ranks say; and what the client has missed and is owed (`Owes`: in any mode what was last sent in fat mode, in fat mode also all whose copy the full update resets) has been sent in vain more often than it has moved on. The ranks make it inductive: a packet that moves gets the highest, a merge changes none; that a list read by its links ends, and the same from both ends, follows by least counterexamples |
| `LettersAreRight` | `RaceAssumption`: a ring of two letters at least, "lap" and "wrap" excluded, as in the run; `RingAssumption`: a queue of one warning at least | `RingInv`: the letters between the place read next and the place written next are the unread ones; `WarnInv`, the same for the queue |

The exceptions are hypotheses because the code breaks the property in each: dropping one is a counterexample of "Findings", not a harder proof. The length of a snake, the
sizes of rings and files, the numbers of players, processes, metaservers, segments and daemons, and all lengths of time are arbitrary.
In `Outfit` building times are a function of pairs, one argument, because the prover has no functions of two.

`outfit_limit` is `Outfit` with a carrier, a type without ports, as the limited one, and finds that a mass-produced ship is the way around the limit.

## Findings

Two runs violate what a comment or a message of the source says:

* `weapons_limit` (`torp.c:83`, "Our computers limit us to having 8 live torpedos"): the torpedoes of fighters are not counted.
* `outfit_limit` (`struct.h:150`, "maximum number of these per team"): the limit of ships of a type without ports is not applied to a player who has first asked for a mass-produced ship (`getentry.c:292`).

Seen with other constants or formulas, and not among the runs:

* Docking, `BaysAsDocumented` (`struct.h:524-526`) with `Abrupt = {"exit"}`, `{"freeslot"}`, `{"endgame"}`, `{"corpse"}` (a dead ship that was locked on a base
  docks, because `auto_features` does not look at the status), `{"control"}`, `{"observer"}`: a base keeps a bay taken and counted.
* Wait queue, `LowestServed` with `Departures = {"served"}` (`findslot.c:123`, `:189`): a client that hangs up right after its process was
  served makes it decrement `count` below the `wait` it has raised; the next comer makes them equal again and the one after it walks past the queue.
  `OneRequest` with `{"quit"}` ("only one process can make a request at any one time", `findslot.c:106`): a number that was given back and is
  taken again makes its new holder's request look stale. `WaitersEnd` with `Shutdown = TRUE` ("Kill waiting players", `daemonII.c:129`): a newcomer's `count++` hides the daemon's `count = 0`.
  A process whose client hangs up never posts REQDEAD (`findslot.c:224`); in a league a slot counts for its last player's side until `main.c:399`, and a process whose side is full blocks the other side.
* Slot life, `OnePlayerPerSlot` with `Events = {"idle"}` (`redraw.c:559`): a player who stays in the outfit screen too long loses the slot to a newcomer and plays on with him. `NewcomersSpared` with `{"retake"}` ("so not to bust new
  players", `player.c:1227`): a slot given up with a counter of 100000 and taken before the next round is freed in that round.
* Tournament mode, `HaltWarned` (`misc.c:487-492`): halted for an imbalance without the warning, when the timestamp is taken from a clock that is set back in the same second.
  After "control newgalaxy" during a game `starttourn` stays 0, so "no beaming up before the game" (`interface.c:347`) holds during it.
* League, `StartAgreed` (`docs/README.League:39`): after a game both sides are still ready, and the next one starts on one captain's word. A captain may resign after "start", so a game starts without one (`README.League:76`).
* Conquest, `SurrendersOnce` (`conquer.c:302`): a clock that has run out stays at -1, and the team's planets are neutralized again every minute. The clock of a third team is not stopped when it recovers.
* Planets: with `Fighters` not empty `ArmiesConserved` fails (beaming down on a foreign planet does not take the stored missiles, so the armies are back with the next one beamed up); without `evacuation` the daemon still beams up below five when the flag is set;
  beam flags survive being torn from orbit; `trevolt` is not reset when a planet is emptied; the test of the last planet has its parenthesis misplaced (`interface.c:363`).
* Weapons: `SlotsCounted` fails with two slots and `Slow` (a torpedo detonated by `detothers()` after its slot was freed and taken again), `Nuked` (counters are reset while weapons fly), `Hasty`.
* Outfit, `LimitKept` with each of `Loopholes`: two who ask at once, a ship hidden during its refit, one that explodes. A team killed in a tournament is never marked (`KGENOCIDE` is not set anywhere).
* Warp: with "TABORTNOW" (`player.c:790`), or an administrator's other ship (`message.c:653`), the drive is engaged without the whole preparation.
* Countdowns: a ship that is dead explodes once more when its self-destruction or clue countdown runs out (`ExplodesOnce`, `player.c:377`); a veteran is blasted for a clue check he was not told of.
* Fat UDP: "This guarantees that every packet will end up on a queue" (`socket.c:3303`) does not hold of missiles and `SP_STATUS2`: the full update does not reset `clientThingyStatus[]` and `clientStatus2`, so one that was lost before
  the switch is neither sent again nor queued. `EveryPacketQueued` of `FatUdp` says what the comment says: TLC refutes it with `Retained = {b}` and not with `Retained = {}`.
  Also: a refused switch (`socket.c:3303`) forgets lost packets (`FatAnswers` with "denied"); a client lost in fat mode leaves nodes on `tmplist[]` (`Mortal` with "FAT").
* Views: missiles are not sent again after a reconnection or a full update (`socket.c:290`); with short packets torpedoes stay on the screen in a pause and a re-used slot is shown wrongly; nobody is told of a surrender (`conquer.c:306`)
  or of armies born in `daemonII.c:800`; `mustUpdate[]` is always 0 when `updateShips` reads it, so a cloaked ship that is phasered is not shown.
* Messages: `Races` "lap" and "wrap": a slow writer's letter is read as another's, or lost; exactly `MAXMESSAGE` letters between two updates are all lost.
* Warnings: the comparison with the last queued one (`warning.c:78`) is also made when nothing is queued, and drops a warning; at the start it reads `w_buf[-1]`, which `Queued` lets be anything.
* Player file: two that create characters between the two calls of `getname.c:177` get one place; a name found absent, then created by another process, is created twice; of a character played twice the last to save wins.
* Snake: with `Guard` an exploding eye is counted twice (`snakemove.c:650-687`); a typo in `check_explode` tests the wrong eye (`:816`), so a counter goes to -1.
* Robot: the branch that releases the tractor also releases the pressor set in the same second (`rmove.c`, "glitches galore"); "We will lose repair and cloaking" if we fire (`rmove.c:984`): cloaking is given up for that second, repair is not.
* Ping: with reordered packets the loss stays, though the comment says it "cancels itself out eventually" (`ping.c:103`); the loss from the client can exceed 100 %; after 128 unanswered pings answers are thrown out.
* Solicit: a report forced for a metaserver over its maximum is also sent to later ones before their minimum (`solicit.c:287`); the packet is built once, with the first metaserver's name for this server (`:224`).
* Tournament log: after a refit the new ship is logged ("we have to print the OLD ship type", `tourny.c:123`), because the enum has no negative value; an explosion of everybody at the start is logged as quitting.
* Start-up (`Overlaps`): two processes that find no segment start a daemon each and the second removes the first one's ("early"; `shmem.c:160`, "There can be only one"); a daemon that needs more than the process's two seconds ("late");
  two restarts at once ("twice"); a restart from a game that is over ("afterwards"); a daemon killed before it is known ("unborn").

## What is only model-checked, and what is not modelled

The proofs reach the modules the first table names: all safety properties the runs check but one.

`LowestServed` (`WaitQueue`) cannot be a theorem for all constants, because it depends on the numbers of turns. A process that has claimed the turn for its number
(set `wait` to it, `findslot.c:324`) sleeps before it takes the slot, and those whose patience runs out meanwhile claim past it: with four processes in a queue and `PatientTurns` 1, 2 or 3, TLC finds a later comer who is served
first. With the code's 5 it finds none, in all behaviours of 27 steps of four processes and in simulations of four and five. A proof would have to fix the numbers (4, 8, 5) and tell all phases of the processes' loops apart.

Liveness is out of the prover's reach: `GamesEnd`, `BalancedPlays`, `UnbalancedHalts`, `ExplosionUndocks`, `OpenSlotTaken`, `OrphansFreed`, `HungUpLeaves`, `GameGoesOn`, `PauseEnds`, `CollapseComes`, `DeathComes`. No module uses RECURSIVE operators.

Not modelled: races within a handler, turn or command (one is one step) except where a module says otherwise (`Messages`, `PlayerFile`, `Outfit`, `Weapons`); coordinates and the arithmetic of movement, damage, fuel and heat; the position grid; random galaxy
generation and terrain; tables of ships and the parsing of configuration files; packet layouts; access lists and hours; votes; the benching of league players and the league's shares in the queue; the ratings computed from statistics;
the messages and steering of robots; cryptography; the administrator's tools.
