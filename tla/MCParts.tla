------------------------------- MODULE MCParts -------------------------------
(***************************************************************************)
(* Small machines, each checked by itself in one run: which of them runs   *)
(* is chosen at the start.  They do not interact in this run; variables of *)
(* one name are shared by the machines that have it, and what a machine    *)
(* does not have is None.                                                  *)
(***************************************************************************)
EXTENDS Integers, TLC

CONSTANTS
  None,
  Node, NULL, Retained, MAX_FAT_LIST, Room, FatAnswers, Mortal, \* FatUdp
  Kinds, Whose, Paused, Still, Reused, Returns,             \* WeaponView
  Team, NOBODY, Me, MAXARMIES, Safe, PLGFUEL,               \* Scouting
  Near, Far, Nine,                                          \* ShipView
  Styles, PrepSpeed, ImpSpeed, AfterSpeed, WarpSpeed, s_warpinittime, Damages, s_maxdamage,
  cloakduringwarpprep, cloakwhilewarping, warpdecel, tractabortwarp,
  repair_during_warp, repair_during_warp_prep, ByAdmin,     \* Warp
  WarTime, RefitTime, DestructTime, ExplodeTime, DeadTime,
  ClueDelay, ClueTime, Veterans,                            \* Countdowns
  Pilot, tournplayers, Limited, Ported, s_timer, Loopholes, \* Outfit
  MAXMESSAGE, Races,                                        \* Messages
  Texts, WQLEN,                                             \* Warnings
  Proc, Names, MaxStats, MaxFile, LoginRaces,               \* PlayerFile
  length, Guard, Chase, Linger,                             \* Snake
  Characters, AVOID_TIME, BOREDOM_TIME, MAXTORP,            \* Robot
  BYTE, HASHSIZE, PingMax, AnswerMax, LostMax, Flight, Disorder,    \* Ping
  Metas, minimum, maximum, Reports, Hosts, Fails,           \* Solicit
  ShipTypes, NoShip, Unsigned,                              \* TourneyLog
  Ntserv, Seats, NoOne, MaxSegs, MaxDaemons, Overlaps,      \* Startup
  Served, MAXPLAYER, GHOSTTIME, OUTFITTIME, Tries, league, Events   \* SlotLife

Sides == <<"FED", "ROM">>
Says(f, g, m) == [from |-> f, group |-> g, mine |-> m]
MySays == {Says("Me", "QUERY", TRUE), Says("Me", "MINDIV", FALSE)}
OthersSay == {Says("Other", "MINDIV", TRUE), Says("Other", "MINDIV", FALSE)}

VARIABLES
  machine,
  packet, updated, at, paused, flags, ignored,
  seen, lost, queued, links, commMode, udpMode, udpSock, clientDead,
  kind, owner, status, info, loc, pic, missed,
  pl_owner, pl_armies, PLFUEL, pl_tfuel, pl_hinfo, pl_tinfo, untold,
  foe, alive, PFSEEN, PFCLOAK, hiddenenemy, repCount, pstatus, cpl, before,
  style, p_warptime, p_speed, p_desspeed, p_warpdesspeed, p_damage, counted,
  p_status, p_explode, p_whydead, unhurt, torps, inputMask, delay, rdelay, selfdest, veteran,
  p_cluedelay, p_cluecountdown, owed, rdue, asked, told,
  state, side, s_type, hidden, tmpPick, switching, killed, tourn, dead, s_turns,
  mc_current, messages, out, msgCurrent, reading, unread, clean,
  w_buf, numw, whichw, spaced, waiting, shown,
  file, player, position, stage, entries, p_name, p_pos, p_stats,
  phase, body, eye, p_ntorp, p_nplasmatorp, war, hunting, explodetorps, tfuse, snakeage, killer,
  character, r_status, r_flags, damaged, stopped, r_torps, hostile, bored, avoidTime, fired,
  ping_id, last_num, packets_sent, packets_received, ping_sent, s_to_c_dropped, c_to_s_dropped,
  cp_recv, cp_sent, down, up, truth, judged, ordered,
  game, ours, age, prior, known, wrong, failing,
  tmode, tlog, stat, type, status_cache, ship_cache, lines, ended, garbage, crashed,
  shmkey, segs, daemons, nt,
  players, p_ntspid, pc, me, client, tries, ran, hup, vacant

F == INSTANCE FatUdp
W == INSTANCE WeaponView
P == INSTANCE Scouting
S == INSTANCE ShipView
R == INSTANCE Warp
D == INSTANCE Countdowns
O == INSTANCE Outfit
M == INSTANCE Messages
B == INSTANCE Warnings
C == INSTANCE PlayerFile WITH Races <- LoginRaces
N == INSTANCE Snake WITH age <- snakeage
K == INSTANCE Robot
G == INSTANCE Ping
H == INSTANCE Solicit
T == INSTANCE TourneyLog WITH Types <- ShipTypes
U == INSTANCE Startup
L == INSTANCE SlotLife WITH seen <- vacant, Proc <- Served, ExplodeTime <- 1

fat == <<seen, lost, queued, links, commMode, udpMode, udpSock, clientDead>>
weapon == <<kind, owner, status, info, loc, pic, missed>>
planet == <<pl_owner, pl_armies, PLFUEL, pl_tfuel, pl_hinfo, pl_tinfo, untold>>
ship == <<foe, alive, PFSEEN, PFCLOAK, hiddenenemy, repCount, pstatus, cpl, before>>
drive == <<style, p_warptime, p_speed, p_desspeed, p_warpdesspeed, p_damage, counted>>
clock == <<p_status, p_explode, p_whydead, unhurt, torps, inputMask, delay, rdelay, selfdest,
           veteran, p_cluedelay, p_cluecountdown, owed, rdue, asked, told>>
outfit == <<state, side, s_type, hidden, tmpPick, switching, killed, tourn, dead, s_turns>>
ring == <<mc_current, messages, out, msgCurrent, reading, unread, clean>>
queue == <<w_buf, numw, whichw, spaced, waiting, shown>>
login == <<file, player, position, stage, entries, p_name, p_pos, p_stats>>
snake == <<phase, body, eye, p_ntorp, p_nplasmatorp, war, hunting, explodetorps, tfuse, snakeage,
           killer>>
robot == <<character, r_status, r_flags, damaged, stopped, r_torps, hostile, bored, avoidTime, fired>>
pings == <<ping_id, last_num, packets_sent, packets_received, ping_sent, s_to_c_dropped,
           c_to_s_dropped, cp_recv, cp_sent, down, up, truth, judged, ordered>>
meta == <<game, ours, age, prior, known, wrong, failing>>
record == <<tmode, tlog, stat, type, status_cache, ship_cache, lines, ended, garbage, crashed>>
memory == <<shmkey, segs, daemons, nt>>
slot == <<players, p_ntspid, pc, me, client, tries, ran, hup, vacant>>
vars == <<machine, packet, updated, at, paused, flags, ignored, fat, weapon, planet, ship, drive,
          clock, outfit, ring, queue, login, snake, robot, pings, meta, record, memory, slot>>

FatIdle ==
  /\ seen = None /\ lost = None /\ queued = None /\ links = None /\ commMode = None /\ udpMode = None
  /\ udpSock = None /\ clientDead = None
WeaponIdle ==
  /\ kind = None /\ owner = None /\ status = None /\ info = None /\ loc = None /\ pic = None
  /\ missed = None
PlanetIdle ==
  /\ pl_owner = None /\ pl_armies = None /\ PLFUEL = None /\ pl_tfuel = None /\ pl_hinfo = None
  /\ pl_tinfo = None /\ untold = None
ShipIdle ==
  /\ foe = None /\ alive = None /\ PFSEEN = None /\ PFCLOAK = None /\ hiddenenemy = None
  /\ repCount = None /\ pstatus = None /\ cpl = None /\ before = None
DriveIdle ==
  /\ style = None /\ p_warptime = None /\ p_speed = None /\ p_desspeed = None
  /\ p_warpdesspeed = None /\ p_damage = None /\ counted = None
ClockIdle ==
  /\ p_status = None /\ p_explode = None /\ p_whydead = None /\ unhurt = None /\ torps = None
  /\ inputMask = None /\ delay = None /\ rdelay = None /\ selfdest = None /\ veteran = None
  /\ p_cluedelay = None /\ p_cluecountdown = None /\ owed = None /\ rdue = None /\ asked = None
  /\ told = None
OutfitIdle ==
  /\ state = None /\ side = None /\ s_type = None /\ hidden = None /\ tmpPick = None
  /\ switching = None /\ killed = None /\ tourn = None /\ dead = None /\ s_turns = None
RingIdle ==
  /\ mc_current = None /\ messages = None /\ out = None /\ msgCurrent = None /\ reading = None
  /\ unread = None /\ clean = None
QueueIdle ==
  /\ w_buf = None /\ numw = None /\ whichw = None /\ spaced = None /\ waiting = None /\ shown = None
LoginIdle ==
  /\ file = None /\ player = None /\ position = None /\ stage = None /\ entries = None
  /\ p_name = None /\ p_pos = None /\ p_stats = None
SnakeIdle ==
  /\ phase = None /\ body = None /\ eye = None /\ p_ntorp = None /\ p_nplasmatorp = None
  /\ war = None /\ hunting = None /\ explodetorps = None /\ tfuse = None /\ snakeage = None
  /\ killer = None
RobotIdle ==
  /\ character = None /\ r_status = None /\ r_flags = None /\ damaged = None /\ stopped = None
  /\ r_torps = None /\ hostile = None /\ bored = None /\ avoidTime = None /\ fired = None
PingsIdle ==
  /\ ping_id = None /\ last_num = None /\ packets_sent = None /\ packets_received = None
  /\ ping_sent = None /\ s_to_c_dropped = None /\ c_to_s_dropped = None /\ cp_recv = None
  /\ cp_sent = None /\ down = None /\ up = None /\ truth = None /\ judged = None /\ ordered = None
MetaIdle ==
  /\ game = None /\ ours = None /\ age = None /\ prior = None /\ known = None /\ wrong = None
  /\ failing = None
RecordIdle ==
  /\ tmode = None /\ tlog = None /\ stat = None /\ type = None /\ status_cache = None
  /\ ship_cache = None /\ lines = None /\ ended = None /\ garbage = None /\ crashed = None
MemoryIdle ==
  /\ shmkey = None /\ segs = None /\ daemons = None /\ nt = None
SlotIdle ==
  /\ players = None /\ p_ntspid = None /\ pc = None /\ me = None /\ client = None /\ tries = None
  /\ ran = None /\ hup = None /\ vacant = None

Init ==
  \/ /\ machine = "FatUdp" /\ F!Init /\ WeaponIdle /\ PlanetIdle /\ ShipIdle /\ DriveIdle
     /\ ClockIdle /\ OutfitIdle /\ RingIdle /\ QueueIdle /\ LoginIdle /\ SnakeIdle /\ RobotIdle
     /\ PingsIdle /\ MetaIdle /\ RecordIdle /\ MemoryIdle /\ SlotIdle /\ updated = None /\ at = None
     /\ paused = None /\ flags = None /\ ignored = None
  \/ /\ machine = "WeaponView" /\ W!Init /\ FatIdle /\ PlanetIdle /\ ShipIdle /\ DriveIdle
     /\ ClockIdle /\ OutfitIdle /\ RingIdle /\ QueueIdle /\ LoginIdle /\ SnakeIdle /\ RobotIdle
     /\ PingsIdle /\ MetaIdle /\ RecordIdle /\ MemoryIdle /\ SlotIdle /\ packet = None
     /\ flags = None /\ ignored = None
  \/ /\ machine = "Scouting" /\ P!Init /\ FatIdle /\ WeaponIdle /\ ShipIdle /\ DriveIdle
     /\ ClockIdle /\ OutfitIdle /\ RingIdle /\ QueueIdle /\ LoginIdle /\ SnakeIdle /\ RobotIdle
     /\ PingsIdle /\ MetaIdle /\ RecordIdle /\ MemoryIdle /\ SlotIdle /\ at = None /\ paused = None
     /\ flags = None /\ ignored = None
  \/ /\ machine = "ShipView" /\ S!Init /\ FatIdle /\ WeaponIdle /\ PlanetIdle /\ DriveIdle
     /\ ClockIdle /\ OutfitIdle /\ RingIdle /\ QueueIdle /\ LoginIdle /\ SnakeIdle /\ RobotIdle
     /\ PingsIdle /\ MetaIdle /\ RecordIdle /\ MemoryIdle /\ SlotIdle /\ packet = None
     /\ flags = None
  \/ /\ machine = "Warp" /\ R!Init /\ FatIdle /\ WeaponIdle /\ PlanetIdle /\ ShipIdle /\ ClockIdle
     /\ OutfitIdle /\ RingIdle /\ QueueIdle /\ LoginIdle /\ SnakeIdle /\ RobotIdle /\ PingsIdle
     /\ MetaIdle /\ RecordIdle /\ MemoryIdle /\ SlotIdle /\ packet = None /\ updated = None
     /\ at = None /\ paused = None /\ ignored = None
  \/ /\ machine = "Countdowns" /\ D!Init /\ FatIdle /\ WeaponIdle /\ PlanetIdle /\ ShipIdle
     /\ DriveIdle /\ OutfitIdle /\ RingIdle /\ QueueIdle /\ LoginIdle /\ SnakeIdle /\ RobotIdle
     /\ PingsIdle /\ MetaIdle /\ RecordIdle /\ MemoryIdle /\ SlotIdle /\ packet = None
     /\ updated = None /\ at = None /\ paused = None /\ ignored = None
  \/ /\ machine = "Outfit" /\ O!Init /\ FatIdle /\ WeaponIdle /\ PlanetIdle /\ ShipIdle /\ DriveIdle
     /\ ClockIdle /\ RingIdle /\ QueueIdle /\ LoginIdle /\ SnakeIdle /\ RobotIdle /\ PingsIdle
     /\ MetaIdle /\ RecordIdle /\ MemoryIdle /\ SlotIdle /\ packet = None /\ updated = None
     /\ at = None /\ paused = None /\ flags = None /\ ignored = None
  \/ /\ machine = "Messages" /\ M!Init /\ FatIdle /\ WeaponIdle /\ PlanetIdle /\ ShipIdle
     /\ DriveIdle /\ ClockIdle /\ OutfitIdle /\ QueueIdle /\ LoginIdle /\ SnakeIdle /\ RobotIdle
     /\ PingsIdle /\ MetaIdle /\ RecordIdle /\ MemoryIdle /\ SlotIdle /\ packet = None
     /\ updated = None /\ at = None /\ paused = None /\ flags = None
  \/ /\ machine = "Warnings" /\ B!Init /\ FatIdle /\ WeaponIdle /\ PlanetIdle /\ ShipIdle
     /\ DriveIdle /\ ClockIdle /\ OutfitIdle /\ RingIdle /\ LoginIdle /\ SnakeIdle /\ RobotIdle
     /\ PingsIdle /\ MetaIdle /\ RecordIdle /\ MemoryIdle /\ SlotIdle /\ packet = None
     /\ updated = None /\ at = None /\ paused = None /\ flags = None /\ ignored = None
  \/ /\ machine = "PlayerFile" /\ C!Init /\ FatIdle /\ WeaponIdle /\ PlanetIdle /\ ShipIdle
     /\ DriveIdle /\ ClockIdle /\ OutfitIdle /\ RingIdle /\ QueueIdle /\ SnakeIdle /\ RobotIdle
     /\ PingsIdle /\ MetaIdle /\ RecordIdle /\ MemoryIdle /\ SlotIdle /\ packet = None
     /\ updated = None /\ at = None /\ paused = None /\ flags = None /\ ignored = None
  \/ /\ machine = "Snake" /\ N!Init /\ FatIdle /\ WeaponIdle /\ PlanetIdle /\ ShipIdle /\ DriveIdle
     /\ ClockIdle /\ OutfitIdle /\ RingIdle /\ QueueIdle /\ LoginIdle /\ RobotIdle /\ PingsIdle
     /\ MetaIdle /\ RecordIdle /\ MemoryIdle /\ SlotIdle /\ packet = None /\ updated = None
     /\ at = None /\ paused = None /\ flags = None /\ ignored = None
  \/ /\ machine = "Robot" /\ K!Init /\ FatIdle /\ WeaponIdle /\ PlanetIdle /\ ShipIdle /\ DriveIdle
     /\ ClockIdle /\ OutfitIdle /\ RingIdle /\ QueueIdle /\ LoginIdle /\ SnakeIdle /\ PingsIdle
     /\ MetaIdle /\ RecordIdle /\ MemoryIdle /\ SlotIdle /\ packet = None /\ updated = None
     /\ at = None /\ paused = None /\ flags = None /\ ignored = None
  \/ /\ machine = "Ping" /\ G!Init /\ FatIdle /\ WeaponIdle /\ PlanetIdle /\ ShipIdle /\ DriveIdle
     /\ ClockIdle /\ OutfitIdle /\ RingIdle /\ QueueIdle /\ LoginIdle /\ SnakeIdle /\ RobotIdle
     /\ MetaIdle /\ RecordIdle /\ MemoryIdle /\ SlotIdle /\ packet = None /\ updated = None
     /\ at = None /\ paused = None /\ flags = None /\ ignored = None
  \/ /\ machine = "Solicit" /\ H!Init /\ FatIdle /\ WeaponIdle /\ PlanetIdle /\ ShipIdle
     /\ DriveIdle /\ ClockIdle /\ OutfitIdle /\ RingIdle /\ QueueIdle /\ LoginIdle /\ SnakeIdle
     /\ RobotIdle /\ PingsIdle /\ RecordIdle /\ MemoryIdle /\ SlotIdle /\ packet = None
     /\ updated = None /\ at = None /\ paused = None /\ flags = None /\ ignored = None
  \/ /\ machine = "TourneyLog" /\ T!Init /\ FatIdle /\ WeaponIdle /\ PlanetIdle /\ ShipIdle
     /\ DriveIdle /\ ClockIdle /\ OutfitIdle /\ RingIdle /\ QueueIdle /\ LoginIdle /\ SnakeIdle
     /\ RobotIdle /\ PingsIdle /\ MetaIdle /\ MemoryIdle /\ SlotIdle /\ packet = None
     /\ updated = None /\ at = None /\ paused = None /\ flags = None /\ ignored = None
  \/ /\ machine = "Startup" /\ U!Init /\ FatIdle /\ WeaponIdle /\ PlanetIdle /\ ShipIdle
     /\ DriveIdle /\ ClockIdle /\ OutfitIdle /\ RingIdle /\ QueueIdle /\ LoginIdle /\ SnakeIdle
     /\ RobotIdle /\ PingsIdle /\ MetaIdle /\ RecordIdle /\ SlotIdle /\ packet = None
     /\ updated = None /\ at = None /\ paused = None /\ flags = None /\ ignored = None
  \/ /\ machine = "SlotLife" /\ L!Init /\ FatIdle /\ WeaponIdle /\ PlanetIdle /\ ShipIdle
     /\ DriveIdle /\ ClockIdle /\ OutfitIdle /\ RingIdle /\ QueueIdle /\ LoginIdle /\ SnakeIdle
     /\ RobotIdle /\ PingsIdle /\ MetaIdle /\ RecordIdle /\ MemoryIdle /\ packet = None
     /\ updated = None /\ at = None /\ paused = None /\ flags = None /\ ignored = None

(* A robot's end, and bounds that are reached.                             *)
Ends == machine \in {"Robot", "Ping", "Startup"} /\ UNCHANGED vars

Next ==
  \/ Ends
  \/ /\ machine = "FatUdp" /\ F!Next
     /\ UNCHANGED <<machine, weapon, planet, ship, drive, clock, outfit, ring, queue, login, snake,
                  robot, pings, meta, record, memory, slot, updated, at, paused, flags, ignored>>
  \/ /\ machine = "WeaponView" /\ W!Next
     /\ UNCHANGED <<machine, fat, planet, ship, drive, clock, outfit, ring, queue, login, snake,
                  robot, pings, meta, record, memory, slot, packet, flags, ignored>>
  \/ /\ machine = "Scouting" /\ P!Next
     /\ UNCHANGED <<machine, fat, weapon, ship, drive, clock, outfit, ring, queue, login, snake,
                  robot, pings, meta, record, memory, slot, at, paused, flags, ignored>>
  \/ /\ machine = "ShipView" /\ S!Next
     /\ UNCHANGED <<machine, fat, weapon, planet, drive, clock, outfit, ring, queue, login, snake,
                  robot, pings, meta, record, memory, slot, packet, flags>>
  \/ /\ machine = "Warp" /\ R!Next
     /\ UNCHANGED <<machine, fat, weapon, planet, ship, clock, outfit, ring, queue, login, snake,
                  robot, pings, meta, record, memory, slot, packet, updated, at, paused, ignored>>
  \/ /\ machine = "Countdowns" /\ D!Next
     /\ UNCHANGED <<machine, fat, weapon, planet, ship, drive, outfit, ring, queue, login, snake,
                  robot, pings, meta, record, memory, slot, packet, updated, at, paused, ignored>>
  \/ /\ machine = "Outfit" /\ O!Next
     /\ UNCHANGED <<machine, fat, weapon, planet, ship, drive, clock, ring, queue, login, snake,
                  robot, pings, meta, record, memory, slot, packet, updated, at, paused, flags,
                  ignored>>
  \/ /\ machine = "Messages" /\ M!Next
     /\ UNCHANGED <<machine, fat, weapon, planet, ship, drive, clock, outfit, queue, login, snake,
                  robot, pings, meta, record, memory, slot, packet, updated, at, paused, flags>>
  \/ /\ machine = "Warnings" /\ B!Next
     /\ UNCHANGED <<machine, fat, weapon, planet, ship, drive, clock, outfit, ring, login, snake,
                  robot, pings, meta, record, memory, slot, packet, updated, at, paused, flags,
                  ignored>>
  \/ /\ machine = "PlayerFile" /\ C!Next
     /\ UNCHANGED <<machine, fat, weapon, planet, ship, drive, clock, outfit, ring, queue, snake,
                  robot, pings, meta, record, memory, slot, packet, updated, at, paused, flags,
                  ignored>>
  \/ /\ machine = "Snake" /\ N!Next
     /\ UNCHANGED <<machine, fat, weapon, planet, ship, drive, clock, outfit, ring, queue, login,
                  robot, pings, meta, record, memory, slot, packet, updated, at, paused, flags,
                  ignored>>
  \/ /\ machine = "Robot" /\ K!Next
     /\ UNCHANGED <<machine, fat, weapon, planet, ship, drive, clock, outfit, ring, queue, login,
                  snake, pings, meta, record, memory, slot, packet, updated, at, paused, flags,
                  ignored>>
  \/ /\ machine = "Ping" /\ G!Next
     /\ UNCHANGED <<machine, fat, weapon, planet, ship, drive, clock, outfit, ring, queue, login,
                  snake, robot, meta, record, memory, slot, packet, updated, at, paused, flags,
                  ignored>>
  \/ /\ machine = "Solicit" /\ H!Next
     /\ UNCHANGED <<machine, fat, weapon, planet, ship, drive, clock, outfit, ring, queue, login,
                  snake, robot, pings, record, memory, slot, packet, updated, at, paused, flags,
                  ignored>>
  \/ /\ machine = "TourneyLog" /\ T!Next
     /\ UNCHANGED <<machine, fat, weapon, planet, ship, drive, clock, outfit, ring, queue, login,
                  snake, robot, pings, meta, memory, slot, packet, updated, at, paused, flags,
                  ignored>>
  \/ /\ machine = "Startup" /\ U!Next
     /\ UNCHANGED <<machine, fat, weapon, planet, ship, drive, clock, outfit, ring, queue, login,
                  snake, robot, pings, meta, record, slot, packet, updated, at, paused, flags,
                  ignored>>
  \/ /\ machine = "SlotLife" /\ L!Next
     /\ UNCHANGED <<machine, fat, weapon, planet, ship, drive, clock, outfit, ring, queue, login,
                  snake, robot, pings, meta, record, memory, packet, updated, at, paused, flags,
                  ignored>>

Spec == Init /\ [][Next]_vars

Symmetric == Permutations(Pilot)

-----------------------------------------------------------------------------
(* FatUdp: the lists of packets to be sent again are in order, and what    *)
(* the client has missed is on one of them (what nobody promises excepted: *)
(* see Promised).                                                          *)
FatSound == machine = "FatUdp" => F!ListsSound /\ F!NotForgotten

(* Scouting: the owner of a planet knows it as it is.                      *)
OwnerKnows == machine = "Scouting" => P!OwnerKnows

(* WeaponView, ShipView: a weapon is shown as flying if and only if it     *)
(* flies; a ship on the screen is shown where it is, and where an unseen   *)
(* or cloaked ship is, is not told.                                        *)
ScreenTrue ==
  /\ machine = "WeaponView" => W!PictureTrue
  /\ machine = "ShipView" => S!OnScreen /\ S!NotGivenAway

(* Warp: the drive is engaged only after the whole of its preparation.     *)
WarpEarned == [][machine = "Warp" => R!Earned]_vars

(* Countdowns: a ship destroys itself only if that was its player's last   *)
(* request, and after the time it says, unless it is unhurt; and nobody is *)
(* blasted for a clue check that he has answered; and who declares war or  *)
(* refits gives no command until the pause is over.                        *)
CountedDown == [][machine = "Countdowns" => D!Justified /\ D!BlastedTold /\ D!PauseServed']_vars

(* Outfit: for each ship of a limited type that a team has, has lost or is *)
(* building there is a place in its limit, and who comes back to a         *)
(* tournament may rejoin his team.                                         *)
OutfitSound == machine = "Outfit" => O!LimitKept /\ O!MayRejoin

(* Messages, Warnings: what is for the client it is given, in order and    *)
(* once, and nothing else; its warnings are shown in the order in which    *)
(* they were given.                                                        *)
LettersRight ==
  /\ machine = "Messages" => M!Discreet /\ M!Delivered
  /\ machine = "Warnings" => B!InOrder

(* PlayerFile: what a player does is saved at the place of his character.  *)
OwnPlace == machine = "PlayerFile" => C!OwnPlace

(* Snake: the weapons of its slots are counted as they are, and all of it  *)
(* is at war with the player it hunts.                                     *)
SnakeSound == machine = "Snake" => N!SnakeSound

(* Robot: a robot that has fired is not cloaked, holds nobody while it is, *)
(* and does not repair behind its shields.                                 *)
RobotSound == machine = "Robot" => K!RobotSound

(* Ping: while no packet overtakes another, the loss that is reckoned is   *)
(* the loss of the network, and always a percentage.                       *)
PingSound == machine = "Ping" => G!PingSound

(* Solicit, TourneyLog: a metaserver is told of a change in time, though   *)
(* transmissions fail, and the log of a tournament tells of every end of   *)
(* a life once, whoever caused it.                                         *)
RecordsTrue ==
  /\ machine = "Solicit" => H!ReportsFresh
  /\ machine = "TourneyLog" => T!ToldOnce

(* Startup: there is one game at a time, with one daemon, and who has been *)
(* given a slot in it keeps it through a restart of the daemon.            *)
StartSound == machine = "Startup" => U!StartSound

(* SlotLife: no two processes have one slot, who looks after his slot      *)
(* keeps it, and a slot that has just been taken is not freed at once.     *)
SlotsSafe == [][machine = "SlotLife" => L!SlotsSafe' /\ L!NewcomersSpared]_vars
=============================================================================
