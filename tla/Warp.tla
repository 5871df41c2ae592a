---------------------------------- MODULE Warp ----------------------------------
(***************************************************************************)
(* The speed of one ship, and its warp drive: the requests its process     *)
(* carries out (common/interface.c: set_speed, repair, cloak_on;           *)
(* common/orbit.c: orbit; ntserv/redraw.c: follow_planet) and the daemon's *)
(* rounds (daemon/player.c: domove, doresources) change p_flags,           *)
(* p_warptime and the desired speed, each in a step of its own.            *)
(*                                                                         *)
(* Fuel and heat are left open: a test of them may go either way, except   *)
(* that the cost of the preparation is paid.  Directions are left out, and *)
(* so are the warp zones, which are switched off.  How fast a speed is     *)
(* reached is left open.                                                   *)
(***************************************************************************)
EXTENDS Integers

CONSTANTS
  Styles,                        \* WARPPREPSTYLE: of "NOTRACT", "TABORT", "TPREVENT", "TABORTNOW", "TSUSPEND"
  PrepSpeed, ImpSpeed, AfterSpeed, WarpSpeed,   \* s_warpprepspeed and maxspeed of the three drives
  s_warpinittime,
  Damages, s_maxdamage,
  cloakduringwarpprep, cloakwhilewarping, warpdecel, tractabortwarp,
  repair_during_warp, repair_during_warp_prep,
  ByAdmin                        \* an administrator gives another ship at any time

ORBSPEED == 2
Floor == -2                      \* bound: a time below zero is counted down this far

VARIABLES
  style,
  flags,                         \* of p_flags: the names below
  p_warptime, p_speed, p_desspeed, p_warpdesspeed, p_damage,
  counted                        \* history: rounds of preparation since its cost was paid, -1: not paid

Drives == {"PFWARP", "PFAFTER"}
Prep == {"PFWARPPREP", "PFWPSUSPENDED"}
Berth == {"PFORBIT", "PFDOCK"}
Flags == Drives \cup Prep \cup Berth \cup {"PFCLOAK", "PFREPAIR"}

vars == <<style, flags, p_warptime, p_speed, p_desspeed, p_warpdesspeed, p_damage, counted>>

Init ==
  /\ style \in Styles
  /\ flags = {} /\ p_warptime = 0 /\ p_speed = 0 /\ p_desspeed = 0 /\ p_warpdesspeed = 0
  /\ p_damage = 0 /\ counted = -1

Lesser(a, b) == IF a < b THEN a ELSE b
Between(a, b) == IF a <= b THEN a .. b ELSE b .. a

-----------------------------------------------------------------------------
(* Requests.  A ship that is docked at a base that flies fast stays there; *)
(* otherwise a request for a speed undocks it first.                       *)

Flies(f) == f \ (Berth \cup {"PFREPAIR"})
Undocked == flags \ {"PFDOCK"}

suspendPrep ==
  /\ flags' = Flies(flags) \cup (IF "PFWARPPREP" \in flags THEN {"PFWPSUSPENDED"} ELSE {})
  /\ UNCHANGED <<style, p_warptime, p_speed, p_desspeed, p_warpdesspeed, p_damage, counted>>

unsuspendPrep ==
  /\ flags' = Flies(flags) \ (IF "PFWARPPREP" \in flags THEN {"PFWPSUSPENDED"} ELSE {})
  /\ UNCHANGED <<style, p_warptime, p_speed, p_desspeed, p_warpdesspeed, p_damage, counted>>

afterburners ==
  /\ flags' = (Flies(flags) \ (Prep \cup Drives)) \cup {"PFAFTER"}
  /\ p_warptime' = 0 /\ p_desspeed' = AfterSpeed
  /\ counted' = -1 /\ UNCHANGED <<style, p_speed, p_warpdesspeed, p_damage>>

(* Already in preparation ("Hold your horses"), already at warp, or too    *)
(* damaged or short of fuel.                                               *)
WarpNot(speed) ==
  /\ flags' = Undocked
  /\ p_desspeed' = IF p_warptime <= 0 /\ "PFWARP" \in flags THEN speed ELSE p_desspeed
  /\ UNCHANGED <<p_warptime, p_speed, counted>>

Prepares ==
  /\ p_warptime <= 0 /\ "PFWARP" \notin flags /\ 2 * p_damage <= s_maxdamage
  /\ flags' = (Flies(flags) \ ({"PFAFTER", "PFWPSUSPENDED"}
                               \cup IF cloakduringwarpprep THEN {} ELSE {"PFCLOAK"})) \cup {"PFWARPPREP"}
  /\ p_desspeed' = PrepSpeed
  /\ p_speed' = IF p_speed < PrepSpeed THEN PrepSpeed ELSE p_speed
  /\ p_warptime' = s_warpinittime
  /\ counted' = 0

warp(speed) ==
  /\ speed = WarpSpeed \/ (speed > ImpSpeed /\ flags \cap (Prep \cup {"PFWARP"}) # {})
  /\ p_warpdesspeed' = speed
  /\ WarpNot(speed) \/ Prepares
  /\ UNCHANGED <<style, p_damage>>

impulseLeavesTime(speed) ==   \* mutant: the preparation's time is not reset
  /\ flags' = Flies(flags) \ (Prep \cup IF warpdecel THEN {} ELSE Drives)
  /\ p_desspeed' = Lesser(speed, ImpSpeed)
  /\ counted' = -1 /\ UNCHANGED <<style, p_warptime, p_speed, p_warpdesspeed, p_damage>>

impulse(speed) ==
  /\ flags' = Flies(flags) \ (Prep \cup IF warpdecel THEN {} ELSE Drives)
  /\ p_warptime' = 0 /\ p_desspeed' = Lesser(speed, ImpSpeed)
  /\ counted' = -1 /\ UNCHANGED <<style, p_speed, p_warpdesspeed, p_damage>>

set_speed ==
  \/ suspendPrep \/ unsuspendPrep \/ afterburners
  \/ \E speed \in 0 .. WarpSpeed : warp(speed) \/ impulse(speed)

(* set_course(), shields and beams leave the drives alone.                 *)
set_course ==
  /\ flags \cap Berth # {} /\ flags' = flags \ Berth
  /\ UNCHANGED <<style, p_warptime, p_speed, p_desspeed, p_warpdesspeed, p_damage, counted>>

repair ==
  /\ "PFWARP" \in flags => repair_during_warp
  /\ "PFWARPPREP" \in flags => repair_during_warp_prep
  /\ p_desspeed' = 0 /\ p_warptime' = 0
  /\ flags' = (flags \ (Drives \cup Prep)) \cup {"PFREPAIR"}
  /\ counted' = -1 /\ UNCHANGED <<style, p_speed, p_warpdesspeed, p_damage>>

repair_off ==
  /\ flags' = flags \ {"PFREPAIR"}
  /\ UNCHANGED <<style, p_warptime, p_speed, p_desspeed, p_warpdesspeed, p_damage, counted>>

cloak_on ==
  /\ p_warptime # 0 => cloakduringwarpprep
  /\ "PFWARP" \in flags => cloakwhilewarping
  /\ flags' = flags \cup {"PFCLOAK"}
  /\ UNCHANGED <<style, p_warptime, p_speed, p_desspeed, p_warpdesspeed, p_damage, counted>>

cloak_off ==
  /\ flags' = flags \ {"PFCLOAK"}
  /\ UNCHANGED <<style, p_warptime, p_speed, p_desspeed, p_warpdesspeed, p_damage, counted>>

(* orbit(): slow enough, the drives are switched off, whether a base or a  *)
(* planet is found or not.                                                 *)
orbit ==
  /\ "PFORBIT" \notin flags /\ p_speed <= ORBSPEED
  /\ p_warptime' = 0
  /\ \E found \in {{}, {"PFORBIT"}, {"PFDOCK"}} :
       /\ flags' = (flags \ (Drives \cup Prep \cup Berth)) \cup found
       /\ IF found = {} THEN counted' = -1 /\ UNCHANGED <<p_speed, p_desspeed>> ELSE p_speed' = 0 /\ p_desspeed' = 0
  /\ counted' = -1 /\ UNCHANGED <<style, p_warpdesspeed, p_damage>>

(* follow_planet(), follow_player(): near what the ship is locked on,      *)
(* decelerate_at_range() slows it down.                                    *)
follow ==
  /\ IF "PFWARP" \in flags /\ ~warpdecel
     THEN flags' = flags \ (Berth \cup {"PFWARP"}) /\ UNCHANGED p_desspeed
     ELSE /\ flags' = flags \ Berth
          /\ p_desspeed' \in (IF "PFWARP" \in flags THEN ImpSpeed ELSE 2) .. Lesser(p_desspeed, p_speed) - 1
  /\ UNCHANGED <<style, p_warptime, p_speed, p_warpdesspeed, p_damage, counted>>

-----------------------------------------------------------------------------
(* The daemon.                                                             *)

(* One round of a ship that is not in orbit and not docked; s has the      *)
(* flags, the time and the desired speed.                                  *)
Slow(s) ==
  IF s.des <= p_speed /\ p_speed <= ImpSpeed THEN [s EXCEPT !.flags = s.flags \ Drives] ELSE s

AbortNow(s, pulled) ==
  IF s.time > 0 /\ style = "TABORTNOW" /\ pulled
  THEN [s EXCEPT !.flags = s.flags \ {"PFWARPPREP"}, !.time = 0]
  ELSE s

AtPrep(s) == p_speed = PrepSpeed /\ (cloakduringwarpprep \/ "PFCLOAK" \notin s.flags)

(* The time is up: the drive is engaged, unless a tractor prevents it.     *)
Engage(s, pulled) ==
  LET t == [s EXCEPT !.flags = s.flags \ {"PFWARPPREP"}, !.time = 0]
  IN  CASE pulled /\ style = "TABORT"   -> t
        [] pulled /\ style = "TPREVENT" -> [t EXCEPT !.time = 1]
        [] OTHER -> [t EXCEPT !.flags = t.flags \cup {"PFWARP"}, !.des = p_warpdesspeed]

Counts(s, pulled) ==
  CASE s.time = 1 /\ "PFWPSUSPENDED" \in s.flags -> s
    [] s.time = 1 /\ "PFWPSUSPENDED" \notin s.flags -> Engage(s, pulled)
    [] s.time # 1 -> [s EXCEPT !.time = IF s.time > Floor THEN s.time - 1 ELSE Floor]

Waits(s, pulled) == style = "TSUSPEND" /\ pulled

Preparing(s) == s.time > 0 \/ "PFWPSUSPENDED" \in s.flags

Prepared(s, pulled) ==
  CASE ~Preparing(s) -> s
    [] Preparing(s) /\ ~AtPrep(s) ->
         [s EXCEPT !.flags = (s.flags \ IF cloakduringwarpprep THEN {} ELSE {"PFCLOAK"}) \cup {"PFWARPPREP"},
                   !.des = PrepSpeed]
    [] Preparing(s) /\ AtPrep(s) -> IF Waits(s, pulled) THEN s ELSE Counts(s, pulled)

Dropped(s, pulled) ==
  IF s.time = 0 /\ tractabortwarp /\ pulled THEN [s EXCEPT !.flags = s.flags \ {"PFWARP"}] ELSE s

Maximum(s) ==
  LET most == CASE "PFWARP" \in s.flags /\ s.time = 0 -> WarpSpeed
                [] ~("PFWARP" \in s.flags /\ s.time = 0) /\ "PFAFTER" \in s.flags -> AfterSpeed
                [] OTHER -> ImpSpeed
  IN  most - (most * p_damage) \div s_maxdamage

(* The desired speed as far as damage, heat (unless the ship is repaired)  *)
(* and fuel allow.                                                         *)
Wanted(s) ==
  {Lesser(s.des, Maximum(s)), 1} \cup IF "PFREPAIR" \in s.flags THEN {} ELSE {0}

(* Nearer to the desired speed or not yet; who changes his speed is held   *)
(* to the maximum.                                                         *)
Speeds(s, wanted) ==
  {IF v # p_speed /\ ~warpdecel THEN Lesser(v, Maximum(s)) ELSE v : v \in Between(p_speed, wanted)}

Moved(pulled) ==
  LET s == [flags |-> flags, time |-> p_warptime, des |-> p_desspeed]
  IN  Dropped(Prepared(AbortNow(Slow(s), pulled), pulled), pulled)

domove ==
  /\ flags \cap Berth = {}
  /\ \E pulled \in BOOLEAN :
       LET s == Moved(pulled)
       IN  /\ flags' = s.flags /\ p_warptime' = s.time
           /\ p_desspeed' \in Wanted(s) /\ p_speed' \in Speeds(s, p_desspeed')
           /\ counted' = CASE p_warptime > 0 /\ s.time <= 0 -> -1
                          [] s.time > 0 /\ AtPrep(s) /\ ~Waits(s, pulled) /\ counted \in 0 .. s_warpinittime - 1 -> counted + 1
                          [] OTHER -> counted
  /\ UNCHANGED <<style, p_warpdesspeed, p_damage>>

(* doresources(): the hull is repaired; without fuel the ship stops and is *)
(* seen, and too hot it slows down.                                        *)
doresources ==
  /\ p_damage' \in {d \in Damages : d <= p_damage}
  /\ flags' \in {flags, flags \ {"PFCLOAK"}}
  /\ p_desspeed' \in {p_desspeed} \cup IF "PFDOCK" \in flags THEN {} ELSE {0, 1}
  /\ UNCHANGED <<style, p_warptime, p_speed, p_warpdesspeed, counted>>

Hit ==
  /\ p_damage' \in {d \in Damages : d > p_damage}
  /\ UNCHANGED <<style, flags, p_warptime, p_speed, p_desspeed, p_warpdesspeed, counted>>

(* dotractor() of another ship pulls this one out of orbit or dock.        *)
PulledOut ==
  /\ flags \cap Berth # {} /\ flags' = flags \ Berth
  /\ UNCHANGED <<style, p_warptime, p_speed, p_desspeed, p_warpdesspeed, p_damage, counted>>

(* get_ship_for_player(): a refit, in orbit or at a base.                  *)
newship ==
  /\ flags \cap Berth # {} \/ ByAdmin
  /\ p_warptime' = 0 /\ p_damage' = 0
  /\ counted' = -1 /\ UNCHANGED <<style, flags, p_speed, p_desspeed, p_warpdesspeed>>

Next ==
  \/ set_speed \/ set_course \/ repair \/ repair_off \/ cloak_on \/ cloak_off \/ orbit \/ follow \/ newship
  \/ domove \/ doresources \/ Hit \/ PulledOut

Spec == Init /\ [][Next]_vars

-----------------------------------------------------------------------------
Engages == "PFWARP" \notin flags /\ "PFWARP" \in flags'

(* The warp drive is engaged only when its cost was paid and all of the    *)
(* preparation was counted since, at the speed of the preparation, and is  *)
(* neither suspended nor given up.                                         *)
Earned == Engages => counted >= s_warpinittime - 1 /\ "PFWPSUSPENDED" \notin flags
WarpEarned == [][Earned]_vars

(* Only a preparation that goes on is suspended, and none is counted below *)
(* zero.                                                                   *)
PrepSound == p_warptime >= 0 /\ ("PFWPSUSPENDED" \in flags => p_warptime > 0 /\ "PFWARPPREP" \in flags)
=============================================================================
