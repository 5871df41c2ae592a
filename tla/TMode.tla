-------------------------------- MODULE TMode --------------------------------
(***************************************************************************)
(* Tournament mode outside a league, as move() of daemonII.c runs it: the  *)
(* daemon counts the players of each team once a second, starts and stops  *)
(* the mode, throws the galaxy away when a game has been over for long     *)
(* enough, and ends itself when nobody is there.                           *)
(*                                                                         *)
(* One Move is one tick of the interval timer, a call of move().  Players  *)
(* come, go and change sides between two ticks.                            *)
(***************************************************************************)
EXTENDS DaemonEnd

CONSTANTS
  NUMTEAM,      \* the teams 1 .. NUMTEAM stand for FED, ROM, KLI, ORI
  Populations,  \* how many players of each team, and others (team 0), there can be
  tournplayers, \* configvals->tournplayers
  nottimeout,   \* configvals->nottimeout
  Patience,     \* minutes that an imbalance is put up with (3)
  WORD,         \* 2^w for the w bits of an unsigned long
  MaxClock      \* bound on status->clock while nobody looks at it

Team == 1 .. NUMTEAM

ASSUME TModeAssumption ==
  /\ {TicksPerSec, SecsPerMin, Patience, tournplayers, MaxClock} \subseteq Nat \ {0}
  /\ NUMTEAM \in Nat /\ nottimeout \in Nat
  /\ Populations \subseteq [0 .. NUMTEAM -> Nat]
  /\ WORD \in Nat /\ WORD > 2 * (MaxClock + Patience)

VARIABLES
  players, \* how many slots are in use: by counted players of each team, and by
           \* observers and robots (0)
  ticks,   \* ticks, counted within the minute
  s        \* what move() and tournamentMode() keep: see SharedAndStatic

vars == <<up, players, ticks, s, hist>>

SharedAndStatic ==
  [tourn      : BOOLEAN,                          \* status->tourn
   oldtourn   : BOOLEAN,                          \* static in move()
   starttourn : -1 .. nottimeout,                 \* status2->starttourn
   fuse       : 0 .. SecsPerMin + 1,              \* static in move(); larger ones are one value
   clock      : 0 .. MaxClock + Patience,         \* status->clock, a count of minutes
   wt         : -1 .. MaxClock + Patience,        \* static in tournamentMode(): start of the imbalance
   lct        : -1 .. MaxClock + Patience,        \* and time of the last message about it
   newgalaxy  : BOOLEAN,                          \* status2->newgalaxy
   dietime    : -1 .. MINUTE]                     \* ticks left to dietime, or -1

(* Minutes without tournament mode, in seconds; ticks in which the daemon  *)
(* has seen nobody; whether a warning of the imbalance has been printed.   *)
History ==
  [off : 0 .. (nottimeout + 1) * (SecsPerMin + 1), lonely : 0 .. MINUTE, warned : BOOLEAN]

------------------------------------------------------------------------------
(* tournamentMode()                                                        *)

Least(S) == CHOOSE i \in S : \A j \in S : i <= j

(* Teams with enough players, of which the code takes the first two.       *)
Eligible(p) == {i \in Team : p[i] >= tournplayers}

TwoTeams(p) == \E i, j \in Eligible(p) : i # j

Unbalanced(p) ==
  LET first  == Least(Eligible(p))
      second == Least(Eligible(p) \ {first})
  IN  TwoTeams(p) /\ (p[first] - p[second] > 2 \/ p[second] - p[first] > 2)

(* int and unsigned long compared and subtracted, as unsigned long.        *)
Unsigned(n) == n % WORD
Since(clock, n) == (clock - n) % WORD

(* The statics once an imbalance is timed.                                 *)
Timed(d) == IF d.wt = -1 THEN [d EXCEPT !.wt = d.clock, !.lct = d.clock] ELSE d
Unsaid(d) == Unsigned(d.lct) < Unsigned(d.clock)
Halts(d) == Since(d.clock, d.wt) >= Patience

(* What tournamentMode() leaves in its statics, what it returns, and       *)
(* whether it has announced the end of the mode.                           *)
Statics(d) ==
  IF ~TwoTeams(players) THEN d
  ELSE IF Unbalanced(players)
       THEN IF Unsaid(Timed(d)) THEN [Timed(d) EXCEPT !.lct = d.clock] ELSE Timed(d)
       ELSE [d EXCEPT !.wt = -1, !.lct = -1]

tournamentModeTimed(d) == TwoTeams(players) /\ ~Halts(d)

tournamentMode(d) == TwoTeams(players) /\ ~(Unbalanced(players) /\ Halts(Timed(d)))

Warns(d) == Unbalanced(players) /\ ~Halts(Timed(d)) /\ Unsaid(Timed(d))

------------------------------------------------------------------------------
(* move(), block by block                                                  *)

StartedOnlyFresh(d) ==
  IF d.oldtourn \/ d.starttourn # 0 THEN [d EXCEPT !.tourn = TRUE, !.oldtourn = TRUE]
  ELSE [d EXCEPT !.tourn = TRUE, !.oldtourn = TRUE, !.clock = 0,
                 !.starttourn = IF nottimeout = 0 THEN -1 ELSE nottimeout]

Started(d) ==
  IF d.oldtourn THEN [d EXCEPT !.tourn = TRUE]
  ELSE [d EXCEPT !.tourn = TRUE, !.oldtourn = TRUE, !.clock = 0,
                 !.starttourn = IF nottimeout = 0 THEN -1 ELSE nottimeout]

StoppedBelowZero(d) ==
  LET fuse == IF d.fuse > SecsPerMin THEN d.fuse ELSE d.fuse + 1
      off  == [d EXCEPT !.tourn = FALSE, !.oldtourn = FALSE]
  IN  IF ~d.oldtourn /\ fuse > SecsPerMin
      THEN [off EXCEPT !.fuse = 0, !.starttourn = @ - 1, !.newgalaxy = @ \/ d.starttourn = 1]
      ELSE [off EXCEPT !.fuse = fuse]

StoppedCountsToOne(d) ==
  LET off == [d EXCEPT !.tourn = FALSE, !.oldtourn = FALSE]
  IN  IF ~d.oldtourn /\ d.starttourn > 1 THEN [off EXCEPT !.starttourn = @ - 1] ELSE off

(* The mode has just stopped, or another second has passed without it.     *)
Stopped(d) ==
  LET fuse == IF d.fuse > SecsPerMin THEN d.fuse ELSE d.fuse + 1
      off  == [d EXCEPT !.tourn = FALSE, !.oldtourn = FALSE]
  IN  CASE d.oldtourn -> off
        [] ~d.oldtourn /\ fuse > SecsPerMin /\ d.starttourn > 0 ->
             [off EXCEPT !.fuse = 0, !.starttourn = @ - 1,
                         !.newgalaxy = @ \/ d.starttourn = 1]
        [] OTHER -> [off EXCEPT !.fuse = fuse]

EverySecond(d) ==
  IF tournamentMode(d) THEN Started(Statics(d)) ELSE Stopped(Statics(d))

Empty == \A i \in 0 .. NUMTEAM : players[i] = 0

udplayersRestarts(d) ==
  IF Empty
  THEN [d EXCEPT !.dietime = MINUTE, !.newgalaxy = @ \/ d.starttourn # 0]
  ELSE [d EXCEPT !.dietime = -1]

udplayersGoesOn(d) ==
  IF Empty
  THEN [d EXCEPT !.dietime = IF @ = -1 THEN MINUTE ELSE @, !.newgalaxy = @ \/ d.starttourn # 0]
  ELSE d

(* The end of udplayers()'s first loop.                                    *)
udplayers(d) ==
  IF Empty
  THEN [d EXCEPT !.dietime = IF @ = -1 THEN MINUTE ELSE @, !.newgalaxy = @ \/ d.starttourn # 0]
  ELSE [d EXCEPT !.dietime = -1]

EveryMinuteOff(d) == IF d.tourn THEN d ELSE [d EXCEPT !.clock = (@ + 1) % WORD]

EveryMinute(d) == IF d.tourn THEN [d EXCEPT !.clock = (@ + 1) % WORD] ELSE d

(* gen_planets() sets the clock back; main() goes on after its setjmp.     *)
NewGalaxy(d) ==
  IF d.newgalaxy THEN [d EXCEPT !.starttourn = 0, !.clock = 0, !.newgalaxy = FALSE] ELSE d

(* A clock above MaxClock is one value while no timestamp is compared with *)
(* it.                                                                     *)
Bounded(d) == IF d.wt = -1 /\ d.clock > MaxClock THEN [d EXCEPT !.clock = MaxClock] ELSE d

AfterTick(now) ==
  LET die    == [s EXCEPT !.dietime = IF @ = -1 THEN @ ELSE @ - 1]
      second == IF now % TicksPerSec = 0 THEN EverySecond(die) ELSE die
      alive  == udplayers(second)
      minute == IF now = 0 THEN EveryMinute(alive) ELSE alive
  IN  Bounded(NewGalaxy(minute))

------------------------------------------------------------------------------
Init ==
  /\ up = TRUE /\ ticks = 0
  /\ players \in Populations /\ Empty
  /\ \E c \in 0 .. MaxClock :   \* the clock is read from a file
       s = [tourn |-> FALSE, oldtourn |-> FALSE, starttourn |-> 0, fuse |-> 0, clock |-> c,
            wt |-> -1, lct |-> -1, newgalaxy |-> FALSE, dietime |-> -1]
  /\ hist = [off |-> 0, lonely |-> 0, warned |-> FALSE]

(* Players enter, leave, defect, begin or stop to observe.                 *)
ComeAndGo ==
  /\ up
  /\ players' \in Populations
  /\ UNCHANGED <<up, ticks, s, hist>>

(* "control newgalaxy", and tool-reset.                                    *)
AskNewGalaxy ==
  /\ up
  /\ s' = [s EXCEPT !.newgalaxy = TRUE]
  /\ UNCHANGED <<up, players, ticks, hist>>

Capped(n, bound) == IF n < bound THEN n + 1 ELSE bound

Recorded(now) ==
  LET second == now % TicksPerSec = 0
      limit  == (nottimeout + 1) * (SecsPerMin + 1)
  IN  [off    |-> IF s'.tourn THEN 0 ELSE IF second THEN Capped(hist.off, limit) ELSE hist.off,
       lonely |-> IF Empty THEN Capped(hist.lonely, MINUTE) ELSE 0,
       warned |-> IF second /\ Warns(s) THEN TRUE ELSE hist.warned /\ s'.tourn /\ s'.wt # -1]

Move ==
  LET now == (ticks + 1) % MINUTE
  IN  /\ up /\ s.dietime # 1
      /\ ticks' = now
      /\ s' = AfterTick(now)
      /\ hist' = Recorded(now)
      /\ UNCHANGED <<up, players>>

(* ++ticks == dietime: freemem().                                          *)
SelfDestruct ==
  /\ up /\ s.dietime = 1
  /\ up' = FALSE
  /\ UNCHANGED <<players, ticks, s, hist>>

Next == ComeAndGo \/ AskNewGalaxy \/ Move \/ SelfDestruct

Spec == Init /\ [][Next]_vars

(* The interval timer goes on.                                             *)
FairSpec == Spec /\ WF_vars(Move) /\ WF_vars(SelfDestruct)

------------------------------------------------------------------------------
TypeOK ==
  /\ up \in BOOLEAN /\ players \in Populations /\ ticks \in 0 .. MINUTE - 1
  /\ s \in SharedAndStatic /\ hist \in History

(* The galaxy of a game that is over, while somebody is still there and    *)
(* nobody asked for a new one, is thrown away only when the mode has been  *)
(* off for all the minutes of nottimeout but one (daemonII.c:336).  The    *)
(* fuse runs on between games, so the first of the minutes may be missing. *)
GalaxyKept ==
  [][(s.starttourn > 0 /\ s'.starttourn = 0 /\ ~s.newgalaxy /\ ~Empty)
       => hist.off >= (nottimeout - 1) * SecsPerMin]_vars

(* A game that is over is cleared away in the end: the countdown of        *)
(* starttourn ends in a new galaxy or another game.                        *)
GalaxyCleared == (s.starttourn > 0 /\ ~s.tourn) ~> (s.starttourn = 0 \/ s.tourn \/ ~up)

(* The daemon of an empty game ends, also when it has to make a new galaxy *)
(* first.                                                                  *)
EmptyEnds == <>[]Empty => <>~up

(* Neither a game nor the daemon outlives its players.                     *)
GamesEnd == GalaxyCleared /\ EmptyEnds

(* When two teams of about the same size stay, the mode starts and stays   *)
(* on, whatever became of the statics in the games before.                 *)
BalancedPlays == <>[](TwoTeams(players) /\ ~Unbalanced(players)) => <>[](s.tourn \/ ~up)

(* However unbalanced teams stay, the mode is halted, and again whenever   *)
(* it has started again, unless somebody keeps resetting the galaxy.  (It  *)
(* does start again: the countdown of the halted game ends in a new galaxy *)
(* and a clock that is back at the stale timestamp.)                       *)
UnbalancedHalts == <>[](Unbalanced(players) /\ ~s.newgalaxy) => []<>(~s.tourn \/ ~up)

(* misc.c:486-495 warns each minute that "TMODE WILL BE HALTED IN ..       *)
(* MINUTES" before it is: the mode is not halted for an imbalance of which *)
(* the players have had no warning.                                        *)
HaltWarned == [][(s.tourn /\ ~s'.tourn /\ TwoTeams(players)) => hist.warned]_vars
==============================================================================
