---------------------------- MODULE League_proof -----------------------------
(***************************************************************************)
(* The tournaments.  First the safety properties of League, for any number *)
(* of slots and empires, any lengths and any bounds on the captains'       *)
(* wishes: their conjunction is inductive, for home has an empire before   *)
(* away only if away has passed, and the phases of a game begin only from  *)
(* a state in which both sides have been looked at.  Then the daemon's     *)
(* last minute in TMode, the mode outside a league, for any populations    *)
(* and any lengths.                                                        *)
(***************************************************************************)
EXTENDS League, DaemonEnd, TLAPS

(* TMode's other parameters and variables; NUMTEAM is League's.            *)
CONSTANTS Populations, tournplayers, nottimeout, Patience, WORD, MaxClock
VARIABLES population, tick, kept

T == INSTANCE TMode WITH players <- population, ticks <- tick, s <- kept

LInv == TypeOK /\ EmpiresDiffer /\ GameHasTeams /\ AwayFirst /\ PauseHeld

USE LeagueAssumption

LEMMA ResumeNat == RESUME \in Nat \ {0}
  OBVIOUS

(* A team keeps its type when one of its fields is written.                *)
LEMMA TeamFields ==
  ASSUME NEW t \in LeagueTeam, NEW b \in BOOLEAN
  PROVE  /\ [t EXCEPT !.ready = b] \in LeagueTeam
         /\ [t EXCEPT !.named = b] \in LeagueTeam
         /\ [t EXCEPT !.desirepause = b] \in LeagueTeam
         /\ [t EXCEPT !.galaxyreset = b] \in LeagueTeam
         /\ [t EXCEPT !.restart = b] \in LeagueTeam
<1>1. [t EXCEPT !.ready = b] \in LeagueTeam
  BY DEF LeagueTeam
<1>2. [t EXCEPT !.named = b] \in LeagueTeam
  BY DEF LeagueTeam
<1>3. [t EXCEPT !.desirepause = b] \in LeagueTeam
  BY DEF LeagueTeam
<1>4. [t EXCEPT !.galaxyreset = b] \in LeagueTeam
  BY DEF LeagueTeam
<1>5. [t EXCEPT !.restart = b] \in LeagueTeam
  BY DEF LeagueTeam
<1>6. QED BY <1>1, <1>2, <1>3, <1>4, <1>5

(* The other fields of the team, and the other team, are left alone.       *)
LEMMA OneTeam ==
  ASSUME TypeOK, NEW side \in Side, NEW t \in LeagueTeam, team' = [team EXCEPT ![side] = t]
  PROVE  /\ team' \in [Side -> LeagueTeam]
         /\ \A s \in Side : team'[s] = IF s = side THEN t ELSE team[s]
  BY DEF TypeOK

LEMMA InitType == NoTeam \in LeagueTeam
  BY DEF NoTeam, LeagueTeam

(* What a step leaves alone keeps the invariant.                           *)
LEMMA LInvStutter == LInv /\ UNCHANGED vars => LInv'
  BY DEF LInv, TypeOK, EmpiresDiffer, GameHasTeams, AwayFirst, PauseHeld, vars, team_really_ready

(* explode_everyone() keeps the slots' type.                               *)
LEMMA OutType == TypeOK => EverybodyOut \in [Slot -> [status : {"PFREE", "PALIVE", "out"},
                                                      side : Side, team : Empire \cup {-1}]]
  BY DEF TypeOK, EverybodyOut

(* Steps that only touch the players.                                      *)
LEMMA PlayersKeep ==
  ASSUME LInv, UNCHANGED <<league, ticksleft, awaypassed, paused, newgalaxy, team>>,
         players' \in [Slot -> [status : {"PFREE", "PALIVE", "out"}, side : Side,
                                team : Empire \cup {-1}]]
  PROVE  LInv'
  BY DEF LInv, TypeOK, EmpiresDiffer, GameHasTeams, AwayFirst, PauseHeld, team_really_ready

(* The commands that leave empires and names alone.                        *)
LEMMA WishesKeep ==
  ASSUME LInv, UNCHANGED <<league, ticksleft, awaypassed, newgalaxy, players>>,
         team' \in [Side -> LeagueTeam], paused' \in 0 .. RESUME,
         \A s \in Side : team'[s].index = team[s].index /\ team'[s].named = team[s].named,
         PauseHeld'
  PROVE  LInv'
  BY DEF LInv, TypeOK, EmpiresDiffer, GameHasTeams, AwayFirst, team_really_ready, Side

(* A command that writes another field of one team.                        *)
LEMMA FieldWritten ==
  ASSUME LInv, UNCHANGED <<league, ticksleft, awaypassed, paused, newgalaxy, players>>,
         NEW side \in Side, NEW t \in LeagueTeam, team' = [team EXCEPT ![side] = t],
         t.index = team[side].index, t.named = team[side].named,
         t.desirepause => team[side].desirepause
  PROVE  LInv'
<1>1. /\ team' \in [Side -> LeagueTeam]
      /\ \A s \in Side : team'[s] = IF s = side THEN t ELSE team[s]
  BY OneTeam DEF LInv
<1>2. PauseHeld'
  BY <1>1 DEF LInv, PauseHeld, Side
<1>3. QED BY <1>1, <1>2, WishesKeep DEF LInv, TypeOK

(* StartedOver, with the wish for a new galaxy kept or dropped.            *)
LEMMA StartedOverKeeps ==
  ASSUME LInv, league = 1, awaypassed' = 0, newgalaxy' \in BOOLEAN,
         UNCHANGED <<league, ticksleft, paused, players>>,
         team' \in [Side -> LeagueTeam],
         \A s \in Side : team'[s].index = -1 /\ team'[s].desirepause = team[s].desirepause
  PROVE  LInv'
  BY DEF LInv, TypeOK, EmpiresDiffer, GameHasTeams, AwayFirst, PauseHeld, Side

------------------------------------------------------------------------------
LEMMA PlayerSteps ==
  ASSUME LInv, NEW p \in Slot,
         \/ Enter(p) \/ Die(p) \/ Leave(p)
         \/ \E side \in Side : Join(p, side)
         \/ \E q \in Slot, side \in Side : trydefect(p, q, side)
  PROVE  LInv'
<1>1. CASE Enter(p)
  <2>1. leaguemask(players[p].side) \in Empire \cup {-1}
    BY DEF LInv, TypeOK, leaguemask, LeagueTeam, Empire
  <2>2. QED BY <1>1, <2>1, PlayersKeep DEF Enter, LInv, TypeOK
<1>2. CASE Die(p)
  BY <1>2, PlayersKeep DEF Die, LInv, TypeOK
<1>3. CASE Leave(p)
  BY <1>3, PlayersKeep DEF Leave, FreeSlot, LInv, TypeOK, Side
<1>4. CASE \E side \in Side : Join(p, side)
  BY <1>4, PlayersKeep DEF Join, LInv, TypeOK
<1>5. CASE \E q \in Slot, side \in Side : trydefect(p, q, side)
  BY <1>5, PlayersKeep DEF trydefect, LInv, TypeOK
<1>6. QED BY <1>1, <1>2, <1>3, <1>4, <1>5

LEMMA WishSteps ==
  ASSUME LInv, NEW p \in Slot, NEW side \in Side,
         QuitCaptain(p, side) \/ NotReady(p, side) \/ Pause(p, side) \/ Continue(p, side)
  PROVE  LInv'
<1>1. CASE QuitCaptain(p, side)
  BY <1>1, WishesKeep DEF QuitCaptain, LInv, TypeOK, LeagueTeam, PauseHeld
<1>2. CASE NotReady(p, side)
  <2> DEFINE t == [team[side] EXCEPT !.ready = FALSE]
  <2>1. t \in LeagueTeam /\ team' = [team EXCEPT ![side] = t]
    BY <1>2, TeamFields DEF NotReady, LInv, TypeOK
  <2>2. t.index = team[side].index /\ t.named = team[side].named
        /\ t.desirepause = team[side].desirepause
    BY DEF LInv, TypeOK, LeagueTeam
  <2>3. QED BY <1>2, <2>1, <2>2, FieldWritten DEF NotReady
<1>3. CASE Pause(p, side)
  <2> DEFINE t == [team[side] EXCEPT !.desirepause = TRUE]
  <2>1. t \in LeagueTeam /\ TypeOK /\ team' = [team EXCEPT ![side] = t]
    BY <1>3, TeamFields DEF Pause, LInv, TypeOK
  <2>2. team' \in [Side -> LeagueTeam] /\ paused' \in 0 .. RESUME
    BY <1>3, <2>1, OneTeam, ResumeNat DEF Pause, LInv, TypeOK
  <2>3. PauseHeld'
    BY <1>3 DEF Pause, LInv, TypeOK, PauseHeld, Side, Other, LeagueTeam
  <2>4. QED BY <1>3, <2>2, <2>3, WishesKeep DEF Pause, LInv, TypeOK, LeagueTeam
<1>4. CASE Continue(p, side)
  <2> DEFINE t == [team[side] EXCEPT !.desirepause = FALSE]
  <2>1. t \in LeagueTeam /\ team' = [team EXCEPT ![side] = t]
    BY <1>4, TeamFields DEF Continue, LInv, TypeOK
  <2>2. t.index = team[side].index /\ t.named = team[side].named /\ ~t.desirepause
    BY DEF LInv, TypeOK, LeagueTeam
  <2>3. QED BY <1>4, <2>1, <2>2, FieldWritten DEF Continue
<1>5. QED BY <1>1, <1>2, <1>3, <1>4

LEMMA TakeCaptainStep == ASSUME LInv, NEW p \in Slot, TakeCaptain(p) PROVE LInv'
  BY WishesKeep DEF TakeCaptain, LInv, TypeOK, LeagueTeam, PauseHeld

LEMMA TeamnameStep ==
  ASSUME LInv, NEW p \in Slot, NEW side \in Side, Teamname(p, side) PROVE LInv'
<1> DEFINE t == [team[side] EXCEPT !.named = TRUE]
<1>1. t \in LeagueTeam /\ TypeOK /\ team' = [team EXCEPT ![side] = t]
  BY TeamFields DEF Teamname, LInv, TypeOK
<1>2. /\ team' \in [Side -> LeagueTeam]
      /\ \A s \in Side : team'[s] = IF s = side THEN t ELSE team[s]
  BY <1>1, OneTeam
<1>3. \A s \in Side : /\ team'[s].index = team[s].index
                       /\ team'[s].desirepause = team[s].desirepause
  BY <1>2 DEF LInv, TypeOK, LeagueTeam
<1>4. EmpiresDiffer' /\ AwayFirst' /\ PauseHeld'
  BY <1>3 DEF Teamname, LInv, EmpiresDiffer, AwayFirst, PauseHeld, Side
<1>5. QED BY <1>2, <1>4 DEF Teamname, LInv, TypeOK, GameHasTeams

LEMMA ChooseStep ==
  ASSUME LInv, NEW p \in Slot, NEW side \in Side, NEW i \in Empire, ChooseEmpire(p, side, i)
  PROVE  LInv'
<1>1. team' \in [Side -> LeagueTeam] /\ league = 1
  <2>1. league = 1 /\ team' = [team EXCEPT ![side].index = i]
    BY DEF ChooseEmpire
  <2>2. team \in [Side -> LeagueTeam]
    BY DEF LInv, TypeOK
  <2>3. [team[side] EXCEPT !.index = i] \in LeagueTeam
    BY <2>2 DEF LeagueTeam
  <2>4. QED BY <2>1, <2>2, <2>3
<1>2. \A s \in Side : team'[s].index = IF s = side THEN i ELSE team[s].index
  BY DEF ChooseEmpire, LInv, TypeOK, LeagueTeam
<1>3. EmpiresDiffer'
  BY <1>2 DEF ChooseEmpire, EmpiresDiffer, LInv, TypeOK, LeagueTeam, Side, Other, Empire
<1>4. AwayFirst'
  BY <1>2 DEF ChooseEmpire, AwayFirst, LInv, TypeOK, LeagueTeam, Side, Other, Empire
<1>5. PauseHeld'
  BY DEF ChooseEmpire, PauseHeld, LInv, TypeOK, LeagueTeam, Side
<1>6. QED BY <1>1, <1>3, <1>4, <1>5 DEF ChooseEmpire, LInv, TypeOK, GameHasTeams

LEMMA PassStep ==
  ASSUME LInv, NEW p \in Slot, NEW side \in Side, Pass(p, side) PROVE LInv'
<1>1. league = 1 /\ UNCHANGED <<league, ticksleft, paused, newgalaxy, players>>
  BY DEF Pass
<1>2. awaypassed' \in 1 .. 2
  BY DEF Pass, LInv, TypeOK, Side
<1>3. CASE UNCHANGED team
  BY <1>1, <1>2, <1>3 DEF LInv, TypeOK, EmpiresDiffer, GameHasTeams, AwayFirst, PauseHeld
<1>4. CASE \E h, a \in Empire :
             Drawn(h, a) /\ team' = [team EXCEPT !["HOME"].index = h, !["AWAY"].index = a]
  <2>1. PICK h \in Empire, a \in Empire :
          Drawn(h, a) /\ team' = [team EXCEPT !["HOME"].index = h, !["AWAY"].index = a]
    BY <1>4
  <2>2. team' \in [Side -> LeagueTeam]
    BY <2>1 DEF LInv, TypeOK, LeagueTeam, Side
  <2>3. EmpiresDiffer' /\ PauseHeld'
    BY <1>1, <2>1 DEF LInv, TypeOK, LeagueTeam, Side, Drawn, EmpiresDiffer, PauseHeld
  <2>4. QED BY <1>1, <1>2, <2>2, <2>3 DEF LInv, TypeOK, GameHasTeams, AwayFirst
<1>5. QED BY <1>3, <1>4 DEF Pass

LEMMA StartStep ==
  ASSUME LInv, NEW p \in Slot, NEW side \in Side, Start(p, side) PROVE LInv'
<1> DEFINE bothready == team[Other(side)].ready /\ team_really_ready(team[Other(side)])
<1>1. team_really_ready(team[side]) \in BOOLEAN /\ bothready \in BOOLEAN
  BY DEF team_really_ready, LInv, TypeOK, LeagueTeam, Side, Other
<1>2. \A b \in BOOLEAN, s \in Side :
        /\ [team[s] EXCEPT !.ready = b] \in LeagueTeam
        /\ [team[s] EXCEPT !.ready = b].index = team[s].index
        /\ [team[s] EXCEPT !.ready = b].named = team[s].named
        /\ [team[s] EXCEPT !.ready = b].desirepause = team[s].desirepause
  <2>1. \A b \in BOOLEAN, s \in Side : [team[s] EXCEPT !.ready = b] \in LeagueTeam
    BY TeamFields DEF LInv, TypeOK
  <2>2. QED BY <2>1 DEF LInv, TypeOK, LeagueTeam
<1>3. /\ team' \in [Side -> LeagueTeam]
      /\ \A s \in Side : \/ team'[s] = team[s]
                          \/ \E b \in BOOLEAN : team'[s] = [team[s] EXCEPT !.ready = b]
  <2>1. CASE ~team_really_ready(team[side])
    <3>1. team' = [team EXCEPT ![side] = [team[side] EXCEPT !.ready = FALSE]]
      BY <2>1 DEF Start
    <3>2. QED BY <3>1, <1>2 DEF LInv, TypeOK
  <2>2. CASE team_really_ready(team[side])
    <3>1. /\ Other(side) \in Side /\ Other(side) # side
          /\ \A s \in Side : s = side \/ s = Other(side)
      BY DEF Other, Side
    <3>2. team' = [team EXCEPT ![side] = [team[side] EXCEPT !.ready = TRUE],
                               ![Other(side)] = [team[Other(side)] EXCEPT !.ready = bothready]]
      BY <2>2, <3>1 DEF Start
    <3>3. QED BY <3>1, <3>2, <1>1, <1>2 DEF LInv, TypeOK
  <2>3. QED BY <2>1, <2>2
<1>4. /\ team' \in [Side -> LeagueTeam]
      /\ \A s \in Side : /\ team'[s].index = team[s].index /\ team'[s].named = team[s].named
                         /\ team'[s].desirepause = team[s].desirepause
  <2> SUFFICES ASSUME NEW s \in Side
               PROVE  /\ team'[s].index = team[s].index /\ team'[s].named = team[s].named
                      /\ team'[s].desirepause = team[s].desirepause
    BY <1>3
  <2>1. CASE team'[s] = team[s]
    BY <2>1
  <2>2. CASE \E b \in BOOLEAN : team'[s] = [team[s] EXCEPT !.ready = b]
    BY <1>2, <2>2
  <2>3. QED BY <1>3, <2>1, <2>2
<1>5. EmpiresDiffer' /\ AwayFirst' /\ PauseHeld'
  BY <1>4 DEF Start, LInv, EmpiresDiffer, AwayFirst, PauseHeld, Side
<1>6. /\ league' \in 1 .. 3 /\ ticksleft' \in Int
      /\ players' \in [Slot -> [status : {"PFREE", "PALIVE", "out"}, side : Side,
                                team : Empire \cup {-1}]]
  BY OutType DEF Start, LInv, TypeOK
<1>7. GameHasTeams'
  <2>1. league' > 1 => team_really_ready(team[side]) /\ team_really_ready(team[Other(side)])
    BY DEF Start, LInv, TypeOK
  <2>2. QED BY <1>4, <2>1 DEF GameHasTeams, team_really_ready, Side, Other
<1>8. QED BY <1>4, <1>5, <1>6, <1>7 DEF Start, LInv, TypeOK

LEMMA StartedOverType ==
  ASSUME TypeOK
  PROVE  /\ StartedOver \in [Side -> LeagueTeam]
         /\ \A s \in Side : /\ StartedOver[s].index = -1
                            /\ StartedOver[s].desirepause = team[s].desirepause
<1> DEFINE over(s) == [team[s] EXCEPT !.index = -1, !.ready = FALSE, !.restart = FALSE]
<1>1. StartedOver = [s \in Side |-> over(s)]
  BY DEF StartedOver
<1>2. ASSUME NEW s \in Side
      PROVE  over(s) \in LeagueTeam /\ over(s).index = -1
             /\ over(s).desirepause = team[s].desirepause
  <2>1. team[s] \in LeagueTeam
    BY DEF TypeOK
  <2> DEFINE i == [team[s] EXCEPT !.index = -1]
             r == [i EXCEPT !.ready = FALSE]
  <2>2. i \in LeagueTeam /\ i.index = -1 /\ i.desirepause = team[s].desirepause
    BY <2>1 DEF LeagueTeam
  <2> HIDE DEF i
  <2>3. r \in LeagueTeam /\ r.index = -1 /\ r.desirepause = team[s].desirepause
    <3>1. r \in LeagueTeam
      BY <2>2, TeamFields
    <3>2. QED BY <2>2 DEF LeagueTeam
  <2> HIDE DEF r
  <2>4. over(s) = [r EXCEPT !.restart = FALSE]
    BY DEF i, r
  <2> HIDE DEF over
  <2>5. over(s) \in LeagueTeam
    BY <2>3, <2>4, TeamFields
  <2>6. QED BY <2>3, <2>4, <2>5 DEF LeagueTeam
<1>3. QED BY <1>1, <1>2

LEMMA StartOverSteps ==
  ASSUME LInv, NEW p \in Slot, NEW side \in Side, NEW want \in BOOLEAN,
         Restart(p, side, want) \/ NewGalaxy(p, side, want)
  PROVE  LInv'
<1>1. CASE Restart(p, side, want)
  <2>1. CASE want /\ team[Other(side)].restart
    <3>1. team' = StartedOver /\ team' \in [Side -> LeagueTeam]
      BY <1>1, <2>1, StartedOverType DEF Restart, LInv
    <3>2. \A s \in Side : team'[s].index = -1 /\ team'[s].desirepause = team[s].desirepause
      BY <3>1, StartedOverType DEF LInv
    <3>3. QED BY <1>1, <2>1, <3>1, <3>2, StartedOverKeeps DEF Restart, LInv, TypeOK
  <2>2. CASE ~(want /\ team[Other(side)].restart)
    <3> DEFINE t == [team[side] EXCEPT !.restart = want]
    <3>1. t \in LeagueTeam /\ team' = [team EXCEPT ![side] = t]
      BY <1>1, <2>2, TeamFields DEF Restart, LInv, TypeOK
    <3>2. t.index = team[side].index /\ t.named = team[side].named
          /\ t.desirepause = team[side].desirepause
      BY DEF LInv, TypeOK, LeagueTeam
    <3>3. QED BY <1>1, <2>2, <3>1, <3>2, FieldWritten DEF Restart
  <2>3. QED BY <2>1, <2>2
<1>2. CASE NewGalaxy(p, side, want)
  <2>1. CASE want /\ team[Other(side)].galaxyreset
    <3>1. team' = [s \in Side |-> [StartedOver[s] EXCEPT !.galaxyreset = FALSE]]
      BY <1>2, <2>1 DEF NewGalaxy
    <3>2. /\ team' \in [Side -> LeagueTeam]
          /\ \A s \in Side : team'[s] = [StartedOver[s] EXCEPT !.galaxyreset = FALSE]
      BY <3>1, TeamFields, StartedOverType DEF LInv
    <3>3. \A s \in Side : team'[s].index = -1 /\ team'[s].desirepause = team[s].desirepause
      BY <3>2, StartedOverType DEF LInv, LeagueTeam
    <3>4. QED BY <1>2, <2>1, <3>2, <3>3, StartedOverKeeps DEF NewGalaxy
  <2>2. CASE ~(want /\ team[Other(side)].galaxyreset)
    <3> DEFINE t == [team[side] EXCEPT !.galaxyreset = want]
    <3>1. t \in LeagueTeam /\ team' = [team EXCEPT ![side] = t]
      BY <1>2, <2>2, TeamFields DEF NewGalaxy, LInv, TypeOK
    <3>2. t.index = team[side].index /\ t.named = team[side].named
          /\ t.desirepause = team[side].desirepause
      BY DEF LInv, TypeOK, LeagueTeam
    <3>3. QED BY <1>2, <2>2, <3>1, <3>2, FieldWritten DEF NewGalaxy
  <2>3. QED BY <2>1, <2>2
<1>3. QED BY <1>1, <1>2

LEMMA TickStep == ASSUME LInv, Tick PROVE LInv'
<1>1. UNCHANGED <<awaypassed, team>> /\ newgalaxy' = FALSE
  BY DEF Tick
<1>2. EmpiresDiffer' /\ AwayFirst'
  BY <1>1 DEF LInv, EmpiresDiffer, AwayFirst
<1>3. paused' \in 0 .. RESUME /\ PauseHeld'
  BY <1>1 DEF Tick, handle_pause_goop, NobodyPauses, LInv, TypeOK, PauseHeld
<1>4. /\ league' \in 1 .. 3 /\ ticksleft' \in Int
      /\ players' \in [Slot -> [status : {"PFREE", "PALIVE", "out"}, side : Side,
                                team : Empire \cup {-1}]]
      /\ league' > 1 => league > 1
  BY OutType DEF Tick, udtourny, LInv, TypeOK
<1>5. GameHasTeams'
  BY <1>1, <1>4 DEF LInv, GameHasTeams, team_really_ready
<1>6. QED BY <1>1, <1>2, <1>3, <1>4, <1>5 DEF LInv, TypeOK

------------------------------------------------------------------------------
(* The conjunction is an invariant.                                        *)
THEOREM LeagueInvariant == Spec => []LInv
<1>1. Init => LInv
  <2> SUFFICES ASSUME Init PROVE LInv
    OBVIOUS
  <2>1. \A s \in Side : team[s] = NoTeam
    BY DEF Init
  <2>2. team \in [Side -> LeagueTeam]
    BY InitType DEF Init
  <2>3. players \in [Slot -> [status : {"PFREE", "PALIVE", "out"}, side : Side,
                              team : Empire \cup {-1}]]
    BY DEF Init, FreeSlot, Side
  <2>4. /\ league \in 1 .. 3 /\ ticksleft \in Int /\ awaypassed \in 0 .. 2
        /\ paused \in 0 .. RESUME /\ ~(league > 1)
    BY ResumeNat DEF Init
  <2>5. newgalaxy \in BOOLEAN
    BY DEF Init
  <2>6. \A s \in Side : team[s].index = -1 /\ ~team[s].desirepause
    BY <2>1 DEF NoTeam
  <2>7. TypeOK /\ GameHasTeams
    BY <2>2, <2>3, <2>4, <2>5 DEF TypeOK, GameHasTeams
  <2>8. EmpiresDiffer /\ AwayFirst /\ PauseHeld
    BY <2>6 DEF EmpiresDiffer, AwayFirst, PauseHeld, Side
  <2>9. QED BY <2>7, <2>8 DEF LInv
<1>2. LInv /\ [Next]_vars => LInv'
  <2> SUFFICES ASSUME LInv, [Next]_vars PROVE LInv'
    OBVIOUS
  <2>1. CASE Tick
    BY <2>1, TickStep
  <2>2. ASSUME NEW p \in Slot, Command(p) PROVE LInv'
    BY <2>2, TakeCaptainStep, WishSteps, TeamnameStep, PassStep, StartStep, ChooseStep,
       StartOverSteps, PlayerSteps DEF Command
  <2>3. ASSUME NEW p \in Slot,
               Enter(p) \/ Die(p) \/ Leave(p) \/ \E side \in Side : Join(p, side)
        PROVE LInv'
    BY <2>3, PlayerSteps
  <2>4. CASE UNCHANGED vars
    BY <2>4, LInvStutter
  <2>5. QED BY <2>1, <2>2, <2>3, <2>4 DEF Next
<1>3. QED BY <1>1, <1>2, PTL DEF Spec

(* Every field keeps its type.                                             *)
THEOREM LeagueType == Spec => []TypeOK
  BY LeagueInvariant, PTL DEF LInv

(* The properties that the run "league" checks, for every value of the     *)
(* constants: the phases of the game, the choice of empires (message.c)    *)
(* and the pause (daemonII.c) fit together.                                *)
THEOREM LeagueSafe == Spec => [](EmpiresDiffer /\ AwayFirst /\ GameInOrder)
  BY LeagueInvariant, PTL DEF LInv, GameInOrder
------------------------------------------------------------------------------
(* The end of the daemon in TMode.                                         *)

HIDE LeagueAssumption

(* What the proof takes from the parameters: TModeAssumption without the   *)
(* bounds on MaxClock.                                                     *)
ClockAssumption ==
  /\ {TicksPerSec, SecsPerMin, WORD} \subseteq Nat \ {0}
  /\ {MaxClock, Patience, nottimeout} \subseteq Nat

(* What move() keeps, without the bounds of the counters.                  *)
Kept ==
  [tourn : BOOLEAN, oldtourn : BOOLEAN, starttourn : Int, fuse : Int, clock : Int, wt : Int, lct : Int,
   newgalaxy : BOOLEAN, dietime : Int]

(* While the daemon's last minute runs, what it has seen of nobody and     *)
(* what it still waits make up the minute.                                 *)
LonelyInv ==
  /\ kept \in Kept
  /\ hist.lonely \in 0 .. T!MINUTE
  /\ kept.dietime = -1 \/ (kept.dietime >= 1 /\ hist.lonely + kept.dietime >= T!MINUTE + 1)

(* A minute has at least one tick.                                         *)
LEMMA MinuteIs ==
  ASSUME ClockAssumption
  PROVE  T!MINUTE \in Nat \ {0}
<1>1. \A a, b \in Nat \ {0} : a * b \in Nat \ {0}
  <2>1. SUFFICES ASSUME NEW a \in Nat \ {0}, NEW b \in Nat \ {0} PROVE a * b \in Nat \ {0}
    OBVIOUS
  <2>2. PICK c \in Nat : b = c + 1
    <3>1. b - 1 \in Nat /\ b = (b - 1) + 1
      OBVIOUS
    <3> QED
      BY <3>1
  <2>3. a * c \in Nat
    OBVIOUS
  <2>4. a * b = a * c + a
    BY <2>2
  <2> QED
    BY <2>3, <2>4
<1> QED
  BY <1>1 DEF ClockAssumption, T!MINUTE

(* One field, or two, of what move() keeps are written.                    *)
LEMMA Written ==
  ASSUME NEW d \in Kept, NEW n \in Int, NEW m \in Int, NEW a \in BOOLEAN
  PROVE  /\ [d EXCEPT !.wt = n, !.lct = m] \in Kept /\ [d EXCEPT !.wt = n, !.lct = m].dietime = d.dietime
         /\ [d EXCEPT !.lct = n] \in Kept /\ [d EXCEPT !.lct = n].dietime = d.dietime
         /\ [d EXCEPT !.tourn = a] \in Kept /\ [d EXCEPT !.tourn = a].dietime = d.dietime
         /\ [d EXCEPT !.oldtourn = a] \in Kept /\ [d EXCEPT !.oldtourn = a].dietime = d.dietime
         /\ [d EXCEPT !.fuse = n] \in Kept /\ [d EXCEPT !.fuse = n].dietime = d.dietime
         /\ [d EXCEPT !.clock = n] \in Kept /\ [d EXCEPT !.clock = n].dietime = d.dietime
         /\ [d EXCEPT !.starttourn = n] \in Kept /\ [d EXCEPT !.starttourn = n].dietime = d.dietime
         /\ [d EXCEPT !.newgalaxy = a] \in Kept /\ [d EXCEPT !.newgalaxy = a].dietime = d.dietime
         /\ [d EXCEPT !.dietime = n] \in Kept /\ [d EXCEPT !.dietime = n].dietime = n
BY DEF Kept

(* What happens once a second, the tournament mode started, looked at or   *)
(* stopped, leaves the count down to the daemon's end alone.               *)
LEMMA SecondKept ==
  ASSUME ClockAssumption, NEW d \in Kept
  PROVE  T!EverySecond(d) \in Kept /\ T!EverySecond(d).dietime = d.dietime
<1> DEFINE u == T!Timed(d)
<1>1. u \in Kept /\ u.dietime = d.dietime
  BY DEF T!Timed, Kept
<1> HIDE DEF u
<1>2. T!Statics(d) \in Kept /\ T!Statics(d).dietime = d.dietime
  <2>1. /\ [u EXCEPT !.lct = d.clock] \in Kept /\ [u EXCEPT !.lct = d.clock].dietime = d.dietime
    BY <1>1 DEF Kept
  <2>2. /\ [d EXCEPT !.wt = -1, !.lct = -1] \in Kept /\ [d EXCEPT !.wt = -1, !.lct = -1].dietime = d.dietime
    BY -1 \in Int, Written, Zenon
  <2> QED
    BY <1>1, <2>1, <2>2 DEF T!Statics, u
<1> DEFINE v == T!Statics(d)
<1> HIDE DEF v
<1>3. v \in Kept /\ v.dietime = d.dietime
  BY <1>2 DEF v
<1>4. nottimeout \in Int /\ SecsPerMin \in Int
  BY DEF ClockAssumption
<1>5. T!Started(v) \in Kept /\ T!Started(v).dietime = v.dietime
  <2> DEFINE n == IF nottimeout = 0 THEN -1 ELSE nottimeout
  <2>1. n \in Int
    BY <1>4
  <2> HIDE DEF n
  <2>2. /\ [v EXCEPT !.tourn = TRUE] \in Kept /\ [v EXCEPT !.tourn = TRUE].dietime = v.dietime
    BY <1>3 DEF Kept
  <2>3. /\ [v EXCEPT !.tourn = TRUE, !.oldtourn = TRUE, !.clock = 0, !.starttourn = n] \in Kept
        /\ [v EXCEPT !.tourn = TRUE, !.oldtourn = TRUE, !.clock = 0, !.starttourn = n].dietime = v.dietime
    <3> DEFINE v1 == [v EXCEPT !.tourn = TRUE]
               v2 == [v1 EXCEPT !.oldtourn = TRUE]
               v3 == [v2 EXCEPT !.clock = 0]
               v4 == [v3 EXCEPT !.starttourn = n]
    <3>1. v4 = [v EXCEPT !.tourn = TRUE, !.oldtourn = TRUE, !.clock = 0, !.starttourn = n]
      OBVIOUS
    <3>2. v1 \in Kept /\ v1.dietime = v.dietime
      BY <1>3, 0 \in Int, TRUE \in BOOLEAN, FALSE \in BOOLEAN, Written, Zenon
    <3> HIDE DEF v1
    <3>3. v2 \in Kept /\ v2.dietime = v.dietime
      BY <3>2, 0 \in Int, TRUE \in BOOLEAN, FALSE \in BOOLEAN, Written, Zenon
    <3> HIDE DEF v2
    <3>4. v3 \in Kept /\ v3.dietime = v.dietime
      BY <3>3, 0 \in Int, TRUE \in BOOLEAN, FALSE \in BOOLEAN, Written, Zenon
    <3> HIDE DEF v3
    <3>5. v4 \in Kept /\ v4.dietime = v.dietime
      BY <2>1, <3>4, Written
    <3> QED
      BY <3>1, <3>5, Zenon
  <2> QED
    BY <2>2, <2>3 DEF T!Started, n
<1>6. T!Stopped(v) \in Kept /\ T!Stopped(v).dietime = v.dietime
  <2> DEFINE off == [v EXCEPT !.tourn = FALSE, !.oldtourn = FALSE]
             f == IF v.fuse > SecsPerMin THEN v.fuse ELSE v.fuse + 1
             x == [off EXCEPT !.fuse = 0, !.starttourn = @ - 1, !.newgalaxy = @ \/ v.starttourn = 1]
             y == [off EXCEPT !.fuse = f]
  <2>1. f \in Int
    BY <1>3, <1>4 DEF Kept
  <2> HIDE DEF f
  <2>2. off \in Kept /\ off.dietime = v.dietime
    BY <1>3 DEF Kept
  <2> HIDE DEF off
  <2>3. x \in Kept /\ x.dietime = v.dietime
    <3> DEFINE o == off.starttourn - 1
               g == off.newgalaxy \/ v.starttourn = 1
               x1 == [off EXCEPT !.fuse = 0]
               x2 == [x1 EXCEPT !.starttourn = o]
               x3 == [x2 EXCEPT !.newgalaxy = g]
    <3>1. x3 = x
      OBVIOUS
    <3>2. o \in Int /\ g \in BOOLEAN
      BY <2>2 DEF Kept
    <3>3. x1 \in Kept /\ x1.dietime = v.dietime
      BY <2>2, 0 \in Int, TRUE \in BOOLEAN, FALSE \in BOOLEAN, Written, Zenon
    <3> HIDE DEF x1, o, g
    <3>4. x2 \in Kept /\ x2.dietime = v.dietime
      BY <3>2, <3>3, Written
    <3> HIDE DEF x2
    <3>5. x3 \in Kept /\ x3.dietime = v.dietime
      BY <3>2, <3>4, Written
    <3> QED
      BY <3>1, <3>5
  <2>4. y \in Kept /\ y.dietime = v.dietime
    BY <2>1, <2>2 DEF Kept
  <2>5. T!Stopped(v) \in {off, x, y}
    BY DEF T!Stopped, off, f
  <2> QED
    BY <2>2, <2>3, <2>4, <2>5
<1> QED
  BY <1>3, <1>5, <1>6 DEF T!EverySecond, v

(* So do the rest of a tick: the count of minutes, the new galaxy and the  *)
(* model's bound on the clock.                                             *)
LEMMA LastsKept ==
  ASSUME ClockAssumption, NEW d \in Kept
  PROVE  /\ T!EveryMinute(d) \in Kept /\ T!EveryMinute(d).dietime = d.dietime
         /\ T!NewGalaxy(d) \in Kept /\ T!NewGalaxy(d).dietime = d.dietime
         /\ T!Bounded(d) \in Kept /\ T!Bounded(d).dietime = d.dietime
<1> DEFINE c == (d.clock + 1) % WORD
<1>1. c \in Int /\ MaxClock \in Int
  BY DEF ClockAssumption, Kept
<1> HIDE DEF c
<1>2. [d EXCEPT !.clock = c] \in Kept /\ [d EXCEPT !.clock = c].dietime = d.dietime
  BY <1>1 DEF Kept
<1>3. /\ [d EXCEPT !.starttourn = 0, !.clock = 0, !.newgalaxy = FALSE] \in Kept
      /\ [d EXCEPT !.starttourn = 0, !.clock = 0, !.newgalaxy = FALSE].dietime = d.dietime
  <2> DEFINE x1 == [d EXCEPT !.starttourn = 0]
             x2 == [x1 EXCEPT !.clock = 0]
             x3 == [x2 EXCEPT !.newgalaxy = FALSE]
  <2>1. x3 = [d EXCEPT !.starttourn = 0, !.clock = 0, !.newgalaxy = FALSE]
    OBVIOUS
  <2>2. x1 \in Kept /\ x1.dietime = d.dietime
    BY 0 \in Int, TRUE \in BOOLEAN, FALSE \in BOOLEAN, Written, Zenon
  <2> HIDE DEF x1
  <2>3. x2 \in Kept /\ x2.dietime = d.dietime
    BY <2>2, 0 \in Int, TRUE \in BOOLEAN, FALSE \in BOOLEAN, Written, Zenon
  <2> HIDE DEF x2
  <2>4. x3 \in Kept /\ x3.dietime = d.dietime
    BY <2>3, 0 \in Int, TRUE \in BOOLEAN, FALSE \in BOOLEAN, Written, Zenon
  <2> QED
    BY <2>1, <2>4, Zenon
<1>4. [d EXCEPT !.clock = MaxClock] \in Kept /\ [d EXCEPT !.clock = MaxClock].dietime = d.dietime
  BY <1>1 DEF Kept
<1> QED
  BY <1>2, <1>3, <1>4 DEF T!EveryMinute, T!NewGalaxy, T!Bounded, c

(* The clock of the empty game is set, goes on or is put away.             *)
LEMMA DietimeIs ==
  ASSUME ClockAssumption, NEW d \in Kept
  PROVE  /\ T!udplayers(d) \in Kept
         /\ T!udplayers(d).dietime = IF T!Empty THEN IF d.dietime = -1 THEN T!MINUTE ELSE d.dietime ELSE -1
<1>1. T!MINUTE \in Int
  BY MinuteIs
<1> DEFINE m == IF d.dietime = -1 THEN T!MINUTE ELSE d.dietime
           g == d.newgalaxy \/ d.starttourn # 0
<1>2. m \in Int /\ g \in BOOLEAN
  BY <1>1 DEF Kept
<1>3. [d EXCEPT !.dietime = m, !.newgalaxy = g] \in Kept /\ [d EXCEPT !.dietime = m, !.newgalaxy = g].dietime = m
  <2> HIDE DEF m, g
  <2> QED
    BY <1>2 DEF Kept
<1>4. [d EXCEPT !.dietime = -1] \in Kept /\ [d EXCEPT !.dietime = -1].dietime = -1
  BY DEF Kept
<1>5. T!Empty => T!udplayers(d) = [d EXCEPT !.dietime = m, !.newgalaxy = g]
  BY DEF T!udplayers
<1>6. ~T!Empty => T!udplayers(d) = [d EXCEPT !.dietime = -1]
  BY DEF T!udplayers
<1> QED
  BY <1>3, <1>4, <1>5, <1>6

(* A tick of the daemon counts down while nobody is there, and puts the    *)
(* count away as soon as somebody is.                                      *)
LEMMA TickKept ==
  ASSUME ClockAssumption, kept \in Kept, NEW now
  PROVE  /\ T!AfterTick(now) \in Kept
         /\ T!AfterTick(now).dietime =
              IF ~T!Empty THEN -1
              ELSE IF kept.dietime \in {-1, 0} THEN T!MINUTE ELSE kept.dietime - 1
<1> DEFINE n == IF kept.dietime = -1 THEN kept.dietime ELSE kept.dietime - 1
           die == [kept EXCEPT !.dietime = n]
           second == IF now % TicksPerSec = 0 THEN T!EverySecond(die) ELSE die
           alive == T!udplayers(second)
           minute == IF now = 0 THEN T!EveryMinute(alive) ELSE alive
           new == T!NewGalaxy(minute)
<1>1. n \in Int
  BY DEF Kept
<1>2. die \in Kept /\ die.dietime = n
  <2> HIDE DEF n
  <2> QED
    BY <1>1 DEF Kept
<1>3. T!AfterTick(now) = T!Bounded(new)
  BY DEF T!AfterTick
<1> HIDE DEF die
<1>4. second \in Kept /\ second.dietime = n
  BY <1>2, SecondKept
<1> HIDE DEF second
<1>5. alive \in Kept /\ alive.dietime = IF T!Empty THEN IF n = -1 THEN T!MINUTE ELSE n ELSE -1
  BY <1>4, DietimeIs
<1> HIDE DEF alive
<1>6. minute \in Kept /\ minute.dietime = alive.dietime
  BY <1>5, LastsKept
<1> HIDE DEF minute
<1>7. new \in Kept /\ new.dietime = alive.dietime
  BY <1>6, LastsKept
<1> HIDE DEF new
<1>8. T!Bounded(new) \in Kept /\ T!Bounded(new).dietime = alive.dietime
  BY <1>7, LastsKept
<1>9. (n = -1) <=> kept.dietime \in {-1, 0}
  BY <1>2 DEF Kept
<1> QED
  BY <1>3, <1>5, <1>8, <1>9

(* daemonII.c: move() and player.c: udplayers().  The daemon ends itself   *)
(* only after a whole minute of ticks in each of which it has seen nobody, *)
(* whoever comes and goes between the ticks, whatever happens to the       *)
(* galaxy, the tournament mode and its clocks meanwhile, for every number  *)
(* of teams and players and every length of the timers.                    *)
THEOREM LonelyEnds ==
  ASSUME ClockAssumption
  PROVE  T!Spec => LonelyEnd
<1>0. T!MINUTE \in Nat \ {0}
  BY MinuteIs
<1>1. T!Init => LonelyInv
  BY <1>0 DEF T!Init, LonelyInv, Kept, ClockAssumption
<1>2. LonelyInv /\ [T!Next]_(T!vars) => LonelyInv'
  <2> SUFFICES ASSUME LonelyInv, [T!Next]_(T!vars) PROVE LonelyInv'
    OBVIOUS
  <2>1. CASE UNCHANGED T!vars
    BY <2>1 DEF T!vars, LonelyInv
  <2>2. CASE T!ComeAndGo \/ T!SelfDestruct
    BY <2>2 DEF T!ComeAndGo, T!SelfDestruct, LonelyInv
  <2>3. CASE T!AskNewGalaxy
    <3>1. kept' = [kept EXCEPT !.newgalaxy = TRUE] /\ hist' = hist
      BY <2>3 DEF T!AskNewGalaxy
    <3>2. kept' \in Kept /\ kept'.dietime = kept.dietime
      BY <3>1 DEF LonelyInv, Kept
    <3> QED
      BY <3>1, <3>2 DEF LonelyInv
  <2>4. CASE T!Move
    <3>1. kept' = T!AfterTick((tick + 1) % T!MINUTE) /\ hist' = T!Recorded((tick + 1) % T!MINUTE)
          /\ kept.dietime # 1
      BY <2>4 DEF T!Move
    <3>2. kept' \in Kept /\ kept'.dietime = IF ~T!Empty THEN -1 ELSE IF kept.dietime \in {-1, 0} THEN T!MINUTE
                                                                  ELSE kept.dietime - 1
      BY <3>1, TickKept DEF LonelyInv
    <3>3. hist'.lonely = IF T!Empty THEN T!Capped(hist.lonely, T!MINUTE) ELSE 0
      BY <3>1 DEF T!Recorded
    <3> DEFINE m == T!MINUTE
               d == kept.dietime
               l == hist.lonely
    <3>4. d \in Int /\ l \in 0 .. m /\ (d = -1 \/ (d >= 1 /\ l + d >= m + 1)) /\ d # 1
      BY <3>1 DEF LonelyInv, Kept
    <3>5. T!Capped(l, m) = IF l < m THEN l + 1 ELSE m
      BY DEF T!Capped
    <3>6. /\ hist'.lonely \in 0 .. m
          /\ kept'.dietime = -1 \/ (kept'.dietime >= 1 /\ hist'.lonely + kept'.dietime >= m + 1)
      <4> DEFINE d2 == kept'.dietime
                 l2 == hist'.lonely
      <4>1. /\ d2 = IF ~T!Empty THEN -1 ELSE IF d \in {-1, 0} THEN m ELSE d - 1
            /\ l2 = IF T!Empty THEN IF l < m THEN l + 1 ELSE m ELSE 0
        BY <3>2, <3>3, <3>5
      <4> HIDE DEF m, d, l, d2, l2
      <4>2. m \in Nat \ {0}
        BY <1>0 DEF m
      <4>3. l2 \in 0 .. m /\ (d2 = -1 \/ (d2 >= 1 /\ l2 + d2 >= m + 1))
        <5>1. CASE ~T!Empty
          BY <4>1, <4>2, <5>1
        <5>2. CASE T!Empty
          BY <3>4, <4>1, <4>2, <5>2
        <5> QED
          BY <5>1, <5>2
      <4> QED
        BY <4>3 DEF d2, l2
    <3> QED
      BY <3>2, <3>6 DEF LonelyInv
  <2> QED
    BY <2>1, <2>2, <2>3, <2>4 DEF T!Next
<1> DEFINE Step == up /\ ~up' => hist.lonely = MINUTE
<1>3. LonelyInv /\ [T!Next]_(T!vars) => [Step]_up
  <2> SUFFICES ASSUME LonelyInv, [T!Next]_(T!vars), up, ~up' PROVE hist.lonely = MINUTE
    OBVIOUS
  <2>1. kept.dietime = 1
    BY DEF T!Next, T!vars, T!ComeAndGo, T!AskNewGalaxy, T!Move, T!SelfDestruct
  <2> QED
    BY <1>0, <2>1 DEF LonelyInv, MINUTE, T!MINUTE
<1>4. LonelyEnd <=> [][Step]_up
  BY DEF LonelyEnd
<1> HIDE DEF Step
<1> QED
  BY <1>1, <1>2, <1>3, <1>4, PTL DEF T!Spec
==============================================================================
