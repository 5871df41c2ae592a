---------------------------- MODULE Conquest_proof ----------------------------
(***************************************************************************)
(* Proofs about Conquest: the counts of planets are fresh, the game ends   *)
(* for a loser who has lost, and clocks run only for teams that are short  *)
(* of planets, for every number of players and planets.                    *)
(***************************************************************************)
EXTENDS Conquest, FiniteSetTheorems, TLAPS

USE DEF Team, Owner

LEMMA CardinalityTypes ==
  /\ \A t : realNumShips(t) \in Nat
  /\ \A owner : Planets(owner) \in [Team -> Nat]
<1>1. \A t : realNumShips(t) \in Nat
  BY ConquestAssumption, FS_CardinalityType, FS_Subset DEF ConquestAssumption, realNumShips
<1>2. \A owner, t : Cardinality(Owned(owner, t)) \in Nat
  BY ConquestAssumption, FS_CardinalityType, FS_Subset DEF ConquestAssumption, Owned
<1> QED BY <1>1, <1>2 DEF Planets

(* genocide() and checkwin() look at two different teams.                  *)
LEMMA TwoTeams == Biggest \in Team \X Team /\ Biggest[1] # Biggest[2]
<1>1. \A s, t \in Team : s # t => /\ Sorted(s, t) \in Team \X Team
                                  /\ {Sorted(s, t)[1], Sorted(s, t)[2]} = {s, t}
  BY DEF Sorted
<1> DEFINE two == Sorted("FED", "ROM")
           three == IF realNumShips("KLI") > realNumShips(two[2]) THEN Sorted(two[1], "KLI") ELSE two
<1>2. two \in Team \X Team /\ {two[1], two[2]} = {"FED", "ROM"}
  BY <1>1
<1>3. three \in Team \X Team /\ three[1] # three[2] /\ {three[1], three[2]} \subseteq {"FED", "ROM", "KLI"}
  BY <1>1, <1>2
<1>4. Biggest = IF realNumShips("ORI") > realNumShips(three[2]) THEN <<three[1], "ORI">> ELSE three
  BY DEF Biggest
<1> HIDE DEF three
<1> QED BY <1>3, <1>4

LEMMA RankedTeams ==
  ASSUME NEW g
  PROVE  LET two == Ranked(g, Biggest)
         IN  two \in Team \X Team /\ two[1] # two[2] /\ {two[1], two[2]} = {Biggest[1], Biggest[2]}
BY TwoTeams DEF Ranked

(* A recount leaves everything else alone.                                 *)
LEMMA RefreshedFacts ==
  ASSUME NEW g \in Galaxies
  PROVE  /\ Refreshed(g) \in Galaxies
         /\ Refreshed(g).owner = g.owner /\ Refreshed(g).plcount = Planets(g.owner)
         /\ Refreshed(g).surrender = g.surrender /\ Refreshed(g).victor = g.victor
BY CardinalityTypes DEF Refreshed, Galaxies

(* A clock is stopped, started or left alone; nothing else is touched.     *)
LEMMA ClockSet ==
  ASSUME NEW g \in Galaxies, NEW t \in Team, NEW others
  PROVE  LET c == checksurrender(g, t, others)
         IN  /\ c \in Galaxies
             /\ c.owner = g.owner /\ c.plcount = g.plcount /\ c.victor = g.victor
             /\ \A u \in Team \ {t} : c.surrender[u] = g.surrender[u]
BY ConquestAssumption DEF ConquestAssumption, checksurrender, Galaxies

LEMMA Ended ==
  ASSUME NEW g \in Galaxies, NEW t1 \in Team, NEW t2 \in Team
  PROVE  LET w == endgame_effects(g, t1, t2)
         IN  /\ w \in Galaxies /\ w.owner = g.owner /\ w.plcount = Planets(g.owner)
             /\ w.surrender[t1] = 0 /\ w.surrender[t2] = 0
             /\ w.victor = [winners |-> t1, losers |-> t2]
<1> DEFINE r == Refreshed(g)
           one == [r EXCEPT !.surrender[t1] = 0]
           both == [one EXCEPT !.surrender[t2] = 0]
           w == [both EXCEPT !.victor = [winners |-> t1, losers |-> t2]]
<1>1. r \in Galaxies /\ r.owner = g.owner /\ r.plcount = Planets(g.owner)
  BY RefreshedFacts
<1> HIDE DEF r
<1>2. one \in Galaxies /\ one.owner = r.owner /\ one.plcount = r.plcount /\ one.surrender[t1] = 0
  BY <1>1 DEF Galaxies
<1> HIDE DEF one
<1>3. /\ both \in Galaxies /\ both.owner = one.owner /\ both.plcount = one.plcount
      /\ both.surrender[t1] = 0 /\ both.surrender[t2] = 0
  BY <1>2 DEF Galaxies
<1> HIDE DEF both
<1>4. /\ w \in Galaxies /\ w.owner = both.owner /\ w.plcount = both.plcount
      /\ w.surrender = both.surrender /\ w.victor = [winners |-> t1, losers |-> t2]
  BY <1>3 DEF Galaxies
<1>5. endgame_effects(g, t1, t2) = w
  BY DEF endgame_effects, r, one, both
<1> QED BY <1>1, <1>2, <1>3, <1>4, <1>5

-----------------------------------------------------------------------------
(* What the properties say of one galaxy.                                  *)

Zero == [t \in Team |-> 0]
Fresh(g) ==
  \/ g.plcount = Planets(g.owner)
  \/ g.plcount = Zero /\ g.surrender = Zero /\ g.victor = NoVictor
HasLost(g) ==
  /\ g.victor.winners \in Team /\ g.victor.losers \in Team \ {g.victor.winners}
  /\ g.plcount[g.victor.losers] <= victory_planets
  /\ g.plcount[g.victor.losers] <= g.plcount[g.victor.winners]
Ordered(g) == g \in Galaxies /\ Fresh(g) /\ (g.victor # NoVictor => HasLost(g))

ShortOf(g, t, e) == g.surrender[t] > 0 => g.plcount[t] < SURREND /\ g.plcount[t] * 2 <= g.plcount[e]
Justified(g) ==
  SURRSTART < SURREND =>
    ShortOf(g, Biggest[1], Biggest[2]) /\ ShortOf(g, Biggest[2], Biggest[1])

(* After its clock has been looked at, it runs only if the team is short.  *)
LEMMA LookedAt ==
  ASSUME NEW g \in Galaxies, NEW t \in Team, NEW e \in Team, SURRSTART < SURREND
  PROVE  ShortOf(checksurrender(g, t, g.plcount[e]), t, e)
<1> DEFINE others == g.plcount[e]
           c == checksurrender(g, t, others)
<1>1. g.plcount[t] \in Nat /\ others \in Nat /\ g.surrender[t] \in Int
  BY DEF Galaxies
<1>2. c.plcount = g.plcount /\ c \in Galaxies
  BY <1>1, ClockSet
<1>3. CASE Prevented(g, t, others)
  <2>1. c.surrender[t] = 0
    BY <1>3 DEF checksurrender, Galaxies
  <2> QED BY <2>1 DEF ShortOf
<1>4. CASE ~Prevented(g, t, others) /\ Begins(g, t, others)
  <2>1. g.plcount[t] < SURREND /\ g.plcount[t] * 2 <= others
    BY <1>1, <1>4, ConquestAssumption DEF Begins, ConquestAssumption
  <2> QED BY <1>2, <2>1 DEF ShortOf
<1>5. CASE ~Prevented(g, t, others) /\ ~Begins(g, t, others)
  <2>1. c = g
    BY <1>5 DEF checksurrender
  <2>2. g.surrender[t] > 0 => g.plcount[t] < SURREND /\ g.plcount[t] * 2 <= others
    BY <1>1, <1>5, ConquestAssumption DEF Prevented, ConquestAssumption
  <2> HIDE DEF c
  <2> QED BY <2>1, <2>2 DEF ShortOf, c
<1> QED BY <1>3, <1>4, <1>5

(* checkwin() recounts the planets, looks at both clocks, and ends the     *)
(* game only for a team that has lost.                                     *)
LEMMA Checked ==
  ASSUME NEW g \in Galaxies, g.victor = NoVictor
  PROVE  LET w == checkwin(g)
         IN  /\ Ordered(w) /\ Justified(w)
             /\ w.owner = g.owner /\ w.plcount = Planets(g.owner)
<1> DEFINE r == Refreshed(g)
           two == Ranked(r, Biggest)
           a == checksurrender(r, two[1], r.plcount[two[2]])
           s == checksurrender(a, two[2], r.plcount[two[1]])
           w == checkwin(g)
<1>1. /\ r \in Galaxies /\ r.owner = g.owner /\ r.plcount = Planets(g.owner)
      /\ r.victor = NoVictor
  BY RefreshedFacts
<1>2. two \in Team \X Team /\ two[1] # two[2] /\ {two[1], two[2]} = {Biggest[1], Biggest[2]}
  BY RankedTeams
<1> HIDE DEF r
<1>3. r.plcount[two[2]] <= r.plcount[two[1]]
  BY <1>1, <1>2, TwoTeams DEF Ranked, Galaxies
<1> HIDE DEF two
<1>4. /\ a \in Galaxies /\ a.owner = r.owner /\ a.plcount = r.plcount /\ a.victor = r.victor
      /\ SURRSTART < SURREND => ShortOf(a, two[1], two[2])
  <2>1. two[1] \in Team /\ two[2] \in Team
    BY <1>2
  <2>2. a \in Galaxies /\ a.owner = r.owner /\ a.plcount = r.plcount /\ a.victor = r.victor
    BY <1>1, <2>1, ClockSet
  <2>3. ASSUME SURRSTART < SURREND PROVE ShortOf(a, two[1], two[2])
    BY <1>1, <2>1, <2>3, LookedAt
  <2> QED BY <2>2, <2>3
<1> HIDE DEF a
<1>5. /\ s \in Galaxies /\ s.owner = a.owner /\ s.plcount = a.plcount /\ s.victor = a.victor
      /\ s.surrender[two[1]] = a.surrender[two[1]]
      /\ SURRSTART < SURREND => ShortOf(s, two[2], two[1])
  <2>1. two[1] \in Team \ {two[2]} /\ two[2] \in Team /\ s = checksurrender(a, two[2], a.plcount[two[1]])
    BY <1>2, <1>4
  <2> HIDE DEF s
  <2>2. /\ s \in Galaxies /\ s.owner = a.owner /\ s.plcount = a.plcount /\ s.victor = a.victor
        /\ s.surrender[two[1]] = a.surrender[two[1]]
    BY <1>4, <2>1, ClockSet
  <2>3. ASSUME SURRSTART < SURREND PROVE ShortOf(s, two[2], two[1])
    BY <1>4, <2>1, <2>3, LookedAt
  <2> QED BY <2>2, <2>3
<1> HIDE DEF s
<1>6. SURRSTART < SURREND => ShortOf(s, two[1], two[2])
  BY <1>4, <1>5 DEF ShortOf
<1>7. w = IF genocide(r, two) THEN endgame_effects(s, two[1], two[2]) ELSE s
  BY DEF checkwin, r, two, a, s
<1> HIDE DEF w
<1>8. CASE ~genocide(r, two)
  <2>1. w = s
    BY <1>7, <1>8
  <2>2. Justified(w)
    BY <1>2, <1>5, <1>6, <2>1, TwoTeams DEF Justified
  <2> QED BY <1>1, <1>4, <1>5, <2>1, <2>2 DEF Ordered, Fresh, w
<1>9. CASE genocide(r, two)
  <2>1. w = endgame_effects(s, two[1], two[2])
    BY <1>7, <1>9
  <2>2. /\ w \in Galaxies /\ w.owner = g.owner /\ w.plcount = Planets(g.owner)
        /\ w.surrender[two[1]] = 0 /\ w.surrender[two[2]] = 0
        /\ w.victor = [winners |-> two[1], losers |-> two[2]]
    BY <1>1, <1>2, <1>4, <1>5, <2>1, Ended
  <2>3. w.plcount[two[2]] <= victory_planets /\ w.plcount[two[2]] <= w.plcount[two[1]]
    <3>1. \A i \in 1 .. 2 : r.plcount[two[i]] \in Nat
      BY <1>1, <1>2 DEF Galaxies
    <3>2. \E i \in 1 .. 2 : r.plcount[two[i]] <= victory_planets
      BY <1>9 DEF genocide
    <3>3. r.plcount[two[2]] <= victory_planets
      BY <3>1, <3>2, <1>3, ConquestAssumption DEF ConquestAssumption
    <3> QED BY <1>1, <1>3, <2>2, <3>3
  <2>4. HasLost(w)
    BY <1>2, <2>2, <2>3 DEF HasLost
  <2>5. Justified(w)
    <3>1. w.surrender[Biggest[1]] = 0 /\ w.surrender[Biggest[2]] = 0
      BY <1>2, <2>2
    <3> QED BY <3>1 DEF Justified, ShortOf
  <2> QED BY <2>2, <2>4, <2>5 DEF Ordered, Fresh, w
<1> QED BY <1>8, <1>9 DEF w

-----------------------------------------------------------------------------
(* From one galaxy to a later one, without the planet that changes hands   *)
(* first: the second is in order, and its clocks are justified if the      *)
(* first's were or a planet was given up.                                  *)
Follows(g, h) ==
  /\ Ordered(h)
  /\ \A l \in Planet : h.owner[l] \in {g.owner[l], "NOBODY"}
  /\ h.owner = g.owner \/ Justified(h)
  /\ Justified(g) => Justified(h)

LEMMA FollowsTransitive ==
  ASSUME NEW g, NEW h, NEW k, Follows(g, h), Follows(h, k)
  PROVE  Follows(g, k)
BY DEF Follows

LEMMA NeutralizedFacts ==
  ASSUME NEW g \in Galaxies, NEW t \in Team
  PROVE  LET n == Neutralized([g EXCEPT !.surrender[t] = -1], t)
         IN  /\ n \in Galaxies /\ n.victor = g.victor
             /\ \A l \in Planet : n.owner[l] \in {g.owner[l], "NOBODY"}
<1> DEFINE c == [g EXCEPT !.surrender[t] = -1]
<1>1. c \in Galaxies /\ c.victor = g.victor /\ c.owner = g.owner
  BY DEF Galaxies
<1> HIDE DEF c
<1> QED BY <1>1 DEF Neutralized, Galaxies, c

LEMMA MinuteFollows ==
  ASSUME NEW g, Ordered(g), NEW t \in Team
  PROVE  Follows(g, Minute(g, t))
<1> DEFINE h == Minute(g, t)
<1>0. g \in Galaxies
  BY DEF Ordered
<1>1. CASE \/ g.victor # NoVictor \/ g.surrender[t] = 0 \/ ~Ready(t) \/ g.plcount[t] > SURRSTART
  <2>1. h = g
    BY <1>1 DEF Minute
  <2> HIDE DEF h
  <2> QED BY <2>1, <1>0 DEF Follows, h
<1>2. CASE g.victor = NoVictor /\ g.surrender[t] - 1 > 0 /\ Ready(t) /\ ~(g.plcount[t] > SURRSTART)
  <2>1. h = [g EXCEPT !.surrender[t] = @ - 1]
    BY <1>0, <1>2 DEF Minute, Galaxies
  <2>2. /\ h \in Galaxies /\ h.owner = g.owner /\ h.plcount = g.plcount /\ h.victor = g.victor
        /\ \A u \in Team : h.surrender[u] > 0 => g.surrender[u] > 0
    BY <1>0, <1>2, <2>1 DEF Galaxies
  <2> HIDE DEF h
  <2>3. g.plcount = Planets(g.owner)
    <3>1. g.surrender # Zero
      BY <1>2 DEF Zero
    <3> QED BY <3>1 DEF Ordered, Fresh
  <2>4. Justified(g) => Justified(h)
    BY <2>2, TwoTeams DEF Justified, ShortOf
  <2> QED BY <1>2, <2>2, <2>3, <2>4 DEF Follows, Ordered, Fresh, h
<1>3. CASE /\ g.victor = NoVictor /\ g.surrender[t] # 0 /\ ~(g.surrender[t] - 1 > 0) /\ Ready(t)
           /\ ~(g.plcount[t] > SURRSTART)
  <2> DEFINE n == Neutralized([g EXCEPT !.surrender[t] = -1], t)
  <2>1. h = checkwin(n)
    BY <1>3 DEF Minute
  <2>2. n \in Galaxies /\ n.victor = NoVictor /\ \A l \in Planet : n.owner[l] \in {g.owner[l], "NOBODY"}
    BY <1>0, <1>3, NeutralizedFacts
  <2> HIDE DEF n, h
  <2>3. Ordered(h) /\ Justified(h) /\ h.owner = n.owner
    BY <2>1, <2>2, Checked
  <2> QED BY <2>2, <2>3 DEF Follows, h
<1> QED BY <1>1, <1>2, <1>3

LEMMA SurrenderFollows ==
  ASSUME NEW g, Ordered(g)
  PROVE  Follows(g, Surrender(g))
<1> DEFINE f == Minute(g, "FED")
           r == Minute(f, "ROM")
           k == Minute(r, "KLI")
           o == Minute(k, "ORI")
<1>1. Follows(g, f) /\ Ordered(f)
  BY MinuteFollows DEF Follows
<1> HIDE DEF f
<1>2. Follows(f, r) /\ Ordered(r)
  BY <1>1, MinuteFollows DEF Follows
<1> HIDE DEF r
<1>3. Follows(r, k) /\ Ordered(k)
  BY <1>2, MinuteFollows DEF Follows
<1> HIDE DEF k
<1>4. Follows(k, o)
  BY <1>3, MinuteFollows
<1> HIDE DEF o
<1>5. Follows(f, k) /\ Follows(f, o)
  BY <1>2, <1>3, <1>4, FollowsTransitive
<1>6. Follows(g, o)
  BY <1>1, <1>5, FollowsTransitive
<1> QED BY <1>6 DEF Surrender, f, r, k, o

-----------------------------------------------------------------------------
(* The inductive invariant.                                                *)
TypeOK == pteam \in [Player -> Owner \cup {"free"}] /\ tourn \in BOOLEAN /\ galaxy \in Galaxies
CInv == pteam \in [Player -> Owner \cup {"free"}] /\ tourn \in BOOLEAN /\ Ordered(galaxy)

LEMMA InitCInv == Init => CInv
<1> SUFFICES ASSUME Init PROVE CInv
  OBVIOUS
<1>1. PICK o \in [Planet -> Owner] :
        galaxy = [owner |-> o, plcount |-> Zero, plcountold |-> Zero, surrender |-> Zero, victor |-> NoVictor]
  BY DEF Init, Zero
<1>2. NoVictor \in [winners : Owner, losers : Owner] /\ Zero \in [Team -> Nat] /\ Zero \in [Team -> Int]
  BY DEF NoVictor, Zero
<1>3. galaxy \in Galaxies /\ galaxy.plcount = Zero /\ galaxy.surrender = Zero /\ galaxy.victor = NoVictor
  BY <1>1, <1>2 DEF Galaxies
<1> QED BY <1>3 DEF Init, CInv, Ordered, Fresh

LEMMA ChangeKeeps == ASSUME CInv, NEW p \in Player, NEW t \in Owner \cup {"free"}, Change(p, t) PROVE CInv'
BY DEF CInv, Change, Ordered, Fresh, HasLost

LEMMA TourneyKeeps == ASSUME CInv, udtourny PROVE CInv'
BY DEF CInv, udtourny, Ordered, Fresh, HasLost

LEMMA PassKeeps == ASSUME CInv, NEW l \in Planet, NEW o \in Owner, Pass(l, o) PROVE CInv' /\ Justified(galaxy)'
<1> DEFINE g == [galaxy EXCEPT !.owner[l] = o]
<1>1. g \in Galaxies /\ g.victor = NoVictor
  BY DEF CInv, Ordered, Pass, gameup, Galaxies
<1>2. galaxy' = checkwin(g)
  BY DEF Pass
<1> HIDE DEF g
<1>3. Ordered(checkwin(g)) /\ Justified(checkwin(g))
  BY <1>1, Checked
<1>4. Biggest' = Biggest
  BY DEF Pass, Biggest, Sorted, realNumShips
<1> QED BY <1>2, <1>3, <1>4 DEF CInv, Pass, Ordered, Fresh, HasLost, Justified, ShortOf

LEMMA SurrenderKeeps ==
  ASSUME CInv, udsurrend
  PROVE  CInv' /\ (galaxy'.owner = galaxy.owner \/ Justified(galaxy)')
<1>1. Follows(galaxy, Surrender(galaxy)) /\ galaxy' = Surrender(galaxy)
  BY SurrenderFollows DEF CInv, udsurrend
<1>2. Ordered(galaxy') /\ (galaxy'.owner = galaxy.owner \/ Justified(galaxy'))
  BY <1>1 DEF Follows
<1>3. Biggest' = Biggest
  BY DEF udsurrend, Biggest, Sorted, realNumShips
<1> QED BY <1>2, <1>3 DEF CInv, udsurrend, Ordered, Fresh, HasLost, Justified, ShortOf

LEMMA NextCInv == ASSUME CInv, [Next]_cvars PROVE CInv'
<1>1. CASE UNCHANGED cvars
  BY <1>1 DEF CInv, cvars, Ordered, Fresh, HasLost
<1> QED BY <1>1, ChangeKeeps, TourneyKeeps, PassKeeps, SurrenderKeeps DEF Next

LEMMA Invariant == Spec => []CInv
BY InitCInv, NextCInv, PTL DEF Spec

(* Every field keeps its type.                                             *)
THEOREM ConquestType == Spec => []TypeOK
<1>1. CInv => TypeOK
  BY DEF CInv, TypeOK, Ordered
<1> QED BY <1>1, Invariant, PTL

(* The counts of planets that everything goes by are those of the planets. *)
THEOREM ConquestCounts == Spec => []CountsFresh
<1>1. CInv => CountsFresh
  BY DEF CInv, CountsFresh, Ordered, Fresh, Zero, gameup
<1> QED BY <1>1, Invariant, PTL

(* A game that is over was lost by its loser.                              *)
THEOREM ConquestLoser == Spec => []LoserHasLost
<1>1. CInv => LoserHasLost
  BY DEF CInv, LoserHasLost, Ordered, HasLost, gameup
<1> QED BY <1>1, Invariant, PTL

(* When a planet changes hands, only a team of the two biggest that is     *)
(* short of planets has a running clock, if a clock starts below the       *)
(* number of planets that stops it.                                        *)
THEOREM ConquestClocks == ASSUME SURRSTART < SURREND PROVE Spec => ClockJustified
<1> DEFINE Step ==
      galaxy'.owner # galaxy.owner =>
        \A i \in 1 .. 2 :
          LET t == Biggest[i]
              e == Biggest[3 - i]
          IN  galaxy'.surrender[t] > 0 => /\ galaxy'.plcount[t] < SURREND
                                          /\ galaxy'.plcount[t] * 2 <= galaxy'.plcount[e]
<1>1. ASSUME CInv, [Next]_cvars PROVE [Step]_cvars
  <2> SUFFICES ASSUME galaxy'.owner # galaxy.owner
               PROVE  Justified(galaxy)' /\ Biggest' = Biggest
    BY DEF Justified, ShortOf
  <2>1. CASE \E p \in Player, t \in Owner \cup {"free"} : Change(p, t)
    BY <2>1 DEF Change
  <2>2. CASE udtourny
    BY <2>2 DEF udtourny
  <2>3. CASE udsurrend
    <3>1. Biggest' = Biggest
      BY <2>3 DEF udsurrend, Biggest, Sorted, realNumShips
    <3> QED BY <1>1, <2>3, <3>1, SurrenderKeeps
  <2>4. CASE \E l \in Planet, o \in Owner : Pass(l, o)
    <3>1. Biggest' = Biggest
      BY <2>4 DEF Pass, Biggest, Sorted, realNumShips
    <3> QED BY <1>1, <2>4, <3>1, PassKeeps
  <2>5. CASE UNCHANGED cvars
    BY <2>5 DEF cvars
  <2> QED BY <1>1, <2>1, <2>2, <2>3, <2>4, <2>5 DEF Next
<1>2. CInv /\ [Next]_cvars => [Step]_cvars
  BY <1>1
<1> QED BY <1>2, Invariant, PTL DEF Spec, ClockJustified
=============================================================================
