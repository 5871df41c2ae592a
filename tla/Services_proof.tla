------------------------------ MODULE Services_proof ------------------------------
(***************************************************************************)
(* What the services around the game promise, for every value of the       *)
(* constants.  The promises to ships, robots and clients, and those of the *)
(* slots and the start-up, are in Parts_proof.tla.                         *)
(*                                                                         *)
(* Each section proves one invariant or action property of MCParts.tla     *)
(* with the invariant of the part it follows from, for the steps of the    *)
(* part; the steps of MCParts that end the part's history and those of the *)
(* other parts do not change it.                                           *)
(*                                                                         *)
(*   RecordsHold                   reports to metaservers, tournament log  *)
(*   CharactersKeepPlace           logins and the file of players          *)
(*   LettersAreRight               warnings, and the ring of messages      *)
(*   FatIsSound                    fat UDP: the lists, what is sent again  *)
(*                                                                         *)
(* What a part may not promise without is an assumption of its section,    *)
(* named <part>Assumption or, for fat UDP, FatGiven as well; the README    *)
(* says why each may be made.                                              *)
(***************************************************************************)
EXTENDS MCParts, Sequences, FiniteSetTheorems, WellFoundedInduction, TLAPS

-----------------------------------------------------------------------------
(***************************************************************************)
(* The log of a tournament.  Once a line tells of the end of a life, the   *)
(* slot and what the log remembers of it are both not alive until the next *)
(* life begins; and an end that is still to be told (the log remembers a   *)
(* live ship) has a log that is open to tell it.                           *)
(***************************************************************************)
LogInv ==
  /\ lines \in {0, 1}
  /\ lines = 1 => stat # "PALIVE" /\ status_cache # "PALIVE"
  /\ ended => stat # "PALIVE"
  /\ ended /\ status_cache = "PALIVE" => T!Logs
  /\ ended /\ status_cache # "PALIVE" => lines = 1

(* Nothing has been told at first.                                         *)
LEMMA LogInit == T!Init => LogInv
BY DEF T!Init, LogInv

(* The scan tells of an end only if the log still remembers the ship alive.*)
LEMMA ScanSlotStep ==
  ASSUME LogInv, T!ScanSlot, UNCHANGED <<stat, ended>>
  PROVE  /\ lines' \in {0, 1}
         /\ lines' = 1 => stat' # "PALIVE" /\ status_cache' # "PALIVE"
         /\ ended' => stat' # "PALIVE"
         /\ ~(ended' /\ status_cache' = "PALIVE")
         /\ ended' /\ status_cache' # "PALIVE" => lines' = 1
<1>1. CASE status_cache # "PALIVE"
  BY <1>1 DEF T!ScanSlot, LogInv
<1>2. CASE status_cache = "PALIVE" /\ stat # "PALIVE"
  BY <1>2 DEF T!ScanSlot, LogInv
<1>3. CASE status_cache = "PALIVE" /\ stat = "PALIVE"
  <2>1. UNCHANGED <<lines, status_cache>>
    BY <1>3 DEF T!ScanSlot, T!LogRefit, T!cache, T!ub
  <2> QED
    BY <1>3, <2>1 DEF LogInv
<1> QED
  BY <1>1, <1>2, <1>3

(* Every step of the player, the daemon and the tournament.                *)
LEMMA LogStep ==
  ASSUME LogInv, [T!Next]_(T!vars)
  PROVE  LogInv'
<1> USE DEF T!cache, T!ub
<1>1. CASE T!Enter
  BY <1>1 DEF T!Enter, LogInv
<1>2. CASE T!Refit
  BY <1>2 DEF T!Refit, LogInv, T!Logs
<1>3. CASE T!Quit
  BY <1>3 DEF T!Quit, T!Ends, LogInv, T!Logs
<1>4. CASE T!Killed
  <2>1. /\ stat = "PALIVE" /\ stat' = "PEXPLODE"
        /\ lines' = IF T!Logs THEN lines + 1 ELSE lines
        /\ status_cache' = IF T!Logs THEN stat' ELSE status_cache
        /\ UNCHANGED <<tmode, tlog>>
    BY <1>4 DEF T!Killed, T!Ends, T!Remembered
  <2>2. lines = 0 /\ ~ended
    BY <2>1 DEF LogInv
  <2>3. ended' => T!Logs /\ status_cache = "PALIVE"
    BY <1>4, <2>2 DEF T!Killed, T!Ends
  <2>4. CASE T!Logs
    BY <2>1, <2>2, <2>4 DEF LogInv
  <2>5. CASE ~T!Logs
    BY <2>1, <2>2, <2>3, <2>5 DEF LogInv
  <2> QED
    BY <2>4, <2>5
<1>5. CASE T!Dies
  BY <1>5 DEF T!Dies, T!Ends, LogInv, T!Logs
<1>6. CASE T!Fades
  BY <1>6 DEF T!Fades, LogInv, T!Logs
<1>7. CASE T!Scan
  <2>1. T!ScanSlot /\ UNCHANGED <<tmode, tlog, stat, ended>>
    BY <1>7 DEF T!Scan
  <2> QED
    BY <2>1, ScanSlotStep DEF LogInv
<1>8. CASE T!starttourn
  BY <1>8 DEF T!starttourn, LogInv, T!Logs
<1>9. CASE T!endtourn
  <2>1. T!ScanSlot /\ UNCHANGED <<stat, ended>>
    BY <1>9 DEF T!endtourn
  <2> QED
    BY <2>1, ScanSlotStep DEF LogInv
<1>10. CASE UNCHANGED T!vars
  BY <1>10 DEF T!vars, LogInv, T!Logs
<1> QED
  BY <1>1, <1>2, <1>3, <1>4, <1>5, <1>6, <1>7, <1>8, <1>9, <1>10 DEF T!Next

(* The steps of the history while it is about the log of a tournament.     *)
LEMMA LogNext ==
  machine = "TourneyLog" /\ [Next]_vars => machine' = "TourneyLog" /\ [T!Next]_(T!vars)
BY DEF Next, vars, Ends, record, T!vars

-----------------------------------------------------------------------------
(***************************************************************************)
(* Reports to the metaservers.  A metaserver's knowledge has never been    *)
(* wrong for longer than it has not been told anything, and it knows what  *)
(* was in the last packet it was sent.  The last conjunct of ReportsFresh  *)
(* holds only if the metaservers all know this server by one name: a       *)
(* packet carries the name meant for the first of them that is due.        *)
(***************************************************************************)
MetasAssumption ==
  /\ Metas \in Nat
  /\ minimum \in Nat \ {0}
  /\ maximum \in Nat
  /\ minimum <= maximum
  /\ \A h, k \in Hosts : h = k

MetaInv ==
  /\ ours \in [H!Meta -> Hosts]
  /\ age \in [H!Meta -> H!Ages]
  /\ wrong \in [H!Meta -> H!Ages]
  /\ \A m \in H!Meta :
       /\ known[m] = prior[m].game
       /\ wrong[m] <= age[m]
       /\ wrong[m] < minimum
       /\ age[m] <= maximum \/ failing[m]
       /\ prior[m] # H!NoPacket => prior[m].ours = ours[m]

(* A nonempty set of naturals has a least member.                          *)
LEMMA Least ==
  ASSUME NEW X \in SUBSET Nat, X # {}
  PROVE  \E m \in X : \A k \in X : m <= k
<1>1. PICK m \in X : \A k \in Nat : <<k, m>> \in OpToRel(<, Nat) => k \notin X
  BY NatLessThanWellFounded, WFMin, Zenon
<1>2. \A k \in X : ~(k < m)
  BY <1>1, Zenon DEF OpToRel
<1> QED
  BY <1>2

(* Nobody has been told anything.                                          *)
LEMMA MetaInit ==
  ASSUME MetasAssumption, H!Init
  PROVE  MetaInv
<1>1. minimum \in Nat /\ minimum > 0 /\ maximum \in Nat
  BY DEF MetasAssumption
<1>2. ours \in [H!Meta -> Hosts]
  BY DEF H!Init
<1>3. 0 \in H!Ages /\ maximum + 2 \in H!Ages
  BY <1>1 DEF H!Ages
<1>4. age \in [H!Meta -> H!Ages] /\ wrong \in [H!Meta -> H!Ages]
  BY <1>3 DEF H!Init
<1>5. ASSUME NEW m \in H!Meta
      PROVE  /\ known[m] = "" /\ prior[m] = H!NoPacket /\ wrong[m] = 0
             /\ age[m] = maximum + 2
  BY DEF H!Init
<1>6. ASSUME NEW m \in H!Meta
      PROVE  failing[m]
  BY DEF H!Init
<1>7. H!NoPacket.game = ""
  BY DEF H!NoPacket
<1>8. ASSUME NEW m \in H!Meta
      PROVE  /\ known[m] = prior[m].game
             /\ wrong[m] <= age[m] /\ wrong[m] < minimum
             /\ prior[m] # H!NoPacket => prior[m].ours = ours[m]
  <2>1. known[m] = "" /\ prior[m] = H!NoPacket
    BY <1>5
  <2>2. wrong[m] <= age[m] /\ wrong[m] < minimum
    <3>1. wrong[m] = 0 /\ age[m] = maximum + 2
      BY <1>5
    <3> QED
      BY <1>1, <3>1
  <2>3. known[m] = prior[m].game
    BY <2>1, <1>7, Zenon
  <2> QED
    BY <2>1, <2>2, <2>3
<1> QED
  BY <1>2, <1>4, <1>6, <1>8 DEF MetaInv

(* If anybody is due there is a first, and the packet bears his name.      *)
LEMMA PacketNamed ==
  ASSUME MetasAssumption, MetaInv, NEW m \in H!Meta, H!Due(m)
  PROVE  H!Packet.game = game /\ H!Packet.ours = ours[m]
<1> DEFINE Late == {k \in H!Meta : H!Due(k)}
<1>1. Late \in SUBSET Nat /\ Late # {}
  BY DEF H!Meta, MetasAssumption
<1>2. \E k \in Late : \A j \in Late : k <= j
  BY <1>1, Least
<1>3. \E k \in H!Meta : H!Due(k) /\ \A j \in H!Meta : H!Due(j) => k <= j
  BY <1>2
<1>4. H!First \in H!Meta
  BY <1>3 DEF H!First
<1> QED
  BY <1>4 DEF H!Packet, MetaInv, MetasAssumption

(* One call of solicit(), for one metaserver.                              *)
LEMMA SolicitOne ==
  ASSUME MetasAssumption, MetaInv, NEW sent \in SUBSET H!Told, NEW m \in H!Meta,
         age' = [k \in H!Meta |-> IF k \in sent THEN 0 ELSE H!Now[k]],
         prior' = H!Remembered(sent),
         known' = [k \in H!Meta |-> IF k \in sent THEN game ELSE known[k]],
         wrong' = [k \in H!Meta |-> IF known'[k] = game \/ k \in H!Told \ sent THEN 0
                                    ELSE H!Older(wrong[k])],
         failing' = [k \in H!Meta |-> IF k \in H!Told THEN k \notin sent ELSE failing[k]],
         UNCHANGED <<game, ours>>
  PROVE  /\ age'[m] \in H!Ages /\ wrong'[m] \in H!Ages
         /\ known'[m] = prior'[m].game
         /\ wrong'[m] <= age'[m]
         /\ wrong'[m] < minimum
         /\ age'[m] <= maximum \/ failing'[m]
         /\ prior'[m] # H!NoPacket => prior'[m].ours = ours'[m]
<1>1. /\ minimum \in Nat /\ minimum > 0 /\ maximum \in Nat /\ minimum <= maximum
      /\ age[m] \in 0 .. maximum + 2 /\ wrong[m] \in 0 .. maximum + 2
      /\ known[m] = prior[m].game /\ wrong[m] <= age[m] /\ wrong[m] < minimum
      /\ age[m] <= maximum \/ failing[m]
      /\ prior[m] # H!NoPacket => prior[m].ours = ours[m]
  BY DEF MetasAssumption, MetaInv, H!Ages
<1>2. /\ H!Now[m] = IF age[m] = maximum + 2 THEN age[m] ELSE age[m] + 1
      /\ H!Older(wrong[m]) = IF wrong[m] = maximum + 2 THEN wrong[m] ELSE wrong[m] + 1
  BY DEF H!Now, H!Older
<1>3. CASE m \in sent
  <2>1. m \in H!Told /\ H!Due(m)
    BY <1>3 DEF H!Told
  <2>2. age'[m] = 0 /\ known'[m] = game /\ wrong'[m] = 0 /\ prior'[m] = H!Packet
    BY <1>3 DEF H!Remembered
  <2>3. H!Packet.game = game /\ H!Packet.ours = ours[m]
    BY <2>1, PacketNamed
  <2> QED
    BY <1>1, <2>2, <2>3 DEF H!Ages
<1>4. CASE m \notin sent
  <2>1. /\ age'[m] = H!Now[m] /\ known'[m] = known[m] /\ prior'[m] = prior[m]
        /\ wrong'[m] = IF known[m] = game \/ m \in H!Told THEN 0 ELSE H!Older(wrong[m])
    BY <1>4 DEF H!Remembered
  <2>2. age'[m] \in 0 .. maximum + 2 /\ wrong'[m] \in 0 .. maximum + 2 /\ wrong'[m] <= age'[m]
    BY <1>1, <1>2, <2>1
  <2>3. H!Now[m] > maximum => m \in H!Told
    <3>1. H!Now[m] > maximum => H!Now[m] >= minimum
      BY <1>1, <1>2
    <3>2. m \in 1 .. m
      BY DEF H!Meta
    <3> QED
      BY <3>1, <3>2 DEF H!Told, H!Due, H!Forced
  <2>4. age'[m] <= maximum \/ failing'[m]
    <3>1. CASE m \in H!Told
      <4>1. failing'[m] = (m \notin sent)
        BY <3>1
      <4> QED
        BY <1>4, <4>1
    <3>2. CASE m \notin H!Told
      <4>1. age'[m] <= maximum
        BY <1>1, <1>2, <2>1, <2>3, <3>2
      <4> QED
        BY <4>1
    <3> QED
      BY <3>1, <3>2
  <2>5. wrong'[m] < minimum
    <3>1. CASE known[m] = game \/ m \in H!Told
      BY <1>1, <2>1, <3>1
    <3>2. CASE known[m] # game /\ m \notin H!Told
      <4>1. ~H!Due(m)
        <5>1. H!Due(m) => prior[m] = H!Packet
          BY <3>2 DEF H!Told
        <5>2. H!Due(m) => H!Packet.game = game
          BY PacketNamed
        <5> QED
          BY <1>1, <3>2, <5>1, <5>2
      <4>2. ~(H!Now[m] >= minimum)
        BY <4>1 DEF H!Due
      <4> QED
        BY <1>1, <1>2, <2>1, <2>2, <4>2
    <3> QED
      BY <3>1, <3>2
  <2> QED
    BY <1>1, <2>1, <2>2, <2>4, <2>5 DEF H!Ages
<1> QED
  BY <1>3, <1>4

(* A change of the game, and a call of solicit().                          *)
LEMMA MetaStep ==
  ASSUME MetasAssumption, MetaInv, [H!Next]_(H!vars)
  PROVE  MetaInv'
<1>1. CASE H!GameChanges
  BY <1>1 DEF H!GameChanges, MetaInv
<1>2. CASE H!solicit
  <2>1. PICK sent \in SUBSET H!Told :
          /\ age' = [k \in H!Meta |-> IF k \in sent THEN 0 ELSE H!Now[k]]
          /\ prior' = H!Remembered(sent)
          /\ known' = [k \in H!Meta |-> IF k \in sent THEN game ELSE known[k]]
          /\ wrong' = [k \in H!Meta |-> IF known'[k] = game \/ k \in H!Told \ sent THEN 0
                                        ELSE H!Older(wrong[k])]
          /\ failing' = [k \in H!Meta |-> IF k \in H!Told THEN k \notin sent ELSE failing[k]]
          /\ UNCHANGED <<game, ours>>
    BY <1>2 DEF H!solicit
  <2>2. ASSUME NEW m \in H!Meta
        PROVE  /\ age'[m] \in H!Ages /\ wrong'[m] \in H!Ages
               /\ known'[m] = prior'[m].game
               /\ wrong'[m] <= age'[m]
               /\ wrong'[m] < minimum
               /\ age'[m] <= maximum \/ failing'[m]
               /\ prior'[m] # H!NoPacket => prior'[m].ours = ours'[m]
    BY <2>1, SolicitOne
  <2>3. age' \in [H!Meta -> H!Ages] /\ wrong' \in [H!Meta -> H!Ages]
    BY <2>1, <2>2
  <2>4. ours' \in [H!Meta -> Hosts]
    BY <2>1 DEF MetaInv
  <2> QED
    BY <2>2, <2>3, <2>4 DEF MetaInv
<1>3. CASE UNCHANGED H!vars
  BY <1>3 DEF H!vars, MetaInv
<1> QED
  BY <1>1, <1>2, <1>3 DEF H!Next

(* The steps of the history while it is about the metaservers.             *)
LEMMA MetaNext ==
  machine = "Solicit" /\ [Next]_vars => machine' = "Solicit" /\ [H!Next]_(H!vars)
BY DEF Next, vars, Ends, meta, H!vars

(* The log of a tournament tells of every end of a life, once, whoever     *)
(* caused it and whenever the scan of tourny.c looks; and, though          *)
(* transmissions may fail, no metaserver's knowledge is wrong for as long  *)
(* as its minimum, none is left alone beyond its maximum, and each is told *)
(* the name under which it knows the server (solicit.c): for any number of *)
(* metaservers and any intervals, where all know the server by one name.   *)
THEOREM RecordsHold ==
  ASSUME MetasAssumption
  PROVE  Spec => []RecordsTrue
<1> DEFINE Inv == /\ machine = "Solicit" => MetaInv
                  /\ machine = "TourneyLog" => LogInv
<1>1. Init => Inv
  BY MetaInit, LogInit DEF Init
<1>2. Inv /\ [Next]_vars => Inv'
  <2>1. [Next]_vars => machine' = machine
    BY DEF Next, vars, Ends
  <2>2. machine = "Solicit" /\ MetaInv /\ [Next]_vars => MetaInv'
    BY MetaNext, MetaStep
  <2>3. machine = "TourneyLog" /\ LogInv /\ [Next]_vars => LogInv'
    BY LogNext, LogStep
  <2> QED
    BY <2>1, <2>2, <2>3
<1>3. Inv => RecordsTrue
  BY DEF MetaInv, LogInv, RecordsTrue, H!ReportsFresh, T!ToldOnce
<1> QED
  BY <1>1, <1>2, <1>3, PTL DEF Spec

-----------------------------------------------------------------------------
(***************************************************************************)
(* The file of characters.  Only one process at a time is between counting *)
(* the entries and writing its own, so its entry is appended; the file     *)
(* never shrinks and an entry never changes its name, so what a process    *)
(* remembers of the last name it looked for stays true.                    *)
(***************************************************************************)
CharacterEntry == [name : Names \cup {C!NoName}, stats : Int]

LoginTypes ==
  /\ file \in Seq(CharacterEntry)
  /\ player \in [Proc -> CharacterEntry] /\ position \in [Proc -> Int]
  /\ stage \in [Proc -> {"login", "counted", "playing"}] /\ entries \in [Proc -> Int]
  /\ p_name \in [Proc -> Names \cup {C!NoName, C!Guest}] /\ p_pos \in [Proc -> Int]
  /\ p_stats \in [Proc -> Int]

Remembers(p) ==
  /\ position[p] # -1 => position[p] \in C!Places /\ C!Entry(position[p]).name = player[p].name
  /\ stage[p] = "counted" => entries[p] = Len(file) /\ player[p].name \in Names
  /\ stage[p] = "playing" /\ p_pos[p] >= 0 =>
       p_pos[p] \in C!Places /\ C!Entry(p_pos[p]).name = p_name[p]

LoginInv ==
  /\ LoginTypes
  /\ \A p \in Proc : Remembers(p)
  /\ \A p, q \in Proc : stage[p] = "counted" /\ stage[q] = "counted" => p = q

(* Nobody has read anything.                                               *)
LEMMA LoginInit == C!Init => LoginInv
<1> SUFFICES ASSUME C!Init PROVE LoginInv
  OBVIOUS
<1>1. C!Nobody \in CharacterEntry
  BY DEF C!Nobody, CharacterEntry
<1>2. file \in Seq(CharacterEntry) /\ C!Places = {} 
  BY DEF C!Init, C!Places
<1>3. LoginTypes
  BY <1>1, <1>2 DEF C!Init, LoginTypes
<1> QED
  BY <1>3 DEF C!Init, LoginInv, Remembers

(* The file may grow, and its entries keep their names.                    *)
Kept ==
  /\ file' \in Seq(CharacterEntry)
  /\ Len(file') >= Len(file)
  /\ \A i \in 1 .. Len(file) : file'[i].name = file[i].name

(* What a process remembers of the file stays true.                        *)
LEMMA PlacesKept ==
  ASSUME LoginTypes, Kept, NEW i \in C!Places
  PROVE  i \in C!Places' /\ C!Entry(i).name' = C!Entry(i).name
<1>1. Len(file) \in Nat /\ Len(file') \in Nat
  BY DEF LoginTypes, Kept
<1>2. i + 1 \in 1 .. Len(file)
  BY <1>1 DEF C!Places
<1> QED
  BY <1>1, <1>2 DEF C!Places, C!Entry, Kept

(* Looking for a name finds its entry, or that there is none.              *)
LEMMA LookFinds ==
  ASSUME LoginInv, NEW p \in Proc, NEW n \in Names
  PROVE  /\ C!Look(p, n).entry \in CharacterEntry /\ C!Look(p, n).at \in Int
         /\ C!Look(p, n).entry.name = n
         /\ C!Look(p, n).at # -1 => /\ C!Look(p, n).at \in C!Places
                                     /\ C!Entry(C!Look(p, n).at).name = n
<1> DEFINE fresh == [name |-> n, stats |-> IF file = <<>> THEN player[p].stats
                                           ELSE C!Entry(Len(file) - 1).stats]
<1>1. CASE player[p].name = n
  <2>1. C!Look(p, n) = [at |-> position[p], entry |-> player[p]]
    BY <1>1 DEF C!Look
  <2>2. player[p] \in CharacterEntry /\ position[p] \in Int
    BY DEF LoginInv, LoginTypes
  <2> QED
    BY <1>1, <2>1, <2>2 DEF LoginInv, Remembers
<1>2. CASE player[p].name # n /\ C!Found(n) # {}
  <2>1. C!Found(n) \in SUBSET Nat
    BY DEF C!Found, C!Places
  <2>2. \E i \in C!Found(n) : \A j \in C!Found(n) : i <= j
    BY <1>2, <2>1, Least
  <2>3. C!First(C!Found(n)) \in C!Found(n)
    BY <2>2 DEF C!First
  <2>4. C!Look(p, n) = [at |-> C!First(C!Found(n)), entry |-> C!Entry(C!First(C!Found(n)))]
    BY <1>2 DEF C!Look
  <2>5. ASSUME NEW i \in C!Places
        PROVE  C!Entry(i) \in CharacterEntry
    <3>1. Len(file) \in Nat
      BY DEF LoginInv, LoginTypes
    <3>2. i + 1 \in 1 .. Len(file)
      BY <3>1 DEF C!Places
    <3> QED
      BY <3>2 DEF C!Entry, LoginInv, LoginTypes
  <2> QED
    BY <2>3, <2>4, <2>5, <2>1 DEF C!Found
<1>3. CASE player[p].name # n /\ C!Found(n) = {}
  <2>1. C!Look(p, n) = [at |-> -1, entry |-> fresh]
    BY <1>3 DEF C!Look, C!InVain
  <2>2. Len(file) \in Nat /\ (file # <<>> => Len(file) \in 1 .. Len(file))
    BY DEF LoginInv, LoginTypes
  <2>3. file # <<>> => C!Entry(Len(file) - 1) \in CharacterEntry
    BY <2>2 DEF C!Entry, LoginInv, LoginTypes
  <2>4. player[p].stats \in Int
    BY DEF LoginInv, LoginTypes, CharacterEntry
  <2>5. (IF file = <<>> THEN player[p].stats ELSE C!Entry(Len(file) - 1).stats) \in Int
    BY <2>3, <2>4 DEF CharacterEntry
  <2>6. fresh \in CharacterEntry
    BY <2>5 DEF CharacterEntry
  <2> QED
    BY <2>1, <2>6
<1> QED
  BY <1>1, <1>2, <1>3

(* A process that does nothing while another writes.                       *)
LEMMA StillRemembers ==
  ASSUME LoginInv, Kept, NEW q \in Proc,
         position'[q] = position[q], player'[q] = player[q], stage'[q] = stage[q],
         entries'[q] = entries[q], p_name'[q] = p_name[q], p_pos'[q] = p_pos[q],
         stage[q] = "counted" => Len(file') = Len(file)
  PROVE  Remembers(q)'
<1>1. LoginTypes /\ Remembers(q)
  BY DEF LoginInv
<1>2. \A i \in C!Places : i \in C!Places' /\ C!Entry(i)' .name = C!Entry(i).name
  BY <1>1, PlacesKept
<1>3. position[q] # -1 => position[q] \in C!Places' /\ (C!Entry(position[q]).name)' = player[q].name
  BY <1>1, <1>2 DEF Remembers, C!Entry
<1>4. stage[q] = "playing" /\ p_pos[q] >= 0 =>
        p_pos[q] \in C!Places' /\ (C!Entry(p_pos[q]).name)' = p_name[q]
  BY <1>1, <1>2 DEF Remembers, C!Entry
<1> QED
  BY <1>1, <1>3, <1>4 DEF Remembers, C!Entry

(* The file as it was, and with new statistics in one place.               *)
LEMMA SameKept ==
  ASSUME LoginTypes, file' = file
  PROVE  Kept
BY DEF LoginTypes, Kept

(* What a process saves is saved in a place that exists, and no name in    *)
(* the file changes.                                                       *)
LEMMA SaveKept ==
  ASSUME LoginTypes, NEW p \in Proc, file' = C!Save(p) \/ file' = file
  PROVE  Kept /\ Len(file') = Len(file)
<1>1. CASE file' = file
  BY <1>1, SameKept
<1>2. CASE file' = C!Save(p) /\ p_pos[p] \in C!Places
  <2> DEFINE e == [file[p_pos[p] + 1] EXCEPT !.stats = p_stats[p]]
  <2>1. p_pos[p] + 1 \in 1 .. Len(file) /\ Len(file) \in Nat
    BY <1>2 DEF C!Places, LoginTypes
  <2>2. file[p_pos[p] + 1] \in CharacterEntry /\ p_stats[p] \in Int
    BY <2>1 DEF LoginTypes
  <2>3. e \in CharacterEntry /\ e.name = file[p_pos[p] + 1].name
    BY <2>2 DEF CharacterEntry
  <2> HIDE DEF e
  <2>4. file' = [file EXCEPT ![p_pos[p] + 1] = e]
    BY <1>2 DEF C!Save, e
  <2>5. file' \in Seq(CharacterEntry) /\ Len(file') = Len(file)
    BY <2>1, <2>3, <2>4 DEF LoginTypes
  <2>6. \A i \in 1 .. Len(file) : file'[i].name = file[i].name
    BY <2>1, <2>3, <2>4 DEF LoginTypes
  <2> QED
    BY <2>1, <2>5, <2>6 DEF Kept
<1>3. CASE file' = C!Save(p) /\ p_pos[p] \notin C!Places
  BY <1>3, SameKept DEF C!Save
<1> QED
  BY <1>1, <1>2, <1>3

(* A name is looked for, whatever the answer.                              *)
LEMMA LookedStep ==
  ASSUME LoginInv, NEW p \in Proc, NEW n \in Names, C!Looked(p, n), file' = file
  PROVE  /\ player' \in [Proc -> CharacterEntry] /\ position' \in [Proc -> Int]
         /\ position'[p] # -1 => /\ position'[p] \in C!Places'
                                 /\ file'[position'[p] + 1].name = player'[p].name
         /\ player'[p].name = n
         /\ \A q \in Proc \ {p} : position'[q] = position[q] /\ player'[q] = player[q]
<1> DEFINE l == C!Look(p, n)
<1>1. /\ l.entry \in CharacterEntry /\ l.at \in Int /\ l.entry.name = n
      /\ l.at # -1 => l.at \in C!Places /\ C!Entry(l.at).name = n
  BY LookFinds
<1>2. player' = [player EXCEPT ![p] = l.entry] /\ position' = [position EXCEPT ![p] = l.at]
  BY DEF C!Looked
<1> HIDE DEF l
<1>3. player \in [Proc -> CharacterEntry] /\ position \in [Proc -> Int]
  BY DEF LoginInv, LoginTypes
<1>4. player'[p] = l.entry /\ position'[p] = l.at
  BY <1>2, <1>3
<1>5. C!Places' = C!Places /\ \A i : C!Entry(i) = file'[i + 1]
  BY DEF C!Places, C!Entry
<1>6. player' \in [Proc -> CharacterEntry] /\ position' \in [Proc -> Int]
  BY <1>1, <1>2, <1>3
<1>7. \A q \in Proc \ {p} : position'[q] = position[q] /\ player'[q] = player[q]
  BY <1>2, <1>3
<1>8. position'[p] # -1 => position'[p] \in C!Places' /\ file'[position'[p] + 1].name = player'[p].name
  BY <1>1, <1>4, <1>5
<1> QED
  BY <1>1, <1>4, <1>6, <1>7, <1>8

(* Asked for a name, and refused or accepted.                              *)
LEMMA AskedStep ==
  ASSUME LoginInv, NEW p \in Proc, NEW n \in Names,
         C!Query(p, n) \/ C!Refused(p, n) \/ C!Accepted(p, n)
  PROVE  LoginInv'
<1>1. /\ C!Looked(p, n) /\ file' = file /\ entries' = entries /\ stage[p] = "login"
      /\ \/ UNCHANGED <<stage, p_name, p_pos, p_stats>>
         \/ /\ position'[p] # -1 /\ stage' = [stage EXCEPT ![p] = "playing"]
            /\ p_name' = [p_name EXCEPT ![p] = n] /\ p_pos' = [p_pos EXCEPT ![p] = position'[p]]
            /\ p_stats' = [p_stats EXCEPT ![p] = player'[p].stats]
  BY DEF C!Query, C!Refused, C!Accepted, C!Looked
<1>2. /\ player' \in [Proc -> CharacterEntry] /\ position' \in [Proc -> Int]
      /\ position'[p] # -1 => /\ position'[p] \in C!Places'
                              /\ file'[position'[p] + 1].name = player'[p].name
      /\ player'[p].name = n
      /\ \A q \in Proc \ {p} : position'[q] = position[q] /\ player'[q] = player[q]
  BY <1>1, LookedStep
<1>3. LoginTypes
  BY DEF LoginInv
<1>4. player'[p].stats \in Int /\ position'[p] \in Int
  BY <1>2 DEF CharacterEntry
<1>5. LoginTypes'
  BY <1>1, <1>2, <1>3, <1>4 DEF LoginTypes
<1>6. Kept /\ Len(file') = Len(file)
  BY <1>1, <1>3, SameKept
<1>7. stage'[p] \in {"login", "playing"} /\ \A q \in Proc \ {p} : stage'[q] = stage[q]
  BY <1>1, <1>3 DEF LoginTypes
<1>8. ASSUME NEW q \in Proc, q # p
      PROVE  Remembers(q)'
  <2>1. /\ position'[q] = position[q] /\ player'[q] = player[q] /\ stage'[q] = stage[q]
        /\ entries'[q] = entries[q] /\ p_name'[q] = p_name[q] /\ p_pos'[q] = p_pos[q]
    BY <1>1, <1>2, <1>3, <1>8 DEF LoginTypes
  <2> QED
    BY <1>6, <2>1, StillRemembers
<1>9. Remembers(p)'
  <2>1. CASE UNCHANGED <<stage, p_name, p_pos, p_stats>>
    <3>1. stage'[p] = "login"
      BY <1>1, <2>1
    <3>2. (position[p] # -1 => position[p] \in C!Places /\ C!Entry(position[p]).name = player[p].name)'
      BY <1>2 DEF C!Entry
    <3> QED
      BY <3>1, <3>2 DEF Remembers
  <2>2. CASE /\ position'[p] # -1 /\ stage' = [stage EXCEPT ![p] = "playing"]
             /\ p_name' = [p_name EXCEPT ![p] = n] /\ p_pos' = [p_pos EXCEPT ![p] = position'[p]]
    <3>1. stage'[p] = "playing" /\ p_name'[p] = n /\ p_pos'[p] = position'[p]
      BY <2>2, <1>3 DEF LoginTypes
    <3>2. file'[position'[p] + 1].name = n /\ position'[p] \in C!Places'
      BY <1>2, <2>2
    <3>3. (C!Entry(p_pos[p]).name = p_name[p])'
      BY <3>1, <3>2 DEF C!Entry
    <3>4. (C!Entry(position[p]).name = player[p].name)'
      BY <3>2, <1>2 DEF C!Entry
    <3> QED
      BY <3>1, <3>2, <3>3, <3>4 DEF Remembers
  <2> QED
    BY <1>1, <2>1, <2>2
<1>10. \A q, r \in Proc : stage'[q] = "counted" /\ stage'[r] = "counted" => q = r
  BY <1>7 DEF LoginInv
<1> QED
  BY <1>5, <1>8, <1>9, <1>10 DEF LoginInv

(* The entries are counted for a new character.                            *)
LEMMA CountStep ==
  ASSUME "create" \notin LoginRaces, LoginInv, NEW p \in Proc, NEW n \in Names,
         C!CountEntries(p, n)
  PROVE  LoginInv'
<1> DEFINE e == [name |-> n, stats |-> 0]
<1>1. /\ file' = file /\ UNCHANGED <<p_name, p_pos, p_stats>>
      /\ player' = [player EXCEPT ![p] = e] /\ position' = [position EXCEPT ![p] = -1]
      /\ stage' = [stage EXCEPT ![p] = "counted"]
      /\ entries' = [entries EXCEPT ![p] = Len(file)]
      /\ \A q \in Proc : stage[q] # "counted"
  BY DEF C!CountEntries
<1>2. LoginTypes
  BY DEF LoginInv
<1>3. e \in CharacterEntry /\ e.name = n
  BY DEF CharacterEntry
<1> HIDE DEF e
<1>4. Len(file) \in Int
  BY <1>2 DEF LoginTypes
<1>5. LoginTypes'
  BY <1>1, <1>2, <1>3, <1>4 DEF LoginTypes
<1>6. Kept /\ Len(file') = Len(file)
  BY <1>1, <1>2, SameKept
<1>7. ASSUME NEW q \in Proc, q # p
      PROVE  /\ position'[q] = position[q] /\ player'[q] = player[q] /\ stage'[q] = stage[q]
             /\ entries'[q] = entries[q] /\ p_name'[q] = p_name[q] /\ p_pos'[q] = p_pos[q]
  BY <1>1, <1>2, <1>7 DEF LoginTypes
<1>8. /\ position'[p] = -1 /\ player'[p] = e /\ stage'[p] = "counted" /\ entries'[p] = Len(file)
  BY <1>1, <1>2 DEF LoginTypes
<1>9. Remembers(p)'
  BY <1>3, <1>6, <1>8 DEF Remembers
<1>10. \A q \in Proc : q # p => Remembers(q)'
  BY <1>6, <1>7, StillRemembers
<1>11. \A q \in Proc : stage'[q] = "counted" => q = p
  BY <1>1, <1>7
<1> QED
  BY <1>5, <1>9, <1>10, <1>11 DEF LoginInv

(* The entry of a new character is appended.                               *)
LEMMA WriteStep ==
  ASSUME LoginInv, NEW p \in Proc, C!WriteEntry(p)
  PROVE  LoginInv'
<1>1. LoginTypes /\ Remembers(p) /\ stage[p] = "counted"
  BY DEF LoginInv, C!WriteEntry
<1>2. player[p] \in CharacterEntry /\ Len(file) \in Nat
  BY <1>1 DEF LoginTypes
<1>3. entries[p] = Len(file) /\ player[p].name \in Names
  BY <1>1 DEF Remembers
<1>4. file' = Append(file, player[p])
  BY <1>2, <1>3 DEF C!WriteEntry, C!Written, C!Places
<1>5. file' \in Seq(CharacterEntry) /\ Len(file') = Len(file) + 1
  BY <1>1, <1>2, <1>4 DEF LoginTypes
<1>6. file'[Len(file) + 1] = player[p] /\ \A i \in 1 .. Len(file) : file'[i] = file[i]
  BY <1>1, <1>2, <1>4 DEF LoginTypes
<1>7. Kept
  BY <1>2, <1>5, <1>6 DEF Kept
<1>8. /\ stage' = [stage EXCEPT ![p] = "playing"]
      /\ p_name' = [p_name EXCEPT ![p] = player[p].name]
      /\ p_pos' = [p_pos EXCEPT ![p] = Len(file)]
      /\ p_stats' = [p_stats EXCEPT ![p] = 0] /\ entries' = [entries EXCEPT ![p] = 0]
      /\ UNCHANGED <<player, position>>
  BY <1>3 DEF C!WriteEntry
<1>9. LoginTypes'
  BY <1>1, <1>2, <1>3, <1>5, <1>8 DEF LoginTypes
<1>10. ASSUME NEW q \in Proc, q # p
       PROVE  /\ position'[q] = position[q] /\ player'[q] = player[q] /\ stage'[q] = stage[q]
              /\ entries'[q] = entries[q] /\ p_name'[q] = p_name[q] /\ p_pos'[q] = p_pos[q]
              /\ stage[q] # "counted"
  BY <1>1, <1>8, <1>10 DEF LoginTypes, LoginInv
<1>11. /\ stage'[p] = "playing" /\ p_name'[p] = player[p].name /\ p_pos'[p] = Len(file)
       /\ position'[p] = position[p] /\ player'[p] = player[p]
  BY <1>1, <1>8 DEF LoginTypes
<1>12. Remembers(p)'
  <2>1. (p_pos[p] \in C!Places /\ C!Entry(p_pos[p]).name = p_name[p])'
    BY <1>2, <1>5, <1>6, <1>11 DEF C!Places, C!Entry
  <2>2. position[p] # -1 => /\ position[p] \in C!Places' /\ (C!Entry(position[p]).name)' = player[p].name
    <3>1. \A i \in C!Places : i \in C!Places' /\ C!Entry(i)' .name = C!Entry(i).name
      BY <1>1, <1>7, PlacesKept
    <3> QED
      BY <1>1, <1>11, <3>1 DEF Remembers, C!Entry
  <2> QED
    BY <1>11, <2>1, <2>2 DEF Remembers
<1>13. \A q \in Proc : q # p => Remembers(q)'
  BY <1>7, <1>10, StillRemembers
<1>14. \A q \in Proc : stage'[q] # "counted"
  BY <1>10, <1>11
<1> QED
  BY <1>9, <1>12, <1>13, <1>14 DEF LoginInv

(* What a process does of itself, with its own place in the file at most:  *)
(* a guest enters, a player plays, is reset, saved, or leaves.             *)
LEMMA OwnStep ==
  ASSUME LoginInv, NEW p \in Proc,
         C!GuestLogin(p) \/ C!Play(p) \/ C!handleReset(p) \/ C!savestats(p) \/ C!exitGame(p)
  PROVE  LoginInv'
<1>1. LoginTypes
  BY DEF LoginInv
<1>2. /\ file' = file \/ file' = C!Save(p)
      /\ stage[p] # "counted" /\ entries' = entries
      /\ \/ stage' = stage
         \/ stage' = [stage EXCEPT ![p] = "playing"]
         \/ stage' = [stage EXCEPT ![p] = "login"]
  BY DEF C!GuestLogin, C!Play, C!handleReset, C!savestats, C!exitGame
<1>3. Kept /\ Len(file') = Len(file)
  BY <1>1, <1>2, SaveKept
<1>4. C!Nobody \in CharacterEntry /\ [player[p] EXCEPT !.stats = 0] \in CharacterEntry
  <2>1. player[p] \in CharacterEntry
    BY <1>1 DEF LoginTypes
  <2> QED
    BY <2>1 DEF C!Nobody, CharacterEntry
<1>5. /\ \/ player' = player
         \/ player' = [player EXCEPT ![p] = [player[p] EXCEPT !.stats = 0]]
         \/ player' = [player EXCEPT ![p] = C!Nobody]
      /\ \/ position' = position
         \/ position' = [position EXCEPT ![p] = -1]
  BY <1>1 DEF C!GuestLogin, C!Play, C!handleReset, C!savestats, C!exitGame, LoginTypes
<1>6. /\ \/ p_stats' = p_stats
         \/ p_stats' = [p_stats EXCEPT ![p] = 0]
         \/ p_stats' = [p_stats EXCEPT ![p] = p_stats[p] + 1]
      /\ \/ UNCHANGED <<p_name, p_pos>>
         \/ /\ p_pos' = [p_pos EXCEPT ![p] = -1]
            /\ \/ p_name' = [p_name EXCEPT ![p] = C!NoName]
               \/ p_name' = [p_name EXCEPT ![p] = C!Guest]
  BY <1>1 DEF C!GuestLogin, C!Play, C!handleReset, C!savestats, C!exitGame, LoginTypes
<1>7. p_stats[p] + 1 \in Int
  BY <1>1 DEF LoginTypes
<1>8. LoginTypes'
  <2>1. file' \in Seq(CharacterEntry)
    BY <1>3 DEF Kept
  <2>2. player' \in [Proc -> CharacterEntry] /\ position' \in [Proc -> Int]
    <3>1. player \in [Proc -> CharacterEntry] /\ position \in [Proc -> Int]
      BY <1>1 DEF LoginTypes
    <3>2. player' \in [Proc -> CharacterEntry]
      BY <3>1, <1>4, <1>5
    <3>3. position' \in [Proc -> Int]
      BY <3>1, <1>5
    <3> QED
      BY <3>2, <3>3
  <2>3. stage' \in [Proc -> {"login", "counted", "playing"}] /\ entries' \in [Proc -> Int]
    BY <1>1, <1>2 DEF LoginTypes
  <2>4. /\ p_name' \in [Proc -> Names \cup {C!NoName, C!Guest}]
        /\ p_pos' \in [Proc -> Int] /\ p_stats' \in [Proc -> Int]
    <3>1. /\ p_name \in [Proc -> Names \cup {C!NoName, C!Guest}]
          /\ p_pos \in [Proc -> Int] /\ p_stats \in [Proc -> Int]
      BY <1>1 DEF LoginTypes
    <3>2. p_name' \in [Proc -> Names \cup {C!NoName, C!Guest}]
      BY <3>1, <1>6
    <3>3. p_pos' \in [Proc -> Int]
      BY <3>1, <1>6
    <3>4. p_stats' \in [Proc -> Int]
      BY <3>1, <1>6, <1>7
    <3> QED
      BY <3>2, <3>3, <3>4
  <2> QED
    BY <2>1, <2>2, <2>3, <2>4 DEF LoginTypes
<1>9. ASSUME NEW q \in Proc, q # p
      PROVE  /\ position'[q] = position[q] /\ player'[q] = player[q] /\ stage'[q] = stage[q]
             /\ entries'[q] = entries[q] /\ p_name'[q] = p_name[q] /\ p_pos'[q] = p_pos[q]
  BY <1>1, <1>2, <1>5, <1>6, <1>9 DEF LoginTypes
<1>10. \A q \in Proc : q # p => Remembers(q)'
  BY <1>3, <1>9, StillRemembers
<1>11. stage'[p] # "counted"
  BY <1>1, <1>2 DEF LoginTypes
<1>12. \A i \in C!Places : i \in C!Places' /\ C!Entry(i)' .name = C!Entry(i).name
  BY <1>1, <1>3, PlacesKept
<1>13. Remembers(p)'
  <2>1. Remembers(p) /\ player[p] \in CharacterEntry
    BY <1>1 DEF LoginInv, LoginTypes
  <2>2. (position[p] # -1 => position[p] \in C!Places /\ C!Entry(position[p]).name = player[p].name)'
    <3>1. CASE position' = position /\ player'[p].name = player[p].name
      BY <2>1, <1>12, <3>1 DEF Remembers, C!Entry
    <3>2. CASE position' = [position EXCEPT ![p] = -1]
      BY <1>1, <3>2 DEF LoginTypes
    <3>3. \/ UNCHANGED position /\ UNCHANGED player
          \/ UNCHANGED position /\ player' = [player EXCEPT ![p] = [player[p] EXCEPT !.stats = 0]]
          \/ position' = [position EXCEPT ![p] = -1]
      BY <1>1 DEF C!GuestLogin, C!Play, C!handleReset, C!savestats, C!exitGame, LoginTypes
    <3>4. player' = [player EXCEPT ![p] = [player[p] EXCEPT !.stats = 0]]
            => player'[p].name = player[p].name
      BY <1>1, <2>1 DEF LoginTypes, CharacterEntry
    <3> QED
      BY <3>1, <3>2, <3>3, <3>4
  <2>3. (stage[p] = "playing" /\ p_pos[p] >= 0 => p_pos[p] \in C!Places /\ C!Entry(p_pos[p]).name = p_name[p])'
    <3>1. CASE p_pos' = [p_pos EXCEPT ![p] = -1]
      BY <1>1, <3>1 DEF LoginTypes
    <3>2. CASE UNCHANGED <<p_name, p_pos>> /\ stage[p] = "playing"
      BY <2>1, <1>12, <3>2 DEF Remembers, C!Entry
    <3>3. p_pos' = [p_pos EXCEPT ![p] = -1] \/ (UNCHANGED <<p_name, p_pos>> /\ stage[p] = "playing")
      BY DEF C!GuestLogin, C!Play, C!handleReset, C!savestats, C!exitGame
    <3> QED
      BY <3>1, <3>2, <3>3
  <2> QED
    BY <1>11, <2>2, <2>3 DEF Remembers
<1>14. \A q, r \in Proc : stage'[q] = "counted" /\ stage'[r] = "counted" => q = r
  BY <1>9, <1>11 DEF LoginInv
<1> QED
  BY <1>8, <1>10, <1>13, <1>14 DEF LoginInv

(* Every step of every process.                                            *)
LEMMA LoginStep ==
  ASSUME "create" \notin LoginRaces, LoginInv, [C!Next]_(C!vars)
  PROVE  LoginInv'
<1>1. CASE C!Next
  <2>1. PICK p \in Proc : C!handleLogin(p) \/ C!Play(p) \/ C!handleReset(p) \/ C!savestats(p) \/ C!exitGame(p)
    BY <1>1 DEF C!Next
  <2>2. CASE C!handleLogin(p)
    BY <2>2, AskedStep, CountStep, WriteStep, OwnStep DEF C!handleLogin
  <2> QED
    BY <2>1, <2>2, OwnStep
<1>2. CASE UNCHANGED C!vars
  BY <1>2 DEF C!vars, LoginInv, LoginTypes, Remembers, C!Places, C!Entry
<1> QED
  BY <1>1, <1>2

(* The steps of the history while it is about logins.                      *)
LEMMA LoginNext ==
  machine = "PlayerFile" /\ [Next]_vars => machine' = "PlayerFile" /\ [C!Next]_(C!vars)
BY DEF Next, vars, Ends, login, C!vars

(* While he plays, the place where a player's statistics are saved         *)
(* (savestats, and saveplayer in the daemon) is in the file and holds the  *)
(* character he plays, whatever names his process and the others have been *)
(* asked for before (getname.c: handleLogin), and though a character may   *)
(* be played twice at once: for any number of processes and names, if no   *)
(* two of them make a new character at the same time.                      *)
THEOREM CharactersKeepPlace ==
  ASSUME "create" \notin LoginRaces
  PROVE  Spec => []OwnPlace
<1> DEFINE Inv == machine = "PlayerFile" => LoginInv
<1>1. Init => Inv
  BY LoginInit DEF Init
<1>2. Inv /\ [Next]_vars => Inv'
  <2>1. [Next]_vars => machine' = machine
    BY DEF Next, vars, Ends
  <2>2. machine = "PlayerFile" /\ LoginInv /\ [Next]_vars => LoginInv'
    BY LoginNext, LoginStep
  <2> QED
    BY <2>1, <2>2
<1>3. Inv => OwnPlace
  BY DEF LoginInv, Remembers, OwnPlace, C!OwnPlace
<1> QED
  BY <1>1, <1>2, <1>3, PTL DEF Spec

-----------------------------------------------------------------------------
(* Warnings and messages: queues that lie in a ring of n places, at        *)
(* (first + i - 1) % n for i from 1 to the length.                         *)

(* A place of the ring is counted from any other.                          *)
LEMMA RingPlaces ==
  ASSUME NEW n \in Nat \ {0}, NEW x \in 0 .. n - 1, NEW k \in 0 .. n
  PROVE  /\ (x + k) % n \in 0 .. n - 1
         /\ x + k < n => (x + k) % n = x + k
         /\ x + k >= n => (x + k) % n = x + k - n
<1>1. (x + k) % n \in 0 .. n - 1
  OBVIOUS
<1>2. x + k < n => (x + k) % n = x + k
  OBVIOUS
<1>3. x + k >= n => (x + k) % n = x + k - n
  OBVIOUS
<1> QED
  BY <1>1, <1>2, <1>3

(* No steps on it is the place itself.                                     *)
LEMMA RingHere == ASSUME NEW n \in Nat \ {0}, NEW x \in 0 .. n - 1 PROVE (x + (1 - 1)) % n = x
<1>1. x + (1 - 1) = x /\ x % n = x
  OBVIOUS
<1> QED
  BY <1>1

(* Fewer than n steps apart, two places are different.                     *)
LEMMA RingApart ==
  ASSUME NEW n \in Nat \ {0}, NEW x \in 0 .. n - 1, NEW j \in 0 .. n - 1, NEW k \in 0 .. n - 1,
         (x + j) % n = (x + k) % n
  PROVE  j = k
<1>1. (x + j) % n = IF x + j < n THEN x + j ELSE x + j - n
  OBVIOUS
<1>2. (x + k) % n = IF x + k < n THEN x + k ELSE x + k - n
  OBVIOUS
<1> QED
  BY <1>1, <1>2

(* From the next place it is one step less.                                *)
LEMMA RingNext ==
  ASSUME NEW n \in Nat \ {0}, NEW x \in 0 .. n - 1, NEW k \in 0 .. n - 1
  PROVE  (((x + 1) % n) + k) % n = (x + (k + 1)) % n
<1> DEFINE y == (x + 1) % n
<1>1. y \in 0 .. n - 1 /\ y = IF x + 1 < n THEN x + 1 ELSE x + 1 - n
  OBVIOUS
<1>2. (x + (k + 1)) % n = IF x + k + 1 < n THEN x + k + 1 ELSE x + k + 1 - n
  OBVIOUS
<1> HIDE DEF y
<1>3. (y + k) % n = IF y + k < n THEN y + k ELSE y + k - n
  BY <1>1
<1>4. (y + k) % n = (x + (k + 1)) % n
  BY <1>1, <1>2, <1>3
<1> QED
  BY <1>4 DEF y

(* What is added to a queue is its last, what is taken from it its first.  *)
LEMMA QueueGrows ==
  ASSUME NEW X, NEW q \in Seq(X), NEW e \in X
  PROVE  /\ Append(q, e) \in Seq(X) /\ Len(Append(q, e)) = Len(q) + 1 /\ Len(q) \in Nat
         /\ \A i \in 1 .. Len(q) : Append(q, e)[i] = q[i]
         /\ Append(q, e)[Len(q) + 1] = e
OBVIOUS

(* As above, for the first of the queue and what is behind it.             *)
LEMMA QueueShrinks ==
  ASSUME NEW X, NEW q \in Seq(X), Len(q) > 0
  PROVE  /\ Tail(q) \in Seq(X) /\ Len(Tail(q)) = Len(q) - 1 /\ Len(q) \in Nat
         /\ \A i \in 1 .. Len(q) - 1 : Tail(q)[i] = q[i + 1]
         /\ Head(q) = q[1] /\ q[1] \in X
OBVIOUS

-----------------------------------------------------------------------------
(* Warnings: the queue is what lies in w_buf from whichw on, so what is    *)
(* shown from there is the oldest of the queue.                            *)
WarnInv ==
  /\ whichw \in B!Slots /\ numw \in 0 .. WQLEN - 1 /\ DOMAIN w_buf = B!Slots
  /\ waiting \in Seq(Texts) /\ Len(waiting) = numw
  /\ \A i \in 1 .. numw : waiting[i] = w_buf[(whichw + (i - 1)) % WQLEN]
  /\ shown.text = shown.due

(* There is room for one warning at least.                                 *)
RingAssumption == WQLEN \in Nat \ {0}

(* The queue is empty at first.                                            *)
LEMMA WarnInit == ASSUME RingAssumption PROVE B!Init => WarnInv
<1> SUFFICES ASSUME B!Init PROVE WarnInv
  OBVIOUS
<1>1. waiting \in Seq(Texts) /\ Len(waiting) = 0 /\ numw = 0 /\ shown.text = shown.due
  BY DEF B!Init
<1>2. whichw \in B!Slots /\ numw \in 0 .. WQLEN - 1 /\ DOMAIN w_buf = B!Slots
  BY DEF B!Init, B!Slots, RingAssumption
<1> QED
  BY <1>1, <1>2 DEF WarnInv

(* The ring and the queue with a text in its place.                        *)
WarnPut(text) == [w_buf EXCEPT ![(whichw + numw) % WQLEN] = text]
WarnList(text) == IF B!Longer > numw THEN Append(waiting, text) ELSE waiting

(* A text is put behind those that wait, if there is room; else nothing    *)
(* that waits is touched.                                                  *)
LEMMA WarnQueued ==
  ASSUME RingAssumption, WarnInv, NEW text \in Texts,
         NEW buf, NEW list, buf = WarnPut(text), list = WarnList(text)
  PROVE  /\ B!Longer \in 0 .. WQLEN - 1 /\ DOMAIN buf = B!Slots
         /\ list \in Seq(Texts) /\ Len(list) = B!Longer
         /\ \A i \in 1 .. B!Longer : list[i] = buf[(whichw + (i - 1)) % WQLEN]
         /\ numw > 0 => B!Longer > 0
<1> USE DEF RingAssumption, WarnPut, WarnList
<1>1. /\ B!Longer \in {numw, numw + 1} /\ B!Longer \in 0 .. WQLEN - 1
      /\ numw > 0 => B!Longer > 0
  BY DEF WarnInv, B!Longer
<1>2. (whichw + numw) % WQLEN \in B!Slots
  BY DEF WarnInv, B!Slots
<1>3. DOMAIN buf = B!Slots /\ buf[(whichw + numw) % WQLEN] = text
  BY <1>2 DEF WarnInv
<1>4. ASSUME NEW i \in 1 .. numw
      PROVE  waiting[i] = buf[(whichw + (i - 1)) % WQLEN]
  <2>1. (whichw + (i - 1)) % WQLEN # (whichw + numw) % WQLEN
    <3>1. i - 1 \in 0 .. WQLEN - 1 /\ numw \in 0 .. WQLEN - 1 /\ i - 1 # numw
      BY DEF WarnInv
    <3> QED
      BY <3>1, RingApart DEF WarnInv, B!Slots
  <2>2. (whichw + (i - 1)) % WQLEN \in B!Slots
    <3>1. i - 1 \in 0 .. WQLEN
      BY DEF WarnInv
    <3> QED
      BY <3>1, RingPlaces DEF WarnInv, B!Slots
  <2> QED
    BY <2>1, <2>2 DEF WarnInv
<1>5. CASE B!Longer = numw
  BY <1>1, <1>3, <1>4, <1>5 DEF WarnInv
<1>6. CASE B!Longer = numw + 1
  <2>1. /\ list = Append(waiting, text) /\ numw \in Nat
        /\ waiting \in Seq(Texts) /\ Len(waiting) = numw
    BY <1>6 DEF WarnInv
  <2>2. /\ list \in Seq(Texts) /\ Len(list) = numw + 1
        /\ \A i \in 1 .. numw : list[i] = waiting[i]
        /\ list[numw + 1] = text
    BY <2>1, QueueGrows
  <2>3. ASSUME NEW i \in 1 .. numw + 1
        PROVE  list[i] = buf[(whichw + (i - 1)) % WQLEN]
    <3>1. CASE i = numw + 1
      <4>1. i - 1 = numw
        BY <3>1, <2>1
      <4> QED
        BY <4>1, <3>1, <2>2, <1>3
    <3>2. CASE i \in 1 .. numw
      BY <3>2, <2>2, <1>4
    <3> QED
      BY <3>1, <3>2, <2>1
  <2> QED
    BY <1>1, <1>3, <1>6, <2>2, <2>3
<1> QED
  BY <1>1, <1>5, <1>6

(* The first of the queue is shown from its place.                         *)
LEMMA WarnShown ==
  ASSUME RingAssumption, NEW n \in 1 .. WQLEN - 1, NEW buf, NEW list,
         whichw \in B!Slots, DOMAIN buf = B!Slots,
         list \in Seq(Texts), Len(list) = n,
         \A i \in 1 .. n : list[i] = buf[(whichw + (i - 1)) % WQLEN],
         w_buf' = buf, B!Show(buf[whichw], list),
         whichw' = (whichw + 1) % WQLEN, numw' = n - 1
  PROVE  WarnInv'
<1> USE DEF RingAssumption
<1>1. /\ Tail(list) \in Seq(Texts) /\ Len(Tail(list)) = n - 1
      /\ \A i \in 1 .. n - 1 : Tail(list)[i] = list[i + 1]
      /\ Head(list) = list[1]
  BY QueueShrinks
<1>2. whichw' \in B!Slots
  BY DEF B!Slots
<1>3. buf[whichw] = list[1]
  <2>1. (whichw + (1 - 1)) % WQLEN = whichw
    BY RingHere DEF B!Slots
  <2>2. 1 \in 1 .. n
    OBVIOUS
  <2> QED
    BY <2>1, <2>2
<1>4. ASSUME NEW i \in 1 .. n - 1
      PROVE  Tail(list)[i] = buf[(whichw' + (i - 1)) % WQLEN]
  <2>1. i + 1 \in 1 .. n /\ i - 1 \in 0 .. WQLEN - 1 /\ (i + 1) - 1 = (i - 1) + 1
    OBVIOUS
  <2>2. Tail(list)[i] = buf[(whichw + ((i - 1) + 1)) % WQLEN]
    BY <1>1, <2>1
  <2>3. (whichw' + (i - 1)) % WQLEN = (whichw + ((i - 1) + 1)) % WQLEN
    BY <2>1, RingNext DEF B!Slots
  <2> QED
    BY <2>2, <2>3
<1>5. waiting' = Tail(list) /\ shown'.text = buf[whichw] /\ shown'.due = Head(list)
  BY DEF B!Show
<1> QED
  BY <1>1, <1>2, <1>3, <1>4, <1>5 DEF WarnInv

(* A warning is shown, queued or dropped; what is shown is the oldest.     *)
LEMMA WarnStep ==
  ASSUME RingAssumption, WarnInv, [B!Next]_(B!vars)
  PROVE  WarnInv'
<1> USE DEF RingAssumption
<1>1. ASSUME NEW text \in Texts, B!warning(text)
      PROVE  WarnInv'
  <2>1. CASE B!Directly
    <3>1. /\ B!Show(text, Append(waiting, text)) /\ UNCHANGED <<w_buf, numw, whichw>>
          /\ numw = 0
      BY <1>1, <2>1 DEF B!warning, B!Directly
    <3>2. Len(waiting) = 0 /\ waiting \in Seq(Texts)
      BY <3>1 DEF WarnInv
    <3>3. waiting = <<>>
      BY <3>2
    <3>4. Append(waiting, text) = <<text>>
      BY <3>3
    <3>5. Head(<<text>>) = text /\ Tail(<<text>>) = <<>>
      OBVIOUS
    <3>6. shown'.text = text /\ shown'.due = text /\ waiting' = <<>>
      BY <3>1, <3>4, <3>5 DEF B!Show
    <3>7. <<>> \in Seq(Texts) /\ Len(<<>>) = 0
      OBVIOUS
    <3> QED
      BY <3>1, <3>6, <3>7 DEF WarnInv
  <2>2. CASE ~B!Directly /\ UNCHANGED <<w_buf, numw, whichw, waiting, shown>>
    BY <2>2 DEF WarnInv
  <2>3. CASE ~B!Directly /\ ~UNCHANGED <<w_buf, numw, whichw, waiting, shown>>
    <3> DEFINE buf == WarnPut(text)
               list == WarnList(text)
    <3>1. /\ w_buf' = buf
          /\ IF spaced
             THEN /\ B!Show(w_buf'[whichw], list) /\ whichw' = (whichw + 1) % WQLEN
                  /\ numw' = B!Longer - 1
             ELSE waiting' = list /\ numw' = B!Longer /\ UNCHANGED <<whichw, shown>>
      BY <1>1, <2>3 DEF B!warning, WarnPut, WarnList
    <3>2. /\ B!Longer \in 0 .. WQLEN - 1 /\ DOMAIN buf = B!Slots
          /\ list \in Seq(Texts) /\ Len(list) = B!Longer
          /\ \A i \in 1 .. B!Longer : list[i] = buf[(whichw + (i - 1)) % WQLEN]
          /\ numw > 0 => B!Longer > 0
      BY WarnQueued
    <3> HIDE DEF buf, list
    <3>3. CASE spaced
      <4>1. numw > 0
        BY <2>3, <3>3 DEF B!Directly, WarnInv
      <4>2. B!Longer \in 1 .. WQLEN - 1
        BY <4>1, <3>2
      <4>3. B!Show(buf[whichw], list) /\ whichw' = (whichw + 1) % WQLEN /\ numw' = B!Longer - 1
        BY <3>1, <3>3
      <4>4. whichw \in B!Slots
        BY DEF WarnInv
      <4> QED
        BY <3>1, <3>2, <4>2, <4>3, <4>4, WarnShown
    <3>4. CASE ~spaced
      BY <3>1, <3>2, <3>4 DEF WarnInv
    <3> QED
      BY <3>3, <3>4
  <2> QED
    BY <2>1, <2>2, <2>3
<1>2. CASE B!updateWarnings
  <2>1. /\ numw > 0 /\ B!Show(w_buf[whichw], waiting) /\ w_buf' = w_buf
        /\ whichw' = (whichw + 1) % WQLEN /\ numw' = numw - 1
    BY <1>2 DEF B!updateWarnings
  <2>2. numw \in 1 .. WQLEN - 1
    BY <2>1 DEF WarnInv
  <2> QED
    BY <2>1, <2>2, WarnShown DEF WarnInv
<1>3. CASE B!GapPasses
  BY <1>3 DEF B!GapPasses, WarnInv
<1>4. CASE UNCHANGED B!vars
  BY <1>4 DEF B!vars, WarnInv
<1> QED
  BY <1>1, <1>2, <1>3, <1>4 DEF B!Next

(* The machine of this run is the warnings' from the start to the end.     *)
LEMMA WarnNext ==
  machine = "Warnings" /\ [Next]_vars => machine' = "Warnings" /\ [B!Next]_(B!vars)
BY DEF Next, vars, Ends, queue, B!vars

-----------------------------------------------------------------------------
(* Messages: what lies between the place that is read next and the place   *)
(* that is written next is what is unread, in that order; each of those    *)
(* letters is still being written or it is there, address and text.        *)
(* Letters are what the processes may say, and answers of GOD.             *)
Letter == MySays \cup OthersSay \cup {M!NoLetter} \cup
          [from : {M!GOD}, group : {"MINDIV"}, mine : BOOLEAN]
Place == 0 .. MAXMESSAGE - 1

(* There is room for two letters; no process is so slow that the others    *)
(* pass the end of the ring while it is on its way back to the start, or   *)
(* come round to the place it writes to.                                   *)
RaceAssumption ==
  /\ MAXMESSAGE \in Nat /\ MAXMESSAGE >= 2
  /\ "lap" \notin Races /\ "wrap" \notin Races

(* o is out, ms is messages.                                               *)
At(o, w, k) == o[w].at >= 0 /\ o[w].at % MAXMESSAGE = k
Has(o, ms, k, l) ==
  \/ \E w \in M!Writer : At(o, w, k) /\ o[w].letter = l
  \/ /\ \A w \in M!Writer : ~At(o, w, k)
     /\ ms[k].valid /\ ms[k].address = l /\ ms[k].text = l
Line(o, ms, m, u, c) ==
  /\ Len(u) < MAXMESSAGE /\ (m + Len(u)) % MAXMESSAGE = c
  /\ \A i \in 1 .. Len(u) : Has(o, ms, (m + (i - 1)) % MAXMESSAGE, u[i])

WritersRight ==
  /\ mc_current \in 0 .. MAXMESSAGE
  /\ out \in [M!Writer -> [at : -1 .. MAXMESSAGE, open : BOOLEAN, letter : Letter]]
  /\ \A w \in M!Writer : /\ out[w].at = -1 => out[w] = M!Idle
                         /\ out[w].open => out[w].at \in Place
                         /\ out[w].at = MAXMESSAGE => mc_current = MAXMESSAGE
  /\ mc_current = MAXMESSAGE => \E w \in M!Writer : out[w].at = MAXMESSAGE
  /\ \A v \in M!Writer, w \in M!Writer :
       v # w /\ out[v].at >= 0 /\ out[w].at >= 0
         => out[v].at % MAXMESSAGE # out[w].at % MAXMESSAGE
PlacesRight ==
  /\ messages \in [Place -> [valid : BOOLEAN, address : Letter, text : Letter]]
  /\ \A w \in M!Writer : out[w].open => /\ messages[out[w].at].address = out[w].letter
                                        /\ ~messages[out[w].at].valid
  /\ \A k \in Place : messages[k].valid => messages[k].text = messages[k].address
ReaderRight ==
  /\ msgCurrent \in Place /\ unread \in Seq(Letter) /\ clean \in BOOLEAN
  /\ clean => Line(out, messages, msgCurrent, unread, M!Next1(mc_current))
RingInv == WritersRight /\ PlacesRight /\ ReaderRight

(* From the place before it is one step more.                              *)
LEMMA RingLast ==
  ASSUME NEW n \in Nat \ {0}, NEW x \in 0 .. n - 1, NEW k \in 0 .. n - 1
  PROVE  (((x + k) % n) + 1) % n = (x + (k + 1)) % n
<1> DEFINE y == (x + k) % n
<1>1. y \in 0 .. n - 1 /\ y = IF x + k < n THEN x + k ELSE x + k - n
  OBVIOUS
<1>2. (x + (k + 1)) % n = IF x + k + 1 < n THEN x + k + 1 ELSE x + k + 1 - n
  OBVIOUS
<1> HIDE DEF y
<1>3. (y + 1) % n = IF y + 1 < n THEN y + 1 ELSE y + 1 - n
  BY <1>1
<1>4. (y + 1) % n = (x + (k + 1)) % n
  BY <1>1, <1>2, <1>3
<1> QED
  BY <1>4 DEF y

(* Places of the ring lie in the ring.                                     *)
LEMMA RingIn ==
  ASSUME RaceAssumption
  PROVE  /\ \A x \in Int : x % MAXMESSAGE \in Place
         /\ \A x \in Place : x % MAXMESSAGE = x
         /\ MAXMESSAGE % MAXMESSAGE = 0
<1> DEFINE n == MAXMESSAGE
<1>1. n \in Nat \ {0}
  BY DEF RaceAssumption
<1> HIDE DEF n
<1>2. (\A x \in Int : x % n \in 0 .. n - 1) /\ (\A x \in 0 .. n - 1 : x % n = x)
  BY <1>1
<1>3. n % n = 0
  BY <1>1
<1> QED
  BY <1>2, <1>3 DEF n, Place

(* The first of the line is read; the others stay in line.                 *)
LEMMA LinePasses ==
  ASSUME RaceAssumption, NEW o, NEW ms, NEW m \in Place, NEW u \in Seq(Letter), NEW c,
         Line(o, ms, m, u, c), Len(u) > 0
  PROVE  /\ (m + 1) % MAXMESSAGE \in Place /\ Tail(u) \in Seq(Letter)
         /\ Len(Tail(u)) = Len(u) - 1
         /\ Line(o, ms, (m + 1) % MAXMESSAGE, Tail(u), c)
<1> DEFINE m1 == (m + 1) % MAXMESSAGE
<1>1. MAXMESSAGE \in Nat \ {0} /\ m \in 0 .. MAXMESSAGE - 1 /\ m1 \in Place
  <2>1. MAXMESSAGE \in Nat \ {0} /\ m \in 0 .. MAXMESSAGE - 1 /\ m + 1 \in Int
    BY DEF RaceAssumption, Place
  <2> QED
    BY <2>1, RingIn
<1>2. /\ Tail(u) \in Seq(Letter) /\ Len(Tail(u)) = Len(u) - 1 /\ Len(u) \in Nat
      /\ \A i \in 1 .. Len(u) - 1 : Tail(u)[i] = u[i + 1]
  BY QueueShrinks
<1>3. Len(u) < MAXMESSAGE /\ (m + Len(u)) % MAXMESSAGE = c
  BY DEF Line
<1>4. (m1 + (Len(u) - 1)) % MAXMESSAGE = c
  <2>1. Len(u) - 1 \in 0 .. MAXMESSAGE - 1 /\ (Len(u) - 1) + 1 = Len(u)
    BY <1>2, <1>3, <1>1
  <2>2. (m1 + (Len(u) - 1)) % MAXMESSAGE = (m + ((Len(u) - 1) + 1)) % MAXMESSAGE
    BY <2>1, <1>1, RingNext
  <2> QED
    BY <2>1, <2>2, <1>3
<1>5. ASSUME NEW i \in 1 .. Len(u) - 1
      PROVE  Has(o, ms, (m1 + (i - 1)) % MAXMESSAGE, Tail(u)[i])
  <2>1. i + 1 \in 1 .. Len(u) /\ i - 1 \in 0 .. MAXMESSAGE - 1 /\ (i + 1) - 1 = (i - 1) + 1
    BY <1>2, <1>3, <1>1
  <2>2. Has(o, ms, (m + ((i + 1) - 1)) % MAXMESSAGE, u[i + 1])
    BY <2>1 DEF Line
  <2>3. (m1 + (i - 1)) % MAXMESSAGE = (m + ((i - 1) + 1)) % MAXMESSAGE
    BY <2>1, <1>1, RingNext
  <2>4. Tail(u)[i] = u[i + 1]
    BY <1>2
  <2> QED
    BY <2>1, <2>2, <2>3, <2>4
<1> HIDE DEF m1
<1>6. Line(o, ms, m1, Tail(u), c)
  BY <1>1, <1>2, <1>3, <1>4, <1>5 DEF Line
<1> QED
  BY <1>1, <1>2, <1>6 DEF m1

(* A letter joins the line: the place that is written next becomes its.    *)
LEMMA LineGrows ==
  ASSUME RaceAssumption, NEW o, NEW ms, NEW p, NEW qs, NEW m \in Place, NEW u \in Seq(Letter),
         NEW c, NEW l \in Letter,
         Line(o, ms, m, u, c), Len(u) + 1 < MAXMESSAGE,
         \A k \in Place : \A e : k # c /\ Has(o, ms, k, e) => Has(p, qs, k, e),
         Has(p, qs, c, l)
  PROVE  Append(u, l) \in Seq(Letter) /\ Line(p, qs, m, Append(u, l), (c + 1) % MAXMESSAGE)
<1> DEFINE v == Append(u, l)
<1>1. MAXMESSAGE \in Nat \ {0} /\ m \in 0 .. MAXMESSAGE - 1
  BY DEF RaceAssumption, Place
<1>2. /\ v \in Seq(Letter) /\ Len(v) = Len(u) + 1 /\ Len(u) \in Nat
      /\ \A i \in 1 .. Len(u) : v[i] = u[i]
      /\ v[Len(u) + 1] = l
  BY QueueGrows
<1> HIDE DEF v
<1>3. (m + Len(u)) % MAXMESSAGE = c /\ Len(u) \in 0 .. MAXMESSAGE - 1
  BY <1>1, <1>2 DEF Line
<1>4. (m + Len(v)) % MAXMESSAGE = (c + 1) % MAXMESSAGE
  BY <1>1, <1>2, <1>3, RingLast
<1>5. ASSUME NEW i \in 1 .. Len(u) + 1
      PROVE  Has(p, qs, (m + (i - 1)) % MAXMESSAGE, v[i])
  <2>1. CASE i = Len(u) + 1
    <3>1. i - 1 = Len(u)
      BY <2>1, <1>2
    <3> QED
      BY <3>1, <2>1, <1>2, <1>3
  <2>2. CASE i \in 1 .. Len(u)
    <3> DEFINE k == (m + (i - 1)) % MAXMESSAGE
    <3>1. Has(o, ms, k, u[i])
      BY <2>2 DEF Line
    <3>2. i - 1 \in 0 .. MAXMESSAGE - 1 /\ i - 1 # Len(u)
      BY <2>2, <1>1, <1>3
    <3>3. k # c
      BY <3>2, <1>1, <1>3, RingApart
    <3>4. m + (i - 1) \in Int
      BY <1>1
    <3>5. k \in Place
      BY <3>4, RingIn
    <3> HIDE DEF k
    <3>6. Has(p, qs, k, u[i])
      BY <3>1, <3>3, <3>5
    <3> QED
      BY <3>6, <2>2, <1>2 DEF k
  <2> QED
    BY <2>1, <2>2, <1>2
<1>6. Line(p, qs, m, v, (c + 1) % MAXMESSAGE)
  BY <1>2, <1>4, <1>5 DEF Line
<1> QED
  BY <1>2, <1>6 DEF v

(* A line stays while its letters stay at their places.                    *)
LEMMA LineStays ==
  ASSUME RaceAssumption, NEW o, NEW ms, NEW p, NEW qs, NEW m \in Place, NEW u \in Seq(Letter),
         NEW c, Line(o, ms, m, u, c),
         \A k \in Place : \A e : Has(o, ms, k, e) => Has(p, qs, k, e)
  PROVE  Line(p, qs, m, u, c)
<1>1. ASSUME NEW i \in 1 .. Len(u)
      PROVE  Has(p, qs, (m + (i - 1)) % MAXMESSAGE, u[i])
  <2>1. Has(o, ms, (m + (i - 1)) % MAXMESSAGE, u[i])
    BY DEF Line
  <2>2. m + (i - 1) \in Int
    BY DEF Place
  <2>3. (m + (i - 1)) % MAXMESSAGE \in Place
    BY <2>2, RingIn
  <2> QED
    BY <2>1, <2>3
<1> QED
  BY <1>1 DEF Line

(* At first there is nothing to read, and nobody writes.                   *)
LEMMA RingInit == ASSUME RaceAssumption PROVE M!Init => RingInv
<1> SUFFICES ASSUME M!Init PROVE RingInv
  OBVIOUS
<1> USE DEF RaceAssumption
<1>1. MAXMESSAGE \in Nat /\ MAXMESSAGE >= 2
  OBVIOUS
<1>2. M!Idle \in [at : -1 .. MAXMESSAGE, open : BOOLEAN, letter : Letter]
  BY <1>1 DEF M!Idle, Letter
<1>3. \A w \in M!Writer : out[w] = M!Idle
  BY DEF M!Init
<1>4. WritersRight
  <2>1. out \in [M!Writer -> [at : -1 .. MAXMESSAGE, open : BOOLEAN, letter : Letter]]
    BY <1>2 DEF M!Init
  <2>2. mc_current = 0
    BY DEF M!Init
  <2> QED
    BY <1>1, <1>3, <2>1, <2>2 DEF WritersRight, M!Idle
<1>5. M!Blank \in [valid : BOOLEAN, address : Letter, text : Letter] /\ ~M!Blank.valid
  BY DEF M!Blank, Letter
<1>6. messages = [k \in Place |-> M!Blank]
  BY DEF M!Init, Place
<1>7. PlacesRight
  <2>1. messages \in [Place -> [valid : BOOLEAN, address : Letter, text : Letter]]
    BY <1>5, <1>6
  <2>2. \A k \in Place : ~messages[k].valid
    BY <1>5, <1>6
  <2>3. \A w \in M!Writer : ~out[w].open
    BY <1>3 DEF M!Idle
  <2> QED
    BY <2>1, <2>2, <2>3 DEF PlacesRight
<1>8. ReaderRight
  <2>1. msgCurrent = 1 /\ unread = <<>> /\ clean = TRUE /\ mc_current = 0
    BY DEF M!Init
  <2>2. unread \in Seq(Letter) /\ Len(unread) = 0
    BY <2>1
  <2>3. 1 \in Place /\ 1 + 0 = 1 /\ 0 + 1 = 1
    BY <1>1 DEF Place
  <2>4. Line(out, messages, 1, unread, M!Next1(0))
    BY <2>2, <2>3, <1>1 DEF Line, M!Next1
  <2> QED
    BY <2>1, <2>2, <2>3, <2>4 DEF ReaderRight
<1> QED
  BY <1>4, <1>7, <1>8 DEF RingInv

(* A writer takes the next place, where nobody else writes; nothing else   *)
(* changes but that this place now has his letter.                         *)
LEMMA NumberTaken ==
  ASSUME RaceAssumption, WritersRight, PlacesRight, NEW w \in M!Writer, NEW l \in Letter,
         M!MayWrite(w), M!Number(w, l)
  PROVE  /\ WritersRight' /\ PlacesRight'
         /\ M!Next1(mc_current) \in Place
         /\ M!Next1(mc_current)' = (M!Next1(mc_current) + 1) % MAXMESSAGE
         /\ \A k \in Place : \A e :
              k # M!Next1(mc_current) /\ Has(out, messages, k, e) => Has(out', messages', k, e)
         /\ Has(out', messages', M!Next1(mc_current), l)
<1> USE DEF RaceAssumption
<1> DEFINE c == mc_current + 1
<1>1. /\ out[w] = M!Idle /\ (\A v \in M!Writer : out[v].at < MAXMESSAGE)
      /\ \A v \in M!Writer : out[v].at # M!Next1(mc_current)
  <2>1. out[w] = M!Idle
    BY DEF M!MayWrite, M!Open
  <2>2. \A v \in M!Writer : ~(out[v].at >= MAXMESSAGE)
    BY DEF M!MayWrite, M!Atomic, M!Over
  <2>3. \A v \in M!Writer : out[v].at \in -1 .. MAXMESSAGE
    BY DEF WritersRight
  <2>4. \A v \in M!Writer : out[v].at # M!Next1(mc_current)
    BY DEF M!MayWrite
  <2> QED
    BY <2>1, <2>2, <2>3, <2>4
<1>2. mc_current \in Place
  BY <1>1 DEF WritersRight, Place
<1>3. /\ mc_current' = c /\ c \in 1 .. MAXMESSAGE /\ messages' = messages
      /\ out' = [out EXCEPT ![w] = [at |-> c, open |-> FALSE, letter |-> l]]
  BY <1>2 DEF M!Number, Place
<1>4. c \in Int /\ c % MAXMESSAGE = M!Next1(mc_current) /\ c % MAXMESSAGE \in Place
  BY <1>3, RingIn DEF M!Next1
<1>5. /\ M!Next1(mc_current)' = (c + 1) % MAXMESSAGE
      /\ (c + 1) % MAXMESSAGE = ((c % MAXMESSAGE) + 1) % MAXMESSAGE
  <2>1. M!Next1(mc_current)' = (c + 1) % MAXMESSAGE
    BY <1>3 DEF M!Next1
  <2>2. c \in Place \/ c = MAXMESSAGE
    BY <1>3 DEF Place
  <2> HIDE DEF c
  <2>3. CASE c \in Place
    <3>1. c % MAXMESSAGE = c
      BY <2>3, RingIn
    <3> QED
      BY <3>1, <2>1
  <2>4. CASE c = MAXMESSAGE
    <3>1. MAXMESSAGE \in Nat \ {0}
      OBVIOUS
    <3>2. (MAXMESSAGE + 1) % MAXMESSAGE = 1 % MAXMESSAGE
      <4>1. (MAXMESSAGE + 1) % MAXMESSAGE = 1
        OBVIOUS
      <4>2. 1 % MAXMESSAGE = 1
        OBVIOUS
      <4> QED
        BY <4>1, <4>2
    <3>3. MAXMESSAGE % MAXMESSAGE = 0
      BY RingIn
    <3>4. (c % MAXMESSAGE) + 1 = 1
      BY <2>4, <3>3
    <3>5. ((c % MAXMESSAGE) + 1) % MAXMESSAGE = 1 % MAXMESSAGE
      BY <3>4
    <3>6. (c + 1) % MAXMESSAGE = (MAXMESSAGE + 1) % MAXMESSAGE
      BY <2>4
    <3> QED
      BY <3>2, <3>5, <3>6, <2>1
  <2> QED
    BY <2>1, <2>2, <2>3, <2>4
<1> HIDE DEF c
<1>6. /\ out'[w] = [at |-> c, open |-> FALSE, letter |-> l]
      /\ \A v \in M!Writer : v # w => out'[v] = out[v]
      /\ out' \in [M!Writer -> [at : -1 .. MAXMESSAGE, open : BOOLEAN, letter : Letter]]
  <2>1. [at |-> c, open |-> FALSE, letter |-> l]
          \in [at : -1 .. MAXMESSAGE, open : BOOLEAN, letter : Letter]
    BY <1>3
  <2>2. out \in [M!Writer -> [at : -1 .. MAXMESSAGE, open : BOOLEAN, letter : Letter]]
    BY DEF WritersRight
  <2> QED
    BY <1>3, <2>1, <2>2
<1>7. out'[w].at = c /\ out'[w].open = FALSE /\ out'[w].letter = l /\ c >= 0 /\ c # -1
  BY <1>3, <1>6
<1>8. \A v \in M!Writer : v # w /\ out[v].at >= 0 => /\ out[v].at % MAXMESSAGE = out[v].at
                                                     /\ out[v].at # c % MAXMESSAGE
  <2>1. \A v \in M!Writer : out[v].at >= 0 => out[v].at \in Place
    BY <1>1 DEF WritersRight, Place
  <2> QED
    BY <2>1, <1>1, <1>4, RingIn
<1>9. WritersRight'
  <2>1. /\ mc_current' \in 0 .. MAXMESSAGE
        /\ \A v \in M!Writer : /\ out'[v].at = -1 => out'[v] = M!Idle
                               /\ out'[v].open => out'[v].at \in Place
                               /\ out'[v].at = MAXMESSAGE => mc_current' = MAXMESSAGE
    BY <1>1, <1>3, <1>6, <1>7 DEF WritersRight
  <2>2. mc_current' = MAXMESSAGE => out'[w].at = MAXMESSAGE
    BY <1>3, <1>7
  <2>3. ASSUME NEW u \in M!Writer, NEW v \in M!Writer, u # v, out'[u].at >= 0, out'[v].at >= 0
        PROVE  out'[u].at % MAXMESSAGE # out'[v].at % MAXMESSAGE
    <3>1. CASE u = w
      BY <2>3, <3>1, <1>6, <1>7, <1>8
    <3>2. CASE v = w
      BY <2>3, <3>2, <1>6, <1>7, <1>8
    <3>3. CASE u # w /\ v # w
      BY <2>3, <3>3, <1>6 DEF WritersRight
    <3> QED
      BY <3>1, <3>2, <3>3
  <2> QED
    BY <1>6, <2>1, <2>2, <2>3 DEF WritersRight
<1>10. PlacesRight'
  BY <1>3, <1>6, <1>7 DEF PlacesRight
<1>11. ASSUME NEW k \in Place, NEW e, k # c % MAXMESSAGE, Has(out, messages, k, e)
       PROVE  Has(out', messages', k, e)
  <2>1. ~At(out', w, k) /\ ~At(out, w, k)
    BY <1>1, <1>7, <1>11 DEF At, M!Idle
  <2>2. \A v \in M!Writer : v # w => (At(out', v, k) <=> At(out, v, k))
    BY <1>6 DEF At
  <2> QED
    BY <2>1, <2>2, <1>3, <1>6, <1>11 DEF Has
<1>12. Has(out', messages', c % MAXMESSAGE, l)
  BY <1>7 DEF Has, At
<1> QED
  BY <1>4, <1>5, <1>9, <1>10, <1>11, <1>12

(* While the letters stay at their places, and the place that is written   *)
(* next stays, what is unread stays.                                       *)
LEMMA ReaderStays ==
  ASSUME RaceAssumption, ReaderRight, UNCHANGED <<msgCurrent, unread, clean>>,
         M!Next1(mc_current)' = M!Next1(mc_current),
         \A k \in Place : \A e : Has(out, messages, k, e) => Has(out', messages', k, e)
  PROVE  ReaderRight'
<1>1. CASE clean
  <2>1. Line(out, messages, msgCurrent, unread, M!Next1(mc_current))
    BY <1>1 DEF ReaderRight
  <2>2. msgCurrent \in Place /\ unread \in Seq(Letter)
    BY DEF ReaderRight
  <2>3. Line(out', messages', msgCurrent, unread, M!Next1(mc_current))
    BY <2>1, <2>2, LineStays
  <2> QED
    BY <2>3 DEF ReaderRight
<1>2. CASE ~clean
  BY <1>2 DEF ReaderRight
<1> QED
  BY <1>1, <1>2

(* The index is set back: the writer is at the same place of the ring.     *)
LEMMA BackKeeps ==
  ASSUME RaceAssumption, RingInv, NEW w \in M!Writer, M!SetBack(w)
  PROVE  RingInv'
<1> USE DEF RaceAssumption
<1>1. /\ out[w].at = MAXMESSAGE /\ mc_current = MAXMESSAGE /\ mc_current' = 0
      /\ out' = [out EXCEPT ![w].at = 0] /\ messages' = messages
  <2>1. /\ out[w].at >= MAXMESSAGE /\ mc_current' = 0 /\ out' = [out EXCEPT ![w].at = 0]
        /\ messages' = messages
    BY DEF M!SetBack, M!Over
  <2>2. out[w].at \in -1 .. MAXMESSAGE
    BY DEF RingInv, WritersRight
  <2>3. out[w].at = MAXMESSAGE
    BY <2>1, <2>2
  <2> QED
    BY <2>1, <2>3 DEF RingInv, WritersRight
<1>2. MAXMESSAGE % MAXMESSAGE = 0 /\ 0 % MAXMESSAGE = 0
  BY RingIn DEF Place
<1>3. out \in [M!Writer -> [at : -1 .. MAXMESSAGE, open : BOOLEAN, letter : Letter]]
  BY DEF RingInv, WritersRight
<1>4. /\ out' \in [M!Writer -> [at : -1 .. MAXMESSAGE, open : BOOLEAN, letter : Letter]]
      /\ out'[w].at = 0 /\ out'[w].letter = out[w].letter /\ out'[w].open = out[w].open
      /\ \A v \in M!Writer : v # w => out'[v] = out[v]
  BY <1>1, <1>3
<1>5. \A v \in M!Writer : v # w => out[v].at # MAXMESSAGE
  BY <1>1 DEF RingInv, WritersRight
<1>6. ~out[w].open /\ 0 \in Place
  BY <1>1 DEF RingInv, WritersRight, Place
<1>7. WritersRight'
  <2>1. /\ mc_current' \in 0 .. MAXMESSAGE /\ mc_current' # MAXMESSAGE
        /\ \A v \in M!Writer : /\ out'[v].at = -1 => out'[v] = M!Idle
                               /\ out'[v].open => out'[v].at \in Place
                               /\ out'[v].at # MAXMESSAGE
    BY <1>1, <1>4, <1>5, <1>6 DEF RingInv, WritersRight
  <2>2. ASSUME NEW u \in M!Writer, NEW v \in M!Writer, u # v, out'[u].at >= 0, out'[v].at >= 0
        PROVE  out'[u].at % MAXMESSAGE # out'[v].at % MAXMESSAGE
    <3>1. /\ out'[u].at % MAXMESSAGE = out[u].at % MAXMESSAGE
          /\ out'[v].at % MAXMESSAGE = out[v].at % MAXMESSAGE
      BY <1>1, <1>2, <1>4
    <3>2. out[u].at >= 0 /\ out[v].at >= 0
      BY <2>2, <1>1, <1>4
    <3> QED
      BY <2>2, <3>1, <3>2 DEF RingInv, WritersRight
  <2> QED
    BY <1>4, <2>1, <2>2 DEF WritersRight
<1>8. PlacesRight'
  BY <1>1, <1>4, <1>6 DEF RingInv, PlacesRight
<1>9. \A v \in M!Writer : \A k : At(out', v, k) <=> At(out, v, k)
  BY <1>1, <1>2, <1>4 DEF At
<1>10. \A k \in Place : \A e : Has(out, messages, k, e) => Has(out', messages', k, e)
  BY <1>1, <1>4, <1>9 DEF Has
<1>11. M!Next1(mc_current)' = M!Next1(mc_current)
  <2>1. (MAXMESSAGE + 1) % MAXMESSAGE = 1
    OBVIOUS
  <2>2. 1 % MAXMESSAGE = 1 /\ 0 + 1 = 1
    OBVIOUS
  <2> QED
    BY <1>1, <2>1, <2>2 DEF M!Next1
<1>12. ReaderRight'
  BY <1>10, <1>11, ReaderStays DEF RingInv, M!SetBack
<1> QED
  BY <1>7, <1>8, <1>12 DEF RingInv

(* The address is written, and the message is not valid.                   *)
LEMMA AddressKeeps ==
  ASSUME RaceAssumption, RingInv, NEW w \in M!Writer, M!Address(w)
  PROVE  RingInv'
<1> USE DEF RaceAssumption
<1>1. /\ out[w].at \in Place /\ out[w].at # -1 /\ mc_current' = mc_current
      /\ out' = [out EXCEPT ![w].open = TRUE]
      /\ messages' = [messages EXCEPT ![out[w].at].valid = FALSE, ![out[w].at].address = out[w].letter]
  <2>1. out[w].at # -1 /\ ~(out[w].at >= MAXMESSAGE) /\ out[w].at \in -1 .. MAXMESSAGE
    BY DEF M!Address, M!Open, M!Over, RingInv, WritersRight
  <2> QED
    BY <2>1 DEF M!Address, M!Addressed, Place
<1>2. /\ out \in [M!Writer -> [at : -1 .. MAXMESSAGE, open : BOOLEAN, letter : Letter]]
      /\ messages \in [Place -> [valid : BOOLEAN, address : Letter, text : Letter]]
  BY DEF RingInv, WritersRight, PlacesRight
<1>3. /\ out' \in [M!Writer -> [at : -1 .. MAXMESSAGE, open : BOOLEAN, letter : Letter]]
      /\ out'[w].at = out[w].at /\ out'[w].letter = out[w].letter
      /\ \A v \in M!Writer : v # w => out'[v] = out[v]
  BY <1>1, <1>2
<1>4. /\ messages' \in [Place -> [valid : BOOLEAN, address : Letter, text : Letter]]
      /\ ~messages'[out[w].at].valid /\ messages'[out[w].at].address = out[w].letter
      /\ \A k \in Place : k # out[w].at => messages'[k] = messages[k]
  BY <1>1, <1>2
<1>5. \A v \in M!Writer : v # w /\ out[v].open => out[v].at \in Place /\ out[v].at # out[w].at
  BY <1>1 DEF RingInv, WritersRight, Place
<1>6. WritersRight'
  <2>1. /\ mc_current' \in 0 .. MAXMESSAGE
        /\ \A v \in M!Writer : /\ out'[v].at = -1 => out'[v] = M!Idle
                               /\ out'[v].open => out'[v].at \in Place
                               /\ out'[v].at = MAXMESSAGE => mc_current' = MAXMESSAGE
        /\ mc_current' = MAXMESSAGE => \E v \in M!Writer : out'[v].at = MAXMESSAGE
    BY <1>1, <1>3 DEF RingInv, WritersRight
  <2>2. \A v \in M!Writer : out'[v].at = out[v].at
    BY <1>3
  <2> QED
    BY <1>3, <2>1, <2>2 DEF RingInv, WritersRight
<1>7. PlacesRight'
  BY <1>1, <1>3, <1>4, <1>5 DEF RingInv, PlacesRight
<1>8. \A v \in M!Writer : \A k : At(out', v, k) <=> At(out, v, k)
  BY <1>3 DEF At
<1>9. At(out, w, out[w].at)
  <2>1. out[w].at % MAXMESSAGE = out[w].at /\ out[w].at >= 0
    BY <1>1, RingIn DEF Place
  <2> QED
    BY <2>1 DEF At
<1>10. ASSUME NEW k \in Place, NEW e, Has(out, messages, k, e)
       PROVE  Has(out', messages', k, e)
  <2>1. CASE \E v \in M!Writer : At(out, v, k) /\ out[v].letter = e
    BY <2>1, <1>3, <1>8 DEF Has
  <2>2. CASE \A v \in M!Writer : ~At(out, v, k)
    BY <2>2, <1>4, <1>8, <1>9, <1>10 DEF Has
  <2> QED
    BY <2>1, <2>2, <1>10 DEF Has
<1>11. ReaderRight'
  <2>1. M!Next1(mc_current)' = M!Next1(mc_current)
    BY <1>1 DEF M!Next1
  <2>2. UNCHANGED <<msgCurrent, unread, clean>>
    BY DEF M!Address
  <2> QED
    BY <2>1, <2>2, <1>10, ReaderStays DEF RingInv
<1> QED
  BY <1>6, <1>7, <1>11 DEF RingInv

(* The text is written; from now on the letter is there.                   *)
LEMMA FillKeeps ==
  ASSUME RaceAssumption, RingInv, NEW w \in M!Writer, M!Fill(w)
  PROVE  RingInv'
<1> USE DEF RaceAssumption
<1>1. /\ out[w].open /\ out[w].at \in Place /\ mc_current' = mc_current
      /\ out' = [out EXCEPT ![w] = M!Idle]
      /\ messages' = [messages EXCEPT ![out[w].at].valid = TRUE, ![out[w].at].text = out[w].letter]
  BY DEF M!Fill, RingInv, WritersRight
<1>2. /\ out \in [M!Writer -> [at : -1 .. MAXMESSAGE, open : BOOLEAN, letter : Letter]]
      /\ messages \in [Place -> [valid : BOOLEAN, address : Letter, text : Letter]]
      /\ M!Idle \in [at : -1 .. MAXMESSAGE, open : BOOLEAN, letter : Letter]
  BY DEF RingInv, WritersRight, PlacesRight, M!Idle, Letter
<1>3. /\ out' \in [M!Writer -> [at : -1 .. MAXMESSAGE, open : BOOLEAN, letter : Letter]]
      /\ out'[w] = M!Idle /\ out'[w].at = -1 /\ ~out'[w].open
      /\ \A v \in M!Writer : v # w => out'[v] = out[v]
  BY <1>1, <1>2 DEF M!Idle
<1>4. /\ messages' \in [Place -> [valid : BOOLEAN, address : Letter, text : Letter]]
      /\ messages'[out[w].at].valid /\ messages'[out[w].at].address = out[w].letter
      /\ messages'[out[w].at].text = out[w].letter
      /\ \A k \in Place : k # out[w].at => messages'[k] = messages[k]
  BY <1>1, <1>2 DEF RingInv, PlacesRight
<1>5. out[w].at # MAXMESSAGE /\ out[w].at >= 0 /\ out[w].at % MAXMESSAGE = out[w].at
  BY <1>1, RingIn DEF Place
<1>6. WritersRight'
  <2>1. /\ mc_current' \in 0 .. MAXMESSAGE
        /\ \A v \in M!Writer : /\ out'[v].at = -1 => out'[v] = M!Idle
                               /\ out'[v].open => out'[v].at \in Place
                               /\ out'[v].at = MAXMESSAGE => mc_current' = MAXMESSAGE
    BY <1>1, <1>3 DEF RingInv, WritersRight
  <2>2. mc_current' = MAXMESSAGE => \E v \in M!Writer : out'[v].at = MAXMESSAGE
    BY <1>1, <1>3, <1>5 DEF RingInv, WritersRight
  <2>3. \A v \in M!Writer : out'[v].at >= 0 => v # w /\ out'[v].at = out[v].at
    BY <1>3
  <2> QED
    BY <1>3, <2>1, <2>2, <2>3 DEF RingInv, WritersRight
<1>7. \A v \in M!Writer : v # w => ~At(out, v, out[w].at)
  BY <1>5 DEF At, RingInv, WritersRight
<1>8. PlacesRight'
  <2>1. \A v \in M!Writer : out'[v].open => v # w /\ out[v].open /\ out'[v] = out[v]
    BY <1>3
  <2>2. \A v \in M!Writer : v # w /\ out[v].open => out[v].at \in Place /\ out[v].at # out[w].at
    BY <1>1, <1>5 DEF RingInv, WritersRight, Place
  <2> QED
    BY <1>4, <2>1, <2>2 DEF RingInv, PlacesRight
<1>9. \A v \in M!Writer : \A k : v # w => (At(out', v, k) <=> At(out, v, k))
  BY <1>3 DEF At
<1>10. \A k : ~At(out', w, k) /\ (At(out, w, k) => k = out[w].at)
  BY <1>3, <1>5 DEF At
<1>11. ASSUME NEW k \in Place, NEW e, Has(out, messages, k, e)
       PROVE  Has(out', messages', k, e)
  <2>1. CASE k = out[w].at
    <3>1. e = out[w].letter
      BY <2>1, <1>5, <1>7, <1>11 DEF Has, At
    <3>2. \A v \in M!Writer : ~At(out', v, k)
      BY <2>1, <1>7, <1>9, <1>10
    <3> QED
      BY <2>1, <3>1, <3>2, <1>4 DEF Has
  <2>2. CASE k # out[w].at
    <3>1. \A v \in M!Writer : At(out', v, k) <=> At(out, v, k)
      BY <2>2, <1>9, <1>10
    <3>2. \A v \in M!Writer : At(out, v, k) => out'[v].letter = out[v].letter
      BY <2>2, <1>3, <1>10
    <3> QED
      BY <2>2, <3>1, <3>2, <1>4, <1>11 DEF Has
  <2> QED
    BY <2>1, <2>2
<1>12. ReaderRight'
  <2>1. M!Next1(mc_current)' = M!Next1(mc_current)
    BY <1>1 DEF M!Next1
  <2>2. UNCHANGED <<msgCurrent, unread, clean>>
    BY DEF M!Fill
  <2> QED
    BY <2>1, <2>2, <1>11, ReaderStays DEF RingInv
<1> QED
  BY <1>6, <1>8, <1>12 DEF RingInv

(* What Me or the other says is put behind what is unread.                 *)
LEMMA BeginKeeps ==
  ASSUME RaceAssumption, RingInv, NEW w \in M!Writer, NEW l \in Letter, M!Begin(w, l),
         msgCurrent' = msgCurrent
  PROVE  RingInv'
<1> DEFINE c == M!Next1(mc_current)
<1>1. M!MayWrite(w) /\ M!Number(w, l)
  BY DEF M!Begin
<1>2. /\ WritersRight' /\ PlacesRight' /\ c \in Place
      /\ M!Next1(mc_current)' = (c + 1) % MAXMESSAGE
      /\ \A k \in Place : \A e : k # c /\ Has(out, messages, k, e) => Has(out', messages', k, e)
      /\ Has(out', messages', c, l)
  BY <1>1, NumberTaken DEF RingInv
<1>3. /\ clean' = (clean /\ Len(unread) + 1 < MAXMESSAGE)
      /\ unread' = IF clean' THEN Append(unread, l) ELSE <<>>
      /\ msgCurrent \in Place /\ unread \in Seq(Letter) /\ clean \in BOOLEAN
  BY DEF M!Begin, RingInv, ReaderRight
<1>4. CASE clean'
  <2>1. Line(out, messages, msgCurrent, unread, c) /\ Len(unread) + 1 < MAXMESSAGE
    BY <1>3, <1>4 DEF RingInv, ReaderRight
  <2> HIDE DEF c
  <2>2. /\ Append(unread, l) \in Seq(Letter)
        /\ Line(out', messages', msgCurrent, Append(unread, l), (c + 1) % MAXMESSAGE)
    BY <2>1, <1>2, <1>3, LineGrows
  <2>3. unread' = Append(unread, l) /\ clean' \in BOOLEAN
    BY <1>3, <1>4
  <2>4. ReaderRight'
    BY <2>2, <2>3, <1>2, <1>3 DEF ReaderRight
  <2> QED
    BY <2>4, <1>2 DEF RingInv
<1>5. CASE ~clean'
  <2>1. unread' = <<>> /\ <<>> \in Seq(Letter) /\ clean' \in BOOLEAN
    BY <1>3, <1>5
  <2> QED
    BY <2>1, <1>2, <1>3, <1>5 DEF RingInv, ReaderRight
<1> QED
  BY <1>4, <1>5

(* Where something is to be read, something is unread; the first of it is  *)
(* at the place that is read next.                                         *)
LEMMA FirstUnread ==
  ASSUME RaceAssumption, RingInv, clean, M!Behind
  PROVE  /\ Len(unread) > 0 /\ unread # <<>>
         /\ Line(out, messages, msgCurrent, unread, M!Next1(mc_current))
         /\ Has(out, messages, msgCurrent, Head(unread))
<1>1. /\ Line(out, messages, msgCurrent, unread, M!Next1(mc_current))
      /\ msgCurrent \in Place /\ unread \in Seq(Letter)
  BY DEF RingInv, ReaderRight
<1>2. msgCurrent % MAXMESSAGE = msgCurrent /\ msgCurrent + 0 = msgCurrent
  BY <1>1, RingIn DEF Place
<1>3. Len(unread) # 0
  BY <1>1, <1>2 DEF Line, M!Behind
<1>4. Len(unread) \in Nat
  BY <1>1
<1>5. Len(unread) > 0
  BY <1>3, <1>4
<1>6. unread # <<>> /\ Head(unread) = unread[1]
  BY <1>1, <1>5
<1>7. (msgCurrent + (1 - 1)) % MAXMESSAGE = msgCurrent
  <2>1. 1 - 1 = 0
    OBVIOUS
  <2> QED
    BY <2>1, <1>2
<1>8. 1 \in 1 .. Len(unread)
  BY <1>4, <1>5
<1>9. Has(out, messages, (msgCurrent + (1 - 1)) % MAXMESSAGE, unread[1])
  BY <1>1, <1>8 DEF Line
<1> QED
  BY <1>1, <1>5, <1>6, <1>7, <1>9

(* The next of the ring is read; if it is answered, the answer is put      *)
(* behind what is unread.                                                  *)
LEMMA ReadKeeps ==
  ASSUME RaceAssumption, RingInv, M!ReadOne
  PROVE  RingInv'
<1> DEFINE rest == IF unread = <<>> THEN <<>> ELSE Tail(unread)
           next == (msgCurrent + 1) % MAXMESSAGE
<1>1. M!Behind /\ M!Next1(msgCurrent) = next
  BY DEF M!ReadOne, M!Reads, M!Next1
<1>2. msgCurrent \in Place /\ unread \in Seq(Letter) /\ clean \in BOOLEAN
  BY DEF RingInv, ReaderRight
<1>3. next \in Place
  <2>1. msgCurrent + 1 \in Int
    BY <1>2 DEF Place
  <2> QED
    BY <2>1, RingIn
<1>4. rest \in Seq(Letter)
  <2>1. CASE unread = <<>>
    BY <2>1
  <2>2. CASE unread # <<>>
    <3>1. Len(unread) > 0
      BY <2>2, <1>2
    <3> QED
      BY <3>1, <2>2, <1>2, QueueShrinks
  <2> QED
    BY <2>1, <2>2
<1>5. ASSUME clean
      PROVE  /\ Line(out, messages, next, rest, M!Next1(mc_current))
             /\ Len(rest) + 1 < MAXMESSAGE /\ Len(rest) \in Nat
  <2>1. /\ Len(unread) > 0 /\ unread # <<>>
        /\ Line(out, messages, msgCurrent, unread, M!Next1(mc_current))
    BY <1>1, <1>5, FirstUnread
  <2>2. /\ Len(Tail(unread)) = Len(unread) - 1
        /\ Line(out, messages, next, Tail(unread), M!Next1(mc_current))
    BY <1>2, <2>1, LinePasses
  <2>3. Len(unread) < MAXMESSAGE /\ Len(unread) \in Nat
    BY <1>2, <2>1 DEF Line
  <2>4. Len(Tail(unread)) + 1 < MAXMESSAGE /\ Len(Tail(unread)) \in Nat
    BY <2>1, <2>2, <2>3 DEF RaceAssumption
  <2> QED
    BY <2>1, <2>2, <2>4
<1>6. CASE M!Give(messages[msgCurrent])
  <2>1. /\ msgCurrent' = next /\ unread' = rest /\ clean' \in BOOLEAN /\ (clean' => clean)
        /\ UNCHANGED <<mc_current, messages, out>>
    BY <1>1, <1>2, <1>6 DEF M!Give, M!Passed
  <2>2. WritersRight' /\ PlacesRight'
    BY <2>1 DEF RingInv, WritersRight, PlacesRight
  <2>3. M!Next1(mc_current)' = M!Next1(mc_current)
    BY <2>1 DEF M!Next1
  <2> HIDE DEF rest, next
  <2>4. ReaderRight'
    BY <2>1, <2>3, <1>3, <1>4, <1>5 DEF ReaderRight
  <2> QED
    BY <2>2, <2>4 DEF RingInv
<1>7. CASE M!Bounce(messages[msgCurrent])
  <2> DEFINE l == [from |-> M!GOD, group |-> "MINDIV",
                   mine |-> messages[msgCurrent].address.from = "Me"]
             c == M!Next1(mc_current)
  <2>1. /\ M!MayWrite("Me") /\ M!Number("Me", l)
        /\ msgCurrent' = next /\ unread' = Append(rest, l)
        /\ clean' = (clean /\ ~M!TooEarly)
    BY <1>1, <1>7 DEF M!Bounce
  <2>2. "Me" \in M!Writer
    BY DEF M!Writer
  <2>3. l \in Letter
    BY DEF Letter
  <2> HIDE DEF l
  <2>4. /\ WritersRight' /\ PlacesRight' /\ c \in Place
        /\ M!Next1(mc_current)' = (c + 1) % MAXMESSAGE
        /\ \A k \in Place : \A e : k # c /\ Has(out, messages, k, e) => Has(out', messages', k, e)
        /\ Has(out', messages', c, l)
    BY <2>1, <2>2, <2>3, NumberTaken DEF RingInv
  <2>5. Append(rest, l) \in Seq(Letter)
    BY <1>4, <2>3, QueueGrows
  <2>6. clean' \in BOOLEAN /\ (clean' => clean)
    BY <2>1, <1>2
  <2> HIDE DEF rest, next, c
  <2>7. ASSUME clean
        PROVE  Line(out', messages', next, Append(rest, l), (c + 1) % MAXMESSAGE)
    BY <2>7, <1>3, <1>4, <1>5, <2>3, <2>4, LineGrows DEF c
  <2>8. ReaderRight'
    BY <2>1, <2>4, <2>5, <2>6, <2>7, <1>3 DEF ReaderRight
  <2> QED
    BY <2>4, <2>8 DEF RingInv
<1> QED
  BY <1>6, <1>7 DEF M!ReadOne

(* Every step keeps the ring and what is unread of it.                     *)
LEMMA RingStep ==
  ASSUME RaceAssumption, RingInv, [M!Next]_(M!vars)
  PROVE  RingInv'
<1>1. ASSUME NEW w \in M!Writer, M!SetBack(w) \/ M!Address(w) \/ M!Fill(w)
      PROVE  RingInv'
  BY <1>1, BackKeeps, AddressKeeps, FillKeeps
<1>2. CASE M!handleMessageReq
  <2>1. PICK l \in MySays : M!Begin("Me", l)
    BY <1>2 DEF M!handleMessageReq
  <2>2. l \in Letter /\ "Me" \in M!Writer
    BY DEF Letter, M!Writer
  <2>3. msgCurrent' = msgCurrent
    BY <1>2 DEF M!handleMessageReq
  <2> QED
    BY <2>1, <2>2, <2>3, BeginKeeps
<1>3. CASE M!OtherSays
  <2>1. PICK l \in OthersSay : M!Begin("Other", l)
    BY <1>3 DEF M!OtherSays
  <2>2. l \in Letter /\ "Other" \in M!Writer
    BY DEF Letter, M!Writer
  <2>3. msgCurrent' = msgCurrent
    BY <1>3 DEF M!OtherSays
  <2> QED
    BY <2>1, <2>2, <2>3, BeginKeeps
<1>4. ASSUME UNCHANGED <<mc_current, messages, out, msgCurrent, unread, clean>>
      PROVE  RingInv'
  BY <1>4 DEF RingInv, WritersRight, PlacesRight, ReaderRight, M!Next1
<1>5. CASE M!parseIgnore \/ M!Update \/ M!Done \/ UNCHANGED M!vars
  BY <1>4, <1>5 DEF M!parseIgnore, M!Update, M!Done, M!vars
<1>6. CASE M!Reconnect
  <2> DEFINE c == M!Next1(mc_current)
  <2>1. /\ UNCHANGED <<mc_current, messages, out>>
        /\ msgCurrent' = c /\ unread' = <<>> /\ clean' = TRUE
    BY <1>6 DEF M!Reconnect
  <2>2. c \in Place
    <3>1. mc_current + 1 \in Int
      BY DEF RingInv, WritersRight
    <3> QED
      BY <3>1, RingIn DEF M!Next1
  <2>3. <<>> \in Seq(Letter) /\ Len(<<>>) = 0
    OBVIOUS
  <2>4. c + 0 = c /\ c % MAXMESSAGE = c
    BY <2>2, RingIn DEF Place
  <2>5. M!Next1(mc_current)' = c
    BY <2>1 DEF M!Next1
  <2> HIDE DEF c
  <2>6. Line(out, messages, c, <<>>, c)
    BY <2>3, <2>4 DEF Line, RaceAssumption
  <2>7. ReaderRight'
    BY <2>1, <2>2, <2>3, <2>5, <2>6 DEF ReaderRight
  <2> QED
    BY <2>1, <2>7 DEF RingInv, WritersRight, PlacesRight
<1>7. CASE M!ReadOne
  BY <1>7, ReadKeeps
<1> QED
  BY <1>1, <1>2, <1>3, <1>5, <1>6, <1>7 DEF M!Next

(* With the ring as it should be, the client is given its letters, and     *)
(* only those.                                                             *)
LEMMA RingRight ==
  ASSUME RaceAssumption, RingInv
  PROVE  M!Discreet /\ M!Delivered
<1>1. M!Discreet
  <2>1. msgCurrent \in Place
    BY DEF RingInv, ReaderRight
  <2> QED
    BY <2>1 DEF RingInv, PlacesRight, M!Discreet, M!Packet
<1>2. M!Delivered
  <2> SUFFICES ASSUME M!Reads, clean, ~M!TooEarly
               PROVE  LET l == Head(unread)
                      IN  M!Packet(messages[msgCurrent])
                            = IF M!Mine(l) /\ ~M!Ignored(l) THEN l ELSE M!NoLetter
    BY DEF M!Delivered
  <2>1. Has(out, messages, msgCurrent, Head(unread))
    BY FirstUnread DEF M!Reads
  <2>2. ASSUME NEW w \in M!Writer
        PROVE  ~At(out, w, msgCurrent)
    <3>1. ~(out[w].at >= MAXMESSAGE)
      BY DEF M!Reads, M!Atomic, M!Over, RaceAssumption
    <3>2. out[w].at \in -1 .. MAXMESSAGE
      BY DEF RingInv, WritersRight
    <3>3. out[w].at >= 0 => out[w].at % MAXMESSAGE = out[w].at
      BY <3>1, <3>2, RingIn DEF Place, RaceAssumption
    <3>4. out[w].at # msgCurrent
      BY DEF M!TooEarly
    <3> QED
      BY <3>3, <3>4 DEF At
  <2>3. /\ messages[msgCurrent].valid /\ messages[msgCurrent].address = Head(unread)
        /\ messages[msgCurrent].text = Head(unread)
    BY <2>1, <2>2 DEF Has
  <2> QED
    BY <2>3 DEF M!Packet
<1> QED
  BY <1>1, <1>2

(* The machine of this run is the messages' from the start to the end.     *)
LEMMA LetterNext ==
  machine = "Messages" /\ [Next]_vars => machine' = "Messages" /\ [M!Next]_(M!vars)
BY DEF Next, vars, Ends, ring, M!vars

(* The client is given no letter that is not for it, and those that are    *)
(* for it and not ignored in the order in which they were numbered, each   *)
(* once, as long as fewer than MAXMESSAGE come between two updates and     *)
(* none is read while it is being written (smessage.c, updateMessages() of *)
(* socket.c); and warnings are shown in the order in which they were given *)
(* (warning.c): for rings of any size, if no writer is overtaken on his    *)
(* way to his place.                                                       *)
THEOREM LettersAreRight ==
  ASSUME RaceAssumption, RingAssumption
  PROVE  Spec => []LettersRight
<1> DEFINE Inv == /\ machine = "Messages" => RingInv
                  /\ machine = "Warnings" => WarnInv
<1>1. Init => Inv
  BY RingInit, WarnInit DEF Init
<1>2. Inv /\ [Next]_vars => Inv'
  <2>1. [Next]_vars => machine' = machine
    BY DEF Next, vars, Ends
  <2>2. machine = "Messages" /\ RingInv /\ [Next]_vars => RingInv'
    BY LetterNext, RingStep
  <2>3. machine = "Warnings" /\ WarnInv /\ [Next]_vars => WarnInv'
    BY WarnNext, WarnStep
  <2> QED
    BY <2>1, <2>2, <2>3
<1>3. Inv => LettersRight
  BY RingRight DEF LettersRight, WarnInv, B!InOrder
<1> QED
  BY <1>1, <1>2, <1>3, PTL DEF Spec

-----------------------------------------------------------------------------
(* The lists of fat UDP.  Node n is in place w[n]: list l, temporary list  *)
(* l as MAX_FAT_LIST + l, or none; r[n] is its rank, which rises from the  *)
(* head of a list to its tail and from a list to what is put behind it,    *)
(* and c is above all ranks.                                               *)
FatAssumption ==
  /\ IsFiniteSet(Node) /\ NULL \notin Node
  /\ MAX_FAT_LIST \in Nat \ {0} /\ Room \in Nat

Nodes == Node \cup {NULL}

(* The types of the links.                                                 *)
Linkages ==
  [prev : [Node -> Nodes], next : [Node -> Nodes],
   fhead : [F!Lists -> Nodes], ftail : [F!Lists -> Nodes],
   thead : [F!Lists -> Nodes], ttail : [F!Lists -> Nodes]]

(* Places and ranks.                                                       *)
Ranked(w, r, c) ==
  /\ w \in [Node -> -1 .. 2 * MAX_FAT_LIST - 1]
  /\ r \in [Node -> Nat] /\ c \in Nat
  /\ \A n \in Node : r[n] < c
  /\ \A n, m \in Node : n # m /\ w[n] # -1 /\ w[m] # -1 => r[n] # r[m]
  /\ \A n, m \in Node : w[n] \in F!Lists /\ w[m] = w[n] + MAX_FAT_LIST => r[n] < r[m]

(* prev leads to the next rank of the same list, next to the one before.   *)
PrevRight(prev, w, r) ==
  \A n \in Node :
    /\ prev[n] = NULL \/ (w[prev[n]] = w[n] /\ w[n] # -1 /\ r[n] < r[prev[n]])
    /\ \A m \in Node : w[m] = w[n] /\ w[n] # -1 /\ r[n] < r[m] => prev[n] # NULL /\ r[prev[n]] <= r[m]

NextRight(next, w, r) ==
  \A n \in Node :
    /\ next[n] = NULL \/ (w[next[n]] = w[n] /\ w[n] # -1 /\ r[next[n]] < r[n])
    /\ \A m \in Node : w[m] = w[n] /\ w[n] # -1 /\ r[m] < r[n] => next[n] # NULL /\ r[m] <= r[next[n]]

(* The head of a list has its least rank, the tail its greatest; k is 0    *)
(* for the lists and MAX_FAT_LIST for the temporary ones.                  *)
HeadsRight(head, w, r, k) ==
  \A l \in F!Lists :
    /\ head[l] = NULL \/ w[head[l]] = l + k
    /\ \A m \in Node : w[m] = l + k => head[l] # NULL /\ r[head[l]] <= r[m]

TailsRight(tail, w, r, k) ==
  \A l \in F!Lists :
    /\ tail[l] = NULL \/ w[tail[l]] = l + k
    /\ \A m \in Node : w[m] = l + k => tail[l] # NULL /\ r[m] <= r[tail[l]]

Drawn(Ls, w, r, c) ==
  /\ Ls \in Linkages
  /\ Ranked(w, r, c)
  /\ PrevRight(Ls.prev, w, r) /\ NextRight(Ls.next, w, r)
  /\ HeadsRight(Ls.fhead, w, r, 0) /\ TailsRight(Ls.ftail, w, r, 0)
  /\ HeadsRight(Ls.thead, w, r, MAX_FAT_LIST) /\ TailsRight(Ls.ttail, w, r, MAX_FAT_LIST)

(* What a write to one pointer leaves alone.                               *)
LEMMA PrevWritten ==
  ASSUME NEW Ls \in Linkages, NEW n \in Node, NEW v \in Nodes
  PROVE  LET Ks == [Ls EXCEPT !.prev[n] = v] IN
         /\ Ks \in Linkages /\ Ks.prev = [Ls.prev EXCEPT ![n] = v] /\ Ks.next = Ls.next
         /\ Ks.fhead = Ls.fhead /\ Ks.ftail = Ls.ftail /\ Ks.thead = Ls.thead /\ Ks.ttail = Ls.ttail
BY DEF Linkages

LEMMA NextWritten ==
  ASSUME NEW Ls \in Linkages, NEW n \in Node, NEW v \in Nodes
  PROVE  LET Ks == [Ls EXCEPT !.next[n] = v] IN
         /\ Ks \in Linkages /\ Ks.next = [Ls.next EXCEPT ![n] = v] /\ Ks.prev = Ls.prev
         /\ Ks.fhead = Ls.fhead /\ Ks.ftail = Ls.ftail /\ Ks.thead = Ls.thead /\ Ks.ttail = Ls.ttail
BY DEF Linkages

LEMMA HeadWritten ==
  ASSUME NEW Ls \in Linkages, NEW l \in F!Lists, NEW v \in Nodes
  PROVE  LET Ks == [Ls EXCEPT !.fhead[l] = v] IN
         /\ Ks \in Linkages /\ Ks.fhead = [Ls.fhead EXCEPT ![l] = v] /\ Ks.prev = Ls.prev
         /\ Ks.next = Ls.next /\ Ks.ftail = Ls.ftail /\ Ks.thead = Ls.thead /\ Ks.ttail = Ls.ttail
BY DEF Linkages

LEMMA TailWritten ==
  ASSUME NEW Ls \in Linkages, NEW l \in F!Lists, NEW v \in Nodes
  PROVE  LET Ks == [Ls EXCEPT !.ftail[l] = v] IN
         /\ Ks \in Linkages /\ Ks.ftail = [Ls.ftail EXCEPT ![l] = v] /\ Ks.prev = Ls.prev
         /\ Ks.next = Ls.next /\ Ks.fhead = Ls.fhead /\ Ks.thead = Ls.thead /\ Ks.ttail = Ls.ttail
BY DEF Linkages

LEMMA NewHeadWritten ==
  ASSUME NEW Ls \in Linkages, NEW l \in F!Lists, NEW v \in Nodes
  PROVE  LET Ks == [Ls EXCEPT !.thead[l] = v] IN
         /\ Ks \in Linkages /\ Ks.thead = [Ls.thead EXCEPT ![l] = v] /\ Ks.prev = Ls.prev
         /\ Ks.next = Ls.next /\ Ks.fhead = Ls.fhead /\ Ks.ftail = Ls.ftail /\ Ks.ttail = Ls.ttail
BY DEF Linkages

LEMMA NewTailWritten ==
  ASSUME NEW Ls \in Linkages, NEW l \in F!Lists, NEW v \in Nodes
  PROVE  LET Ks == [Ls EXCEPT !.ttail[l] = v] IN
         /\ Ks \in Linkages /\ Ks.ttail = [Ls.ttail EXCEPT ![l] = v] /\ Ks.prev = Ls.prev
         /\ Ks.next = Ls.next /\ Ks.fhead = Ls.fhead /\ Ks.ftail = Ls.ftail /\ Ks.thead = Ls.thead
BY DEF Linkages

(* n leaves its list: p moves up to q.                                     *)
LEMMA OffHeadIs ==
  ASSUME FatAssumption, NEW Ls, NEW w, NEW r, NEW c, Drawn(Ls, w, r, c), NEW n \in Node, w[n] < MAX_FAT_LIST
  PROVE  LET Ks == F!OffHead(Ls, n) IN
         /\ Ks \in Linkages
         /\ Ks.prev = Ls.prev /\ Ks.ftail = Ls.ftail /\ Ks.thead = Ls.thead /\ Ks.ttail = Ls.ttail
         /\ \A m \in Node : Ks.next[m] = IF m = Ls.prev[n] THEN Ls.next[n] ELSE Ls.next[m]
         /\ \A l \in F!Lists : Ks.fhead[l] = IF Ls.fhead[l] = n THEN Ls.prev[n] ELSE Ls.fhead[l]
<1> DEFINE heads == {l \in F!Lists : Ls.fhead[l] = n}
           p == Ls.prev[n]
           q == Ls.next[n]
<1>1. Ls \in Linkages /\ p \in Nodes /\ q \in Nodes /\ p # n
  BY DEF Drawn, Linkages, PrevRight, Ranked, FatAssumption, Nodes
<1>2. \A l \in heads : l = w[n]
  BY <1>1 DEF Drawn, HeadsRight, FatAssumption, F!Lists
<1>3. q # NULL => heads = {}
  BY <1>1, <1>2 DEF Drawn, HeadsRight, NextRight, FatAssumption, F!Lists, Nodes, Ranked, Linkages
<1>4. q = NULL /\ heads = {} => p = NULL
  BY <1>1, <1>2 DEF Drawn, HeadsRight, NextRight, PrevRight, FatAssumption, F!Lists, Nodes, Ranked, Linkages
<1>5. F!OffHead(Ls, n) = CASE q # NULL -> (IF p = NULL THEN Ls ELSE [Ls EXCEPT !.next[p] = q])
                          [] q = NULL /\ heads = {} -> Ls
                          [] OTHER -> [Ls EXCEPT !.fhead[F!Least(heads)] = p,
                                                !.next = IF p = NULL THEN @ ELSE [@ EXCEPT ![p] = NULL]]
  BY DEF F!OffHead
<1>6. CASE q # NULL
  <2>1. F!OffHead(Ls, n) = IF p = NULL THEN Ls ELSE [Ls EXCEPT !.next[p] = q]
    BY <1>5, <1>6
  <2>2. p # NULL => p \in Node
    BY <1>1 DEF Nodes
  <2>3. CASE p = NULL
    BY <1>1, <1>3, <1>6, <2>1, <2>3 DEF Linkages, FatAssumption
  <2>4. CASE p # NULL
    <3> DEFINE Ks == [Ls EXCEPT !.next[p] = q]
    <3>1. /\ Ks \in Linkages /\ Ks.next = [Ls.next EXCEPT ![p] = q] /\ Ks.prev = Ls.prev
          /\ Ks.fhead = Ls.fhead /\ Ks.ftail = Ls.ftail /\ Ks.thead = Ls.thead /\ Ks.ttail = Ls.ttail
      BY <1>1, <2>2, <2>4, NextWritten
    <3>2. F!OffHead(Ls, n) = Ks
      BY <2>1, <2>4
    <3> HIDE DEF Ks
    <3> QED
      BY <1>1, <1>3, <1>6, <2>2, <2>4, <3>1, <3>2 DEF Linkages
  <2> QED
    BY <2>3, <2>4
<1>7. CASE q = NULL /\ heads = {}
  <2>1. F!OffHead(Ls, n) = Ls
    BY <1>5, <1>7
  <2> QED
    BY <1>1, <1>4, <1>7, <2>1 DEF Linkages, FatAssumption
<1>8. CASE q = NULL /\ heads # {}
  <2>1. heads = {w[n]} /\ w[n] \in F!Lists
    BY <1>2, <1>8
  <2>2. F!Least(heads) = w[n]
    BY <2>1 DEF F!Least, F!Lists, FatAssumption
  <2> DEFINE K1 == [Ls EXCEPT !.fhead[w[n]] = p]
             K2 == IF p = NULL THEN K1 ELSE [K1 EXCEPT !.next[p] = NULL]
  <2>3. F!OffHead(Ls, n) = [Ls EXCEPT !.fhead[F!Least(heads)] = p,
                                    !.next = IF p = NULL THEN @ ELSE [@ EXCEPT ![p] = NULL]]
    BY <1>5, <1>8
  <2>4. F!OffHead(Ls, n) = K2
    <3> HIDE DEF heads, p, q
    <3> QED
    BY <1>1, <2>1, <2>2, <2>3 DEF Linkages
  <2>5. /\ K1 \in Linkages /\ K1.fhead = [Ls.fhead EXCEPT ![w[n]] = p] /\ K1.prev = Ls.prev
        /\ K1.next = Ls.next /\ K1.ftail = Ls.ftail /\ K1.thead = Ls.thead /\ K1.ttail = Ls.ttail
    BY <1>1, <2>1, HeadWritten
  <2> HIDE DEF K1
  <2>6. p # NULL => p \in Node /\ NULL \in Nodes
    BY <1>1 DEF Nodes
  <2>7. /\ K2 \in Linkages /\ K2.prev = K1.prev /\ K2.fhead = K1.fhead
        /\ K2.ftail = K1.ftail /\ K2.thead = K1.thead /\ K2.ttail = K1.ttail
        /\ K2.next = IF p = NULL THEN K1.next ELSE [K1.next EXCEPT ![p] = NULL]
    <3>1. CASE p = NULL
      BY <2>5, <3>1
    <3>2. CASE p # NULL
      BY <2>5, <2>6, <3>2, NextWritten
    <3> QED
      BY <3>1, <3>2
  <2> HIDE DEF K2
  <2>8. \A m \in Node : K2.next[m] = IF m = p THEN q ELSE Ls.next[m]
    BY <1>1, <1>8, <2>5, <2>6, <2>7 DEF Linkages, FatAssumption
  <2>9. \A l \in F!Lists : K2.fhead[l] = IF Ls.fhead[l] = n THEN p ELSE Ls.fhead[l]
    BY <1>1, <2>1, <2>5, <2>7 DEF Linkages
  <2> QED
    BY <2>4, <2>5, <2>7, <2>8, <2>9
<1> QED
  BY <1>6, <1>7, <1>8

(* And q moves down to p.                                                  *)
LEMMA OffTailIs ==
  ASSUME FatAssumption, NEW Ls, NEW w, NEW r, NEW c, Drawn(Ls, w, r, c), NEW n \in Node, w[n] < MAX_FAT_LIST,
         NEW Hs \in Linkages, Hs.prev = Ls.prev, Hs.ftail = Ls.ftail, Hs.next[n] = Ls.next[n]
  PROVE  LET Ks == F!OffTail(Hs, n) IN
         /\ Ks \in Linkages
         /\ Ks.next = Hs.next /\ Ks.fhead = Hs.fhead /\ Ks.thead = Hs.thead /\ Ks.ttail = Hs.ttail
         /\ \A m \in Node : Ks.prev[m] = IF m = Ls.next[n] THEN Ls.prev[n] ELSE Ls.prev[m]
         /\ \A l \in F!Lists : Ks.ftail[l] = IF Ls.ftail[l] = n THEN Ls.next[n] ELSE Ls.ftail[l]
<1> DEFINE tails == {l \in F!Lists : Hs.ftail[l] = n}
           p == Ls.prev[n]
           q == Ls.next[n]
<1>1. Ls \in Linkages /\ p \in Nodes /\ q \in Nodes /\ q # n
  BY DEF Drawn, Linkages, NextRight, Ranked, FatAssumption, Nodes
<1>2. \A l \in tails : l = w[n]
  BY <1>1 DEF Drawn, TailsRight, FatAssumption, F!Lists
<1>3. p # NULL => tails = {}
  BY <1>1, <1>2 DEF Drawn, TailsRight, PrevRight, FatAssumption, F!Lists, Nodes, Ranked, Linkages
<1>4. p = NULL /\ tails = {} => q = NULL
  <2> SUFFICES ASSUME p = NULL, tails = {}, q # NULL PROVE FALSE
    OBVIOUS
  <2>1. w \in [Node -> -1 .. 2 * MAX_FAT_LIST - 1] /\ r \in [Node -> Nat] /\ MAX_FAT_LIST \in Nat \ {0}
    BY DEF Drawn, Ranked, FatAssumption
  <2>2. w[n] \in F!Lists
    BY <1>1, <2>1 DEF Drawn, NextRight, F!Lists
  <2> DEFINE t == Ls.ftail[w[n]]
  <2>3. t # NULL /\ w[t] = w[n] /\ r[n] <= r[t] /\ t \in Node /\ t # n
    BY <1>1, <2>1, <2>2 DEF Drawn, TailsRight, F!Lists, Linkages, Nodes
  <2>4. r[n] < r[t]
    BY <2>1, <2>2, <2>3 DEF Drawn, Ranked, F!Lists
  <2> QED
    BY <2>1, <2>2, <2>3, <2>4 DEF Drawn, PrevRight, F!Lists
<1>5. F!OffTail(Hs, n) = CASE p # NULL -> (IF q = NULL THEN Hs ELSE [Hs EXCEPT !.prev[q] = p])
                          [] p = NULL /\ tails = {} -> Hs
                          [] OTHER -> [Hs EXCEPT !.ftail[F!Least(tails)] = q,
                                                !.prev = IF q = NULL THEN @ ELSE [@ EXCEPT ![q] = NULL]]
  BY DEF F!OffTail
<1>6. CASE p # NULL
  <2>1. F!OffTail(Hs, n) = IF q = NULL THEN Hs ELSE [Hs EXCEPT !.prev[q] = p]
    BY <1>5, <1>6
  <2>2. q # NULL => q \in Node
    BY <1>1 DEF Nodes
  <2>3. CASE q = NULL
    BY <1>1, <1>3, <1>6, <2>1, <2>3 DEF Linkages, FatAssumption
  <2>4. CASE q # NULL
    <3> DEFINE Ks == [Hs EXCEPT !.prev[q] = p]
    <3>1. /\ Ks \in Linkages /\ Ks.prev = [Hs.prev EXCEPT ![q] = p] /\ Ks.next = Hs.next
          /\ Ks.fhead = Hs.fhead /\ Ks.ftail = Hs.ftail /\ Ks.thead = Hs.thead /\ Ks.ttail = Hs.ttail
      BY <1>1, <2>2, <2>4, PrevWritten
    <3>2. F!OffTail(Hs, n) = Ks
      BY <2>1, <2>4
    <3> HIDE DEF Ks
    <3> QED
      BY <1>1, <1>3, <1>6, <2>2, <2>4, <3>1, <3>2 DEF Linkages
  <2> QED
    BY <2>3, <2>4
<1>7. CASE p = NULL /\ tails = {}
  <2>1. F!OffTail(Hs, n) = Hs
    BY <1>5, <1>7
  <2> QED
    BY <1>1, <1>4, <1>7, <2>1 DEF Linkages, FatAssumption
<1>8. CASE p = NULL /\ tails # {}
  <2>1. tails = {w[n]} /\ w[n] \in F!Lists
    BY <1>2, <1>8
  <2>2. F!Least(tails) = w[n]
    BY <2>1 DEF F!Least, F!Lists, FatAssumption
  <2> DEFINE K1 == [Hs EXCEPT !.ftail[w[n]] = q]
             K2 == IF q = NULL THEN K1 ELSE [K1 EXCEPT !.prev[q] = NULL]
  <2>3. F!OffTail(Hs, n) = [Hs EXCEPT !.ftail[F!Least(tails)] = q,
                                    !.prev = IF q = NULL THEN @ ELSE [@ EXCEPT ![q] = NULL]]
    BY <1>5, <1>8
  <2>4. F!OffTail(Hs, n) = K2
    <3> HIDE DEF tails, p, q
    <3> QED
    BY <1>1, <2>1, <2>2, <2>3 DEF Linkages
  <2>5. /\ K1 \in Linkages /\ K1.ftail = [Hs.ftail EXCEPT ![w[n]] = q] /\ K1.prev = Hs.prev
        /\ K1.next = Hs.next /\ K1.fhead = Hs.fhead /\ K1.thead = Hs.thead /\ K1.ttail = Hs.ttail
    BY <1>1, <2>1, TailWritten
  <2> HIDE DEF K1
  <2>6. q # NULL => q \in Node /\ NULL \in Nodes
    BY <1>1 DEF Nodes
  <2>7. /\ K2 \in Linkages /\ K2.next = K1.next /\ K2.fhead = K1.fhead
        /\ K2.ftail = K1.ftail /\ K2.thead = K1.thead /\ K2.ttail = K1.ttail
        /\ K2.prev = IF q = NULL THEN K1.prev ELSE [K1.prev EXCEPT ![q] = NULL]
    <3>1. CASE q = NULL
      BY <2>5, <3>1
    <3>2. CASE q # NULL
      BY <2>5, <2>6, <3>2, PrevWritten
    <3> QED
      BY <3>1, <3>2
  <2> HIDE DEF K2
  <2>8. \A m \in Node : K2.prev[m] = IF m = q THEN p ELSE Ls.prev[m]
    BY <1>1, <1>8, <2>5, <2>6, <2>7 DEF Linkages, FatAssumption
  <2>9. \A l \in F!Lists : K2.ftail[l] = IF Ls.ftail[l] = n THEN q ELSE Ls.ftail[l]
    BY <1>1, <2>1, <2>5, <2>7 DEF Linkages
  <2> QED
    BY <2>4, <2>5, <2>7, <2>8, <2>9
<1> QED
  BY <1>6, <1>7, <1>8

(* What dequeue() leaves.                                                  *)
LEMMA DequeueIs ==
  ASSUME FatAssumption, NEW Ls, NEW w, NEW r, NEW c, Drawn(Ls, w, r, c), NEW n \in Node, w[n] < MAX_FAT_LIST
  PROVE  LET Ks == F!dequeue(Ls, n) IN
         /\ Ks \in Linkages /\ Ks.thead = Ls.thead /\ Ks.ttail = Ls.ttail
         /\ \A m \in Node : Ks.prev[m] = IF m = n THEN NULL ELSE IF m = Ls.next[n] THEN Ls.prev[n] ELSE Ls.prev[m]
         /\ \A m \in Node : Ks.next[m] = IF m = n THEN NULL ELSE IF m = Ls.prev[n] THEN Ls.next[n] ELSE Ls.next[m]
         /\ \A l \in F!Lists : Ks.fhead[l] = IF Ls.fhead[l] = n THEN Ls.prev[n] ELSE Ls.fhead[l]
         /\ \A l \in F!Lists : Ks.ftail[l] = IF Ls.ftail[l] = n THEN Ls.next[n] ELSE Ls.ftail[l]
<1> DEFINE Hs == F!OffHead(Ls, n)
           Ts == F!OffTail(Hs, n)
           T1 == [Ts EXCEPT !.prev[n] = NULL]
           Ks == [T1 EXCEPT !.next[n] = NULL]
<1>1. /\ Hs \in Linkages
      /\ Hs.prev = Ls.prev /\ Hs.ftail = Ls.ftail /\ Hs.thead = Ls.thead /\ Hs.ttail = Ls.ttail
      /\ \A m \in Node : Hs.next[m] = IF m = Ls.prev[n] THEN Ls.next[n] ELSE Ls.next[m]
      /\ \A l \in F!Lists : Hs.fhead[l] = IF Ls.fhead[l] = n THEN Ls.prev[n] ELSE Ls.fhead[l]
  BY OffHeadIs
<1>2. Ls \in Linkages /\ n # Ls.prev[n] /\ n # Ls.next[n] /\ NULL \in Nodes
  BY DEF Drawn, Linkages, NextRight, PrevRight, Ranked, FatAssumption, Nodes
<1> HIDE DEF Hs
<1>3. Hs.next[n] = Ls.next[n]
  BY <1>1, <1>2
<1>4. /\ Ts \in Linkages
      /\ Ts.next = Hs.next /\ Ts.fhead = Hs.fhead /\ Ts.thead = Hs.thead /\ Ts.ttail = Hs.ttail
      /\ \A m \in Node : Ts.prev[m] = IF m = Ls.next[n] THEN Ls.prev[n] ELSE Ls.prev[m]
      /\ \A l \in F!Lists : Ts.ftail[l] = IF Ls.ftail[l] = n THEN Ls.next[n] ELSE Ls.ftail[l]
  BY <1>1, <1>3, OffTailIs
<1> HIDE DEF Ts
<1>5. /\ T1 \in Linkages /\ T1.prev = [Ts.prev EXCEPT ![n] = NULL] /\ T1.next = Ts.next
      /\ T1.fhead = Ts.fhead /\ T1.ftail = Ts.ftail /\ T1.thead = Ts.thead /\ T1.ttail = Ts.ttail
  BY <1>2, <1>4, PrevWritten
<1>6. F!dequeue(Ls, n) = Ks
  <2>1. F!dequeue(Ls, n) = [Ts EXCEPT !.prev[n] = NULL, !.next[n] = NULL]
    BY DEF F!dequeue, Hs, Ts
  <2> QED
    BY <1>4, <2>1 DEF Linkages
<1> HIDE DEF T1
<1>7. /\ Ks \in Linkages /\ Ks.next = [T1.next EXCEPT ![n] = NULL] /\ Ks.prev = T1.prev
      /\ Ks.fhead = T1.fhead /\ Ks.ftail = T1.ftail /\ Ks.thead = T1.thead /\ Ks.ttail = T1.ttail
  BY <1>2, <1>5, NextWritten
<1> HIDE DEF Ks
<1>8. Ts.prev \in [Node -> Nodes] /\ T1.next \in [Node -> Nodes]
  BY <1>4, <1>5 DEF Linkages
<1> QED
  BY <1>1, <1>2, <1>4, <1>5, <1>6, <1>7, <1>8

(* Who comes next of one comes before of the other.                        *)
LEMMA Mutual ==
  ASSUME FatAssumption, NEW Ls, NEW w, NEW r, NEW c, Drawn(Ls, w, r, c), NEW a \in Node, NEW b \in Node
  PROVE  Ls.prev[a] = b <=> Ls.next[b] = a
<1>1. /\ PrevRight(Ls.prev, w, r) /\ NextRight(Ls.next, w, r) /\ Ranked(w, r, c)
      /\ a # NULL /\ b # NULL
      /\ Ls.prev \in [Node -> Nodes] /\ Ls.next \in [Node -> Nodes]
  BY DEF Drawn, FatAssumption, Linkages
<1>2. w \in [Node -> -1 .. 2 * MAX_FAT_LIST - 1] /\ r \in [Node -> Nat]
  BY <1>1 DEF Ranked
<1>3. ASSUME Ls.prev[a] = b PROVE Ls.next[b] = a
  <2>1. w[b] = w[a] /\ w[a] # -1 /\ r[a] < r[b]
    BY <1>1, <1>3 DEF PrevRight
  <2> DEFINE q == Ls.next[b]
  <2>2. q # NULL /\ r[a] <= r[q]
    BY <1>1, <2>1 DEF NextRight
  <2>3. q \in Node /\ w[q] = w[b] /\ r[q] < r[b]
    BY <1>1, <2>2 DEF NextRight, Nodes
  <2>4. ~(r[a] < r[q])
    BY <1>1, <1>2, <1>3, <2>1, <2>3 DEF PrevRight
  <2> QED
    BY <1>1, <1>2, <2>1, <2>2, <2>3, <2>4 DEF Ranked
<1>4. ASSUME Ls.next[b] = a PROVE Ls.prev[a] = b
  <2>1. w[b] = w[a] /\ w[a] # -1 /\ r[a] < r[b]
    BY <1>1, <1>4 DEF NextRight
  <2> DEFINE q == Ls.prev[a]
  <2>2. q # NULL /\ r[q] <= r[b]
    BY <1>1, <2>1 DEF PrevRight
  <2>3. q \in Node /\ w[q] = w[a] /\ r[a] < r[q]
    BY <1>1, <2>2 DEF PrevRight, Nodes
  <2>4. ~(r[q] < r[b])
    BY <1>1, <1>2, <1>4, <2>1, <2>3 DEF NextRight
  <2> QED
    BY <1>1, <1>2, <2>1, <2>2, <2>3, <2>4 DEF Ranked
<1> QED
  BY <1>3, <1>4

(* A packet that leaves its list is in none; the others stay.              *)
LEMMA DequeueDrawn ==
  ASSUME FatAssumption, NEW Ls, NEW w, NEW r, NEW c, Drawn(Ls, w, r, c), NEW n \in Node, w[n] < MAX_FAT_LIST
  PROVE  Drawn(F!dequeue(Ls, n), [w EXCEPT ![n] = -1], r, c)
<1> DEFINE Ks == F!dequeue(Ls, n)
           v == [w EXCEPT ![n] = -1]
           p == Ls.prev[n]
           q == Ls.next[n]
<1>1. /\ Ks \in Linkages /\ Ks.thead = Ls.thead /\ Ks.ttail = Ls.ttail
      /\ \A m \in Node : Ks.prev[m] = IF m = n THEN NULL ELSE IF m = q THEN p ELSE Ls.prev[m]
      /\ \A m \in Node : Ks.next[m] = IF m = n THEN NULL ELSE IF m = p THEN q ELSE Ls.next[m]
      /\ \A l \in F!Lists : Ks.fhead[l] = IF Ls.fhead[l] = n THEN p ELSE Ls.fhead[l]
      /\ \A l \in F!Lists : Ks.ftail[l] = IF Ls.ftail[l] = n THEN q ELSE Ls.ftail[l]
  BY DequeueIs
<1> HIDE DEF Ks
<1>2. /\ Ls \in Linkages /\ Ranked(w, r, c) /\ PrevRight(Ls.prev, w, r) /\ NextRight(Ls.next, w, r)
      /\ HeadsRight(Ls.fhead, w, r, 0) /\ TailsRight(Ls.ftail, w, r, 0)
      /\ HeadsRight(Ls.thead, w, r, MAX_FAT_LIST) /\ TailsRight(Ls.ttail, w, r, MAX_FAT_LIST)
  BY DEF Drawn
<1>3. w \in [Node -> -1 .. 2 * MAX_FAT_LIST - 1] /\ r \in [Node -> Nat] /\ MAX_FAT_LIST \in Nat \ {0}
  BY <1>2 DEF Ranked, FatAssumption
<1>4. v \in [Node -> -1 .. 2 * MAX_FAT_LIST - 1] /\ \A m \in Node : v[m] = IF m = n THEN -1 ELSE w[m]
  BY <1>3
<1> HIDE DEF v
<1>5. Ls.prev \in [Node -> Nodes] /\ Ls.next \in [Node -> Nodes] /\ p \in Nodes /\ q \in Nodes
  BY <1>2 DEF Linkages
<1>6. Ranked(v, r, c)
  BY <1>2, <1>3, <1>4 DEF Ranked, F!Lists
<1>a. /\ \A m \in Node : (Ls.prev[m] = n <=> m = q) /\ (Ls.next[m] = n <=> m = p)
      /\ n # NULL /\ p # n /\ q # n
  BY <1>3, <1>5, Mutual, <1>2 DEF FatAssumption, Nodes, PrevRight, NextRight, Ranked
<1>b. p # NULL => p \in Node /\ w[p] = w[n] /\ w[n] # -1 /\ r[n] < r[p]
  BY <1>2, <1>5 DEF PrevRight, Nodes
<1>c. q # NULL => q \in Node /\ w[q] = w[n] /\ w[n] # -1 /\ r[q] < r[n]
  BY <1>2, <1>5 DEF NextRight, Nodes
<1>d. \A m \in Node : m # n /\ w[m] = w[n] /\ w[n] # -1 => r[m] # r[n]
  BY <1>2 DEF Ranked
<1>e. \A m \in Node : m # n /\ w[m] = w[n] /\ w[n] # -1 =>
        (r[n] < r[m] /\ p # NULL /\ r[p] <= r[m]) \/ (r[m] < r[n] /\ q # NULL /\ r[m] <= r[q])
  BY <1>2, <1>3, <1>d DEF PrevRight, NextRight
<1>7. PrevRight(Ks.prev, v, r)
  <2> SUFFICES ASSUME NEW m \in Node
               PROVE  /\ Ks.prev[m] = NULL \/ (v[Ks.prev[m]] = v[m] /\ v[m] # -1 /\ r[m] < r[Ks.prev[m]])
                      /\ \A o \in Node : v[o] = v[m] /\ v[m] # -1 /\ r[m] < r[o] =>
                           Ks.prev[m] # NULL /\ r[Ks.prev[m]] <= r[o]
    BY DEF PrevRight
  <2>1. CASE m = n
    BY <1>1, <1>4, <2>1
  <2>2. CASE m = q
    <3>1. Ks.prev[m] = p /\ v[m] = w[m] /\ w[m] = w[n] /\ w[n] # -1 /\ r[m] < r[n]
      BY <1>1, <1>4, <1>a, <1>c, <2>2 DEF FatAssumption
    <3>2. p = NULL \/ (v[p] = v[m] /\ v[m] # -1 /\ r[m] < r[p])
      BY <1>3, <1>4, <1>a, <1>b, <3>1
    <3>3. ASSUME NEW o \in Node, v[o] = v[m], v[m] # -1, r[m] < r[o]
          PROVE  p # NULL /\ r[p] <= r[o]
      BY <1>3, <1>4, <1>e, <2>2, <3>1, <3>3
    <3> QED
      BY <3>1, <3>2, <3>3
  <2>3. CASE m # n /\ m # q
    <3>1. Ks.prev[m] = Ls.prev[m] /\ v[m] = w[m] /\ Ls.prev[m] # n /\ Ls.prev[m] \in Nodes
      BY <1>1, <1>4, <1>5, <1>a, <2>3
    <3>2. Ls.prev[m] # NULL => v[Ls.prev[m]] = w[Ls.prev[m]]
      BY <1>4, <3>1 DEF Nodes
    <3>3. \A o \in Node : v[o] = v[m] /\ v[m] # -1 => w[o] = w[m] /\ w[m] # -1
      BY <1>4, <3>1
    <3> QED
      BY <1>2, <3>1, <3>2, <3>3 DEF PrevRight
  <2> QED
    BY <2>1, <2>2, <2>3
<1>8. NextRight(Ks.next, v, r)
  <2> SUFFICES ASSUME NEW m \in Node
               PROVE  /\ Ks.next[m] = NULL \/ (v[Ks.next[m]] = v[m] /\ v[m] # -1 /\ r[Ks.next[m]] < r[m])
                      /\ \A o \in Node : v[o] = v[m] /\ v[m] # -1 /\ r[o] < r[m] =>
                           Ks.next[m] # NULL /\ r[o] <= r[Ks.next[m]]
    BY DEF NextRight
  <2>1. CASE m = n
    BY <1>1, <1>4, <2>1
  <2>2. CASE m = p
    <3>1. Ks.next[m] = q /\ v[m] = w[m] /\ w[m] = w[n] /\ w[n] # -1 /\ r[n] < r[m]
      BY <1>1, <1>4, <1>a, <1>b, <2>2 DEF FatAssumption
    <3>2. q = NULL \/ (v[q] = v[m] /\ v[m] # -1 /\ r[q] < r[m])
      BY <1>3, <1>4, <1>a, <1>c, <3>1
    <3>3. ASSUME NEW o \in Node, v[o] = v[m], v[m] # -1, r[o] < r[m]
          PROVE  q # NULL /\ r[o] <= r[q]
      BY <1>3, <1>4, <1>e, <2>2, <3>1, <3>3
    <3> QED
      BY <3>1, <3>2, <3>3
  <2>3. CASE m # n /\ m # p
    <3>1. Ks.next[m] = Ls.next[m] /\ v[m] = w[m] /\ Ls.next[m] # n /\ Ls.next[m] \in Nodes
      BY <1>1, <1>4, <1>5, <1>a, <2>3
    <3>2. Ls.next[m] # NULL => v[Ls.next[m]] = w[Ls.next[m]]
      BY <1>4, <3>1 DEF Nodes
    <3>3. \A o \in Node : v[o] = v[m] /\ v[m] # -1 => w[o] = w[m] /\ w[m] # -1
      BY <1>4, <3>1
    <3> QED
      BY <1>2, <3>1, <3>2, <3>3 DEF NextRight
  <2> QED
    BY <2>1, <2>2, <2>3
<1>9. HeadsRight(Ks.fhead, v, r, 0)
  <2> SUFFICES ASSUME NEW l \in F!Lists
               PROVE  /\ Ks.fhead[l] = NULL \/ v[Ks.fhead[l]] = l
                      /\ \A m \in Node : v[m] = l => Ks.fhead[l] # NULL /\ r[Ks.fhead[l]] <= r[m]
    BY DEF HeadsRight, F!Lists
  <2>0. l # -1
    BY <1>3 DEF F!Lists
  <2>1. l # -1 /\ Ls.fhead[l] \in Nodes /\ \A m \in Node : v[m] = l => m # n /\ w[m] = l
    <3>1. Ls.fhead \in [F!Lists -> Nodes]
      BY <1>2 DEF Linkages
    <3> QED
      BY <1>4, <2>0, <3>1
  <2>2. /\ Ls.fhead[l] = NULL \/ w[Ls.fhead[l]] = l
        /\ \A m \in Node : w[m] = l => Ls.fhead[l] # NULL /\ r[Ls.fhead[l]] <= r[m]
    BY <1>2, <2>1 DEF HeadsRight, F!Lists
  <2>3. CASE Ls.fhead[l] = n
    <3>1. Ks.fhead[l] = p /\ w[n] = l
      BY <1>1, <1>a, <2>2, <2>3
    <3>2. p = NULL \/ v[p] = l
      BY <1>4, <1>a, <1>b, <3>1
    <3>3. ASSUME NEW m \in Node, v[m] = l PROVE p # NULL /\ r[p] <= r[m]
      <4>1. w[m] = w[n] /\ m # n /\ r[n] <= r[m]
        BY <2>1, <2>2, <2>3, <3>1, <3>3
      <4> QED
        BY <1>3, <1>e, <2>1, <3>1, <4>1
    <3> QED
      BY <3>1, <3>2, <3>3
  <2>4. CASE Ls.fhead[l] # n
    <3>1. Ks.fhead[l] = Ls.fhead[l]
      BY <1>1, <2>4
    <3>2. Ls.fhead[l] # NULL => v[Ls.fhead[l]] = w[Ls.fhead[l]]
      BY <1>4, <2>1, <2>4 DEF Nodes
    <3> QED
      BY <2>1, <2>2, <3>1, <3>2
  <2> QED
    BY <2>3, <2>4
<1>10. TailsRight(Ks.ftail, v, r, 0)
  <2> SUFFICES ASSUME NEW l \in F!Lists
               PROVE  /\ Ks.ftail[l] = NULL \/ v[Ks.ftail[l]] = l
                      /\ \A m \in Node : v[m] = l => Ks.ftail[l] # NULL /\ r[m] <= r[Ks.ftail[l]]
    BY DEF TailsRight, F!Lists
  <2>0. l # -1
    BY <1>3 DEF F!Lists
  <2>1. l # -1 /\ Ls.ftail[l] \in Nodes /\ \A m \in Node : v[m] = l => m # n /\ w[m] = l
    <3>1. Ls.ftail \in [F!Lists -> Nodes]
      BY <1>2 DEF Linkages
    <3> QED
      BY <1>4, <2>0, <3>1
  <2>2. /\ Ls.ftail[l] = NULL \/ w[Ls.ftail[l]] = l
        /\ \A m \in Node : w[m] = l => Ls.ftail[l] # NULL /\ r[m] <= r[Ls.ftail[l]]
    BY <1>2, <2>1 DEF TailsRight, F!Lists
  <2>3. CASE Ls.ftail[l] = n
    <3>1. Ks.ftail[l] = q /\ w[n] = l
      BY <1>1, <1>a, <2>2, <2>3
    <3>2. q = NULL \/ v[q] = l
      BY <1>4, <1>a, <1>c, <3>1
    <3>3. ASSUME NEW m \in Node, v[m] = l PROVE q # NULL /\ r[m] <= r[q]
      <4>1. w[m] = w[n] /\ m # n /\ r[m] <= r[n]
        BY <2>1, <2>2, <2>3, <3>1, <3>3
      <4> QED
        BY <1>3, <1>e, <2>1, <3>1, <4>1
    <3> QED
      BY <3>1, <3>2, <3>3
  <2>4. CASE Ls.ftail[l] # n
    <3>1. Ks.ftail[l] = Ls.ftail[l]
      BY <1>1, <2>4
    <3>2. Ls.ftail[l] # NULL => v[Ls.ftail[l]] = w[Ls.ftail[l]]
      BY <1>4, <2>1, <2>4 DEF Nodes
    <3> QED
      BY <2>1, <2>2, <3>1, <3>2
  <2> QED
    BY <2>3, <2>4
<1>11. HeadsRight(Ks.thead, v, r, MAX_FAT_LIST)
  BY <1>1, <1>2, <1>3, <1>4, <1>5 DEF HeadsRight, Nodes, FatAssumption, F!Lists, Linkages
<1>12. TailsRight(Ks.ttail, v, r, MAX_FAT_LIST)
  BY <1>1, <1>2, <1>3, <1>4, <1>5 DEF TailsRight, Nodes, FatAssumption, F!Lists, Linkages
<1> QED
  BY <1>1, <1>6, <1>7, <1>8, <1>9, <1>10, <1>11, <1>12 DEF Drawn, v, Ks

(* What enqueue() makes of a packet that is in no list.                    *)
LEMMA EnqueueIs ==
  ASSUME FatAssumption, NEW Ls, NEW w, NEW r, NEW c, Drawn(Ls, w, r, c), NEW n \in Node, w[n] = -1,
         NEW l \in F!Lists
  PROVE  LET Ks == F!enqueue(Ls, n, l)
             t == Ls.ttail[l] IN
         /\ Ks \in Linkages /\ Ks.fhead = Ls.fhead /\ Ks.ftail = Ls.ftail
         /\ \A m \in Node : Ks.prev[m] = IF m = t THEN n ELSE Ls.prev[m]
         /\ \A m \in Node : Ks.next[m] = IF m = n THEN t ELSE Ls.next[m]
         /\ \A k \in F!Lists : Ks.thead[k] = IF k = l /\ t = NULL THEN n ELSE Ls.thead[k]
         /\ \A k \in F!Lists : Ks.ttail[k] = IF k = l THEN n ELSE Ls.ttail[k]
<1> DEFINE t == Ls.ttail[l]
           Ks == F!enqueue(Ls, n, l)
<1>1. Ls \in Linkages /\ t \in Nodes /\ n \in Nodes /\ n # NULL
  BY DEF Drawn, Linkages, FatAssumption, Nodes
<1>2. Ls.next[n] = NULL
  BY DEF Drawn, NextRight
<1>3. CASE t = NULL
  <2> DEFINE K1 == [Ls EXCEPT !.thead[l] = n]
             K2 == [K1 EXCEPT !.ttail[l] = n]
  <2>1. Ks = K2
    <3>1. Ks = [Ls EXCEPT !.thead[l] = n, !.ttail[l] = n]
      BY <1>3 DEF F!enqueue
    <3> QED
      BY <1>1, <3>1 DEF Linkages
  <2>2. /\ K1 \in Linkages /\ K1.thead = [Ls.thead EXCEPT ![l] = n] /\ K1.prev = Ls.prev
        /\ K1.next = Ls.next /\ K1.fhead = Ls.fhead /\ K1.ftail = Ls.ftail /\ K1.ttail = Ls.ttail
    BY <1>1, NewHeadWritten
  <2> HIDE DEF K1, Ks
  <2>3. /\ K2 \in Linkages /\ K2.ttail = [K1.ttail EXCEPT ![l] = n] /\ K2.prev = K1.prev
        /\ K2.next = K1.next /\ K2.fhead = K1.fhead /\ K2.ftail = K1.ftail /\ K2.thead = K1.thead
    BY <1>1, <2>2, NewTailWritten
  <2> HIDE DEF K2
  <2>4. Ls.thead \in [F!Lists -> Nodes] /\ Ls.ttail \in [F!Lists -> Nodes]
    BY <1>1 DEF Linkages
  <2> QED
    BY <1>1, <1>2, <1>3, <2>1, <2>2, <2>3, <2>4 DEF FatAssumption, Ks
<1>4. CASE t # NULL
  <2> DEFINE K1 == [Ls EXCEPT !.next[n] = t]
             K2 == [K1 EXCEPT !.prev[t] = n]
             K3 == [K2 EXCEPT !.ttail[l] = n]
  <2>0. t \in Node
    BY <1>1, <1>4 DEF Nodes
  <2>1. Ks = K3
    <3>1. Ks = [Ls EXCEPT !.next[n] = t, !.prev[t] = n, !.ttail[l] = n]
      BY <1>4 DEF F!enqueue
    <3> HIDE DEF t
    <3> QED
      BY <1>1, <3>1 DEF Linkages
  <2>2. /\ K1 \in Linkages /\ K1.next = [Ls.next EXCEPT ![n] = t] /\ K1.prev = Ls.prev
        /\ K1.fhead = Ls.fhead /\ K1.ftail = Ls.ftail /\ K1.thead = Ls.thead /\ K1.ttail = Ls.ttail
    BY <1>1, NextWritten
  <2> HIDE DEF K1, Ks
  <2>3. /\ K2 \in Linkages /\ K2.prev = [K1.prev EXCEPT ![t] = n] /\ K2.next = K1.next
        /\ K2.fhead = K1.fhead /\ K2.ftail = K1.ftail /\ K2.thead = K1.thead /\ K2.ttail = K1.ttail
    BY <1>1, <2>0, <2>2, PrevWritten
  <2> HIDE DEF K2
  <2>4. /\ K3 \in Linkages /\ K3.ttail = [K2.ttail EXCEPT ![l] = n] /\ K3.prev = K2.prev
        /\ K3.next = K2.next /\ K3.fhead = K2.fhead /\ K3.ftail = K2.ftail /\ K3.thead = K2.thead
    BY <1>1, <2>3, NewTailWritten
  <2> HIDE DEF K3
  <2>5. /\ Ls.next \in [Node -> Nodes] /\ Ls.prev \in [Node -> Nodes]
        /\ Ls.thead \in [F!Lists -> Nodes] /\ Ls.ttail \in [F!Lists -> Nodes]
    BY <1>1 DEF Linkages
  <2> QED
    BY <1>1, <1>4, <2>1, <2>2, <2>3, <2>4, <2>5 DEF Ks
<1> QED
  BY <1>3, <1>4

(* It is the last of temporary list l.                                     *)
LEMMA EnqueueDrawn ==
  ASSUME FatAssumption, NEW Ls, NEW w, NEW r, NEW c, Drawn(Ls, w, r, c), NEW n \in Node, w[n] = -1,
         NEW l \in F!Lists
  PROVE  Drawn(F!enqueue(Ls, n, l), [w EXCEPT ![n] = MAX_FAT_LIST + l], [r EXCEPT ![n] = c], c + 1)
<1> DEFINE Ks == F!enqueue(Ls, n, l)
           t == Ls.ttail[l]
           v == [w EXCEPT ![n] = MAX_FAT_LIST + l]
           s == [r EXCEPT ![n] = c]
<1>1. /\ Ks \in Linkages /\ Ks.fhead = Ls.fhead /\ Ks.ftail = Ls.ftail
      /\ \A m \in Node : Ks.prev[m] = IF m = t THEN n ELSE Ls.prev[m]
      /\ \A m \in Node : Ks.next[m] = IF m = n THEN t ELSE Ls.next[m]
      /\ \A k \in F!Lists : Ks.thead[k] = IF k = l /\ t = NULL THEN n ELSE Ls.thead[k]
      /\ \A k \in F!Lists : Ks.ttail[k] = IF k = l THEN n ELSE Ls.ttail[k]
  BY EnqueueIs
<1> HIDE DEF Ks
<1>2. /\ Ls \in Linkages /\ Ranked(w, r, c) /\ PrevRight(Ls.prev, w, r) /\ NextRight(Ls.next, w, r)
      /\ HeadsRight(Ls.fhead, w, r, 0) /\ TailsRight(Ls.ftail, w, r, 0)
      /\ HeadsRight(Ls.thead, w, r, MAX_FAT_LIST) /\ TailsRight(Ls.ttail, w, r, MAX_FAT_LIST)
  BY DEF Drawn
<1>3. /\ w \in [Node -> -1 .. 2 * MAX_FAT_LIST - 1] /\ r \in [Node -> Nat] /\ c \in Nat
      /\ MAX_FAT_LIST \in Nat \ {0}
  BY <1>2 DEF Ranked, FatAssumption
<1>0. l \in 0 .. MAX_FAT_LIST - 1 /\ MAX_FAT_LIST + l \in -1 .. 2 * MAX_FAT_LIST - 1
  BY <1>3 DEF F!Lists
<1>4. /\ v \in [Node -> -1 .. 2 * MAX_FAT_LIST - 1]
      /\ \A m \in Node : v[m] = IF m = n THEN MAX_FAT_LIST + l ELSE w[m]
      /\ s \in [Node -> Nat] /\ \A m \in Node : s[m] = IF m = n THEN c ELSE r[m]
  BY <1>3, <1>0
<1> HIDE DEF v, s
<1>5. /\ Ls.prev \in [Node -> Nodes] /\ Ls.next \in [Node -> Nodes] /\ t \in Nodes
      /\ Ls.fhead \in [F!Lists -> Nodes] /\ Ls.ftail \in [F!Lists -> Nodes]
      /\ Ls.thead \in [F!Lists -> Nodes] /\ Ls.ttail \in [F!Lists -> Nodes]
  BY <1>2 DEF Linkages
<1>6. Ranked(v, s, c + 1)
  <2>1. \A m \in Node : s[m] < c + 1
    BY <1>2, <1>3, <1>4 DEF Ranked
  <2>2. \A a, b \in Node : a # b /\ v[a] # -1 /\ v[b] # -1 => s[a] # s[b]
    BY <1>2, <1>3, <1>4 DEF Ranked
  <2>3. \A a, b \in Node : v[a] \in F!Lists /\ v[b] = v[a] + MAX_FAT_LIST => s[a] < s[b]
    BY <1>0, <1>2, <1>3, <1>4 DEF Ranked, F!Lists
  <2> QED
    BY <1>3, <1>4, <2>1, <2>2, <2>3 DEF Ranked
<1>a. n # NULL /\ t # n /\ \A m \in Node : Ls.prev[m] # n /\ Ls.next[m] # n
  BY <1>0, <1>2, <1>3 DEF FatAssumption, PrevRight, NextRight, TailsRight, F!Lists
<1>b. t # NULL => t \in Node /\ w[t] = MAX_FAT_LIST + l
  BY <1>0, <1>2, <1>3, <1>5 DEF TailsRight, Nodes
<1>c. \A m \in Node : w[m] = MAX_FAT_LIST + l => t # NULL /\ r[m] <= r[t]
  BY <1>0, <1>2, <1>3 DEF TailsRight
<1>d. \A m \in Node : m # n => r[m] < c
  BY <1>2 DEF Ranked
<1>e. t # NULL => Ls.prev[t] = NULL
  BY <1>0, <1>2, <1>3, <1>5, <1>b, <1>c DEF PrevRight, Nodes
<1>7. PrevRight(Ks.prev, v, s)
  <2> SUFFICES ASSUME NEW m \in Node
               PROVE  /\ Ks.prev[m] = NULL \/ (v[Ks.prev[m]] = v[m] /\ v[m] # -1 /\ s[m] < s[Ks.prev[m]])
                      /\ \A o \in Node : v[o] = v[m] /\ v[m] # -1 /\ s[m] < s[o] =>
                           Ks.prev[m] # NULL /\ s[Ks.prev[m]] <= s[o]
    BY DEF PrevRight
  <2>1. CASE m = n
    <3>1. Ks.prev[m] = NULL
      BY <1>1, <1>2, <1>a, <2>1 DEF PrevRight
    <3>2. \A o \in Node : ~(s[m] < s[o])
      BY <1>3, <1>4, <1>d, <2>1
    <3> QED
      BY <3>1, <3>2
  <2>2. CASE m = t
    <3>1. Ks.prev[m] = n /\ v[m] = MAX_FAT_LIST + l /\ s[m] = r[m] /\ r[m] < c
      BY <1>1, <1>4, <1>a, <1>b, <1>d, <2>2 DEF FatAssumption
    <3>2. v[n] = v[m] /\ v[m] # -1 /\ s[n] = c
      BY <1>0, <1>3, <1>4, <3>1
    <3>3. ASSUME NEW o \in Node, v[o] = v[m], s[m] < s[o]
          PROVE  s[n] <= s[o]
      <4>1. CASE o = n
        BY <1>3, <3>2, <4>1
      <4>2. CASE o # n
        BY <1>3, <1>4, <1>c, <2>2, <3>1, <3>3, <4>2
      <4> QED
        BY <4>1, <4>2
    <3> QED
      BY <1>a, <3>1, <3>2, <3>3
  <2>3. CASE m # n /\ m # t
    <3>1. Ks.prev[m] = Ls.prev[m] /\ v[m] = w[m] /\ s[m] = r[m] /\ Ls.prev[m] # n /\ Ls.prev[m] \in Nodes
      BY <1>1, <1>4, <1>5, <1>a, <2>3
    <3>2. Ls.prev[m] # NULL => v[Ls.prev[m]] = w[Ls.prev[m]] /\ s[Ls.prev[m]] = r[Ls.prev[m]]
      BY <1>4, <3>1 DEF Nodes
    <3>3. ASSUME NEW o \in Node, v[o] = v[m], v[m] # -1, s[m] < s[o]
          PROVE  Ls.prev[m] # NULL /\ s[Ls.prev[m]] <= s[o]
      <4>1. CASE o = n
        <5>1. w[m] = MAX_FAT_LIST + l
          BY <1>4, <3>1, <3>3, <4>1
        <5>2. t # NULL /\ r[m] <= r[t] /\ t \in Node /\ w[t] = w[m]
          BY <1>b, <1>c, <5>1
        <5>3. r[m] < r[t]
          BY <1>2, <1>3, <2>3, <3>1, <3>3, <5>2 DEF Ranked
        <5>4. Ls.prev[m] # NULL
          BY <1>2, <3>1, <3>3, <5>2, <5>3 DEF PrevRight
        <5>5. Ls.prev[m] \in Node
          BY <3>1, <5>4 DEF Nodes
        <5> QED
          BY <1>3, <1>4, <1>d, <3>1, <3>2, <4>1, <5>4, <5>5
      <4>2. CASE o # n
        <5>1. w[o] = w[m] /\ w[m] # -1 /\ r[m] < r[o] /\ s[o] = r[o]
          BY <1>4, <3>1, <3>3, <4>2
        <5> QED
          BY <1>2, <3>2, <5>1 DEF PrevRight
      <4> QED
        BY <4>1, <4>2
    <3> QED
      BY <1>2, <3>1, <3>2, <3>3 DEF PrevRight
  <2> QED
    BY <2>1, <2>2, <2>3
<1>8. NextRight(Ks.next, v, s)
  <2> SUFFICES ASSUME NEW m \in Node
               PROVE  /\ Ks.next[m] = NULL \/ (v[Ks.next[m]] = v[m] /\ v[m] # -1 /\ s[Ks.next[m]] < s[m])
                      /\ \A o \in Node : v[o] = v[m] /\ v[m] # -1 /\ s[o] < s[m] =>
                           Ks.next[m] # NULL /\ s[o] <= s[Ks.next[m]]
    BY DEF NextRight
  <2>1. CASE m = n
    <3>1. Ks.next[m] = t /\ v[m] = MAX_FAT_LIST + l /\ v[m] # -1 /\ s[m] = c
      BY <1>0, <1>1, <1>3, <1>4, <2>1
    <3>2. t = NULL \/ (v[t] = v[m] /\ s[t] < s[m])
      BY <1>4, <1>a, <1>b, <1>d, <3>1
    <3>3. ASSUME NEW o \in Node, v[o] = v[m], s[o] < s[m]
          PROVE  t # NULL /\ s[o] <= s[t]
      <4>1. o # n
        BY <1>3, <2>1, <3>3, <1>4
      <4> QED
        BY <1>4, <1>a, <1>b, <1>c, <3>1, <3>3, <4>1
    <3> QED
      BY <3>1, <3>2, <3>3
  <2>2. CASE m # n
    <3>1. Ks.next[m] = Ls.next[m] /\ v[m] = w[m] /\ s[m] = r[m] /\ Ls.next[m] # n /\ Ls.next[m] \in Nodes
      BY <1>1, <1>4, <1>5, <1>a, <2>2
    <3>2. Ls.next[m] # NULL => v[Ls.next[m]] = w[Ls.next[m]] /\ s[Ls.next[m]] = r[Ls.next[m]]
      BY <1>4, <3>1 DEF Nodes
    <3>3. ASSUME NEW o \in Node, v[o] = v[m], v[m] # -1, s[o] < s[m]
          PROVE  w[o] = w[m] /\ w[m] # -1 /\ r[o] < r[m] /\ s[o] = r[o]
      <4>1. o # n
        BY <1>3, <1>4, <1>d, <2>2, <3>1, <3>3
      <4> QED
        BY <1>4, <3>1, <3>3, <4>1
    <3> QED
      BY <1>2, <3>1, <3>2, <3>3 DEF NextRight
  <2> QED
    BY <2>1, <2>2
<1>9. HeadsRight(Ks.fhead, v, s, 0)
  <2> SUFFICES ASSUME NEW k \in F!Lists
               PROVE  /\ Ls.fhead[k] = NULL \/ v[Ls.fhead[k]] = k
                      /\ \A m \in Node : v[m] = k => Ls.fhead[k] # NULL /\ s[Ls.fhead[k]] <= s[m]
    BY <1>1 DEF HeadsRight, F!Lists
  <2>1. /\ Ls.fhead[k] = NULL \/ w[Ls.fhead[k]] = k
        /\ \A m \in Node : w[m] = k => Ls.fhead[k] # NULL /\ r[Ls.fhead[k]] <= r[m]
    BY <1>2, <1>3 DEF HeadsRight, F!Lists
  <2>2. Ls.fhead[k] \in Nodes /\ Ls.fhead[k] # n
    <3>1. k # -1
      BY <1>3 DEF F!Lists
    <3> QED
      BY <1>5, <1>a, <2>1, <3>1
  <2>3. Ls.fhead[k] # NULL => v[Ls.fhead[k]] = w[Ls.fhead[k]] /\ s[Ls.fhead[k]] = r[Ls.fhead[k]]
    BY <1>4, <2>2 DEF Nodes
  <2>4. \A m \in Node : v[m] = k => w[m] = k /\ s[m] = r[m]
    BY <1>0, <1>3, <1>4 DEF F!Lists
  <2> QED
    BY <2>1, <2>3, <2>4
<1>10. TailsRight(Ks.ftail, v, s, 0)
  <2> SUFFICES ASSUME NEW k \in F!Lists
               PROVE  /\ Ls.ftail[k] = NULL \/ v[Ls.ftail[k]] = k
                      /\ \A m \in Node : v[m] = k => Ls.ftail[k] # NULL /\ s[m] <= s[Ls.ftail[k]]
    BY <1>1 DEF TailsRight, F!Lists
  <2>1. /\ Ls.ftail[k] = NULL \/ w[Ls.ftail[k]] = k
        /\ \A m \in Node : w[m] = k => Ls.ftail[k] # NULL /\ r[m] <= r[Ls.ftail[k]]
    BY <1>2, <1>3 DEF TailsRight, F!Lists
  <2>2. Ls.ftail[k] \in Nodes /\ Ls.ftail[k] # n
    <3>1. k # -1
      BY <1>3 DEF F!Lists
    <3> QED
      BY <1>5, <1>a, <2>1, <3>1
  <2>3. Ls.ftail[k] # NULL => v[Ls.ftail[k]] = w[Ls.ftail[k]] /\ s[Ls.ftail[k]] = r[Ls.ftail[k]]
    BY <1>4, <2>2 DEF Nodes
  <2>4. \A m \in Node : v[m] = k => w[m] = k /\ s[m] = r[m]
    BY <1>0, <1>3, <1>4 DEF F!Lists
  <2> QED
    BY <2>1, <2>3, <2>4
<1>11. HeadsRight(Ks.thead, v, s, MAX_FAT_LIST)
  <2> SUFFICES ASSUME NEW k \in F!Lists
               PROVE  /\ Ks.thead[k] = NULL \/ v[Ks.thead[k]] = k + MAX_FAT_LIST
                      /\ \A m \in Node : v[m] = k + MAX_FAT_LIST => Ks.thead[k] # NULL /\ s[Ks.thead[k]] <= s[m]
    BY DEF HeadsRight
  <2>1. /\ Ls.thead[k] = NULL \/ w[Ls.thead[k]] = k + MAX_FAT_LIST
        /\ \A m \in Node : w[m] = k + MAX_FAT_LIST => Ls.thead[k] # NULL /\ r[Ls.thead[k]] <= r[m]
    BY <1>2 DEF HeadsRight
  <2>2. Ls.thead[k] \in Nodes /\ (Ls.thead[k] = NULL \/ Ls.thead[k] # n) /\ k \in Nat
    BY <1>3, <1>5, <1>a, <2>1 DEF F!Lists
  <2>3. CASE k # l
    <3>1. \A m \in Node : v[m] = k + MAX_FAT_LIST => w[m] = k + MAX_FAT_LIST /\ s[m] = r[m]
      BY <1>0, <1>3, <1>4, <2>2, <2>3
    <3>2. Ls.thead[k] # NULL => Ls.thead[k] # n
      BY <2>2
    <3>3. Ls.thead[k] # NULL => v[Ls.thead[k]] = w[Ls.thead[k]] /\ s[Ls.thead[k]] = r[Ls.thead[k]]
      BY <1>4, <2>2, <3>2 DEF Nodes
    <3>4. Ks.thead[k] = Ls.thead[k]
      BY <1>1, <2>3
    <3> QED
      BY <2>1, <3>1, <3>3, <3>4
  <2>4. CASE k = l /\ t = NULL
    <3>1. Ks.thead[k] = n /\ v[n] = k + MAX_FAT_LIST
      BY <1>0, <1>1, <1>3, <1>4, <2>4
    <3>2. \A m \in Node : v[m] = k + MAX_FAT_LIST => m = n
      BY <1>0, <1>3, <1>4, <1>c, <2>4
    <3> QED
      BY <1>3, <1>4, <1>a, <3>1, <3>2
  <2>5. CASE k = l /\ t # NULL
    <3>1. Ks.thead[k] = Ls.thead[k]
      BY <1>1, <2>5
    <3>2. t \in Node /\ w[t] = k + MAX_FAT_LIST
      BY <1>0, <1>3, <1>b, <2>5
    <3>3. Ls.thead[k] # NULL /\ Ls.thead[k] \in Node
      BY <2>1, <2>2, <3>2 DEF Nodes
    <3>4. v[Ls.thead[k]] = k + MAX_FAT_LIST /\ s[Ls.thead[k]] = r[Ls.thead[k]] /\ r[Ls.thead[k]] < c
      BY <1>4, <1>d, <2>1, <2>2, <3>3
    <3>5. \A m \in Node : v[m] = k + MAX_FAT_LIST => s[Ls.thead[k]] <= s[m]
      BY <1>3, <1>4, <2>1, <3>3, <3>4
    <3> QED
      BY <3>1, <3>3, <3>4, <3>5
  <2> QED
    BY <2>3, <2>4, <2>5
<1>12. TailsRight(Ks.ttail, v, s, MAX_FAT_LIST)
  <2> SUFFICES ASSUME NEW k \in F!Lists
               PROVE  /\ Ks.ttail[k] = NULL \/ v[Ks.ttail[k]] = k + MAX_FAT_LIST
                      /\ \A m \in Node : v[m] = k + MAX_FAT_LIST => Ks.ttail[k] # NULL /\ s[m] <= s[Ks.ttail[k]]
    BY DEF TailsRight
  <2>1. /\ Ls.ttail[k] = NULL \/ w[Ls.ttail[k]] = k + MAX_FAT_LIST
        /\ \A m \in Node : w[m] = k + MAX_FAT_LIST => Ls.ttail[k] # NULL /\ r[m] <= r[Ls.ttail[k]]
    BY <1>2 DEF TailsRight
  <2>2. Ls.ttail[k] \in Nodes /\ (Ls.ttail[k] = NULL \/ Ls.ttail[k] # n) /\ k \in Nat
    BY <1>3, <1>5, <1>a, <2>1 DEF F!Lists
  <2>3. CASE k # l
    <3>1. \A m \in Node : v[m] = k + MAX_FAT_LIST => w[m] = k + MAX_FAT_LIST /\ s[m] = r[m]
      BY <1>0, <1>3, <1>4, <2>2, <2>3
    <3>2. Ls.ttail[k] # NULL => Ls.ttail[k] # n
      BY <2>2
    <3>3. Ls.ttail[k] # NULL => v[Ls.ttail[k]] = w[Ls.ttail[k]] /\ s[Ls.ttail[k]] = r[Ls.ttail[k]]
      BY <1>4, <2>2, <3>2 DEF Nodes
    <3>4. Ks.ttail[k] = Ls.ttail[k]
      BY <1>1, <2>3
    <3> QED
      BY <2>1, <3>1, <3>3, <3>4
  <2>4. CASE k = l
    <3>1. Ks.ttail[k] = n /\ v[n] = k + MAX_FAT_LIST /\ s[n] = c
      BY <1>0, <1>1, <1>3, <1>4, <2>4
    <3>2. \A m \in Node : s[m] <= c
      BY <1>3, <1>4, <1>d
    <3> QED
      BY <1>a, <3>1, <3>2
  <2> QED
    BY <2>3, <2>4
<1> QED
  BY <1>1, <1>6, <1>7, <1>8, <1>9, <1>10, <1>11, <1>12 DEF Drawn, v, s, Ks

(* What Merge() makes of list l, if its temporary list is not empty.       *)
LEMMA MergeIs ==
  ASSUME FatAssumption, NEW Ls, NEW w, NEW r, NEW c, Drawn(Ls, w, r, c), NEW l \in F!Lists,
         Ls.thead[l] # NULL
  PROVE  LET Ks == F!Merge(Ls, l)
             h == Ls.thead[l]
             t == Ls.ftail[l] IN
         /\ Ks \in Linkages
         /\ \A m \in Node : Ks.prev[m] = IF m = t THEN h ELSE Ls.prev[m]
         /\ \A m \in Node : Ks.next[m] = IF m = h THEN t ELSE Ls.next[m]
         /\ \A k \in F!Lists : Ks.fhead[k] = IF k = l /\ t = NULL THEN h ELSE Ls.fhead[k]
         /\ \A k \in F!Lists : Ks.ftail[k] = IF k = l THEN Ls.ttail[l] ELSE Ls.ftail[k]
         /\ \A k \in F!Lists : Ks.thead[k] = IF k = l THEN NULL ELSE Ls.thead[k]
         /\ \A k \in F!Lists : Ks.ttail[k] = IF k = l THEN NULL ELSE Ls.ttail[k]
<1> DEFINE h == Ls.thead[l]
           t == Ls.ftail[l]
           e == Ls.ttail[l]
           J == IF Ls.fhead[l] = NULL THEN [Ls EXCEPT !.fhead[l] = h, !.ftail[l] = e]
                ELSE [Ls EXCEPT !.next[h] = t, !.prev[t] = h, !.ftail[l] = e]
           J1 == [J EXCEPT !.thead[l] = NULL]
           Ks == [J1 EXCEPT !.ttail[l] = NULL]
<1>1. /\ Ls \in Linkages /\ h \in Node /\ t \in Nodes /\ e \in Nodes /\ NULL \in Nodes /\ NULL \notin Node
      /\ Ls.next \in [Node -> Nodes] /\ Ls.prev \in [Node -> Nodes]
      /\ Ls.fhead \in [F!Lists -> Nodes] /\ Ls.ftail \in [F!Lists -> Nodes]
      /\ Ls.thead \in [F!Lists -> Nodes] /\ Ls.ttail \in [F!Lists -> Nodes]
  BY DEF Drawn, Linkages, FatAssumption, Nodes
<1>2. w \in [Node -> -1 .. 2 * MAX_FAT_LIST - 1] /\ r \in [Node -> Nat] /\ MAX_FAT_LIST \in Nat \ {0}
      /\ l \in 0 .. MAX_FAT_LIST - 1
  BY DEF Drawn, Ranked, FatAssumption, F!Lists
<1>3. Ls.next[h] = NULL
  <2>1. w[h] = l + MAX_FAT_LIST /\ \A m \in Node : w[m] = l + MAX_FAT_LIST => r[h] <= r[m]
    BY <1>1 DEF Drawn, HeadsRight
  <2> DEFINE q == Ls.next[h]
  <2>2. q = NULL \/ (q \in Node /\ w[q] = w[h] /\ r[q] < r[h])
    BY <1>1 DEF Drawn, NextRight, Nodes
  <2> QED
    BY <1>1, <1>2, <2>1, <2>2
<1>4. Ls.fhead[l] = NULL <=> t = NULL
  <2>1. /\ Ls.fhead[l] = NULL \/ w[Ls.fhead[l]] = l
        /\ \A m \in Node : w[m] = l => Ls.fhead[l] # NULL
        /\ t = NULL \/ w[t] = l
        /\ \A m \in Node : w[m] = l => t # NULL
    BY <1>2 DEF Drawn, HeadsRight, TailsRight
  <2> QED
    BY <1>1, <2>1 DEF Nodes
<1>5. F!Merge(Ls, l) = Ks
  <2>1. F!Merge(Ls, l) = [J EXCEPT !.thead[l] = NULL, !.ttail[l] = NULL]
    BY DEF F!Merge
  <2>2. [J EXCEPT !.thead[l] = NULL, !.ttail[l] = NULL] = Ks
    <3>1. J \in Linkages
      <4>1. CASE Ls.fhead[l] = NULL
        BY <1>1, <4>1 DEF Linkages
      <4>2. CASE Ls.fhead[l] # NULL
        BY <1>1, <4>2 DEF Linkages
      <4> QED
        BY <4>1, <4>2
    <3> HIDE DEF J
    <3> QED
      BY <3>1 DEF Linkages
  <2> QED
    BY <2>1, <2>2
<1>6. /\ J \in Linkages /\ J.thead = Ls.thead /\ J.ttail = Ls.ttail
      /\ \A m \in Node : J.prev[m] = IF m = t THEN h ELSE Ls.prev[m]
      /\ \A m \in Node : J.next[m] = IF m = h THEN t ELSE Ls.next[m]
      /\ \A k \in F!Lists : J.fhead[k] = IF k = l /\ t = NULL THEN h ELSE Ls.fhead[k]
      /\ \A k \in F!Lists : J.ftail[k] = IF k = l THEN e ELSE Ls.ftail[k]
  <2>1. CASE t = NULL
    <3> DEFINE A1 == [Ls EXCEPT !.fhead[l] = h]
               A2 == [A1 EXCEPT !.ftail[l] = e]
    <3>1. J = [Ls EXCEPT !.fhead[l] = h, !.ftail[l] = e]
      BY <1>4, <2>1
    <3>2. J = A2
      <4> HIDE DEF h, e
      <4> QED
        BY <1>1, <3>1 DEF Linkages
    <3>3. /\ A1 \in Linkages /\ A1.fhead = [Ls.fhead EXCEPT ![l] = h] /\ A1.prev = Ls.prev
          /\ A1.next = Ls.next /\ A1.ftail = Ls.ftail /\ A1.thead = Ls.thead /\ A1.ttail = Ls.ttail
      <4>1. h \in Nodes
        BY <1>1 DEF Nodes
      <4> QED
        BY <1>1, <4>1, HeadWritten
    <3> HIDE DEF A1, J
    <3>4. /\ A2 \in Linkages /\ A2.ftail = [A1.ftail EXCEPT ![l] = e] /\ A2.prev = A1.prev
          /\ A2.next = A1.next /\ A2.fhead = A1.fhead /\ A2.thead = A1.thead /\ A2.ttail = A1.ttail
      BY <1>1, <3>3, TailWritten
    <3> HIDE DEF A2
    <3> QED
      BY <1>1, <1>3, <2>1, <3>2, <3>3, <3>4
  <2>2. CASE t # NULL
    <3> DEFINE A1 == [Ls EXCEPT !.next[h] = t]
               A2 == [A1 EXCEPT !.prev[t] = h]
               A3 == [A2 EXCEPT !.ftail[l] = e]
    <3>0. t \in Node /\ h \in Nodes
      BY <1>1, <2>2 DEF Nodes
    <3>1. J = [Ls EXCEPT !.next[h] = t, !.prev[t] = h, !.ftail[l] = e]
      BY <1>4, <2>2
    <3>2. J = A3
      <4> HIDE DEF h, e, t
      <4> QED
        BY <1>1, <3>0, <3>1 DEF Linkages
    <3>3. /\ A1 \in Linkages /\ A1.next = [Ls.next EXCEPT ![h] = t] /\ A1.prev = Ls.prev
          /\ A1.fhead = Ls.fhead /\ A1.ftail = Ls.ftail /\ A1.thead = Ls.thead /\ A1.ttail = Ls.ttail
      BY <1>1, NextWritten
    <3> HIDE DEF A1, J
    <3>4. /\ A2 \in Linkages /\ A2.prev = [A1.prev EXCEPT ![t] = h] /\ A2.next = A1.next
          /\ A2.fhead = A1.fhead /\ A2.ftail = A1.ftail /\ A2.thead = A1.thead /\ A2.ttail = A1.ttail
      BY <3>0, <3>3, PrevWritten
    <3> HIDE DEF A2
    <3>5. /\ A3 \in Linkages /\ A3.ftail = [A2.ftail EXCEPT ![l] = e] /\ A3.prev = A2.prev
          /\ A3.next = A2.next /\ A3.fhead = A2.fhead /\ A3.thead = A2.thead /\ A3.ttail = A2.ttail
      BY <1>1, <3>4, TailWritten
    <3> HIDE DEF A3
    <3> QED
      BY <1>1, <2>2, <3>0, <3>2, <3>3, <3>4, <3>5
  <2> QED
    BY <2>1, <2>2
<1> HIDE DEF J
<1>7. /\ J1 \in Linkages /\ J1.thead = [J.thead EXCEPT ![l] = NULL] /\ J1.prev = J.prev
      /\ J1.next = J.next /\ J1.fhead = J.fhead /\ J1.ftail = J.ftail /\ J1.ttail = J.ttail
  BY <1>1, <1>6, NewHeadWritten
<1> HIDE DEF J1
<1>8. /\ Ks \in Linkages /\ Ks.ttail = [J1.ttail EXCEPT ![l] = NULL] /\ Ks.prev = J1.prev
      /\ Ks.next = J1.next /\ Ks.fhead = J1.fhead /\ Ks.ftail = J1.ftail /\ Ks.thead = J1.thead
  BY <1>1, <1>7, NewTailWritten
<1> HIDE DEF Ks
<1> QED
  BY <1>1, <1>5, <1>6, <1>7, <1>8

(* Temporary list l is put behind list l.                                  *)
LEMMA MergeDrawn ==
  ASSUME FatAssumption, NEW Ls, NEW w, NEW r, NEW c, Drawn(Ls, w, r, c), NEW l \in F!Lists
  PROVE  Drawn(F!Merge(Ls, l), [m \in Node |-> IF w[m] = MAX_FAT_LIST + l THEN l ELSE w[m]], r, c)
<1> DEFINE Ks == F!Merge(Ls, l)
           v == [m \in Node |-> IF w[m] = MAX_FAT_LIST + l THEN l ELSE w[m]]
           h == Ls.thead[l]
           t == Ls.ftail[l]
           e == Ls.ttail[l]
<1>2. /\ Ls \in Linkages /\ Ranked(w, r, c) /\ PrevRight(Ls.prev, w, r) /\ NextRight(Ls.next, w, r)
      /\ HeadsRight(Ls.fhead, w, r, 0) /\ TailsRight(Ls.ftail, w, r, 0)
      /\ HeadsRight(Ls.thead, w, r, MAX_FAT_LIST) /\ TailsRight(Ls.ttail, w, r, MAX_FAT_LIST)
  BY DEF Drawn
<1>3. /\ w \in [Node -> -1 .. 2 * MAX_FAT_LIST - 1] /\ r \in [Node -> Nat] /\ c \in Nat
      /\ MAX_FAT_LIST \in Nat \ {0} /\ l \in 0 .. MAX_FAT_LIST - 1 /\ NULL \notin Node
  BY <1>2 DEF Ranked, FatAssumption, F!Lists
<1>5. /\ Ls.prev \in [Node -> Nodes] /\ Ls.next \in [Node -> Nodes] /\ t \in Nodes /\ h \in Nodes /\ e \in Nodes
      /\ Ls.fhead \in [F!Lists -> Nodes] /\ Ls.ftail \in [F!Lists -> Nodes]
      /\ Ls.thead \in [F!Lists -> Nodes] /\ Ls.ttail \in [F!Lists -> Nodes]
  BY <1>2 DEF Linkages
<1>6. /\ h = NULL \/ (h \in Node /\ w[h] = l + MAX_FAT_LIST)
      /\ \A m \in Node : w[m] = l + MAX_FAT_LIST => h # NULL /\ r[h] <= r[m]
      /\ e = NULL \/ (e \in Node /\ w[e] = l + MAX_FAT_LIST)
      /\ \A m \in Node : w[m] = l + MAX_FAT_LIST => e # NULL /\ r[m] <= r[e]
      /\ t = NULL \/ (t \in Node /\ w[t] = l)
      /\ \A m \in Node : w[m] = l => t # NULL /\ r[m] <= r[t]
  BY <1>2, <1>3, <1>5 DEF HeadsRight, TailsRight, Nodes
<1>7. CASE h = NULL
  <2>1. F!Merge(Ls, l) = Ls
    BY <1>7 DEF F!Merge
  <2>2. v = w
    <3>1. \A m \in Node : w[m] # MAX_FAT_LIST + l
      BY <1>3, <1>6, <1>7
    <3> QED
      BY <1>3, <3>1
  <2> QED
    BY <2>1, <2>2
<1>8. CASE h # NULL
  <2>1. /\ Ks \in Linkages
        /\ \A m \in Node : Ks.prev[m] = IF m = t THEN h ELSE Ls.prev[m]
        /\ \A m \in Node : Ks.next[m] = IF m = h THEN t ELSE Ls.next[m]
        /\ \A k \in F!Lists : Ks.fhead[k] = IF k = l /\ t = NULL THEN h ELSE Ls.fhead[k]
        /\ \A k \in F!Lists : Ks.ftail[k] = IF k = l THEN e ELSE Ls.ftail[k]
        /\ \A k \in F!Lists : Ks.thead[k] = IF k = l THEN NULL ELSE Ls.thead[k]
        /\ \A k \in F!Lists : Ks.ttail[k] = IF k = l THEN NULL ELSE Ls.ttail[k]
    BY <1>8, MergeIs
  <2> HIDE DEF Ks
  <2>2. /\ v \in [Node -> -1 .. 2 * MAX_FAT_LIST - 1]
        /\ \A m \in Node : v[m] = IF w[m] = l + MAX_FAT_LIST THEN l ELSE w[m]
        /\ \A m \in Node : v[m] = -1 <=> w[m] = -1
    <3>1. \A m \in Node : v[m] = IF w[m] = l + MAX_FAT_LIST THEN l ELSE w[m]
      BY <1>3
    <3>2. v = [m \in Node |-> v[m]]
      OBVIOUS
    <3> HIDE DEF v
    <3> QED
      BY <1>3, <3>1, <3>2
  <2> HIDE DEF v
  <2>3. h \in Node /\ w[h] = l + MAX_FAT_LIST /\ v[h] = l /\ e \in Node /\ v[e] = l
    BY <1>3, <1>6, <1>8, <2>2
  <2>4. \A a, b \in Node : w[a] = l /\ w[b] = l + MAX_FAT_LIST => r[a] < r[b]
    BY <1>2, <1>3 DEF Ranked, F!Lists
  <2>5. \A a, b \in Node : a # b /\ w[a] # -1 /\ w[b] # -1 => r[a] # r[b]
    BY <1>2 DEF Ranked
  <2>t. t # NULL => v[t] = l /\ r[t] < r[h] /\ l # -1
    BY <1>3, <1>6, <2>2, <2>3, <2>4
  <2> HIDE DEF h, t, e
  <2>6. Ranked(v, r, c)
    <3>1. \A a, b \in Node : a # b /\ v[a] # -1 /\ v[b] # -1 => r[a] # r[b]
      BY <2>2, <2>5
    <3>2. ASSUME NEW a \in Node, NEW b \in Node, v[a] \in F!Lists, v[b] = v[a] + MAX_FAT_LIST
          PROVE  r[a] < r[b]
      <4>1. w[b] = v[a] + MAX_FAT_LIST /\ v[a] # l
        BY <1>3, <2>2, <3>2 DEF F!Lists
      <4>2. w[a] = v[a]
        BY <2>2, <4>1
      <4> QED
        BY <1>2, <3>2, <4>1, <4>2 DEF Ranked
    <3> QED
      BY <1>2, <2>2, <3>1, <3>2 DEF Ranked
  <2>7. PrevRight(Ks.prev, v, r)
    <3> SUFFICES ASSUME NEW m \in Node
                 PROVE  /\ Ks.prev[m] = NULL \/ (v[Ks.prev[m]] = v[m] /\ v[m] # -1 /\ r[m] < r[Ks.prev[m]])
                        /\ \A o \in Node : v[o] = v[m] /\ v[m] # -1 /\ r[m] < r[o] =>
                             Ks.prev[m] # NULL /\ r[Ks.prev[m]] <= r[o]
      BY DEF PrevRight
    <3>1. CASE m = t
      <4>1. Ks.prev[m] = h /\ v[m] = l /\ v[m] # -1 /\ r[m] < r[h] /\ w[m] = l
        BY <1>3, <1>6, <2>1, <2>t, <3>1
      <4>2. ASSUME NEW o \in Node, v[o] = v[m], r[m] < r[o] PROVE r[h] <= r[o]
        <5>1. w[o] # l
          BY <1>3, <1>6, <3>1, <4>2
        <5> QED
          BY <1>6, <2>2, <4>1, <4>2, <5>1
      <4> QED
        BY <1>8, <2>3, <4>1, <4>2
    <3>2. CASE m # t
      <4>0. Ks.prev[m] = Ls.prev[m]
        BY <2>1, <3>2
      <4> DEFINE p == Ls.prev[m]
      <4>1. p = NULL \/ (p \in Node /\ w[p] = w[m] /\ w[m] # -1 /\ r[m] < r[p])
        BY <1>2, <1>5 DEF PrevRight, Nodes
      <4>2. \A o \in Node : w[o] = w[m] /\ w[m] # -1 /\ r[m] < r[o] => p # NULL /\ r[p] <= r[o]
        BY <1>2 DEF PrevRight
      <4> HIDE DEF p
      <4>3. p = NULL \/ (v[p] = v[m] /\ v[m] # -1 /\ r[m] < r[p])
        BY <2>2, <4>1
      <4>4. ASSUME NEW o \in Node, v[o] = v[m], v[m] # -1, r[m] < r[o] PROVE p # NULL /\ r[p] <= r[o]
        <5>1. CASE w[o] = w[m]
          BY <2>2, <4>2, <4>4, <5>1
        <5>2. CASE w[o] # w[m]
          <6>1. w[m] = l /\ w[o] = l + MAX_FAT_LIST
            BY <1>3, <2>2, <2>4, <4>4, <5>2
          <6>2. t # NULL /\ t \in Node /\ w[t] = l /\ r[m] <= r[t] /\ r[m] # r[t] /\ w[m] # -1
            BY <1>3, <1>6, <2>5, <3>2, <6>1
          <6>3. p # NULL /\ p \in Node /\ w[p] = l
            BY <1>3, <4>1, <4>2, <6>1, <6>2
          <6>4. r[p] < r[o]
            BY <2>4, <6>1, <6>3
          <6> QED
            BY <1>3, <6>3, <6>4
        <5> QED
          BY <5>1, <5>2
      <4> QED
        BY <4>0, <4>3, <4>4 DEF p
    <3> QED
      BY <3>1, <3>2
  <2>8. NextRight(Ks.next, v, r)
    <3> SUFFICES ASSUME NEW m \in Node
                 PROVE  /\ Ks.next[m] = NULL \/ (v[Ks.next[m]] = v[m] /\ v[m] # -1 /\ r[Ks.next[m]] < r[m])
                        /\ \A o \in Node : v[o] = v[m] /\ v[m] # -1 /\ r[o] < r[m] =>
                             Ks.next[m] # NULL /\ r[o] <= r[Ks.next[m]]
      BY DEF NextRight
    <3>1. CASE m = h
      <4>1. Ks.next[m] = t
        BY <2>1, <3>1
      <4>2. ASSUME NEW o \in Node, v[o] = v[m], r[o] < r[m] PROVE t # NULL /\ r[o] <= r[t]
        <5>1. w[o] # l + MAX_FAT_LIST
          BY <1>3, <1>6, <3>1, <4>2
        <5>2. w[o] = l
          BY <2>2, <2>3, <3>1, <4>2, <5>1
        <5> QED
          BY <1>6, <5>2
      <4> QED
        BY <2>3, <2>t, <3>1, <4>1, <4>2
    <3>2. CASE m # h
      <4>0. Ks.next[m] = Ls.next[m]
        BY <2>1, <3>2
      <4> DEFINE q == Ls.next[m]
      <4>1. q = NULL \/ (q \in Node /\ w[q] = w[m] /\ w[m] # -1 /\ r[q] < r[m])
        BY <1>2, <1>5 DEF NextRight, Nodes
      <4>2. \A o \in Node : w[o] = w[m] /\ w[m] # -1 /\ r[o] < r[m] => q # NULL /\ r[o] <= r[q]
        BY <1>2 DEF NextRight
      <4> HIDE DEF q
      <4>3. q = NULL \/ (v[q] = v[m] /\ v[m] # -1 /\ r[q] < r[m])
        BY <2>2, <4>1
      <4>4. ASSUME NEW o \in Node, v[o] = v[m], v[m] # -1, r[o] < r[m] PROVE q # NULL /\ r[o] <= r[q]
        <5>1. CASE w[o] = w[m]
          BY <2>2, <4>2, <4>4, <5>1
        <5>2. CASE w[o] # w[m]
          <6>0. r[o] \in Nat /\ r[m] \in Nat /\ ~(r[m] < r[o])
            BY <1>3, <4>4
          <6>1. w[o] = l /\ w[m] = l + MAX_FAT_LIST
            BY <1>3, <2>2, <2>4, <4>4, <5>2, <6>0
          <6>2. r[h] <= r[m] /\ r[h] # r[m] /\ w[h] = w[m] /\ w[m] # -1
            BY <1>3, <1>6, <2>3, <2>5, <3>2, <6>1
          <6>3. q # NULL /\ q \in Node /\ w[q] = l + MAX_FAT_LIST
            BY <1>3, <2>3, <4>1, <4>2, <6>1, <6>2
          <6>4. r[o] < r[q]
            BY <2>4, <6>1, <6>3
          <6> QED
            BY <1>3, <6>3, <6>4
        <5> QED
          BY <5>1, <5>2
      <4> QED
        BY <4>0, <4>3, <4>4 DEF q
    <3> QED
      BY <3>1, <3>2
  <2>9. HeadsRight(Ks.fhead, v, r, 0)
    <3> SUFFICES ASSUME NEW k \in F!Lists
                 PROVE  /\ Ks.fhead[k] = NULL \/ v[Ks.fhead[k]] = k
                        /\ \A m \in Node : v[m] = k => Ks.fhead[k] # NULL /\ r[Ks.fhead[k]] <= r[m]
      BY DEF HeadsRight, F!Lists
    <3> DEFINE f == Ls.fhead[k]
    <3>1. /\ f = NULL \/ (f \in Node /\ w[f] = k)
          /\ \A m \in Node : w[m] = k => f # NULL /\ r[f] <= r[m]
          /\ k \in 0 .. MAX_FAT_LIST - 1
          /\ Ks.fhead[k] = IF k = l /\ t = NULL THEN h ELSE f
      <4>1. k \in 0 .. MAX_FAT_LIST - 1 /\ k + 0 = k /\ f \in Nodes
        BY <1>3, <1>5 DEF F!Lists
      <4>2. /\ f = NULL \/ w[f] = k + 0
            /\ \A m \in Node : w[m] = k + 0 => f # NULL /\ r[f] <= r[m]
        BY <1>2 DEF HeadsRight
      <4> QED
        BY <2>1, <4>1, <4>2 DEF Nodes
    <3> HIDE DEF f
    <3>2. CASE k # l
      BY <1>3, <2>2, <3>1, <3>2
    <3>3. CASE k = l /\ t = NULL
      <4>1. Ks.fhead[k] = h
        BY <3>1, <3>3
      <4>2. \A m \in Node : v[m] = k => r[h] <= r[m]
        BY <1>6, <2>2, <3>3
      <4> QED
        BY <1>8, <2>3, <3>3, <4>1, <4>2
    <3>4. CASE k = l /\ t # NULL
      <4>1. Ks.fhead[k] = f
        BY <3>1, <3>4
      <4>2. f # NULL /\ f \in Node /\ w[f] = l /\ v[f] = l
        BY <1>3, <1>6, <2>2, <3>1, <3>4
      <4>3. ASSUME NEW m \in Node, v[m] = k PROVE r[f] <= r[m]
        <5>1. w[m] = l \/ w[m] = l + MAX_FAT_LIST
          BY <2>2, <3>4, <4>3
        <5>2. w[m] = l + MAX_FAT_LIST => r[f] < r[m]
          BY <2>4, <4>2
        <5> QED
          BY <1>3, <3>1, <3>4, <4>2, <5>1, <5>2
      <4> QED
        BY <3>4, <4>1, <4>2, <4>3
    <3> QED
      BY <3>2, <3>3, <3>4
  <2>10. TailsRight(Ks.ftail, v, r, 0)
    <3> SUFFICES ASSUME NEW k \in F!Lists
                 PROVE  /\ Ks.ftail[k] = NULL \/ v[Ks.ftail[k]] = k
                        /\ \A m \in Node : v[m] = k => Ks.ftail[k] # NULL /\ r[m] <= r[Ks.ftail[k]]
      BY DEF TailsRight, F!Lists
    <3> DEFINE f == Ls.ftail[k]
    <3>1. /\ f = NULL \/ (f \in Node /\ w[f] = k)
          /\ \A m \in Node : w[m] = k => f # NULL /\ r[m] <= r[f]
          /\ k \in 0 .. MAX_FAT_LIST - 1
          /\ Ks.ftail[k] = IF k = l THEN e ELSE f
      <4>1. k \in 0 .. MAX_FAT_LIST - 1 /\ k + 0 = k /\ f \in Nodes
        BY <1>3, <1>5 DEF F!Lists
      <4>2. /\ f = NULL \/ w[f] = k + 0
            /\ \A m \in Node : w[m] = k + 0 => f # NULL /\ r[m] <= r[f]
        BY <1>2 DEF TailsRight
      <4> QED
        BY <2>1, <4>1, <4>2 DEF Nodes
    <3> HIDE DEF f
    <3>2. CASE k # l
      BY <1>3, <2>2, <3>1, <3>2
    <3>3. CASE k = l
      <4>1. Ks.ftail[k] = e /\ e # NULL /\ v[e] = k /\ w[e] = l + MAX_FAT_LIST
        BY <1>3, <1>6, <2>3, <3>1, <3>3
      <4>2. ASSUME NEW m \in Node, v[m] = k PROVE r[m] <= r[e]
        <5>1. w[m] = l \/ w[m] = l + MAX_FAT_LIST
          BY <2>2, <3>3, <4>2
        <5>2. w[m] = l => r[m] < r[e]
          BY <2>3, <2>4, <4>1
        <5> QED
          BY <1>3, <1>6, <2>3, <5>1, <5>2
      <4> QED
        BY <4>1, <4>2
    <3> QED
      BY <3>2, <3>3
  <2>11. HeadsRight(Ks.thead, v, r, MAX_FAT_LIST)
    <3> SUFFICES ASSUME NEW k \in F!Lists
                 PROVE  /\ Ks.thead[k] = NULL \/ v[Ks.thead[k]] = k + MAX_FAT_LIST
                        /\ \A m \in Node : v[m] = k + MAX_FAT_LIST => Ks.thead[k] # NULL /\ r[Ks.thead[k]] <= r[m]
      BY DEF HeadsRight
    <3> DEFINE f == Ls.thead[k]
    <3>1. /\ f = NULL \/ (f \in Node /\ w[f] = k + MAX_FAT_LIST)
          /\ \A m \in Node : w[m] = k + MAX_FAT_LIST => f # NULL /\ r[f] <= r[m]
          /\ k \in 0 .. MAX_FAT_LIST - 1
          /\ Ks.thead[k] = IF k = l THEN NULL ELSE f
      <4>1. k \in 0 .. MAX_FAT_LIST - 1 /\ f \in Nodes
        BY <1>3, <1>5 DEF F!Lists
      <4>2. /\ f = NULL \/ w[f] = k + MAX_FAT_LIST
            /\ \A m \in Node : w[m] = k + MAX_FAT_LIST => f # NULL /\ r[f] <= r[m]
        BY <1>2 DEF HeadsRight
      <4> QED
        BY <2>1, <4>1, <4>2 DEF Nodes
    <3> HIDE DEF f
    <3> QED
      BY <1>3, <2>2, <3>1
  <2>12. TailsRight(Ks.ttail, v, r, MAX_FAT_LIST)
    <3> SUFFICES ASSUME NEW k \in F!Lists
                 PROVE  /\ Ks.ttail[k] = NULL \/ v[Ks.ttail[k]] = k + MAX_FAT_LIST
                        /\ \A m \in Node : v[m] = k + MAX_FAT_LIST => Ks.ttail[k] # NULL /\ r[m] <= r[Ks.ttail[k]]
      BY DEF TailsRight
    <3> DEFINE f == Ls.ttail[k]
    <3>1. /\ f = NULL \/ (f \in Node /\ w[f] = k + MAX_FAT_LIST)
          /\ \A m \in Node : w[m] = k + MAX_FAT_LIST => f # NULL /\ r[m] <= r[f]
          /\ k \in 0 .. MAX_FAT_LIST - 1
          /\ Ks.ttail[k] = IF k = l THEN NULL ELSE f
      <4>1. k \in 0 .. MAX_FAT_LIST - 1 /\ f \in Nodes
        BY <1>3, <1>5 DEF F!Lists
      <4>2. /\ f = NULL \/ w[f] = k + MAX_FAT_LIST
            /\ \A m \in Node : w[m] = k + MAX_FAT_LIST => f # NULL /\ r[m] <= r[f]
        BY <1>2 DEF TailsRight
      <4> QED
        BY <2>1, <4>1, <4>2 DEF Nodes
    <3> HIDE DEF f
    <3> QED
      BY <1>3, <2>2, <3>1
  <2> QED
    BY <2>1, <2>6, <2>7, <2>8, <2>9, <2>10, <2>11, <2>12 DEF Drawn, v, Ks
<1> QED
  BY <1>7, <1>8

-----------------------------------------------------------------------------
(* What is true of the first and handed on is true of all.                 *)
LEMMA Handed ==
  ASSUME NEW m \in Nat, NEW Ts \in SUBSET (0 .. m), 0 \in Ts,
         \A k \in 1 .. m : k - 1 \in Ts => k \in Ts
  PROVE  \A k \in 0 .. m : k \in Ts
<1> DEFINE bad == (0 .. m) \ Ts
<1> SUFFICES ASSUME bad # {} PROVE FALSE
  OBVIOUS
<1>1. bad \in SUBSET Nat
  OBVIOUS
<1>2. PICK k \in bad : \A i \in bad : k <= i
  <2> HIDE DEF bad
  <2> QED
    BY <1>1, Least
<1>3. k \in 0 .. m /\ k \notin Ts /\ k # 0
  OBVIOUS
<1>4. k - 1 \in 0 .. m /\ k \in 1 .. m /\ k - 1 \notin bad
  BY <1>2, <1>3
<1> QED
  BY <1>3, <1>4

(* A function that is defined from its value before exists.                *)
Chained(m, X) ==
  \A a \in X, op \in [1 .. m -> [X -> X]] :
    \E f \in [0 .. m -> X] : f[0] = a /\ \A i \in 1 .. m : f[i] = op[i][f[i - 1]]

(* Such a chain exists: the shortest one that does not is a step longer    *)
(* than one that does.                                                     *)
LEMMA Chain ==
  ASSUME NEW m \in Nat, NEW X
  PROVE  Chained(m, X)
<1> SUFFICES ASSUME NEW a \in X, NEW op \in [1 .. m -> [X -> X]]
             PROVE  \E f \in [0 .. m -> X] : f[0] = a /\ \A i \in 1 .. m : f[i] = op[i][f[i - 1]]
  BY DEF Chained
<1> DEFINE Good(k) == \E f \in [0 .. k -> X] : f[0] = a /\ \A i \in 1 .. k : f[i] = op[i][f[i - 1]]
           bad == {k \in 0 .. m : ~Good(k)}
<1>1. Good(0)
  <2> DEFINE f == [i \in 0 .. 0 |-> a]
  <2>1. f \in [0 .. 0 -> X] /\ f[0] = a /\ \A i \in 1 .. 0 : f[i] = op[i][f[i - 1]]
    OBVIOUS
  <2> QED
    BY <2>1
<1>2. ASSUME NEW k \in 1 .. m, Good(k - 1)
      PROVE  Good(k)
  <2>1. PICK f \in [0 .. k - 1 -> X] : f[0] = a /\ \A i \in 1 .. k - 1 : f[i] = op[i][f[i - 1]]
    BY <1>2
  <2> DEFINE g == [i \in 0 .. k |-> IF i = k THEN op[k][f[k - 1]] ELSE f[i]]
  <2>2. op[k][f[k - 1]] \in X
    <3>1. f[k - 1] \in X /\ op[k] \in [X -> X]
      BY <2>1
    <3> QED
      BY <3>1
  <2>3. g \in [0 .. k -> X] /\ \A i \in 0 .. k : g[i] = IF i = k THEN op[k][f[k - 1]] ELSE f[i]
    BY <2>1, <2>2
  <2> HIDE DEF g
  <2>4. g[0] = a
    BY <2>1, <2>3
  <2>5. ASSUME NEW i \in 1 .. k PROVE g[i] = op[i][g[i - 1]]
    BY <2>1, <2>3
  <2> QED
    BY <2>3, <2>4, <2>5
<1>3. \A k \in 0 .. m : Good(k)
  <2> DEFINE Ts == {k \in 0 .. m : Good(k)}
  <2> HIDE DEF Good
  <2>1. Ts \in SUBSET (0 .. m) /\ 0 \in Ts
    BY <1>1
  <2>2. \A k \in 1 .. m : k - 1 \in Ts => k \in Ts
    BY <1>2
  <2>3. \A k \in Ts : Good(k)
    OBVIOUS
  <2> HIDE DEF Ts
  <2> QED
    BY <2>1, <2>2, <2>3, Handed
<1> QED
  BY <1>3

(* The least of some lists is one of them.                                 *)
LEMMA LeastIs ==
  ASSUME FatAssumption, NEW X \in SUBSET F!Lists, X # {}
  PROVE  F!Least(X) \in X
<1>1. X \in SUBSET Nat
  BY DEF F!Lists, FatAssumption
<1>2. \E l \in X : \A k \in X : l <= k
  BY <1>1, Least
<1> QED
  BY <1>2 DEF F!Least

-----------------------------------------------------------------------------
(* What links are made of.                                                 *)
LEMMA DequeueType ==
  ASSUME FatAssumption, NEW Ls \in Linkages, NEW n \in Node
  PROVE  F!dequeue(Ls, n) \in Linkages
<1>0. NULL \in Nodes /\ Ls.prev[n] \in Nodes /\ Ls.next[n] \in Nodes
  BY DEF Linkages, Nodes
<1>1. F!OffHead(Ls, n) \in Linkages
  <2> DEFINE heads == {l \in F!Lists : Ls.fhead[l] = n}
             p == Ls.prev[n]
             Bs == IF p = NULL THEN Ls ELSE [Ls EXCEPT !.next[p] = Ls.next[n]]
             E == [Ls EXCEPT !.fhead[F!Least(heads)] = p,
                            !.next = IF p = NULL THEN @ ELSE [@ EXCEPT ![p] = NULL]]
  <2>1. F!OffHead(Ls, n) = CASE Ls.next[n] # NULL -> Bs
                            [] Ls.next[n] = NULL /\ heads = {} -> Ls
                            [] OTHER -> E
    BY DEF F!OffHead
  <2>2. Bs \in Linkages
    BY <1>0 DEF Linkages
  <2>3. E \in Linkages
    BY <1>0 DEF Linkages
  <2> HIDE DEF Bs, E, heads
  <2> QED
    BY <2>1, <2>2, <2>3
<1>2. ASSUME NEW Hs \in Linkages PROVE F!OffTail(Hs, n) \in Linkages
  <2> DEFINE tails == {l \in F!Lists : Hs.ftail[l] = n}
             q == Hs.next[n]
             Bs == IF q = NULL THEN Hs ELSE [Hs EXCEPT !.prev[q] = Hs.prev[n]]
             E == [Hs EXCEPT !.ftail[F!Least(tails)] = q,
                            !.prev = IF q = NULL THEN @ ELSE [@ EXCEPT ![q] = NULL]]
  <2>0. NULL \in Nodes /\ Hs.prev[n] \in Nodes /\ Hs.next[n] \in Nodes
    BY DEF Linkages, Nodes
  <2>1. F!OffTail(Hs, n) = CASE Hs.prev[n] # NULL -> Bs
                            [] Hs.prev[n] = NULL /\ tails = {} -> Hs
                            [] OTHER -> E
    BY DEF F!OffTail
  <2>2. Bs \in Linkages
    BY <2>0 DEF Linkages
  <2>3. E \in Linkages
    BY <2>0 DEF Linkages
  <2> HIDE DEF Bs, E, tails
  <2> QED
    BY <2>1, <2>2, <2>3
<1>3. F!OffTail(F!OffHead(Ls, n), n) \in Linkages
  BY <1>1, <1>2
<1> QED
  BY <1>0, <1>3 DEF F!dequeue, Linkages

(* A link leads to a node or to none.                                      *)
LEMMA EnqueueType ==
  ASSUME FatAssumption, NEW Ls \in Linkages, NEW n \in Node, NEW l \in F!Lists
  PROVE  F!enqueue(Ls, n, l) \in Linkages
<1> DEFINE t == Ls.ttail[l]
           A == [Ls EXCEPT !.thead[l] = n, !.ttail[l] = n]
           Bs == [Ls EXCEPT !.next[n] = t, !.prev[t] = n, !.ttail[l] = n]
<1>1. t \in Nodes /\ n \in Nodes
  BY DEF Linkages, Nodes
<1>2. F!enqueue(Ls, n, l) = IF t = NULL THEN A ELSE Bs
  BY DEF F!enqueue
<1>3. A \in Linkages
  <2>1. A = [[Ls EXCEPT !.thead[l] = n] EXCEPT !.ttail[l] = n]
    BY DEF Linkages
  <2>2. [Ls EXCEPT !.thead[l] = n] \in Linkages
    BY <1>1, NewHeadWritten
  <2> HIDE DEF A
  <2> QED
    BY <1>1, <2>1, <2>2, NewTailWritten
<1>4. Bs \in Linkages
  <2> HIDE DEF t
  <2> QED
    BY <1>1 DEF Linkages
<1> HIDE DEF A, Bs
<1> QED
  BY <1>2, <1>3, <1>4

LEMMA MergeType ==
  ASSUME FatAssumption, NEW Ls \in Linkages, NEW l \in F!Lists
  PROVE  F!Merge(Ls, l) \in Linkages
<1> DEFINE h == Ls.thead[l]
           t == Ls.ftail[l]
           e == Ls.ttail[l]
           A == [Ls EXCEPT !.fhead[l] = h, !.ftail[l] = e]
           Bs == [Ls EXCEPT !.next[h] = t, !.prev[t] = h, !.ftail[l] = e]
           J == IF Ls.fhead[l] = NULL THEN A ELSE Bs
<1>1. h \in Nodes /\ t \in Nodes /\ e \in Nodes /\ NULL \in Nodes
  BY DEF Linkages, Nodes
<1>2. F!Merge(Ls, l) = IF h = NULL THEN Ls ELSE [J EXCEPT !.thead[l] = NULL, !.ttail[l] = NULL]
  BY DEF F!Merge
<1>3. A \in Linkages /\ Bs \in Linkages
  <2> HIDE DEF h, t, e
  <2> QED
    BY <1>1 DEF Linkages
<1>4. J \in Linkages
  <2> HIDE DEF A, Bs
  <2> QED
    BY <1>3
<1> HIDE DEF J
<1>5. [J EXCEPT !.thead[l] = NULL, !.ttail[l] = NULL] \in Linkages
  BY <1>1, <1>4 DEF Linkages
<1> QED
  BY <1>2, <1>5

-----------------------------------------------------------------------------
(* The lists are in order, with node n in place w[n].                      *)
Shape(Ls, w) == \E r, c : Drawn(Ls, w, r, c)

(* What can be said of such lists without ranks.                           *)
LEMMA ShapeIs ==
  ASSUME FatAssumption, NEW Ls, NEW w, Shape(Ls, w)
  PROVE  Ls \in Linkages /\ w \in [Node -> -1 .. 2 * MAX_FAT_LIST - 1]
BY DEF Shape, Drawn, Ranked

(* A packet goes to temporary list l, from a list or from none.            *)
LEMMA GoesOn ==
  ASSUME FatAssumption, NEW Ls, NEW w, Shape(Ls, w), NEW n \in Node, w[n] < MAX_FAT_LIST, NEW l \in F!Lists
  PROVE  Shape(F!enqueue(F!dequeue(Ls, n), n, l), [w EXCEPT ![n] = MAX_FAT_LIST + l])
<1> DEFINE v == [w EXCEPT ![n] = -1]
           u == [v EXCEPT ![n] = MAX_FAT_LIST + l]
           Ks == F!dequeue(Ls, n)
<1>1. PICK r, c : Drawn(Ls, w, r, c)
  BY DEF Shape
<1>2. Drawn(Ks, v, r, c)
  BY <1>1, DequeueDrawn
<1>3. w \in [Node -> -1 .. 2 * MAX_FAT_LIST - 1]
  BY ShapeIs
<1>4. v[n] = -1
  BY <1>3
<1>5. u = [w EXCEPT ![n] = MAX_FAT_LIST + l]
  BY <1>3
<1> HIDE DEF v, Ks
<1>6. Drawn(F!enqueue(Ks, n, l), u, [r EXCEPT ![n] = c], c + 1)
  BY <1>2, <1>4, EnqueueDrawn
<1> HIDE DEF u
<1> QED
  BY <1>5, <1>6 DEF Shape, Ks

(* A packet leaves the lists.                                              *)
LEMMA Leaves ==
  ASSUME FatAssumption, NEW Ls, NEW w, Shape(Ls, w), NEW n \in Node, w[n] < MAX_FAT_LIST
  PROVE  Shape(F!dequeue(Ls, n), [w EXCEPT ![n] = -1])
<1>1. PICK r, c : Drawn(Ls, w, r, c)
  BY DEF Shape
<1> QED
  BY <1>1, DequeueDrawn DEF Shape

(* Temporary list l is put behind list l.                                  *)
LEMMA Merges ==
  ASSUME FatAssumption, NEW Ls, NEW w, Shape(Ls, w), NEW l \in F!Lists
  PROVE  Shape(F!Merge(Ls, l), [m \in Node |-> IF w[m] = MAX_FAT_LIST + l THEN l ELSE w[m]])
<1>1. PICK r, c : Drawn(Ls, w, r, c)
  BY DEF Shape
<1> QED
  BY <1>1, MergeDrawn DEF Shape

LEMMA FatCardinality == \A X : F!Cardinality(X) = Cardinality(X)
BY DEF F!Cardinality, Cardinality

(* Every node has its turn in Order, once.                                 *)
LEMMA OrderIs ==
  ASSUME FatAssumption
  PROVE  /\ Cardinality(Node) \in Nat
         /\ F!Order \in [1 .. Cardinality(Node) -> Node]
         /\ \A i, j \in 1 .. Cardinality(Node) : F!Order[i] = F!Order[j] => i = j
         /\ \A n \in Node : \E i \in 1 .. Cardinality(Node) : F!Order[i] = n
<1> DEFINE Cnt == Cardinality(Node)
<1>1. Cnt \in Nat /\ ExistsBijection(1 .. Cnt, Node)
  BY FS_CardinalityType DEF FatAssumption
<1>2. PICK q \in Bijection(1 .. Cnt, Node) : TRUE
  BY <1>1 DEF ExistsBijection
<1>3. q \in [1 .. Cnt -> Node] /\ \A i, j \in DOMAIN q : q[i] = q[j] => i = j
  BY <1>2 DEF Bijection, Injection, IsInjective
<1>4. /\ F!Order \in [1 .. Cnt -> Node]
      /\ \A i, j \in DOMAIN F!Order : F!Order[i] = F!Order[j] => i = j
  <2>1. F!Order = CHOOSE f \in [1 .. Cnt -> Node] : \A i, j \in DOMAIN f : f[i] = f[j] => i = j
    BY FatCardinality DEF F!Order
  <2> HIDE DEF Cnt
  <2> QED
    BY <1>3, <2>1, ZenonT(40)
<1>5. F!Order \in Injection(1 .. Cnt, Node)
  BY <1>4 DEF Injection, IsInjective
<1>6. IsFiniteSet(Node) /\ Cardinality(1 .. Cnt) = Cnt
  BY <1>1, FS_Interval DEF FatAssumption
<1>7. F!Order \in Surjection(1 .. Cnt, Node)
  BY <1>5, <1>6, FS_Injection
<1> QED
  BY <1>1, <1>4, <1>7 DEF Surjection

(* What has changed is in temporary list 0 when it has been sent.          *)
LEMMA NotedShape ==
  ASSUME FatAssumption, NEW w, Shape(links, w), \A n \in Node : w[n] < MAX_FAT_LIST, udpMode = "FAT"
  PROVE  Shape(F!Noted, [n \in Node |-> IF n \in F!Changed THEN MAX_FAT_LIST ELSE w[n]])
<1> DEFINE Cnt == Cardinality(Node)
           Step(k, x) == IF F!Order[k] \in F!Changed THEN F!updateFat(x, F!Order[k]) ELSE x
           Is(f) == f = [k \in 0 .. Cnt |-> IF k = 0 THEN links ELSE Step(k, f[k - 1])]
           op == [k \in 1 .. Cnt |-> [x \in Linkages |-> Step(k, x)]]
           g == CHOOSE f : Is(f)
           v(k) == [n \in Node |-> IF n \in F!Changed /\ (\E i \in 1 .. k : F!Order[i] = n)
                                   THEN MAX_FAT_LIST ELSE w[n]]
<1>1. /\ Cnt \in Nat /\ F!Order \in [1 .. Cnt -> Node]
      /\ \A i, j \in 1 .. Cnt : F!Order[i] = F!Order[j] => i = j
      /\ \A n \in Node : \E i \in 1 .. Cnt : F!Order[i] = n
  BY OrderIs
<1>2. links \in Linkages /\ w \in [Node -> -1 .. 2 * MAX_FAT_LIST - 1] /\ 0 \in F!Lists
      /\ MAX_FAT_LIST \in Nat \ {0}
  BY ShapeIs DEF F!Lists, FatAssumption
<1> HIDE DEF Cnt
<1>3. \A k \in 1 .. Cnt : \A x \in Linkages : Step(k, x) \in Linkages
  <2> SUFFICES ASSUME NEW k \in 1 .. Cnt, NEW x \in Linkages PROVE Step(k, x) \in Linkages
    OBVIOUS
  <2>1. F!Order[k] \in Node
    BY <1>1
  <2>2. F!updateFat(x, F!Order[k]) \in Linkages
    BY <1>2, <2>1, DequeueType, EnqueueType DEF F!updateFat
  <2> QED
    BY <2>2
<1> HIDE DEF Step
<1>4. op \in [1 .. Cnt -> [Linkages -> Linkages]]
  BY <1>3
<1>5. Is(g)
  <2>1. PICK f \in [0 .. Cnt -> Linkages] : f[0] = links /\ \A k \in 1 .. Cnt : f[k] = op[k][f[k - 1]]
    <3> HIDE DEF op
    <3>1. Chained(Cnt, Linkages)
      BY <1>1, Chain
    <3> QED
      BY <1>2, <1>4, <3>1 DEF Chained
  <2>2. \A k \in 1 .. Cnt : op[k][f[k - 1]] = Step(k, f[k - 1])
    BY <1>1
  <2> HIDE DEF op
  <2>3. Is(f)
    BY <1>1, <2>1, <2>2
  <2> QED
    BY <2>3, Zenon
<1>6. F!Noted = g[Cnt]
  BY FatCardinality, Zenon DEF F!Noted, Cnt, Step
<1> HIDE DEF g, op
<1>7. g[0] = links /\ \A k \in 1 .. Cnt : g[k] = Step(k, g[k - 1])
  BY <1>1, <1>5
<1> DEFINE Ts == {k \in 0 .. Cnt : Shape(g[k], v(k))}
<1>8. 0 \in Ts
  <2>1. v(0) = w
    BY <1>2
  <2> QED
    BY <1>1, <1>7, <2>1
<1>9. ASSUME NEW k \in 1 .. Cnt, k - 1 \in Ts PROVE k \in Ts
  <2> DEFINE n == F!Order[k]
  <2>1. Shape(g[k - 1], v(k - 1)) /\ n \in Node
    BY <1>1, <1>9
  <2>2. ~(\E i \in 1 .. k - 1 : F!Order[i] = n)
    BY <1>1
  <2>3. v(k - 1)[n] = w[n]
    BY <2>1, <2>2
  <2>4. CASE n \in F!Changed
    <3>1. g[k] = F!enqueue(F!dequeue(g[k - 1], n), n, 0)
      BY <1>7, <2>4 DEF Step, F!updateFat
    <3>2. v(k) = [v(k - 1) EXCEPT ![n] = MAX_FAT_LIST + 0]
      <4>1. \A m \in Node : (\E i \in 1 .. k : F!Order[i] = m) <=> m = n \/ (\E i \in 1 .. k - 1 : F!Order[i] = m)
        BY <1>1
      <4>2. MAX_FAT_LIST + 0 = MAX_FAT_LIST
        BY <1>2
      <4> HIDE DEF n
      <4> QED
        BY <2>1, <2>4, <4>1, <4>2
    <3>3. v(k - 1)[n] < MAX_FAT_LIST
      BY <2>1, <2>3
    <3> HIDE DEF v, n
    <3>4. Shape(g[k], v(k))
      BY <1>2, <2>1, <3>1, <3>2, <3>3, GoesOn
    <3> QED
      BY <3>4
  <2>5. CASE n \notin F!Changed
    <3>1. g[k] = g[k - 1]
      BY <1>7, <2>5 DEF Step
    <3>2. v(k) = v(k - 1)
      <4>1. \A m \in Node : m \in F!Changed =>
              ((\E i \in 1 .. k : F!Order[i] = m) <=> (\E i \in 1 .. k - 1 : F!Order[i] = m))
        BY <1>1, <2>5
      <4> QED
        BY <4>1
    <3> HIDE DEF v
    <3> QED
      BY <2>1, <3>1, <3>2
  <2> QED
    BY <2>4, <2>5
<1>10. Cnt \in Ts
  <2>1. Ts \in SUBSET (0 .. Cnt)
    OBVIOUS
  <2> HIDE DEF Ts
  <2>2. \A k \in 1 .. Cnt : k - 1 \in Ts => k \in Ts
    BY <1>9
  <2>3. \A k \in 0 .. Cnt : k \in Ts
    BY <1>1, <1>8, <2>1, <2>2, Handed
  <2>4. Cnt \in 0 .. Cnt
    BY <1>1
  <2> QED
    BY <2>3, <2>4
<1>11. v(Cnt) = [n \in Node |-> IF n \in F!Changed THEN MAX_FAT_LIST ELSE w[n]]
  BY <1>1
<1>12. Shape(g[Cnt], v(Cnt))
  BY <1>10
<1> HIDE DEF v
<1> QED
  BY <1>6, <1>11, <1>12

-----------------------------------------------------------------------------
(* Where a packet is that has been sent again from place v[n].             *)
After(v, Again) ==
  [n \in Node |-> IF n \notin Again THEN v[n]
                  ELSE IF v[n] + 1 = MAX_FAT_LIST THEN -1 ELSE MAX_FAT_LIST + v[n] + 1]

(* The lists, and what was sent: it has left place v for the place after   *)
(* it.                                                                     *)
SentRight(v, x) ==
  /\ x.sent \in SUBSET Node /\ \A n \in x.sent : v[n] \in F!Lists
  /\ Shape(x.links, After(v, x.sent))

Sendings == [links : Linkages, sent : SUBSET Node]

(* What is sent next is the head of a list.                                *)
LEMMA NextToSend ==
  ASSUME FatAssumption, NEW Ls \in Linkages, F!Filled(Ls) # {}
  PROVE  /\ F!Least(F!Filled(Ls)) \in F!Lists
         /\ Ls.fhead[F!Least(F!Filled(Ls))] \in Node
<1>1. F!Filled(Ls) \in SUBSET F!Lists
  BY DEF F!Filled
<1>2. F!Least(F!Filled(Ls)) \in F!Filled(Ls)
  BY <1>1, LeastIs
<1>3. \A l \in F!Filled(Ls) : Ls.fhead[l] \in Node
  BY DEF F!Filled, Linkages, Nodes
<1> QED
  BY <1>1, <1>2, <1>3

(* So much for sending one packet more: the lists stay lists.              *)
LEMMA SendNextType ==
  ASSUME FatAssumption, NEW x \in Sendings
  PROVE  F!SendNext(x) \in Sendings
<1>1. x.links \in Linkages /\ x.sent \in SUBSET Node
  BY DEF Sendings
<1>2. CASE F!Filled(x.links) = {}
  BY <1>2 DEF F!SendNext
<1>3. CASE F!Filled(x.links) # {}
  <2> DEFINE l == F!Least(F!Filled(x.links))
             n == x.links.fhead[l]
  <2>1. l \in F!Lists /\ n \in Node
    BY <1>1, <1>3, NextToSend
  <2>2. F!SendNext(x) = [links |-> F!Moved(x.links, n, l), sent |-> x.sent \cup {n}]
    BY <1>3 DEF F!SendNext
  <2> HIDE DEF l, n
  <2>3. F!Moved(x.links, n, l) \in Linkages
    <3>1. F!dequeue(x.links, n) \in Linkages
      BY <1>1, <2>1, DequeueType
    <3>2. CASE l + 1 = MAX_FAT_LIST
      BY <3>1, <3>2 DEF F!Moved
    <3>3. CASE l + 1 # MAX_FAT_LIST
      <4>1. l + 1 \in F!Lists
        BY <2>1, <3>3 DEF F!Lists, FatAssumption
      <4> QED
        BY <2>1, <3>1, <3>3, <4>1, EnqueueType DEF F!Moved
    <3> QED
      BY <3>2, <3>3
  <2> QED
    BY <1>1, <2>1, <2>2, <2>3 DEF Sendings
<1> QED
  BY <1>2, <1>3

(* A function with one value changed.                                      *)
LEMMA Written ==
  ASSUME NEW f, NEW g, NEW n \in Node, NEW z, f = [m \in Node |-> f[m]], g = [m \in Node |-> g[m]],
         \A m \in Node : g[m] = IF m = n THEN z ELSE f[m]
  PROVE  g = [f EXCEPT ![n] = z]
<1>1. [f EXCEPT ![n] = z] = [m \in Node |-> IF m = n THEN z ELSE f[m]]
  OBVIOUS
<1>2. [m \in Node |-> g[m]] = [m \in Node |-> IF m = n THEN z ELSE f[m]]
  OBVIOUS
<1> QED
  BY <1>1, <1>2

(* A packet that is sent again is on a list, and goes on to the next.      *)
LEMMA SendNextRight ==
  ASSUME FatAssumption, NEW v, v \in [Node -> -1 .. 2 * MAX_FAT_LIST - 1], NEW x, SentRight(v, x)
  PROVE  SentRight(v, F!SendNext(x))
<1> DEFINE u == After(v, x.sent)
           Ls == x.links
<1>1. x.sent \in SUBSET Node /\ Shape(Ls, u) /\ \A n \in x.sent : v[n] \in F!Lists
  BY DEF SentRight
<1>2. Ls \in Linkages /\ u \in [Node -> -1 .. 2 * MAX_FAT_LIST - 1] /\ MAX_FAT_LIST \in Nat \ {0}
  <2> HIDE DEF u, Ls
  <2> QED
    BY <1>1, ShapeIs DEF FatAssumption
<1>3. \A n \in Node : u[n] = IF n \notin x.sent THEN v[n]
                             ELSE IF v[n] + 1 = MAX_FAT_LIST THEN -1 ELSE MAX_FAT_LIST + v[n] + 1
  BY DEF After
<1> HIDE DEF u, Ls
<1>4. CASE F!Filled(Ls) = {}
  BY <1>4 DEF F!SendNext, Ls
<1>5. CASE F!Filled(Ls) # {}
  <2> DEFINE l == F!Least(F!Filled(Ls))
             n == Ls.fhead[l]
             y == F!SendNext(x)
  <2>1. l \in F!Lists /\ n \in Node
    BY <1>2, <1>5, NextToSend
  <2>2. y = [links |-> F!Moved(Ls, n, l), sent |-> x.sent \cup {n}]
    BY <1>5 DEF F!SendNext, Ls
  <2>3. u[n] = l
    <3>1. PICK r, c : Drawn(Ls, u, r, c)
      BY <1>1 DEF Shape
    <3>2. Ls.fhead[l] = NULL \/ u[Ls.fhead[l]] = l + 0
      BY <2>1, <3>1 DEF Drawn, HeadsRight
    <3> QED
      BY <2>1, <3>2 DEF FatAssumption, F!Lists
  <2> HIDE DEF l, n
  <2>4. l \in 0 .. MAX_FAT_LIST - 1
    BY <2>1 DEF F!Lists
  <2>5. n \notin x.sent /\ v[n] = l
    <3>1. n \in x.sent => v[n] \in 0 .. MAX_FAT_LIST - 1
      BY <1>1 DEF F!Lists
    <3> QED
      BY <1>2, <1>3, <2>1, <2>3, <2>4, <3>1
  <2>6. y.links = F!Moved(Ls, n, l) /\ y.sent = x.sent \cup {n}
    BY <2>2
  <2> HIDE DEF y
  <2>7. y.sent \in SUBSET Node /\ \A m \in y.sent : v[m] \in F!Lists
    BY <1>1, <2>1, <2>5, <2>6
  <2>8. CASE l + 1 = MAX_FAT_LIST
    <3>1. y.links = F!dequeue(Ls, n)
      BY <2>6, <2>8 DEF F!Moved
    <3>0. u[n] < MAX_FAT_LIST
      BY <1>2, <2>3, <2>4
    <3>2. Shape(F!dequeue(Ls, n), [u EXCEPT ![n] = -1])
      BY <1>1, <2>1, <3>0, Leaves
    <3>3. After(v, y.sent) = [u EXCEPT ![n] = -1]
      <4>1. \A m \in Node : After(v, y.sent)[m] = IF m = n THEN -1 ELSE u[m]
        BY <1>2, <1>3, <2>1, <2>5, <2>6, <2>8 DEF After
      <4>2. After(v, y.sent) = [m \in Node |-> After(v, y.sent)[m]]
        BY DEF After
      <4>3. u = [m \in Node |-> u[m]]
        BY <1>2
      <4> QED
        BY <2>1, <4>1, <4>2, <4>3, Written, Zenon
    <3>5. SentRight(v, y)
      BY <2>7, <3>1, <3>2, <3>3 DEF SentRight
    <3> QED
      BY <3>5 DEF y
  <2>9. CASE l + 1 # MAX_FAT_LIST
    <3>0. l + 1 \in F!Lists /\ u[n] < MAX_FAT_LIST
      BY <1>2, <2>3, <2>4, <2>9 DEF F!Lists
    <3>1. y.links = F!enqueue(F!dequeue(Ls, n), n, l + 1)
      BY <2>6, <2>9 DEF F!Moved
    <3>2. Shape(y.links, [u EXCEPT ![n] = MAX_FAT_LIST + (l + 1)])
      BY <1>1, <2>1, <3>0, <3>1, GoesOn
    <3>3. MAX_FAT_LIST + (l + 1) = MAX_FAT_LIST + l + 1
      BY <1>2, <2>4
    <3>4. After(v, y.sent) = [u EXCEPT ![n] = MAX_FAT_LIST + l + 1]
      <4>1. \A m \in Node : After(v, y.sent)[m] = IF m = n THEN MAX_FAT_LIST + l + 1 ELSE u[m]
        BY <1>2, <1>3, <2>1, <2>5, <2>6, <2>9 DEF After
      <4>2. After(v, y.sent) = [m \in Node |-> After(v, y.sent)[m]]
        BY DEF After
      <4>3. u = [m \in Node |-> u[m]]
        BY <1>2
      <4> QED
        BY <2>1, <4>1, <4>2, <4>3, Written, Zenon
    <3>5. SentRight(v, y)
      BY <2>7, <3>1, <3>2, <3>3, <3>4 DEF SentRight
    <3> QED
      BY <3>5 DEF y
  <2> QED
    BY <2>8, <2>9 DEF y
<1> QED
  BY <1>4, <1>5

(* What fatten() adds to a datagram.                                       *)
LEMMA FattenRight ==
  ASSUME FatAssumption, NEW Ls, NEW v, Shape(Ls, v)
  PROVE  SentRight(v, F!fatten(Ls))
<1> DEFINE a == F!NotFattened(Ls)
           Is(f) == f = [k \in 0 .. Room |-> IF k = 0 THEN a ELSE F!SendNext(f[k - 1])]
           op == [k \in 1 .. Room |-> [x \in Sendings |-> F!SendNext(x)]]
           g == CHOOSE f : Is(f)
<1>1. Room \in Nat /\ Ls \in Linkages /\ v \in [Node -> -1 .. 2 * MAX_FAT_LIST - 1]
  BY ShapeIs DEF FatAssumption
<1>2. a \in Sendings
  BY <1>1 DEF F!NotFattened, Sendings
<1>3. op \in [1 .. Room -> [Sendings -> Sendings]]
  BY SendNextType
<1>4. Is(g)
  <2> HIDE DEF a
  <2>1. PICK f \in [0 .. Room -> Sendings] : f[0] = a /\ \A k \in 1 .. Room : f[k] = op[k][f[k - 1]]
    <3> HIDE DEF op
    <3>1. Chained(Room, Sendings)
      BY <1>1, Chain
    <3> QED
      BY <1>2, <1>3, <3>1 DEF Chained
  <2>2. \A k \in 1 .. Room : op[k][f[k - 1]] = F!SendNext(f[k - 1])
    BY <1>1
  <2> HIDE DEF op
  <2>3. Is(f)
    BY <1>1, <2>1, <2>2
  <2> QED
    BY <2>3, Zenon
<1>5. F!fatten(Ls) = g[Room]
  BY Zenon DEF F!fatten
<1> HIDE DEF g, op
<1>6. g[0] = a /\ \A k \in 1 .. Room : g[k] = F!SendNext(g[k - 1])
  BY <1>1, <1>4
<1> DEFINE Ts == {k \in 0 .. Room : SentRight(v, g[k])}
<1>7. 0 \in Ts
  <2>1. After(v, {}) = v
    BY <1>1 DEF After
  <2>2. a.links = Ls /\ a.sent = {}
    BY DEF F!NotFattened
  <2> HIDE DEF a
  <2>3. a.sent \in SUBSET Node /\ (\A n \in a.sent : v[n] \in F!Lists) /\ Shape(a.links, After(v, a.sent))
    BY <2>1, <2>2
  <2>4. SentRight(v, g[0])
    BY <1>6, <2>3 DEF SentRight
  <2> QED
    BY <1>1, <2>4
<1>8. \A k \in 1 .. Room : k - 1 \in Ts => k \in Ts
  BY <1>1, <1>6, SendNextRight
<1>9. Room \in Ts
  <2>1. Ts \in SUBSET (0 .. Room)
    OBVIOUS
  <2> HIDE DEF Ts
  <2> QED
    BY <1>1, <1>7, <1>8, <2>1, Handed
<1> QED
  BY <1>5, <1>9

-----------------------------------------------------------------------------
(* Where a packet is when the lists have been merged.                      *)
Settled(u) == [n \in Node |-> IF u[n] >= MAX_FAT_LIST THEN u[n] - MAX_FAT_LIST ELSE u[n]]

(* fatMerge() merges all the lists.                                        *)
LEMMA MergedRight ==
  ASSUME FatAssumption, NEW Ls, NEW u, Shape(Ls, u)
  PROVE  Shape(F!fatMerge(Ls), Settled(u))
<1> DEFINE Mx == MAX_FAT_LIST
           Is(f) == f = [l \in 0 .. Mx |-> IF l = 0 THEN Ls ELSE F!Merge(f[l - 1], l - 1)]
           op == [l \in 1 .. Mx |-> [x \in Linkages |-> F!Merge(x, l - 1)]]
           g == CHOOSE f : Is(f)
           v(k) == [n \in Node |-> IF u[n] >= Mx /\ u[n] < Mx + k THEN u[n] - Mx ELSE u[n]]
<1>1. Mx \in Nat \ {0} /\ Ls \in Linkages /\ u \in [Node -> -1 .. 2 * Mx - 1]
  BY ShapeIs DEF FatAssumption
<1>2. \A l \in 1 .. Mx : l - 1 \in F!Lists
  BY <1>1 DEF F!Lists
<1> HIDE DEF Mx
<1>3. op \in [1 .. Mx -> [Linkages -> Linkages]]
  BY <1>2, MergeType
<1>4. Is(g)
  <2>1. PICK f \in [0 .. Mx -> Linkages] : f[0] = Ls /\ \A k \in 1 .. Mx : f[k] = op[k][f[k - 1]]
    <3> HIDE DEF op
    <3>1. Chained(Mx, Linkages)
      BY <1>1, Chain
    <3> QED
      BY <1>1, <1>3, <3>1 DEF Chained
  <2>2. \A k \in 1 .. Mx : op[k][f[k - 1]] = F!Merge(f[k - 1], k - 1)
    BY <1>1
  <2> HIDE DEF op
  <2>3. Is(f)
    BY <1>1, <2>1, <2>2
  <2> QED
    BY <2>3, Zenon
<1>5. F!fatMerge(Ls) = g[Mx]
  BY Zenon DEF F!fatMerge, Mx
<1> HIDE DEF g, op
<1>6. g[0] = Ls /\ \A k \in 1 .. Mx : g[k] = F!Merge(g[k - 1], k - 1)
  BY <1>1, <1>4
<1> DEFINE Ts == {k \in 0 .. Mx : Shape(g[k], v(k))}
<1>7. 0 \in Ts
  <2>1. v(0) = u
    BY <1>1
  <2> QED
    BY <1>1, <1>6, <2>1
<1>8. ASSUME NEW k \in 1 .. Mx, k - 1 \in Ts PROVE k \in Ts
  <2>1. Shape(g[k - 1], v(k - 1))
    BY <1>8
  <2>2. v(k) = [n \in Node |-> IF v(k - 1)[n] = Mx + (k - 1) THEN k - 1 ELSE v(k - 1)[n]]
    BY <1>1
  <2> HIDE DEF v
  <2>3. Shape(F!Merge(g[k - 1], k - 1),
              [n \in Node |-> IF v(k - 1)[n] = Mx + (k - 1) THEN k - 1 ELSE v(k - 1)[n]])
    BY <1>2, <2>1, Merges DEF Mx
  <2> QED
    BY <1>6, <2>2, <2>3
<1>9. Mx \in Ts
  <2>1. Ts \in SUBSET (0 .. Mx)
    OBVIOUS
  <2> HIDE DEF Ts
  <2> QED
    BY <1>1, <1>7, <1>8, <2>1, Handed
<1>10. v(Mx) = Settled(u)
  BY <1>1 DEF Settled, Mx
<1>11. Shape(g[Mx], v(Mx))
  BY <1>9
<1> HIDE DEF v
<1> QED
  BY <1>5, <1>10, <1>11

-----------------------------------------------------------------------------
(* The nodes that links lead to.                                           *)
LEMMA AlongIs ==
  ASSUME FatAssumption, NEW link \in [Node -> Nodes], NEW n \in Nodes
  PROVE  LET path == F!Along(link, n) IN
         /\ path \in [0 .. Cardinality(Node) -> Nodes] /\ path[0] = n
         /\ \A k \in 1 .. Cardinality(Node) :
              path[k] = IF path[k - 1] = NULL THEN NULL ELSE link[path[k - 1]]
<1> DEFINE Cnt == Cardinality(Node)
           Step(a) == IF a = NULL THEN NULL ELSE link[a]
           Is(f) == f = [k \in 0 .. Cnt |-> IF k = 0 THEN n ELSE Step(f[k - 1])]
           op == [k \in 1 .. Cnt |-> [a \in Nodes |-> Step(a)]]
           g == CHOOSE f : Is(f)
<1>1. Cnt \in Nat
  BY FS_CardinalityType DEF FatAssumption
<1> HIDE DEF Cnt
<1>2. \A a \in Nodes : Step(a) \in Nodes
  BY DEF Nodes
<1> HIDE DEF Step
<1>3. op \in [1 .. Cnt -> [Nodes -> Nodes]]
  BY <1>2
<1>4. Is(g)
  <2>1. PICK f \in [0 .. Cnt -> Nodes] : f[0] = n /\ \A k \in 1 .. Cnt : f[k] = op[k][f[k - 1]]
    <3> HIDE DEF op
    <3>1. Chained(Cnt, Nodes)
      BY <1>1, Chain
    <3> QED
      BY <1>3, <3>1 DEF Chained
  <2>2. \A k \in 1 .. Cnt : op[k][f[k - 1]] = Step(f[k - 1])
    BY <1>1
  <2> HIDE DEF op
  <2>3. Is(f)
    BY <1>1, <2>1, <2>2
  <2> QED
    BY <2>3, Zenon
<1>5. F!Along(link, n) = g
  BY FatCardinality, Zenon DEF F!Along, Cnt, Step
<1> HIDE DEF g, op
<1>6. g[0] = n /\ \A k \in 1 .. Cnt : g[k] = Step(g[k - 1])
  BY <1>1, <1>4
<1>7. \A k \in 0 .. Cnt : g[k] \in Nodes
  <2> DEFINE Ts == {k \in 0 .. Cnt : g[k] \in Nodes}
  <2>1. Ts \in SUBSET (0 .. Cnt) /\ 0 \in Ts /\ \A k \in Ts : g[k] \in Nodes
    BY <1>1, <1>6
  <2>2. \A k \in 1 .. Cnt : k - 1 \in Ts => k \in Ts
    BY <1>1, <1>2, <1>6
  <2> HIDE DEF Ts
  <2> QED
    BY <1>1, <2>1, <2>2, Handed
<1>8. g \in [0 .. Cnt -> Nodes]
  BY <1>4, <1>7
<1> QED
  BY <1>5, <1>6, <1>8 DEF Cnt, Step

(* From the head on, a list is gone through once, and ends.                *)
LEMMA ForwardsIs ==
  ASSUME FatAssumption, NEW Ls, NEW w, NEW r, NEW c, Drawn(Ls, w, r, c), NEW l \in F!Lists
  PROVE  LET f == F!Forwards(Ls, l)
             Cnt == Cardinality(Node) IN
         /\ \A k \in 0 .. Cnt : f[k] # NULL => f[k] \in Node /\ w[f[k]] = l
         /\ \A k \in 0 .. Cnt : \A i \in 0 .. k - 1 : f[k] # NULL => f[i] # NULL /\ r[f[i]] < r[f[k]]
         /\ f[Cnt] = NULL
         /\ \A n \in Node : w[n] = l => \E k \in 0 .. Cnt : f[k] = n
<1> DEFINE f == F!Forwards(Ls, l)
           Cnt == Cardinality(Node)
<1>1. /\ PrevRight(Ls.prev, w, r) /\ Ranked(w, r, c) /\ HeadsRight(Ls.fhead, w, r, 0)
      /\ Ls.prev \in [Node -> Nodes] /\ Ls.fhead[l] \in Nodes
  BY DEF Drawn, Linkages
<1>2. /\ Cnt \in Nat /\ f \in [0 .. Cnt -> Nodes] /\ f[0] = Ls.fhead[l]
      /\ \A k \in 1 .. Cnt : f[k] = IF f[k - 1] = NULL THEN NULL ELSE Ls.prev[f[k - 1]]
  <2>1. Cnt \in Nat
    BY FS_CardinalityType DEF FatAssumption
  <2> QED
    BY <1>1, <2>1, AlongIs DEF F!Forwards
<1>3. r \in [Node -> Nat] /\ NULL \notin Node /\ l \in Nat
  BY <1>1 DEF Ranked, FatAssumption, F!Lists
<1> HIDE DEF f, Cnt
<1>4. /\ Ls.fhead[l] = NULL \/ w[Ls.fhead[l]] = l
      /\ \A m \in Node : w[m] = l => Ls.fhead[l] # NULL /\ r[Ls.fhead[l]] <= r[m]
  <2>1. l + 0 = l
    BY <1>3
  <2> QED
    BY <1>1, <2>1 DEF HeadsRight
<1>5. \A k \in 0 .. Cnt : f[k] # NULL => f[k] \in Node /\ w[f[k]] = l
  <2> DEFINE Ts == {k \in 0 .. Cnt : f[k] # NULL => f[k] \in Node /\ w[f[k]] = l}
  <2>1. 0 \in Ts
    BY <1>1, <1>2, <1>4 DEF Nodes
  <2>2. ASSUME NEW k \in 1 .. Cnt, k - 1 \in Ts PROVE k \in Ts
    BY <1>1, <1>2, <2>2 DEF Nodes, PrevRight
  <2>3. Ts \in SUBSET (0 .. Cnt) /\ \A k \in Ts : f[k] # NULL => f[k] \in Node /\ w[f[k]] = l
    OBVIOUS
  <2> HIDE DEF Ts
  <2> QED
    BY <1>2, <2>1, <2>2, <2>3, Handed
<1>6. \A k \in 0 .. Cnt : \A i \in 0 .. k - 1 : f[k] # NULL => f[i] # NULL /\ r[f[i]] < r[f[k]]
  <2> DEFINE Up(k) == \A i \in 0 .. k - 1 : f[k] # NULL => f[i] # NULL /\ r[f[i]] < r[f[k]]
             Ts == {k \in 0 .. Cnt : Up(k)}
  <2>1. 0 \in Ts
    BY <1>2
  <2>2. ASSUME NEW k \in 1 .. Cnt, k - 1 \in Ts PROVE k \in Ts
    <3> SUFFICES ASSUME NEW i \in 0 .. k - 1, f[k] # NULL PROVE f[i] # NULL /\ r[f[i]] < r[f[k]]
      BY <1>2
    <3>1. f[k - 1] # NULL /\ f[k - 1] \in Node /\ f[k] = Ls.prev[f[k - 1]] /\ f[k] \in Node
      BY <1>2, <1>5
    <3>2. r[f[k - 1]] < r[f[k]]
      BY <1>1, <3>1 DEF PrevRight
    <3>3. CASE i = k - 1
      BY <3>1, <3>2, <3>3
    <3>4. CASE i # k - 1
      <4>1. i \in 0 .. (k - 1) - 1 /\ Up(k - 1) /\ i \in 0 .. Cnt
        BY <1>2, <2>2, <3>4
      <4>2. f[i] # NULL /\ r[f[i]] < r[f[k - 1]] /\ f[i] \in Node
        BY <1>5, <3>1, <4>1
      <4> QED
        BY <1>3, <3>1, <3>2, <4>2
    <3> QED
      BY <3>3, <3>4
  <2>3. Ts \in SUBSET (0 .. Cnt) /\ \A k \in Ts : Up(k)
    OBVIOUS
  <2> HIDE DEF Ts
  <2>4. \A k \in 0 .. Cnt : k \in Ts
    BY <1>2, <2>1, <2>2, <2>3, Handed
  <2> QED
    BY <2>3, <2>4
<1>7. f[Cnt] = NULL
  <2> SUFFICES ASSUME f[Cnt] # NULL PROVE FALSE
    OBVIOUS
  <2>1. \A k \in 0 .. Cnt : f[k] # NULL
    BY <1>2, <1>6
  <2>2. f \in [0 .. Cnt -> Node]
    BY <1>2, <1>5, <2>1
  <2>3. IsFiniteSet(0 .. Cnt) /\ Cardinality(0 .. Cnt) = Cnt + 1
    BY <1>2, FS_Interval
  <2>4. IsFiniteSet(Node) /\ Cardinality(Node) < Cardinality(0 .. Cnt)
    BY <1>2, <2>3 DEF FatAssumption, Cnt
  <2>5. PICK i, k \in 0 .. Cnt : i # k /\ f[i] = f[k]
    BY <2>2, <2>3, <2>4, FS_PigeonHole
  <2>6. r[f[i]] \in Nat /\ r[f[k]] \in Nat
    BY <1>3, <2>2
  <2>7. CASE i < k
    BY <1>6, <2>1, <2>5, <2>6, <2>7
  <2>8. CASE k < i
    BY <1>6, <2>1, <2>5, <2>6, <2>8
  <2> QED
    BY <2>5, <2>7, <2>8
<1>8. ASSUME NEW n \in Node, w[n] = l PROVE \E k \in 0 .. Cnt : f[k] = n
  <2> SUFFICES ASSUME \A k \in 0 .. Cnt : f[k] # n PROVE FALSE
    OBVIOUS
  <2>0. \A m \in Node : m # n /\ w[m] = l => r[m] # r[n]
    BY <1>1, <1>3, <1>8 DEF Ranked
  <2> DEFINE Ts == {k \in 0 .. Cnt : f[k] # NULL /\ r[f[k]] < r[n]}
  <2>1. 0 \in Ts
    <3>1. f[0] # NULL /\ f[0] \in Node /\ w[f[0]] = l /\ r[f[0]] <= r[n] /\ f[0] # n
      BY <1>2, <1>4, <1>5, <1>8
    <3> QED
      BY <1>2, <1>3, <2>0, <3>1
  <2>2. ASSUME NEW k \in 1 .. Cnt, k - 1 \in Ts PROVE k \in Ts
    <3> DEFINE a == f[k - 1]
    <3>1. a # NULL /\ a \in Node /\ w[a] = l /\ r[a] < r[n] /\ f[k] = Ls.prev[a]
      BY <1>2, <1>5, <2>2
    <3>2. w[n] = w[a] /\ w[a] # -1
      BY <1>3, <1>8, <3>1
    <3>3. Ls.prev[a] # NULL /\ r[Ls.prev[a]] <= r[n]
      BY <1>1, <3>1, <3>2 DEF PrevRight
    <3>4. f[k] \in Node /\ w[f[k]] = l /\ f[k] # n
      BY <1>2, <1>5, <3>1, <3>3
    <3> QED
      BY <1>2, <1>3, <2>0, <3>1, <3>3, <3>4
  <2>3. Ts \in SUBSET (0 .. Cnt) /\ \A k \in Ts : f[k] # NULL
    OBVIOUS
  <2> HIDE DEF Ts
  <2>4. \A k \in 0 .. Cnt : k \in Ts
    BY <1>2, <2>1, <2>2, <2>3, Handed
  <2>5. Cnt \in 0 .. Cnt
    BY <1>2
  <2> QED
    BY <1>7, <2>3, <2>4, <2>5
<1> QED
  BY <1>5, <1>6, <1>7, <1>8 DEF f, Cnt

(* On list l are the nodes whose place it is.                              *)
LEMMA OnListIs ==
  ASSUME FatAssumption, NEW Ls, NEW w, NEW r, NEW c, Drawn(Ls, w, r, c), NEW l \in F!Lists
  PROVE  F!OnList(Ls, l) = {n \in Node : w[n] = l}
<1> DEFINE f == F!Forwards(Ls, l)
           Cnt == Cardinality(Node)
<1>1. /\ \A k \in 0 .. Cnt : f[k] # NULL => f[k] \in Node /\ w[f[k]] = l
      /\ \A n \in Node : w[n] = l => \E k \in 0 .. Cnt : f[k] = n
  BY ForwardsIs
<1>2. F!OnList(Ls, l) = {f[k] : k \in 0 .. Cnt} \ {NULL}
  BY FatCardinality DEF F!OnList
<1> HIDE DEF f, Cnt
<1> QED
  BY <1>1, <1>2 DEF FatAssumption

(* From the tail on, it is the same list in the other order.               *)
LEMMA BothWaysIs ==
  ASSUME FatAssumption, NEW Ls, NEW w, NEW r, NEW c, Drawn(Ls, w, r, c), NEW l \in F!Lists
  PROVE  F!BothWays(Ls, l)
<1> DEFINE f == F!Forwards(Ls, l)
           b == F!Backwards(Ls, l)
           Cnt == Cardinality(Node)
<1>1. /\ NextRight(Ls.next, w, r) /\ Ranked(w, r, c) /\ TailsRight(Ls.ftail, w, r, 0)
      /\ HeadsRight(Ls.fhead, w, r, 0)
      /\ Ls.next \in [Node -> Nodes] /\ Ls.ftail[l] \in Nodes /\ Ls.prev \in [Node -> Nodes]
      /\ Ls.fhead[l] \in Nodes
  BY DEF Drawn, Linkages
<1>2. Cnt \in Nat
  BY FS_CardinalityType DEF FatAssumption
<1>3. /\ b \in [0 .. Cnt -> Nodes] /\ b[0] = Ls.ftail[l]
      /\ \A k \in 1 .. Cnt : b[k] = IF b[k - 1] = NULL THEN NULL ELSE Ls.next[b[k - 1]]
  BY <1>1, <1>2, AlongIs DEF F!Backwards
<1>4. /\ f \in [0 .. Cnt -> Nodes] /\ f[0] = Ls.fhead[l]
      /\ \A k \in 1 .. Cnt : f[k] = IF f[k - 1] = NULL THEN NULL ELSE Ls.prev[f[k - 1]]
  BY <1>1, <1>2, AlongIs DEF F!Forwards
<1>5. /\ \A k \in 0 .. Cnt : f[k] # NULL => f[k] \in Node /\ w[f[k]] = l
      /\ \A k \in 0 .. Cnt : \A i \in 0 .. k - 1 : f[k] # NULL => f[i] # NULL /\ r[f[i]] < r[f[k]]
      /\ f[Cnt] = NULL
      /\ \A n \in Node : w[n] = l => \E k \in 0 .. Cnt : f[k] = n
  BY ForwardsIs
<1>6. r \in [Node -> Nat] /\ NULL \notin Node /\ l \in Nat
  BY <1>1 DEF Ranked, FatAssumption, F!Lists
<1>7. F!BothWays(Ls, l) = \E len \in 0 .. Cnt :
        /\ \A k \in 0 .. Cnt : (f[k] # NULL <=> k < len) /\ (b[k] # NULL <=> k < len)
        /\ \A k \in 0 .. len - 1 : b[k] = f[len - 1 - k]
  BY FatCardinality DEF F!BothWays
<1> HIDE DEF f, b, Cnt
<1>8. PICK len \in 0 .. Cnt : f[len] = NULL /\ \A k \in 0 .. Cnt : f[k] = NULL => len <= k
  <2> DEFINE E == {k \in 0 .. Cnt : f[k] = NULL}
  <2>1. E \in SUBSET Nat /\ E # {}
    BY <1>2, <1>5
  <2>2. PICK len \in E : \A k \in E : len <= k
    <3> HIDE DEF E
    <3> QED
      BY <2>1, Least
  <2> QED
    BY <2>2
<1>9. \A k \in 0 .. Cnt : f[k] # NULL <=> k < len
  <2> SUFFICES ASSUME NEW k \in 0 .. Cnt PROVE f[k] # NULL <=> k < len
    OBVIOUS
  <2>1. k < len => f[k] # NULL
    BY <1>2, <1>8
  <2>2. len < k => f[k] = NULL
    <3>1. len < k => len \in 0 .. k - 1
      BY <1>2
    <3> QED
      BY <1>5, <1>8, <3>1
  <2> QED
    BY <1>2, <1>8, <2>1, <2>2
<1>10. /\ Ls.ftail[l] = NULL \/ (Ls.ftail[l] \in Node /\ w[Ls.ftail[l]] = l)
       /\ \A m \in Node : w[m] = l => Ls.ftail[l] # NULL /\ r[m] <= r[Ls.ftail[l]]
       /\ \A m \in Node : w[m] = l => Ls.fhead[l] # NULL /\ r[Ls.fhead[l]] <= r[m]
  <2>1. l + 0 = l
    BY <1>6
  <2> QED
    BY <1>1, <2>1 DEF HeadsRight, TailsRight, Nodes
<1>11. \A k \in 0 .. len - 1 : b[k] = f[len - 1 - k]
  <2> SUFFICES ASSUME len # 0 PROVE \A k \in 0 .. len - 1 : b[k] = f[len - 1 - k]
    BY <1>2
  <2> DEFINE Ts == {k \in 0 .. len - 1 : b[k] = f[len - 1 - k]}
  <2>0. len - 1 \in Nat /\ len - 1 \in 0 .. Cnt /\ len \in 0 .. Cnt
    BY <1>2
  <2>1. 0 \in Ts
    <3> DEFINE last == f[len - 1]
               t == Ls.ftail[l]
    <3>1. last # NULL /\ last \in Node /\ w[last] = l
      BY <1>2, <1>5, <1>9, <2>0
    <3>2. t # NULL /\ t \in Node /\ w[t] = l /\ r[last] <= r[t]
      BY <1>10, <3>1
    <3>3. PICK j \in 0 .. Cnt : f[j] = t
      BY <1>5, <3>2
    <3>4. j < len
      BY <1>9, <3>2, <3>3
    <3>5. j = len - 1
      <4> SUFFICES ASSUME j # len - 1 PROVE FALSE
        OBVIOUS
      <4>1. j \in 0 .. (len - 1) - 1
        BY <1>2, <3>4
      <4>2. r[t] < r[last]
        BY <1>5, <2>0, <3>1, <3>3, <4>1
      <4> QED
        BY <1>6, <3>1, <3>2, <4>2
    <3>6. b[0] = f[len - 1 - 0] /\ 0 \in 0 .. len - 1
      BY <1>2, <1>3, <2>0, <3>3, <3>5
    <3> QED
      BY <3>6
  <2>2. ASSUME NEW k \in 1 .. len - 1, k - 1 \in Ts PROVE k \in Ts
    <3> DEFINE j == len - 1 - k
    <3>1. j \in 0 .. Cnt /\ j + 1 \in 1 .. Cnt /\ j < len /\ j + 1 < len /\ len - 1 - (k - 1) = j + 1
          /\ k \in 1 .. Cnt /\ k \in 0 .. len - 1
      BY <1>2
    <3>2. b[k - 1] = f[j + 1]
      BY <2>2, <3>1
    <3> HIDE DEF j
    <3>3. j + 1 \in 0 .. Cnt /\ (j + 1) - 1 = j
      BY <1>2, <3>1
    <3>4. f[j] # NULL /\ f[j] \in Node /\ f[j + 1] # NULL /\ f[j + 1] \in Node
      BY <1>5, <1>9, <3>1, <3>3
    <3>5. Ls.prev[f[j]] = f[j + 1]
      BY <1>4, <3>1, <3>3, <3>4
    <3>6. Ls.next[f[j + 1]] = f[j]
      BY <3>4, <3>5, Mutual
    <3>7. b[k] = f[j]
      BY <1>3, <3>1, <3>2, <3>4, <3>6
    <3> QED
      BY <3>1, <3>7 DEF j
  <2>3. Ts \in SUBSET (0 .. len - 1) /\ \A k \in Ts : b[k] = f[len - 1 - k]
    OBVIOUS
  <2> HIDE DEF Ts
  <2> QED
    BY <2>0, <2>1, <2>2, <2>3, Handed
<1>12. b[len] = NULL
  <2>1. CASE len = 0
    <3>1. Ls.fhead[l] = NULL
      BY <1>4, <1>8, <2>1
    <3>2. Ls.ftail[l] = NULL
      BY <1>10, <3>1
    <3> QED
      BY <1>3, <2>1, <3>2
  <2>2. CASE len # 0
    <3> DEFINE h == Ls.fhead[l]
    <3>1. len \in 1 .. Cnt /\ len - 1 \in 0 .. len - 1 /\ len - 1 - (len - 1) = 0 /\ 0 \in 0 .. Cnt /\ 0 < len
      BY <1>2, <2>2
    <3>2. b[len - 1] = f[0]
      BY <1>11, <3>1
    <3>3. f[0] = h /\ h # NULL /\ h \in Node /\ w[h] = l
      BY <1>4, <1>5, <1>9, <3>1
    <3>4. b[len] = Ls.next[h]
      BY <1>3, <3>1, <3>2, <3>3
    <3>5. Ls.next[h] = NULL \/ (Ls.next[h] \in Node /\ w[Ls.next[h]] = w[h] /\ r[Ls.next[h]] < r[h])
      BY <1>1, <3>3 DEF NextRight, Nodes
    <3> QED
      BY <1>6, <1>10, <3>3, <3>4, <3>5
  <2> QED
    BY <2>1, <2>2
<1>13. \A k \in 0 .. Cnt : b[k] # NULL <=> k < len
  <2>1. \A k \in 0 .. Cnt : k < len => b[k] # NULL
    <3> SUFFICES ASSUME NEW k \in 0 .. Cnt, k < len PROVE b[k] # NULL
      OBVIOUS
    <3>1. k \in 0 .. len - 1 /\ len - 1 - k \in 0 .. Cnt /\ len - 1 - k < len
      BY <1>2
    <3> QED
      BY <1>9, <1>11, <3>1
  <2> DEFINE Ts == {k \in 0 .. Cnt : ~(k < len) => b[k] = NULL}
  <2>2. 0 \in Ts
    BY <1>2, <1>12
  <2>3. ASSUME NEW k \in 1 .. Cnt, k - 1 \in Ts PROVE k \in Ts
    <3>1. CASE k < len
      BY <1>2, <3>1
    <3>2. CASE k = len
      BY <1>2, <1>12, <3>2
    <3>3. CASE len < k
      <4>1. ~(k - 1 < len)
        BY <1>2, <3>3
      <4>2. b[k - 1] = NULL
        BY <2>3, <4>1
      <4>3. b[k] = NULL
        BY <1>3, <4>2
      <4> QED
        BY <1>2, <4>3
    <3> QED
      BY <1>2, <3>1, <3>2, <3>3
  <2>4. Ts \in SUBSET (0 .. Cnt) /\ \A k \in Ts : ~(k < len) => b[k] = NULL
    OBVIOUS
  <2> HIDE DEF Ts
  <2>5. \A k \in 0 .. Cnt : k \in Ts
    BY <1>2, <2>2, <2>3, <2>4, Handed
  <2> QED
    BY <2>1, <2>4, <2>5
<1> QED
  BY <1>7, <1>9, <1>11, <1>13

(* Lists in order are sound.                                               *)
LEMMA ShapeSound ==
  ASSUME FatAssumption, NEW w, Shape(links, w), \A n \in Node : w[n] < MAX_FAT_LIST
  PROVE  /\ F!ListsSound
         /\ \A n \in Node : w[n] >= 0 => \E l \in F!Lists : n \in F!OnList(links, l)
<1>1. PICK r, c : Drawn(links, w, r, c)
  BY DEF Shape
<1>2. \A l \in F!Lists : F!BothWays(links, l) /\ F!OnList(links, l) = {n \in Node : w[n] = l}
  BY <1>1, BothWaysIs, OnListIs
<1>3. /\ \A n \in Node : w[n] >= 0 => w[n] \in F!Lists
      /\ \A n \in Node : ~(w[n] >= 0) => w[n] = -1
  BY ShapeIs DEF F!Lists, FatAssumption
<1>4. \A n \in Node : w[n] >= 0 => \E l \in F!Lists : n \in F!OnList(links, l)
  BY <1>2, <1>3
<1>5. \A l, k \in F!Lists : l # k => F!OnList(links, l) \cap F!OnList(links, k) = {}
  BY <1>2
<1>6. ASSUME NEW n \in Node, \A l \in F!Lists : n \notin F!OnList(links, l)
      PROVE  links.prev[n] = NULL /\ links.next[n] = NULL
  <2>1. w[n] = -1
    BY <1>3, <1>4, <1>6
  <2> QED
    BY <1>1, <2>1 DEF Drawn, PrevRight, NextRight
<1> QED
  BY <1>2, <1>4, <1>5, <1>6 DEF F!ListsSound

-----------------------------------------------------------------------------
(* The invariant.  Between two updates nothing is in a temporary list; in  *)
(* fat mode, what the client has missed has been sent in vain more often   *)
(* than it has moved on.                                                   *)
Words == {"true", "false", F!Invalid}

(* What must be sent again, in any mode if it was last sent in fat mode.   *)
Owes(n) == n \in queued \/ (udpMode = "FAT" /\ n \notin Retained)

(* What must be sent again and the client has missed is in a place it has  *)
(* not yet been sent again from as often as it was lost.                   *)
Waits(w) ==
  \A n \in Node : F!Missed(n) /\ Owes(n) /\ lost[n] <= MAX_FAT_LIST =>
                  0 <= w[n] /\ w[n] + 1 <= lost[n]

(* Between two steps the temporary lists are empty.                        *)
Placed(w) ==
  /\ Shape(links, w) /\ \A n \in Node : w[n] < MAX_FAT_LIST
  /\ Waits(w)

FatTypes ==
  /\ packet \in [Node -> Words] /\ seen \in [Node -> Words] /\ lost \in [Node -> Nat]
  /\ clientDead \in BOOLEAN

FatInv ==
  /\ FatTypes
  /\ clientDead => udpMode # "FAT"
  /\ \E w : Placed(w)

(* A request for fat mode is given the full update it asks for, and no     *)
(* client dies in it.                                                      *)
FatGiven == FatAnswers \subseteq {"given"} /\ "FAT" \notin Mortal

(* Lists that are empty are in order.                                      *)
LEMMA NoLinksShape ==
  ASSUME FatAssumption
  PROVE  Shape(F!NoLinks, [n \in Node |-> -1])
<1> DEFINE w == [n \in Node |-> -1]
           r == [n \in Node |-> 0]
           Ls == F!NoLinks
           None0 == [n \in Node |-> NULL]
<1>1. /\ Ls.prev = None0 /\ Ls.next = None0 /\ Ls.fhead = F!Empty /\ Ls.ftail = F!Empty
      /\ Ls.thead = F!Empty /\ Ls.ttail = F!Empty
  BY DEF F!NoLinks
<1>2. Ls \in Linkages
  BY DEF F!NoLinks, F!Empty, Linkages, Nodes
<1>3. \A l \in F!Lists : F!Empty[l] = NULL
  BY DEF F!Empty
<1>4. \A n \in Node : None0[n] = NULL
  OBVIOUS
<1>5. w \in [Node -> -1 .. 2 * MAX_FAT_LIST - 1] /\ \A n \in Node : w[n] = -1
  <2>1. -1 \in -1 .. 2 * MAX_FAT_LIST - 1
    BY DEF FatAssumption
  <2>2. \A n \in Node : w[n] = -1
    OBVIOUS
  <2> QED
    BY <2>1, <2>2
<1>6. r \in [Node -> Nat] /\ \A n \in Node : r[n] = 0
  OBVIOUS
<1> HIDE DEF w, r, Ls, None0
<1>7. MAX_FAT_LIST \in Nat \ {0} /\ \A l \in F!Lists : l \in Nat
  BY DEF F!Lists, FatAssumption
<1>8. Ranked(w, r, 1)
  BY <1>5, <1>6, <1>7 DEF Ranked
<1>9. PrevRight(Ls.prev, w, r) /\ NextRight(Ls.next, w, r)
  BY <1>1, <1>4, <1>5 DEF PrevRight, NextRight
<1>10. /\ HeadsRight(Ls.fhead, w, r, 0) /\ TailsRight(Ls.ftail, w, r, 0)
       /\ HeadsRight(Ls.thead, w, r, MAX_FAT_LIST) /\ TailsRight(Ls.ttail, w, r, MAX_FAT_LIST)
  BY <1>1, <1>3, <1>5, <1>7 DEF HeadsRight, TailsRight
<1> QED
  BY <1>2, <1>8, <1>9, <1>10 DEF Shape, Drawn, w, Ls

(* The process starts with empty lists, in no fat mode.                    *)
LEMMA FatInit ==
  ASSUME FatAssumption, F!Init
  PROVE  FatInv
<1>1. FatTypes /\ clientDead = FALSE /\ links = F!NoLinks
  BY DEF F!Init, FatTypes, Words
<1>2. \A n \in Node : ~Owes(n)
  BY DEF F!Init, Owes
<1>3. \A n \in Node : [m \in Node |-> -1][n] < MAX_FAT_LIST
  BY DEF FatAssumption
<1>4. Placed([n \in Node |-> -1])
  BY <1>1, <1>2, <1>3, NoLinksShape DEF Placed, Waits
<1> QED
  BY <1>1, <1>4 DEF FatInv

(* What is written in the packets of an update, and what is believed.      *)
LEMMA TellTypes ==
  ASSUME FatTypes, NEW sent, NEW arrived, F!Tell(sent, arrived)
  PROVE  /\ packet' \in [Node -> Words] /\ seen' \in [Node -> Words] /\ lost' \in [Node -> Nat]
         /\ \A n \in Node : packet'[n] = "true"
         /\ \A n \in arrived \cap Node : seen'[n] = "true"
         /\ \A n \in Node \ arrived : seen'[n] = seen[n]
         /\ \A n \in (Node \cap F!Changed) \ arrived : lost'[n] = 1
         /\ \A n \in Node \ (arrived \cup F!Changed) :
              lost'[n] = IF n \in sent /\ lost[n] <= MAX_FAT_LIST THEN lost[n] + 1 ELSE lost[n]
         /\ queued' = IF F!ByUdp /\ udpMode = "FAT" THEN queued \cup F!Changed ELSE queued \ F!Changed
BY DEF F!Tell, FatTypes, Words

(* What must be sent again after an update has moved on as often as it has *)
(* been lost.                                                              *)
LEMMA TellWaits ==
  ASSUME FatAssumption, FatTypes, NEW w, w \in [Node -> -1 .. 2 * MAX_FAT_LIST - 1], Waits(w),
         NEW Again, NEW arrived, F!Tell(F!Changed \cup Again, arrived), udpMode' = udpMode, NEW u,
         \A n \in Node : n \in F!Changed => n \in arrived \/ u[n] = 0 \/ ~Owes(n)',
         \A n \in Node \ F!Changed : n \in Again => 0 <= w[n] /\ u[n] = IF w[n] + 1 = MAX_FAT_LIST THEN -1 ELSE w[n] + 1,
         \A n \in Node \ F!Changed : n \notin Again => u[n] = w[n]
  PROVE  Waits(u)'
<1> SUFFICES ASSUME NEW n \in Node, F!Missed(n)', Owes(n)', lost'[n] <= MAX_FAT_LIST
             PROVE  0 <= u[n] /\ u[n] + 1 <= lost'[n]
  BY DEF Waits
<1>0. lost[n] \in Nat /\ w[n] \in Int /\ MAX_FAT_LIST \in Nat \ {0}
  BY DEF FatTypes, FatAssumption
<1>1. packet'[n] = "true" /\ seen'[n] # "true" /\ n \notin arrived
  BY TellTypes DEF F!Missed
<1>2. CASE n \in F!Changed
  <2>1. lost'[n] = 1 /\ u[n] = 0
    BY <1>1, <1>2, TellTypes
  <2> QED
    BY <2>1
<1>3. CASE n \notin F!Changed
  <2>1. packet[n] = "true" /\ seen[n] # "true"
    BY <1>1, <1>3, TellTypes DEF F!Changed
  <2>2. F!Missed(n) /\ Owes(n)
    <3>1. F!Missed(n)
      BY <2>1 DEF F!Missed, F!Invalid
    <3>2. n \in queued' => n \in queued
      BY <1>3, TellTypes
    <3> QED
      BY <3>1, <3>2 DEF Owes
  <2>3. lost'[n] = IF n \in F!Changed \cup Again /\ lost[n] <= MAX_FAT_LIST THEN lost[n] + 1 ELSE lost[n]
    BY <1>1, <1>3, TellTypes
  <2>4. lost[n] <= MAX_FAT_LIST
    BY <1>0, <2>3
  <2>5. 0 <= w[n] /\ w[n] + 1 <= lost[n]
    BY <2>2, <2>4 DEF Waits
  <2>6. CASE n \in Again
    <3>1. lost'[n] = lost[n] + 1 /\ u[n] = IF w[n] + 1 = MAX_FAT_LIST THEN -1 ELSE w[n] + 1
      BY <1>3, <2>3, <2>4, <2>6
    <3> QED
      BY <1>0, <2>5, <3>1
  <2>7. CASE n \notin Again
    BY <1>0, <1>3, <2>3, <2>5, <2>7
  <2> QED
    BY <2>6, <2>7
<1> QED
  BY <1>2, <1>3

(* An update in fat mode: X is what is noted of it, and what is not noted  *)
(* arrives; of the rest any part arrives.                                  *)
LEMMA FatUpdate ==
  ASSUME FatAssumption, FatTypes, udpMode = "FAT", NEW w, Placed(w),
         NEW X, X \subseteq F!Changed, NEW Ls,
         Shape(Ls, [n \in Node |-> IF n \in X THEN MAX_FAT_LIST ELSE w[n]]),
         NEW dgram, dgram \in {F!NotFattened(Ls), F!fatten(Ls)},
         NEW arrived, F!Changed \ X \subseteq arrived, F!Tell(F!Changed \cup dgram.sent, arrived),
         links' = F!fatMerge(dgram.links), udpMode' = udpMode
  PROVE  \E u : Placed(u)'
<1>2. (\A n \in Node : w[n] < MAX_FAT_LIST) /\ Waits(w)
      /\ w \in [Node -> -1 .. 2 * MAX_FAT_LIST - 1] /\ MAX_FAT_LIST \in Nat \ {0}
  BY ShapeIs DEF Placed, FatAssumption
<1> DEFINE v == [n \in Node |-> IF n \in X THEN MAX_FAT_LIST ELSE w[n]]
           Again == dgram.sent
           u == Settled(After(v, Again))
<1>3. Shape(Ls, v)
  OBVIOUS
<1>4. v \in [Node -> -1 .. 2 * MAX_FAT_LIST - 1]
  BY <1>2
<1>5. SentRight(v, dgram)
  <2>1. SentRight(v, F!fatten(Ls))
    <3> HIDE DEF v
    <3> QED
      BY <1>3, FattenRight
  <2>2. SentRight(v, F!NotFattened(Ls))
    <3> DEFINE x == F!NotFattened(Ls)
    <3>1. x.links = Ls /\ x.sent = {}
      BY DEF F!NotFattened
    <3>2. After(v, {}) = v
      BY <1>4 DEF After
    <3> HIDE DEF x, v
    <3> QED
      BY <1>3, <3>1, <3>2 DEF SentRight, x
  <2> QED
    BY <2>1, <2>2
<1>6. Again \in SUBSET Node /\ (\A n \in Again : v[n] \in F!Lists) /\ Shape(dgram.links, After(v, Again))
  BY <1>5 DEF SentRight
<1>7. Shape(links', u)
  BY <1>6, MergedRight
<1>8. \A n \in Node : v[n] = IF n \in X THEN MAX_FAT_LIST ELSE w[n]
  OBVIOUS
<1> HIDE DEF v, Again
<1>9. \A n \in Node : n \in X => n \notin Again /\ u[n] = 0
  <2> SUFFICES ASSUME NEW n \in Node, n \in X PROVE n \notin Again /\ u[n] = 0
    OBVIOUS
  <2>1. v[n] = MAX_FAT_LIST /\ n \notin Again
    BY <1>2, <1>6, <1>8 DEF F!Lists
  <2>2. After(v, Again)[n] = MAX_FAT_LIST
    BY <2>1 DEF After
  <2> QED
    BY <1>2, <2>1, <2>2 DEF Settled
<1>10. ASSUME NEW n \in Node \ X, n \in Again
       PROVE  0 <= w[n] /\ u[n] = IF w[n] + 1 = MAX_FAT_LIST THEN -1 ELSE w[n] + 1
  <2>1. v[n] = w[n] /\ w[n] \in 0 .. MAX_FAT_LIST - 1
    BY <1>6, <1>8, <1>10 DEF F!Lists
  <2>2. After(v, Again)[n] = IF w[n] + 1 = MAX_FAT_LIST THEN -1 ELSE MAX_FAT_LIST + w[n] + 1
    BY <1>10, <2>1 DEF After
  <2>3. CASE w[n] + 1 = MAX_FAT_LIST
    <3>1. After(v, Again)[n] = -1
      BY <2>2, <2>3
    <3>2. ~(-1 >= MAX_FAT_LIST)
      BY <1>2
    <3>3. u[n] = -1
      BY <3>1, <3>2 DEF Settled
    <3> QED
      BY <2>1, <2>3, <3>3
  <2>4. CASE w[n] + 1 # MAX_FAT_LIST
    <3> DEFINE z == MAX_FAT_LIST + w[n] + 1
    <3>1. After(v, Again)[n] = z
      BY <2>2, <2>4
    <3>2. z >= MAX_FAT_LIST /\ z - MAX_FAT_LIST = w[n] + 1
      BY <1>2, <2>1
    <3> HIDE DEF z
    <3>4. u[n] = z - MAX_FAT_LIST
      <4>1. u[n] = IF After(v, Again)[n] >= MAX_FAT_LIST THEN After(v, Again)[n] - MAX_FAT_LIST ELSE After(v, Again)[n]
        BY DEF Settled
      <4> QED
        BY <3>1, <3>2, <4>1
    <3>5. u[n] = w[n] + 1
      BY <3>2, <3>4
    <3> QED
      BY <2>1, <2>4, <3>5
  <2> QED
    BY <2>3, <2>4
<1>11. ASSUME NEW n \in Node \ X, n \notin Again
       PROVE  u[n] = w[n]
  <2>1. After(v, Again)[n] = w[n]
    BY <1>8, <1>11 DEF After
  <2> QED
    BY <1>2, <2>1 DEF Settled
<1> HIDE DEF u
<1>12. \A n \in Node : u[n] < MAX_FAT_LIST
  <2> SUFFICES ASSUME NEW n \in Node PROVE u[n] < MAX_FAT_LIST
    OBVIOUS
  <2>1. w[n] \in Int /\ w[n] < MAX_FAT_LIST
    BY <1>2
  <2>2. CASE n \in X
    BY <1>2, <1>9, <2>2
  <2>3. CASE n \notin X /\ n \in Again
    BY <1>2, <1>10, <2>1, <2>3
  <2>4. CASE n \notin X /\ n \notin Again
    BY <1>11, <2>1, <2>4
  <2> QED
    BY <2>2, <2>3, <2>4
<1>13. PICK z : z = u
  OBVIOUS
<1>14. Waits(z)'
  <2>1. \A n \in Node : n \in F!Changed => n \in arrived \/ z[n] = 0 \/ ~Owes(n)'
    BY <1>9, <1>13
  <2>2. /\ \A n \in Node \ F!Changed : n \in Again =>
             0 <= w[n] /\ z[n] = IF w[n] + 1 = MAX_FAT_LIST THEN -1 ELSE w[n] + 1
        /\ \A n \in Node \ F!Changed : n \notin Again => z[n] = w[n]
    BY <1>10, <1>11, <1>13
  <2>3. F!Tell(F!Changed \cup Again, arrived)
    BY DEF Again
  <2> QED
    BY <1>2, <2>1, <2>2, <2>3, TellWaits
<1>15. Shape(links', z) /\ \A n \in Node : z[n] < MAX_FAT_LIST
  BY <1>7, <1>12, <1>13
<1>16. Placed(z)'
  BY <1>14, <1>15 DEF Placed
<1> QED
  BY <1>16

(* In no fat mode the lists are left as they are, and what is sent anew is *)
(* not on them.                                                            *)
LEMMA OtherUpdate ==
  ASSUME FatAssumption, FatTypes, udpMode # "FAT", NEW w, Placed(w),
         NEW arrived, F!Tell(F!Changed, arrived), links' = links, udpMode' = udpMode
  PROVE  Placed(w)'
<1>1. Shape(links, w) /\ (\A n \in Node : w[n] < MAX_FAT_LIST) /\ Waits(w)
      /\ w \in [Node -> -1 .. 2 * MAX_FAT_LIST - 1]
  BY ShapeIs DEF Placed
<1>2. F!Tell(F!Changed \cup {}, arrived)
  <2>1. F!Changed \cup {} = F!Changed
    OBVIOUS
  <2> QED
    BY <2>1
<1>3. \A n \in Node : n \in F!Changed => ~Owes(n)'
  BY TellTypes DEF Owes
<1>4. Waits(w)'
  BY <1>1, <1>2, <1>3, TellWaits
<1> QED
  BY <1>1, <1>4 DEF Placed

(* What has been sent, what of it has arrived and what has become of the   *)
(* lists when the buffers have been flushed.                               *)
LEMMA Flushed ==
  ASSUME NEW dgram, NEW sure, sure \subseteq F!Changed \cup dgram.sent, F!flushSockBuf(dgram, sure)
  PROVE  /\ links' = IF udpMode = "FAT" THEN F!fatMerge(dgram.links) ELSE dgram.links
         /\ \E arrived : sure \subseteq arrived /\ F!Tell(F!Changed \cup dgram.sent, arrived)
         /\ udpMode' = udpMode /\ clientDead' = clientDead
<1>1. \/ \E arrived \in SUBSET (F!Changed \cup dgram.sent) :
           sure \subseteq arrived /\ F!Tell(F!Changed \cup dgram.sent, arrived) /\ UNCHANGED F!modes
      \/ F!Tell(F!Changed \cup dgram.sent, sure) /\ F!Disconnected
  BY DEF F!flushSockBuf
<1>2. CASE \E arrived \in SUBSET (F!Changed \cup dgram.sent) :
             sure \subseteq arrived /\ F!Tell(F!Changed \cup dgram.sent, arrived) /\ UNCHANGED F!modes
  BY <1>2 DEF F!modes, F!flushSockBuf
<1>3. CASE F!Tell(F!Changed \cup dgram.sent, sure) /\ F!Disconnected
  BY <1>3 DEF F!Disconnected, F!flushSockBuf
<1> QED
  BY <1>1, <1>2, <1>3

(* An update by TCP: all that is new arrives.                              *)
LEMMA ByTcpKeeps ==
  ASSUME FatAssumption, FatInv, F!UpdateByTcp
  PROVE  FatInv'
<1>1. PICK w : Placed(w)
  BY DEF FatInv
<1>2. PICK dgram : /\ dgram = IF udpMode = "FAT" /\ udpSock = "open" THEN F!fatten(links) ELSE F!NotFattened(links)
                   /\ F!flushSockBuf(dgram, F!Changed)
  BY DEF F!UpdateByTcp
<1> PICK new : new = F!Changed
  OBVIOUS
<1>3. /\ links' = IF udpMode = "FAT" THEN F!fatMerge(dgram.links) ELSE dgram.links
      /\ \E arrived : F!Changed \subseteq arrived /\ F!Tell(F!Changed \cup dgram.sent, arrived)
      /\ udpMode' = udpMode /\ clientDead' = clientDead
  <2>1. new \subseteq F!Changed \cup dgram.sent
    OBVIOUS
  <2>2. F!flushSockBuf(dgram, new)
    BY <1>2
  <2>3. /\ links' = IF udpMode = "FAT" THEN F!fatMerge(dgram.links) ELSE dgram.links
        /\ \E arrived : new \subseteq arrived /\ F!Tell(F!Changed \cup dgram.sent, arrived)
        /\ udpMode' = udpMode /\ clientDead' = clientDead
    BY <2>1, <2>2, Flushed
  <2> QED
    BY <2>3
<1>4. PICK arrived : F!Changed \subseteq arrived /\ F!Tell(F!Changed \cup dgram.sent, arrived)
  BY <1>3
<1>5. FatTypes /\ FatTypes'
  BY <1>3, <1>4, TellTypes DEF FatTypes, FatInv
<1>6. \E u : Placed(u)'
  <2>1. CASE udpMode = "FAT"
    <3> PICK none : none = {}
      OBVIOUS
    <3>1. Shape(links, [n \in Node |-> IF n \in none THEN MAX_FAT_LIST ELSE w[n]])
      <4>1. Shape(links, w) /\ w \in [Node -> -1 .. 2 * MAX_FAT_LIST - 1]
        BY <1>1, ShapeIs DEF Placed
      <4>2. [n \in Node |-> IF n \in none THEN MAX_FAT_LIST ELSE w[n]] = w
        BY <4>1
      <4> QED
        BY <4>1, <4>2
    <3>2. none \subseteq F!Changed /\ F!Changed \ none \subseteq arrived
      BY <1>4
    <3>3. dgram \in {F!NotFattened(links), F!fatten(links)}
      BY <1>2
    <3>4. links' = F!fatMerge(dgram.links)
      BY <1>3, <2>1
    <3> QED
      BY <1>1, <1>3, <1>4, <1>5, <2>1, <3>1, <3>2, <3>3, <3>4, FatUpdate
  <2>2. CASE udpMode # "FAT"
    <3>1. dgram.links = links /\ F!Changed \cup dgram.sent = F!Changed
      BY <1>2, <2>2 DEF F!NotFattened
    <3>2. F!Tell(F!Changed, arrived) /\ links' = links
      BY <1>3, <1>4, <2>2, <3>1
    <3>3. Placed(w)'
      BY <1>1, <1>3, <1>5, <2>2, <3>2, OtherUpdate
    <3> QED
      BY <3>3
  <2> QED
    BY <2>1, <2>2
<1> QED
  BY <1>3, <1>5, <1>6 DEF FatInv

(* An update by UDP, whatever of it arrives.                               *)
LEMMA ByUdpKeeps ==
  ASSUME FatAssumption, FatInv, F!UpdateByUdp
  PROVE  FatInv'
<1>1. PICK w : Placed(w)
  BY DEF FatInv
<1>2. PICK dgram \in (IF udpMode = "FAT" THEN {F!NotFattened(F!Noted), F!fatten(F!Noted)}
                    ELSE {F!NotFattened(links)}) : F!flushSockBuf(dgram, {})
  BY Zenon DEF F!UpdateByUdp
<1>3. /\ links' = IF udpMode = "FAT" THEN F!fatMerge(dgram.links) ELSE dgram.links
      /\ \E arrived : F!Tell(F!Changed \cup dgram.sent, arrived)
      /\ udpMode' = udpMode /\ clientDead' = clientDead
  <2>1. {} \subseteq F!Changed \cup dgram.sent
    OBVIOUS
  <2> QED
    BY <1>2, <2>1, Flushed
<1>4. PICK arrived : F!Tell(F!Changed \cup dgram.sent, arrived)
  BY <1>3
<1>5. FatTypes /\ FatTypes'
  BY <1>3, <1>4, TellTypes DEF FatTypes, FatInv
<1>6. \E u : Placed(u)'
  <2>1. CASE udpMode = "FAT"
    <3>1. Shape(F!Noted, [n \in Node |-> IF n \in F!Changed THEN MAX_FAT_LIST ELSE w[n]])
      <4>1. Shape(links, w) /\ (\A n \in Node : w[n] < MAX_FAT_LIST)
            /\ w \in [Node -> -1 .. 2 * MAX_FAT_LIST - 1]
        BY <1>1, ShapeIs DEF Placed
      <4> QED
        BY <4>1, <2>1, NotedShape
    <3>2. F!Changed \subseteq F!Changed /\ F!Changed \ F!Changed \subseteq arrived
      OBVIOUS
    <3>3. dgram \in {F!NotFattened(F!Noted), F!fatten(F!Noted)}
      BY <2>1
    <3>4. links' = F!fatMerge(dgram.links)
      BY <1>3, <2>1
    <3> QED
      BY <1>1, <1>3, <1>4, <1>5, <2>1, <3>1, <3>2, <3>3, <3>4, FatUpdate
  <2>2. CASE udpMode # "FAT"
    <3>1. dgram.links = links /\ F!Changed \cup dgram.sent = F!Changed
      BY <2>2 DEF F!NotFattened
    <3>2. F!Tell(F!Changed, arrived) /\ links' = links
      BY <1>3, <1>4, <2>2, <3>1
    <3>3. Placed(w)'
      BY <1>1, <1>3, <1>5, <2>2, <3>2, OtherUpdate
    <3> QED
      BY <3>3
  <2> QED
    BY <2>1, <2>2
<1> QED
  BY <1>3, <1>5, <1>6 DEF FatInv

(* An update for a client that is gone, which cannot be in fat mode.       *)
LEMMA InVainKeeps ==
  ASSUME FatAssumption, FatInv, F!UpdateInVain
  PROVE  FatInv'
<1>1. /\ clientDead /\ F!Tell(F!Changed, {}) /\ udpMode' = udpMode /\ clientDead' = clientDead
      /\ links' = IF F!ByUdp THEN F!Noted ELSE links
  BY DEF F!UpdateInVain, F!modes
<1>2. udpMode # "FAT"
  BY <1>1 DEF FatInv
<1>3. links' = links
  BY <1>1, <1>2 DEF F!Noted
<1>4. FatTypes /\ FatTypes'
  BY <1>1, TellTypes DEF FatTypes, FatInv
<1>5. PICK w : Placed(w)
  BY DEF FatInv
<1>6. Placed(w)'
  BY <1>1, <1>2, <1>3, <1>4, <1>5, OtherUpdate
<1> QED
  BY <1>1, <1>2, <1>4, <1>6 DEF FatInv

(* What is missed stays missed when a thing changes.                       *)
LEMMA ChangeKeeps ==
  ASSUME FatAssumption, FatInv, NEW n \in Node, F!Change(n)
  PROVE  FatInv'
<1>1. /\ packet' = [packet EXCEPT ![n] = F!Turned(packet[n])]
      /\ seen' = [seen EXCEPT ![n] = F!Turned(seen[n])]
      /\ lost' = lost /\ queued' = queued /\ links' = links
      /\ udpMode' = udpMode /\ clientDead' = clientDead
  BY DEF F!Change, F!modes
<1>2. \A x \in Words : F!Turned(x) \in Words
  BY DEF F!Turned, Words, F!Invalid
<1>3. \A x, y \in Words : (x # F!Invalid /\ y # x) <=> (F!Turned(x) # F!Invalid /\ F!Turned(y) # F!Turned(x))
  BY DEF F!Turned, Words, F!Invalid
<1>4. packet \in [Node -> Words] /\ seen \in [Node -> Words] /\ FatTypes
  BY DEF FatInv, FatTypes
<1>5. FatTypes'
  BY <1>1, <1>2, <1>4 DEF FatTypes
<1>6. \A m \in Node : F!Missed(m)' <=> F!Missed(m)
  BY <1>1, <1>2, <1>3, <1>4 DEF F!Missed
<1>7. PICK w : Placed(w)
  BY DEF FatInv
<1>8. Waits(w) => Waits(w)'
  BY <1>1, <1>6 DEF Waits, Owes
<1>9. Placed(w)'
  BY <1>1, <1>7, <1>8 DEF Placed
<1> QED
  BY <1>1, <1>5, <1>9 DEF FatInv

(* Nothing is missed of what has been forgotten; the others are missed if  *)
(* they were, and were sent in fat mode if they were.                      *)
LEMMA ForgottenKeeps ==
  ASSUME FatInv, packet' = F!Forgotten, UNCHANGED <<seen, lost, queued, links, clientDead>>,
         clientDead => udpMode' # "FAT"
  PROVE  FatInv'
<1>1. FatTypes'
  BY DEF FatInv, FatTypes, F!Forgotten, Words
<1>2. \A n \in Node : F!Missed(n)' /\ Owes(n)' => F!Missed(n) /\ Owes(n)
  <2> SUFFICES ASSUME NEW n \in Node, F!Missed(n)', Owes(n)' PROVE F!Missed(n) /\ Owes(n)
    OBVIOUS
  <2>1. n \in Retained /\ packet'[n] = packet[n]
    BY DEF F!Missed, F!Forgotten
  <2> QED
    BY <2>1 DEF F!Missed, Owes
<1>3. PICK w : Placed(w)
  BY DEF FatInv
<1>4. Placed(w)'
  BY <1>2, <1>3 DEF Placed, Waits
<1> QED
  BY <1>1, <1>4 DEF FatInv

(* Steps that touch no packet and do not turn fat mode on.                 *)
LEMMA OthersKeep ==
  ASSUME FatInv, UNCHANGED <<packet, seen, lost, queued, links>>, udpMode' = udpMode \/ udpMode' # "FAT",
         clientDead' \in BOOLEAN, clientDead' => udpMode' # "FAT"
  PROVE  FatInv'
<1>1. FatTypes'
  BY DEF FatInv, FatTypes
<1>2. PICK w : Placed(w)
  BY DEF FatInv
<1>3. Waits(w) => Waits(w)'
  BY DEF Waits, Owes, F!Missed
<1>4. Placed(w)'
  BY <1>2, <1>3 DEF Placed
<1> QED
  BY <1>1, <1>4 DEF FatInv

(* A new client finds the lists empty, the temporary ones too.             *)
LEMMA ReconnectKeeps ==
  ASSUME FatAssumption, FatInv, F!reconnect
  PROVE  FatInv'
<1>1. /\ clientDead /\ clientDead' = FALSE /\ udpMode' = udpMode
      /\ packet' = F!Forgotten /\ seen' = [n \in Node |-> F!Invalid] /\ lost' = [n \in Node |-> 0]
      /\ queued' = {}
      /\ links' = [F!NoLinks EXCEPT !.thead = links.thead, !.ttail = links.ttail]
  BY DEF F!reconnect, F!initClientData
<1>2. PICK w : Placed(w)
  BY DEF FatInv
<1>3. PICK r, c : Drawn(links, w, r, c)
  BY <1>2 DEF Placed, Shape
<1>4. \A n \in Node, l \in F!Lists : w[n] # l + MAX_FAT_LIST
  <2>1. w \in [Node -> -1 .. 2 * MAX_FAT_LIST - 1] /\ \A n \in Node : w[n] < MAX_FAT_LIST
    BY <1>2, ShapeIs DEF Placed
  <2> QED
    BY <2>1 DEF FatAssumption, F!Lists
<1>5. links.thead = F!Empty /\ links.ttail = F!Empty
  <2>1. links.thead \in [F!Lists -> Nodes] /\ links.ttail \in [F!Lists -> Nodes]
    BY <1>3 DEF Drawn, Linkages
  <2>2. \A l \in F!Lists : links.thead[l] = NULL /\ links.ttail[l] = NULL
    BY <1>3, <1>4, <2>1 DEF Drawn, HeadsRight, TailsRight, Nodes
  <2> QED
    BY <2>1, <2>2 DEF F!Empty
<1>6. links' = F!NoLinks
  BY <1>1, <1>5 DEF F!NoLinks
<1>7. FatTypes'
  BY <1>1 DEF FatInv, FatTypes, F!Forgotten, Words
<1>8. udpMode' # "FAT"
  BY <1>1 DEF FatInv
<1>9. PICK z : z = [n \in Node |-> -1]
  OBVIOUS
<1>10. Shape(links', z) /\ \A n \in Node : z[n] < MAX_FAT_LIST
  BY <1>6, <1>9, NoLinksShape DEF FatAssumption
<1>11. Placed(z)'
  BY <1>1, <1>8, <1>10 DEF Placed, Waits, Owes
<1> QED
  BY <1>7, <1>8, <1>11 DEF FatInv

(* Every step keeps the lists in order and what is missed on them.         *)
LEMMA FatStep ==
  ASSUME FatAssumption, FatGiven, FatInv, [F!Next]_(F!vars)
  PROVE  FatInv'
<1>0. clientDead \in BOOLEAN /\ (clientDead => udpMode # "FAT")
  BY DEF FatInv, FatTypes
<1>1. ASSUME NEW n \in Node, F!Change(n) PROVE FatInv'
  BY <1>1, ChangeKeeps
<1>2. CASE F!updateClient
  BY <1>2, ByTcpKeeps, ByUdpKeeps, InVainKeeps DEF F!updateClient
<1>3. CASE F!reconnect
  BY <1>3, ReconnectKeeps
<1>4. CASE F!Die
  BY <1>0, <1>4, OthersKeep DEF F!Die, F!things, FatGiven
<1>5. CASE F!UdpFails \/ F!ReqUdp \/ F!ReqTcp \/ F!Verify
  BY <1>0, <1>5, OthersKeep DEF F!UdpFails, F!ReqUdp, F!ReqTcp, F!Verify, F!things
<1>6. CASE F!ReqUpdate
  <2>1. packet' = F!Forgotten \/ packet' = packet
    BY <1>6 DEF F!ReqUpdate, F!forceUpdate
  <2>2. UNCHANGED <<seen, lost, queued, links, udpMode, clientDead>>
    BY <1>6 DEF F!ReqUpdate, F!modes
  <2> QED
    BY <1>0, <2>1, <2>2, ForgottenKeeps, OthersKeep
<1>7. ASSUME NEW mode, F!ReqMode(mode) PROVE FatInv'
  <2>1. /\ ~clientDead /\ udpMode' = mode /\ UNCHANGED <<seen, lost, queued, links, clientDead>>
        /\ IF mode = "FAT" THEN F!forceUpdate(FatAnswers) ELSE UNCHANGED packet
    BY <1>7 DEF F!ReqMode
  <2>2. CASE mode = "FAT"
    <3>1. packet' = F!Forgotten
      BY <2>1, <2>2 DEF F!forceUpdate, FatGiven
    <3> QED
      BY <2>1, <3>1, ForgottenKeeps
  <2>3. CASE mode # "FAT"
    BY <1>0, <2>1, <2>3, OthersKeep
  <2> QED
    BY <2>2, <2>3
<1>8. CASE UNCHANGED F!vars
  BY <1>0, <1>8, OthersKeep DEF F!vars, F!things, F!modes
<1>9. CASE F!Next
  BY <1>1, <1>2, <1>3, <1>4, <1>5, <1>6, <1>7, <1>9 DEF F!Next, F!handleUdpReq
<1> QED
  BY <1>8, <1>9

(* The invariant implies the property.                                     *)
LEMMA FatRight ==
  ASSUME FatAssumption, FatInv
  PROVE  F!ListsSound /\ F!NotForgotten
<1>1. PICK w : Placed(w)
  BY DEF FatInv
<1>2. /\ F!ListsSound
      /\ \A n \in Node : w[n] >= 0 => \E l \in F!Lists : n \in F!OnList(links, l)
  BY <1>1, ShapeSound DEF Placed
<1>3. F!NotForgotten
  <2> SUFFICES ASSUME udpMode = "FAT", NEW n \in Node, F!Missed(n), F!Promised(n), lost[n] <= MAX_FAT_LIST
               PROVE  \E l \in F!Lists : n \in F!OnList(links, l)
    BY DEF F!NotForgotten, F!InFatMode, F!OnAList
  <2>1. 0 <= w[n]
    BY <1>1 DEF Placed, Waits, Owes, F!Promised
  <2>2. w[n] \in Int
    BY <1>1, ShapeIs DEF Placed
  <2> QED
    BY <1>2, <2>1, <2>2
<1> QED
  BY <1>2, <1>3

(* The machine of this run is fat UDP's from the start to the end.         *)
LEMMA FatNext ==
  machine = "FatUdp" /\ [Next]_vars => machine' = "FatUdp" /\ [F!Next]_(F!vars)
BY DEF Next, vars, Ends, fat, F!vars, F!things, F!modes

(* The lists of packets to be sent again are whole, read from the head as  *)
(* from the tail, no packet is in two places, and in fat mode what the     *)
(* client has missed is on one until it has been sent again MAX_FAT_LIST   *)
(* times, if the full update sends it anew or it was last sent in fat mode *)
(* (fatudp.c; flushSockBuf() of sockio.c; forceUpdate() of socket.c): for  *)
(* any number of packets and lists, any of them retained (missiles, the    *)
(* tournament's status) and any room in a datagram, whatever is lost, and  *)
(* through changes of the mode and reconnections, if the update that is    *)
(* asked for with fat mode is given and no client dies in it.              *)
THEOREM FatIsSound ==
  ASSUME FatAssumption, FatGiven
  PROVE  Spec => []FatSound
<1> DEFINE Inv == machine = "FatUdp" => FatInv
<1>1. Init => Inv
  BY FatInit DEF Init
<1>2. Inv /\ [Next]_vars => Inv'
  <2>1. [Next]_vars => machine' = machine
    BY DEF Next, vars, Ends
  <2>2. machine = "FatUdp" /\ FatInv /\ [Next]_vars => FatInv'
    BY FatNext, FatStep
  <2> QED
    BY <2>1, <2>2
<1>3. Inv => FatSound
  BY FatRight DEF FatSound
<1> QED
  BY <1>1, <1>2, <1>3, PTL DEF Spec
=============================================================================
