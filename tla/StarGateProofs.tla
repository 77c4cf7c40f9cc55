--------------------------- MODULE StarGateProofs ---------------------------
(***************************************************************************)
(* Credibility of the consensus gate, for any nodes, schedule, circle and  *)
(* similarities.  The invariant bounds the tracker by the good readings it *)
(* has seen; the metrics of a reading stay opaque: whatever the quality,   *)
(* the tracker and the count of good readings judge it alike.              *)
(***************************************************************************)
EXTENDS StarGate, FiniteSums

Within(c, k) ==
  /\ c \in 0 .. 1000
  /\ k \in 0 .. EnoughReadings
  /\ c <= 500 + 80 * k

Earned == Within(credibility, good)

(* One update of the tracker keeps the bound, whatever quality q it judges:  *)
(* a good reading adds 80 and is counted, drift never passes the middle.    *)
LEMMA ExperienceIsEarned ==
  ASSUME NEW c, NEW k, NEW q, Within(c, k)
  PROVE  Within(Experienced(c, q), Counted(k, q))
<1>1. CASE q >= GoodQuality
  <2>1. Experienced(c, q) = IF c + 80 > 1000 THEN 1000 ELSE c + 80
    BY <1>1, Zenon DEF Experienced
  <2>2. Counted(k, q) = IF k < EnoughReadings THEN k + 1 ELSE k
    BY <1>1, Zenon DEF Counted
  <2> QED BY <2>1, <2>2 DEF Within, EnoughReadings
<1>2. CASE ~(q >= GoodQuality)
  <2>1. Experienced(c, q) = IF q < 500 THEN (IF c < 100 THEN 0 ELSE c - 100)
                            ELSE c + (500 - c) \div 50
    BY <1>2, Zenon DEF Experienced
  <2>2. Counted(k, q) = k
    BY <1>2, Zenon DEF Counted
  <2>3. CASE q < 500
    <3>1. Experienced(c, q) = IF c < 100 THEN 0 ELSE c - 100
      BY <2>1, <2>3, Zenon
    <3> QED BY <3>1, <2>2 DEF Within, EnoughReadings
  <2>4. CASE ~(q < 500)
    <3>1. Experienced(c, q) = c + (500 - c) \div 50
      BY <2>1, <2>4, Zenon
    <3> QED BY <3>1, <2>2 DEF Within, EnoughReadings
  <2> QED BY <2>3, <2>4, Zenon
<1> QED BY <1>1, <1>2, Zenon

(* A reading of the status keeps the invariant. *)
LEMMA ReadKeepsEarned ==
  ASSUME Earned, Read
  PROVE  Earned'
<1>1. CASE UNCHANGED <<credibility, good>>
  BY <1>1 DEF Earned, Within
<1>2. CASE ~UNCHANGED <<credibility, good>>
  <2>1. PICK q : /\ credibility' = Experienced(credibility, q)
                 /\ good' = Counted(good, q)
    BY <1>2, Zenon DEF Read
  <2>2. Within(Experienced(credibility, q), Counted(good, q))
    BY ExperienceIsEarned, Zenon DEF Earned
  <2> QED BY <2>1, <2>2, Zenon DEF Earned, Within
<1> QED BY <1>1, <1>2

(* What the tracker earned is bounded by the good readings it has seen since *)
(* its reset: credibility never rises by drift, polling or resets.          *)
THEOREM CredibilityIsEarnedHolds == Spec => []CredibilityIsEarned
<1>1. Init => Earned
  BY DEF Init, Earned, Within, EnoughReadings
<1>2. Earned /\ [Next]_vars => Earned'
  <2> SUFFICES ASSUME Earned, [Next]_vars PROVE Earned'
    OBVIOUS
  <2>1. CASE Reading
    BY <2>1, ReadKeepsEarned DEF Reading, Validate, HealthCheck
  <2>2. CASE \E n \in Node, i \in Reports : ReceiveStar(n, i)
    BY <2>2 DEF ReceiveStar, Earned, Within
  <2>3. CASE AdvanceTick
    BY <2>3 DEF AdvanceTick, Earned, Within
  <2>4. CASE \E n \in Node : Authorize(n)
    BY <2>4 DEF Authorize, consensusVars, Earned, Within
  <2>5. CASE ResetTracker \/ Reset
    BY <2>5 DEF ResetTracker, Reset, Earned, Within, EnoughReadings
  <2>6. CASE UNCHANGED vars
    BY <2>6 DEF vars, consensusVars, Earned, Within
  <2> QED BY <2>1, <2>2, <2>3, <2>4, <2>5, <2>6 DEF Next
<1>3. Earned => CredibilityIsEarned
  BY DEF Earned, Within, CredibilityIsEarned
<1> QED BY <1>1, <1>2, <1>3, PTL DEF Spec

-----------------------------------------------------------------------------
(* The metrics of a reading. *)

Trails == {tr \in [Node -> Seq(Index)] : \A n \in Node : Len(tr[n]) <= 2}

LEMMA CachedPositions ==
  ASSUME NEW tr \in Trails
  PROVE  /\ IsFiniteSet(Cached(tr)) /\ Cardinality(Cached(tr)) \in Nat
         /\ \A n \in Cached(tr) : Position(tr, n) \in Index
<1>1. Cached(tr) \in SUBSET Node
  BY DEF Cached
<1>2. ASSUME NEW n \in Cached(tr) PROVE Position(tr, n) \in Index
  <2>1. tr[n] \in Seq(Index) /\ tr[n] # <<>>
    BY DEF Cached, Trails
  <2>2. Len(tr[n]) \in 1 .. Len(tr[n])
    BY <2>1
  <2> QED
    BY <2>1, <2>2 DEF Position
<1> QED
  BY <1>1, <1>2, GateAssumption, FS_Subset, FS_CardinalityType

(* However the phases lie, the coherence is a number of thousandths.        *)
LEMMA CoherenceType ==
  ASSUME NEW tr \in Trails, Cached(tr) # {}
  PROVE  Coherence(tr) \in 0 .. 1000
<1> DEFINE many == Cardinality(Cached(tr))
           position == [n \in Cached(tr) |-> Position(tr, n)]
           total == SumFunctionOnSet(position, Cached(tr))
           above == [n \in Cached(tr) |-> many * Position(tr, n) - total]
           below == [n \in Cached(tr) |-> total - many * Position(tr, n)]
           A == {above[n] : n \in Cached(tr)}
           B == {below[n] : n \in Cached(tr)}
           away == Max(A \union B)
           loss == (2000 * away) \div (many * Circle)
<1>1. many \in Nat \ {0}
  BY CachedPositions, FS_EmptySet
<1>2. \A n \in Cached(tr) : Position(tr, n) \in Int
  BY CachedPositions DEF Index
<1>3. total \in Int
  <2>1. IsFiniteSet(Cached(tr)) /\ \A n \in Cached(tr) : position[n] \in Int
    BY <1>2, CachedPositions
  <2> HIDE DEF position
  <2> QED
    BY <2>1, SumType
<1> HIDE DEF many, total
<1>4. \A n \in Cached(tr) : above[n] \in Int /\ below[n] \in Int /\ below[n] = - above[n]
  BY <1>1, <1>2, <1>3
<1>5. PICK c : c \in Cached(tr)
  OBVIOUS
<1> HIDE DEF above, below
<1>6. /\ A \union B \in SUBSET Int /\ IsFiniteSet(A \union B)
      /\ above[c] \in A \union B /\ below[c] \in A \union B
  <2>1. IsFiniteSet(A) /\ IsFiniteSet(B)
    BY CachedPositions, ImageIsFinite
  <2>2. IsFiniteSet(A \union B)
    <3> HIDE DEF A, B
    <3> QED
      BY <2>1, FS_Union
  <2> QED
    BY <1>4, <1>5, <2>2
<1>7. away \in Nat
  <2> HIDE DEF A, B
  <2>1. away \in Int /\ away >= above[c] /\ away >= below[c]
    BY <1>6, MaxExists
  <2> QED
    BY <1>4, <1>5, <2>1
<1> HIDE DEF away
<1>8. loss \in Nat
  <2>1. many * Circle \in Nat \ {0} /\ 2000 * away \in Nat
    BY <1>1, <1>7, GateAssumption
  <2> QED
    BY <2>1, DivBelow
<1>9. Coherence(tr) = IF loss > 1000 THEN 0 ELSE 1000 - loss
  <2>1. /\ A = {many * Position(tr, n) - total : n \in Cached(tr)}
        /\ B = {total - many * Position(tr, n) : n \in Cached(tr)}
    BY DEF above, below
  <2> DEFINE widest == Max({many * Position(tr, n) - total : n \in Cached(tr)}
                             \union {total - many * Position(tr, n) : n \in Cached(tr)})
  <2> HIDE DEF A, B
  <2>2. away = widest
    BY <2>1 DEF away
  <2>3. Coherence(tr) = IF (2000 * widest) \div (many * Circle) > 1000 THEN 0
                        ELSE 1000 - (2000 * widest) \div (many * Circle)
    BY Zenon DEF Coherence, many, total
  <2> HIDE DEF widest
  <2> QED
    BY <2>2, <2>3
<1> HIDE DEF loss
<1> QED
  BY <1>8, <1>9

LEMMA AgreementShare ==
  ASSUME NEW tr \in Trails, NEW t
  PROVE  LET f == Cardinality(Followers(tr, t))
             o == Cardinality(Observed(tr))
         IN  /\ f \in Nat /\ o \in Nat /\ Agreement(tr, t) \in Nat
             /\ Agreement(tr, t) >= 600 => 5 * f >= 3 * o
             /\ Agreement(tr, t) >= 524 => 2 * f > o
<1> DEFINE f == Cardinality(Followers(tr, t))
           o == Cardinality(Observed(tr))
           a == (1000 * f) \div o
<1>1. Observed(tr) \in SUBSET Node /\ Followers(tr, t) \in SUBSET Node
  BY DEF Observed, Followers
<1>2. f \in Nat /\ o \in Nat /\ (Observed(tr) # {} => o # 0)
  BY <1>1, GateAssumption, FS_Subset, FS_CardinalityType, FS_EmptySet
<1> HIDE DEF f, o
<1>3. Agreement(tr, t) = 0 \/ (o # 0 /\ Agreement(tr, t) = a)
  BY <1>2, Zenon DEF Agreement, f, o
<1>4. o # 0 => a \in Nat /\ o * a <= 1000 * f
  BY <1>2, DivBelow
<1> HIDE DEF a
<1>5. ASSUME o # 0, a >= 600 PROVE 5 * f >= 3 * o
  <2>1. o * a >= o * 600
    BY <1>2, <1>4, <1>5
  <2> QED
    BY <1>2, <1>4, <1>5, <2>1
<1>6. ASSUME o # 0, a >= 524 PROVE 2 * f > o
  <2>1. o * a >= o * 524
    BY <1>2, <1>4, <1>6
  <2> QED
    BY <1>2, <1>4, <1>6, <2>1
<1>7. /\ Agreement(tr, t) \in Nat
      /\ Agreement(tr, t) >= 600 => 5 * f >= 3 * o
      /\ Agreement(tr, t) >= 524 => 2 * f > o
  BY <1>3, <1>4, <1>5, <1>6
<1> QED
  BY <1>2, <1>7 DEF f, o

(* No similarity of the stars and no coherence makes up for an agreement    *)
(* below 0.524 in a score that is no emergency.                             *)
LEMMA CalmNeedsAgreement ==
  ASSUME NEW tr \in Trails, Cached(tr) # {}, NEW g \in 0 .. 1000, NEW t,
         ~Emergency(Score(tr, g, t))
  PROVE  Agreement(tr, t) >= 524
<1>1. Coherence(tr) \in 0 .. 1000 /\ Agreement(tr, t) \in Nat
  BY CoherenceType, AgreementShare
<1>2. 1000 - Score(tr, g, t) < 120 /\ Score(tr, g, t) = (2 * Coherence(tr) + g + Agreement(tr, t)) \div 4
  BY <1>1 DEF Emergency, Score
<1> QED
  BY <1>1, <1>2

-----------------------------------------------------------------------------
(* The invariant of the gate: what a snapshot says it says for good reasons. *)

Sound(s) ==
  /\ s.credibility \in 0 .. 1000 /\ s.good \in Nat
  /\ s.followers \in Nat /\ s.observed \in Nat
  /\ s.credibility <= 500 + 80 * s.good
  /\ s.agreement >= 600 => 5 * s.followers >= 3 * s.observed
  /\ s.consensus => 2 * s.followers > s.observed

SnapshotSound == Sound(snapshot)

GateTyped ==
  /\ trail \in Trails
  /\ geometry \in Geometries
  /\ tick \in 1 .. Len(Pattern)
  /\ clustered \subseteq Node
  /\ signatures \in 0 .. MaxSignatures
  /\ readings \in 0 .. MaxReadings

GateInv == GateTyped /\ Earned /\ SnapshotSound

LEMMA PushType ==
  ASSUME NEW tr \in Trails, NEW S, NEW star,
         \A n \in S \cap Node : star[n] \in Reports
  PROVE  Push(tr, S, star) \in Trails
<1>1. ASSUME NEW n \in Node
      PROVE  /\ Push(tr, S, star)[n] \in Seq(Index)
             /\ Len(Push(tr, S, star)[n]) <= 2
  <2>1. tr[n] \in Seq(Index) /\ Len(tr[n]) <= 2
    BY DEF Trails
  <2>2. CASE n \notin S
    BY <2>1, <2>2 DEF Push
  <2>3. CASE n \in S /\ tr[n] = <<>>
    <3>1. star[n] \in Index
      BY <2>3, GateAssumption DEF Index
    <3> QED
      BY <2>3, <3>1 DEF Push
  <2>4. CASE n \in S /\ tr[n] # <<>>
    <3>1. star[n] \in Index
      BY <2>4, GateAssumption DEF Index
    <3>2. Position(tr, n) \in Index
      BY <2>4, CachedPositions DEF Cached
    <3> QED
      BY <2>4, <3>1, <3>2 DEF Push
  <2> QED
    BY <2>2, <2>3, <2>4
<1>2. Push(tr, S, star) = [n \in Node |-> Push(tr, S, star)[n]]
  BY DEF Push
<1> QED
  BY <1>1, <1>2 DEF Trails

(* A reading of a history tr, similarity g and schedule place t, under a     *)
(* credibility c that k good readings earned, whatever its coherence h.     *)
LEMMA ReadingIsSound ==
  ASSUME NEW tr \in Trails, Cached(tr) # {}, NEW g \in Geometries, NEW t,
         NEW c, NEW k, Within(c, k), NEW h
  PROVE  Sound([consensus   |-> Reliable(c) /\ ~Emergency(Score(tr, g, t)),
                credibility |-> c,
                coherence   |-> h,
                agreement   |-> Agreement(tr, t),
                followers   |-> Cardinality(Followers(tr, t)),
                observed    |-> Cardinality(Observed(tr)),
                good        |-> k])
<1>1. PICK calm : calm = (Reliable(c) /\ ~Emergency(Score(tr, g, t)))
  OBVIOUS
<1>2. PICK a, f, o : a = Agreement(tr, t) /\ f = Cardinality(Followers(tr, t))
                     /\ o = Cardinality(Observed(tr))
  OBVIOUS
<1>3. /\ f \in Nat /\ o \in Nat /\ a \in Nat
      /\ a >= 600 => 5 * f >= 3 * o
      /\ a >= 524 => 2 * f > o
  BY <1>2, AgreementShare
<1>4. calm => a >= 524
  <2>1. g \in 0 .. 1000
    BY GateAssumption
  <2> QED
    BY <1>1, <1>2, <2>1, CalmNeedsAgreement
<1>5. c \in 0 .. 1000 /\ k \in Nat /\ c <= 500 + 80 * k
  BY DEF Within, EnoughReadings
<1>6. Sound([consensus |-> calm, credibility |-> c, coherence |-> h, agreement |-> a,
             followers |-> f, observed |-> o, good |-> k])
  BY <1>3, <1>4, <1>5 DEF Sound
<1> QED
  BY <1>1, <1>2, <1>6, Zenon

(* The snapshot of a reading, whatever was read. *)
LEMMA TakenIsSound ==
  ASSUME Earned', trail' \in Trails, geometry' \in Geometries, snapshot' = Taken
  PROVE  SnapshotSound'
<1>1. CASE Cardinality(Cached(trail')) < MinNodes
  <2>1. snapshot' = NoSnapshot
    BY <1>1, Zenon DEF Taken
  <2>2. Sound(NoSnapshot)
    BY DEF Sound, NoSnapshot
  <2> QED
    BY <2>1, <2>2, Zenon DEF SnapshotSound
<1>2. CASE ~(Cardinality(Cached(trail')) < MinNodes)
  <2>1. Cached(trail') # {}
    <3>1. Cardinality({}) = 0 /\ 0 < MinNodes
      BY FS_EmptySet, GateAssumption
    <3> QED
      BY <1>2, <3>1
  <2>2. Within(credibility', good')
    BY Zenon DEF Earned
  <2>3. snapshot' = [consensus   |-> Reliable(credibility')
                                     /\ ~Emergency(Score(trail', geometry', tick)),
                     credibility |-> credibility',
                     coherence   |-> Coherence(trail'),
                     agreement   |-> Agreement(trail', tick),
                     followers   |-> Cardinality(Followers(trail', tick)),
                     observed    |-> Cardinality(Observed(trail')),
                     good        |-> good']
    BY <1>2, Zenon DEF Taken
  <2>4. Sound(snapshot')
    BY <2>1, <2>2, <2>3, ReadingIsSound
  <2> QED
    BY <2>4, Zenon DEF SnapshotSound
<1> QED
  BY <1>1, <1>2

LEMMA GateInit == Init => GateInv
<1> SUFFICES ASSUME Init PROVE GateInv
  OBVIOUS
<1>1. trail \in Trails
  BY DEF Init, Trails, Index
<1>2. 1 \in 1 .. Len(Pattern)
  BY GateAssumption
<1>3. 0 \in 0 .. MaxSignatures /\ 0 \in 0 .. MaxReadings
  BY GateAssumption
<1> QED
  BY <1>1, <1>2, <1>3
  DEF Init, GateInv, GateTyped, Earned, Within, EnoughReadings, SnapshotSound, Sound, NoSnapshot

LEMMA GateStep == GateInv /\ [Next]_vars => GateInv'
<1> SUFFICES ASSUME GateInv, [Next]_vars PROVE GateInv'
  OBVIOUS
<1> USE DEF GateInv
<1>1. CASE Reading
  <2>1. readings' \in 0 .. MaxReadings
    BY <1>1, GateAssumption DEF Reading, GateTyped
  <2>2. ASSUME NEW S \in Rounds, NEW star \in [S -> Reports], Validate(S, star)
        PROVE  GateInv'
    <3>1. trail' \in Trails /\ geometry' \in Geometries
      BY <2>2, PushType DEF Validate, Receive, GateTyped
    <3>2. clustered' \subseteq Node
      BY <2>2, GateAssumption DEF Validate
    <3>3. Earned'
      BY <2>2, ReadKeepsEarned DEF Validate
    <3>4. SnapshotSound'
      BY <2>2, <3>1, <3>3, TakenIsSound DEF Validate
    <3> QED
      BY <2>1, <2>2, <3>1, <3>2, <3>3, <3>4 DEF Validate, GateTyped
  <2>3. CASE HealthCheck
    <3>1. Earned'
      BY <2>3, ReadKeepsEarned DEF HealthCheck
    <3> QED
      BY <2>1, <2>3, <3>1 DEF HealthCheck, callerVars, GateTyped, SnapshotSound
  <2> QED
    BY <1>1, <2>2, <2>3 DEF Reading
<1>2. ASSUME NEW n \in Node, NEW i \in Reports, ReceiveStar(n, i)
      PROVE  GateInv'
  <2>1. \A m \in {n} \cap Node : [k \in {n} |-> i][m] \in Reports
    OBVIOUS
  <2>2. trail' \in Trails /\ geometry' \in Geometries
    BY <1>2, <2>1, PushType DEF ReceiveStar, Receive, GateTyped
  <2> QED
    BY <1>2, <2>2 DEF ReceiveStar, callerVars, GateTyped, Earned, Within, SnapshotSound
<1>3. CASE AdvanceTick
  <2>1. tick' \in 1 .. Len(Pattern)
    <3>1. Len(Pattern) \in Nat \ {0}
      BY GateAssumption
    <3> QED
      BY <1>3, <3>1 DEF AdvanceTick, GateTyped
  <2> QED
    BY <1>3, <2>1 DEF AdvanceTick, callerVars, GateTyped, Earned, Within, SnapshotSound
<1>4. ASSUME NEW n \in Node, Authorize(n) PROVE GateInv'
  <2>1. signatures' \in 0 .. MaxSignatures
    BY <1>4, GateAssumption DEF Authorize, GateTyped
  <2> QED
    BY <1>4, <2>1 DEF Authorize, consensusVars, GateTyped, Earned, Within, SnapshotSound
<1>5. CASE ResetTracker \/ Reset
  <2>1. trail' \in Trails
    <3>1. trail' = [n \in Node |-> <<>>] \/ trail' = trail
      BY <1>5 DEF ResetTracker, Reset
    <3>2. [n \in Node |-> <<>>] \in Trails
      BY DEF Trails, Index
    <3> QED
      BY <3>1, <3>2 DEF GateTyped
  <2>2. tick' \in 1 .. Len(Pattern)
    BY <1>5, GateAssumption DEF ResetTracker, Reset
  <2>3. Earned'
    BY <1>5 DEF ResetTracker, Reset, Earned, Within, EnoughReadings
  <2>4. /\ signatures' \in 0 .. MaxSignatures /\ clustered' \subseteq Node
        /\ geometry' = geometry /\ readings' = readings /\ snapshot' = snapshot
    BY <1>5, GateAssumption DEF ResetTracker, Reset, callerVars, GateTyped
  <2>5. GateTyped'
    BY <2>1, <2>2, <2>4 DEF GateTyped
  <2> QED
    BY <2>3, <2>4, <2>5 DEF SnapshotSound
<1>6. CASE UNCHANGED vars
  BY <1>6 DEF vars, consensusVars, callerVars, GateTyped, Earned, Within, SnapshotSound
<1> QED
  BY <1>1, <1>2, <1>3, <1>4, <1>5, <1>6 DEF Next

LEMMA GateInvHolds == Spec => []GateInv
  BY GateInit, GateStep, PTL DEF Spec

(* Type correctness of the gate. *)
THEOREM TypeCorrect == Spec => []TypeOK
<1>1. GateInv => TypeOK
  BY DEF GateInv, GateTyped, Earned, Within, SnapshotSound, Sound, TypeOK, Trails
<1> QED
  BY <1>1, GateInvHolds, PTL

(* A consensus that the status reports rests on a majority of the observed   *)
(* nodes having moved by the schedule: reliability and the emergency         *)
(* threshold leave the other metrics no room to make up for less.           *)
THEOREM ConsensusIsMajorityHolds == Spec => []ConsensusIsMajority
<1>1. GateInv => ConsensusIsMajority
  BY DEF GateInv, SnapshotSound, Sound, ConsensusIsMajority
<1> QED
  BY <1>1, GateInvHolds, PTL

(* A signature is made only on a snapshot with two good readings behind it   *)
(* and three fifths of the observed nodes on schedule, whatever happened to  *)
(* the tracker since (authorize_mutation).                                  *)
THEOREM ApprovalIsEarnedHolds == Spec => ApprovalIsEarned
<1>1. GateInv /\ [Next]_vars =>
        [signatures' > signatures =>
           snapshot.good >= 2 /\ 5 * snapshot.followers >= 3 * snapshot.observed]_vars
  <2> SUFFICES ASSUME GateInv, Next, signatures' > signatures
               PROVE  snapshot.good >= 2 /\ 5 * snapshot.followers >= 3 * snapshot.observed
    OBVIOUS
  <2>1. signatures \in Nat
    BY GateAssumption DEF GateInv, GateTyped
  <2>2. ASSUME NEW n \in Node, Authorize(n)
        PROVE  snapshot.good >= 2 /\ 5 * snapshot.followers >= 3 * snapshot.observed
    BY <2>2 DEF Authorize, Approves, GateInv, SnapshotSound, Sound
  <2>3. CASE ~\E n \in Node : Authorize(n)
    <3>1. signatures' = signatures \/ signatures' = 0
      BY <2>3 DEF Next, Reading, Validate, HealthCheck, ReceiveStar, AdvanceTick,
                  ResetTracker, Reset, callerVars
    <3> QED
      BY <2>1, <3>1
  <2> QED
    BY <2>2, <2>3
<1> QED
  BY <1>1, GateInvHolds, PTL DEF Spec, ApprovalIsEarned

=============================================================================
