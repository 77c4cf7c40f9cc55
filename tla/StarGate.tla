------------------------------ MODULE StarGate ------------------------------
(***************************************************************************)
(* The consensus gate a mutation passes before it is tried:                *)
(* TemporalStarConsensus and its ExperienceTracker                         *)
(* (mother_relay/consensus/temporal_star.py), the 2/3 schedule             *)
(* (temporal_schedule.py) and StarConsensusIntegration (integration.py).   *)
(* Nodes report the index of their phase; the score of a reading weighs    *)
(* how close the indices are, how similar the stars are, and how many      *)
(* nodes moved by the scheduled step; good readings build credibility.     *)
(*                                                                         *)
(* Scores are in thousandths.  The similarity of the stars, the clusters   *)
(* they form and the rest of their paths are any value in Geometries and   *)
(* any set of the nodes; of the phase history the code reads the last two. *)
(***************************************************************************)
EXTENDS Integers, Sequences, FiniteSets, FiniteSetsExt, Functions

CONSTANTS
  Node,         \* reporting nodes
  Circle,       \* phase indices in a turn: 101
  Pattern,      \* steps of the schedule: <<2,2,2,2,2,3,3,3,3,3>>
  MinNodes,     \* min_nodes
  Geometries,   \* values of calculate_geometry_similarity
  Reports,      \* bound: phase indices that nodes report
  Rounds,       \* bound: sets of nodes whose stars are validated together
  MaxReadings,  \* bound: readings of the consensus status
  MaxSignatures \* bound: signatures kept

ASSUME GateAssumption ==
  /\ IsFiniteSet(Node)
  /\ Circle \in Nat \ {0}
  /\ Pattern \in Seq(Nat) /\ Pattern # <<>>
  /\ MinNodes \in Nat \ {0}
  /\ Geometries \subseteq 0 .. 1000
  /\ Reports \subseteq 0 .. Circle - 1
  /\ Rounds \subseteq SUBSET Node
  /\ MaxReadings \in Nat
  /\ MaxSignatures \in Nat

VARIABLES
  trail,       \* _phase_history, its last two entries; the last is the cached star
  geometry,    \* similarity of the cached stars
  tick,        \* the schedule's global tick, as a place in Pattern
  credibility, \* the tracker's
  good,        \* good readings since the tracker was reset
  clustered,   \* nodes of a cluster
  snapshot,    \* the NetworkState the caller holds
  signatures,  \* length of _signature_history
  readings     \* readings taken, to bound them

consensusVars == <<trail, geometry, tick, credibility, good>>
callerVars    == <<clustered, snapshot, signatures>>
vars          == <<consensusVars, callerVars, readings>>

Index == 0 .. Circle - 1

(* Good readings are counted until they cannot matter any more. *)
EnoughReadings == 7

NoSnapshot == [consensus |-> FALSE, credibility |-> 0, coherence |-> 0, agreement |-> 0,
               followers |-> 0, observed |-> 0, good |-> 0]

-----------------------------------------------------------------------------
(* Metrics of a phase history tr, similarity g, schedule place t. *)

Cached(tr)   == {n \in Node : tr[n] # <<>>}
Observed(tr) == {n \in Node : Len(tr[n]) = 2}

Position(tr, n) == tr[n][Len(tr[n])]

Followers(tr, t) == {n \in Observed(tr) : (tr[n][2] - tr[n][1]) % Circle = Pattern[t]}

(* calculate_phase_coherence: along a line from 0 to 1, not on the circle.   *)
Coherence(tr) ==
  LET many   == Cardinality(Cached(tr))
      total  == SumFunctionOnSet([n \in Cached(tr) |-> Position(tr, n)], Cached(tr))
      away   == Max({many * Position(tr, n) - total : n \in Cached(tr)}
                      \union {total - many * Position(tr, n) : n \in Cached(tr)})
      loss   == (2000 * away) \div (many * Circle)
  IN  IF loss > 1000 THEN 0 ELSE 1000 - loss

(* calculate_temporal_agreement: nodes of a single star are not observed.    *)
Agreement(tr, t) ==
  IF Cardinality(Cached(tr)) < MinNodes \/ Observed(tr) = {} THEN 0
  ELSE (1000 * Cardinality(Followers(tr, t))) \div Cardinality(Observed(tr))

(* 0.35 coherence + 0.25 geometry + 0.25 agreement + 0.15 block clock, which *)
(* is the coherence again.                                                  *)
Score(tr, g, t) == (2 * Coherence(tr) + g + Agreement(tr, t)) \div 4

Quality(tr, g, t) == (6 * Score(tr, g, t) + 4 * Agreement(tr, t)) \div 10

GoodQuality == 850

(* Mutant of Experienced: a fair reading drifts upwards. *)
ExperiencedLightly(c, q) ==
  IF q >= GoodQuality THEN (IF c + 80 > 1000 THEN 1000 ELSE c + 80)
  ELSE IF q < 500 THEN (IF c < 100 THEN 0 ELSE c - 100)
  ELSE c + 20

(* ExperienceTracker.update_from_consensus *)
Experienced(c, q) ==
  IF q >= GoodQuality THEN (IF c + 80 > 1000 THEN 1000 ELSE c + 80)
  ELSE IF q < 500 THEN (IF c < 100 THEN 0 ELSE c - 100)
  ELSE c + (500 - c) \div 50

Counted(k, q) == IF q >= GoodQuality /\ k < EnoughReadings THEN k + 1 ELSE k

Reliable(c) == c >= 600

(* Mutant of Emergency: the threshold is too wide. *)
EmergencyLate(score) == 1000 - score >= 320

(* emergency_threshold: 0.12 *)
Emergency(score) == 1000 - score >= 120

-----------------------------------------------------------------------------

Init ==
  /\ trail = [n \in Node |-> <<>>]
  /\ geometry \in Geometries
  /\ tick = 1
  /\ credibility = 500
  /\ good = 0
  /\ clustered = {}
  /\ snapshot = NoSnapshot
  /\ signatures = 0
  /\ readings = 0

(* receive_star appends to the history of the node. *)
Push(tr, S, star) ==
  [n \in Node |-> IF n \notin S THEN tr[n]
                  ELSE IF tr[n] = <<>> THEN <<star[n]>>
                  ELSE <<Position(tr, n), star[n]>>]

Receive(S, star) ==
  /\ trail' = Push(trail, S, star)
  /\ geometry' \in Geometries

(* get_consensus_score of what is now cached: reading it moves credibility.  *)
Read ==
  IF Cardinality(Cached(trail')) < MinNodes THEN UNCHANGED <<credibility, good>>
  ELSE LET q == Quality(trail', geometry', tick)
       IN  /\ credibility' = Experienced(credibility, q)
           /\ good' = Counted(good, q)

(* The NetworkState of that reading. *)
Taken ==
  IF Cardinality(Cached(trail')) < MinNodes THEN NoSnapshot
  ELSE [consensus   |-> Reliable(credibility') /\ ~Emergency(Score(trail', geometry', tick)),
        credibility |-> credibility',
        coherence   |-> Coherence(trail'),
        agreement   |-> Agreement(trail', tick),
        followers   |-> Cardinality(Followers(trail', tick)),
        observed    |-> Cardinality(Observed(trail')),
        good        |-> good']

(* consensus.receive_star, as the callers do before they validate.           *)
ReceiveStar(n, i) ==
  /\ Receive({n}, [m \in {n} |-> i])
  /\ UNCHANGED <<tick, credibility, good, callerVars, readings>>

(* validate_network_state; clusters of at least two nodes are kept.          *)
Validate(S, star) ==
  /\ Receive(S, star)
  /\ clustered' \in {C \in SUBSET S : Cardinality(C) # 1}
  /\ Read
  /\ snapshot' = Taken
  /\ UNCHANGED <<tick, signatures>>

(* health_check reads the same status. *)
HealthCheck ==
  /\ UNCHANGED <<trail, geometry>>
  /\ Read
  /\ UNCHANGED <<tick, callerVars>>

(* Mutant of AdvanceTick: the pattern is not repeated. *)
AdvanceTickOn ==
  /\ tick' = tick + 1
  /\ UNCHANGED <<trail, geometry, credibility, good, callerVars, readings>>

AdvanceTick ==
  /\ tick' = (tick % Len(Pattern)) + 1
  /\ UNCHANGED <<trail, geometry, credibility, good, callerVars, readings>>

(* Mutant of Approves: only the live credibility is asked. *)
ApprovesLive(n) == Reliable(credibility) /\ snapshot.coherence >= 600

(* authorize_mutation: the thresholds on the snapshot, then the live         *)
(* credibility of the cluster of the proposer.                              *)
Approves(n) ==
  /\ snapshot.consensus
  /\ snapshot.credibility >= 600
  /\ snapshot.coherence >= 600
  /\ snapshot.agreement >= 600
  /\ n \in clustered => credibility >= 500

Authorize(n) ==
  /\ Approves(n)
  /\ signatures < MaxSignatures
  /\ signatures' = signatures + 1
  /\ UNCHANGED <<consensusVars, clustered, snapshot, readings>>

(* reset_tracker of the consensus; the caller's state is not told.           *)
ResetTracker ==
  /\ trail' = [n \in Node |-> <<>>]
  /\ tick' = 1
  /\ credibility' = 500
  /\ good' = 0
  /\ UNCHANGED <<geometry, callerVars, readings>>

(* reset of the integration *)
Reset ==
  /\ trail' = [n \in Node |-> <<>>]
  /\ tick' = 1
  /\ credibility' = 500
  /\ good' = 0
  /\ signatures' = 0
  /\ clustered' = {}
  /\ UNCHANGED <<geometry, snapshot, readings>>

Reading ==
  /\ readings < MaxReadings
  /\ readings' = readings + 1
  /\ \/ \E S \in Rounds : \E star \in [S -> Reports] : Validate(S, star)
     \/ HealthCheck

Next ==
  \/ Reading
  \/ \E n \in Node, i \in Reports : ReceiveStar(n, i)
  \/ AdvanceTick
  \/ \E n \in Node : Authorize(n)
  \/ ResetTracker
  \/ Reset

Spec == Init /\ [][Next]_vars

(* Uniform drift: from any start, in each round every node has moved by the  *)
(* scheduled step, all stars are validated, and the tick advances.          *)
Scheduled(start) ==
  [n \in Node |-> IF trail[n] = <<>> THEN start[n]
                  ELSE (Position(trail, n) + Pattern[tick]) % Circle]

UniformRound ==
  /\ \E start \in [Node -> Reports] : Validate(Node, Scheduled(start))
  /\ UNCHANGED readings

UniformNext == UniformRound \/ AdvanceTick

UniformSpec == Init /\ [][UniformNext]_vars

-----------------------------------------------------------------------------
(* Properties. *)

TypeOK ==
  /\ \A n \in Node : trail[n] \in Seq(Index) /\ Len(trail[n]) <= 2
  /\ geometry \in Geometries
  /\ tick \in 1 .. Len(Pattern)
  /\ credibility \in 0 .. 1000
  /\ good \in 0 .. EnoughReadings
  /\ clustered \subseteq Node
  /\ snapshot.credibility \in 0 .. 1000
  /\ signatures \in 0 .. MaxSignatures
  /\ readings \in 0 .. MaxReadings

(* Credibility is earned by good readings alone: drift never lifts it past   *)
(* its start, so a gate that opens at 0.6 has seen at least two of them      *)
(* since the tracker was reset.                                             *)
CredibilityIsEarned == credibility <= 500 + 80 * good

(* A consensus that is reported rests on more than half of the nodes whose   *)
(* step was observed having moved by the schedule, whatever the similarity  *)
(* of the stars makes up for; this follows from the thresholds alone.       *)
ConsensusIsMajority == snapshot.consensus => 2 * snapshot.followers > snapshot.observed

(* A mutation is authorized on a snapshot that was earned, also when the     *)
(* tracker was reset, or lost its credibility, after it was taken.          *)
ApprovalIsEarned ==
  [][signatures' > signatures => snapshot.good >= 2 /\ 5 * snapshot.followers >= 3 * snapshot.observed]_vars

(* Uniform drift should maintain consensus: once reported, it stays.         *)
UniformDriftKeepsConsensus == [][snapshot.consensus => snapshot'.consensus]_vars

=============================================================================
