# Verification of the mother-earth system

This directory holds TLA+ models of the mother-earth repository, the TLC runs
that check them on small instances, and the theorems about them that TLAPS
proves for all instances. All paths are relative to the repository's root,
`src/` here. The models are written from the code; where code and a comment or
test disagree, the model follows the code and a run shows the disagreement.

Contents: 1 the system; 2 the modules; 3 the runs; 4 fairness; 5 the proofs;
6 what the runs found; 7 what is not modelled; 8 the plan; 9 running the checks.

## 1. The system

The program is a set of Python packages that share no process by design: each
keeps its state in memory, and they meet through callbacks, UDP datagrams,
HTTP requests and one event loop.

| Component | State it keeps | Operations | Talks to |
|---|---|---|---|
| Distributed trial (`mother_evolution/distributed_trial.py`) | active trials, their results, the history | `propose_mutation`, `receive_trial_proposal`, `run_local_trial`, `report_trial_result`, `receive_trial_result`, `_process_result`, `_evaluate_trial` | gossip messages; the sandbox of each node |
| Evolution firewall (`mother_evolution/evolution_controller.py` and `core/`) | versions, decisions, averages | `step_evolution`, `ImmutableCore.validate`, `record_decision`, `ReleaseManager.promote` | sandbox, fitness |
| Rhythm fault tolerance (`mother_relay/fault_tolerance.py`) | node table, network phase, tick | `register_node`, `receive_pulse`, `tick`, `declare_dead`, `initiate_recovery` | called by the main loop and by the gossip's listener threads |
| Wave gossip mesh (`mother_relay/wave_gossip.py`) | identifiers seen, running flag | `send_pulse`, `_listen`, `_process_message`, `stop` | UDP; the manager above |
| Temporal star consensus (`mother_relay/consensus/temporal_star.py`, `temporal_schedule.py`, `integration.py`) | cached stars, two-step histories, credibility, signatures, snapshots | `receive_star`, `get_consensus_score`, `validate_network_state`, `authorize_mutation`, `health_check`, resets | the trial and the clusters |
| Star consensus and block clock (`mother_relay/consensus/star_consensus.py`, `block_clock.py`) | stars, credibility | readings | superseded by the above |
| Clusters (`mother_relay/hypergraph/`, `mother_relay/topology/`) | clusters, hyperedges | build, merge | the gate |
| Star memory (`mother_relay/evolution/star_memory.py`) | records, cached attractors, a stale flag | `add_record`, `add_from_proposal`, `rebuild_attractors`, `reset`, queries | filled from what the gate signed |
| Listener gateway (`components/listener/listener_service.py`, `mother_service/`) | two queues, the chain, metrics | `ingest_batch`, `background_miner`, `_writer_loop`, `lifespan` | BubbleDB over HTTP |
| Tiered storage (`mother_storage/distributed_bubbledb.py`, `migration_engine.py`, `tld_tuner_module.py`) | records, heat, tiers, recovery vectors | `put`, `get`, `tick`, `decide_action` | healing |
| Two-focus memory (`mother_storage/hybrid_bubbledb.py`, `wave_dpu_core_v2.py`) | wave graph, fingerprints, damping | insert, process a wave | - |
| Healing (`mother_healing/`) and elliptic engine (`mother_intelligence/elliptic_memory_engine.py`, `recovery_vector.py`) | a bubble: position, energy, state, trajectory, recovery vector | `step_manifold`, `converge_to_equilibrium`, `apply_recovery_vector`, `should_recover`, `decide_recovery_action`, `replay_to_stability`, `generate_new_state` | the storage's bubbles |
| Wave intelligence (`mother_intelligence/wave_synchronization_layer.py`, `kuramoto_engine.py`, `kuma_00*.py`) | nodes, links and phases; gains of the controller; histories | `step`, `add_node`, `remove_node`, `create_topology`, `run_control_loop`, `simulate_action`, `apply_action`, the perturbation scenarios, `compute_routing` | one layer object shared by all engines |
| Rhythm kernel (`mother_kernel/vsl_rhythm_core.py`) | mode, vitality | `step` | - |
| Language (`mother_language/`), wave node and bridge (`mother_relay/wave_node.py`, `wave_to_cloud_bridge.py`) | none | conversions | - |

What is hard in it, and what makes each part correct:

- **Distributed trial.** Results arrive late, early, twice, out of order, or for
  a trial the node does not know, in which case the code counts them in another
  trial of the same proposal. Correct: nobody is counted twice, evidence is for
  the mutation it is counted for, acceptance rests on a quorum, and a mutation
  nobody rejects is accepted where it was proposed.
- **Fault tolerance and gossip.** Listener threads change the node table while
  the main thread is in the middle of a tick; pulses come back around the mesh
  and arrive after their sender was declared dead; phases wrap. Correct: alive
  means aligned, healing goes the shorter way and ends, dead nodes stay dead, a
  flood reaches everyone, once, and dies out.
- **The consensus gate.** Reading a status changes the credibility it reports;
  callers hold snapshots across resets; scores of four kinds add up. Correct: a
  mutation is authorized only on a consensus that good readings earned and a
  majority of the observed nodes carried.
- **Listener gateway.** Requests suspend at each event while others fill the
  same queue; mining may give up. Correct: an accepted event is mined once, in
  order, or given up; counts agree with queues.
- **Wave intelligence.** A simulation runs on the layer it simulates and must put
  back what it tried; scenarios remove nodes that links, caches and snapshots still
  name; a cascade has a limit that is tested once for two nodes, and not at all for
  the first ones. Correct: no link dangles, gains are those that were declared, a
  route is the cheapest.
- **Healing.** A bubble's energy, state and trajectory are written by different
  callers; repairs use entries that were recorded without an energy. Correct: a
  repair from the past does not raise the energy, and a step leaves no alarm but
  that of the energy.
- **Firewall, star memory, storage, kernel.** One decision kept in two places; a
  cache that must be rebuilt after a bounded history dropped its oldest entry;
  sequences of legal calls that pass a limit; a copy that replaces a newer
  record; a mode that cannot be left.

`PROJECT.json` lists every such hazard at its line, with the properties that
cover it, and says why where none does.

## 2. The modules

### DistributedTrial, TrialLedger

`DistributedTrial` is one coordinator per node, a set of messages, and the
callers. `status`, `results` and `older` (the insertion order, as pairs) are
`_active_trials`; `history` is `_trial_history`; `produced` are the results that
local runs returned. A result's fitness is abstracted to its verdict, since
`run_local_trial` returns a positive fitness exactly when it accepts. An action
is a call: `ProposeMutation`, `RunLocalTrial`, `ReportResult`,
`ReceiveProposal`, `ReceiveResult`, `RecordOwnResult` (a node's own result is
handed to `_process_result` by its caller, as the module's test does). Receiving
a result contains the whole of `_process_result` and `_evaluate_trial`: the
search with its fallback, the duplicate check, the quorum, the verdict, filing
and deletion. `raised` records the trials whose evaluation threw. Gossip is
external: `Duplicates` lets it deliver a message any number of times; without
that a message is delivered at most once, and may be lost. The order of delivery
is always free.

`ReliableSpec` is the same coordinators with other callers, those of the module's
test: `RunAndReport` is one of its statements, in which a node runs a trial it knows,
reports the result and counts it, once; `Deliver` hands over a message that is
dropped, as the code drops it, if it is a result of an unknown trial.

`TrialLedger` is the promise: a ballot box per node and trial that takes one
ballot per node and is accepted at the ballot which completes a quorum with
consensus, once and for good. `DistributedTrial` implements it under the mapping
at its end when gossip does not duplicate messages. (With duplicates a trial
that has been accepted may be opened again by a repeated proposal.)

### FaultTolerance, WaveGossip, RhythmNetwork

`FaultTolerance` is the manager with its heartbeat and healer. Phases are units
on a circle, `Way` is `atan2(sin, cos)`, `Healed` a third of the way as `tick`
does. A tick is not one step: `BeginTick` moves the clock and takes the list of
nodes, `Inspect` reads a node, `Conclude` writes what was detected. With
`Threaded` a pulse may arrive between the two. `age` is the difference of the
tick counter and a node's last pulse, kept only as far as the code can tell
ages apart.

`WaveGossip` is the mesh: per-node sets of identifiers (source and tick) that
are emptied past a limit, datagrams in flight, loss, nodes that stop.

`RhythmNetwork` composes instances of both: a listener that accepts a pulse
forwards it and hands it to the manager in one step; sending a pulse first
registers the sender, because the default argument of `nodes.get` is evaluated
even if it is not used.

### StarGate

The gate of `integration.py` on top of `TemporalStarConsensus` and its
`ExperienceTracker`. Scores are in thousandths. A trail is the last two entries
of a phase history, which is all the code reads. Similarity of stars is any
value of `Geometries` and clusters are any sets of validated nodes: both are
numeric results of code that is not modelled. `Validate`, `HealthCheck`,
`ReceiveStar`, `AdvanceTick`, `Authorize`, `ResetTracker` and `Reset` are the
operations; `snapshot` is the `NetworkState` that a caller holds and hands back
to `authorize_mutation`, whatever happened in between. `UniformSpec` is the
behaviour of the test's first scenario.

### ListenerPipeline

The gateway's requests, queues, miner and writer on one event loop: a step is
what runs between two suspensions. A request suspends at each post to BubbleDB
and when its client closes; putting into an unbounded queue does not suspend,
mining is synchronous, and taking from a queue that holds something does not
suspend either, so the miner empties its queue in one step. A block's content
is the batch it was made of; that mining may give up after a million nonces is a
choice.

### TieredStorage

`DistributedBubbleDB` with its tier controller and the part of the elliptic engine it
uses. A heat, and the L of a bubble, is one of the five zones that the calibrator's
default thresholds cut (0.15, 0.30, 0.55, 0.75); the sets `Boosted` and `Cooler` are
where the code's formulas can take a value of a zone. `tick` is one step for all
records: `ProcessTick` judges each record by its decayed heat and counts the moves,
then the L of the bubble, one step down its manifold, replaces that heat, as the code
has it. `get` is `Touch` followed by the copy of the heat to the L. `vectors` and
`attached` are the two places of a recovery vector; `put` empties the second.
`initial` is the tier that the configuration gives to new records, any of the three.
Applying a vector (`Recover`) is done by callers of the storage, as its test does.

### WaveLayer, WaveControl, PhaseRouting

`WaveLayer` is the network of oscillators with what the Kuramoto and perception
engines read off it: the order parameter (in hundredths, with a mark for what
lies between two of them, so that every threshold is decided as on exact
numbers), the nodes out of phase, the state of mind, the risk. How far the phases move
in a step is any of `Moves`; everything computed from them is the code's.

`WaveControl` extends it with the calls that drive it, one `mode` each: the
control loop (`LoopStep`, `Decide`, `SimulationStep`, `Judge`), the supervisor,
the causal replay, node drops, the cascade, new topologies, `ApplyAction` from
outside. All run in one thread on one layer, so calls do not overlap, but their
effects on `members`, `links`, `gain` and the histories carry over. `declared`
is what `_action_history` says of the gains. What the regression predicts is any
value that the thresholds of `decide` tell apart.

The cascade starts with any of the members and any of `Limits`: the code does not
compare its two arguments.

`PhaseRouting` is the corrected router of `kuma_003_1_routing_fix.py`: Dijkstra's
search, a turn of a loop an action, with exact costs. Two nodes may have several
links (`bundle`), in either direction or repeated: `_get_local_coherence` meets a
neighbour once for each, so they weigh on the phase penalty; for the length of a
step only the least delay tells. Its reference definition
is that of the problem: `Ways` are the sequences from source to target that meet
no node twice, `Price` sums the costs of their `Legs`. The network of a search is
any one; it does not change while the search runs.

### Evolution

The cycle of `step_evolution`: the sandbox, the rules of the core, the fitness,
the release and the record of the decision, as `Refuse`, `Deploy` and `Discard`.
Metrics are in thousandths. The rule on energy looks for a name the sandbox does
not write, so `Approved` has no such conjunct.

### StarMemory

Records up to `MaxHistory`, the greedy clustering of the successful ones, and
its cache with the stale flag. `Successes` are places of the history; `Group` is
what the first of those left takes with it, and `Clusters` goes from group to
group until none is left or there are enough. How many clusters, and of how many
points, is an argument of each call of `RebuildAttractors`, which looks at it only
if the flag is up. The queries of the memory, which read the cache without looking
at the flag, change nothing and are left out. `Backing` is how many successes a
list of attractors claims to count. A star is a place on a line.
A record that comes from a signed proposal has the empty star, because
`add_from_proposal` reads a name that the signature does not have.

### Healing

One bubble with the elliptic engine, the guard and the repairs. A position is a
band of energy, the thresholds of the code lying between bands. A step multiplies L
by 1 - 0.04 alpha L^2, which keeps it in its band or takes it to any lower one as long
as the factor is -1 or more. From the energy `Overshoot` on (2500 / alpha, 25000
for the default alpha, where |L| is 22) a step may lead anywhere (`Below`), or
raise once the powers of L leave the floats (`Overflow`). A step drops one entry
of the trajectory, so that one which vectors made too long stays so (`Trimmed`).
Trajectory entries say
whether their energy was written, since `apply_recovery_vector` writes none and
each reader has its own default. `Replay` ends where `determine_state` is
missing from the engine: position replaced, state not. `offered` is a vector that
a caller has built and may apply at any later time. `decide_recovery_action`
answers a question and changes nothing; as no caller in the repository carries out
its answers, it is left out.

### DetectorPart, NetworkPart, LocalParts, MCFairParts, MCSafeParts

Parts that share no state share a run: `Init` picks one part, which then moves
while the others rest in one state. The state graph is the sum of those of the
parts, not their product, and a property of a part holds in the sum exactly when
it holds in the part. `MCFairParts` has the gateway, the detector and the mesh,
whose promises need fairness; `MCSafeParts` has the wave control, the router, the
mesh with its detector, the evolution loop, the star memory and the bubble.

The instances themselves are in three modules that hold no behaviour of their
own: `DetectorPart` (the manager alone, on one thread), `NetworkPart` (the manager
with the mesh) and `LocalParts` (router, evolution loop, star memory, bubble).
They keep apart the names that two parts use, give each property its name, and
state the assumptions of the parts (`DetectorAssumption`, `NetworkAssumption`,
`LocalAssumption`), which modules reached by INSTANCE only define as operators.
The runs extend them, so that TLC evaluates the assumptions, and the proof modules
extend them too, so that what is proved and what is run are the same definitions.

Operators whose comment begins with "Mutant of" are plausible mistakes in the
operator they precede. They are used by no specification; `PROJECT.json` says
which property each one breaks.

## 3. The runs

Three runs are of the trial, two of the gate, one of the storage, two of several
parts each; the other four show one violation each, of the relay, of the evolution
loop and two of the wave control.

| Run | Bounds | What it shows |
|---|---|---|
| `trial_votes` | 4 nodes, 1 trial, 2 runs per node with any verdict, unlimited duplication | `OneBallotPerNode`, `AcceptanceIsBacked`, `VotingIsTerminal`: four voters are one more than the quorum, so late results, changed minds and all three verdicts occur |
| `trial_reliable` | 3 nodes, 2 trials of 1 or 2 proposals, of which one may be rejected, one run a node, no loss, fair | `EvidenceIsReal`: the fallback search meets a trial of the same and of another proposal; `ImplementsLedger`; `UnanimityIsAccepted`: three nodes are exactly a quorum, so every result is needed. Results that overtake their proposals are lost |
| `trial_rejection` | as `trial_votes`, one run per node | violated: finding 1 |
| `network_recovery` | 2 nodes, circle of 3, 2 pulses, 2 ticks, 5 operations | violated: finding 2 |
| `gate_safety` | 3 nodes, circle of 8, 3 readings, a schedule of 2 steps | `CredibilityIsEarned`, `ConsensusIsMajority`, `ApprovalIsEarned`: two good readings open the gate, the third can spoil it |
| `gate_wrap` | circle of 101, the real schedule, nodes at most 1 apart | violated: finding 3 |
| `fair_parts`, gateway | 3 requests of 5, 2 and 1 events, batches of 2, fair | `EventHasOnePlace`, `PendingIsQueue`, `ChainKeepsOrder`, `EventsSettle`: full batches, a remainder and a batch that is full exactly |
| `fair_parts`, detector | 1 node, circle of 72, tolerance 4 (the code's 0.35 rad), window 1, drift of up to 3 per tick, fair | `AliveMeansAligned`, `HealingShrinksError`, `RecoveryEnds`: a third of the way makes up for a drift of 1 and not for 2 or 3, where a chase without end occurs; nodes of one manager do not influence each other between ticks, so one on a fine circle covers the arithmetic |
| `fair_parts`, mesh | 3 nodes in a directed ring, 2 payloads, no loss, fair | `FloodEnds`, `PulseReachesAll`: a ring is the mesh where relaying is needed and where a pulse returns to its sender |
| `tiered_storage` | 2 records, 2 vectors, any initial tier, 3 calls besides ticks and the storing and clearing of vectors, fair | `MigrationsArePaidFor`, `VectorIsLastStored`, `EveryRecordCools`: a record is put hot, climbs two tiers by ticks, is recovered or read, and falls; both move in one tick |
| `safe_parts`, control | 4 oscillators on a circle of 8, gains of 3 levels, 2 calls of up to 2 steps, all five shapes (no extra links in the small world, degree 1) | `NothingDangles`, `GainsAreDeclared`: two calls are what one needs to spoil for the next |
| `safe_parts`, routing | every network of 4 nodes with link delays 0 or 7, phases of up to three quarters of a turn, nodes 0 and 1 linked once or twice | `RouteIsOptimal`: routes of up to 3 links, ties, entries that were outrun, unreachable targets |
| `safe_parts`, network | 2 nodes, circle of 3, 2 pulses, 2 ticks, 3 operations, loss | `DeadReturnsOnlyByPulse`: a late pulse of a dead node, pulses inside a tick, stopped nodes |
| `safe_parts`, evolution | 2 mutations, 5 states to evolve, 3 cycles | `ReleasesAreRecorded`: released, refused and discarded mutations in any order, identifiers repeated |
| `safe_parts`, memory | 3 stars, history of 3, 5 calls, clusterings of up to 5 clusters of 3 points and of one cluster of 2 | `AttractorsAreFresh`: the history drops its oldest record between two rebuilds; one star lies near two that are not near each other |
| `safe_parts`, healing | 4 bands of energy, the last one beyond `Overshoot`, trajectory of 5, 2 steps to converge, 6 calls | `GuardFollowsEnergy`, `RepairNeverHarms`: the trajectory is cut once it exceeds 5, all thresholds (10, 100, a jump of 2500) are crossed, and steps overshoot |
| `wave_loop` | as the control part, one call | violated: finding 4 |
| `cascade_limit` | as the control part, one call, a limit of 2 | violated: finding 6 |
| `firewall_energy` | as the evolution part | violated: finding 5 |

Each passing run checks the type invariant of its module except where another
run of the same module does (in `safe_parts`, `TypeOK` is that of the wave control
and `NetworkTypeOK` that of the network; in `fair_parts`, `TypeOK` is that of the
gateway). Deadlock is checked except where the bounds on pulses, ticks, requests
or calls stop the system: `fair_parts`, `safe_parts` and the violations of the
relay, the wave control and the evolution loop.

Bounds in the modules are named in their CONSTANTS (`MaxRuns`, `MaxHistory`,
`MaxClock`, `MaxPulses`, `MaxOperations`, `MaxReadings`, `MaxSignatures`,
`MaxCalls`, `MaxCycles`); the proofs do not depend on their values. `Listeners`
makes one node hear results: the others take part as voters, and coordinators do
not read each other's state. Symmetry is used over nodes, trials, proposals and
peers only where the run checks no liveness and no constant tells them apart.

## 4. Fairness

- The detector (`FaultTolerance!FairSpec`, in `MCFairParts!PartsSpec`): the main
  loop keeps calling `tick`, and a tick that has begun ends. That is the loop of
  the integrated test; nothing else is fair, so recovery ends without any pulse
  arriving. The drift is not assumed to stop: `RecoveryEnds` says that a node leaves
  recovery or the network goes on moving by a third of the tolerance or more a tick
  (`OutrunsHealing`). That exception is real, since `max_recovery_ticks` is never read.
- The mesh (`WaveGossip!FairSpec`, in the same): every listener thread keeps
  reading and is not stopped. Nothing forces anyone to send.
- `DistributedTrial!ReliableSpec`: one weak fairness, that as long as a node has a
  trial to run or a message is on its way, something of that happens. Trials are
  finitely many, each node runs each once and each message is delivered once, so all
  of it happens, in any order. Nobody reports twice: the code has no retry, and a
  result that arrives before its proposal is dropped for good. `UnanimityIsAccepted`
  therefore promises acceptance at the proposing node only, whose table holds the
  trial before anybody can report; elsewhere a trial may wait for ever.
- The gateway (`ListenerPipeline!FairSpec`, in the same): the event loop runs what
  is ready, and BubbleDB answers or refuses each post. The second is an
  assumption: the post has no timeout, and without it a request waits for ever
  with events already accepted.
- `TieredStorage!FairSpec`: the owner keeps calling `tick`, and as long as some
  bubble is above the lowest zone, one falls. The code lowers L by `0.004 * L^3`
  in each tick, so no zone above the lowest holds it for ever; the zones forget
  how far it has come, and the strong fairness says it again. It is an assumption on the
  records' L: above 22 in size, which a put or a recovery vector may set, a step
  overshoots and L may grow. The model's zones leave such records out.

## 5. The proofs

Every invariant and every action property that a passing run checks is also a
theorem, and so is the refinement of `TrialLedger`. The theorems hold for all
values of the constants that satisfy the named assumptions; the bounds of section
3 are bounds of the runs only. Most of the invariants are not inductive alone;
what follows is what each proof adds, and why.

`DistributedTrialProofs` (any number of nodes, trials, proposals and runs, with or
without duplication; invariant `TrialInv`):

- `TypeCorrect`.
- `OneBallotPerNodeHolds`. A record of the history is only as good as the table it
  was filed from, so the invariant speaks of both; the step that matters is that
  `Count` adds a result only when `HasVoted` is false.
- `EvidenceIsRealHolds`. Needs that everything in the gossip layer was produced,
  that a result's trial has been drawn, and that a drawn proposal never changes;
  the fallback search keeps it because it looks for an equal proposal.
- `AcceptanceIsBackedHolds`. Turns counts of results into counts of nodes: with one
  ballot per node the map from results to voters is a bijection.
- `VotingIsTerminalHolds`. Only a pending trial is evaluated, and only an absent one
  can be opened; a voting one is neither, so results are added to it and nothing else.
- `LedgerRefinement`, under `~Duplicates`. Each step opens one box, casts one
  ballot in one box or is a stutter (`OpeningSimulates`, `CastingSimulates`).
  `LedgerInv` is what makes that true: a filed trial is not open, and a proposal
  that is still on its way has not been opened (`DeliveredOnce`). With duplicates
  it is false: a repeated proposal reopens an accepted trial.

`RhythmProofs` (any nodes, peers, circle, tolerance, window, drift):

- `TypeCorrect`, of the manager and the mesh together, with listeners inside ticks.
- `DeadReturnsOnlyByPulseHolds`. A tick acts on what it read of a node before
  listeners ran; the invariant `LookedAtLives` says that the node a tick is looking
  at is not dead, and each step that ends a death is then followed to its cause.
- `AliveMeansAlignedHolds`, for one thread. `Judged` says that what the tick has
  read still holds, `Looked` that all nodes but those the tick has still to look at
  are aligned if alive. With listeners the property is false inside a tick.
- `HealingShrinksErrorHolds`, for tolerances of at least one unit. It rests on
  `WayAfter` and `HealedIsNearer`, arithmetic modulo the circle: a third of the way,
  in whole units, is not nothing and does not pass the goal. At tolerance 0 the
  statement would be false of a phase one unit away, a third of which is no unit;
  the code's 0.35 rad is far above any unit of the model.

`StarGateProofs` (any nodes, circle, schedule, similarities; invariant `GateInv`):

- `TypeCorrect`. That the coherence is a number between 0 and 1000 needs that the
  sum of the positions and the widest deviation exist and are bounded, for every
  finite set of nodes (`CoherenceType`).
- `CredibilityIsEarnedHolds`, by the bound `Earned` on what good readings can add.
  The metrics stay opaque: the lemma `ExperienceIsEarned` holds for every quality.
- `ConsensusIsMajorityHolds`. From the thresholds alone: even with similarity and
  coherence perfect, a score that is no emergency leaves room for an agreement of no
  less than 0.524 (`CalmNeedsAgreement`), and the agreement is the share of nodes
  that moved by the schedule (`AgreementShare`).
- `ApprovalIsEarnedHolds`. `SnapshotSound` carries both facts with the snapshot,
  whatever is reset between taking and using it.

`ListenerPipelineProofs` (any requests, payloads, batch size):

- `TypeCorrect`, `PendingIsQueueHolds`. The queue holds sequences of accepted
  events, which must survive the growth of the set of accepted events and the
  slicing of a payload (`SeqsGrow`, `BatchesAreSeqs`).
- `EventHasOnePlaceHolds`, `ChainKeepsOrderHolds`. `LineInv`: every block and every
  batch is in payload order, blocks come before the queue, which matters when mining
  one batch gives up and the next succeeds; an event is somewhere exactly if it was
  accepted by a request that has been answered; no event is in two of queue, chain
  and failed.

`TieredStorageProofs` (any keys, vectors, calls):

- `TypeCorrect`.
- `VectorIsLastStoredHolds`, by `CopiesAgree`: a record's own copy, if there is one,
  equals the copy in `_recovery_vectors`, and a node without a record has none of
  its own. Without it `put`, which drops one copy, could bring back an older vector.
- `MigrationsArePaidForHolds`, by a potential: `Due` of a record is the most
  migrations its tier, heat and L can still cause by ticks alone. A tick pays what
  it migrates from the dues (`TickPays`), a put, a read and a recovery add 5, 2 and 4
  at most; `DuesAreCovered` sums over all records.

`WaveControlProofs` (any number of nodes, moves, shapes, gains, predictions and
lengths of calls):

- `TypeCorrect`. The gains stay between the limits of the decision engine only
  because what a simulation, the supervisor or the replay put aside lies between
  them too (`Between`). The order parameter is the integer root of a sum of
  products; `HundredthsExist` and `OrderIsBounded` show that it exists and is
  within bounds for every table of cosines.
- `NothingDanglesHolds`. The lemma `NextMovesNetwork` says that every action is one
  of five operations of the network or leaves it alone, which makes the property
  inductive; that the shapes link nodes only is arithmetic modulo the number of
  nodes.
- `GainsAreDeclaredHolds`, by `GainsKept`: what is put aside is what was declared
  when the call began, since no declaring action comes in between.

`PartsProofs` (router, evolution loop, star memory, bubble):

- `RouteIsOptimalHolds` (any stations, links, delays, phases, ties). The invariant
  `Searching` is that of label setting: everything that was reached and is not
  settled waits in the queue with its distance, every entry of the queue is at least
  as far as every settled stop, the predecessor of a stop is settled, and a link from
  a settled stop improves nothing any more. Two things are particular to this code.
  An entry that was outrun stays in the queue, so "settled" has to be said in terms
  of queue and distances (`Settled`). And `Far` stands for infinity, so a distance
  must stay below it: by rank, the k-th settled stop costs less than k parts of `Far`
  out of the number of stations. `Tracing` says that the predecessors lead back to
  the source without a repetition; the path is then compared to any way, leg by leg
  (`NothingIsCheaper`). Parallel links only change the number of neighbours, which
  divides `Scale`.
- `ReleasesAreRecordedHolds`. The published releases correspond one to one, in
  order, to the recorded decisions that accepted (`Places`); the counts of the
  statistics follow from that bijection.
- `AttractorsAreFreshHolds`. That the clustering is defined at all is a theorem
  (`GrowthExists`), and that it gives no success to two groups is shown by induction
  over the sets of records that are left (`GrowthIsBacked`). It holds for whatever
  numbers each caller asks for.
- `GuardFollowsEnergyHolds`, `RepairNeverHarmsHolds`. The entries of the trajectory
  keep their types and the written energies are those of positions (`HealingTyped`),
  so what a reader finds, or its default, bounds what it restores. A step may raise
  the energy from `Overshoot` on, and the theorem says so: what it promises of every
  bubble is that going back to an entry of the trajectory, or to none, does no harm;
  of convergence it promises that only below `Overshoot`.

`FiniteSums` holds what the others share: that sums over finite sets exist, are
additive, monotone and bounded, and that a sum of shares is a sum of counts. Where
a definition recurses over numbers or sets, the proofs do not use the library's
induction theorems, which take an operator; they collect the cases that hold in a
set and show that it is closed (`ClosedNat`, `ClosedUpTo`, `ClosedFamily`).

Model-checked only: liveness under fairness (`UnanimityIsAccepted`, `RecoveryEnds`,
`FloodEnds`, `PulseReachesAll`, `EventsSettle`, `EveryRecordCools`), which is out of
the prover's reach, and the six counterexamples of section 6, which are behaviours
and not theorems.

## 6. What the runs found

1. `trial_rejection`: `_evaluate_trial` assigns to `trial.status.status`
   although `status` is a string. The AttributeError leaves a rejected trial
   active and pending, against the branch that retires accepted and rejected
   trials.
2. `network_recovery`: sending a pulse of a known node replaces its entry, alive
   at phase 0, because the default of `nodes.get` is evaluated first. A node in
   recovery becomes alive without alignment.
3. `gate_wrap`: phase coherence is taken along a line, so a group of nodes that
   drifts by the schedule loses consensus when one of them passes the end of the
   circle, where the test says that uniform drift maintains it.
4. `wave_loop`: `simulate_action` subtracts what it perceives after the simulation
   from what the simulation ended with, on the same layer. The difference is
   always 0, so the control loop applies no action at all, although its comment
   says that it applies one whose predicted improvement is positive.
5. `firewall_energy`: the immutable core looks for `energy` in metrics that call
   it `energy_cost`, finds the default 0, and `max_energy`, one of the laws that
   are "never violated", limits nothing.
6. `cascade_limit`: a cascade compares the failures with `max_failures` before it
   removes up to two nodes, and so passes by one what its docstring calls the most
   failures of a cascade; the defaults allow 11 where they say 10. The failures it
   begins with are not compared at all.

Also visible in the models, without a line of the repository that says otherwise: a
"voting" trial is never evaluated again (`VotingIsTerminal` states it); a desynced
node is looked at by no branch of `tick`; a pulse in flight revives a dead node
(`DeadReturnsOnlyByPulse` says exactly when); the writer of the gateway takes events
and does nothing with them; a tick of the storage replaces the decayed heat by the L
of the bubble, so that heat never decays by its own rule and a record climbs to HOT
without being read; a read between a recovery and the next tick undoes the recovery.
A repair that replaces the energy leaves the trajectory behind, and the guard then
sees a deviation until the next step (`GuardFollowsEnergy` is stated for steps); a
vector built while the bubble deviates is applied again at each alarm;
`converge_to_equilibrium` does nothing for a fresh bubble, whose state says
equilibrium whatever its energy; records that come from proposals carry no star, so
no attractor ever forms from them; queries of the star memory that do not rebuild
read the attractors of older records; a node in recovery is chased for ever by a
network that moves faster than a third of the way makes up for; a simulated isolation
is not undone.

## 7. What is not modelled

Numeric simulation: the integration of oscillators and ellipses, the regression
of the prediction, fingerprints, the geometry decoder: arithmetic on reals
that TLC cannot enumerate; the models take any result that the code around it
tells apart. Conversions without state (language, packets, the cloud bridge).
Display, logging, averages.

Of the modelled components: the cosine similarity of stars and the building of
clusters (any result is allowed), the drawing of stars from database statistics,
times and interference in the gateway's metrics, hashes of blocks, angles and
energies of the storage's bubbles, thresholds other than the calibrator's defaults
(`set_calibrator_params` may set others), phases and pure queries of the star memory,
the order in which the nodes out of phase are listed (any choice is allowed), the
first router of `kuma_003_adaptive_topology.py`, which the fix replaces, the drift
detector, and the alternative form of a recovery vector
(`RecoveryVectorBuilder.apply`).

Not modelled at all, for now: the older gate with its block clock, the clusters'
hypergraph, the two-focus memory, the rhythm kernel, the migration engine. They
are in the plan.

The chain and all queues live in memory, so a crash loses them and there is no
restart to model.

## 8. The plan

1. Done: `DistributedTrial` with `TrialLedger`; `FaultTolerance`, `WaveGossip`
   and their composition `RhythmNetwork`; `StarGate`; `ListenerPipeline`;
   `TieredStorage`; `WaveLayer`, `WaveControl` and `PhaseRouting`; `Evolution`;
   `StarMemory`; `Healing`; the proof modules of all of these.
2. Done: a proof of each safety property that a passing run checks, for every
   value of the constants, and of the ledger's refinement (section 5).
   To do: the types of the router, the evolution loop, the star memory and the
   bubble as theorems of their own (the proofs have them as parts of their
   invariants), what the ledger promises when messages are repeated, and
   `AliveMeansAligned` of one node while listeners run on other nodes.
3. `TwoFocusMemory` and the migration engine on top of the storage. To ask: a
   damped record that is never woken, a migration decided on figures that have
   changed.
4. `RhythmKernel`: which modes can be left, and how.
5. Clusters, and the older gate, whose tracker is updated twice per reading.

Runs are kept to one for each question; when a component's questions can share
an instance, or parts share nothing, they share a run.

## 9. Running the checks

In this directory, with the tools of TLA+ on the path:

    tlc -workers 2 -config trial_votes.cfg MCDistributedTrial.tla
    tlapm DistributedTrialProofs.tla

The module of a run and what it should end in are in `PROJECT.json`. Every run
ends within three minutes on two cores.
