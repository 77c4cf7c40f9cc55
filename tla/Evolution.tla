------------------------------ MODULE Evolution -----------------------------
(***************************************************************************)
(* The local evolution loop of mother_evolution: EvolutionController steps *)
(* a mutation through the sandbox, the rules of ImmutableCore and the      *)
(* fitness of FitnessEvaluator, and ReleaseManager publishes what passes.  *)
(* The decision is kept twice: as a release, and in the memory and the     *)
(* statistics of the core.                                                 *)
(*                                                                         *)
(* Metrics are in thousandths.  The parameters a proposal tunes are kept   *)
(* in the release and read by nothing, so a proposal is its identifier,    *)
(* which is drawn at random and may repeat.                                *)
(***************************************************************************)
EXTENDS Integers, Sequences, FiniteSets

CONSTANTS
  Proposal,      \* identifiers a proposal may draw
  State,         \* bound: the states callers evolve: stability, energy, phaseError
  Adaptability,  \* values of the sandbox's adaptability
  MaxCycles      \* bound: cycles of the controller

EvolutionAssumption ==
  /\ State \subseteq [stability : Nat, energy : Nat \ {0, 1}, phaseError : Nat]
  /\ Adaptability \subseteq Nat
  /\ MaxCycles \in Nat

VARIABLES
  releases,  \* history of the release manager; release i is version v1.1.i
  active,    \* active_version, 0 for v1.0.0-Alpha
  memory,    \* _evolution_memory
  stats,     \* _decision_stats of the one mutation type there is
  cycles     \* _cycle_count

vars == <<releases, active, memory, stats, cycles>>

Init ==
  /\ releases = <<>>
  /\ active = 0
  /\ memory = <<>>
  /\ stats = [accepted |-> 0, rejected |-> 0, average |-> 0]
  /\ cycles = 0

-----------------------------------------------------------------------------
(* What becomes of a proposal. *)

Least(x, y) == IF x < y THEN x ELSE y

(* SandboxRunner.run: the simulation does not look at the proposal. *)
Simulations(s) ==
  [energyCost : {(s.energy * 85) \div 100},
   stability : {Least(1000, (s.stability * 105) \div 100)},
   phaseError : {(s.phaseError * 8) \div 10},
   adaptability : Adaptability]

(* ImmutableCore.validate: the energy it looks for is not under the name the *)
(* sandbox gives it, so max_energy is never compared with anything.          *)
Approved(m) == m.stability >= 600 /\ m.phaseError <= 500

Distance(x, y) == IF x < y THEN y - x ELSE x - y

(* FitnessEvaluator.calculate_fitness; a fitness of .65 or less becomes -1.  *)
Fitness(m) ==
  LET sum == 300000 \div m.energyCost
             + (30 * m.stability + 20 * m.adaptability
                + 20 * (1000 - Distance(m.stability, m.adaptability))) \div 100
  IN  IF sum > 650 THEN sum ELSE -1000

-----------------------------------------------------------------------------
(* ReleaseManager.promote *)
Promote(p, fitness) ==
  /\ releases' = Append(releases, [proposal |-> p, fitness |-> fitness])
  /\ active' = Len(releases) + 1

(* The average is taken over rejections too, which add nothing to the sum.  *)
Averaged(fitness) ==
  LET total == stats.accepted + 1 + stats.rejected
  IN  (stats.average * (total - 1) + fitness) \div total

(* ImmutableCore.record_decision *)
RecordDecision(p, m, decision, fitness) ==
  /\ memory' = Append(memory, [proposal |-> p, metrics |-> m,
                               decision |-> decision, fitness |-> fitness])
  /\ stats' = IF decision
                THEN [stats EXCEPT !.accepted = @ + 1, !.average = Averaged(fitness)]
                ELSE [stats EXCEPT !.rejected = @ + 1]

(* The core firewall turns the mutation down before its fitness is known.   *)
Refuse(p, m) ==
  /\ ~Approved(m)
  /\ RecordDecision(p, m, FALSE, 0)
  /\ UNCHANGED <<releases, active>>

(* Mutant of Deploy: a published mutation is not written to the memory. *)
DeployUnrecorded(p, m) ==
  /\ Approved(m)
  /\ Fitness(m) > 0
  /\ Promote(p, Fitness(m))
  /\ UNCHANGED <<memory, stats>>

Deploy(p, m) ==
  /\ Approved(m)
  /\ Fitness(m) > 0
  /\ Promote(p, Fitness(m))
  /\ RecordDecision(p, m, TRUE, Fitness(m))

Discard(p, m) ==
  /\ Approved(m)
  /\ Fitness(m) <= 0
  /\ RecordDecision(p, m, FALSE, Fitness(m))
  /\ UNCHANGED <<releases, active>>

StepEvolution(s) ==
  /\ cycles < MaxCycles
  /\ \E p \in Proposal, m \in Simulations(s) :
       Refuse(p, m) \/ Deploy(p, m) \/ Discard(p, m)
  /\ cycles' = cycles + 1

Next == \E s \in State : StepEvolution(s)

Spec == Init /\ [][Next]_vars

-----------------------------------------------------------------------------
(* The decisions that were yes, and which of them the i-th one is. *)
Accepted == {i \in DOMAIN memory : memory[i].decision}
Place(i) == Cardinality({j \in Accepted : j <= i})

(* What ReleaseManager published is what the core remembers as accepted, in  *)
(* the same order and with the same fitness, each of it passed the rules     *)
(* that are enforced, and the statistics and the active version count it     *)
(* (step_evolution writes to both sides one after the other).                *)
ReleasesAreRecorded ==
  /\ Len(releases) = Cardinality(Accepted)
  /\ \A i \in Accepted :
       /\ releases[Place(i)].proposal = memory[i].proposal
       /\ releases[Place(i)].fitness = memory[i].fitness
       /\ memory[i].metrics.stability >= 600
       /\ memory[i].metrics.phaseError <= 500
  /\ active = Len(releases) /\ stats.accepted = Len(releases)
  /\ stats.accepted + stats.rejected = Len(memory) /\ Len(memory) = cycles

(* "Fundamental laws of the system that are never violated": no mutation     *)
(* that costs more energy than max_energy is published.                      *)
EnergyIsLimited == \A i \in Accepted : memory[i].metrics.energyCost <= 900
=============================================================================
