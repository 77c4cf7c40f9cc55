----------------------------- MODULE LocalParts -----------------------------
(***************************************************************************)
(* Four parts that share nothing, neither with each other nor with the     *)
(* rest: a search for a route, the local evolution loop, the star memory   *)
(* and the healing of a bubble.  Names that two of them use are kept apart, *)
(* so that a module which composes them can extend this one.               *)
(***************************************************************************)
CONSTANTS
  Stations, Quarters, Beta, Delays, Ends, Parallel, Most, Scale, Far, \* routing
  Mutation, State, Adaptability, MaxCycles,            \* evolution
  Star, NoStar, Scores, MaxHistory, Clusterings, MaxMemory, \* star memory
  Energy, Overshoot, MaxLength, MaxSteps, Shocks, MaxHealing      \* healing

VARIABLES
  delay, bundle, angle, source, target, distance, before, queue, path, place, \* routing
  releases, active, memory, stats, cycles,                            \* evolution
  records, attractors, dirty, asked,                                  \* star memory
  spot, state, trajectory, vector, offered, healed                    \* healing

Router == INSTANCE PhaseRouting WITH Size <- Stations, Circle <- Quarters, phase <- angle

Loop == INSTANCE Evolution WITH Proposal <- Mutation

Guide == INSTANCE StarMemory WITH
  Fitness <- Scores, MaxCalls <- MaxMemory, calls <- asked

Healer == INSTANCE Healing WITH
  MaxCalls <- MaxHealing, calls <- healed, place <- spot, mode <- state

ASSUME LocalAssumption ==
  /\ Router!RoutingAssumption
  /\ Loop!EvolutionAssumption
  /\ Guide!StarMemoryAssumption
  /\ Healer!HealingAssumption

search    == <<delay, bundle, angle, source, target, distance, before, queue, path, place>>
evolution == <<releases, active, memory, stats, cycles>>
guide     == <<records, attractors, dirty, asked>>
healing   == <<spot, state, trajectory, vector, offered, healed>>

(* compute_routing: a route is reported if there is one, with its cost, and  *)
(* no other way from source to target is cheaper.                           *)
RouteIsOptimal == Router!RouteIsOptimal

(* step_evolution: what is published is what the core remembers as accepted. *)
ReleasesAreRecorded == Loop!ReleasesAreRecorded

(* "Never violated": nothing that costs more than max_energy is published.   *)
EnergyIsLimited == Loop!EnergyIsLimited

(* get_attractors: cached attractors are those of the records as they are.   *)
AttractorsAreFresh == Guide!AttractorsAreFresh

(* should_recover: after a step the guard asks for recovery for energy only. *)
GuardFollowsEnergy == Healer!GuardFollowsEnergy

(* replay_to_stability, generate_new_state: no repair raises the energy.     *)
RepairNeverHarms == Healer!RepairNeverHarms
=============================================================================
