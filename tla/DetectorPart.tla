---------------------------- MODULE DetectorPart ----------------------------
(***************************************************************************)
(* The failure detector alone, on one thread, under names that a module    *)
(* which composes it with others can extend.                               *)
(***************************************************************************)
CONSTANTS
  Peer,          \* nodes that are watched
  Turn,          \* phase units in a full turn
  Tolerance, Window, Phases, MaxDrift, MaxOperations

VARIABLES
  status, beatPhase, age, clock, netPhase, unseen, judging, checked, ops

Detector == INSTANCE FaultTolerance WITH
  Node <- Peer, Circle <- Turn, Threaded <- FALSE, phase <- beatPhase, pending <- unseen

ASSUME DetectorAssumption == Detector!FaultAssumption

detector == <<status, beatPhase, age, clock, netPhase, unseen, judging, checked, ops>>

(* A node is considered alive if its phase aligns with the network. *)
AliveMeansAligned == Detector!AliveMeansAligned

(* tick: the healer takes a recovering node nearer to the network. *)
HealingShrinksError == Detector!HealingShrinksError

(* tick: while the main loop ticks, a node leaves recovery, unless the       *)
(* network's phase goes on moving too fast for it.                          *)
RecoveryEnds == Detector!RecoveryEnds
=============================================================================
