----------------------------- MODULE NetworkPart ----------------------------
(***************************************************************************)
(* The mesh with its failure detector, under names that a module which     *)
(* composes it with others can extend.                                     *)
(***************************************************************************)
EXTENDS DetectorPart

CONSTANTS Peers, SeenLimit, Lossy, MaxClock, MaxPulses

VARIABLES beat, running, seen, net, heard, sent, pulses

Network == INSTANCE RhythmNetwork WITH
  Node <- Peer, Circle <- Turn, phase <- beatPhase, pending <- unseen

ASSUME NetworkAssumption ==
  Network!Manager!FaultAssumption /\ Network!Gossip!GossipAssumption

network == <<detector, beat, running, seen, net, heard, sent, pulses>>

(* Manager and mesh keep their types when they run together. *)
NetworkTypeOK == Network!TypeOK

(* tick, receive_pulse: only a pulse or an operation ends the death of a node. *)
DeadReturnsOnlyByPulse == Network!DeadReturnsOnlyByPulse
=============================================================================
