---------------------------- MODULE RhythmNetwork ----------------------------
(***************************************************************************)
(* The pulse mesh and the failure detector together, as the integrated     *)
(* test of mother_relay runs them: gossip nodes that share one             *)
(* FaultToleranceManager.  The main thread registers, sends the pulses,    *)
(* ticks, kills and recovers; each listener thread hands the pulses it     *)
(* takes to the manager, inside a tick too.                                *)
(***************************************************************************)
EXTENDS Integers, FiniteSets

CONSTANTS
  Node, Circle, Tolerance, Window, Phases, MaxDrift, MaxOperations,
  Peers, SeenLimit, Lossy, MaxClock, MaxPulses

VARIABLES
  status, phase, age, clock, netPhase, pending, judging, checked, ops,
  beat, running, seen, net, heard, sent, pulses

Manager == INSTANCE FaultTolerance WITH Threaded <- TRUE

(* A pulse carries the phase of its source; _current_tick is clock for the   *)
(* manager, and beat, unsaturated, for the identifiers of the mesh.         *)
Gossip == INSTANCE WaveGossip WITH Payload <- 0 .. Circle - 1, clock <- beat

manager == <<status, phase, age, clock, netPhase, pending, judging, checked, ops>>
gossip  == <<beat, running, seen, net, heard, sent, pulses>>
vars    == <<manager, gossip>>

-----------------------------------------------------------------------------

Init == Manager!Init /\ Gossip!Init

(* The setup registers every node once. *)
Register(n, p) ==
  /\ n \notin Manager!Known
  /\ Manager!RegisterNode(n, p)
  /\ UNCHANGED gossip

(* generate_pulse, then send_pulse: the default of nodes.get is evaluated    *)
(* first, and registers the sender anew, alive and at phase 0.              *)
Send(n) ==
  /\ n \in Manager!Known
  /\ Gossip!SendPulse(n, phase[n])
  /\ Manager!RegisterNode(n, 0)

(* A listener ignores a pulse, or hands it to the manager.                  *)
Listen(n) ==
  /\ running[n]
  /\ \E pkt \in net :
       /\ pkt.to = n
       /\ \/ Gossip!Ignore(n, pkt) /\ UNCHANGED manager
          \/ /\ Gossip!Process(n, pkt)
             /\ Manager!ReceivePulse(pkt.msg.source, pkt.msg.payload)
  /\ UNCHANGED <<beat, running, sent, pulses>>

BeginTick(np) == Manager!BeginTick(np) /\ Gossip!Tick

ContinueTick ==
  /\ (\E n \in pending : Manager!Inspect(n)) \/ Manager!Conclude
  /\ UNCHANGED gossip

Kill(n) == Manager!DeclareDead(n) /\ UNCHANGED gossip

(* Recovery from the vector stored for the node, or from its own state.     *)
Recover(n, p) == Manager!InitiateRecovery(n, p) /\ UNCHANGED gossip

Stop(n) == Gossip!Stop(n) /\ UNCHANGED manager

Lose(pkt) == Gossip!Lose(pkt) /\ UNCHANGED manager

Next ==
  \/ \E n \in Node, p \in Phases : Register(n, p)
  \/ \E n \in Node : Send(n) \/ Listen(n) \/ Kill(n) \/ Stop(n)
  \/ \E n \in Node : \E p \in Phases \union {phase[n]} : Recover(n, p)
  \/ \E np \in Manager!Drifted : BeginTick(np)
  \/ ContinueTick
  \/ \E pkt \in net : Lose(pkt)

Spec == Init /\ [][Next]_vars

-----------------------------------------------------------------------------
(* Properties. *)

(* The manager and the mesh keep their types when they run together. *)
TypeOK == Manager!TypeOK /\ Gossip!TypeOK

(* A node that is declared dead stays dead, through every tick and race of   *)
(* the listeners, until its recovery is initiated or a pulse of it is sent   *)
(* or arrives: one that was in flight when it died is enough.               *)
DeadReturnsOnlyByPulse ==
  [][\A n \in Node : status[n] = "dead" /\ status'[n] \notin {"dead", "recovering"} =>
       \/ pulses' # pulses
       \/ \E pkt \in net \ net' : pkt.msg.source = n]_vars

(* Recovery is phase re-alignment: a recovering node becomes alive only if   *)
(* it is found aligned, by the healer or by a pulse.                        *)
RecoveryIsAlignment ==
  [][\A n \in Node : status[n] = "recovering" /\ status'[n] = "alive" =>
       Manager!Aligned(phase[n], netPhase) \/ Manager!Aligned(phase'[n], netPhase)]_vars

=============================================================================
