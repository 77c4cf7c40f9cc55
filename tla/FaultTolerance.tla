--------------------------- MODULE FaultTolerance ---------------------------
(***************************************************************************)
(* The rhythm-based failure detector and self-healing of                   *)
(* mother_relay/fault_tolerance.py: one FaultToleranceManager with its     *)
(* HarmonicHeartbeat and SelfHealingEngine.  A node is judged by the       *)
(* distance of its phase to the phase of the network, each time a pulse of *)
(* it arrives and at every tick.                                           *)
(*                                                                         *)
(* Phases are multiples of a turn divided in Circle units; at the code's   *)
(* tolerance of 0.35 rad, Tolerance / Circle is about 1/18.  A correction  *)
(* of the healer is rounded to a whole unit.  The tick counter and the     *)
(* ages are kept up to Window + 1, past which the code does not tell them  *)
(* apart.  The manager is shared by the main thread, which runs every      *)
(* operation but receive_pulse, and by the gossip listener threads, which  *)
(* run receive_pulse: with Threaded, pulses arrive inside a tick.          *)
(***************************************************************************)
EXTENDS Integers, FiniteSets

CONSTANTS
  Node,          \* node identifiers
  Circle,        \* phase units in a full turn
  Tolerance,     \* the aligned distance, in phase units
  Window,        \* harmonic_window
  Phases,        \* bound: phases that pulses, registrations, vectors carry
  MaxDrift,      \* bound: distance the network phase moves between ticks
  MaxOperations, \* bound: registrations, kills and recoveries
  Threaded       \* whether pulses are received while a tick runs

FaultAssumption ==
  /\ Circle \in Nat \ {0}
  /\ Tolerance \in Nat
  /\ Window \in Nat
  /\ Phases \subseteq 0 .. Circle - 1
  /\ MaxDrift \in Nat
  /\ MaxOperations \in Nat
  /\ Threaded \in BOOLEAN

VARIABLES
  status,    \* NodeStatus of every registered node, else "unknown"
  phase,     \* its phase
  age,       \* ticks since its last pulse: _current_tick - last_pulse_tick
  clock,     \* _current_tick
  netPhase,  \* _network_phase
  pending,   \* nodes the running tick has still to look at
  judging,   \* what the running tick has read of the node it is looking at
  checked,   \* nodes judged by a pulse or a tick since their registration
  ops        \* operations performed, to bound them

table == <<status, phase, age>>
vars  == <<table, clock, netPhase, pending, judging, checked, ops>>

Phase  == 0 .. Circle - 1
Status == {"alive", "desync", "recovering", "dead"}
Ticks  == 0 .. Window + 1

Nobody == [node |-> "nobody"]

Later(k) == IF k > Window THEN k ELSE k + 1

-----------------------------------------------------------------------------
(* Arithmetic on the circle. *)

(* atan2(sin(q - p), cos(q - p)): the signed way from p to q. *)
Way(p, q) == LET d == (q - p) % Circle IN IF 2 * d > Circle THEN d - Circle ELSE d

Distance(p, q) == IF Way(p, q) < 0 THEN -Way(p, q) ELSE Way(p, q)

Aligned(p, q) == Distance(p, q) <= Tolerance

(* tick heals in steps of a third of the way. *)
HealingSteps == 3

Correction(w) ==
  IF w < 0 THEN -((2 * (-w) + HealingSteps) \div (2 * HealingSteps))
           ELSE (2 * w + HealingSteps) \div (2 * HealingSteps)

(* Mutant of Healed: the plain difference, without the wrap at a full turn. *)
HealedPlainly(p, q) == (p + Correction(q - p)) % Circle

Healed(p, q) == (p + Correction(Way(p, q))) % Circle

(* Mutant of Detect: the window is asked before the alignment. *)
DetectBySilence(p, a) ==
  IF a > Window THEN (IF Aligned(p, netPhase) THEN "alive" ELSE "dead") ELSE "alive"

(* HarmonicHeartbeat.detect_desync *)
Detect(p, a) ==
  IF Aligned(p, netPhase) THEN "alive"
  ELSE IF a > Window THEN "dead" ELSE "desync"

-----------------------------------------------------------------------------

Init ==
  /\ status = [n \in Node |-> "unknown"]
  /\ phase = [n \in Node |-> 0]
  /\ age = [n \in Node |-> 0]
  /\ clock = 0
  /\ netPhase = 0
  /\ pending = {}
  /\ judging = Nobody
  /\ checked = {}
  /\ ops = 0

Known == {n \in Node : status[n] # "unknown"}

Idle == pending = {} /\ judging = Nobody

Operate ==
  /\ Idle
  /\ ops < MaxOperations
  /\ ops' = ops + 1

(* register_node replaces the entry; its last_pulse_tick starts from 0, so   *)
(* the age of the new entry is the whole life of the manager.               *)
RegisterNode(n, p) ==
  /\ Operate
  /\ status' = [status EXCEPT ![n] = "alive"]
  /\ phase' = [phase EXCEPT ![n] = p]
  /\ age' = [age EXCEPT ![n] = clock]
  /\ checked' = checked \ {n}
  /\ UNCHANGED <<clock, netPhase, pending, judging>>

(* receive_pulse: an unknown node is registered on the way. *)
ReceivePulse(n, p) ==
  /\ Threaded \/ Idle
  /\ phase' = [phase EXCEPT ![n] = p]
  /\ age' = [age EXCEPT ![n] = 0]
  /\ status' = [status EXCEPT ![n] = IF Aligned(p, netPhase) THEN "alive" ELSE "desync"]
  /\ checked' = checked \union {n}
  /\ UNCHANGED <<clock, netPhase, pending, judging, ops>>

(* Where the caller may find the phase of the network at the next tick. *)
Drifted == {(netPhase + d) % Circle : d \in -MaxDrift .. MaxDrift}

(* tick: first the counter and the network phase, then node by node. *)
BeginTick(np) ==
  /\ Idle
  /\ clock' = Later(clock)
  /\ age' = [n \in Node |-> Later(age[n])]
  /\ netPhase' = np
  /\ pending' = Known
  /\ UNCHANGED <<status, phase, judging, checked, ops>>

(* Mutant of Inspect: every node that is not recovering is judged. *)
InspectAnyone(n) ==
  /\ judging = Nobody
  /\ pending' = pending \ {n}
  /\ judging' = [node |-> n, was |-> IF status[n] = "recovering" THEN "recovering" ELSE "alive",
                 phase |-> phase[n], age |-> age[n]]
  /\ UNCHANGED <<table, clock, netPhase, checked, ops>>

Inspect(n) ==
  /\ judging = Nobody
  /\ pending' = pending \ {n}
  /\ judging' = IF status[n] \in {"alive", "recovering"}
                  THEN [node |-> n, was |-> status[n], phase |-> phase[n], age |-> age[n]]
                  ELSE Nobody
  /\ UNCHANGED <<table, clock, netPhase, checked, ops>>

(* An alive node gets the status that was detected from what was read.      *)
ConcludeAlive ==
  /\ judging # Nobody /\ judging.was = "alive"
  /\ status' = [status EXCEPT ![judging.node] = Detect(judging.phase, judging.age)]
  /\ UNCHANGED phase

(* Mutant of ConcludeRecovering: the node is moved and never set alive. *)
ConcludeStillRecovering ==
  /\ judging # Nobody /\ judging.was = "recovering"
  /\ phase' = [phase EXCEPT ![judging.node] = Healed(judging.phase, netPhase)]
  /\ UNCHANGED status

(* apply_recovery_phase: a recovering node is moved, and is alive if it was  *)
(* aligned before the move.                                                 *)
ConcludeRecovering ==
  /\ judging # Nobody /\ judging.was = "recovering"
  /\ phase' = [phase EXCEPT ![judging.node] = Healed(judging.phase, netPhase)]
  /\ status' = IF Aligned(judging.phase, netPhase)
                 THEN [status EXCEPT ![judging.node] = "alive"]
                 ELSE status

Conclude ==
  /\ ConcludeAlive \/ ConcludeRecovering
  /\ judging' = Nobody
  /\ checked' = checked \union {judging.node}
  /\ UNCHANGED <<age, clock, netPhase, pending, ops>>

DeclareDead(n) ==
  /\ Operate
  /\ n \in Known
  /\ status' = [status EXCEPT ![n] = "dead"]
  /\ UNCHANGED <<phase, age, clock, netPhase, pending, judging, checked>>

(* initiate_recovery, from the vector given or from the current status.     *)
InitiateRecovery(n, p) ==
  /\ Operate
  /\ n \in Known
  /\ status' = [status EXCEPT ![n] = "recovering"]
  /\ phase' = [phase EXCEPT ![n] = p]
  /\ UNCHANGED <<age, clock, netPhase, pending, judging, checked>>

Tick ==
  \/ \E np \in Drifted : BeginTick(np)
  \/ \E n \in pending : Inspect(n)
  \/ Conclude

Next ==
  \/ Tick
  \/ \E n \in Node, p \in Phases : RegisterNode(n, p)
  \/ \E n \in Node, p \in Phases : ReceivePulse(n, p)
  \/ \E n \in Node : DeclareDead(n)
  \/ \E n \in Node : \E p \in Phases \union {phase[n]} : InitiateRecovery(n, p)

Spec == Init /\ [][Next]_vars

(* The main loop keeps ticking, and a tick that has begun ends. *)
FairSpec == Spec /\ WF_vars(Tick)

-----------------------------------------------------------------------------
(* Properties. *)

TypeOK ==
  /\ status \in [Node -> Status \union {"unknown"}]
  /\ phase \in [Node -> Phase]
  /\ age \in [Node -> Ticks]
  /\ clock \in Ticks
  /\ netPhase \in Phase
  /\ pending \subseteq Known
  /\ judging = Nobody \/ judging \in [node : Known, was : {"alive", "recovering"},
                                      phase : Phase, age : Ticks]
  /\ checked \subseteq Known
  /\ ops \in 0 .. MaxOperations

(* A node is considered alive if its phase aligns with the network: between  *)
(* ticks, every alive node that has been judged is within tolerance of the   *)
(* phase it was judged against.                                              *)
AliveMeansAligned ==
  Idle => \A n \in checked : status[n] = "alive" => Aligned(phase[n], netPhase)

(* Each step of the healer takes a recovering node nearer to the network, by *)
(* whichever way round the circle is shorter, until it is within tolerance.  *)
HealingShrinksError ==
  [][judging # Nobody /\ judging' = Nobody =>
       LET n == judging.node
       IN  judging.was = "recovering" /\ ~Aligned(phase[n], netPhase) =>
             Distance(phase'[n], netPhase) < Distance(phase[n], netPhase)]_vars

(* A tick at which the network is a third of the tolerance or more away from *)
(* where the last tick found it.                                            *)
OutrunsHealing == netPhase' # netPhase /\ HealingSteps * Distance(netPhase, netPhase') >= Tolerance

(* While the main loop ticks, a node leaves recovery, unless the network goes *)
(* on outrunning it: a third of the way does not make up for such a drift,    *)
(* and max_recovery_ticks, which could end the chase, is never read.          *)
RecoveryEnds ==
  \A n \in Node :
    \/ status[n] = "recovering" ~> status[n] # "recovering"
    \/ []<><<OutrunsHealing>>_vars

=============================================================================
