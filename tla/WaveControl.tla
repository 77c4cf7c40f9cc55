----------------------------- MODULE WaveControl -----------------------------
(***************************************************************************)
(* What drives the wave layer: the control loop of the decision engine     *)
(* (kuma_006_wave_decision.py) with the prediction it acts on              *)
(* (kuma_005_wave_prediction.py), the scenarios of the perturbation engine *)
(* (kuma_002_perturbation_engine.py) and those of the topology engine      *)
(* (kuma_003_adaptive_topology.py).  All of it runs in one thread on one   *)
(* layer, a call after the other; a call is a mode the system is in until  *)
(* its steps are done, and simulations work on the layer itself.           *)
(*                                                                         *)
(* The gains are the coupling K and the damping factor of the layer, in    *)
(* units of the smallest change made to them.  The regression behind a     *)
(* prediction is left out: once there is a history it may say anything     *)
(* that the thresholds of decide tell apart.                               *)
(***************************************************************************)
EXTENDS WaveLayer

CONSTANTS
  StartGain,        \* gains of the constructor
  MinGain, MaxGain, \* min_ and max_ of the decision engine
  LoopGain,         \* the most one decision adds
  SupervisorMin, SupervisorMax, \* where the supervisor stops
  SupervisorUp, SupervisorDown, \* what it adds or takes at a step
  Enough,           \* samples that a prediction takes: 5
  LoopSteps, Interval, SimSteps, RunSteps, Settle, \* steps of a call
  Limits,           \* max_failures given by callers
  MaxCalls          \* bound: calls

Gains == [coupling : Nat, damping : Nat]

ASSUME ControlAssumption ==
  /\ {StartGain, MinGain, MaxGain, LoopGain} \subseteq Gains
  /\ {SupervisorMin, SupervisorMax, SupervisorUp, SupervisorDown} \subseteq Gains
  /\ \A g \in {"coupling", "damping"} :
       /\ MinGain[g] <= StartGain[g] /\ StartGain[g] <= MaxGain[g]
       /\ MinGain[g] <= SupervisorMin[g] /\ SupervisorMin[g] <= SupervisorMax[g]
       /\ SupervisorMax[g] <= MaxGain[g]
  /\ {Enough, Interval, RunSteps} \subseteq Nat \ {0}
  /\ {LoopSteps, SimSteps, Settle, MaxCalls} \subseteq Nat
  /\ Limits \subseteq Nat

VARIABLES
  gain,      \* K of the layer and damping_factor of its controller
  mode,      \* the call that runs, and where it is
  count,     \* steps made in it, or in its simulation
  done,      \* steps made by the loop when it simulates
  saved,     \* gains and phases that the call put aside; the order parameter
             \* before a simulation, which the code does not keep
  proposal,  \* the proposal under simulation
  samples,   \* length of the histories of the prediction, up to Enough
  taken,     \* length of actions_taken of the loop
  failed,    \* failed_nodes of the cascade
  limit,     \* its max_failures
  declared,  \* gains according to _action_history
  calls      \* calls made, to bound them

control == <<gain, mode, count, done, saved, proposal, samples, taken, failed, limit, declared, calls>>
vars    == <<layer, control>>

Proposal == [action : {"increase_coupling", "decrease_coupling", "increase_damping",
                       "decrease_damping", "isolate_node", "reconfigure_topology",
                       "reroute_data", "no_action"},
             target : Node]

Propose(a) == {[action |-> a, target |-> 0]}

-----------------------------------------------------------------------------
(* Prediction and decision. *)

(* update_history, whose deques are longer than Enough. *)
Sampled == Min({samples + 1, Enough})

(* Without a history, what is now; with one, a transition is only likely     *)
(* when the risk rises, and calmer says that the risk is to fall by enough   *)
(* for damping to rank before isolation.                                    *)
Predictions(n) ==
  IF n < Enough
    THEN {[low |-> Below(Coherence, 80), risky |-> Risk > 20, turns |-> FALSE, calmer |-> FALSE]}
    ELSE {p \in [low : BOOLEAN, risky : BOOLEAN, turns : BOOLEAN, calmer : BOOLEAN] :
            p.turns => ~p.calmer}

(* The first of the sorted proposals: a critical one, the high one, one of   *)
(* the medium ones, or none.                                                *)
Best(p) ==
  LET damp    == p.risky /\ gain.damping < MaxGain.damping
      strays  == IF VarianceAbove(50, members) THEN Strays(phase, members) ELSE {}
  IN  IF p.turns THEN Propose("reconfigure_topology")
      ELSE IF p.low /\ gain.coupling < MaxGain.coupling THEN Propose("increase_coupling")
      ELSE IF damp /\ (p.calmer \/ strays = {}) THEN Propose("increase_damping")
      ELSE IF strays # {} THEN [action : {"isolate_node"}, target : strays]
      ELSE Propose("no_action")

(* Mutant of Up: max_coupling and max_damping are not looked at. *)
UpUncapped(g, x) == [gain EXCEPT ![g] = @ + x]

Up(g, x)   == [gain EXCEPT ![g] = Min({@ + x, MaxGain[g]})]
Down(g, x) == [gain EXCEPT ![g] = Max({@ - x, MinGain[g]})]

(* The gains once b is in force. *)
Enacted(b) ==
  CASE b.action = "increase_coupling" -> Up("coupling", LoopGain.coupling)
    [] b.action = "decrease_coupling" -> Down("coupling", LoopGain.coupling)
    [] b.action = "increase_damping"  -> Up("damping", LoopGain.damping)
    [] b.action = "decrease_damping"  -> Down("damping", LoopGain.damping)
    [] OTHER                          -> gain

(* Isolation removes its target; the other actions leave the network alone.  *)
Isolate(b) ==
  IF b.action = "isolate_node" THEN RemoveNodes({b.target}) ELSE UNCHANGED layer

-----------------------------------------------------------------------------
(* Calls. *)

None == [gain |-> StartGain, phase |-> [n \in Node |-> 0], order |-> 0]

Init ==
  /\ LayerInit
  /\ gain = StartGain /\ declared = StartGain
  /\ mode = "idle" /\ count = 0 /\ done = 0
  /\ saved = None
  /\ proposal = [action |-> "no_action", target |-> 0]
  /\ samples = 0
  /\ taken = 0
  /\ failed = {} /\ limit = 0
  /\ calls = 0

Call(m) ==
  /\ mode = "idle"
  /\ calls < MaxCalls
  /\ calls' = calls + 1
  /\ mode' = m
  /\ count' = 0

Return == mode' = "idle" /\ saved' = None /\ count' = 0

(* The steps of a caller, and of simulate_phase_delay: the delays it sets on *)
(* the links act on the moves of a step, which may be any.                  *)
Idle == mode = "idle" /\ Step /\ UNCHANGED control

Rebuild ==
  /\ Call("idle") /\ NewNetwork
  /\ UNCHANGED <<gain, done, saved, proposal, samples, taken, failed, limit, declared>>

Join(n, p) ==
  /\ Call("idle") /\ AddNode(n, p)
  /\ UNCHANGED <<gain, done, saved, proposal, samples, taken, failed, limit, declared>>

(* apply_action, from outside of the loop. *)
ApplyAction(b) ==
  /\ Call("idle")
  /\ Isolate(b)
  /\ gain' = Enacted(b) /\ declared' = Enacted(b)
  /\ UNCHANGED <<done, saved, proposal, samples, taken, failed, limit>>

-----------------------------------------------------------------------------
(* run_control_loop: observe, predict, decide, simulate, act. *)

StartLoop ==
  /\ Call("loop") /\ taken' = 0
  /\ UNCHANGED <<layer, gain, done, saved, proposal, samples, failed, limit, declared>>

LoopStep ==
  /\ mode = "loop" /\ count < LoopSteps
  /\ Step
  /\ count' = count + 1
  /\ mode' = IF count % Interval = 0 THEN "decide" ELSE "loop"
  /\ UNCHANGED <<gain, done, saved, proposal, samples, taken, failed, limit, declared, calls>>

(* simulate_action begins: the gains are put aside and b comes into force.   *)
Try(b) ==
  /\ mode' = "simulate"
  /\ saved' = [gain |-> gain, phase |-> None.phase, order |-> Coherence]
  /\ gain' = Enacted(b)
  /\ Isolate(b)
  /\ proposal' = b
  /\ done' = count /\ count' = 0

(* predict takes a sample; the best proposal is tried out on the layer.      *)
Decide ==
  /\ mode = "decide"
  /\ samples' = Sampled
  /\ \E p \in Predictions(samples') : \E b \in Best(p) :
       IF b.action = "no_action"
         THEN /\ mode' = "loop"
              /\ UNCHANGED <<layer, gain, count, done, saved, proposal>>
         ELSE Try(b)
  /\ UNCHANGED <<taken, failed, limit, declared, calls>>

SimulationStep ==
  /\ mode = "simulate" /\ count < SimSteps
  /\ Step
  /\ count' = count + 1
  /\ UNCHANGED <<gain, mode, done, saved, proposal, samples, taken, failed, limit, declared, calls>>

(* What the last step returned, above what is perceived after it. *)
Improvement == order - Coherence

(* The gains are put back and the coherence is perceived; the proposal is    *)
(* applied, which takes the gains to where they were tried out, if the      *)
(* simulation ended more than .01 above that.                               *)
Judge ==
  /\ mode = "simulate" /\ count = SimSteps
  /\ IF Improvement > 2
       THEN gain' = gain /\ declared' = gain /\ taken' = taken + 1
       ELSE gain' = saved.gain /\ UNCHANGED <<taken, declared>>
  /\ mode' = "loop" /\ count' = done /\ saved' = None
  /\ UNCHANGED <<layer, done, proposal, samples, failed, limit, calls>>

EndLoop ==
  /\ mode = "loop" /\ count = LoopSteps
  /\ Return
  /\ UNCHANGED <<layer, gain, done, proposal, samples, taken, failed, limit, declared, calls>>

-----------------------------------------------------------------------------
(* Scenarios of the perturbation engine. *)

(* simulate_grf_supervisor *)
StartSupervisor ==
  /\ Call("supervise") /\ saved' = [None EXCEPT !.gain = gain]
  /\ UNCHANGED <<layer, gain, done, proposal, samples, taken, failed, limit, declared>>

(* A chaotic network gets more of both gains, a coherent one less.           *)
Supervised(g) ==
  CASE mind = "chaotic"  -> Min({gain[g] + SupervisorUp[g], SupervisorMax[g]})
    [] mind = "coherent" -> Max({gain[g] - SupervisorDown[g], SupervisorMin[g]})
    [] OTHER             -> gain[g]

SuperviseStep ==
  /\ mode = "supervise" /\ count < RunSteps
  /\ gain' = [g \in {"coupling", "damping"} |-> Supervised(g)]
  /\ Step
  /\ count' = count + 1
  /\ UNCHANGED <<mode, done, saved, proposal, samples, taken, failed, limit, declared, calls>>

(* Mutant of EndSupervisor: only the coupling is put back. *)
EndSupervisorHalf ==
  /\ mode = "supervise" /\ count = RunSteps
  /\ gain' = [saved.gain EXCEPT !.damping = gain.damping]
  /\ Return
  /\ UNCHANGED <<layer, done, proposal, samples, taken, failed, limit, declared, calls>>

EndSupervisor ==
  /\ mode = "supervise" /\ count = RunSteps
  /\ gain' = saved.gain
  /\ Return
  /\ UNCHANGED <<layer, done, proposal, samples, taken, failed, limit, declared, calls>>

(* simulate_causal_replay: a snapshot, the steps, the snapshot again, and as *)
(* many steps.  A node that is no longer there is not brought back.         *)
StartReplay ==
  /\ Call("live")
  /\ saved' = [gain |-> gain, phase |-> phase, order |-> 0]
  /\ UNCHANGED <<layer, gain, done, proposal, samples, taken, failed, limit, declared>>

ReplayStep ==
  /\ mode \in {"live", "replay"} /\ count < RunSteps
  /\ Step
  /\ count' = count + 1
  /\ UNCHANGED <<gain, mode, done, saved, proposal, samples, taken, failed, limit, declared, calls>>

Restore ==
  /\ mode = "live" /\ count = RunSteps
  /\ phase' = [n \in Node |-> IF n \in members THEN saved.phase[n] ELSE 0]
  /\ gain' = saved.gain
  /\ mode' = "replay" /\ count' = 0
  /\ UNCHANGED <<members, links, order, mind, outOfPhase, done, saved, proposal, samples, taken, failed, limit, declared, calls>>

EndReplay ==
  /\ mode = "replay" /\ count = RunSteps
  /\ Return
  /\ UNCHANGED <<layer, gain, done, proposal, samples, taken, failed, limit, declared, calls>>

(* simulate_node_drop of one node, there or not, and                         *)
(* simulate_multiple_node_drop of fewer nodes than there are.               *)
Drop(gone) ==
  /\ \/ Call("drop") /\ Cardinality(gone) = 1
     \/ Call("drops") /\ gone \subseteq members /\ gone # members
  /\ RemoveNodes(gone)
  /\ UNCHANGED <<gain, done, saved, proposal, samples, taken, failed, limit, declared>>

(* One drop ends early once the network has recovered. *)
DropStep ==
  /\ mode \in {"drop", "drops"}
  /\ Step
  /\ IF count + 1 = RunSteps \/ (mode = "drop" /\ Above(order', 90) /\ count > Settle)
       THEN Return
       ELSE count' = count + 1 /\ UNCHANGED <<mode, saved>>
  /\ UNCHANGED <<gain, done, proposal, samples, taken, failed, limit, declared, calls>>

-----------------------------------------------------------------------------
(* simulate_cascade_failure, which does not compare its two arguments.       *)

StartCascade(first, most) ==
  /\ Call("cascade")
  /\ RemoveNodes(first)
  /\ failed' = first /\ limit' = most
  /\ UNCHANGED <<gain, done, saved, proposal, samples, taken, declared>>

CascadeStep ==
  /\ mode = "cascade"
  /\ Step
  /\ count' = count + 1 /\ mode' = "fall"
  /\ UNCHANGED <<gain, done, saved, proposal, samples, taken, failed, limit, declared, calls>>

Falling == Below(order, 30) /\ Cardinality(failed) < limit

(* After a step of the cascade: up to two of the nodes out of phase go.      *)
Fall ==
  /\ mode = "fall"
  /\ IF Falling
       THEN \E gone \in kSubset(Min({2, Cardinality(outOfPhase)}), outOfPhase) :
              RemoveNodes(gone) /\ failed' = failed \union gone
       ELSE UNCHANGED <<layer, failed>>
  /\ IF count = RunSteps THEN Return ELSE mode' = "cascade" /\ UNCHANGED <<count, saved>>
  /\ UNCHANGED <<gain, done, proposal, samples, taken, limit, declared, calls>>

-----------------------------------------------------------------------------

Next ==
  \/ Idle \/ Rebuild
  \/ \E n \in Node, p \in Phase : Join(n, p)
  \/ \E b \in Proposal : ApplyAction(b)
  \/ StartLoop \/ LoopStep \/ Decide \/ SimulationStep \/ Judge \/ EndLoop
  \/ StartSupervisor \/ SuperviseStep \/ EndSupervisor
  \/ StartReplay \/ ReplayStep \/ Restore \/ EndReplay
  \/ \E gone \in SUBSET Node : Drop(gone)
  \/ DropStep
  \/ \E first \in SUBSET members, most \in Limits : StartCascade(first, most)
  \/ CascadeStep \/ Fall

Spec == Init /\ [][Next]_vars

-----------------------------------------------------------------------------
(* Properties. *)

TypeOK ==
  /\ LayerTypeOK
  /\ gain \in Gains /\ declared \in Gains
  /\ \A g \in {"coupling", "damping"} : gain[g] \in MinGain[g] .. MaxGain[g]
  /\ mode \in {"idle", "loop", "decide", "simulate", "supervise", "live", "replay",
               "drop", "drops", "cascade", "fall"}
  /\ saved \in [gain : Gains, phase : [Node -> Phase], order : 0 .. 201]
  /\ proposal \in Proposal
  /\ samples \in 0 .. Enough
  /\ {count, done, taken, limit, calls} \subseteq Nat
  /\ failed \subseteq Node

(* What simulations, the supervisor and replays do to the gains is undone:   *)
(* between calls they are what the history of actions says, in whatever     *)
(* order the calls are made.                                                *)
GainsAreDeclared == mode = "idle" => gain = declared

(* max_failures is the most failures of a cascade: one that is within its    *)
(* limit is not taken past it by the nodes that fall next.                  *)
CascadeIsLimited ==
  [][mode = "fall" /\ Cardinality(failed) <= limit => Cardinality(failed') <= limit]_vars

(* A proposal whose simulation raised the coherence by more than .01 is      *)
(* applied.                                                                 *)
ImprovementIsApplied ==
  [][mode = "simulate" /\ mode' = "loop" /\ order > saved.order + 2 =>
       taken' = taken + 1]_vars

=============================================================================
