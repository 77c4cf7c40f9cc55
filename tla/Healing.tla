------------------------------ MODULE Healing -------------------------------
(***************************************************************************)
(* A bubble of the elliptic memory and what heals it: EllipticMemoryEngine *)
(* moves the bubble down its energy and keeps a trajectory,                *)
(* DecisionGuard says whether it needs recovery, ReplayEngine and          *)
(* GenerativeRepair bring it back (mother_intelligence, mother_healing).   *)
(*                                                                         *)
(* L and theta are abstracted to a place, a band of energy: each threshold *)
(* of the code lies between two places, and place 0 is within the tolerance. *)
(* A step multiplies L by 1 - 4 alpha dt L^2.  As long as that is -1 or more *)
(* it stays in its band or falls into any lower one.  From the energy        *)
(* Overshoot on, 2500 / alpha, it may go anywhere, and the powers of L may    *)
(* leave the floats: the step raises, and the energy is the one before.      *)
(* Where L is then is not followed.                                        *)
(***************************************************************************)
EXTENDS Integers, Sequences, SequencesExt

CONSTANTS
  Energy,     \* energy of each place, in thousandths: a tuple from place 1 up
  Overshoot,  \* energy, in thousandths, from which a step may raise it
  MaxLength,  \* entries that make a step drop the oldest one: 100
  MaxSteps,   \* max_steps of converge_to_equilibrium
  Shocks,     \* bound: places callers move a bubble to
  MaxCalls    \* bound: calls made

HealingAssumption ==
  /\ Energy \in Seq(Nat)
  /\ \A i, j \in DOMAIN Energy : i < j => Energy[i] < Energy[j]
  /\ Overshoot \in Nat /\ Overshoot > 100
  /\ MaxLength \in Nat \ {0} /\ MaxSteps \in Nat /\ MaxCalls \in Nat
  /\ Shocks \subseteq DOMAIN Energy

VARIABLES
  place,      \* L and theta of the bubble
  mode,       \* state: "equilibrium", "converging" or "deviating"
  trajectory, \* entries: a place, and whether its energy was written down
  vector,     \* recovery_vector of the bubble, as its target
  offered,    \* the vector a caller built last
  calls       \* calls made, to bound them

bubble == <<place, mode, trajectory, vector>>
vars   == <<bubble, offered, calls>>

Place == {0} \union DOMAIN Energy

NoVector == -1

E(p) == IF p = 0 THEN 0 ELSE Energy[p]

(* create_bubble: the state is equilibrium whatever the energy.             *)
Init ==
  /\ place \in Place
  /\ mode = "equilibrium"
  /\ trajectory = <<>>
  /\ vector = NoVector
  /\ offered = NoVector
  /\ calls = 0

-----------------------------------------------------------------------------
(* What the detectors make of a trajectory. *)

(* The energy of an entry, where a caller of get(...) gives the default.     *)
EnergyOf(entry, default) == IF entry.known THEN E(entry.place) ELSE default

Gap(x, y) == IF x < y THEN y - x ELSE x - y

DetectDeviation ==
  trajectory # <<>> /\ Gap(EnergyOf(Last(trajectory), 0), E(place)) > 100

DetectCollapse ==
  LET n == Len(trajectory)
  IN  n >= 5 /\ EnergyOf(trajectory[n], 0) - EnergyOf(trajectory[n - 4], 0) > 5 * 500

ShouldRecover == E(place) > 100 \/ DetectDeviation \/ DetectCollapse

(* Mutant of StableEntry: an entry without its energy counts as 0. *)
StableEntryUnwritten(limit) ==
  LET calm == {i \in DOMAIN trajectory : EnergyOf(trajectory[i], 0) < limit}
  IN  {i \in calm : \A j \in calm : j <= i}

(* The last entry of less energy than limit; one written without its energy  *)
(* counts as 1.0.                                                            *)
StableEntry(limit) ==
  LET calm == {i \in DOMAIN trajectory : EnergyOf(trajectory[i], 1000) < limit}
  IN  {i \in calm : \A j \in calm : j <= i}

-----------------------------------------------------------------------------
(* Moves of the engine. *)

ModeOf(p) == IF p = 0 THEN "equilibrium" ELSE IF E(p) < 10 THEN "converging" ELSE "deviating"

Overshoots(p) == E(p) >= Overshoot

(* Where a step from p may lead. *)
Below(p) == IF Overshoots(p) THEN Place ELSE 0 .. p

Entry(p) == [place |-> p, known |-> TRUE]

(* What steps that added entries up to the trajectory whole leave of it: one *)
(* step drops one entry, so a trajectory that is too long stays so.          *)
Trimmed(whole) ==
  LET most == IF Len(trajectory) > MaxLength THEN Len(trajectory) ELSE MaxLength
  IN  SubSeq(whole, IF Len(whole) > most THEN Len(whole) - most + 1 ELSE 1, Len(whole))

(* Mutant of Recorded: the entry is written before the bubble is moved. *)
RecordedBefore(ps) ==
  Trimmed(trajectory \o [i \in DOMAIN ps |-> Entry(IF i = 1 THEN place ELSE ps[i - 1])])

(* The trajectory after steps to the places ps. *)
Recorded(ps) == Trimmed(trajectory \o [i \in DOMAIN ps |-> Entry(ps[i])])

(* step_manifold, taken once for every place of ps. *)
Move(ps) ==
  /\ place' = Last(ps)
  /\ mode' = ModeOf(Last(ps))
  /\ trajectory' = Recorded(ps)
  /\ UNCHANGED vector

(* A step, or a convergence at its first one, that raises. *)
Overflow == Overshoots(place) /\ UNCHANGED bubble

StepManifold == Overflow \/ \E p \in Below(place) : Move(<<p>>)

(* Ways of MaxSteps steps, or fewer that end in equilibrium or where the      *)
(* next one raises.                                                         *)
Descents ==
  {ps \in UNION {[1 .. n -> Place] : n \in 1 .. MaxSteps} :
     /\ ps[1] \in Below(place)
     /\ \A i \in 2 .. Len(ps) : ps[i - 1] # 0 /\ ps[i] \in Below(ps[i - 1])
     /\ Len(ps) = MaxSteps \/ Last(ps) = 0 \/ Overshoots(Last(ps))}

(* Nothing is done for a bubble whose state says equilibrium.               *)
Converge ==
  IF mode = "equilibrium" THEN UNCHANGED bubble
  ELSE Overflow \/ \E ps \in Descents : Move(ps)

(* apply_recovery_vector appends an entry without energy, past the limit    *)
(* that step_manifold keeps.                                                *)
ApplyVector(p) ==
  /\ place' = p
  /\ mode' = "converging"
  /\ trajectory' = Append(trajectory, [place |-> p, known |-> FALSE])
  /\ vector' = p

-----------------------------------------------------------------------------
(* Repairs. *)

(* replay_to_stability raises after the position and the energy are          *)
(* replaced: the engine has no determine_state.  The state stays.            *)
Replay ==
  IF trajectory = <<>> THEN UNCHANGED bubble
  ELSE IF StableEntry(10) = {} THEN Converge
  ELSE /\ \E i \in StableEntry(10) : place' = trajectory[i].place
       /\ UNCHANGED <<mode, trajectory, vector>>

(* generate_new_state: a vector first, then the trajectory, else nothing.   *)
GenerateNewState ==
  IF vector # NoVector THEN ApplyVector(vector)
  ELSE /\ IF StableEntry(10) = {} THEN UNCHANGED place
          ELSE \E i \in StableEntry(10) : place' = trajectory[i].place
       /\ UNCHANGED <<mode, trajectory, vector>>

(* repair_from_nearest_neighbor: it raises where replay does.               *)
CopyNeighbour(p) == place' = p /\ UNCHANGED <<mode, trajectory, vector>>

-----------------------------------------------------------------------------
(* The calls. *)

(* A caller assigns to L and energy of the bubble, as the tests do.         *)
Shock(p) == place' = p /\ UNCHANGED <<mode, trajectory, vector>>

(* build_recovery_vector: of wherever the bubble is, calm or not.           *)
BuildVector == offered' = place /\ UNCHANGED bubble

Call ==
  \/ /\ \/ StepManifold \/ Converge \/ Replay \/ GenerateNewState
        \/ \E p \in Shocks : Shock(p) \/ CopyNeighbour(p)
        \/ offered # NoVector /\ ApplyVector(offered)
     /\ UNCHANGED offered
  \/ BuildVector

Next == calls < MaxCalls /\ Call /\ calls' = calls + 1

Spec == Init /\ [][Next]_vars

-----------------------------------------------------------------------------
(* After a step of the manifold the guard asks for recovery exactly when the *)
(* energy is over its threshold: neither the deviation nor the collapse seen *)
(* in an older trajectory, entries without energy among them, is an alarm of *)
(* its own (should_recover).                                                *)
GuardFollowsEnergy == [][StepManifold => (ShouldRecover' <=> E(place') > 100)]_vars

Repair == Replay \/ (vector = NoVector /\ GenerateNewState)

(* However a bubble was moved and repaired before, a repair that draws on    *)
(* its past, and not on a stored vector, does not leave it with more energy, *)
(* but for what counts as stable anyway: entries without an energy, late in  *)
(* the trajectory, are no place to go back to.  Where there is nothing to go *)
(* back to, replay_to_stability converges, which is a repair only below the  *)
(* energy from which a step overshoots.                                     *)
RepairNeverHarms ==
  [][Repair =>
       \/ E(place') < 10
       \/ E(place') <= E(place)
       \/ StableEntry(10) = {} /\ Overshoots(place)]_vars
=============================================================================
