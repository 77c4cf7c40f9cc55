--------------------------- MODULE TieredStorage ----------------------------
(***************************************************************************)
(* DistributedBubbleDB of mother_storage/distributed_bubbledb.py with the  *)
(* tier controller of tld_tuner_module.py and the bubbles of               *)
(* mother_intelligence/elliptic_memory_engine.py: records whose heat moves *)
(* them between tiers, and recovery vectors kept in two places.            *)
(*                                                                         *)
(* Heats, and the L of bubbles, are the five zones that the thresholds of  *)
(* the calibrator cut: 0 is [0, .15), 1 [.15, .30), 2 [.30, .55),          *)
(* 3 [.55, .75) and 4 [.75, 1].  A tick lowers a heat by at most 1.5%, and *)
(* an L by less: by one zone or by none.  An access adds .25 * (2 - h) / 2.*)
(* Phase angles, energies and trajectories only lead to reports, and are   *)
(* left out.  One thread uses a storage, so an operation is a step.        *)
(***************************************************************************)
EXTENDS Integers, FiniteSets

CONSTANTS
  Key,           \* keys of records, which are also the node ids of vectors
  Vector,        \* recovery vectors
  NoVector,      \* None
  TargetL,       \* the zone of the target_L of each vector
  InitialL,      \* bound: the zones that put is called with
  MaxCalls       \* bound: calls that put, read, recover, update or calibrate

Zone == 0 .. 4

ASSUME StorageAssumption ==
  /\ IsFiniteSet(Key)
  /\ NoVector \notin Vector
  /\ TargetL \in [Vector -> Zone]
  /\ InitialL \subseteq Zone
  /\ MaxCalls \in Nat

VARIABLES
  initial,    \* config.initial_state
  tier,       \* the tier of each record, "none" where there is no record
  heat,       \* its heat
  bubbleL,    \* the L of its bubble
  attached,   \* its recovery_vector
  vectors,    \* _recovery_vectors
  stats,      \* the migrations counted by the controller, of each kind
  puts, reads, recoveries, updates  \* calls made, to bound them

records == <<tier, heat, bubbleL, attached>>
calls   == <<puts, reads, recoveries, updates>>
vars    == <<initial, records, vectors, stats, calls>>

Tier == {"COLD", "WARM", "HOT"}
Kind == {"cold_to_warm", "warm_to_hot", "hot_to_warm", "warm_to_cold"}

MayCall == puts + reads + recoveries + updates < MaxCalls

Stored == {k \in Key : tier[k] # "none"}

In(t) == {k \in Key : tier[k] = t}

-----------------------------------------------------------------------------
(* TLDTierCalibrator: warm_exit, warm_enter, hot_exit and hot_enter are the *)
(* lower ends of the zones 1, 2, 3 and 4.                                   *)

WarmExit == 1
WarmEnter == 2
HotExit == 3
HotEnter == 4

(* Mutant of Evaluate: a tier is left where it is entered. *)
EvaluateAtOnce(t, h) ==
  CASE t = "COLD" /\ h >= WarmEnter -> "WARM"
    [] t = "WARM" /\ h >= HotEnter  -> "HOT"
    [] t = "WARM" /\ h < WarmEnter  -> "COLD"
    [] t = "HOT"  /\ h < HotEnter   -> "WARM"
    [] OTHER -> t

(* Mutant of Evaluate: nothing leaves the hot tier. *)
EvaluateStickily(t, h) ==
  CASE t = "COLD" /\ h >= WarmEnter -> "WARM"
    [] t = "WARM" /\ h >= HotEnter  -> "HOT"
    [] t = "WARM" /\ h < WarmExit   -> "COLD"
    [] OTHER -> t

(* evaluate_tier_transition *)
Evaluate(t, h) ==
  CASE t = "COLD" /\ h >= WarmEnter -> "WARM"
    [] t = "WARM" /\ h >= HotEnter  -> "HOT"
    [] t = "WARM" /\ h < WarmExit   -> "COLD"
    [] t = "HOT"  /\ h < HotExit    -> "WARM"
    [] OTHER -> t

(* The counter of _record_migration that a move is counted in. *)
Moved(from, to) ==
  CASE from = "COLD" /\ to = "WARM" -> "cold_to_warm"
    [] from = "WARM" /\ to = "HOT"  -> "warm_to_hot"
    [] from = "HOT"  /\ to = "WARM" -> "hot_to_warm"
    [] from = "WARM" /\ to = "COLD" -> "warm_to_cold"
    [] OTHER -> "none"

(* Mutant of Cooler: a heat in the lowest zone falls as well. *)
CoolerUnclamped(h, falls) == IF falls THEN h - 1 ELSE h

(* Where calculate_decay, or step_manifold, takes a heat of a zone. *)
Cooler(h, falls) == IF falls /\ h > 0 THEN h - 1 ELSE h

(* Where apply_access_event takes a heat of a zone: .875 * heat + .25. *)
Boosted(h) ==
  CASE h = 0 -> {1, 2}
    [] h = 1 -> {2}
    [] h = 2 -> {2, 3}
    [] h = 3 -> {3, 4}
    [] h = 4 -> {4}

-----------------------------------------------------------------------------

Init ==
  /\ initial \in Tier
  /\ tier = [k \in Key |-> "none"]
  /\ heat = [k \in Key |-> 0]
  /\ bubbleL = [k \in Key |-> 0]
  /\ attached = [k \in Key |-> NoVector]
  /\ vectors = [k \in Key |-> NoVector]
  /\ stats = [m \in Kind |-> 0]
  /\ puts = 0 /\ reads = 0 /\ recoveries = 0 /\ updates = 0

(* put replaces the record, its tier and its recovery_vector included. *)
Put(k, l) ==
  /\ MayCall
  /\ puts' = puts + 1
  /\ tier' = [tier EXCEPT ![k] = initial]
  /\ heat' = [heat EXCEPT ![k] = 0]
  /\ bubbleL' = [bubbleL EXCEPT ![k] = l]
  /\ attached' = [attached EXCEPT ![k] = NoVector]
  /\ UNCHANGED <<initial, vectors, stats, reads, recoveries, updates>>

(* touch_record *)
Touch(k) ==
  \E h \in Boosted(heat[k]) :
    /\ heat' = [heat EXCEPT ![k] = h]
    /\ tier' = [tier EXCEPT ![k] = Evaluate(tier[k], h)]
    /\ stats' = [m \in Kind |->
         stats[m] + IF Moved(tier[k], Evaluate(tier[k], h)) = m THEN 1 ELSE 0]

(* get: the touched record's heat is written over the L of its bubble. *)
Get(k) ==
  /\ k \in Stored
  /\ MayCall
  /\ reads' = reads + 1
  /\ Touch(k)
  /\ bubbleL' = [bubbleL EXCEPT ![k] = heat'[k]]
  /\ UNCHANGED <<initial, attached, vectors, puts, recoveries, updates>>

(* update_phase writes the heat over the L, of which it reads nothing. *)
UpdatePhase(k) ==
  /\ k \in Stored
  /\ MayCall
  /\ updates' = updates + 1
  /\ bubbleL' = [bubbleL EXCEPT ![k] = heat[k]]
  /\ UNCHANGED <<initial, tier, heat, attached, vectors, stats, puts, reads, recoveries>>

(* process_tick of every record: the decayed heat decides on the tier. *)
ProcessTick ==
  /\ \E decaying \in SUBSET Stored :
       tier' = [k \in Key |-> Evaluate(tier[k], Cooler(heat[k], k \in decaying))]
  /\ stats' = [m \in Kind |-> stats[m] + Cardinality({k \in Stored : Moved(tier[k], tier'[k]) = m})]

(* tick: the L of each bubble, one step down its manifold, then replaces    *)
(* the decayed heat of its record.                                          *)
Tick ==
  /\ Stored # {}
  /\ ProcessTick
  /\ \E falling \in SUBSET Stored :
       bubbleL' = [k \in Key |-> Cooler(bubbleL[k], k \in falling)]
  /\ heat' = bubbleL'
  /\ UNCHANGED <<initial, attached, vectors, calls>>

(* Mutant of StoreVector: a vector is put where there is a record for it. *)
StoreVectorOnce(k, v) ==
  /\ IF k \in Stored THEN attached' = [attached EXCEPT ![k] = v] /\ UNCHANGED vectors
                     ELSE vectors' = [vectors EXCEPT ![k] = v] /\ UNCHANGED attached
  /\ UNCHANGED <<initial, tier, heat, bubbleL, stats, calls>>

(* store_recovery_vector *)
StoreVector(k, v) ==
  /\ vectors' = [vectors EXCEPT ![k] = v]
  /\ attached' = IF k \in Stored THEN [attached EXCEPT ![k] = v] ELSE attached
  /\ UNCHANGED <<initial, tier, heat, bubbleL, stats, calls>>

(* clear_recovery_vector *)
ClearVector(k) ==
  /\ vectors' = [vectors EXCEPT ![k] = NoVector]
  /\ attached' = [attached EXCEPT ![k] = NoVector]
  /\ UNCHANGED <<initial, tier, heat, bubbleL, stats, calls>>

(* get_recovery_vector *)
RecoveryVector(k) == IF attached[k] # NoVector THEN attached[k] ELSE vectors[k]

(* A record is recovered with the vector kept for it: apply_recovery_vector *)
(* sets the L of its bubble, and the heat follows at the next tick.         *)
Recover(k) ==
  /\ k \in Stored
  /\ RecoveryVector(k) # NoVector
  /\ MayCall
  /\ recoveries' = recoveries + 1
  /\ bubbleL' = [bubbleL EXCEPT ![k] = TargetL[RecoveryVector(k)]]
  /\ UNCHANGED <<initial, tier, heat, attached, vectors, stats, puts, reads, updates>>

(* set_calibrator_params makes a new controller, whose counts are zero.     *)
Calibrate ==
  /\ MayCall
  /\ updates' = updates + 1
  /\ stats' = [m \in Kind |-> 0]
  /\ UNCHANGED <<initial, records, vectors, puts, reads, recoveries>>

Next ==
  \/ Tick
  \/ Calibrate
  \/ \E k \in Key :
       \/ \E l \in InitialL : Put(k, l)
       \/ Get(k)
       \/ UpdatePhase(k)
       \/ \E v \in Vector : StoreVector(k, v)
       \/ ClearVector(k)
       \/ Recover(k)

(* The L of a bubble falls at every step of its manifold, by .004 * L^3: it *)
(* stays in a zone above the lowest for a finite number of ticks.  That is   *)
(* so of an L up to 22; callers are taken to put and to build no other.      *)
SomeBubbleFalls == Tick /\ \E k \in Key : bubbleL'[k] < bubbleL[k]

Spec == Init /\ [][Next]_vars

FairSpec == Spec /\ WF_vars(Tick) /\ SF_vars(SomeBubbleFalls)

-----------------------------------------------------------------------------
(* Every variable holds what the code puts there: a zone for each heat and  *)
(* L, a tier or no record for each key, and vectors only for keys.          *)
TypeOK ==
  /\ initial \in Tier
  /\ tier \in [Key -> Tier \union {"none"}]
  /\ heat \in [Key -> Zone]
  /\ bubbleL \in [Key -> Zone]
  /\ attached \in [Key -> Vector \union {NoVector}]
  /\ vectors \in [Key -> Vector \union {NoVector}]
  /\ stats \in [Kind -> Nat]
  /\ puts \in Nat /\ reads \in Nat /\ recoveries \in Nat /\ updates \in Nat
  /\ puts + reads + recoveries + updates <= MaxCalls

(* The two places of a recovery vector, the record and _recovery_vectors,   *)
(* act as one: get_recovery_vector returns the vector last stored for the   *)
(* node, whatever is put, read or ticked in between, until it is cleared.   *)
VectorIsLastStored ==
  [][\A k \in Key :
       /\ \A v \in Vector : StoreVector(k, v) => RecoveryVector(k)' = v
       /\ ClearVector(k) => RecoveryVector(k)' = NoVector
       /\ RecoveryVector(k)' # RecoveryVector(k) =>
            ClearVector(k) \/ \E v \in Vector : StoreVector(k, v)]_vars

(* The hysteresis of the tiers: ticks alone never move a record back and    *)
(* forth.  All the migrations ever counted are paid for by operations: a    *)
(* put or a recovery takes a record up and down once, a read once.          *)
MigrationsArePaidFor ==
  stats["cold_to_warm"] + stats["warm_to_hot"] + stats["hot_to_warm"] + stats["warm_to_cold"]
    <= 5 * puts + 2 * reads + 4 * recoveries

(* A storage that is only ticked lets every record go cold and keeps it     *)
(* there, however hot it was and whatever was put or recovered before.      *)
EveryRecordCools == <>[](Stored = In("COLD"))

=============================================================================
