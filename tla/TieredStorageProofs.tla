------------------------ MODULE TieredStorageProofs -------------------------
(* Proofs about TieredStorage, for every set of keys and vectors and any    *)
(* bound on the calls.                                                      *)
EXTENDS TieredStorage, FiniteSums

(* The record's copy of a recovery vector, if there is one, is the copy in  *)
(* _recovery_vectors; a node without a record has only the latter.          *)
CopiesAgree ==
  \A k \in Key :
    /\ attached[k] # NoVector => attached[k] = vectors[k]
    /\ tier[k] = "none" => attached[k] = NoVector

IInv == TypeOK /\ CopiesAgree

(* evaluate_tier_transition keeps tiers tiers, and a missing record missing. *)
LEMMA EvaluateType ==
  ASSUME NEW h \in Zone, NEW t \in Tier \union {"none"}
  PROVE  /\ Evaluate(t, h) \in Tier \union {"none"}
         /\ t = "none" <=> Evaluate(t, h) = "none"
<1>1. CASE t = "COLD"
  <2> QED BY <1>1 DEF Evaluate, Tier, Zone, WarmEnter
<1>2. CASE t = "WARM"
  <2> QED BY <1>2 DEF Evaluate, Tier, Zone, WarmExit, HotEnter
<1>3. CASE t = "HOT"
  <2> QED BY <1>3 DEF Evaluate, Tier, Zone, HotExit
<1>4. CASE t = "none"
  <2> QED BY <1>4 DEF Evaluate, Tier
<1> QED
  BY <1>1, <1>2, <1>3, <1>4 DEF Tier

LEMMA CoolerType ==
  ASSUME NEW h \in Zone, NEW falls \in BOOLEAN
  PROVE  Cooler(h, falls) \in Zone
BY DEF Cooler, Zone

LEMMA BoostedType ==
  ASSUME NEW h \in Zone, NEW b \in Boosted(h)
  PROVE  b \in Zone
<1>1. h = 0 \/ h = 1 \/ h = 2 \/ h = 3 \/ h = 4
  BY DEF Zone
<1>2. b \in {1, 2, 3, 4}
  BY <1>1 DEF Boosted
<1> QED
  BY <1>2 DEF Zone

LEMMA InitIInv == Init => IInv
<1> SUFFICES ASSUME Init PROVE IInv
  OBVIOUS
<1>1. TypeOK
  BY StorageAssumption DEF Init, TypeOK, Zone, Kind
<1>2. CopiesAgree
  BY DEF Init, CopiesAgree
<1> QED
  BY <1>1, <1>2 DEF IInv

LEMMA PutIInv ==
  ASSUME IInv, NEW k \in Key, NEW l \in InitialL, Put(k, l)
  PROVE  IInv'
<1> USE DEF IInv
<1>1. initial \in Tier \union {"none"} /\ initial # "none" /\ l \in Zone /\ 0 \in Zone
  BY StorageAssumption DEF TypeOK, Tier, Zone
<1>2. TypeOK'
  BY <1>1, StorageAssumption DEF TypeOK, Put, MayCall
<1>3. CopiesAgree'
  BY <1>1 DEF TypeOK, CopiesAgree, Put
<1> QED
  BY <1>2, <1>3

LEMMA GetIInv ==
  ASSUME IInv, NEW k \in Key, Get(k)
  PROVE  IInv'
<1> USE DEF IInv
<1>1. PICK h \in Boosted(heat[k]) :
        /\ heat' = [heat EXCEPT ![k] = h]
        /\ tier' = [tier EXCEPT ![k] = Evaluate(tier[k], h)]
        /\ stats' = [m \in Kind |->
             stats[m] + IF Moved(tier[k], Evaluate(tier[k], h)) = m THEN 1 ELSE 0]
  BY DEF Get, Touch
<1>2. h \in Zone
  BY <1>1, BoostedType DEF TypeOK
<1>3. /\ Evaluate(tier[k], h) \in Tier \union {"none"}
      /\ tier[k] = "none" <=> Evaluate(tier[k], h) = "none"
  BY <1>2, EvaluateType DEF TypeOK
<1>4. TypeOK'
  <2>1. stats' \in [Kind -> Nat]
    BY <1>1 DEF TypeOK
  <2>2. /\ tier' \in [Key -> Tier \union {"none"}]
        /\ heat' \in [Key -> Zone]
        /\ bubbleL' \in [Key -> Zone]
    BY <1>1, <1>2, <1>3 DEF TypeOK, Get
  <2>3. /\ reads' \in Nat
        /\ puts' + reads' + recoveries' + updates' <= MaxCalls
    BY StorageAssumption DEF TypeOK, Get, MayCall
  <2> QED
    BY <2>1, <2>2, <2>3 DEF TypeOK, Get
<1>5. CopiesAgree'
  BY <1>1, <1>3 DEF TypeOK, CopiesAgree, Get
<1> QED
  BY <1>4, <1>5

LEMMA TickIInv ==
  ASSUME IInv, Tick
  PROVE  IInv'
<1> USE DEF IInv
<1>1. PICK decaying \in SUBSET Stored, falling \in SUBSET Stored :
        /\ tier' = [k \in Key |-> Evaluate(tier[k], Cooler(heat[k], k \in decaying))]
        /\ bubbleL' = [k \in Key |-> Cooler(bubbleL[k], k \in falling)]
  BY DEF Tick, ProcessTick
<1>2. \A k \in Key : /\ Cooler(heat[k], k \in decaying) \in Zone
                     /\ Cooler(bubbleL[k], k \in falling) \in Zone
  <2> SUFFICES ASSUME NEW k \in Key
               PROVE  /\ Cooler(heat[k], k \in decaying) \in Zone
                      /\ Cooler(bubbleL[k], k \in falling) \in Zone
    OBVIOUS
  <2>1. heat[k] \in Zone /\ bubbleL[k] \in Zone
    BY DEF TypeOK
  <2>2. (k \in decaying) \in BOOLEAN /\ (k \in falling) \in BOOLEAN
    OBVIOUS
  <2> QED
    BY <2>1, <2>2, CoolerType
<1>3. \A k \in Key : /\ tier'[k] \in Tier \union {"none"}
                     /\ tier[k] = "none" <=> tier'[k] = "none"
  <2> SUFFICES ASSUME NEW k \in Key
               PROVE  /\ tier'[k] \in Tier \union {"none"}
                      /\ tier[k] = "none" <=> tier'[k] = "none"
    OBVIOUS
  <2>1. tier'[k] = Evaluate(tier[k], Cooler(heat[k], k \in decaying))
    BY <1>1
  <2>2. tier[k] \in Tier \union {"none"}
    BY DEF TypeOK
  <2> QED
    BY <2>1, <2>2, <1>2, EvaluateType
<1>4. TypeOK'
  <2>1. stats' \in [Kind -> Nat]
    <3>1. \A m \in Kind : Cardinality({k \in Stored : Moved(tier[k], tier'[k]) = m}) \in Nat
      <4> SUFFICES ASSUME NEW m \in Kind
                   PROVE  Cardinality({k \in Stored : Moved(tier[k], tier'[k]) = m}) \in Nat
        OBVIOUS
      <4>1. IsFiniteSet({k \in Stored : Moved(tier[k], tier'[k]) = m})
        BY StorageAssumption, FS_Subset DEF Stored
      <4> QED
        BY <4>1, FS_CardinalityType
    <3>2. stats' = [m \in Kind |-> stats[m] + Cardinality({k \in Stored : Moved(tier[k], tier'[k]) = m})]
      BY DEF Tick, ProcessTick
    <3>3. \A m \in Kind : stats[m] \in Nat
      BY DEF TypeOK
    <3> DEFINE count(m) == Cardinality({k \in Stored : Moved(tier[k], tier'[k]) = m})
    <3>4. \A m \in Kind : stats[m] + count(m) \in Nat
      BY <3>1, <3>3
    <3>5. stats' = [m \in Kind |-> stats[m] + count(m)]
      BY <3>2
    <3> HIDE DEF count
    <3> QED
      BY <3>4, <3>5
  <2>2. tier' \in [Key -> Tier \union {"none"}]
    BY <1>1, <1>3
  <2>3. bubbleL' \in [Key -> Zone] /\ heat' \in [Key -> Zone]
    BY <1>1, <1>2 DEF Tick
  <2> QED
    BY <2>1, <2>2, <2>3 DEF TypeOK, Tick, calls
<1>5. CopiesAgree'
  BY <1>3 DEF CopiesAgree, Tick
<1> QED
  BY <1>4, <1>5

LEMMA StepIInv == IInv /\ [Next]_vars => IInv'
<1> SUFFICES ASSUME IInv, [Next]_vars PROVE IInv'
  OBVIOUS
<1> USE DEF IInv
<1>1. CASE Tick
  BY <1>1, TickIInv
<1>2. CASE Calibrate
  <2>1. TypeOK'
    BY <1>2, StorageAssumption DEF TypeOK, Calibrate, records, MayCall
  <2>2. CopiesAgree'
    BY <1>2 DEF CopiesAgree, Calibrate, records
  <2> QED
    BY <2>1, <2>2
<1>3. ASSUME NEW k \in Key, NEW l \in InitialL, Put(k, l) PROVE IInv'
  BY <1>3, PutIInv
<1>4. ASSUME NEW k \in Key, Get(k) PROVE IInv'
  BY <1>4, GetIInv
<1>5. ASSUME NEW k \in Key, UpdatePhase(k) PROVE IInv'
  <2>1. TypeOK'
    BY <1>5, StorageAssumption DEF TypeOK, UpdatePhase, MayCall
  <2>2. CopiesAgree'
    BY <1>5 DEF CopiesAgree, UpdatePhase
  <2> QED
    BY <2>1, <2>2
<1>6. ASSUME NEW k \in Key, NEW v \in Vector, StoreVector(k, v) PROVE IInv'
  <2>1. TypeOK'
    BY <1>6 DEF TypeOK, StoreVector, calls
  <2>2. CopiesAgree'
    BY <1>6 DEF TypeOK, CopiesAgree, StoreVector, Stored
  <2> QED
    BY <2>1, <2>2
<1>7. ASSUME NEW k \in Key, ClearVector(k) PROVE IInv'
  <2>1. TypeOK'
    BY <1>7 DEF TypeOK, ClearVector, calls
  <2>2. CopiesAgree'
    BY <1>7 DEF TypeOK, CopiesAgree, ClearVector
  <2> QED
    BY <2>1, <2>2
<1>8. ASSUME NEW k \in Key, Recover(k) PROVE IInv'
  <2>1. RecoveryVector(k) \in Vector
    BY <1>8 DEF TypeOK, Recover, RecoveryVector
  <2>2. TypeOK'
    BY <1>8, <2>1, StorageAssumption DEF TypeOK, Recover, MayCall
  <2>3. CopiesAgree'
    BY <1>8 DEF CopiesAgree, Recover
  <2> QED
    BY <2>2, <2>3
<1>9. CASE UNCHANGED vars
  BY <1>9 DEF TypeOK, CopiesAgree, vars, records, calls
<1> QED
  BY <1>1, <1>2, <1>3, <1>4, <1>5, <1>6, <1>7, <1>8, <1>9 DEF Next

LEMMA IInvHolds == Spec => []IInv
<1>1. Init => IInv
  BY InitIInv
<1>2. IInv /\ [Next]_vars => IInv'
  BY StepIInv
<1> QED
  BY <1>1, <1>2, PTL DEF Spec

(* Heats stay in their zones, tiers are tiers and the counts of migrations  *)
(* are numbers, for any storage and any calls.                              *)
THEOREM TypeCorrect == Spec => []TypeOK
<1>1. IInv => TypeOK
  BY DEF IInv
<1> QED
  BY <1>1, IInvHolds, PTL

(* What get_recovery_vector returns changes only when a vector is stored or *)
(* cleared for the node, and to what was stored, although put drops one of  *)
(* the two copies: the copies agree, so that the other answers for it.      *)
THEOREM VectorIsLastStoredHolds == Spec => VectorIsLastStored
<1> DEFINE Step ==
      \A k \in Key :
        /\ \A v \in Vector : StoreVector(k, v) => RecoveryVector(k)' = v
        /\ ClearVector(k) => RecoveryVector(k)' = NoVector
        /\ RecoveryVector(k)' # RecoveryVector(k) =>
             ClearVector(k) \/ \E v \in Vector : StoreVector(k, v)
<1>1. IInv /\ [Next]_vars => [Step]_vars
  <2> SUFFICES ASSUME IInv, Next PROVE Step
    OBVIOUS
  <2> USE DEF IInv
  <2>1. ASSUME NEW k \in Key, NEW v \in Vector, StoreVector(k, v)
        PROVE  RecoveryVector(k)' = v
    BY <2>1, StorageAssumption DEF TypeOK, CopiesAgree, StoreVector, RecoveryVector, Stored
  <2>2. ASSUME NEW k \in Key, ClearVector(k)
        PROVE  RecoveryVector(k)' = NoVector
    BY <2>2 DEF TypeOK, ClearVector, RecoveryVector
  <2>3. ASSUME NEW k \in Key, RecoveryVector(k)' # RecoveryVector(k)
        PROVE  ClearVector(k) \/ \E v \in Vector : StoreVector(k, v)
    <3>1. CASE UNCHANGED <<attached, vectors>>
      BY <2>3, <3>1 DEF RecoveryVector
    <3>2. ASSUME NEW j \in Key, NEW l \in InitialL, Put(j, l) PROVE FALSE
      <4>1. vectors' = vectors /\ attached' = [attached EXCEPT ![j] = NoVector]
        BY <3>2 DEF Put
      <4> QED
        BY <2>3, <4>1 DEF TypeOK, CopiesAgree, RecoveryVector
    <3>3. ASSUME NEW j \in Key, NEW v \in Vector, StoreVector(j, v)
          PROVE  StoreVector(k, v)
      <4>1. CASE j = k
        BY <3>3, <4>1
      <4>2. CASE j # k
        BY <2>3, <3>3, <4>2 DEF TypeOK, StoreVector, RecoveryVector
      <4> QED
        BY <4>1, <4>2
    <3>4. ASSUME NEW j \in Key, ClearVector(j) PROVE ClearVector(k)
      <4>1. CASE j = k
        BY <3>4, <4>1
      <4>2. CASE j # k
        BY <2>3, <3>4, <4>2 DEF TypeOK, ClearVector, RecoveryVector
      <4> QED
        BY <4>1, <4>2
    <3>5. CASE Tick
      BY <3>1, <3>5 DEF Tick
    <3>6. CASE Calibrate
      BY <3>1, <3>6 DEF Calibrate, records
    <3>7. ASSUME NEW j \in Key, Get(j) \/ UpdatePhase(j) \/ Recover(j)
          PROVE  UNCHANGED <<attached, vectors>>
      BY <3>7 DEF Get, UpdatePhase, Recover
    <3> QED
      BY <3>1, <3>2, <3>3, <3>4, <3>5, <3>6, <3>7 DEF Next
  <2> QED
    BY <2>1, <2>2, <2>3
<1>2. Spec => [][Step]_vars
  BY <1>1, IInvHolds, PTL DEF Spec
<1> QED
  BY <1>2 DEF VectorIsLastStored

-----------------------------------------------------------------------------
(* What a record owes: the most migrations it can still make if the storage *)
(* is only ticked.  Put, Get and Recover raise it by what they pay for.     *)

Greater(x, y) == IF x < y THEN y ELSE x

(* A record whose heat and L are both x, or fall from there. *)
Settling(t, x) ==
  IF t = "COLD" THEN (IF x >= HotEnter THEN 4 ELSE IF x >= WarmEnter THEN 2 ELSE 0)
  ELSE IF t = "WARM" THEN (IF x >= HotEnter THEN 3 ELSE 1)
  ELSE IF t = "HOT" THEN 2
  ELSE 0

(* The next tick looks at the heat g, the ones after it at the L. *)
Via(t, g, l) ==
  (IF Evaluate(t, g) = t THEN 0 ELSE 1) + Settling(Evaluate(t, g), l)

(* The heat may also replace the L before the tick, and then stays.         *)
Due(t, h, l) ==
  Greater(Settling(t, h), Greater(Via(t, h, l), Via(t, Cooler(h, TRUE), l)))

Dues == [k \in Key |-> Due(tier[k], heat[k], bubbleL[k])]

Migrations ==
  stats["cold_to_warm"] + stats["warm_to_hot"] + stats["hot_to_warm"] + stats["warm_to_cold"]

(* What was migrated and what is still owed is paid for.                    *)
DuesAreCovered ==
  Migrations + SumFunctionOnSet(Dues, Key) <= 5 * puts + 2 * reads + 4 * recoveries

LEMMA EvaluateIs ==
  ASSUME NEW t \in Tier \union {"none"}, NEW h \in Zone
  PROVE  Evaluate(t, h) =
           IF t = "COLD" THEN (IF h >= 2 THEN "WARM" ELSE "COLD")
           ELSE IF t = "WARM" THEN (IF h >= 4 THEN "HOT" ELSE IF h < 1 THEN "COLD" ELSE "WARM")
           ELSE IF t = "HOT" THEN (IF h < 3 THEN "WARM" ELSE "HOT")
           ELSE "none"
<1>0. h \in Int
  BY DEF Zone
<1>1. CASE t = "COLD"
  BY <1>0, <1>1 DEF Evaluate, WarmEnter
<1>2. CASE t = "WARM"
  BY <1>0, <1>2 DEF Evaluate, HotEnter, WarmExit
<1>3. CASE t = "HOT"
  BY <1>0, <1>3 DEF Evaluate, HotExit
<1>4. CASE t = "none"
  BY <1>4 DEF Evaluate
<1> QED
  BY <1>1, <1>2, <1>3, <1>4 DEF Tier

(* The kinds of migration are those between neighbouring tiers. *)
LEMMA MovedIs ==
  ASSUME NEW t \in Tier \union {"none"}, NEW u \in Tier \union {"none"}
  PROVE  /\ Moved(t, u) = "cold_to_warm" => t = "COLD" /\ u = "WARM"
         /\ Moved(t, u) = "warm_to_hot"  => t = "WARM" /\ u = "HOT"
         /\ Moved(t, u) = "hot_to_warm"  => t = "HOT" /\ u = "WARM"
         /\ Moved(t, u) = "warm_to_cold" => t = "WARM" /\ u = "COLD"
<1>1. CASE t = "COLD" /\ u = "WARM"
  BY <1>1 DEF Moved
<1>2. CASE t = "WARM" /\ u = "HOT"
  BY <1>2 DEF Moved
<1>3. CASE t = "HOT" /\ u = "WARM"
  BY <1>3 DEF Moved
<1>4. CASE t = "WARM" /\ u = "COLD"
  BY <1>4 DEF Moved
<1>5. CASE /\ ~(t = "COLD" /\ u = "WARM") /\ ~(t = "WARM" /\ u = "HOT")
           /\ ~(t = "HOT" /\ u = "WARM") /\ ~(t = "WARM" /\ u = "COLD")
  <2>1. Moved(t, u) = "none"
    BY <1>5 DEF Moved
  <2> QED
    BY <2>1
<1> QED
  BY <1>1, <1>2, <1>3, <1>4, <1>5

(* What Due is made of, as numbers, for each tier. *)
LEMMA ViaIs ==
  ASSUME NEW t \in Tier \union {"none"}, NEW g \in Zone, NEW l \in Zone
  PROVE  Via(t, g, l) =
           IF t = "COLD" THEN (IF g >= 2 THEN (IF l >= 4 THEN 4 ELSE 2)
                               ELSE IF l >= 4 THEN 4 ELSE IF l >= 2 THEN 2 ELSE 0)
           ELSE IF t = "WARM" THEN
             (IF g >= 4 THEN 3
              ELSE IF g < 1 THEN (IF l >= 4 THEN 5 ELSE IF l >= 2 THEN 3 ELSE 1)
              ELSE IF l >= 4 THEN 3 ELSE 1)
           ELSE IF t = "HOT" THEN (IF g < 3 THEN (IF l >= 4 THEN 4 ELSE 2) ELSE 2)
           ELSE 0
<1>1. g \in Int /\ l \in Int
  BY DEF Zone
<1>2. CASE t = "COLD"
  <2>1. Evaluate(t, g) = IF g >= 2 THEN "WARM" ELSE "COLD"
    BY <1>2, EvaluateIs
  <2> QED
    BY <1>1, <1>2, <2>1 DEF Via, Settling, HotEnter, WarmEnter
<1>3. CASE t = "WARM"
  <2>1. Evaluate(t, g) = IF g >= 4 THEN "HOT" ELSE IF g < 1 THEN "COLD" ELSE "WARM"
    BY <1>3, EvaluateIs
  <2> QED
    BY <1>1, <1>3, <2>1 DEF Via, Settling, HotEnter, WarmEnter
<1>4. CASE t = "HOT"
  <2>1. Evaluate(t, g) = IF g < 3 THEN "WARM" ELSE "HOT"
    BY <1>4, EvaluateIs
  <2> QED
    BY <1>1, <1>4, <2>1 DEF Via, Settling, HotEnter, WarmEnter
<1>5. CASE t = "none"
  <2>1. Evaluate(t, g) = "none"
    BY <1>5, EvaluateIs
  <2> QED
    BY <1>5, <2>1 DEF Via, Settling
<1> QED
  BY <1>2, <1>3, <1>4, <1>5 DEF Tier

LEMMA SettlingType ==
  ASSUME NEW t, NEW x \in Zone
  PROVE  Settling(t, x) \in 0 .. 4
  BY DEF Settling

(* A look at the heat h, or at the next lower one, costs at most what is    *)
(* settling from h if h is the L, and at most four more if it is not.       *)
LEMMA ViaBounds ==
  ASSUME NEW t \in Tier \union {"none"}, NEW g \in Zone, NEW h \in Zone, NEW l \in Zone, g <= h, h <= g + 1
  PROVE  /\ Via(t, g, l) \in Nat /\ Via(t, g, h) \in Nat
         /\ Via(t, g, l) <= Settling(t, h) + 4
         /\ Via(t, g, h) <= Settling(t, h)
         /\ t = "none" => Via(t, g, l) = 0
<1>1. g \in Int /\ h \in Int /\ l \in Int
  BY DEF Zone
<1>2. CASE t = "COLD"
  <2>1. Settling(t, h) = IF h >= 4 THEN 4 ELSE IF h >= 2 THEN 2 ELSE 0
    BY <1>2 DEF Settling, HotEnter, WarmEnter
  <2>2. \A x \in Zone : Via(t, g, x) = IF g >= 2 THEN (IF x >= 4 THEN 4 ELSE 2)
                                      ELSE IF x >= 4 THEN 4 ELSE IF x >= 2 THEN 2 ELSE 0
    BY <1>2, ViaIs
  <2> QED
    BY <1>1, <1>2, <2>1, <2>2
<1>3. CASE t = "WARM"
  <2>1. Settling(t, h) = IF h >= 4 THEN 3 ELSE 1
    BY <1>3 DEF Settling, HotEnter
  <2>2. \A x \in Zone : Via(t, g, x) = IF g >= 4 THEN 3
                                      ELSE IF g < 1 THEN (IF x >= 4 THEN 5 ELSE IF x >= 2 THEN 3 ELSE 1)
                                      ELSE IF x >= 4 THEN 3 ELSE 1
    BY <1>3, ViaIs
  <2> QED
    BY <1>1, <1>3, <2>1, <2>2
<1>4. CASE t = "HOT"
  <2>1. Settling(t, h) = 2
    BY <1>4 DEF Settling
  <2>2. \A x \in Zone : Via(t, g, x) = IF g < 3 THEN (IF x >= 4 THEN 4 ELSE 2) ELSE 2
    BY <1>4, ViaIs
  <2> QED
    BY <1>1, <1>4, <2>1, <2>2
<1>5. CASE t = "none"
  <2>1. Settling(t, h) = 0 /\ \A x \in Zone : Via(t, g, x) = 0
    BY <1>5, ViaIs DEF Settling
  <2> QED
    BY <1>5, <2>1
<1> QED
  BY <1>2, <1>3, <1>4, <1>5 DEF Tier

LEMMA GreaterIs ==
  ASSUME NEW x \in Int, NEW y \in Int
  PROVE  Greater(x, y) \in {x, y} /\ x <= Greater(x, y) /\ y <= Greater(x, y)
  BY DEF Greater

(* The bounds of what is due that the steps need. *)
LEMMA DueBounds ==
  ASSUME NEW t \in Tier \union {"none"}, NEW h \in Zone, NEW l \in Zone
  PROVE  /\ Due(t, h, l) \in Nat
         /\ Settling(t, h) <= Due(t, h, l)
         /\ Via(t, h, l) <= Due(t, h, l)
         /\ Via(t, Cooler(h, TRUE), l) <= Due(t, h, l)
         /\ Due(t, h, l) <= Settling(t, h) + 4
         /\ Due(t, h, h) = Settling(t, h)
         /\ t = "none" => Due(t, h, l) = 0
<1>1. PICK g \in Zone : g = Cooler(h, TRUE) /\ g <= h /\ h <= g + 1 /\ h <= h /\ h <= h + 1
  BY DEF Cooler, Zone
<1>2. Settling(t, h) \in Nat
  BY SettlingType
<1>3. /\ Via(t, g, l) \in Nat /\ Via(t, g, h) \in Nat /\ Via(t, h, l) \in Nat /\ Via(t, h, h) \in Nat
      /\ Via(t, g, l) <= Settling(t, h) + 4 /\ Via(t, h, l) <= Settling(t, h) + 4
      /\ Via(t, g, h) <= Settling(t, h) /\ Via(t, h, h) <= Settling(t, h)
      /\ t = "none" => Via(t, g, l) = 0 /\ Via(t, h, l) = 0
  BY <1>1, ViaBounds
<1>4. PICK p \in Nat : /\ p = Greater(Via(t, h, l), Via(t, g, l))
                       /\ p \in {Via(t, h, l), Via(t, g, l)} /\ Via(t, h, l) <= p /\ Via(t, g, l) <= p
  BY <1>3, GreaterIs
<1>5. PICK q \in Nat : /\ q = Greater(Via(t, h, h), Via(t, g, h))
                       /\ q \in {Via(t, h, h), Via(t, g, h)}
  BY <1>3, GreaterIs
<1>6. Due(t, h, l) = Greater(Settling(t, h), p) /\ Due(t, h, h) = Greater(Settling(t, h), q)
  BY <1>1, <1>4, <1>5 DEF Due
<1>7. Due(t, h, l) \in {Settling(t, h), p} /\ Settling(t, h) <= Due(t, h, l) /\ p <= Due(t, h, l)
  BY <1>2, <1>6, GreaterIs
<1>8. Due(t, h, h) \in {Settling(t, h), q} /\ Settling(t, h) <= Due(t, h, h)
  BY <1>2, <1>6, GreaterIs
<1>9. t = "none" => Settling(t, h) = 0
  BY DEF Settling
<1>10. p <= Settling(t, h) + 4 /\ q <= Settling(t, h)
  BY <1>3, <1>4, <1>5
<1>11. Due(t, h, l) \in Nat /\ Due(t, h, l) <= Settling(t, h) + 4
  BY <1>2, <1>4, <1>7, <1>10
<1>12. Due(t, h, h) = Settling(t, h)
  BY <1>2, <1>5, <1>8, <1>10
<1>13. Via(t, h, l) <= Due(t, h, l) /\ Via(t, Cooler(h, TRUE), l) <= Due(t, h, l)
  <2>1. PICK d \in Nat : d = Due(t, h, l)
    BY <1>11
  <2>2. PICK x \in Nat : x = Via(t, h, l)
    BY <1>3
  <2>3. PICK y \in Nat : y = Via(t, g, l)
    BY <1>3
  <2>4. x <= d /\ y <= d
    BY <1>4, <1>7, <2>1, <2>2, <2>3
  <2> QED
    BY <1>1, <2>1, <2>2, <2>3, <2>4
<1>14. t = "none" => Due(t, h, l) = 0
  BY <1>3, <1>4, <1>7, <1>9
<1> QED
  BY <1>7, <1>11, <1>12, <1>13, <1>14

(* What a new record is given costs at most five. *)
LEMMA NewDue ==
  ASSUME NEW t \in Tier, NEW l \in Zone
  PROVE  Due(t, 0, l) <= 5
<1>1. t \in Tier \union {"none"} /\ 0 \in Zone
  BY DEF Tier, Zone
<1>2. CASE t # "HOT"
  <2>1. Settling(t, 0) <= 1 /\ Settling(t, 0) \in Nat
    BY <1>2 DEF Settling, HotEnter, WarmEnter, Tier
  <2>2. Due(t, 0, l) <= Settling(t, 0) + 4 /\ Due(t, 0, l) \in Nat
    BY <1>1, DueBounds
  <2> QED
    BY <2>1, <2>2
<1>3. CASE t = "HOT"
  <2>1. Evaluate(t, 0) = "WARM" /\ Cooler(0, TRUE) = 0
    BY <1>3 DEF Evaluate, Cooler, WarmEnter, HotEnter, WarmExit, HotExit
  <2>2. Settling(t, 0) = 2 /\ Settling("WARM", l) \in 0 .. 3
    BY <1>3 DEF Settling, HotEnter, WarmEnter
  <2>3. Via(t, 0, l) \in 1 .. 4
    BY <1>3, <2>1, <2>2 DEF Via
  <2>4. PICK v \in 1 .. 4 : v = Via(t, 0, l)
    BY <2>3
  <2>5. Due(t, 0, l) = Greater(2, Greater(v, v))
    BY <2>1, <2>2, <2>4, Zenon DEF Due
  <2> QED
    BY <2>5 DEF Greater
<1> QED
  BY <1>2, <1>3

(* A tick: the tier follows the heat, which then follows the L. *)
LEMMA TickPays ==
  ASSUME NEW t \in Tier \union {"none"}, NEW h \in Zone, NEW l \in Zone,
         NEW d \in BOOLEAN, NEW f \in BOOLEAN
  PROVE  (IF Evaluate(t, Cooler(h, d)) = t THEN 0 ELSE 1)
           + Due(Evaluate(t, Cooler(h, d)), Cooler(l, f), Cooler(l, f)) <= Due(t, h, l)
<1>1. PICK g \in Zone : g = Cooler(h, d) /\ g \in {h, Cooler(h, TRUE)}
  BY DEF Cooler, Zone
<1>2. PICK m \in Zone : m = Cooler(l, f) /\ m <= l
  BY DEF Cooler, Zone
<1>3. PICK u \in Tier \union {"none"} : u = Evaluate(t, g)
  BY EvaluateType
<1>4. Due(u, m, m) = Settling(u, m)
  BY DueBounds
<1>5. Settling(u, m) <= Settling(u, l) /\ Settling(u, m) \in Int /\ Settling(u, l) \in Int
  BY <1>2 DEF Settling, Zone, HotEnter, WarmEnter
<1>6. Via(t, g, l) = (IF u = t THEN 0 ELSE 1) + Settling(u, l)
  BY <1>3 DEF Via
<1>7. Via(t, g, l) <= Due(t, h, l) /\ Due(t, h, l) \in Nat
  BY <1>1, DueBounds
<1> QED
  BY <1>1, <1>2, <1>3, <1>4, <1>5, <1>6, <1>7

LEMMA ReadVia ==
  ASSUME NEW t \in Tier \union {"none"}, NEW h \in {0, 1, 2, 3, 4}, NEW b \in Zone,
         h <= b, h < 3 => b < 4
  PROVE  Via(t, b, b) <= Settling(t, h) + 2 /\ Settling(t, h) \in Int
<1>1. h \in Int /\ b \in Int /\ b <= 4
  BY DEF Zone
<1>2. CASE t = "COLD"
  <2>1. Settling(t, h) = IF h >= 4 THEN 4 ELSE IF h >= 2 THEN 2 ELSE 0
    BY <1>2 DEF Settling, HotEnter, WarmEnter
  <2>2. Via(t, b, b) = IF b >= 2 THEN (IF b >= 4 THEN 4 ELSE 2)
                       ELSE IF b >= 4 THEN 4 ELSE IF b >= 2 THEN 2 ELSE 0
    BY <1>2, ViaIs
  <2> QED
    BY <1>1, <2>1, <2>2
<1>3. CASE t = "WARM"
  <2>1. Settling(t, h) = IF h >= 4 THEN 3 ELSE 1
    BY <1>3 DEF Settling, HotEnter
  <2>2. Via(t, b, b) = IF b >= 4 THEN 3
                       ELSE IF b < 1 THEN (IF b >= 4 THEN 5 ELSE IF b >= 2 THEN 3 ELSE 1)
                       ELSE IF b >= 4 THEN 3 ELSE 1
    BY <1>3, ViaIs
  <2> QED
    BY <1>1, <2>1, <2>2
<1>4. CASE t = "HOT"
  <2>1. Settling(t, h) = 2
    BY <1>4 DEF Settling
  <2>2. Via(t, b, b) = IF b < 3 THEN (IF b >= 4 THEN 4 ELSE 2) ELSE 2
    BY <1>4, ViaIs
  <2> QED
    BY <1>1, <2>1, <2>2
<1>5. CASE t = "none"
  <2>1. Settling(t, h) = 0 /\ Via(t, b, b) = 0
    BY <1>5, ViaIs DEF Settling
  <2> QED
    BY <2>1
<1> QED
  BY <1>2, <1>3, <1>4, <1>5 DEF Tier

(* A read: it pays for two migrations. *)
LEMMA ReadPays ==
  ASSUME NEW t \in Tier \union {"none"}, NEW h \in Zone, NEW l \in Zone, NEW b \in Boosted(h)
  PROVE  (IF Evaluate(t, b) = t THEN 0 ELSE 1) + Due(Evaluate(t, b), b, b) <= Due(t, h, l) + 2
<1>1. b \in Zone
  BY BoostedType
<1>2. h \in {0, 1, 2, 3, 4} /\ b \in Int /\ h <= b /\ (h < 3 => b < 4) /\ b >= 1
  <2>1. h = 0 \/ h = 1 \/ h = 2 \/ h = 3 \/ h = 4
    BY DEF Zone
  <2> QED
    BY <2>1 DEF Boosted
<1>3. PICK u \in Tier \union {"none"} : u = Evaluate(t, b)
  BY <1>1, EvaluateType
<1>4. Due(u, b, b) = Settling(u, b)
  BY <1>1, DueBounds
<1>5. (IF u = t THEN 0 ELSE 1) + Settling(u, b) <= Settling(t, h) + 2 /\ Settling(t, h) \in Int
  <2>1. (IF u = t THEN 0 ELSE 1) + Settling(u, b) = Via(t, b, b)
    BY <1>3 DEF Via
  <2>2. Via(t, b, b) <= Settling(t, h) + 2 /\ Settling(t, h) \in Int
    BY <1>1, <1>2, ReadVia
  <2> QED
    BY <2>1, <2>2
<1>6. Settling(t, h) <= Due(t, h, l) /\ Due(t, h, l) \in Nat
  BY DueBounds
<1>7. Settling(u, b) \in Int
  BY <1>1, SettlingType
<1> QED
  BY <1>3, <1>4, <1>5, <1>6, <1>7

(* A migration is counted in one kind at most, and only if there was one. *)
LEMMA CountedOnce ==
  ASSUME NEW t \in Tier \union {"none"}, NEW u \in Tier \union {"none"}
  PROVE  (IF Moved(t, u) = "cold_to_warm" THEN 1 ELSE 0)
           + (IF Moved(t, u) = "warm_to_hot" THEN 1 ELSE 0)
           + (IF Moved(t, u) = "hot_to_warm" THEN 1 ELSE 0)
           + (IF Moved(t, u) = "warm_to_cold" THEN 1 ELSE 0)
         <= IF u = t THEN 0 ELSE 1
<1>1. CASE u = t
  <2>1. /\ Moved(t, u) # "cold_to_warm" /\ Moved(t, u) # "warm_to_hot"
        /\ Moved(t, u) # "hot_to_warm" /\ Moved(t, u) # "warm_to_cold"
    BY <1>1, MovedIs
  <2> QED
    BY <1>1, <2>1
<1>2. CASE u # t
  BY <1>2
<1> QED
  BY <1>1, <1>2

LEMMA DuesType ==
  ASSUME TypeOK
  PROVE  /\ \A k \in Key : Dues[k] = Due(tier[k], heat[k], bubbleL[k]) /\ Dues[k] \in Nat
         /\ SumFunctionOnSet(Dues, Key) \in Nat
         /\ Migrations \in Nat
<1>1. ASSUME NEW k \in Key
      PROVE  Dues[k] = Due(tier[k], heat[k], bubbleL[k]) /\ Dues[k] \in Nat
  <2>1. tier[k] \in Tier \union {"none"} /\ heat[k] \in Zone /\ bubbleL[k] \in Zone
    BY DEF TypeOK
  <2>2. Due(tier[k], heat[k], bubbleL[k]) \in Nat
    BY <2>1, DueBounds
  <2> QED
    BY <2>2 DEF Dues
<1>2. SumFunctionOnSet(Dues, Key) \in Nat
  BY <1>1, StorageAssumption, SumNat
<1>3. Migrations \in Nat
  BY DEF TypeOK, Migrations, Kind
<1> QED
  BY <1>1, <1>2, <1>3

(* The same in the next state. *)
LEMMA DuesTypeNext ==
  TypeOK' =>
    /\ \A k \in Key : Dues'[k] = Due(tier'[k], heat'[k], bubbleL'[k]) /\ Dues'[k] \in Nat
    /\ SumFunctionOnSet(Dues', Key) \in Nat
    /\ Migrations' \in Nat
<1>1. TypeOK =>
        /\ \A k \in Key : Dues[k] = Due(tier[k], heat[k], bubbleL[k]) /\ Dues[k] \in Nat
        /\ SumFunctionOnSet(Dues, Key) \in Nat
        /\ Migrations \in Nat
  BY DuesType
<1>2. (TypeOK =>
        /\ \A k \in Key : Dues[k] = Due(tier[k], heat[k], bubbleL[k]) /\ Dues[k] \in Nat
        /\ SumFunctionOnSet(Dues, Key) \in Nat
        /\ Migrations \in Nat)'
  BY <1>1, PTL
<1> QED
  BY <1>2

(* A step that touches one record changes only what that record owes. *)
LEMMA OneRecord ==
  ASSUME TypeOK, TypeOK', NEW k \in Key,
         \A j \in Key \ {k} : tier'[j] = tier[j] /\ heat'[j] = heat[j] /\ bubbleL'[j] = bubbleL[j]
  PROVE  SumFunctionOnSet(Dues', Key) = SumFunctionOnSet(Dues, Key) + Dues'[k] - Dues[k]
<1>1. \A j \in Key : /\ Dues[j] = Due(tier[j], heat[j], bubbleL[j]) /\ Dues[j] \in Nat
                     /\ Dues'[j] = Due(tier'[j], heat'[j], bubbleL'[j]) /\ Dues'[j] \in Nat
  BY DuesType, DuesTypeNext
<1>2. \A j \in Key \ {k} : Dues'[j] = Dues[j]
  BY <1>1
<1>3. \A j \in Key : Dues[j] \in Int /\ Dues'[j] \in Int
  BY <1>1
<1> QED
  BY <1>2, <1>3, StorageAssumption, SumChange

(* A step that touches none leaves the sum. *)
LEMMA NoRecord ==
  ASSUME TypeOK, UNCHANGED <<tier, heat, bubbleL>>
  PROVE  SumFunctionOnSet(Dues', Key) = SumFunctionOnSet(Dues, Key)
<1>1. Dues' = Dues
  BY DEF Dues
<1> QED
  BY <1>1

LEMMA InitCovered == Init => DuesAreCovered
<1> SUFFICES ASSUME Init PROVE DuesAreCovered
  OBVIOUS
<1>1. TypeOK
  BY InitIInv DEF IInv
<1>2. \A k \in Key : Dues[k] = 0
  <2> SUFFICES ASSUME NEW k \in Key PROVE Dues[k] = 0
    OBVIOUS
  <2>1. tier[k] = "none" /\ heat[k] \in Zone /\ bubbleL[k] \in Zone
    BY <1>1 DEF Init, TypeOK
  <2>2. Dues[k] = Due("none", heat[k], bubbleL[k])
    BY <1>1, <2>1, DuesType
  <2> QED
    BY <2>1, <2>2, DueBounds
<1>3. SumFunctionOnSet(Dues, Key) = 0
  <2>1. \A k \in Key : Dues[k] = IF k \in {} THEN 1 ELSE 0
    BY <1>2
  <2>2. SumFunctionOnSet(Dues, Key) = Cardinality({})
    BY <2>1, StorageAssumption, SumCounts
  <2> QED
    BY <2>2, FS_EmptySet
<1>4. Migrations = 0
  BY DEF Init, Migrations, Kind
<1> QED
  BY <1>3, <1>4 DEF Init, DuesAreCovered

LEMMA PutCovered ==
  ASSUME IInv, IInv', DuesAreCovered, NEW k \in Key, NEW l \in InitialL, Put(k, l)
  PROVE  DuesAreCovered'
<1>0. TypeOK /\ TypeOK'
  BY DEF IInv
<1>1. tier'[k] = initial /\ heat'[k] = 0 /\ bubbleL'[k] = l
  BY <1>0 DEF Put, TypeOK
<1>2. initial \in Tier /\ l \in Zone
  BY <1>0, StorageAssumption DEF TypeOK
<1>3. Dues'[k] <= 5 /\ Dues'[k] \in Nat /\ Dues[k] \in Nat
  BY <1>0, <1>1, <1>2, NewDue, DuesType, DuesTypeNext
<1>4. \A j \in Key \ {k} : tier'[j] = tier[j] /\ heat'[j] = heat[j] /\ bubbleL'[j] = bubbleL[j]
  BY <1>0 DEF Put, TypeOK
<1>5. SumFunctionOnSet(Dues', Key) = SumFunctionOnSet(Dues, Key) + Dues'[k] - Dues[k]
  BY <1>0, <1>4, OneRecord
<1>6. SumFunctionOnSet(Dues, Key) \in Nat /\ Migrations \in Nat
  BY <1>0, DuesType
<1>7. Migrations' = Migrations
  BY DEF Put, Migrations
<1>8. puts' = puts + 1 /\ reads' = reads /\ recoveries' = recoveries
  BY DEF Put
<1>9. puts \in Nat /\ reads \in Nat /\ recoveries \in Nat
  BY <1>0 DEF TypeOK
<1> QED
  BY <1>3, <1>5, <1>6, <1>7, <1>8, <1>9 DEF DuesAreCovered

LEMMA GetCovered ==
  ASSUME IInv, IInv', DuesAreCovered, NEW k \in Key, Get(k)
  PROVE  DuesAreCovered'
<1>0. TypeOK /\ TypeOK'
  BY DEF IInv
<1>1. PICK h \in Boosted(heat[k]) :
        /\ heat' = [heat EXCEPT ![k] = h]
        /\ tier' = [tier EXCEPT ![k] = Evaluate(tier[k], h)]
        /\ stats' = [m \in Kind |->
             stats[m] + IF Moved(tier[k], Evaluate(tier[k], h)) = m THEN 1 ELSE 0]
  BY DEF Get, Touch
<1>2. bubbleL' = [bubbleL EXCEPT ![k] = heat'[k]]
  BY DEF Get
<1>3. tier[k] \in Tier \union {"none"} /\ heat[k] \in Zone /\ bubbleL[k] \in Zone /\ h \in Zone
  BY <1>0, <1>1, BoostedType DEF TypeOK
<1>4. PICK u \in Tier \union {"none"} : u = Evaluate(tier[k], h)
  BY <1>3, EvaluateType
<1>5. tier'[k] = u /\ heat'[k] = h /\ bubbleL'[k] = h
  BY <1>0, <1>1, <1>2, <1>4 DEF TypeOK
<1>6. Dues[k] = Due(tier[k], heat[k], bubbleL[k]) /\ Dues'[k] = Due(u, h, h)
  BY <1>0, <1>5, DuesType, DuesTypeNext
<1>7. (IF u = tier[k] THEN 0 ELSE 1) + Dues'[k] <= Dues[k] + 2
  BY <1>1, <1>3, <1>4, <1>6, ReadPays
<1>8. Dues'[k] \in Nat /\ Dues[k] \in Nat
  BY <1>0, DuesType, DuesTypeNext
<1>9. \A j \in Key \ {k} : tier'[j] = tier[j] /\ heat'[j] = heat[j] /\ bubbleL'[j] = bubbleL[j]
  BY <1>0, <1>1, <1>2 DEF TypeOK
<1>10. SumFunctionOnSet(Dues', Key) = SumFunctionOnSet(Dues, Key) + Dues'[k] - Dues[k]
  BY <1>0, <1>9, OneRecord
<1>11. SumFunctionOnSet(Dues, Key) \in Nat /\ Migrations \in Nat /\ Migrations' \in Nat
  BY <1>0, DuesType, DuesTypeNext
<1>12. Migrations' <= Migrations + (IF u = tier[k] THEN 0 ELSE 1)
  <2>1. \A m \in Kind : stats[m] \in Nat /\ stats'[m] = stats[m] + IF Moved(tier[k], u) = m THEN 1 ELSE 0
    BY <1>0, <1>1, <1>4 DEF TypeOK
  <2>2. (IF Moved(tier[k], u) = "cold_to_warm" THEN 1 ELSE 0)
          + (IF Moved(tier[k], u) = "warm_to_hot" THEN 1 ELSE 0)
          + (IF Moved(tier[k], u) = "hot_to_warm" THEN 1 ELSE 0)
          + (IF Moved(tier[k], u) = "warm_to_cold" THEN 1 ELSE 0)
        <= IF u = tier[k] THEN 0 ELSE 1
    BY <1>3, CountedOnce
  <2> QED
    BY <2>1, <2>2 DEF Migrations, Kind
<1>13. reads' = reads + 1 /\ puts' = puts /\ recoveries' = recoveries
  BY DEF Get
<1>14. puts \in Nat /\ reads \in Nat /\ recoveries \in Nat
  BY <1>0 DEF TypeOK
<1>15. Migrations' + SumFunctionOnSet(Dues', Key) <= Migrations + SumFunctionOnSet(Dues, Key) + 2
  BY <1>7, <1>8, <1>10, <1>11, <1>12
<1>16. SumFunctionOnSet(Dues', Key) \in Nat
  BY <1>0, DuesTypeNext
<1> QED
  BY <1>11, <1>13, <1>14, <1>15, <1>16 DEF DuesAreCovered

LEMMA RecoverCovered ==
  ASSUME IInv, IInv', DuesAreCovered, NEW k \in Key, Recover(k) \/ UpdatePhase(k)
  PROVE  DuesAreCovered'
<1>0. TypeOK /\ TypeOK'
  BY DEF IInv
<1>1. tier' = tier /\ heat' = heat /\ stats' = stats /\ puts' = puts /\ reads' = reads
  BY DEF Recover, UpdatePhase
<1>2. \A j \in Key \ {k} : tier'[j] = tier[j] /\ heat'[j] = heat[j] /\ bubbleL'[j] = bubbleL[j]
  BY <1>0, <1>1 DEF Recover, UpdatePhase, TypeOK
<1>3. SumFunctionOnSet(Dues', Key) = SumFunctionOnSet(Dues, Key) + Dues'[k] - Dues[k]
  BY <1>0, <1>2, OneRecord
<1>4. /\ tier[k] \in Tier \union {"none"} /\ heat[k] \in Zone
      /\ bubbleL[k] \in Zone /\ bubbleL'[k] \in Zone
  BY <1>0 DEF TypeOK
<1>5. /\ Dues[k] = Due(tier[k], heat[k], bubbleL[k]) /\ Dues[k] \in Nat
      /\ Dues'[k] = Due(tier[k], heat[k], bubbleL'[k]) /\ Dues'[k] \in Nat
  BY <1>0, <1>1, DuesType, DuesTypeNext
<1>6. PICK x \in Int : x = Settling(tier[k], heat[k])
  BY <1>4, SettlingType
<1>7. x <= Dues[k] /\ Dues'[k] <= x + 4 /\ Due(tier[k], heat[k], heat[k]) = x
  <2>1. /\ Settling(tier[k], heat[k]) <= Due(tier[k], heat[k], bubbleL[k])
        /\ Due(tier[k], heat[k], heat[k]) = Settling(tier[k], heat[k])
    BY <1>4, DueBounds
  <2>2. Due(tier[k], heat[k], bubbleL'[k]) <= Settling(tier[k], heat[k]) + 4
    BY <1>4, DueBounds
  <2> QED
    BY <1>5, <1>6, <2>1, <2>2
<1>8. Migrations' = Migrations
  BY <1>1 DEF Migrations
<1>9. SumFunctionOnSet(Dues, Key) \in Nat /\ Migrations \in Nat /\ SumFunctionOnSet(Dues', Key) \in Nat
  BY <1>0, DuesType, DuesTypeNext
<1>10. puts \in Nat /\ reads \in Nat /\ recoveries \in Nat
  BY <1>0 DEF TypeOK
<1>11. CASE Recover(k)
  <2>1. recoveries' = recoveries + 1
    BY <1>11 DEF Recover
  <2> QED
    BY <1>1, <1>3, <1>5, <1>7, <1>8, <1>9, <1>10, <2>1 DEF DuesAreCovered
<1>12. CASE UpdatePhase(k)
  <2>1. recoveries' = recoveries /\ bubbleL'[k] = heat[k]
    BY <1>0, <1>12 DEF UpdatePhase, TypeOK
  <2>2. Dues'[k] <= Dues[k]
    BY <1>5, <1>7, <2>1
  <2> QED
    BY <1>1, <1>3, <1>5, <1>8, <1>9, <1>10, <2>1, <2>2 DEF DuesAreCovered
<1> QED
  BY <1>11, <1>12

LEMMA TickCovered ==
  ASSUME IInv, IInv', DuesAreCovered, Tick
  PROVE  DuesAreCovered'
<1>0. TypeOK /\ TypeOK'
  BY DEF IInv
<1>1. PICK decaying \in SUBSET Stored, falling \in SUBSET Stored :
        /\ tier' = [k \in Key |-> Evaluate(tier[k], Cooler(heat[k], k \in decaying))]
        /\ bubbleL' = [k \in Key |-> Cooler(bubbleL[k], k \in falling)]
  BY DEF Tick, ProcessTick
<1> DEFINE Of(m) == {k \in Stored : Moved(tier[k], tier'[k]) = m}
           Ones(m) == [k \in Key |-> IF k \in Of(m) THEN 1 ELSE 0]
           Plus(f, e) == [k \in Key |-> f[k] + e[k]]
<1>2. ASSUME NEW m \in Kind
      PROVE  /\ SumFunctionOnSet(Ones(m), Key) = Cardinality(Of(m))
             /\ Cardinality(Of(m)) \in Nat
             /\ stats'[m] = stats[m] + Cardinality(Of(m))
  <2>1. Of(m) \in SUBSET Key
    BY DEF Stored
  <2>2. \A k \in Key : Ones(m)[k] = IF k \in Of(m) THEN 1 ELSE 0
    OBVIOUS
  <2>3. stats'[m] = stats[m] + Cardinality(Of(m))
    BY DEF Tick, ProcessTick
  <2> HIDE DEF Of, Ones
  <2>4. SumFunctionOnSet(Ones(m), Key) = Cardinality(Of(m))
    BY <2>1, <2>2, StorageAssumption, SumCounts
  <2>5. Cardinality(Of(m)) \in Nat
    BY <2>1, StorageAssumption, FS_Subset, FS_CardinalityType
  <2> QED
    BY <2>3, <2>4, <2>5
<1>3. PICK a : a = Ones("cold_to_warm")
  OBVIOUS
<1>4. PICK b : b = Ones("warm_to_hot")
  OBVIOUS
<1>5. PICK c : c = Ones("hot_to_warm")
  OBVIOUS
<1>6. PICK d : d = Ones("warm_to_cold")
  OBVIOUS
<1>7. \A k \in Key : /\ a[k] \in Nat /\ b[k] \in Nat /\ c[k] \in Nat /\ d[k] \in Nat
                     /\ Dues'[k] \in Nat /\ Dues[k] \in Nat
  <2>1. \A k \in Key : Dues'[k] \in Nat /\ Dues[k] \in Nat
    BY <1>0, DuesType, DuesTypeNext
  <2> QED
    BY <1>3, <1>4, <1>5, <1>6, <2>1
<1>8. \A k \in Key : a[k] + b[k] + c[k] + d[k] + Dues'[k] <= Dues[k]
  <2> SUFFICES ASSUME NEW k \in Key PROVE a[k] + b[k] + c[k] + d[k] + Dues'[k] <= Dues[k]
    OBVIOUS
  <2>1. /\ tier[k] \in Tier \union {"none"} /\ tier'[k] \in Tier \union {"none"}
        /\ heat[k] \in Zone /\ bubbleL[k] \in Zone
    BY <1>0 DEF TypeOK
  <2>2. (k \in decaying) \in BOOLEAN /\ (k \in falling) \in BOOLEAN
    OBVIOUS
  <2>4. /\ tier'[k] = Evaluate(tier[k], Cooler(heat[k], k \in decaying))
        /\ bubbleL'[k] = Cooler(bubbleL[k], k \in falling)
        /\ heat'[k] = Cooler(bubbleL[k], k \in falling)
    BY <1>1 DEF Tick
  <2>5. (IF tier'[k] = tier[k] THEN 0 ELSE 1) + Due(tier'[k], heat'[k], bubbleL'[k])
          <= Due(tier[k], heat[k], bubbleL[k])
    BY <2>1, <2>2, <2>4, TickPays
  <2>6. (IF tier'[k] = tier[k] THEN 0 ELSE 1) + Dues'[k] <= Dues[k]
    BY <1>0, <2>5, DuesType, DuesTypeNext
  <2>7. a[k] + b[k] + c[k] + d[k] <= IF tier'[k] = tier[k] THEN 0 ELSE 1
    <3>1. /\ a[k] <= IF Moved(tier[k], tier'[k]) = "cold_to_warm" THEN 1 ELSE 0
          /\ b[k] <= IF Moved(tier[k], tier'[k]) = "warm_to_hot" THEN 1 ELSE 0
          /\ c[k] <= IF Moved(tier[k], tier'[k]) = "hot_to_warm" THEN 1 ELSE 0
          /\ d[k] <= IF Moved(tier[k], tier'[k]) = "warm_to_cold" THEN 1 ELSE 0
      BY <1>3, <1>4, <1>5, <1>6
    <3>2. (IF Moved(tier[k], tier'[k]) = "cold_to_warm" THEN 1 ELSE 0)
            + (IF Moved(tier[k], tier'[k]) = "warm_to_hot" THEN 1 ELSE 0)
            + (IF Moved(tier[k], tier'[k]) = "hot_to_warm" THEN 1 ELSE 0)
            + (IF Moved(tier[k], tier'[k]) = "warm_to_cold" THEN 1 ELSE 0)
          <= IF tier'[k] = tier[k] THEN 0 ELSE 1
      BY <2>1, CountedOnce
    <3> QED
      BY <1>7, <3>1, <3>2
  <2> QED
    BY <1>7, <2>6, <2>7
<1>9. SumFunctionOnSet(Plus(Plus(Plus(Plus(a, b), c), d), Dues'), Key)
        = SumFunctionOnSet(a, Key) + SumFunctionOnSet(b, Key) + SumFunctionOnSet(c, Key)
            + SumFunctionOnSet(d, Key) + SumFunctionOnSet(Dues', Key)
  <2>0. ASSUME NEW f, NEW e, \A k \in Key : f[k] \in Nat /\ e[k] \in Nat
        PROVE  /\ SumFunctionOnSet(Plus(f, e), Key) = SumFunctionOnSet(f, Key) + SumFunctionOnSet(e, Key)
               /\ \A k \in Key : Plus(f, e)[k] \in Nat
    <3>1. \A k \in Key : /\ f[k] \in Int /\ e[k] \in Int
                         /\ Plus(f, e)[k] = f[k] + e[k] /\ Plus(f, e)[k] \in Nat
      BY <2>0
    <3> HIDE DEF Plus
    <3> QED
      BY <3>1, StorageAssumption, SumPlus
  <2> HIDE DEF Plus
  <2>1. /\ SumFunctionOnSet(Plus(a, b), Key) = SumFunctionOnSet(a, Key) + SumFunctionOnSet(b, Key)
        /\ \A k \in Key : Plus(a, b)[k] \in Nat
    BY <1>7, <2>0
  <2>2. /\ SumFunctionOnSet(Plus(Plus(a, b), c), Key) = SumFunctionOnSet(Plus(a, b), Key) + SumFunctionOnSet(c, Key)
        /\ \A k \in Key : Plus(Plus(a, b), c)[k] \in Nat
    BY <1>7, <2>0, <2>1
  <2>3. /\ SumFunctionOnSet(Plus(Plus(Plus(a, b), c), d), Key)
             = SumFunctionOnSet(Plus(Plus(a, b), c), Key) + SumFunctionOnSet(d, Key)
        /\ \A k \in Key : Plus(Plus(Plus(a, b), c), d)[k] \in Nat
    BY <1>7, <2>0, <2>2
  <2>4. SumFunctionOnSet(Plus(Plus(Plus(Plus(a, b), c), d), Dues'), Key)
          = SumFunctionOnSet(Plus(Plus(Plus(a, b), c), d), Key) + SumFunctionOnSet(Dues', Key)
    BY <1>7, <2>0, <2>3
  <2> QED
    BY <2>1, <2>2, <2>3, <2>4
<1>10. SumFunctionOnSet(Plus(Plus(Plus(Plus(a, b), c), d), Dues'), Key) <= SumFunctionOnSet(Dues, Key)
  <2> DEFINE all == Plus(Plus(Plus(Plus(a, b), c), d), Dues')
  <2>1. \A k \in Key : all[k] = a[k] + b[k] + c[k] + d[k] + Dues'[k]
    OBVIOUS
  <2> HIDE DEF all
  <2>2. \A k \in Key : Dues[k] \in Int /\ all[k] \in Int /\ all[k] <= Dues[k]
    BY <1>7, <1>8, <2>1
  <2>3. SumFunctionOnSet(all, Key) <= SumFunctionOnSet(Dues, Key)
    BY <2>2, StorageAssumption, SumMonotone
  <2> QED
    BY <2>3 DEF all
<1>11. SumFunctionOnSet(Dues, Key) \in Nat /\ Migrations \in Nat /\ SumFunctionOnSet(Dues', Key) \in Nat
  BY <1>0, DuesType, DuesTypeNext
<1>12. Migrations' = Migrations + SumFunctionOnSet(a, Key) + SumFunctionOnSet(b, Key)
                       + SumFunctionOnSet(c, Key) + SumFunctionOnSet(d, Key)
  <2> HIDE DEF Of, Ones
  <2>1. \A m \in Kind : stats[m] \in Nat /\ stats'[m] = stats[m] + SumFunctionOnSet(Ones(m), Key)
                        /\ SumFunctionOnSet(Ones(m), Key) \in Nat
    BY <1>0, <1>2 DEF TypeOK
  <2> QED
    BY <1>3, <1>4, <1>5, <1>6, <2>1 DEF Migrations, Kind
<1>13. UNCHANGED <<puts, reads, recoveries>>
  BY DEF Tick, calls
<1>14. \A m \in Kind : SumFunctionOnSet(Ones(m), Key) \in Nat
  BY <1>2
<1>15. Migrations' + SumFunctionOnSet(Dues', Key) <= Migrations + SumFunctionOnSet(Dues, Key)
  <2> HIDE DEF Of, Ones, Plus
  <2>1. /\ SumFunctionOnSet(a, Key) \in Nat /\ SumFunctionOnSet(b, Key) \in Nat
        /\ SumFunctionOnSet(c, Key) \in Nat /\ SumFunctionOnSet(d, Key) \in Nat
    BY <1>3, <1>4, <1>5, <1>6, <1>14 DEF Kind
  <2> QED
    BY <1>9, <1>10, <1>11, <1>12, <2>1
<1>16. puts \in Nat /\ reads \in Nat /\ recoveries \in Nat /\ Migrations' \in Nat
  BY <1>0, DuesTypeNext DEF TypeOK
<1> HIDE DEF Of, Ones, Plus
<1> QED
  BY <1>11, <1>13, <1>15, <1>16 DEF DuesAreCovered

LEMMA StepCovered == IInv /\ IInv' /\ DuesAreCovered /\ [Next]_vars => DuesAreCovered'
<1> SUFFICES ASSUME IInv, IInv', DuesAreCovered, [Next]_vars PROVE DuesAreCovered'
  OBVIOUS
<1>0. TypeOK /\ TypeOK'
  BY DEF IInv
<1>1. /\ SumFunctionOnSet(Dues, Key) \in Nat /\ Migrations \in Nat
      /\ SumFunctionOnSet(Dues', Key) \in Nat /\ Migrations' \in Nat
      /\ puts \in Nat /\ reads \in Nat /\ recoveries \in Nat
  BY <1>0, DuesType, DuesTypeNext DEF TypeOK
<1>2. ASSUME UNCHANGED <<tier, heat, bubbleL, puts, reads, recoveries>>, Migrations' <= Migrations
      PROVE  DuesAreCovered'
  <2>1. SumFunctionOnSet(Dues', Key) = SumFunctionOnSet(Dues, Key)
    BY <1>0, <1>2, NoRecord
  <2> QED
    BY <1>1, <1>2, <2>1 DEF DuesAreCovered
<1>3. CASE Tick
  BY <1>3, TickCovered
<1>4. CASE Calibrate
  <2>1. Migrations' = 0 /\ UNCHANGED <<tier, heat, bubbleL, puts, reads, recoveries>>
    BY <1>4 DEF Calibrate, records, Migrations, Kind
  <2> QED
    BY <1>1, <1>2, <2>1
<1>5. ASSUME NEW k \in Key, NEW l \in InitialL, Put(k, l) PROVE DuesAreCovered'
  BY <1>5, PutCovered
<1>6. ASSUME NEW k \in Key, Get(k) PROVE DuesAreCovered'
  BY <1>6, GetCovered
<1>7. ASSUME NEW k \in Key, Recover(k) \/ UpdatePhase(k) PROVE DuesAreCovered'
  BY <1>7, RecoverCovered
<1>8. ASSUME NEW k \in Key, (\E v \in Vector : StoreVector(k, v)) \/ ClearVector(k) PROVE DuesAreCovered'
  <2>1. UNCHANGED <<tier, heat, bubbleL, puts, reads, recoveries>> /\ Migrations' = Migrations
    BY <1>8 DEF StoreVector, ClearVector, calls, Migrations
  <2> QED
    BY <1>1, <1>2, <2>1
<1>9. CASE UNCHANGED vars
  <2>1. UNCHANGED <<tier, heat, bubbleL, puts, reads, recoveries>> /\ Migrations' = Migrations
    BY <1>9 DEF vars, records, calls, Migrations
  <2> QED
    BY <1>1, <1>2, <2>1
<1> QED
  BY <1>3, <1>4, <1>5, <1>6, <1>7, <1>8, <1>9 DEF Next

(* The hysteresis of the tiers, for any number of records and calls: what   *)
(* was migrated is paid for by puts, reads and recoveries, because what is  *)
(* still owed is too and no step adds more to the two than it pays.         *)
THEOREM MigrationsArePaidForHolds == Spec => []MigrationsArePaidFor
<1>1. Init => DuesAreCovered
  BY InitCovered
<1>2. IInv /\ IInv' /\ DuesAreCovered /\ [Next]_vars => DuesAreCovered'
  BY StepCovered
<1>3. IInv /\ DuesAreCovered => MigrationsArePaidFor
  <2> SUFFICES ASSUME IInv, DuesAreCovered PROVE MigrationsArePaidFor
    OBVIOUS
  <2>1. TypeOK
    BY DEF IInv
  <2>2. /\ SumFunctionOnSet(Dues, Key) \in Nat /\ Migrations \in Nat
        /\ puts \in Nat /\ reads \in Nat /\ recoveries \in Nat
    BY <2>1, DuesType DEF TypeOK
  <2>3. Migrations <= 5 * puts + 2 * reads + 4 * recoveries
    BY <2>2 DEF DuesAreCovered
  <2> QED
    BY <2>3 DEF Migrations, MigrationsArePaidFor
<1> QED
  BY <1>1, <1>2, <1>3, IInvHolds, PTL DEF Spec

=============================================================================
