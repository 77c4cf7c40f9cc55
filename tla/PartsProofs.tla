----------------------------- MODULE PartsProofs ----------------------------
(***************************************************************************)
(* Four parts that share nothing: the healing of a bubble, for any bands   *)
(* of energy, the evolution loop, for any states and simulations, the      *)
(* search of a route, for any network, phases and delays, and the star     *)
(* memory, for any stars and limits.  Each theorem is about the            *)
(* specification of one part.                                              *)
(***************************************************************************)
EXTENDS LocalParts, Integers, Sequences, SequenceTheorems, FiniteSums

-----------------------------------------------------------------------------
(* Healing. *)

HealingEntry == [place : Healer!Place, known : BOOLEAN]

OfferTyped == offered \in Healer!Place \union {Healer!NoVector}

HealingTyped ==
  /\ spot \in Healer!Place
  /\ trajectory \in Seq(HealingEntry)
  /\ vector \in Healer!Place \union {Healer!NoVector}
  /\ OfferTyped

(* A step leads to a place, and below the energy that overshoots to one of   *)
(* no more energy.                                                          *)
LEMMA EnergyRises ==
  ASSUME NEW p \in Healer!Place
  PROVE  /\ Healer!E(p) \in Nat
         /\ \A q \in Healer!Below(p) :
              q \in Healer!Place /\ (Healer!Overshoots(p) \/ Healer!E(q) <= Healer!E(p))
<1>1. Energy \in Seq(Nat) /\ \A i, j \in DOMAIN Energy : i < j => Energy[i] < Energy[j]
  BY LocalAssumption DEF Healer!HealingAssumption
<1>2. DOMAIN Energy = 1 .. Len(Energy) /\ Len(Energy) \in Nat
  BY <1>1
<1>3. \A i \in Healer!Place : i \in Nat /\ Healer!E(i) \in Nat /\ (i = 0 => Healer!E(i) = 0)
                              /\ (i # 0 => i \in DOMAIN Energy /\ Healer!E(i) = Energy[i])
  BY <1>1, <1>2 DEF Healer!Place, Healer!E
<1>4. ASSUME NEW q \in Healer!Below(p)
      PROVE  q \in Healer!Place /\ (Healer!Overshoots(p) \/ Healer!E(q) <= Healer!E(p))
  <2>1. CASE Healer!Overshoots(p)
    BY <1>4, <2>1 DEF Healer!Below
  <2>2. CASE ~Healer!Overshoots(p)
    <3>1. q \in 0 .. p /\ p \in Nat
      BY <1>3, <1>4, <2>2 DEF Healer!Below
    <3>2. q \in Healer!Place
      BY <1>2, <1>3, <3>1 DEF Healer!Place
    <3>3. CASE q = p
      BY <1>3, <3>3, <3>2
    <3>4. CASE q # p
      BY <1>1, <1>3, <3>1, <3>2, <3>4
    <3> QED
      BY <3>2, <3>3, <3>4
  <2> QED
    BY <2>1, <2>2
<1> QED
  BY <1>3, <1>4

(* The trajectory after steps, cut to its last entries: it ends where the    *)
(* steps end, and is made of what was there and of what was stepped to.      *)
LEMMA RecordedEntries ==
  ASSUME trajectory \in Seq(HealingEntry),
         NEW ps \in Seq(Healer!Place), ps # <<>>
  PROVE  LET tr == Healer!Recorded(ps)
         IN  /\ tr \in Seq(HealingEntry)
             /\ Len(tr) > 0 /\ tr[Len(tr)] = Healer!Entry(ps[Len(ps)])
<1> DEFINE steps == [i \in DOMAIN ps |-> Healer!Entry(ps[i])]
           whole == trajectory \o steps
           n == Len(whole)
           most == IF Len(trajectory) > MaxLength THEN Len(trajectory) ELSE MaxLength
           a == IF n > most THEN n - most + 1 ELSE 1
<1>0. \A i \in DOMAIN ps : Healer!Entry(ps[i]) \in HealingEntry
  BY DEF Healer!Entry, HealingEntry
<1>1. /\ steps \in Seq(HealingEntry) /\ Len(steps) = Len(ps)
      /\ steps[Len(ps)] = Healer!Entry(ps[Len(ps)])
  <2>1. DOMAIN ps = 1 .. Len(ps) /\ Len(ps) \in Nat \ {0}
    OBVIOUS
  <2> QED
    BY <1>0, <2>1
<1>2. whole \in Seq(HealingEntry) /\ n = Len(trajectory) + Len(ps) /\ n \in Nat \ {0}
  BY <1>1
<1>3. whole[n] = Healer!Entry(ps[Len(ps)])
  BY <1>1, <1>2
<1>4. a \in 1 .. n
  <2>1. MaxLength \in Nat \ {0}
    BY LocalAssumption DEF Healer!HealingAssumption
  <2>2. Len(trajectory) \in Nat
    OBVIOUS
  <2>3. most \in Nat \ {0}
    BY <2>1, <2>2
  <2> HIDE DEF n, most
  <2> QED
    BY <1>2, <2>3
<1>5. Healer!Recorded(ps) = SubSeq(whole, a, n)
  BY DEF Healer!Recorded, Healer!Trimmed
<1> HIDE DEF whole, a, n
<1>6. SubSeq(whole, a, n) \in Seq(HealingEntry)
  <2>1. a \in Int /\ n \in Int
    BY <1>2, <1>4
  <2>2. \A i \in a .. n : whole[i] \in HealingEntry
    BY <1>2, <1>4 DEF n
  <2> QED
    BY <2>1, <2>2, SubSeqProperties
<1>7. Len(SubSeq(whole, a, n)) = n - a + 1 /\ SubSeq(whole, a, n)[n - a + 1] = whole[n]
  BY <1>2, <1>4
<1> QED
  BY <1>2, <1>3, <1>4, <1>5, <1>6, <1>7

(* A way that starts below the energy that overshoots ends where the energy  *)
(* is no higher than where it started.                                      *)
LEMMA DescentsGoDown ==
  ASSUME HealingTyped, NEW ps \in Healer!Descents
  PROVE  /\ ps \in Seq(Healer!Place) /\ ps # <<>>
         /\ Healer!Last(ps) \in Healer!Place
         /\ Healer!Overshoots(spot) \/ Healer!E(Healer!Last(ps)) <= Healer!E(spot)
<1>1. PICK n \in 1 .. MaxSteps : ps \in [1 .. n -> Healer!Place]
  BY DEF Healer!Descents
<1>2. /\ ps[1] \in Healer!Below(spot)
      /\ \A i \in 2 .. Len(ps) : ps[i] \in Healer!Below(ps[i - 1])
  BY DEF Healer!Descents
<1>3. n \in Nat \ {0}
  BY LocalAssumption DEF Healer!HealingAssumption
<1>4. ps \in Seq(Healer!Place) /\ Len(ps) = n /\ ps # <<>> /\ Healer!Last(ps) = ps[n]
  BY <1>1, <1>3 DEF Healer!Last
<1>5. spot \in Healer!Place
  BY DEF HealingTyped, OfferTyped
<1>6. ps[n] \in Healer!Place
  BY <1>1, <1>3
<1> SUFFICES ASSUME ~Healer!Overshoots(spot) PROVE Healer!E(ps[n]) <= Healer!E(spot)
  BY <1>4, <1>6
<1> DEFINE Calm == {i \in Nat : i + 1 \in 1 .. n => Healer!E(ps[i + 1]) <= Healer!E(spot)}
<1>7. 0 \in Calm
  BY <1>2, <1>5, EnergyRises
<1>8. ASSUME NEW i \in Calm PROVE i + 1 \in Calm
  <2>1. i \in Nat /\ (i + 1 \in 1 .. n => Healer!E(ps[i + 1]) <= Healer!E(spot))
    BY <1>8
  <2> SUFFICES ASSUME i + 2 \in 1 .. n PROVE Healer!E(ps[i + 2]) <= Healer!E(spot)
    BY <2>1
  <2>2. i + 1 \in 1 .. n /\ i + 2 \in 2 .. n /\ (i + 2) - 1 = i + 1
    BY <1>3, <2>1
  <2>3. ps[i + 2] \in Healer!Below(ps[i + 1])
    BY <1>2, <1>4, <2>2
  <2>4. ps[i + 1] \in Healer!Place /\ ps[i + 2] \in Healer!Place
    BY <1>1, <2>2
  <2>5. /\ Healer!E(ps[i + 1]) \in Nat /\ Healer!E(ps[i + 2]) \in Nat
        /\ Healer!E(spot) \in Nat
    BY <1>5, <2>4, EnergyRises
  <2>6. ~Healer!Overshoots(ps[i + 1])
    <3>1. Healer!E(ps[i + 1]) <= Healer!E(spot)
      BY <2>1, <2>2
    <3>2. Overshoot \in Nat
      BY LocalAssumption DEF Healer!HealingAssumption
    <3> QED
      BY <2>5, <3>1, <3>2 DEF Healer!Overshoots
  <2>7. Healer!E(ps[i + 2]) <= Healer!E(ps[i + 1])
    BY <2>3, <2>4, <2>6, EnergyRises
  <2> QED
    BY <2>1, <2>2, <2>5, <2>7
<1>9. Calm = Nat
  <2> HIDE DEF Calm
  <2>1. Calm \in SUBSET Nat
    BY DEF Calm
  <2> QED
    BY <1>7, <1>8, <2>1, ClosedNat
<1>10. n - 1 \in Calm
  <2> HIDE DEF Calm
  <2> QED
    BY <1>3, <1>9
<1> QED
  BY <1>3, <1>10

(* An entry that counts as stable was written with its energy, a low one.    *)
LEMMA StableIsCalm ==
  ASSUME HealingTyped, NEW i \in Healer!StableEntry(10)
  PROVE  /\ trajectory[i].place \in Healer!Place
         /\ Healer!E(trajectory[i].place) < 10
<1>1. i \in DOMAIN trajectory /\ Healer!EnergyOf(trajectory[i], 1000) < 10
  BY DEF Healer!StableEntry
<1>2. trajectory[i] \in HealingEntry
  BY <1>1 DEF HealingTyped, OfferTyped
<1>3. PICK k \in BOOLEAN : k = trajectory[i].known
  BY <1>2 DEF HealingEntry
<1>4. Healer!EnergyOf(trajectory[i], 1000)
        = IF k THEN Healer!E(trajectory[i].place) ELSE 1000
  BY <1>3 DEF Healer!EnergyOf
<1> QED
  BY <1>1, <1>2, <1>4 DEF HealingEntry

(* What a move of the manifold leaves. *)
LEMMA MoveKeepsTypes ==
  ASSUME HealingTyped, NEW ps \in Seq(Healer!Place), ps # <<>>,
         Healer!Last(ps) \in Healer!Place,
         Healer!Move(ps), OfferTyped'
  PROVE  HealingTyped'
<1>1. trajectory' \in Seq(HealingEntry)
  BY RecordedEntries DEF HealingTyped, OfferTyped, Healer!Move
<1> QED
  BY <1>1 DEF HealingTyped, OfferTyped, Healer!Move

LEMMA ConvergeKeepsTypes ==
  ASSUME HealingTyped, Healer!Converge, OfferTyped'
  PROVE  /\ HealingTyped'
         /\ Healer!Overshoots(spot) \/ Healer!E(spot') <= Healer!E(spot)
<1>1. spot \in Healer!Place
  BY DEF HealingTyped, OfferTyped
<1>2. Healer!E(spot) \in Nat
  BY <1>1, EnergyRises
<1>3. CASE UNCHANGED Healer!bubble
  BY <1>2, <1>3 DEF HealingTyped, OfferTyped, Healer!bubble
<1>4. CASE \E ps \in Healer!Descents : Healer!Move(ps)
  <2>1. PICK ps \in Healer!Descents : Healer!Move(ps)
    BY <1>4
  <2>2. /\ ps \in Seq(Healer!Place) /\ ps # <<>>
        /\ Healer!Last(ps) \in Healer!Place
        /\ Healer!Overshoots(spot) \/ Healer!E(Healer!Last(ps)) <= Healer!E(spot)
    BY DescentsGoDown
  <2>3. spot' = Healer!Last(ps)
    BY <2>1 DEF Healer!Move
  <2> QED
    BY <2>1, <2>2, <2>3, MoveKeepsTypes
<1> QED
  BY <1>3, <1>4 DEF Healer!Converge, Healer!Overflow

LEMMA ApplyKeepsTypes ==
  ASSUME HealingTyped, NEW p \in Healer!Place, Healer!ApplyVector(p), OfferTyped'
  PROVE  HealingTyped'
<1>1. [place |-> p, known |-> FALSE] \in HealingEntry
  BY DEF HealingEntry
<1> QED
  BY <1>1 DEF HealingTyped, OfferTyped, Healer!ApplyVector

LEMMA ReplayKeepsTypes ==
  ASSUME HealingTyped, Healer!Replay, OfferTyped'
  PROVE  /\ HealingTyped'
         /\ \/ Healer!E(spot') < 10
            \/ Healer!E(spot') <= Healer!E(spot)
            \/ Healer!StableEntry(10) = {} /\ Healer!Overshoots(spot)
<1>1. spot \in Healer!Place
  BY DEF HealingTyped, OfferTyped
<1>2. Healer!E(spot) \in Nat
  BY <1>1, EnergyRises
<1>3. CASE UNCHANGED Healer!bubble
  BY <1>2, <1>3 DEF HealingTyped, OfferTyped, Healer!bubble
<1>4. CASE Healer!StableEntry(10) = {} /\ Healer!Converge
  BY <1>4, ConvergeKeepsTypes
<1>5. CASE /\ \E i \in Healer!StableEntry(10) : spot' = trajectory[i].place
           /\ UNCHANGED <<state, trajectory, vector>>
  <2>1. PICK i \in Healer!StableEntry(10) : spot' = trajectory[i].place
    BY <1>5
  <2>2. spot' \in Healer!Place /\ Healer!E(spot') < 10
    BY <2>1, StableIsCalm
  <2> QED
    BY <1>5, <2>2 DEF HealingTyped, OfferTyped
<1> QED
  BY <1>3, <1>4, <1>5 DEF Healer!Replay

LEMMA GenerateKeepsTypes ==
  ASSUME HealingTyped, Healer!GenerateNewState, OfferTyped'
  PROVE  /\ HealingTyped'
         /\ vector = Healer!NoVector =>
              Healer!E(spot') <= Healer!E(spot) \/ Healer!E(spot') < 10
<1>1. spot \in Healer!Place
  BY DEF HealingTyped, OfferTyped
<1>2. Healer!E(spot) \in Nat
  BY <1>1, EnergyRises
<1>3. CASE vector # Healer!NoVector
  <2>1. vector \in Healer!Place /\ Healer!ApplyVector(vector)
    BY <1>3 DEF HealingTyped, OfferTyped, Healer!GenerateNewState
  <2> QED
    BY <1>3, <2>1, ApplyKeepsTypes
<1>4. CASE vector = Healer!NoVector /\ UNCHANGED <<spot, state, trajectory, vector>>
  BY <1>2, <1>4 DEF HealingTyped, OfferTyped
<1>5. CASE /\ \E i \in Healer!StableEntry(10) : spot' = trajectory[i].place
           /\ UNCHANGED <<state, trajectory, vector>>
  <2>1. PICK i \in Healer!StableEntry(10) : spot' = trajectory[i].place
    BY <1>5
  <2>2. spot' \in Healer!Place /\ Healer!E(spot') < 10
    BY <2>1, StableIsCalm
  <2> QED
    BY <1>5, <2>2 DEF HealingTyped, OfferTyped
<1> QED
  BY <1>3, <1>4, <1>5 DEF Healer!GenerateNewState

(* The trajectory and the vectors hold places only, whatever is called.      *)
LEMMA HealingSteps ==
  ASSUME HealingTyped, [Healer!Next]_(Healer!vars)
  PROVE  HealingTyped'
<1>1. CASE UNCHANGED Healer!vars
  BY <1>1 DEF HealingTyped, OfferTyped, Healer!vars, Healer!bubble
<1>0. UNCHANGED offered => OfferTyped'
  BY DEF HealingTyped, OfferTyped
<1>2. CASE Healer!StepManifold /\ UNCHANGED offered
  <2>0. CASE UNCHANGED Healer!bubble
    BY <1>2, <2>0 DEF HealingTyped, OfferTyped, Healer!bubble
  <2> SUFFICES ASSUME \E p \in Healer!Below(spot) : Healer!Move(<<p>>) PROVE HealingTyped'
    BY <1>2, <2>0 DEF Healer!StepManifold, Healer!Overflow
  <2>1. PICK p \in Healer!Below(spot) : Healer!Move(<<p>>)
    OBVIOUS
  <2>2. spot \in Healer!Place
    BY DEF HealingTyped, OfferTyped
  <2>3. p \in Healer!Place
    BY <2>2, EnergyRises
  <2>4. <<p>> \in Seq(Healer!Place) /\ <<p>> # <<>> /\ Healer!Last(<<p>>) = p
    BY <2>3 DEF Healer!Last
  <2> QED
    BY <1>0, <1>2, <2>1, <2>3, <2>4, MoveKeepsTypes
<1>3. CASE Healer!Converge /\ UNCHANGED offered
  BY <1>0, <1>3, ConvergeKeepsTypes
<1>4. CASE Healer!Replay /\ UNCHANGED offered
  BY <1>0, <1>4, ReplayKeepsTypes
<1>5. CASE Healer!GenerateNewState /\ UNCHANGED offered
  BY <1>0, <1>5, GenerateKeepsTypes
<1>6. CASE /\ \E p \in Shocks : Healer!Shock(p) \/ Healer!CopyNeighbour(p)
           /\ UNCHANGED offered
  <2>1. Shocks \subseteq Healer!Place
    BY LocalAssumption DEF Healer!HealingAssumption, Healer!Place
  <2> QED
    BY <1>6, <2>1 DEF HealingTyped, OfferTyped, Healer!Shock, Healer!CopyNeighbour
<1>7. CASE offered # Healer!NoVector /\ Healer!ApplyVector(offered) /\ UNCHANGED offered
  <2>1. offered \in Healer!Place
    BY <1>7 DEF HealingTyped, OfferTyped
  <2> QED
    BY <1>0, <1>7, <2>1, ApplyKeepsTypes
<1>8. CASE Healer!BuildVector
  BY <1>8 DEF HealingTyped, OfferTyped, Healer!BuildVector, Healer!bubble
<1> QED
  BY <1>1, <1>2, <1>3, <1>4, <1>5, <1>6, <1>7, <1>8 DEF Healer!Next, Healer!Call

LEMMA HealingStays == Healer!Spec => []HealingTyped
<1>1. Healer!Init => HealingTyped
  BY DEF Healer!Init, HealingTyped, OfferTyped
<1> QED
  BY <1>1, HealingSteps, PTL DEF Healer!Spec

(* What the guard makes of a trajectory that ends with the place the bubble  *)
(* is at: the first two thresholds are the same, and a collapse ends above.  *)
GuardIsPlain ==
  HealingTyped /\ trajectory # <<>> /\ trajectory[Len(trajectory)] = Healer!Entry(spot)
    => (Healer!ShouldRecover <=> Healer!E(spot) > 100)

LEMMA NoAlarmOfItsOwn == GuardIsPlain
<1> SUFFICES ASSUME HealingTyped, trajectory # <<>>,
                    trajectory[Len(trajectory)] = Healer!Entry(spot)
             PROVE  Healer!ShouldRecover <=> Healer!E(spot) > 100
  BY DEF GuardIsPlain
<1> DEFINE n == Len(trajectory)
           last == Healer!EnergyOf(trajectory[n], 0)
           older == Healer!EnergyOf(trajectory[n - 4], 0)
<1>1. Healer!E(spot) \in Nat
  BY EnergyRises DEF HealingTyped, OfferTyped
<1>2. last = Healer!E(spot)
  BY DEF Healer!Entry, Healer!EnergyOf
<1>3. ~Healer!DetectDeviation
  <2>1. Healer!Last(trajectory) = trajectory[n]
    BY DEF Healer!Last
  <2>2. Healer!Gap(last, Healer!E(spot)) = 0
    BY <1>1, <1>2 DEF Healer!Gap
  <2> QED
    BY <2>1, <2>2 DEF Healer!DetectDeviation
<1>4. n >= 5 => older \in Nat
  <2> SUFFICES ASSUME n >= 5 PROVE older \in Nat
    OBVIOUS
  <2>1. trajectory[n - 4] \in HealingEntry
    <3>1. n \in Nat /\ n - 4 \in 1 .. n /\ DOMAIN trajectory = 1 .. n
      BY DEF HealingTyped, OfferTyped
    <3> QED
      BY <3>1 DEF HealingTyped, OfferTyped
  <2>2. PICK k \in BOOLEAN : k = trajectory[n - 4].known
    BY <2>1 DEF HealingEntry
  <2>3. PICK p \in Healer!Place : p = trajectory[n - 4].place
    BY <2>1 DEF HealingEntry
  <2>4. older = IF k THEN Healer!E(p) ELSE 0
    BY <2>2, <2>3 DEF Healer!EnergyOf
  <2>5. Healer!E(p) \in Nat
    BY EnergyRises
  <2> QED
    BY <2>4, <2>5
<1>5. Healer!DetectCollapse => Healer!E(spot) > 100
  <2>1. Healer!DetectCollapse => n >= 5 /\ last - older > 5 * 500
    BY DEF Healer!DetectCollapse
  <2> HIDE DEF n, last, older
  <2> QED
    BY <1>1, <1>2, <1>4, <2>1
<1> QED
  BY <1>3, <1>5 DEF Healer!ShouldRecover

(* After a step of the manifold the guard asks for recovery exactly when the *)
(* energy is over its threshold (step_manifold, should_recover), for any     *)
(* bands of energy, limit of the trajectory and calls before.                *)
THEOREM GuardFollowsEnergyHolds == Healer!Spec => GuardFollowsEnergy
<1>0. GuardIsPlain'
  BY NoAlarmOfItsOwn, PTL
<1>1. ASSUME HealingTyped, [Healer!Next]_(Healer!vars)
      PROVE  [Healer!StepManifold => (Healer!ShouldRecover' <=> Healer!E(spot') > 100)]_(Healer!vars)
  <2> SUFFICES ASSUME Healer!StepManifold
               PROVE  Healer!ShouldRecover' <=> Healer!E(spot') > 100
    OBVIOUS
  <2>0. CASE Healer!Overflow
    <3>1. spot' = spot /\ Healer!E(spot) > 100
      <4>1. Healer!E(spot) \in Nat
        BY <1>1, EnergyRises DEF HealingTyped
      <4>2. Overshoot \in Nat /\ Overshoot > 100
        BY LocalAssumption DEF Healer!HealingAssumption
      <4>3. spot' = spot /\ Healer!E(spot) >= Overshoot
        BY <2>0 DEF Healer!Overflow, Healer!Overshoots, Healer!bubble
      <4> QED
        BY <4>1, <4>2, <4>3
    <3>2. Healer!ShouldRecover'
      BY <3>1 DEF Healer!ShouldRecover
    <3> QED
      BY <3>1, <3>2
  <2> SUFFICES ASSUME \E p \in Healer!Below(spot) : Healer!Move(<<p>>)
               PROVE  Healer!ShouldRecover' <=> Healer!E(spot') > 100
    BY <2>0 DEF Healer!StepManifold
  <2>1. PICK p \in Healer!Below(spot) : Healer!Move(<<p>>)
    OBVIOUS
  <2>2. p \in Healer!Place
    BY <1>1, EnergyRises DEF HealingTyped
  <2>3. /\ <<p>> \in Seq(Healer!Place) /\ <<p>> # <<>> /\ Healer!Last(<<p>>) = p
        /\ <<p>>[Len(<<p>>)] = p
    BY <2>2 DEF Healer!Last
  <2>4. spot' = p /\ trajectory' = Healer!Recorded(<<p>>)
    BY <2>1, <2>3 DEF Healer!Move
  <2>5. trajectory' \in Seq(HealingEntry) /\ Len(trajectory') > 0
        /\ trajectory'[Len(trajectory')] = Healer!Entry(p)
    BY <1>1, <2>3, <2>4, RecordedEntries DEF HealingTyped
  <2>6. trajectory' # <<>>
    BY <2>5
  <2>7. HealingTyped'
    BY <1>1, HealingSteps
  <2>8. trajectory'[Len(trajectory')] = Healer!Entry(spot')
    BY <2>4, <2>5
  <2> QED
    BY <1>0, <2>6, <2>7, <2>8 DEF GuardIsPlain
<1> QED
  BY <1>1, HealingStays, PTL DEF Healer!Spec, GuardFollowsEnergy, Healer!GuardFollowsEnergy

(* A repair that draws on the past of a bubble, and not on a stored vector,  *)
(* leaves it with no more energy, or with what counts as stable              *)
(* (replay_to_stability, generate_new_state), whatever was done to it before; *)
(* only a replay that finds nothing to go back to, from where the steps of    *)
(* the manifold overshoot, is excepted.                                     *)
THEOREM RepairNeverHarmsHolds == Healer!Spec => RepairNeverHarms
<1> DEFINE Harmless == \/ Healer!E(spot') < 10
                       \/ Healer!E(spot') <= Healer!E(spot)
                       \/ Healer!StableEntry(10) = {} /\ Healer!Overshoots(spot)
<1>1. ASSUME HealingTyped, [Healer!Next]_(Healer!vars)
      PROVE  [Healer!Repair => Harmless]_(Healer!vars)
  <2> SUFFICES ASSUME Healer!Repair PROVE Harmless
    OBVIOUS
  <2>1. OfferTyped'
    BY <1>1, HealingSteps DEF HealingTyped
  <2>2. CASE Healer!Replay
    BY <1>1, <2>1, <2>2, ReplayKeepsTypes
  <2>3. CASE vector = Healer!NoVector /\ Healer!GenerateNewState
    BY <1>1, <2>1, <2>3, GenerateKeepsTypes
  <2> QED
    BY <2>2, <2>3 DEF Healer!Repair
<1> QED
  BY <1>1, HealingStays, PTL DEF Healer!Spec, RepairNeverHarms, Healer!RepairNeverHarms

-----------------------------------------------------------------------------
(* The evolution loop. *)

Metrics ==
  [energyCost : Nat \ {0}, stability : Nat, phaseError : Nat, adaptability : Nat]

Decision == [proposal : Mutation, metrics : Metrics, decision : BOOLEAN, fitness : Int]

Release == [proposal : Mutation, fitness : Int]

LoopTyped ==
  /\ memory \in Seq(Decision)
  /\ releases \in Seq(Release)
  /\ stats \in [accepted : Nat, rejected : Nat, average : Int]
  /\ cycles \in Nat

LEMMA SimulationTypes ==
  ASSUME NEW s \in State, NEW m \in Loop!Simulations(s)
  PROVE  m \in Metrics /\ Loop!Fitness(m) \in Int
<1>1. /\ s.stability \in Nat /\ s.energy \in Nat /\ s.energy >= 2 /\ s.phaseError \in Nat
      /\ Adaptability \subseteq Nat
  <2>1. s \in [stability : Nat, energy : Nat \ {0, 1}, phaseError : Nat]
    BY LocalAssumption DEF Loop!EvolutionAssumption
  <2> QED
    BY <2>1, LocalAssumption DEF Loop!EvolutionAssumption
<1>2. /\ (s.energy * 85) \div 100 \in Nat \ {0}
      /\ Loop!Least(1000, (s.stability * 105) \div 100) \in Nat
      /\ (s.phaseError * 8) \div 10 \in Nat
  BY <1>1 DEF Loop!Least
<1>3. m \in Metrics
  <2>1. PICK a \in Nat \ {0}, b \in Nat, c \in Nat :
          /\ a = (s.energy * 85) \div 100
          /\ b = Loop!Least(1000, (s.stability * 105) \div 100)
          /\ c = (s.phaseError * 8) \div 10
    BY <1>2
  <2>2. m \in [energyCost : {a}, stability : {b}, phaseError : {c}, adaptability : Adaptability]
    BY <2>1 DEF Loop!Simulations
  <2> QED
    BY <1>1, <2>2 DEF Metrics
<1>4. /\ m.energyCost \in Nat \ {0} /\ m.stability \in Nat /\ m.adaptability \in Nat
      /\ Loop!Distance(m.stability, m.adaptability) \in Int
  BY <1>3 DEF Metrics, Loop!Distance
<1>5. 300000 \div m.energyCost \in Int
  BY <1>4
<1>6. (30 * m.stability + 20 * m.adaptability
         + 20 * (1000 - Loop!Distance(m.stability, m.adaptability))) \div 100 \in Int
  BY <1>4
<1>7. Loop!Fitness(m) \in Int
  BY <1>5, <1>6 DEF Loop!Fitness
<1> QED
  BY <1>3, <1>7

(* What recording a decision does to the memory and to the counts.           *)
LEMMA RecordedDecision ==
  ASSUME LoopTyped, NEW p \in Mutation, NEW m \in Metrics, NEW d \in BOOLEAN, NEW f \in Int,
         Loop!RecordDecision(p, m, d, f)
  PROVE  /\ memory' \in Seq(Decision) /\ Len(memory') = Len(memory) + 1
         /\ \A i \in 1 .. Len(memory) : memory'[i] = memory[i]
         /\ memory'[Len(memory) + 1]
              = [proposal |-> p, metrics |-> m, decision |-> d, fitness |-> f]
         /\ stats' \in [accepted : Nat, rejected : Nat, average : Int]
         /\ stats'.accepted = stats.accepted + (IF d THEN 1 ELSE 0)
         /\ stats'.rejected = stats.rejected + (IF d THEN 0 ELSE 1)
<1>1. [proposal |-> p, metrics |-> m, decision |-> d, fitness |-> f] \in Decision
  BY DEF Decision
<1>2. memory' = Append(memory, [proposal |-> p, metrics |-> m, decision |-> d, fitness |-> f])
  BY DEF Loop!RecordDecision
<1>3. /\ memory' \in Seq(Decision) /\ Len(memory') = Len(memory) + 1
      /\ \A i \in 1 .. Len(memory) : memory'[i] = memory[i]
      /\ memory'[Len(memory) + 1]
           = [proposal |-> p, metrics |-> m, decision |-> d, fitness |-> f]
  BY <1>1, <1>2 DEF LoopTyped
<1>4. stats \in [accepted : Nat, rejected : Nat, average : Int]
  BY DEF LoopTyped
<1>5. Loop!Averaged(f) \in Int
  <2>1. PICK total \in Nat \ {0} : total = stats.accepted + 1 + stats.rejected
    BY <1>4
  <2>2. PICK x \in Int : x = stats.average * (total - 1) + f
    BY <1>4, <2>1
  <2>3. x \div total \in Int
    BY <2>1, <2>2
  <2> QED
    BY <2>1, <2>2, <2>3 DEF Loop!Averaged
<1>6. CASE d
  <2>1. PICK a \in Int : a = Loop!Averaged(f)
    BY <1>5
  <2>2. stats' = [stats EXCEPT !.accepted = stats.accepted + 1, !.average = a]
    BY <1>6, <2>1 DEF Loop!RecordDecision
  <2>3. stats' = [accepted |-> stats.accepted + 1, rejected |-> stats.rejected, average |-> a]
    BY <1>4, <2>2
  <2>4. /\ stats' \in [accepted : Nat, rejected : Nat, average : Int]
        /\ stats'.accepted = stats.accepted + 1 /\ stats'.rejected = stats.rejected
    BY <1>4, <2>1, <2>3
  <2> QED
    BY <1>3, <1>4, <1>6, <2>4
<1>7. CASE ~d
  <2>1. stats' = [stats EXCEPT !.rejected = stats.rejected + 1]
    BY <1>7 DEF Loop!RecordDecision
  <2>2. /\ stats' \in [accepted : Nat, rejected : Nat, average : Int]
        /\ stats'.accepted = stats.accepted /\ stats'.rejected = stats.rejected + 1
    BY <1>4, <2>1
  <2> QED
    BY <1>3, <1>4, <1>7, <2>2
<1> QED
  BY <1>6, <1>7

(* The module of the loop and this one count alike. *)
LEMMA SameCount ==
  ASSUME NEW S
  PROVE  Loop!Cardinality(S) = Cardinality(S)
  BY DEF Loop!Cardinality, Cardinality

(* Every accepted decision has its place among the releases.                 *)
LEMMA PlacesAreReleases ==
  ASSUME LoopTyped, Loop!ReleasesAreRecorded
  PROVE  /\ IsFiniteSet(Loop!Accepted) /\ Loop!Accepted \subseteq 1 .. Len(memory)
         /\ \A i \in Loop!Accepted : Loop!Place(i) \in 1 .. Len(releases)
<1>1. Len(memory) \in Nat /\ DOMAIN memory = 1 .. Len(memory)
  BY DEF LoopTyped
<1>2. IsFiniteSet(1 .. Len(memory))
  BY <1>1, FS_Interval
<1>3. Loop!Accepted \subseteq 1 .. Len(memory)
  BY <1>1 DEF Loop!Accepted
<1>4. IsFiniteSet(Loop!Accepted)
  BY <1>2, <1>3, FS_Subset
<1>5. ASSUME NEW i \in Loop!Accepted PROVE Loop!Place(i) \in 1 .. Len(releases)
  <2> DEFINE upto == {j \in Loop!Accepted : j <= i}
  <2>1. upto \subseteq Loop!Accepted
    OBVIOUS
  <2>2. IsFiniteSet(upto) /\ Cardinality(upto) <= Cardinality(Loop!Accepted)
        /\ Cardinality(upto) \in Nat
    <3> HIDE DEF upto
    <3> QED
      BY <1>4, <2>1, FS_Subset, FS_CardinalityType
  <2>3. i \in upto
    BY <1>1, <1>3
  <2>4. Cardinality(upto) # 0
    <3> HIDE DEF upto
    <3> QED
      BY <2>2, <2>3, FS_EmptySet
  <2>5. Len(releases) = Cardinality(Loop!Accepted)
    BY SameCount DEF Loop!ReleasesAreRecorded
  <2>6. Loop!Place(i) = Cardinality(upto)
    BY SameCount DEF Loop!Place
  <2> HIDE DEF upto
  <2>7. Len(releases) \in Nat
    BY DEF LoopTyped
  <2> QED
    BY <2>2, <2>4, <2>5, <2>6, <2>7
<1> QED
  BY <1>3, <1>4, <1>5

(* A decision on a mutation, and a release when it is accepted: the places   *)
(* of the decisions before stay, and the new one has the last place.         *)
LEMMA StepKeepsPlaces ==
  ASSUME LoopTyped, Loop!ReleasesAreRecorded,
         NEW p \in Mutation, NEW m \in Metrics, NEW d \in BOOLEAN, NEW f \in Int,
         Loop!RecordDecision(p, m, d, f),
         IF d THEN Loop!Promote(p, f) ELSE UNCHANGED <<releases, active>>,
         d => m.stability >= 600 /\ m.phaseError <= 500,
         cycles' = cycles + 1
  PROVE  LoopTyped' /\ Loop!ReleasesAreRecorded'
<1> DEFINE n == Len(memory)
           r == Len(releases)
<1>1. /\ memory' \in Seq(Decision) /\ Len(memory') = n + 1
      /\ \A i \in 1 .. n : memory'[i] = memory[i]
      /\ memory'[n + 1] = [proposal |-> p, metrics |-> m, decision |-> d, fitness |-> f]
      /\ stats' \in [accepted : Nat, rejected : Nat, average : Int]
      /\ stats'.accepted = stats.accepted + (IF d THEN 1 ELSE 0)
      /\ stats'.rejected = stats.rejected + (IF d THEN 0 ELSE 1)
  BY RecordedDecision
<1>2. /\ n \in Nat /\ r \in Nat /\ DOMAIN memory = 1 .. n
      /\ stats.accepted \in Nat /\ stats.rejected \in Nat /\ cycles \in Nat
  BY DEF LoopTyped
<1>0. PICK k \in Nat : k = n + 1
  BY <1>2
<1>3. /\ r = Cardinality(Loop!Accepted) /\ active = r /\ stats.accepted = r
      /\ stats.accepted + stats.rejected = n /\ n = cycles
      /\ \A i \in Loop!Accepted :
           /\ releases[Loop!Place(i)].proposal = memory[i].proposal
           /\ releases[Loop!Place(i)].fitness = memory[i].fitness
           /\ memory[i].metrics.stability >= 600
           /\ memory[i].metrics.phaseError <= 500
  BY SameCount DEF Loop!ReleasesAreRecorded
<1>4. /\ releases' \in Seq(Release) /\ Len(releases') = r + (IF d THEN 1 ELSE 0)
      /\ \A i \in 1 .. r : releases'[i] = releases[i]
      /\ active' = r + (IF d THEN 1 ELSE 0)
      /\ d => releases'[r + 1] = [proposal |-> p, fitness |-> f]
  <2>1. CASE d
    <3>1. [proposal |-> p, fitness |-> f] \in Release
      BY DEF Release
    <3>2. releases' = Append(releases, [proposal |-> p, fitness |-> f]) /\ active' = r + 1
      BY <2>1 DEF Loop!Promote
    <3> QED
      BY <2>1, <3>1, <3>2 DEF LoopTyped
  <2>2. CASE ~d
    BY <1>3, <2>2 DEF LoopTyped
  <2> QED
    BY <2>1, <2>2
<1>5. LoopTyped'
  BY <1>1, <1>2, <1>4 DEF LoopTyped
<1>6. /\ IsFiniteSet(Loop!Accepted) /\ Loop!Accepted \subseteq 1 .. n
      /\ \A i \in Loop!Accepted : Loop!Place(i) \in 1 .. r
  BY PlacesAreReleases
<1>7. Loop!Accepted' = IF d THEN Loop!Accepted \union {k} ELSE Loop!Accepted
  <2>1. DOMAIN memory' = 1 .. k
    BY <1>0, <1>1
  <2>2. memory'[k].decision = d
    BY <1>0, <1>1
  <2>3. \A i \in 1 .. n : memory'[i].decision = memory[i].decision
    BY <1>0, <1>1
  <2>4. 1 .. k = (1 .. n) \union {k} /\ k \notin 1 .. n
    BY <1>0, <1>2
  <2>5. Loop!Accepted' = {i \in 1 .. k : memory'[i].decision}
    BY <2>1 DEF Loop!Accepted
  <2>6. Loop!Accepted = {i \in 1 .. n : memory[i].decision}
    BY <1>0, <1>2 DEF Loop!Accepted
  <2> HIDE DEF n
  <2>7. CASE d
    BY Zenon, <2>2, <2>3, <2>4, <2>5, <2>6, <2>7
  <2>8. CASE ~d
    BY Zenon, <2>2, <2>3, <2>4, <2>5, <2>6, <2>8
  <2> QED
    BY <2>7, <2>8
<1>8. \A i \in Loop!Accepted : Loop!Place(i)' = Loop!Place(i)
  <2> SUFFICES ASSUME NEW i \in Loop!Accepted PROVE Loop!Place(i)' = Loop!Place(i)
    OBVIOUS
  <2>1. i \in 1 .. n /\ ~(k <= i)
    BY <1>0, <1>2, <1>6
  <2>2. {j \in Loop!Accepted' : j <= i} = {j \in Loop!Accepted : j <= i}
    BY <1>7, <2>1
  <2> QED
    BY <2>2, SameCount DEF Loop!Place
<1>9. d => Loop!Place(k)' = r + 1
  <2> SUFFICES ASSUME d PROVE Loop!Place(k)' = r + 1
    OBVIOUS
  <2>1. {j \in Loop!Accepted' : j <= k} = Loop!Accepted \union {k}
    <3>1. Loop!Accepted' = Loop!Accepted \union {k}
      BY <1>7
    <3>2. \A j \in Loop!Accepted \union {k} : j <= k
      BY <1>0, <1>2, <1>6
    <3> QED
      BY <3>1, <3>2
  <2>2. k \notin Loop!Accepted
    BY <1>0, <1>2, <1>6
  <2>3. Cardinality(Loop!Accepted \union {k}) = r + 1
    BY <1>3, <1>6, <2>2, FS_AddElement
  <2> QED
    BY <2>1, <2>3, SameCount DEF Loop!Place
<1>10. Len(releases') = Cardinality(Loop!Accepted')
  <2>1. k \notin Loop!Accepted
    BY <1>0, <1>2, <1>6
  <2>2. Cardinality(Loop!Accepted \union {k}) = r + 1
    BY <1>3, <1>6, <2>1, FS_AddElement
  <2> QED
    BY <1>0, <1>2, <1>3, <1>4, <1>7, <2>2
<1>11. ASSUME NEW i \in Loop!Accepted'
       PROVE  /\ releases'[Loop!Place(i)'].proposal = memory'[i].proposal
              /\ releases'[Loop!Place(i)'].fitness = memory'[i].fitness
              /\ memory'[i].metrics.stability >= 600
              /\ memory'[i].metrics.phaseError <= 500
  <2>1. CASE i \in Loop!Accepted
    <3>1. i \in 1 .. n /\ Loop!Place(i) \in 1 .. r /\ Loop!Place(i)' = Loop!Place(i)
      BY <1>6, <1>8, <2>1
    <3>2. memory'[i] = memory[i] /\ releases'[Loop!Place(i)'] = releases[Loop!Place(i)]
      BY <1>0, <1>1, <1>4, <3>1
    <3> QED
      BY <1>3, <2>1, <3>2
  <2>2. CASE i \notin Loop!Accepted
    <3>1. d /\ i = k
      BY <1>7, <1>11, <2>2
    <3>2. Loop!Place(i)' = r + 1
      BY <1>9, <3>1
    <3> QED
      BY <1>0, <1>1, <1>4, <3>1, <3>2
  <2> QED
    BY <2>1, <2>2
<1>12. /\ active' = Len(releases') /\ stats'.accepted = Len(releases')
       /\ stats'.accepted + stats'.rejected = Len(memory') /\ Len(memory') = cycles'
  <2>1. CASE d
    BY <1>1, <1>2, <1>3, <1>4, <2>1
  <2>2. CASE ~d
    BY <1>1, <1>2, <1>3, <1>4, <2>2
  <2> QED
    BY <2>1, <2>2
<1> QED
  BY <1>5, <1>10, <1>11, <1>12, SameCount DEF Loop!ReleasesAreRecorded

(* What ReleaseManager published is what the core remembers as accepted, in  *)
(* the same order, and the counts say so, after any steps of step_evolution, *)
(* for any states, identifiers (repeated ones too) and simulations.          *)
THEOREM ReleasesAreRecordedHolds == Loop!Spec => []ReleasesAreRecorded
<1> DEFINE LInv == LoopTyped /\ Loop!ReleasesAreRecorded
<1>1. Loop!Init => LInv
  <2> SUFFICES ASSUME Loop!Init PROVE LInv
    OBVIOUS
  <2>1. /\ memory = <<>> /\ releases = <<>> /\ active = 0 /\ cycles = 0
        /\ stats = [accepted |-> 0, rejected |-> 0, average |-> 0]
    BY DEF Loop!Init
  <2>2. LoopTyped
    BY <2>1 DEF LoopTyped
  <2>3. Loop!Accepted = {} /\ Loop!Cardinality(Loop!Accepted) = 0
    <3>1. Loop!Accepted = {}
      BY <2>1 DEF Loop!Accepted
    <3> QED
      BY <3>1, SameCount, FS_EmptySet
  <2> QED
    BY <2>1, <2>2, <2>3 DEF Loop!ReleasesAreRecorded
<1>2. LInv /\ [Loop!Next]_(Loop!vars) => LInv'
  <2> SUFFICES ASSUME LInv, [Loop!Next]_(Loop!vars) PROVE LInv'
    OBVIOUS
  <2>1. CASE UNCHANGED Loop!vars
    <3>1. UNCHANGED <<releases, active, memory, stats, cycles>>
      BY <2>1 DEF Loop!vars
    <3>2. Loop!Accepted' = Loop!Accepted
      BY <3>1 DEF Loop!Accepted
    <3>3. \A i : Loop!Place(i)' = Loop!Place(i)
      BY <3>2 DEF Loop!Place
    <3>4. LoopTyped'
      BY <3>1 DEF LoopTyped
    <3> QED
      BY <3>1, <3>2, <3>3, <3>4 DEF Loop!ReleasesAreRecorded
  <2>2. CASE Loop!Next
    <3>1. PICK s \in State : Loop!StepEvolution(s)
      BY <2>2 DEF Loop!Next
    <3>2. PICK p \in Mutation, m \in Loop!Simulations(s) :
            Loop!Refuse(p, m) \/ Loop!Deploy(p, m) \/ Loop!Discard(p, m)
      BY <3>1 DEF Loop!StepEvolution
    <3>3. m \in Metrics /\ Loop!Fitness(m) \in Int /\ cycles' = cycles + 1
      BY <3>1, SimulationTypes DEF Loop!StepEvolution
    <3>4. CASE Loop!Refuse(p, m)
      <4>1. Loop!RecordDecision(p, m, FALSE, 0) /\ UNCHANGED <<releases, active>>
        BY <3>4 DEF Loop!Refuse
      <4>2. FALSE \in BOOLEAN /\ 0 \in Int
        OBVIOUS
      <4>3. IF FALSE THEN Loop!Promote(p, 0) ELSE UNCHANGED <<releases, active>>
        BY <4>1
      <4> QED
        BY <3>3, <4>1, <4>2, <4>3, StepKeepsPlaces
    <3>5. CASE Loop!Deploy(p, m)
      <4>1. /\ Loop!RecordDecision(p, m, TRUE, Loop!Fitness(m))
            /\ Loop!Promote(p, Loop!Fitness(m))
            /\ m.stability >= 600 /\ m.phaseError <= 500
        BY <3>5 DEF Loop!Deploy, Loop!Approved
      <4> QED
        BY <3>3, <4>1, StepKeepsPlaces
    <3>6. CASE Loop!Discard(p, m)
      <4>1. Loop!RecordDecision(p, m, FALSE, Loop!Fitness(m)) /\ UNCHANGED <<releases, active>>
        BY <3>6 DEF Loop!Discard
      <4> QED
        BY <3>3, <4>1, StepKeepsPlaces
    <3> QED
      BY <3>2, <3>4, <3>5, <3>6
  <2> QED
    BY <2>1, <2>2
<1>3. LInv => ReleasesAreRecorded
  BY DEF ReleasesAreRecorded
<1> QED
  BY <1>1, <1>2, <1>3, PTL DEF Loop!Spec

-----------------------------------------------------------------------------
(* Routing.                                                                 *)

Stop == Router!Node

LinkOf == [n \in Stop |-> Router!Linked(n)]
CostOf == [n \in Stop |-> [m \in Stop |-> Router!Cost(n, m)]]

NetworkTyped ==
  /\ delay \in [Router!Pair -> Delays \union {Far}]
  /\ bundle \in [Router!Pair -> 1 .. Most]
  /\ angle \in [Stop -> 0 .. Quarters - 1]
  /\ source \in Stop /\ target \in Stop /\ source # target

LEMMA RouterNumbers ==
  /\ {Stations, Quarters, Most, Scale, Far} \subseteq Nat \ {0} /\ Beta \in Nat
  /\ Delays \subseteq Nat
  /\ \A d \in Delays : Far > Stations * Scale * (d + (Beta + 1) * Quarters)
BY LocalAssumption DEF Router!RoutingAssumption

(* The library of PhaseRouting is that of this module. *)
LEMMA SameNumber == \A S : Router!Cardinality(S) = Cardinality(S)
BY DEF Router!Cardinality, Cardinality

LEMMA SameSum == \A f, S : Router!SumFunctionOnSet(f, S) = SumFunctionOnSet(f, S)
BY DEF Router!SumFunctionOnSet, SumFunctionOnSet, Router!FoldFunctionOnSet, FoldFunctionOnSet,
       Router!MapThenFoldSet, MapThenFoldSet

LEMMA StopsAreFinite ==
  /\ IsFiniteSet(Stop) /\ Cardinality(Stop) = Stations
  /\ \A S \in SUBSET Stop : IsFiniteSet(S) /\ Cardinality(S) \in 0 .. Stations
<1>1. Stations \in Nat \ {0}
  BY RouterNumbers
<1>2. IsFiniteSet(Stop) /\ Cardinality(Stop) = Stations
  BY <1>1, FS_Interval DEF Stop, Router!Node
<1> QED
  BY <1>1, <1>2, FS_Subset, FS_CardinalityType

LEMMA ApartBounds ==
  ASSUME NetworkTyped, NEW n \in Stop, NEW m \in Stop
  PROVE  Router!Apart(n, m) \in 0 .. Quarters
<1>1. Quarters \in Nat \ {0}
  BY RouterNumbers
<1>2. angle[n] - angle[m] \in Int
  BY <1>1 DEF NetworkTyped
<1>3. PICK d \in 0 .. Quarters - 1 : d = (angle[n] - angle[m]) % Quarters
  BY <1>1, <1>2
<1>4. Router!Min({d, Quarters - d}) \in {d, Quarters - d}
  <2>1. \E x \in {d, Quarters - d} : \A y \in {d, Quarters - d} : x <= y
    BY <1>1, <1>3
  <2> QED
    BY <2>1 DEF Router!Min
<1>5. Router!Apart(n, m) = Router!Min({d, Quarters - d})
  BY <1>3 DEF Router!Apart
<1> QED
  BY <1>1, <1>3, <1>4, <1>5

(* A link costs so little that a way through all stations costs less than Far. *)
LEMMA CostBounds ==
  ASSUME NetworkTyped, NEW n \in Stop, NEW m \in Router!Linked(n)
  PROVE  /\ m \in Stop /\ m # n
         /\ Router!Cost(n, m) \in Nat
         /\ Stations * Router!Cost(n, m) <= Far - 1
<1>0. m \in Stop /\ m # n /\ n \in Router!Linked(m) /\ {n, m} = {m, n}
  BY DEF Router!Linked, Stop
<1>1. {n, m} \in Router!Pair
  <2>1. IsFiniteSet({n}) /\ Cardinality({n}) = 1
    BY FS_Singleton
  <2>2. Cardinality({n} \union {m}) = 2
    BY <1>0, <2>1, FS_AddElement
  <2>3. {n} \union {m} = {n, m}
    OBVIOUS
  <2> QED
    BY <1>0, <2>2, <2>3, SameNumber DEF Router!Pair, Stop
<1>2. PICK d \in Delays : d = delay[{n, m}]
  <2>1. delay[{n, m}] < Far /\ Far \in Nat
    BY RouterNumbers DEF Router!Linked
  <2> QED
    BY <1>1, <2>1 DEF NetworkTyped
<1>3. PICK a \in 0 .. Quarters : a = Router!Apart(n, m)
  BY <1>0, ApartBounds
<1>4. PICK i \in Nat : i = Router!Incoherence(m) /\ i <= Scale * Quarters
  <2> DEFINE all == Stop \X (1 .. Most)
             ends == Router!Neighbours(m)
             far == [o \in all |-> Router!Apart(m, o[1])]
  <2>1. IsFiniteSet(ends) /\ ends \subseteq all /\ <<n, 1>> \in ends
    <3>1. Most \in Nat \ {0}
      BY RouterNumbers
    <3>2. ends \subseteq all
      BY DEF Router!Neighbours, Stop
    <3>3. IsFiniteSet(all)
      <4>1. IsFiniteSet(1 .. Most)
        BY <3>1, FS_Interval
      <4>2. IsFiniteSet(Stop)
        BY StopsAreFinite
      <4> QED
        BY ONLY <4>1, <4>2, FS_Product
    <3>4. bundle[{m, n}] \in 1 .. Most
      BY <1>0, <1>1 DEF NetworkTyped
    <3>5. <<n, 1>> \in ends
      BY <1>0, <3>1, <3>4 DEF Router!Neighbours, Stop
    <3> QED
      BY <3>2, <3>3, <3>5, FS_Subset
  <2>2. PICK c \in Nat \ {0} : c = Cardinality(ends)
    <3> HIDE DEF ends, all
    <3>1. Cardinality(ends) \in Nat /\ Cardinality(ends) # 0
      BY <2>1, FS_CardinalityType, FS_EmptySet
    <3> QED
      BY <3>1
  <2>3. PICK s \in 0 .. Quarters * c : s = SumFunctionOnSet(far, ends)
    <3>1. \A o \in ends : far[o] \in 0 .. Quarters
      <4> SUFFICES ASSUME NEW o \in ends PROVE far[o] \in 0 .. Quarters
        OBVIOUS
      <4>1. o \in all /\ o[1] \in Stop
        BY <2>1
      <4> QED
        BY <1>0, <4>1, ApartBounds
    <3>2. Quarters \in Nat
      BY RouterNumbers
    <3> HIDE DEF ends, far, all
    <3> QED
      BY <2>1, <2>2, <3>1, <3>2, SumBound
  <2>4. PICK q \in Nat : q = Scale \div c /\ c * q <= Scale
    BY RouterNumbers, DivBelow
  <2>5. Router!Incoherence(m) = s * q
    BY <2>2, <2>3, <2>4, SameSum, SameNumber DEF Router!Incoherence, Stop
  <2>6. s * q \in Nat /\ s * q <= Scale * Quarters
    <3>1. Quarters \in Nat /\ Scale \in Nat
      BY RouterNumbers
    <3>2. s \in Nat /\ Quarters * c \in Nat /\ s <= Quarters * c
      BY <2>3, <3>1
    <3>3. q * s \in Nat /\ q * s <= q * (Quarters * c) /\ s * q = q * s
      BY <3>2, TimesGrows
    <3>4. c * q \in Nat
      OBVIOUS
    <3>5. Quarters * (c * q) <= Quarters * Scale
      BY <2>4, <3>1, <3>4, TimesGrows
    <3>6. q * (Quarters * c) = Quarters * (c * q) /\ Quarters * Scale = Scale * Quarters
      BY <3>1
    <3> QED
      BY <3>3, <3>5, <3>6, <3>1
  <2> QED
    BY <2>5, <2>6
<1>5. Router!Cost(n, m) = Scale * (d + Beta * a) + i
  BY <1>2, <1>3, <1>4 DEF Router!Cost
<1>6. /\ Stations \in Nat /\ Scale \in Nat /\ Beta \in Nat /\ Quarters \in Nat /\ Far \in Nat
      /\ d \in Nat /\ Far > Stations * Scale * (d + (Beta + 1) * Quarters)
  BY <1>2, RouterNumbers
<1>7. a \in Nat /\ a <= Quarters
  BY <1>3, <1>6
<1>8. Beta * a \in Nat /\ Beta * Quarters \in Nat /\ Beta * a <= Beta * Quarters
  BY <1>6, <1>7, TimesGrows
<1>9. /\ Scale * (d + Beta * a) \in Nat
      /\ Scale * (d + Beta * a) <= Scale * (d + Beta * Quarters)
      /\ Scale * (d + Beta * Quarters) \in Nat
  BY <1>6, <1>8, TimesGrows
<1>10. Scale * (d + Beta * Quarters) + Scale * Quarters = Scale * (d + (Beta + 1) * Quarters)
  BY <1>6
<1>11. PICK cost \in Nat : cost = Router!Cost(n, m)
      /\ cost <= Scale * (d + (Beta + 1) * Quarters)
  <2>1. Scale * (d + Beta * a) + i \in Nat
    BY <1>9
  <2>2. Scale * Quarters \in Nat
    BY <1>6
  <2>3. Scale * (d + Beta * a) + i <= Scale * (d + Beta * Quarters) + Scale * Quarters
    BY <1>4, <1>9, <2>2
  <2> QED
    BY <1>5, <1>10, <2>1, <2>3
<1>12. Stations * cost <= Stations * (Scale * (d + (Beta + 1) * Quarters))
      /\ Stations * cost \in Nat
  <2>1. Scale * (d + (Beta + 1) * Quarters) \in Nat
    BY <1>6
  <2> QED
    BY <1>6, <1>11, <2>1, TimesGrows
<1>13. Stations * (Scale * (d + (Beta + 1) * Quarters))
      = Stations * Scale * (d + (Beta + 1) * Quarters)
  BY <1>6
<1>14. PICK all \in Nat : all = Stations * Scale * (d + (Beta + 1) * Quarters)
  BY <1>6
<1> QED
  BY <1>0, <1>6, <1>11, <1>12, <1>13, <1>14

LEMMA NetworkStays ==
  ASSUME UNCHANGED <<delay, bundle, angle>>
  PROVE  LinkOf' = LinkOf /\ CostOf' = CostOf
<1>1. \A n : Router!Linked(n)' = Router!Linked(n)
  BY DEF Router!Linked
<1>2. \A n, m : Router!Apart(n, m)' = Router!Apart(n, m)
  BY DEF Router!Apart
<1>3. \A n : Router!Incoherence(n)' = Router!Incoherence(n)
  BY <1>1, <1>2 DEF Router!Incoherence, Router!Neighbours
<1>4. \A n, m : Router!Cost(n, m)' = Router!Cost(n, m)
  BY <1>2, <1>3 DEF Router!Cost
<1> QED
  BY <1>1, <1>4 DEF LinkOf, CostOf

(* What the proofs below use of the network. *)
NetworkFacts ==
  /\ Stations \in Nat \ {0} /\ Far \in Nat \ {0}
  /\ source \in Stop /\ target \in Stop /\ source # target
  /\ LinkOf \in [Stop -> SUBSET Stop]
  /\ \A n \in Stop : \A m \in LinkOf[n] :
       m # n /\ CostOf[n][m] \in Nat /\ Stations * CostOf[n][m] <= Far - 1

LEMMA NetworkGives == NetworkTyped => NetworkFacts
<1> SUFFICES ASSUME NetworkTyped PROVE NetworkFacts
  OBVIOUS
<1>1. \A n \in Stop : \A m \in Router!Linked(n) :
        /\ m \in Stop /\ m # n /\ Router!Cost(n, m) \in Nat
        /\ Stations * Router!Cost(n, m) <= Far - 1
  BY CostBounds
<1> QED
  BY <1>1, RouterNumbers DEF NetworkTyped, NetworkFacts, LinkOf, CostOf

-----------------------------------------------------------------------------
(* The search. *)

SearchTyped ==
  /\ distance \in [Stop -> Nat]
  /\ before \in [Stop -> Stop \union {-1}]
  /\ queue \subseteq Nat \X Stop

(* Stops that a way was found to, and those that will not be popped again.   *)
Reached == {n \in Stop : n = source \/ before[n] # -1}
Settled == {n \in Reached : <<distance[n], n>> \notin queue}

SearchInv ==
  /\ distance[source] = 0 /\ before[source] = -1
  /\ \A n \in Stop : (n \in Reached => distance[n] < Far)
      /\ (n \notin Reached => distance[n] = Far)
  /\ \A n \in Reached \ {source} :
       /\ before[n] \in Settled /\ n \in LinkOf[before[n]]
       /\ distance[n] = distance[before[n]] + CostOf[before[n]][n]
  /\ \A e \in queue :
       /\ e[2] \in Reached /\ distance[e[2]] <= e[1]
       /\ \A n \in Settled : distance[n] <= e[1]
  /\ \A n \in Settled : \A m \in LinkOf[n] :
       m \in Reached /\ distance[m] <= distance[n] + CostOf[n][m]

(* The settled stops were settled one after the other, each after the stop   *)
(* before it; distances grow by less than Far / Stations for each.          *)
RankedBy(rank) ==
  /\ rank \in [Stop -> Nat]
  /\ \A n \in Settled : rank[n] < Cardinality(Settled)
  /\ \A n \in Stop \ Settled : rank[n] = Cardinality(Settled)
  /\ \A n \in Reached : Stations * distance[n] <= rank[n] * (Far - 1)
  /\ \A n \in Reached \ {source} : rank[before[n]] < rank[n]

Ranked == \E rank : RankedBy(rank)

Searching == NetworkTyped /\ SearchTyped /\ SearchInv /\ Ranked

LEMMA RouterStart == Router!Init => Searching
<1> SUFFICES ASSUME Router!Init PROVE Searching
  OBVIOUS
<1>0. Stations \in Nat \ {0} /\ Far \in Nat \ {0}
  BY RouterNumbers
<1>1. NetworkTyped
  <2>1. PICK e \in Ends : source = e[1] /\ target = e[2]
    BY DEF Router!Init
  <2>2. e \in Stop \X Stop /\ e[1] # e[2]
    BY LocalAssumption DEF Router!RoutingAssumption, Stop
  <2>3. source \in Stop /\ target \in Stop /\ source # target
    BY <2>1, <2>2
  <2> QED
    BY <2>3 DEF Router!Init, NetworkTyped, Stop
<1>2. /\ distance = [n \in Stop |-> IF n = source THEN 0 ELSE Far]
      /\ before = [n \in Stop |-> -1]
      /\ queue = {<<0, source>>}
      /\ source \in Stop
  BY <1>1 DEF Router!Init, Stop, NetworkTyped
<1>3. SearchTyped
  BY <1>0, <1>2 DEF SearchTyped
<1>4. Reached = {source}
  BY <1>2 DEF Reached
<1>5. Settled = {}
  BY <1>2, <1>4 DEF Settled
<1>6. SearchInv
  BY <1>0, <1>2, <1>4, <1>5 DEF SearchInv
<1>7. RankedBy([n \in Stop |-> 0])
  BY <1>0, <1>2, <1>4, <1>5, FS_EmptySet DEF RankedBy
<1> QED
  BY <1>1, <1>3, <1>6, <1>7 DEF Searching, Ranked

(* Leaving out an entry that was outrun. *)
LEMMA SkipKeeps ==
  ASSUME Searching, NEW e \in queue, e[1] > distance[e[2]],
         queue' = queue \ {e}, UNCHANGED <<delay, bundle, angle, source, target, distance,
             before>>
  PROVE  Searching'
<1>1. LinkOf' = LinkOf /\ CostOf' = CostOf
  BY NetworkStays
<1>2. Reached' = Reached
  BY DEF Reached
<1>3. \A n \in Reached : <<distance[n], n>> # e
  BY DEF Searching, SearchTyped
<1>4. Settled' = Settled
  BY <1>2, <1>3 DEF Settled
<1>5. NetworkTyped' /\ SearchTyped'
  BY DEF Searching, NetworkTyped, SearchTyped
<1>6. SearchInv'
  BY <1>1, <1>2, <1>4 DEF Searching, SearchInv
<1>7. Ranked'
  <2>1. PICK rank : RankedBy(rank)
    BY DEF Searching, Ranked
  <2>2. RankedBy(rank)'
    BY <1>2, <1>4, <2>1 DEF RankedBy
  <2> QED
    BY <2>2 DEF Ranked
<1> QED
  BY <1>5, <1>6, <1>7 DEF Searching

(* Settling the first entry of the queue. *)
LEMMA RelaxKeeps ==
  ASSUME Searching, NEW d \in Nat, NEW n \in Stop, Router!First(<<d, n>>),
         d <= distance[n], Router!Relax(d, n),
         UNCHANGED <<delay, bundle, angle, source, target>>
  PROVE  Searching'
<1>0. NetworkFacts /\ NetworkTyped /\ SearchTyped /\ SearchInv
  BY NetworkGives DEF Searching
<1>1. LinkOf' = LinkOf /\ CostOf' = CostOf
  BY NetworkStays
<1>2. <<d, n>> \in queue /\ \A o \in queue : d <= o[1]
  BY <1>0 DEF Router!First, SearchTyped
<1>3. d = distance[n] /\ n \in Reached /\ n \notin Settled /\ d < Far
  BY <1>0, <1>2 DEF SearchInv, SearchTyped, Settled
<1> DEFINE short == Router!Shorter(d, n)
<1>4. \A m : m \in short <=> m \in LinkOf[n] /\ d + CostOf[n][m] < distance[m]
  BY <1>0 DEF Router!Shorter, LinkOf, CostOf, NetworkFacts
<1>5. /\ distance' = [m \in Stop |-> IF m \in short THEN d + CostOf[n][m] ELSE distance[m]]
      /\ before' = [m \in Stop |-> IF m \in short THEN n ELSE before[m]]
      /\ queue' = (queue \ {<<d, n>>}) \union {<<d + CostOf[n][m], m>> : m \in short}
  BY <1>0, <1>4 DEF Router!Relax, Stop, CostOf, NetworkFacts
<1> HIDE DEF short
<1>6. /\ LinkOf[n] \in SUBSET Stop /\ short \in SUBSET Stop
      /\ \A m \in LinkOf[n] : m # n /\ CostOf[n][m] \in Nat
          /\ Stations * CostOf[n][m] <= Far - 1
      /\ \A m \in Stop : distance[m] \in Nat /\ before[m] \in Stop \union {-1}
  BY <1>0, <1>4 DEF NetworkFacts, SearchTyped
<1>7. \A m \in Settled : m \notin short /\ distance[m] <= d
  BY <1>0, <1>2, <1>4, <1>6 DEF SearchInv, Settled, Reached
<1>8. n \notin short /\ source \notin short
  <2>1. n \notin short
    BY <1>4, <1>6
  <2>2. ASSUME source \in short PROVE FALSE
    <3>1. d + CostOf[n][source] < 0 /\ CostOf[n][source] \in Nat
      BY <1>0, <1>4, <1>6, <2>2 DEF SearchInv
    <3> QED
      BY <3>1
  <2> QED
    BY <2>1, <2>2
<1>9. Reached' = Reached \union short
  <2>1. n # -1
    BY DEF Stop, Router!Node
  <2>2. \A m \in Stop : m \in Reached' <=> m \in Reached \/ m \in short
    BY <1>5, <2>1 DEF Reached
  <2>3. Reached' \subseteq Stop /\ Reached \subseteq Stop
    BY DEF Reached
  <2> QED
    BY <1>6, <2>2, <2>3
<1>10. Settled' = Settled \union {n}
  <2>1. ASSUME NEW m \in short PROVE m \notin Settled'
    BY <1>5, <1>6, <2>1 DEF Settled
  <2>2. ASSUME NEW m \in Stop, m \notin short, m # n
        PROVE  m \in Settled' <=> m \in Settled
    <3>1. distance'[m] = distance[m]
      BY <1>5, <2>2
    <3>2. <<distance[m], m>> \in queue' <=> <<distance[m], m>> \in queue
      BY <1>5, <2>2
    <3>3. m \in Reached' <=> m \in Reached
      BY <1>9, <2>2
    <3> QED
      BY <3>1, <3>2, <3>3 DEF Settled
  <2>3. n \in Settled'
    <3>1. distance'[n] = d
      BY <1>3, <1>5, <1>8
    <3>2. <<d, n>> \notin queue'
      BY <1>5, <1>8
    <3> QED
      BY <1>3, <1>9, <3>1, <3>2 DEF Settled
  <2>4. Settled \subseteq Stop /\ Settled' \subseteq Stop
    BY DEF Settled, Reached
  <2> QED
    BY <1>7, <2>1, <2>2, <2>3, <2>4
<1>11. NetworkTyped' /\ SearchTyped'
  <2>1. NetworkTyped'
    BY <1>0 DEF NetworkTyped
  <2>2. \A m \in short : d + CostOf[n][m] \in Nat
    BY <1>4, <1>6
  <2>3. distance' \in [Stop -> Nat] /\ before' \in [Stop -> Stop \union {-1}]
    BY <1>5, <1>6, <2>2
  <2>4. queue' \subseteq Nat \X Stop
    BY <1>0, <1>5, <1>6, <2>2 DEF SearchTyped
  <2> QED
    BY <2>1, <2>3, <2>4 DEF SearchTyped
<1>12. PICK rank : RankedBy(rank)
  BY DEF Searching, Ranked
<1>13. IsFiniteSet(Settled) /\ Cardinality(Settled) \in Nat
      /\ Cardinality(Settled) + 1 <= Stations
  <2>1. Settled \in SUBSET Stop /\ Settled \union {n} \in SUBSET Stop
    BY DEF Settled, Reached
  <2>2. IsFiniteSet(Settled) /\ Cardinality(Settled) \in 0 .. Stations
    BY <2>1, StopsAreFinite
  <2>3. Cardinality(Settled \union {n}) \in 0 .. Stations
    BY <2>1, StopsAreFinite
  <2>4. Cardinality(Settled \union {n}) = Cardinality(Settled) + 1
    BY <1>3, <2>2, FS_AddElement
  <2> QED
    BY <1>0, <2>2, <2>3, <2>4 DEF NetworkFacts
<1>14. PICK top \in Nat : top = Cardinality(Settled) /\ top + 1 <= Stations /\ rank[n] = top
  BY <1>3, <1>12, <1>13 DEF RankedBy
<1>15. \A m \in LinkOf[n] : Stations * (d + CostOf[n][m]) <= (top + 1) * (Far - 1)
      /\ d + CostOf[n][m] < Far
  <2> SUFFICES ASSUME NEW m \in LinkOf[n]
               PROVE  Stations * (d + CostOf[n][m]) <= (top + 1) * (Far - 1)
                    /\ d + CostOf[n][m] < Far
    OBVIOUS
  <2>1. PICK c \in Nat : c = CostOf[n][m] /\ Stations * c <= Far - 1
    BY <1>6
  <2>2. PICK f \in Nat : f = Far - 1
    BY <1>0 DEF NetworkFacts
  <2>3. Stations * d <= top * f
    BY <1>3, <1>12, <1>14, <2>2 DEF RankedBy
  <2>4. Stations \in Nat \ {0}
    BY <1>0 DEF NetworkFacts
  <2>5. /\ Stations * (d + c) = Stations * d + Stations * c /\ (top + 1) * f = top * f + f
        /\ Stations * d \in Nat /\ Stations * c \in Nat /\ top * f \in Nat
    BY <2>4
  <2>6. Stations * (d + c) <= (top + 1) * f
    BY <2>1, <2>2, <2>3, <2>5
  <2>7. (top + 1) * f <= Stations * f /\ (top + 1) * f \in Nat /\ Stations * f \in Nat
    <3>1. top + 1 \in Nat
      OBVIOUS
    <3> QED
      BY <1>14, <2>4, <3>1, TimesGrows
  <2>8. d + c <= f
    <3> SUFFICES ASSUME f + 1 <= d + c PROVE FALSE
      OBVIOUS
    <3>1. Stations * (f + 1) <= Stations * (d + c)
      BY <2>4, TimesGrows
    <3>2. Stations * (f + 1) = Stations * f + Stations
      BY <2>4
    <3> QED
      BY <2>4, <2>5, <2>6, <2>7, <3>1, <3>2
  <2>9. d + c < Far
    BY <1>0, <2>2, <2>8 DEF NetworkFacts
  <2> QED
    BY <2>1, <2>2, <2>6, <2>9
<1>16. LinkOf[n] \subseteq Reached'
  <2> SUFFICES ASSUME NEW m \in LinkOf[n], m \notin Reached' PROVE FALSE
    OBVIOUS
  <2>1. m \in Stop /\ m \notin short /\ m \notin Reached
    BY <1>6, <1>9
  <2>2. distance[m] = Far
    BY <1>0, <2>1 DEF SearchInv
  <2> QED
    BY <1>4, <1>15, <2>1, <2>2
<1>17. SearchInv'
  <2>1. distance'[source'] = 0 /\ before'[source'] = -1
    BY <1>0, <1>5, <1>8 DEF SearchInv, NetworkFacts
  <2>2. ASSUME NEW m \in Stop
        PROVE  (m \in Reached' => distance'[m] < Far)
             /\ (m \notin Reached' => distance'[m] = Far)
    <3>1. CASE m \in short
      BY <1>4, <1>5, <1>9, <1>15, <3>1
    <3>2. CASE m \notin short
      BY <1>0, <1>5, <1>9, <3>2 DEF SearchInv
    <3> QED
      BY <3>1, <3>2
  <2>3. ASSUME NEW m \in Reached' \ {source'}
        PROVE  /\ before'[m] \in Settled' /\ m \in LinkOf[before'[m]]
               /\ distance'[m] = distance'[before'[m]] + CostOf[before'[m]][m]
    <3>0. m \in Stop /\ m # source
      BY <2>3 DEF Reached
    <3>1. CASE m \in short
      <4>1. before'[m] = n /\ distance'[m] = d + CostOf[n][m] /\ distance'[n] = d
        BY <1>3, <1>5, <1>8, <3>0, <3>1
      <4> QED
        BY <1>4, <1>10, <3>1, <4>1
    <3>2. CASE m \notin short
      <4>1. m \in Reached \ {source}
        BY <1>9, <2>3, <3>0, <3>2
      <4>2. /\ before[m] \in Settled /\ m \in LinkOf[before[m]]
            /\ distance[m] = distance[before[m]] + CostOf[before[m]][m]
        BY <1>0, <4>1 DEF SearchInv
      <4>3. before[m] \in Stop /\ before[m] \notin short
        BY <1>7, <4>2 DEF Settled, Reached
      <4>4. before'[m] = before[m] /\ distance'[m] = distance[m]
            /\ distance'[before[m]] = distance[before[m]]
        BY <1>5, <3>0, <3>2, <4>3
      <4> QED
        BY <1>10, <4>2, <4>4
    <3> QED
      BY <3>1, <3>2
  <2>4. ASSUME NEW e \in queue'
        PROVE  /\ e[2] \in Reached' /\ distance'[e[2]] <= e[1]
               /\ \A m \in Settled' : distance'[m] <= e[1]
    <3>0. \A m \in Settled' : m \in Stop /\ distance'[m] <= d /\ distance'[m] \in Nat
      <4> SUFFICES ASSUME NEW m \in Settled'
            PROVE m \in Stop /\ distance'[m] <= d /\ distance'[m] \in Nat
        OBVIOUS
      <4>1. m \in Stop /\ m \notin short /\ distance[m] <= d
        BY <1>3, <1>7, <1>8, <1>10 DEF Settled, Reached
      <4> QED
        BY <1>5, <1>6, <4>1
    <3>1. CASE e \in queue
      <4>1. e[1] \in Nat /\ e[2] \in Reached /\ e[2] \in Stop /\ distance[e[2]] <= e[1]
            /\ d <= e[1]
        BY <1>0, <1>2, <3>1 DEF SearchInv, SearchTyped
      <4>2. distance'[e[2]] <= distance[e[2]] /\ distance'[e[2]] \in Nat
            /\ distance[e[2]] \in Nat
        <5>1. CASE e[2] \in short
          BY <1>4, <1>5, <1>6, <4>1, <5>1
        <5>2. CASE e[2] \notin short
          BY <1>5, <1>6, <4>1, <5>2
        <5> QED
          BY <5>1, <5>2
      <4>3. \A m \in Settled' : distance'[m] <= e[1]
        BY <3>0, <4>1
      <4> QED
        BY <1>9, <4>1, <4>2, <4>3
    <3>2. CASE e \notin queue
      <4>1. PICK m \in short : e = <<d + CostOf[n][m], m>>
        BY <1>5, <2>4, <3>2
      <4>2. m \in Stop /\ CostOf[n][m] \in Nat
        BY <1>4, <1>6
      <4>3. e[1] = d + CostOf[n][m] /\ e[2] = m /\ distance'[m] = d + CostOf[n][m]
        BY <1>5, <4>1, <4>2
      <4>4. \A x \in Settled' : distance'[x] <= e[1]
        BY <3>0, <4>2, <4>3
      <4> QED
        BY <1>9, <4>2, <4>3, <4>4
    <3> QED
      BY <3>1, <3>2
  <2>5. ASSUME NEW x \in Settled', NEW m \in LinkOf[x]
        PROVE  m \in Reached' /\ distance'[m] <= distance'[x] + CostOf[x][m]
    <3>0. x \in Stop /\ m \in Stop /\ CostOf[x][m] \in Nat
      BY <1>0, <2>5 DEF NetworkFacts, Settled, Reached
    <3>1. distance'[m] <= distance[m] /\ distance'[m] \in Nat /\ distance[m] \in Nat
      <4>1. CASE m \in short
        BY <1>4, <1>5, <1>6, <3>0, <4>1
      <4>2. CASE m \notin short
        BY <1>5, <1>6, <3>0, <4>2
      <4> QED
        BY <4>1, <4>2
    <3>2. CASE x \in Settled
      <4>1. m \in Reached /\ distance[m] <= distance[x] + CostOf[x][m]
        BY <1>0, <2>5, <3>2 DEF SearchInv
      <4>2. distance'[x] = distance[x]
        BY <1>5, <1>7, <3>0, <3>2
      <4> QED
        BY <1>6, <1>9, <3>0, <3>1, <4>1, <4>2
    <3>3. CASE x = n
      <4>1. m \in Reached'
        BY <1>16, <2>5, <3>3
      <4>2. distance'[n] = d
        BY <1>3, <1>5, <1>8
      <4>3. distance'[m] <= d + CostOf[n][m]
        <5>1. CASE m \in short
          BY <1>5, <3>0, <3>3, <5>1
        <5>2. CASE m \notin short
          BY <1>4, <1>6, <2>5, <3>0, <3>1, <3>3, <5>2
        <5> QED
          BY <5>1, <5>2
      <4> QED
        BY <3>3, <4>1, <4>2, <4>3
    <3> QED
      BY <1>10, <2>5, <3>2, <3>3
  <2> QED
    BY <1>1, <2>1, <2>2, <2>3, <2>4, <2>5 DEF SearchInv
<1>18. Ranked'
  <2>0. PICK next : next = [m \in Stop |-> IF m \in Settled' THEN rank[m] ELSE top + 1]
    OBVIOUS
  <2>1. Cardinality(Settled') = top + 1
    BY <1>3, <1>10, <1>13, <1>14, FS_AddElement
  <2>2. rank \in [Stop -> Nat] /\ next \in [Stop -> Nat]
    BY <1>12, <2>0 DEF RankedBy
  <2>3. \A m \in Settled' : m \in Stop /\ rank[m] <= top /\ rank[m] \in Nat /\ next[m] = rank[m]
    <3> SUFFICES ASSUME NEW m \in Settled'
                 PROVE  m \in Stop /\ rank[m] <= top /\ rank[m] \in Nat /\ next[m] = rank[m]
      OBVIOUS
    <3>1. m \in Stop /\ (m \in Settled \/ m = n)
      BY <1>10 DEF Settled, Reached
    <3>2. rank[m] <= top
      BY <1>12, <1>14, <2>2, <3>1 DEF RankedBy
    <3> QED
      BY <2>0, <2>2, <3>1, <3>2
  <2>4. \A m \in Stop \ Settled' : next[m] = top + 1 /\ rank[m] = top
    BY <1>10, <1>12, <1>14, <2>0 DEF RankedBy
  <2>5. ASSUME NEW m \in Reached' PROVE Stations * distance'[m] <= next[m] * (Far - 1)
    <3>0. m \in Stop
      BY <2>5 DEF Reached
    <3>1. CASE m \in short
      <4>1. m \notin Settled'
        BY <1>7, <1>8, <1>10, <3>1
      <4>2. distance'[m] = d + CostOf[n][m] /\ m \in LinkOf[n]
        BY <1>4, <1>5, <3>0, <3>1
      <4> QED
        BY <1>15, <2>4, <3>0, <4>1, <4>2
    <3>2. CASE m \notin short
      <4>1. distance'[m] = distance[m] /\ m \in Reached
        BY <1>5, <1>9, <2>5, <3>0, <3>2
      <4>2. Stations * distance[m] <= rank[m] * (Far - 1)
        BY <1>12, <4>1 DEF RankedBy
      <4>3. CASE m \in Settled'
        BY <2>3, <4>1, <4>2, <4>3
      <4>4. CASE m \notin Settled'
        <5>1. PICK f \in Nat : f = Far - 1
          BY <1>0 DEF NetworkFacts
        <5>2. top * f <= (top + 1) * f /\ top * f \in Nat /\ (top + 1) * f \in Nat
          <6>1. top + 1 \in Nat /\ top <= top + 1
            OBVIOUS
          <6> QED
            BY <6>1, TimesGrows
        <5>3. Stations * distance[m] \in Nat
          BY <1>0, <1>6, <3>0 DEF NetworkFacts
        <5> QED
          BY <2>4, <3>0, <4>1, <4>2, <4>4, <5>1, <5>2, <5>3
      <4> QED
        BY <4>3, <4>4
    <3> QED
      BY <3>1, <3>2
  <2>6. ASSUME NEW m \in Reached' \ {source'} PROVE next[before'[m]] < next[m]
    <3>0. m \in Stop /\ m # source
      BY <2>6 DEF Reached
    <3>1. CASE m \in short
      <4>1. before'[m] = n /\ m \notin Settled' /\ n \in Settled'
        BY <1>5, <1>7, <1>8, <1>10, <3>0, <3>1
      <4>2. next[n] <= top /\ next[n] \in Nat /\ next[m] = top + 1
        BY <2>3, <2>4, <3>0, <4>1
      <4> QED
        BY <4>1, <4>2
    <3>2. CASE m \notin short
      <4>1. before'[m] = before[m] /\ m \in Reached \ {source}
        BY <1>5, <1>9, <2>6, <3>0, <3>2
      <4>2. before[m] \in Settled /\ rank[before[m]] < rank[m]
        BY <1>0, <1>12, <4>1 DEF SearchInv, RankedBy
      <4>3. before[m] \in Settled' /\ next[before[m]] = rank[before[m]]
            /\ rank[before[m]] <= top
            /\ rank[before[m]] \in Nat
        BY <1>10, <2>3, <4>2
      <4>4. CASE m \in Settled'
        BY <2>3, <4>1, <4>2, <4>3, <4>4
      <4>5. CASE m \notin Settled'
        BY <2>4, <3>0, <4>1, <4>3, <4>5
      <4> QED
        BY <4>4, <4>5
    <3> QED
      BY <3>1, <3>2
  <2>7. RankedBy(next)'
    <3>1. \A m \in Settled' : next[m] < top + 1
      BY <2>3
    <3> QED
      BY <2>1, <2>2, <2>4, <2>5, <2>6, <3>1 DEF RankedBy
  <2> QED
    BY <2>7 DEF Ranked
<1> QED
  BY <1>11, <1>17, <1>18 DEF Searching

-----------------------------------------------------------------------------
(* The route. *)

Tracing ==
  /\ path \in Seq(Stop) /\ path # <<>> /\ path[Len(path)] = target
  /\ place \in {"search", "trace", "found", "none"}
  /\ place = "search" => path = <<target>>
  /\ place # "search" => queue = {} \/ Router!First(<<distance[target], target>>)
  /\ place = "none" => before[target] = -1
  /\ place \in {"trace", "found"} =>
       /\ \A i \in 1 .. Len(path) : path[i] \in Reached
       /\ \A i \in 1 .. Len(path) - 1 : path[i + 1] # source /\ path[i] = before[path[i + 1]]
  /\ place = "found" => before[path[1]] = -1

LEMMA TracingStarts == Router!Init => Tracing
<1> SUFFICES ASSUME Router!Init PROVE Tracing
  OBVIOUS
<1>1. NetworkTyped
  BY RouterStart DEF Searching
<1> QED
  BY <1>1 DEF Router!Init, Tracing, NetworkTyped

LEMMA TracingStays ==
  ASSUME Searching, Tracing, [Router!Next]_(Router!vars)
  PROVE  Tracing'
<1>0. SearchTyped /\ NetworkTyped /\ SearchInv
  BY DEF Searching
<1>1. CASE UNCHANGED Router!vars
  <2>1. Reached' = Reached
    BY <1>1 DEF Router!vars, Router!network, Reached
  <2>2. Router!First(<<distance[target], target>>)' <=> Router!First(<<distance[target], target>>)
    BY <1>1 DEF Router!vars, Router!network, Router!First
  <2> QED
    BY <1>1, <2>1, <2>2 DEF Router!vars, Router!network, Tracing
<1>2. CASE Router!Pop
  BY <1>2 DEF Router!Pop, Router!network, Tracing
<1>3. CASE Router!EndSearch
  <2>1. UNCHANGED <<delay, bundle, angle, source, target, distance, before, queue, path>>
    BY <1>3 DEF Router!EndSearch, Router!network
  <2>2. path = <<target>> /\ target \in Stop
    BY <1>0, <1>3 DEF Router!EndSearch, Tracing, NetworkTyped
  <2>3. queue = {} \/ Router!First(<<distance[target], target>>)
    BY <1>3 DEF Router!EndSearch
  <2>4. Router!First(<<distance[target], target>>)' <=> Router!First(<<distance[target], target>>)
    BY <2>1 DEF Router!First
  <2>5. before[target] # -1 => target \in Reached
    BY <2>2 DEF Reached
  <2>6. Reached' = Reached
    BY <2>1 DEF Reached
  <2>7. place' = IF before[target] = -1 THEN "none" ELSE "trace"
    BY <1>3 DEF Router!EndSearch
  <2> QED
    BY <2>1, <2>2, <2>3, <2>4, <2>5, <2>6, <2>7 DEF Tracing
<1>4. CASE Router!Trace
  <2>1. UNCHANGED <<delay, bundle, angle, source, target, distance, before,
        queue>> /\ place = "trace"
    BY <1>4 DEF Router!Trace, Router!network
  <2>2. Router!First(<<distance[target], target>>)' <=> Router!First(<<distance[target], target>>)
    BY <2>1 DEF Router!First
  <2>3. Reached' = Reached
    BY <2>1 DEF Reached
  <2>4. Head(path) = path[1] /\ path[1] \in Reached /\ path[1] \in Stop
    BY <2>1 DEF Tracing, Reached
  <2>5. CASE before[Head(path)] = -1
    <3>1. place' = "found" /\ path' = path
      BY <1>4, <2>5 DEF Router!Trace
    <3> QED
      BY <2>1, <2>2, <2>3, <2>4, <2>5, <3>1 DEF Tracing
  <2>6. CASE before[Head(path)] # -1
    <3>1. path' = <<before[path[1]]>> \o path /\ place' = "trace"
      BY <1>4, <2>1, <2>4, <2>6 DEF Router!Trace
    <3>2. path[1] # source
      BY <1>0, <2>4, <2>6 DEF SearchInv
    <3>3. before[path[1]] \in Reached /\ before[path[1]] \in Stop
      BY <1>0, <2>4, <3>2 DEF SearchInv, Settled, Reached
    <3>4. /\ path' \in Seq(Stop) /\ Len(path') = Len(path) + 1 /\ Len(path) \in Nat \ {0}
          /\ path'[1] = before[path[1]]
          /\ \A i \in 1 .. Len(path) : path'[i + 1] = path[i]
      BY <3>1, <3>3 DEF Tracing
    <3>5. path'[Len(path')] = target'
      BY <2>1, <3>4 DEF Tracing
    <3>6. ASSUME NEW i \in 1 .. Len(path') PROVE path'[i] \in Reached
      <4>1. CASE i = 1
        BY <3>3, <3>4, <4>1
      <4>2. CASE i # 1
        <5>1. i - 1 \in 1 .. Len(path) /\ (i - 1) + 1 = i
          BY <3>4, <4>2
        <5>2. path'[i] = path[i - 1]
          BY <3>4, <5>1
        <5> QED
          BY <2>1, <5>1, <5>2 DEF Tracing
      <4> QED
        BY <4>1, <4>2
    <3>7. ASSUME NEW i \in 1 .. Len(path') - 1
          PROVE  path'[i + 1] # source /\ path'[i] = before[path'[i + 1]]
      <4>0. i \in 1 .. Len(path) /\ path'[i + 1] = path[i]
        BY <3>4
      <4>1. CASE i = 1
        BY <3>2, <3>4, <4>0, <4>1
      <4>2. CASE i # 1
        <5>1. i - 1 \in 1 .. Len(path) - 1 /\ (i - 1) + 1 = i
          BY <3>4, <4>0, <4>2
        <5>2. path'[i] = path[i - 1]
          BY <3>4, <4>0, <5>1
        <5>3. path[(i - 1) + 1] # source /\ path[i - 1] = before[path[(i - 1) + 1]]
          BY <2>1, <5>1 DEF Tracing
        <5> QED
          BY <4>0, <5>1, <5>2, <5>3
      <4> QED
        BY <4>1, <4>2
    <3>8. path' # <<>>
      BY <3>4
    <3>9. queue' = {} \/ Router!First(<<distance[target], target>>)'
      BY <2>1, <2>2 DEF Tracing
    <3> QED
      BY <2>1, <2>3, <3>1, <3>4, <3>5, <3>6, <3>7, <3>8, <3>9 DEF Tracing
  <2> QED
    BY <2>5, <2>6
<1> QED
  BY <1>1, <1>2, <1>3, <1>4 DEF Router!Next

LEMMA SearchingStays ==
  ASSUME Searching, [Router!Next]_(Router!vars)
  PROVE  Searching'
<1>1. ASSUME UNCHANGED <<delay, bundle, angle, source, target, distance, before, queue>>
      PROVE  Searching'
  <2>1. LinkOf' = LinkOf /\ CostOf' = CostOf
    BY <1>1, NetworkStays
  <2>2. Reached' = Reached
    BY <1>1 DEF Reached
  <2>3. Settled' = Settled
    BY <1>1, <2>2 DEF Settled
  <2>4. NetworkTyped' /\ SearchTyped' /\ SearchInv'
    BY <1>1, <2>1, <2>2, <2>3 DEF Searching, NetworkTyped, SearchTyped, SearchInv
  <2>5. Ranked'
    <3>1. PICK rank : RankedBy(rank)
      BY DEF Searching, Ranked
    <3>2. RankedBy(rank)'
      BY <1>1, <2>2, <2>3, <3>1 DEF RankedBy
    <3> QED
      BY <3>2 DEF Ranked
  <2> QED
    BY <2>4, <2>5 DEF Searching
<1>2. CASE UNCHANGED Router!vars \/ Router!EndSearch \/ Router!Trace
  BY <1>1, <1>2 DEF Router!vars, Router!network, Router!EndSearch, Router!Trace
<1>3. CASE Router!Pop
  <2>1. PICK e \in queue : /\ Router!First(e)
                          /\ IF e[1] > distance[e[2]]
                               THEN queue' = queue \ {e} /\ UNCHANGED <<distance, before>>
                               ELSE Router!Relax(e[1], e[2])
    BY <1>3 DEF Router!Pop
  <2>2. UNCHANGED <<delay, bundle, angle, source, target>>
    BY <1>3 DEF Router!Pop, Router!network
  <2>3. CASE e[1] > distance[e[2]]
    BY <2>1, <2>2, <2>3, SkipKeeps
  <2>4. CASE ~(e[1] > distance[e[2]])
    <3>1. PICK d \in Nat, n \in Stop : e = <<d, n>>
      BY DEF Searching, SearchTyped
    <3>2. Router!First(<<d, n>>) /\ Router!Relax(d, n)
      BY <2>1, <2>4, <3>1
    <3>3. d <= distance[n]
      BY <2>4, <3>1 DEF Searching, SearchTyped
    <3> QED
      BY <2>2, <3>2, <3>3, RelaxKeeps
  <2> QED
    BY <2>3, <2>4
<1> QED
  BY <1>2, <1>3 DEF Router!Next

LEMMA RouterStays == Router!Spec => [](Searching /\ Tracing)
<1>1. Router!Init => Searching /\ Tracing
  BY RouterStart, TracingStarts
<1>2. Searching /\ Tracing /\ [Router!Next]_(Router!vars) => Searching' /\ Tracing'
  BY SearchingStays, TracingStays
<1> QED
  BY <1>1, <1>2, PTL DEF Router!Spec

(* The price of a way over links is the sum of their costs. *)
LinkedWay(way) ==
  /\ way \in Seq(Stop)
  /\ \A i \in 1 .. Len(way) - 1 : way[i + 1] \in LinkOf[way[i]]

Paid(way, i) == SumFunctionOnSet(Router!Legs(way), 1 .. i - 1)

LEMMA WaysArePaid ==
  ASSUME NetworkTyped, NEW way, LinkedWay(way), way # <<>>
  PROVE  /\ Paid(way, 1) = 0
         /\ \A i \in 1 .. Len(way) - 1 :
              /\ Paid(way, i) \in Nat /\ CostOf[way[i]][way[i + 1]] \in Nat
              /\ Paid(way, i + 1) = Paid(way, i) + CostOf[way[i]][way[i + 1]]
         /\ Router!Price(way) = Paid(way, Len(way))
<1> DEFINE legs == Router!Legs(way)
<1>0. Len(way) \in Nat \ {0} /\ \A i \in 1 .. Len(way) : way[i] \in Stop
  BY DEF LinkedWay
<1>1. \A i \in 1 .. Len(way) - 1 : /\ way[i] \in Stop /\ way[i + 1] \in Stop
                                  /\ way[i + 1] \in LinkOf[way[i]]
  BY <1>0 DEF LinkedWay
<1>2. \A i \in 1 .. Len(way) - 1 : legs[i] = CostOf[way[i]][way[i + 1]] /\ legs[i] \in Nat
  <2> SUFFICES ASSUME NEW i \in 1 .. Len(way) - 1
               PROVE  legs[i] = CostOf[way[i]][way[i + 1]] /\ legs[i] \in Nat
    OBVIOUS
  <2>1. CostOf[way[i]][way[i + 1]] \in Nat
    BY <1>1, NetworkGives DEF NetworkFacts
  <2>2. legs[i] = CostOf[way[i]][way[i + 1]]
    BY <1>1 DEF Router!Legs, CostOf
  <2> QED
    BY <2>1, <2>2
<1>3. Router!Price(way) = SumFunctionOnSet(legs, 1 .. Len(way) - 1)
  BY SameSum DEF Router!Price
<1>4. SumFunctionOnSet(legs, 1 .. 0) = 0
  <2>1. 1 .. 0 = {}
    OBVIOUS
  <2> HIDE DEF legs
  <2> QED
    BY <2>1, SumEmpty
<1> HIDE DEF legs
<1>5. PICK k \in Nat : k = Len(way) - 1
  BY <1>0
<1>6. \A i \in 1 .. k : legs[i] \in Nat
  BY <1>2, <1>5
<1>7. ASSUME NEW i \in 1 .. k
      PROVE  /\ SumFunctionOnSet(legs, 1 .. i - 1) \in Nat
             /\ SumFunctionOnSet(legs, 1 .. (i + 1) - 1)
                 = SumFunctionOnSet(legs, 1 .. i - 1) + legs[i]
  <2>1. (i + 1) - 1 = i
    OBVIOUS
  <2> QED
    BY <1>6, <2>1, SumOfFirst
<1>8. \A i : Paid(way, i) = SumFunctionOnSet(legs, 1 .. i - 1)
  BY DEF Paid, legs
<1>9. 1 - 1 = 0
  OBVIOUS
<1> QED
  BY <1>2, <1>3, <1>4, <1>5, <1>7, <1>8, <1>9

LEMMA WaysAreLinked ==
  ASSUME NetworkTyped, NEW way \in Router!Ways, Router!Open(way)
  PROVE  /\ LinkedWay(way) /\ way # <<>> /\ Len(way) \in Nat \ {0}
         /\ way[1] = source /\ way[Len(way)] = target
<1>1. PICK k \in 2 .. Stations : way \in [1 .. k -> Stop]
  BY DEF Router!Ways, Stop
<1>2. way \in Seq(Stop) /\ Len(way) = k /\ k \in Nat
  BY <1>1
<1>3. way[1] = source /\ way[Len(way)] = target
  BY DEF Router!Ways
<1>4. \A i \in 1 .. Len(way) - 1 : way[i] \in Stop /\ way[i + 1] \in Router!Linked(way[i])
  BY <1>1, <1>2 DEF Router!Open
<1>5. way # <<>>
  BY <1>1, <1>2
<1> QED
  BY <1>1, <1>2, <1>3, <1>4, <1>5 DEF LinkedWay, LinkOf

(* When the search is over nothing is cheaper than the distance of the        *)
(* target: a way leaves the settled stops at one that is no nearer.         *)
LEMMA NothingIsCheaper ==
  ASSUME Searching, Tracing, place # "search", NEW way \in Router!Ways, Router!Open(way)
  PROVE  distance[target] <= Router!Price(way)
<1>0. SearchTyped /\ NetworkTyped /\ SearchInv /\ NetworkFacts
  BY NetworkGives DEF Searching
<1>1. /\ LinkedWay(way) /\ way # <<>> /\ Len(way) \in Nat \ {0}
      /\ way[1] = source /\ way[Len(way)] = target
  BY <1>0, WaysAreLinked
<1>2. /\ Paid(way, 1) = 0
      /\ \A i \in 1 .. Len(way) - 1 :
           /\ Paid(way, i) \in Nat /\ CostOf[way[i]][way[i + 1]] \in Nat
           /\ Paid(way, i + 1) = Paid(way, i) + CostOf[way[i]][way[i + 1]]
      /\ Router!Price(way) = Paid(way, Len(way))
  BY <1>0, <1>1, WaysArePaid
<1> DEFINE T == {i \in 1 .. Len(way) :
                   Paid(way, i) \in Nat
                     /\ (distance[way[i]] <= Paid(way, i) \/ distance[target] <= Paid(way, i))}
<1>3. 1 \in T
  BY <1>0, <1>1, <1>2 DEF SearchInv
<1>4. ASSUME NEW i \in 1 .. Len(way) - 1, i \in T PROVE i + 1 \in T
  <2>1. i + 1 \in 1 .. Len(way) /\ i \in 1 .. Len(way)
    BY <1>1
  <2>2. way[i] \in Stop /\ way[i + 1] \in Stop /\ way[i + 1] \in LinkOf[way[i]]
    BY <1>1, <2>1 DEF LinkedWay
  <2>3. PICK p \in Nat : p = Paid(way, i)
    BY <1>2
  <2>4. PICK c \in Nat : c = CostOf[way[i]][way[i + 1]] /\ Paid(way, i + 1) = p + c
    BY <1>2, <2>3
  <2>5. /\ distance[way[i]] \in Nat /\ distance[way[i + 1]] \in Nat /\ distance[target] \in Nat
        /\ distance[target] <= Far /\ Far \in Nat
    BY <1>0, <2>2 DEF SearchTyped, SearchInv, NetworkFacts
  <2>6. CASE distance[target] <= p
    BY <2>1, <2>4, <2>5, <2>6
  <2>7. CASE distance[way[i]] <= p
    <3>1. CASE way[i] \in Settled
      <4>1. distance[way[i + 1]] <= distance[way[i]] + c
        BY <1>0, <2>2, <2>4, <3>1 DEF SearchInv
      <4> QED
        BY <2>1, <2>4, <2>5, <2>7, <4>1
    <3>2. CASE way[i] \notin Reached
      <4>1. distance[way[i]] = Far
        BY <1>0, <2>2, <3>2 DEF SearchInv
      <4> QED
        BY <2>1, <2>4, <2>5, <2>7, <4>1
    <3>3. CASE way[i] \in Reached /\ way[i] \notin Settled
      <4>1. <<distance[way[i]], way[i]>> \in queue
        BY <3>3 DEF Settled
      <4>2. Router!First(<<distance[target], target>>)
        BY <4>1 DEF Tracing
      <4>3. distance[target] <= distance[way[i]]
        BY <2>5, <4>1, <4>2 DEF Router!First
      <4> QED
        BY <2>1, <2>4, <2>5, <2>7, <4>3
    <3> QED
      BY <3>1, <3>2, <3>3
  <2> QED
    BY <1>4, <2>3, <2>6, <2>7
<1>5. Len(way) \in T
  <2> HIDE DEF T
  <2>1. \A i \in 1 .. Len(way) : i \in T
    BY <1>1, <1>3, <1>4, ClosedUpTo
  <2> QED
    BY <1>1, <2>1
<1> QED
  BY <1>1, <1>2, <1>5

(* An empty queue leaves no stop out that can be reached. *)
LEMMA AllAreReached ==
  ASSUME Searching, queue = {}, NEW way \in Router!Ways, Router!Open(way)
  PROVE  target \in Reached
<1>0. SearchTyped /\ NetworkTyped /\ SearchInv /\ NetworkFacts
  BY NetworkGives DEF Searching
<1>1. /\ LinkedWay(way) /\ way # <<>> /\ Len(way) \in Nat \ {0}
      /\ way[1] = source /\ way[Len(way)] = target
  BY <1>0, WaysAreLinked
<1> DEFINE T == {i \in 1 .. Len(way) : way[i] \in Reached}
<1>2. 1 \in T
  BY <1>0, <1>1 DEF Reached, NetworkFacts
<1>3. ASSUME NEW i \in 1 .. Len(way) - 1, i \in T PROVE i + 1 \in T
  <2>1. way[i] \in Settled /\ way[i + 1] \in LinkOf[way[i]]
    BY <1>1, <1>3 DEF Settled, LinkedWay
  <2>2. way[i + 1] \in Reached
    BY <1>0, <2>1 DEF SearchInv
  <2> QED
    BY <1>1, <2>2
<1>4. Len(way) \in T
  <2> HIDE DEF T
  <2>1. \A i \in 1 .. Len(way) : i \in T
    BY <1>1, <1>2, <1>3, ClosedUpTo
  <2> QED
    BY <1>1, <2>1
<1> QED
  BY <1>1, <1>4

(* The predecessors lead back to the source, over links and without meeting   *)
(* a stop twice, and the distances along them are those paid.               *)
LEMMA FoundIsWay ==
  ASSUME Searching, Tracing, place = "found"
  PROVE  path \in Router!Ways /\ Router!Open(path) /\ Router!Price(path) = distance[target]
<1>0. SearchTyped /\ NetworkTyped /\ SearchInv /\ NetworkFacts
  BY NetworkGives DEF Searching
<1>1. /\ path \in Seq(Stop) /\ path # <<>> /\ path[Len(path)] = target
      /\ Len(path) \in Nat \ {0}
      /\ \A i \in 1 .. Len(path) : path[i] \in Reached /\ path[i] \in Stop
      /\ \A i \in 1 .. Len(path) - 1 : path[i + 1] # source /\ path[i] = before[path[i + 1]]
      /\ before[path[1]] = -1
  BY DEF Tracing
<1>2. path[1] = source
  BY <1>1 DEF Reached
<1>3. \A i \in 1 .. Len(path) - 1 :
        /\ path[i + 1] \in Reached \ {source}
        /\ path[i + 1] \in LinkOf[path[i]]
        /\ distance[path[i + 1]] = distance[path[i]] + CostOf[path[i]][path[i + 1]]
  <2> SUFFICES ASSUME NEW i \in 1 .. Len(path) - 1
               PROVE  /\ path[i + 1] \in Reached \ {source}
                      /\ path[i + 1] \in LinkOf[path[i]]
                      /\ distance[path[i + 1]]
                          = distance[path[i]] + CostOf[path[i]][path[i + 1]]
    OBVIOUS
  <2>1. path[i + 1] \in Reached \ {source} /\ path[i] = before[path[i + 1]]
    BY <1>1
  <2> QED
    BY <1>0, <2>1 DEF SearchInv
<1>4. LinkedWay(path)
  BY <1>1, <1>3 DEF LinkedWay
<1>5. Router!Open(path)
  <2>1. \A i \in 1 .. Len(path) - 1 : path[i] \in Stop
        /\ LinkOf[path[i]] = Router!Linked(path[i])
    BY <1>1 DEF LinkOf
  <2> QED
    BY <1>3, <2>1 DEF Router!Open
<1>6. /\ Paid(path, 1) = 0
      /\ \A i \in 1 .. Len(path) - 1 :
           /\ Paid(path, i) \in Nat /\ CostOf[path[i]][path[i + 1]] \in Nat
           /\ Paid(path, i + 1) = Paid(path, i) + CostOf[path[i]][path[i + 1]]
      /\ Router!Price(path) = Paid(path, Len(path))
  BY <1>0, <1>1, <1>4, WaysArePaid
<1>7. Router!Price(path) = distance[target]
  <2> DEFINE T == {i \in 1 .. Len(path) : distance[path[i]] = Paid(path, i)}
  <2>1. 1 \in T
    BY <1>0, <1>1, <1>2, <1>6 DEF SearchInv
  <2>2. ASSUME NEW i \in 1 .. Len(path) - 1, i \in T PROVE i + 1 \in T
    BY <1>1, <1>3, <1>6, <2>2
  <2>3. Len(path) \in T
    <3> HIDE DEF T
    <3>1. \A i \in 1 .. Len(path) : i \in T
      BY <1>1, <2>1, <2>2, ClosedUpTo
    <3> QED
      BY <1>1, <3>1
  <2> QED
    BY <1>1, <1>6, <2>3
<1>8. \A i, j \in 1 .. Len(path) : path[i] = path[j] => i = j
  <2>1. PICK rank : RankedBy(rank)
    BY DEF Searching, Ranked
  <2>2. \A i \in 1 .. Len(path) : rank[path[i]] \in Nat
    BY <1>1, <2>1 DEF RankedBy
  <2>3. \A i \in 1 .. Len(path) - 1 : rank[path[i]] < rank[path[i + 1]]
    BY <1>1, <1>3, <2>1 DEF RankedBy
  <2>4. ASSUME NEW i \in 1 .. Len(path)
        PROVE \A j \in 1 .. Len(path) : i < j => rank[path[i]] < rank[path[j]]
    <3> DEFINE T == {j \in 1 .. Len(path) : i < j => rank[path[i]] < rank[path[j]]}
    <3>1. 1 \in T
      BY <1>1
    <3>2. ASSUME NEW j \in 1 .. Len(path) - 1, j \in T PROVE j + 1 \in T
      <4>1. j \in 1 .. Len(path) /\ j + 1 \in 1 .. Len(path)
            /\ rank[path[j]] < rank[path[j + 1]]
        BY <1>1, <2>3
      <4>2. rank[path[i]] \in Nat /\ rank[path[j]] \in Nat /\ rank[path[j + 1]] \in Nat
        BY <2>2, <4>1
      <4>3. CASE i < j
        BY <3>2, <4>1, <4>2, <4>3
      <4>4. CASE i = j
        BY <4>1, <4>4
      <4>5. CASE i > j
        BY <4>1, <4>5
      <4> QED
        BY <4>3, <4>4, <4>5
    <3> HIDE DEF T
    <3>3. \A j \in 1 .. Len(path) : j \in T
      BY <1>1, <3>1, <3>2, ClosedUpTo
    <3> QED
      BY <3>3 DEF T
  <2>5. ASSUME NEW i \in 1 .. Len(path), NEW j \in 1 .. Len(path), path[i] = path[j], i # j
        PROVE  FALSE
    <3>1. i < j \/ j < i
      BY <2>5
    <3>2. rank[path[i]] < rank[path[j]] \/ rank[path[j]] < rank[path[i]]
      BY <2>4, <3>1
    <3> QED
      BY <2>2, <2>5, <3>2
  <2> QED
    BY <2>5
<1>9. path \in [1 .. Len(path) -> Stop] /\ DOMAIN path = 1 .. Len(path)
  BY <1>1
<1>10. Len(path) \in 2 .. Stations
  <2>1. Len(path) # 1
    BY <1>0, <1>1, <1>2 DEF NetworkFacts
  <2>2. path \in Injection(1 .. Len(path), Stop)
    BY <1>8, <1>9 DEF Injection, IsInjective
  <2>3. Cardinality(1 .. Len(path)) <= Cardinality(Stop)
    BY <2>2, StopsAreFinite, FS_Injection
  <2>4. Cardinality(1 .. Len(path)) = Len(path)
    BY <1>1, FS_Interval
  <2> QED
    BY <1>0, <1>1, <2>1, <2>3, <2>4, StopsAreFinite DEF NetworkFacts
<1>11. Router!IsInjective(path)
  BY <1>8, <1>9 DEF Router!IsInjective
<1>12. path \in Router!Ways
  BY <1>1, <1>2, <1>9, <1>10, <1>11 DEF Router!Ways, Stop
<1> QED
  BY <1>5, <1>7, <1>12

(* A route that is reported is the cheapest one, with its cost, and none is    *)
(* reported only if there is none (compute_routing), for every number of    *)
(* stations, every network, all phases and delays.                          *)
THEOREM RouteIsOptimalHolds == Router!Spec => []RouteIsOptimal
<1>1. Searching /\ Tracing => RouteIsOptimal
  <2> SUFFICES ASSUME Searching, Tracing PROVE RouteIsOptimal
    OBVIOUS
  <2>1. ASSUME place = "found"
        PROVE  /\ path \in Router!Ways /\ Router!Open(path)
             /\ Router!Price(path) = distance[target]
               /\ \A way \in Router!Ways : Router!Open(way)
                   => Router!Price(path) <= Router!Price(way)
    <3>1. place # "search"
      BY <2>1
    <3> QED
      BY <2>1, <3>1, FoundIsWay, NothingIsCheaper
  <2>2. ASSUME place = "none", NEW way \in Router!Ways, Router!Open(way)
        PROVE  FALSE
    <3>1. before[target] = -1 /\ (queue = {} \/ Router!First(<<distance[target], target>>))
      BY <2>2 DEF Tracing
    <3>2. target \notin Reached
      BY <3>1 DEF Searching, NetworkTyped, Reached
    <3>3. queue = {}
      <4>1. ASSUME Router!First(<<distance[target], target>>) PROVE FALSE
        BY <3>2, <4>1 DEF Router!First, Searching, SearchInv
      <4> QED
        BY <3>1, <4>1
    <3> QED
      BY <2>2, <3>2, <3>3, AllAreReached
  <2> QED
    BY <2>1, <2>2 DEF RouteIsOptimal, Router!RouteIsOptimal
<1> QED
  BY <1>1, RouterStays, PTL

-----------------------------------------------------------------------------
(* The star memory.                                                          *)

(* Its library is that of this module. *)
LEMMA GuideCounts ==
  /\ \A S : Guide!Cardinality(S) = Cardinality(S)
  /\ \A S : Guide!Min(S) = Min(S)
  /\ \A f, S : Guide!SumFunctionOnSet(f, S) = SumFunctionOnSet(f, S)
BY DEF Guide!Cardinality, Cardinality, Guide!Min, Min,
       Guide!SumFunctionOnSet, SumFunctionOnSet, Guide!FoldFunctionOnSet, FoldFunctionOnSet,
       Guide!MapThenFoldSet, MapThenFoldSet

(* The clustering of the records that are left, as a function g of the sets   *)
(* of a family D of them.                                                   *)
Grown(g, rs, left, room, least) ==
  IF left = {} \/ room = 0 THEN <<>>
  ELSE IF Guide!Cardinality(Guide!Group(rs, left)) >= least
    THEN <<Guide!Attractor(rs, Guide!Group(rs, left))>>
           \o g[left \ Guide!Group(rs, left)][room - 1]
    ELSE g[left \ Guide!Group(rs, left)][room]

Grows(g, rs, D, most, least) ==
  g = [left \in D |-> [room \in 0 .. most |-> Grown(g, rs, left, room, least)]]

LEMMA ClustersAreChosen ==
  ASSUME NEW rs, NEW most, NEW least
  PROVE  Guide!Clusters(rs, most, least)
           = (CHOOSE g : Grows(g, rs, SUBSET DOMAIN rs, most, least))[Guide!Successes(rs)][most]
BY DEF Guide!Clusters, Grows, Grown

(* A group takes its first record, and others that are left. *)
LEMMA GroupsTakeRecords ==
  ASSUME NEW rs, NEW n \in Nat, DOMAIN rs = 1 .. n, NEW left \in SUBSET (1 .. n), left # {}
  PROVE  /\ Guide!Group(rs, left) \in SUBSET left /\ Guide!Group(rs, left) # {}
         /\ IsFiniteSet(left)
         /\ Cardinality(Guide!Group(rs, left)) \in Nat \ {0}
         /\ Cardinality(left \ Guide!Group(rs, left)) \in Nat
         /\ Cardinality(left)
              = Cardinality(Guide!Group(rs, left)) + Cardinality(left \ Guide!Group(rs, left))
<1>1. left \in SUBSET Nat
  OBVIOUS
<1>2. Guide!Min(left) \in left
  <2>1. \E x \in left : \A y \in left : x <= y
    BY <1>1, LeastNat
  <2> QED
    BY <2>1 DEF Guide!Min
<1> DEFINE G == Guide!Group(rs, left)
<1>3. G \in SUBSET left /\ Guide!Min(left) \in G
  BY <1>2 DEF Guide!Group
<1> HIDE DEF G
<1>4. IsFiniteSet(left)
  <2>1. IsFiniteSet(1 .. n)
    BY FS_Interval
  <2> QED
    BY <2>1, FS_Subset
<1>5. IsFiniteSet(G) /\ IsFiniteSet(left \ G)
  BY <1>3, <1>4, FS_Subset
<1>6. Cardinality(G) \in Nat /\ Cardinality(left \ G) \in Nat /\ Cardinality(left) \in Nat
  BY <1>4, <1>5, FS_CardinalityType
<1>7. Cardinality(G) # 0
  BY <1>3, <1>5, FS_EmptySet
<1>8. Cardinality(left) = Cardinality(G) + Cardinality(left \ G)
  <2>1. G \union (left \ G) = left /\ G \intersect (left \ G) = {}
    BY <1>3
  <2>2. Cardinality(G \union (left \ G))
          = Cardinality(G) + Cardinality(left \ G) - Cardinality(G \intersect (left \ G))
    BY <1>5, FS_Union
  <2>3. Cardinality({}) = 0
    BY FS_EmptySet
  <2>4. Cardinality(left) = Cardinality(G) + Cardinality(left \ G) - Cardinality({})
    BY <2>1, <2>2, Zenon
  <2> QED
    BY <1>6, <2>3, <2>4
<1> QED
  BY <1>3, <1>4, <1>6, <1>7, <1>8 DEF G

(* The clustering is defined: each set refers to smaller ones. *)
LEMMA GrowthExists ==
  ASSUME NEW rs, NEW n \in Nat, DOMAIN rs = 1 .. n, NEW most, NEW least
  PROVE  \E g : Grows(g, rs, SUBSET (1 .. n), most, least)
<1> DEFINE S == 1 .. n
           Has == {k \in Nat : \E g : Grows(g, rs, UpTo(S, k), most, least)}
<1>0. IsFiniteSet(S) /\ \A T \in SUBSET S : IsFiniteSet(T) /\ Cardinality(T) \in Nat
  <2>1. IsFiniteSet(S)
    BY FS_Interval
  <2> QED
    BY <2>1, FS_Subset, FS_CardinalityType
<1>1. 0 \in Has
  <2> DEFINE h == [left \in UpTo(S, 0) |-> [room \in 0 .. most |-> <<>>]]
  <2>1. \A s \in UpTo(S, 0) : s = {}
    BY <1>0, FS_EmptySet DEF UpTo
  <2>2. \A left \in UpTo(S, 0) : \A room : Grown(h, rs, left, room, least) = <<>>
    BY <2>1 DEF Grown
  <2>3. Grows(h, rs, UpTo(S, 0), most, least)
    BY <2>2 DEF Grows
  <2> QED
    BY <2>3
<1>2. ASSUME NEW k \in Has PROVE k + 1 \in Has
  <2>0. k \in Nat
    BY <1>2
  <2>1. PICK g : Grows(g, rs, UpTo(S, k), most, least)
    BY <1>2
  <2> DEFINE h == [left \in UpTo(S, k + 1) |->
                     [room \in 0 .. most |-> Grown(g, rs, left, room, least)]]
  <2>2. UpTo(S, k) \subseteq UpTo(S, k + 1)
    BY <1>0, <2>0 DEF UpTo
  <2>3. \A left \in UpTo(S, k) : h[left] = g[left]
    BY <2>1, <2>2 DEF Grows
  <2>4. ASSUME NEW left \in UpTo(S, k + 1), left # {}
        PROVE  left \ Guide!Group(rs, left) \in UpTo(S, k)
    <3>1. left \in SUBSET (1 .. n) /\ Cardinality(left) <= k + 1
      BY DEF UpTo
    <3>2. /\ Cardinality(Guide!Group(rs, left)) \in Nat \ {0}
          /\ Cardinality(left \ Guide!Group(rs, left)) \in Nat
          /\ Cardinality(left)
               = Cardinality(Guide!Group(rs, left)) + Cardinality(left \ Guide!Group(rs, left))
      BY <2>4, <3>1, GroupsTakeRecords
    <3>3. Cardinality(left \ Guide!Group(rs, left)) <= k
      BY <2>0, <3>1, <3>2
    <3> QED
      BY <3>1, <3>3 DEF UpTo
  <2> HIDE DEF h
  <2>5. \A left \in UpTo(S, k + 1) : \A room : Grown(h, rs, left, room, least)
        = Grown(g, rs, left, room, least)
    BY <2>3, <2>4 DEF Grown
  <2>6. Grows(h, rs, UpTo(S, k + 1), most, least)
    BY <2>5 DEF Grows, h
  <2> QED
    BY <2>0, <2>6
<1>3. Has = Nat
  <2> HIDE DEF Has
  <2>1. Has \in SUBSET Nat
    BY DEF Has
  <2> QED
    BY <1>1, <1>2, <2>1, ClosedNat
<1>4. n \in Nat /\ Cardinality(S) = n
  BY FS_Interval
<1>5. UpTo(S, n) = SUBSET S
  <2>1. \A T \in SUBSET S : Cardinality(T) <= Cardinality(S)
    BY <1>0, FS_Subset
  <2> QED
    BY <1>4, <2>1 DEF UpTo
<1>6. \E g : Grows(g, rs, UpTo(S, n), most, least)
  BY <1>3, <1>4
<1> QED
  BY <1>5, <1>6

(* What attractors count, the first one apart.                               *)
Count(a) == a.count

Backed(as) == SumFunctionOnSet([i \in DOMAIN as |-> Count(as[i])], DOMAIN as)

LEMMA BackingIsBacked == \A as : Guide!Backing(as) = Backed(as)
BY GuideCounts, Zenon DEF Guide!Backing, Backed, Count

LEMMA SequenceGives ==
  ASSUME NEW T, NEW s \in Seq(T)
  PROVE  Len(s) \in Nat /\ DOMAIN s = 1 .. Len(s) /\ \A i \in DOMAIN s : s[i] \in T
  OBVIOUS

IsCons(all, a, s, n) ==
  /\ DOMAIN all = 1 .. n + 1 /\ all[1] = a
  /\ \A i \in 1 .. n : all[i + 1] = s[i]

LEMMA ConsGives ==
  ASSUME NEW T, NEW s \in Seq(T), NEW a \in T, NEW n \in Nat, n = Len(s)
  PROVE  <<a>> \o s \in Seq(T) /\ IsCons(<<a>> \o s, a, s, n)
<1>1. <<a>> \in Seq(T) /\ Len(<<a>>) = 1 /\ <<a>>[1] = a
  OBVIOUS
<1>2. PICK all \in Seq(T) : all = <<a>> \o s
  BY <1>1, ConcatProperties
<1>3. /\ Len(all) = 1 + n
      /\ \A i \in 1 .. 1 + n : all[i] = IF i <= 1 THEN <<a>>[i] ELSE s[i - 1]
  BY <1>1, <1>2, ConcatProperties
<1>4. DOMAIN all = 1 .. n + 1 /\ all[1] = a
  BY <1>1, <1>3
<1>5. ASSUME NEW i \in 1 .. n PROVE all[i + 1] = s[i]
  <2>1. i + 1 \in 1 .. 1 + n /\ ~(i + 1 <= 1) /\ (i + 1) - 1 = i
    OBVIOUS
  <2> QED
    BY <1>3, <2>1
<1> QED
  BY <1>2, <1>4, <1>5 DEF IsCons

LEMMA BackedIsNat ==
  ASSUME NEW T, NEW as \in Seq(T), \A a \in T : Count(a) \in Nat
  PROVE  Backed(as) \in Nat
<1>0. Len(as) \in Nat /\ DOMAIN as = 1 .. Len(as) /\ \A i \in DOMAIN as : as[i] \in T
  BY SequenceGives, Zenon
<1>1. PICK n \in Nat : DOMAIN as = 1 .. n
  BY <1>0, Zenon
<1>2. IsFiniteSet(DOMAIN as)
  BY <1>1, FS_Interval
<1> DEFINE f == [i \in DOMAIN as |-> Count(as[i])]
<1>3. \A i \in DOMAIN as : f[i] \in Nat
  BY <1>0
<1> HIDE DEF f
<1>4. SumFunctionOnSet(f, DOMAIN as) \in Nat
  BY <1>2, <1>3, SumNat
<1> QED
  BY <1>4 DEF Backed, f

LEMMA BackedByFirst ==
  ASSUME NEW T, NEW as \in Seq(T), \A a \in T : Count(a) \in Nat, NEW a \in T
  PROVE  <<a>> \o as \in Seq(T) /\ Backed(<<a>> \o as) = Count(a) + Backed(as)
<1>0. Len(as) \in Nat /\ DOMAIN as = 1 .. Len(as)
  BY SequenceGives, Zenon
<1>1. PICK n \in Nat : n = Len(as) /\ DOMAIN as = 1 .. n
  BY <1>0, Zenon
<1>2. <<a>> \o as \in Seq(T) /\ IsCons(<<a>> \o as, a, as, n)
  BY <1>1, ConsGives, Zenon
<1>3. PICK all \in Seq(T) : /\ all = <<a>> \o as
                            /\ DOMAIN all = 1 .. n + 1 /\ all[1] = a
                            /\ \A i \in 1 .. n : all[i + 1] = as[i]
  BY <1>2, Zenon DEF IsCons
<1> DEFINE f == [i \in 1 .. n + 1 |-> Count(all[i])]
           g == [i \in 1 .. n |-> Count(as[i])]
<1>4. f[1] = Count(a) /\ \A i \in 1 .. n + 1 : f[i] \in Nat
  <2>1. \A i \in 1 .. n + 1 : all[i] \in T
    BY <1>3, SequenceGives, Zenon
  <2>2. 1 \in 1 .. n + 1
    OBVIOUS
  <2> QED
    BY <1>3, <2>1, <2>2, Zenon
<1>5. ASSUME NEW i \in 1 .. n PROVE g[i] = f[i + 1]
  <2>1. i + 1 \in 1 .. n + 1
    OBVIOUS
  <2> QED
    BY <1>3, <2>1, Zenon
<1> HIDE DEF f, g
<1>6. SumFunctionOnSet(f, 1 .. n + 1) = f[1] + SumFunctionOnSet(g, 1 .. n)
  BY <1>4, <1>5, SumShifts
<1>7. Backed(all) = SumFunctionOnSet(f, 1 .. n + 1)
  BY <1>3, Zenon DEF Backed, f
<1>8. Backed(as) = SumFunctionOnSet(g, 1 .. n)
  BY <1>1, Zenon DEF Backed, g
<1> QED
  BY <1>3, <1>4, <1>6, <1>7, <1>8, Zenon

Patterns(rs) == {Guide!Attractor(rs, S) : S \in SUBSET DOMAIN rs}

LEMMA PatternsCount ==
  ASSUME NEW rs, NEW n \in Nat, DOMAIN rs = 1 .. n
  PROVE  /\ \A S \in SUBSET (1 .. n) : /\ Guide!Attractor(rs, S) \in Patterns(rs)
                                       /\ Count(Guide!Attractor(rs, S)) = Cardinality(S)
         /\ \A a \in Patterns(rs) : Count(a) \in Nat
<1>1. \A S : Count(Guide!Attractor(rs, S)) = Cardinality(S)
  BY GuideCounts DEF Count, Guide!Attractor
<1>2. \A S \in SUBSET (1 .. n) : IsFiniteSet(S) /\ Cardinality(S) \in Nat
  <2>1. IsFiniteSet(1 .. n)
    BY FS_Interval
  <2> QED
    BY <2>1, FS_Subset, FS_CardinalityType
<1> QED
  BY <1>1, <1>2 DEF Patterns

(* The attractors of a set of records count no more than there are in it. *)
GrownWithin(g, rs, most, left) ==
  \A room \in 0 .. most :
    g[left][room] \in Seq(Patterns(rs)) /\ Backed(g[left][room]) <= Cardinality(left)

LEMMA GrowthStays ==
  ASSUME NEW rs, NEW n \in Nat, DOMAIN rs = 1 .. n,
         NEW most \in Nat, NEW least \in Nat,
         NEW g, Grows(g, rs, SUBSET (1 .. n), most, least), NEW left \in SUBSET (1 .. n),
         left # {} => GrownWithin(g, rs, most, left \ Guide!Group(rs, left))
  PROVE  GrownWithin(g, rs, most, left)
<1>0. \A a \in Patterns(rs) : Count(a) \in Nat
  BY PatternsCount
<1> SUFFICES ASSUME NEW room \in 0 .. most
             PROVE  /\ g[left][room] \in Seq(Patterns(rs))
                    /\ Backed(g[left][room]) <= Cardinality(left)
  BY DEF GrownWithin
<1>1. g[left][room] = Grown(g, rs, left, room, least)
  <2>1. g[left] = [r \in 0 .. most |-> Grown(g, rs, left, r, least)]
    BY Zenon DEF Grows
  <2> QED
    BY <2>1
<1>2. CASE left = {} \/ room = 0
  <2>1. g[left][room] = <<>>
    BY <1>1, <1>2 DEF Grown
  <2>2. Backed(<<>>) = 0
    <3>1. DOMAIN <<>> = {}
      OBVIOUS
    <3> QED
      BY <3>1, SumEmpty, Zenon DEF Backed
  <2>3. IsFiniteSet(left) /\ Cardinality(left) \in Nat
    <3>1. IsFiniteSet(1 .. n)
      BY FS_Interval
    <3> QED
      BY <3>1, FS_Subset, FS_CardinalityType
  <2> QED
    BY <2>1, <2>2, <2>3
<1>3. CASE left # {} /\ room # 0
  <2> DEFINE G == Guide!Group(rs, left)
             rest == left \ G
  <2>1. /\ G \in SUBSET (1 .. n) /\ rest \in SUBSET (1 .. n)
        /\ Cardinality(G) \in Nat /\ Cardinality(rest) \in Nat
        /\ Cardinality(left) = Cardinality(G) + Cardinality(rest)
    BY <1>3, GroupsTakeRecords
  <2>2. GrownWithin(g, rs, most, rest)
    BY <1>3
  <2> HIDE DEF G, rest
  <2>3. room \in 0 .. most /\ room - 1 \in 0 .. most
    BY <1>0, <1>3
  <2>4. CASE Guide!Cardinality(G) >= least
    <3>1. g[left][room] = <<Guide!Attractor(rs, G)>> \o g[rest][room - 1]
      BY <1>1, <1>3, <2>4, Zenon DEF Grown, G, rest
    <3>2. g[rest][room - 1] \in Seq(Patterns(rs))
          /\ Backed(g[rest][room - 1]) <= Cardinality(rest)
      BY <2>2, <2>3 DEF GrownWithin
    <3>3. PICK as \in Seq(Patterns(rs)) : as = g[rest][room - 1]
      BY <3>2
    <3>4. PICK a \in Patterns(rs) : a = Guide!Attractor(rs, G) /\ Count(a) = Cardinality(G)
      BY <2>1, PatternsCount
    <3>5. <<a>> \o as \in Seq(Patterns(rs)) /\ Backed(<<a>> \o as) = Count(a) + Backed(as)
      BY <1>0, <3>3, <3>4, BackedByFirst, Zenon
    <3>6. Backed(as) \in Nat
      BY <1>0, <3>3, BackedIsNat, Zenon
    <3>7. g[left][room] = <<a>> \o as
      BY <3>1, <3>3, <3>4
    <3>8. Count(a) + Backed(as) <= Cardinality(left)
      BY <2>1, <3>2, <3>3, <3>4, <3>6
    <3> QED
      BY <3>5, <3>7, <3>8, Zenon
  <2>5. CASE ~(Guide!Cardinality(G) >= least)
    <3>1. g[left][room] = g[rest][room]
      BY <1>1, <1>3, <2>5, Zenon DEF Grown, G, rest
    <3>2. g[rest][room] \in Seq(Patterns(rs)) /\ Backed(g[rest][room]) <= Cardinality(rest)
      BY <2>2, <2>3 DEF GrownWithin
    <3>3. PICK as \in Seq(Patterns(rs)) : as = g[rest][room]
      BY <3>2
    <3>4. Backed(as) \in Nat
      BY <1>0, <3>3, BackedIsNat, Zenon
    <3>5. Backed(as) <= Cardinality(left)
      BY <2>1, <3>2, <3>3, <3>4
    <3> QED
      BY <3>1, <3>3, <3>5
  <2> QED
    BY <2>4, <2>5
<1> QED
  BY <1>2, <1>3

LEMMA GrowthIsBacked ==
  ASSUME NEW rs, NEW n \in Nat, DOMAIN rs = 1 .. n,
         NEW most \in Nat, NEW least \in Nat,
         NEW g, Grows(g, rs, SUBSET (1 .. n), most, least)
  PROVE  \A left \in SUBSET (1 .. n) : GrownWithin(g, rs, most, left)
<1> DEFINE Good == {k \in Nat : \A left \in SUBSET (1 .. n) :
                                  Cardinality(left) <= k => GrownWithin(g, rs, most, left)}
<1>0. \A left \in SUBSET (1 .. n) : IsFiniteSet(left) /\ Cardinality(left) \in Nat
  <2>1. IsFiniteSet(1 .. n)
    BY FS_Interval
  <2> QED
    BY <2>1, FS_Subset, FS_CardinalityType
<1>1. 0 \in Good
  <2> SUFFICES ASSUME NEW left \in SUBSET (1 .. n), Cardinality(left) <= 0
               PROVE  GrownWithin(g, rs, most, left)
    OBVIOUS
  <2>1. left = {}
    BY <1>0, FS_EmptySet
  <2> QED
    BY <2>1, GrowthStays
<1>2. ASSUME NEW k \in Good PROVE k + 1 \in Good
  <2>0. k \in Nat
    BY <1>2
  <2> SUFFICES ASSUME NEW left \in SUBSET (1 .. n), Cardinality(left) <= k + 1
               PROVE  GrownWithin(g, rs, most, left)
    BY <2>0
  <2>1. ASSUME left # {} PROVE GrownWithin(g, rs, most, left \ Guide!Group(rs, left))
    <3>1. /\ Guide!Group(rs, left) \in SUBSET left
          /\ Cardinality(Guide!Group(rs, left)) \in Nat \ {0}
          /\ Cardinality(left \ Guide!Group(rs, left)) \in Nat
          /\ Cardinality(left)
               = Cardinality(Guide!Group(rs, left)) + Cardinality(left \ Guide!Group(rs, left))
      BY <2>1, GroupsTakeRecords
    <3>2. Cardinality(left \ Guide!Group(rs, left)) <= k
      BY <2>0, <3>1
    <3>3. left \ Guide!Group(rs, left) \in SUBSET (1 .. n)
      OBVIOUS
    <3> QED
      BY <1>2, <3>2, <3>3
  <2> QED
    BY <2>1, GrowthStays
<1>3. Good = Nat
  <2> HIDE DEF Good
  <2>1. Good \in SUBSET Nat
    BY DEF Good
  <2> QED
    BY <1>1, <1>2, <2>1, ClosedNat
<1> SUFFICES ASSUME NEW left \in SUBSET (1 .. n) PROVE GrownWithin(g, rs, most, left)
  OBVIOUS
<1>4. Cardinality(left) \in Good /\ Cardinality(left) <= Cardinality(left)
  BY <1>0, <1>3
<1> QED
  BY <1>4

(* The attractors of a history count its successes at most once. *)
LEMMA ClustersAreBacked ==
  ASSUME NEW rs, NEW n \in Nat, DOMAIN rs = 1 .. n,
         NEW most \in Nat, NEW least \in Nat
  PROVE  /\ Guide!Backing(Guide!Clusters(rs, most, least)) <= Guide!Cardinality(Guide!Successes(rs))
         /\ Guide!Cardinality(Guide!Successes(rs)) <= n
         /\ Guide!Backing(Guide!Clusters(rs, most, least)) \in Nat
         /\ Guide!Cardinality(Guide!Successes(rs)) \in Nat
<1> DEFINE g == CHOOSE g : Grows(g, rs, SUBSET DOMAIN rs, most, least)
           S == Guide!Successes(rs)
<1>1. Grows(g, rs, SUBSET (1 .. n), most, least)
  BY GrowthExists
<1>2. S \in SUBSET (1 .. n)
  BY DEF Guide!Successes
<1>3. Guide!Clusters(rs, most, least) = g[S][most]
  BY ClustersAreChosen
<1> HIDE DEF g, S
<1>4. /\ g[S][most] \in Seq(Patterns(rs))
      /\ Backed(g[S][most]) <= Cardinality(S)
  <2>1. GrownWithin(g, rs, most, S)
    BY <1>1, <1>2, GrowthIsBacked
  <2> QED
    BY <2>1 DEF GrownWithin
<1>5. Backed(g[S][most]) \in Nat
  <2>1. \A a \in Patterns(rs) : Count(a) \in Nat
    BY PatternsCount
  <2> QED
    BY <1>4, <2>1, BackedIsNat, Zenon
<1>6. Cardinality(S) \in Nat /\ Cardinality(S) <= n
  <2>1. IsFiniteSet(1 .. n) /\ Cardinality(1 .. n) = n
    BY FS_Interval
  <2>2. IsFiniteSet(S) /\ Cardinality(S) <= Cardinality(1 .. n)
    BY <1>2, <2>1, FS_Subset, Zenon
  <2> QED
    BY <2>1, <2>2, FS_CardinalityType
<1>7. \A as : Guide!Backing(as) = Backed(as)
  BY BackingIsBacked
<1>8. Guide!Cardinality(S) = Cardinality(S)
  BY GuideCounts
<1> QED
  BY <1>3, <1>4, <1>5, <1>6, <1>7, <1>8 DEF S

LEMMA NothingIsBacked == Guide!Backing(<<>>) = 0
<1>1. DOMAIN <<>> = {}
  OBVIOUS
<1>2. Guide!Backing(<<>>) = Backed(<<>>)
  BY BackingIsBacked
<1> QED
  BY <1>1, <1>2, SumEmpty, Zenon DEF Backed

HistoryTyped == records \in Seq(Guide!Record) /\ Len(records) <= MaxHistory /\ dirty \in BOOLEAN

LEMMA AddingKeepsHistory ==
  ASSUME HistoryTyped, NEW r \in Guide!Record, records' = Guide!Kept(Append(records, r))
  PROVE  records' \in Seq(Guide!Record) /\ Len(records') <= MaxHistory
<1>0. MaxHistory \in Nat
  BY LocalAssumption DEF Guide!StarMemoryAssumption
<1> DEFINE all == Append(records, r)
<1>1. all \in Seq(Guide!Record) /\ Len(all) = Len(records) + 1 /\ Len(records) \in Nat
  BY DEF HistoryTyped
<1> HIDE DEF all
<1>2. CASE Len(all) > MaxHistory
  <2>1. records' = Tail(all)
    BY <1>2 DEF Guide!Kept, all
  <2>2. Tail(all) \in Seq(Guide!Record) /\ Len(Tail(all)) = Len(all) - 1
    <3>1. all # <<>>
      BY <1>1
    <3> QED
      BY <1>1, <3>1
  <2> QED
    BY <1>0, <1>1, <2>1, <2>2 DEF HistoryTyped
<1>3. CASE ~(Len(all) > MaxHistory)
  <2>1. records' = all
    BY <1>3 DEF Guide!Kept, all
  <2> QED
    BY <1>0, <1>1, <1>3, <2>1
<1> QED
  BY <1>2, <1>3

(* While the flag is down the attractors are those of the records as they     *)
(* are, and no success is counted twice; when it is up they still count no  *)
(* more than a history holds (add_record, rebuild_attractors, reset): for   *)
(* any stars, fitness and limits, and any order of the calls.               *)
THEOREM AttractorsAreFreshHolds == Guide!Spec => []AttractorsAreFresh
<1>0. MaxHistory \in Nat /\ 0 \in Nat
  BY LocalAssumption DEF Guide!StarMemoryAssumption
<1>1. Guide!Init => HistoryTyped /\ AttractorsAreFresh
  <2> SUFFICES ASSUME Guide!Init PROVE HistoryTyped /\ AttractorsAreFresh
    OBVIOUS
  <2>1. records = <<>> /\ attractors = <<>> /\ dirty = TRUE
    BY DEF Guide!Init
  <2>2. HistoryTyped
    BY <1>0, <2>1 DEF HistoryTyped
  <2>3. Guide!Backing(attractors) <= MaxHistory
    BY <1>0, <2>1, NothingIsBacked
  <2> QED
    BY <2>1, <2>2, <2>3 DEF AttractorsAreFresh, Guide!AttractorsAreFresh
<1>2. HistoryTyped /\ AttractorsAreFresh /\ [Guide!Next]_(Guide!vars)
        => HistoryTyped' /\ AttractorsAreFresh'
  <2> SUFFICES ASSUME HistoryTyped, AttractorsAreFresh, [Guide!Next]_(Guide!vars)
               PROVE  HistoryTyped' /\ AttractorsAreFresh'
    OBVIOUS
  <2>1. ASSUME UNCHANGED <<records, attractors, dirty>>
        PROVE  HistoryTyped' /\ AttractorsAreFresh'
    <3>1. Guide!Backing(attractors)' = Guide!Backing(attractors)
      BY <2>1 DEF Guide!Backing
    <3>2. \A most, least : Guide!Clusters(records, most, least)'
                            = Guide!Clusters(records, most, least)
      BY <2>1
    <3>3. Guide!Cardinality(Guide!Successes(records))'
          = Guide!Cardinality(Guide!Successes(records))
      BY <2>1
    <3> QED
      BY <2>1, <3>1, <3>2, <3>3 DEF HistoryTyped, AttractorsAreFresh, Guide!AttractorsAreFresh
  <2>2. ASSUME NEW r \in Guide!Record, Guide!AddRecord(r)
        PROVE  HistoryTyped' /\ AttractorsAreFresh'
    <3>1. records' = Guide!Kept(Append(records, r)) /\ dirty' = TRUE /\ attractors' = attractors
      BY <2>2 DEF Guide!AddRecord
    <3>2. HistoryTyped'
      BY <3>1, AddingKeepsHistory DEF HistoryTyped
    <3>3. Guide!Backing(attractors)' = Guide!Backing(attractors)
      BY <3>1
    <3> QED
      BY <3>1, <3>2, <3>3 DEF AttractorsAreFresh, Guide!AttractorsAreFresh
  <2>3. ASSUME NEW signed \in BOOLEAN, NEW accepted \in BOOLEAN, NEW f \in Scores,
               Guide!AddFromProposal(signed, f, accepted)
        PROVE  HistoryTyped' /\ AttractorsAreFresh'
    <3>1. CASE signed
      <4>1. PICK r : r = [star |-> NoStar, fitness |-> f, accepted |-> accepted]
                     /\ Guide!AddRecord(r)
        BY <2>3, <3>1 DEF Guide!AddFromProposal
      <4>2. r \in Guide!Record
        BY <4>1 DEF Guide!Record
      <4> QED
        BY <2>2, <4>1, <4>2
    <3>2. CASE ~signed
      BY <2>1, <2>3, <3>2 DEF Guide!AddFromProposal
    <3> QED
      BY <3>1, <3>2
  <2>4. ASSUME NEW c \in Clusterings, Guide!RebuildAttractors(c[1], c[2])
        PROVE  HistoryTyped' /\ AttractorsAreFresh'
    <3>0. c[1] \in Nat /\ c[2] \in Nat
      BY LocalAssumption DEF Guide!StarMemoryAssumption
    <3> DEFINE found == Guide!Clusters(records, c[1], c[2])
    <3>1. records' = records
      BY <2>4 DEF Guide!RebuildAttractors
    <3>2. CASE ~dirty
      BY <2>1, <2>4, <3>2 DEF Guide!RebuildAttractors
    <3>3. CASE dirty /\ Guide!Cardinality(Guide!Successes(records)) < c[2]
      <4>1. attractors' = <<>> /\ dirty' = dirty
        BY <2>4, <3>3 DEF Guide!RebuildAttractors
      <4>2. Guide!Backing(attractors') <= MaxHistory
        BY <1>0, <4>1, NothingIsBacked
      <4> QED
        BY <3>1, <3>3, <4>1, <4>2 DEF HistoryTyped, AttractorsAreFresh, Guide!AttractorsAreFresh
    <3>4. CASE dirty /\ ~(Guide!Cardinality(Guide!Successes(records)) < c[2])
      <4>1. attractors' = found /\ dirty' = FALSE
        BY <2>4, <3>4 DEF Guide!RebuildAttractors
      <4>2. PICK n \in Nat : n = Len(records) /\ DOMAIN records = 1 .. n
        <5>1. Len(records) \in Nat /\ DOMAIN records = 1 .. Len(records)
          BY SequenceGives DEF HistoryTyped
        <5> QED
          BY <5>1
      <4>3. /\ Guide!Backing(found) <= Guide!Cardinality(Guide!Successes(records))
            /\ Guide!Cardinality(Guide!Successes(records)) <= n
            /\ Guide!Backing(found) \in Nat
            /\ Guide!Cardinality(Guide!Successes(records)) \in Nat
        BY <3>0, <4>2, ClustersAreBacked
      <4>4. Guide!Backing(found) <= MaxHistory
        BY <1>0, <4>2, <4>3 DEF HistoryTyped
      <4>5. /\ attractors' = Guide!Clusters(records', c[1], c[2])
            /\ Guide!Backing(attractors') <= Guide!Cardinality(Guide!Successes(records'))
            /\ Guide!Backing(attractors') <= MaxHistory
        BY <3>1, <4>1, <4>3, <4>4
      <4>6. HistoryTyped'
        BY <3>1, <4>1 DEF HistoryTyped
      <4>7. AttractorsAreFresh'
        BY <4>1, <4>5 DEF AttractorsAreFresh, Guide!AttractorsAreFresh
      <4> QED
        BY <4>6, <4>7
    <3> QED
      BY <3>2, <3>3, <3>4
  <2>5. CASE Guide!Reset
    <3>1. records' = <<>> /\ attractors' = <<>> /\ dirty' = TRUE
      BY <2>5 DEF Guide!Reset
    <3>2. Guide!Backing(attractors') <= MaxHistory
      BY <1>0, <3>1, NothingIsBacked
    <3> QED
      BY <1>0, <3>1, <3>2 DEF HistoryTyped, AttractorsAreFresh, Guide!AttractorsAreFresh
  <2>6. CASE Guide!Next
    BY <2>2, <2>3, <2>4, <2>5, <2>6 DEF Guide!Next, Guide!Call
  <2> QED
    BY <2>1, <2>6 DEF Guide!vars
<1> QED
  BY <1>1, <1>2, PTL DEF Guide!Spec

=============================================================================
