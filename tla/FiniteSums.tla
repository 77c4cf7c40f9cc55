------------------------------ MODULE FiniteSums ------------------------------
(***************************************************************************)
(* Facts about least and greatest numbers and about sums over finite sets, *)
(* for the proofs of this directory.  Inductions are carried by sets: a    *)
(* set of naturals that is closed under successor, or its least exception. *)
(***************************************************************************)
EXTENDS Integers, FiniteSets, FiniteSetsExt, Functions,
        FiniteSetTheorems, WellFoundedInduction, TLAPS

(* Every nonempty set of naturals has a least element. *)
LEMMA LeastNat ==
  ASSUME NEW T \in SUBSET Nat, T # {}
  PROVE  \E x \in T : \A y \in T : x <= y
<1>1. IsWellFoundedOn(OpToRel(<, Nat), Nat)
  BY NatLessThanWellFounded
<1>2. PICK x \in T : \A y \in T : <<y, x>> \notin OpToRel(<, Nat)
  BY <1>1, WFMin
<1>3. \A y \in T : ~(y < x)
  BY <1>2 DEF OpToRel
<1> QED
  BY <1>3

(* A set of naturals with 0, closed under successor, is all of them. *)
LEMMA ClosedNat ==
  ASSUME NEW T \in SUBSET Nat, 0 \in T, \A n \in T : n + 1 \in T
  PROVE  T = Nat
<1> SUFFICES ASSUME Nat \ T # {} PROVE FALSE
  OBVIOUS
<1>1. PICK x \in Nat \ T : \A y \in Nat \ T : x <= y
  BY LeastNat
<1>2. x # 0 /\ x - 1 \in Nat /\ x - 1 < x
  BY <1>1
<1>3. x - 1 \in T
  BY <1>1, <1>2
<1>4. (x - 1) + 1 \in T
  BY <1>3
<1> QED
  BY <1>1, <1>4

(* A set with 1 that goes on from each number below k reaches k. *)
LEMMA ClosedUpTo ==
  ASSUME NEW k \in Nat, NEW T, 1 \in T, \A i \in 1 .. k - 1 : i \in T => i + 1 \in T
  PROVE  \A i \in 1 .. k : i \in T
<1> DEFINE U == {n \in Nat : n + 1 <= k => n + 1 \in T}
<1>1. 0 \in U
  OBVIOUS
<1>2. ASSUME NEW n \in U PROVE n + 1 \in U
  <2>1. n \in Nat /\ (n + 1 <= k => n + 1 \in T)
    BY <1>2
  <2>2. (n + 1) + 1 <= k => n + 1 \in 1 .. k - 1
    BY <2>1
  <2> QED
    BY <2>1, <2>2
<1>3. U = Nat
  <2> HIDE DEF U
  <2>1. U \in SUBSET Nat
    BY DEF U
  <2> QED
    BY <1>1, <1>2, <2>1, ClosedNat
<1>4. \A i \in 1 .. k : i - 1 \in Nat /\ (i - 1) + 1 = i /\ i <= k
  OBVIOUS
<1> QED
  BY <1>3, <1>4

(* A family of subsets of S with the empty set, closed under adding an      *)
(* element of S, has S itself if S is finite.                               *)
LEMMA ClosedFamily ==
  ASSUME NEW S, IsFiniteSet(S), NEW C \in SUBSET SUBSET S, {} \in C,
         \A T \in C, x \in S : T \union {x} \in C
  PROVE  S \in C
<1> DEFINE Sizes == {n \in Nat : \A T \in SUBSET S : Cardinality(T) = n => T \in C}
<1>0. \A T \in SUBSET S : IsFiniteSet(T) /\ Cardinality(T) \in Nat
  BY FS_Subset, FS_CardinalityType
<1>1. 0 \in Sizes
  BY <1>0, FS_EmptySet
<1>2. ASSUME NEW n \in Sizes PROVE n + 1 \in Sizes
  <2> SUFFICES ASSUME NEW T \in SUBSET S, Cardinality(T) = n + 1 PROVE T \in C
    BY <1>2
  <2>0. n \in Nat
    BY <1>2
  <2>1. T # {}
    <3>1. n + 1 # 0 /\ Cardinality({}) = 0
      BY <2>0, FS_EmptySet
    <3> QED
      BY <3>1
  <2>2. PICK x \in T : TRUE
    BY <2>1
  <2>3. Cardinality(T \ {x}) = n
    BY <1>0, <1>2, FS_RemoveElement
  <2>4. T \ {x} \in C
    BY <1>2, <2>3
  <2>5. T = (T \ {x}) \union {x}
    OBVIOUS
  <2> QED
    BY <2>4, <2>5
<1>3. Sizes = Nat
  BY <1>1, <1>2, ClosedNat
<1> QED
  BY <1>0, <1>3

(* A finite nonempty set of integers has a greatest element. *)
LEMMA MaxExists ==
  ASSUME NEW S \in SUBSET Int, IsFiniteSet(S), S # {}
  PROVE  Max(S) \in S /\ \A y \in S : Max(S) >= y
<1> DEFINE C == {T \in SUBSET S : T # {} => \E x \in T : \A y \in T : x >= y}
<1>1. \A T \in C, z \in S : T \union {z} \in C
  <2> SUFFICES ASSUME NEW T \in C, NEW z \in S
               PROVE  \E x \in T \union {z} : \A y \in T \union {z} : x >= y
    OBVIOUS
  <2>1. CASE T = {}
    BY <2>1
  <2>2. CASE T # {}
    <3>1. PICK x \in T : \A y \in T : x >= y
      BY <2>2
    <3>2. CASE x >= z
      BY <3>1, <3>2
    <3>3. CASE ~(x >= z)
      BY <3>1, <3>3
    <3> QED
      BY <3>2, <3>3
  <2> QED
    BY <2>1, <2>2
<1>2. {} \in C
  OBVIOUS
<1>3. S \in C
  <2> HIDE DEF C
  <2>1. C \in SUBSET SUBSET S
    BY DEF C
  <2> QED
    BY <1>1, <1>2, <2>1, ClosedFamily
<1>4. \E x \in S : \A y \in S : x >= y
  BY <1>3
<1> QED
  BY <1>4 DEF Max

(* The values a function takes on a finite set are finitely many. *)
LEMMA ImageIsFinite ==
  ASSUME NEW S, IsFiniteSet(S), NEW f
  PROVE  IsFiniteSet({f[x] : x \in S})
<1> DEFINE T == {f[x] : x \in S}
           g == [x \in S |-> f[x]]
<1>1. g \in Surjection(S, T)
  BY DEF Surjection
<1> QED
  BY <1>1, FS_Surjection

(* Rounding down. *)
LEMMA DivBelow ==
  ASSUME NEW a \in Nat, NEW b \in Nat \ {0}
  PROVE  a \div b \in Nat /\ b * (a \div b) <= a
  OBVIOUS

-----------------------------------------------------------------------------
(* Sums.  The recursive function behind SumFunctionOnSet exists, takes      *)
(* integers to integers, and does not depend on the order of the summands.  *)

First(s) == CHOOSE x \in s : TRUE

(* g sums f over the sets of a family D that is closed under leaving out    *)
(* the first element.                                                       *)
Sums(g, f, D) == g = [s \in D |-> IF s = {} THEN 0 ELSE f[First(s)] + g[s \ {First(s)}]]

UpTo(S, n) == {s \in SUBSET S : Cardinality(s) <= n}

LEMMA Smaller ==
  ASSUME NEW S, IsFiniteSet(S), NEW n \in Nat, NEW s \in UpTo(S, n + 1), s # {}
  PROVE  First(s) \in s /\ s \ {First(s)} \in UpTo(S, n)
<1>1. First(s) \in s
  BY DEF First
<1>2. IsFiniteSet(s) /\ Cardinality(s) \in Nat /\ Cardinality(s) <= n + 1
  BY FS_Subset, FS_CardinalityType DEF UpTo
<1>3. Cardinality(s \ {First(s)}) = Cardinality(s) - 1
  BY <1>1, <1>2, FS_RemoveElement
<1> QED
  BY <1>1, <1>2, <1>3 DEF UpTo

LEMMA SumsExist ==
  ASSUME NEW S, IsFiniteSet(S), NEW f
  PROVE  \E g : Sums(g, f, SUBSET S)
<1> DEFINE Has == {n \in Nat : \E g : Sums(g, f, UpTo(S, n))}
<1>0. \A T \in SUBSET S : IsFiniteSet(T) /\ Cardinality(T) \in Nat
  BY FS_Subset, FS_CardinalityType
<1>1. 0 \in Has
  <2>1. \A s \in UpTo(S, 0) : s = {}
    BY <1>0, FS_EmptySet DEF UpTo
  <2>2. Sums([s \in UpTo(S, 0) |-> 0], f, UpTo(S, 0))
    BY <2>1 DEF Sums
  <2> QED
    BY <2>2
<1>2. ASSUME NEW n \in Has PROVE n + 1 \in Has
  <2>0. n \in Nat
    BY <1>2
  <2>1. PICK g : Sums(g, f, UpTo(S, n))
    BY <1>2
  <2> DEFINE h == [s \in UpTo(S, n + 1) |->
                     IF s = {} THEN 0 ELSE f[First(s)] + g[s \ {First(s)}]]
  <2>2. UpTo(S, n) \subseteq UpTo(S, n + 1)
    BY <1>0, <2>0 DEF UpTo
  <2>3. \A s \in UpTo(S, n) : h[s] = g[s]
    BY <2>1, <2>2 DEF Sums
  <2>4. \A s \in UpTo(S, n + 1) : s # {} => h[s \ {First(s)}] = g[s \ {First(s)}]
    BY <2>0, <2>3, Smaller
  <2>5. h = [s \in UpTo(S, n + 1) |->
               IF s = {} THEN 0 ELSE f[First(s)] + h[s \ {First(s)}]]
    BY <2>4
  <2>6. Sums(h, f, UpTo(S, n + 1))
    BY <2>5 DEF Sums
  <2> QED
    BY <2>0, <2>6
<1>3. Has = Nat
  BY <1>1, <1>2, ClosedNat
<1>4. Cardinality(S) \in Nat
  BY <1>0
<1>5. UpTo(S, Cardinality(S)) = SUBSET S
  BY FS_Subset DEF UpTo
<1>6. \E g : Sums(g, f, UpTo(S, Cardinality(S)))
  BY <1>3, <1>4
<1> QED
  BY <1>5, <1>6

(* The function the definition of SumFunctionOnSet chooses. *)
SumsOf(f, S) == CHOOSE g : Sums(g, f, SUBSET S)

LEMMA SumIsChosen ==
  ASSUME NEW f, NEW S
  PROVE  SumFunctionOnSet(f, S) = SumsOf(f, S)[S]
  BY DEF SumFunctionOnSet, FoldFunctionOnSet, MapThenFoldSet, SumsOf, Sums, First

LEMMA SumsOfSums ==
  ASSUME NEW S, IsFiniteSet(S), NEW f
  PROVE  Sums(SumsOf(f, S), f, SUBSET S)
  BY SumsExist DEF SumsOf

(* What is needed of a sum over the subsets of S: typed, and any element    *)
(* of a set can be taken out first.                                         *)
Additive(g, f, S) ==
  /\ g[{}] = 0
  /\ \A T \in SUBSET S : g[T] \in Int /\ \A x \in T : g[T] = f[x] + g[T \ {x}]

LEMMA SumsAreAdditive ==
  ASSUME NEW S, IsFiniteSet(S), NEW f, \A x \in S : f[x] \in Int,
         NEW g, Sums(g, f, SUBSET S)
  PROVE  Additive(g, f, S)
<1>0. \A T \in SUBSET S : IsFiniteSet(T) /\ Cardinality(T) \in Nat
  BY FS_Subset, FS_CardinalityType
<1>1. g[{}] = 0
  BY DEF Sums
<1>2. \A T \in SUBSET S : T # {} =>
        First(T) \in T /\ g[T] = f[First(T)] + g[T \ {First(T)}]
  BY DEF Sums, First
<1> DEFINE Good(T) == g[T] \in Int /\ \A x \in T : g[T] = f[x] + g[T \ {x}]
           Sizes == {n \in Nat : \A T \in SUBSET S : Cardinality(T) <= n => Good(T)}
<1>3. 0 \in Sizes
  <2>1. \A T \in SUBSET S : Cardinality(T) <= 0 => T = {}
    BY <1>0, FS_EmptySet
  <2>2. Good({})
    BY <1>1
  <2> HIDE DEF Good
  <2> QED
    BY <2>1, <2>2
<1>4. ASSUME NEW n \in Sizes PROVE n + 1 \in Sizes
  <2>0. n \in Nat /\ \A T \in SUBSET S : Cardinality(T) <= n => Good(T)
    BY <1>4
  <2> HIDE DEF Sizes
  <2> SUFFICES ASSUME NEW T \in SUBSET S, Cardinality(T) <= n + 1 PROVE Good(T)
    BY <2>0 DEF Sizes
  <2>1. CASE T = {}
    BY <1>1, <2>1
  <2>2. CASE T # {}
    <3> DEFINE c == First(T)
    <3>1. c \in T /\ g[T] = f[c] + g[T \ {c}]
      BY <1>2, <2>2
    <3>2. \A x \in T : T \ {x} \in SUBSET S /\ Cardinality(T \ {x}) <= n
      BY <1>0, <2>0, FS_RemoveElement
    <3>3. \A x \in T : Good(T \ {x})
      BY <2>0, <3>2
    <3> HIDE DEF c
    <3>4. ASSUME NEW x \in T PROVE g[T] = f[x] + g[T \ {x}]
      <4>1. CASE x = c
        BY <3>1, <4>1
      <4>2. CASE x # c
        <5>1. x \in T \ {c} /\ c \in T \ {x} /\ (T \ {c}) \ {x} = (T \ {x}) \ {c}
          BY <3>1, <4>2
        <5>2. g[T \ {c}] = f[x] + g[(T \ {c}) \ {x}]
          BY <3>1, <3>3, <5>1
        <5>3. g[T \ {x}] = f[c] + g[(T \ {x}) \ {c}]
          BY <3>3, <5>1
        <5>4. Good((T \ {c}) \ {x})
          <6>1. Cardinality((T \ {c}) \ {x}) <= Cardinality(T \ {c})
            BY <1>0, FS_Subset
          <6>2. Cardinality((T \ {c}) \ {x}) <= n
            BY <1>0, <2>0, <3>1, <3>2, <6>1
          <6> QED
            BY <2>0, <6>2
        <5>5. f[x] \in Int /\ f[c] \in Int /\ g[(T \ {c}) \ {x}] \in Int
          BY <3>1, <5>4
        <5>6. g[(T \ {c}) \ {x}] = g[(T \ {x}) \ {c}]
          BY <5>1
        <5> HIDE DEF Good
        <5> QED
          BY <3>1, <5>2, <5>3, <5>5, <5>6
      <4> QED
        BY <4>1, <4>2
    <3>5. g[T] \in Int
      <4>1. f[c] \in Int /\ g[T \ {c}] \in Int
        BY <3>1, <3>3
      <4> QED
        BY <3>1, <4>1
    <3> QED
      BY <3>4, <3>5
  <2> QED
    BY <2>1, <2>2
<1>5. Sizes = Nat
  <2> HIDE DEF Sizes
  <2>1. Sizes \in SUBSET Nat
    BY DEF Sizes
  <2> QED
    BY <1>3, <1>4, <2>1, ClosedNat
<1>6. ASSUME NEW T \in SUBSET S PROVE Good(T)
  BY <1>0, <1>5
<1> QED
  BY <1>1, <1>6 DEF Additive

(* Sums of the same numbers agree, whatever larger set they are taken in.   *)
LEMMA SumsAgree ==
  ASSUME NEW S, IsFiniteSet(S), NEW f, \A x \in S : f[x] \in Int,
         NEW R \in SUBSET S, NEW e, \A x \in R : e[x] = f[x],
         NEW g, Sums(g, f, SUBSET S), NEW h, Sums(h, e, SUBSET R)
  PROVE  \A T \in SUBSET R : h[T] = g[T]
<1> DEFINE C == {T \in SUBSET R : h[T] = g[T]}
<1>0. IsFiniteSet(R)
  BY FS_Subset
<1>1. Additive(g, f, S)
  BY SumsAreAdditive
<1>2. Additive(h, e, R)
  <2>1. \A x \in R : e[x] \in Int
    OBVIOUS
  <2> QED
    BY <1>0, <2>1, SumsAreAdditive
<1>3. {} \in C
  BY <1>1, <1>2 DEF Additive
<1>4. ASSUME NEW T \in SUBSET R, NEW Q \in SUBSET T, Q \in C, NEW x \in T
      PROVE  Q \union {x} \in C
  <2>1. CASE x \in Q
    <3>1. Q \union {x} = Q
      BY <2>1
    <3> QED
      BY <1>4, <3>1
  <2>2. CASE x \notin Q
    <3>1. (Q \union {x}) \ {x} = Q
      BY <2>2
    <3>2. h[Q \union {x}] = e[x] + h[Q] /\ g[Q \union {x}] = f[x] + g[Q]
      BY <1>1, <1>2, <3>1 DEF Additive
    <3>3. e[x] = f[x] /\ h[Q] = g[Q]
      BY <1>4
    <3> QED
      BY <3>2, <3>3
  <2> QED
    BY <2>1, <2>2
<1>5. ASSUME NEW T \in SUBSET R PROVE T \in C
  <2>1. IsFiniteSet(T)
    BY <1>0, FS_Subset
  <2> DEFINE D == C \cap SUBSET T
  <2>2. {} \in D /\ \A Q \in D, x \in T : Q \union {x} \in D
    BY <1>3, <1>4
  <2>3. T \in D
    <3> HIDE DEF D
    <3>1. D \in SUBSET SUBSET T
      BY DEF D
    <3> QED
      BY <2>1, <2>2, <3>1, ClosedFamily
  <2> QED
    BY <2>3
<1> QED
  BY <1>5

-----------------------------------------------------------------------------
(* The facts the other proofs cite. *)

LEMMA SumType ==
  ASSUME NEW S, IsFiniteSet(S), NEW f, \A x \in S : f[x] \in Int
  PROVE  SumFunctionOnSet(f, S) \in Int
<1>1. Additive(SumsOf(f, S), f, S)
  BY SumsOfSums, SumsAreAdditive
<1> QED
  BY <1>1, SumIsChosen DEF Additive

LEMMA SumEmpty == \A f : SumFunctionOnSet(f, {}) = 0
<1> TAKE f
<1>1. Sums(SumsOf(f, {}), f, SUBSET {})
  BY SumsOfSums, FS_EmptySet
<1> QED
  BY <1>1, SumIsChosen DEF Sums

(* Taking one element out. *)
LEMMA SumWithout ==
  ASSUME NEW S, IsFiniteSet(S), NEW f, \A x \in S : f[x] \in Int, NEW x \in S
  PROVE  SumFunctionOnSet(f, S) = f[x] + SumFunctionOnSet(f, S \ {x})
<1> DEFINE R == S \ {x}
<1>1. IsFiniteSet(R) /\ R \in SUBSET S
  BY FS_Subset
<1>2. Sums(SumsOf(f, S), f, SUBSET S) /\ Sums(SumsOf(f, R), f, SUBSET R)
  BY <1>1, SumsOfSums
<1>3. SumsOf(f, R)[R] = SumsOf(f, S)[R]
  <2> DEFINE g == SumsOf(f, S)
             h == SumsOf(f, R)
  <2>0. Sums(g, f, SUBSET S) /\ Sums(h, f, SUBSET R)
    BY <1>2
  <2> HIDE DEF R, g, h
  <2>a. PICK e : e = f
    OBVIOUS
  <2>b. Sums(h, e, SUBSET R) /\ \A y \in R : e[y] = f[y]
    BY <2>0, <2>a
  <2>c. \A T \in SUBSET R : h[T] = g[T]
    BY <1>1, <2>0, <2>b, SumsAgree
  <2>1. \A T \in SUBSET R : SumsOf(f, R)[T] = SumsOf(f, S)[T]
    BY <2>c DEF g, h
  <2> QED
    BY <2>1
<1>4. SumsOf(f, S)[S] = f[x] + SumsOf(f, S)[R]
  BY <1>2, SumsAreAdditive DEF Additive
<1> QED
  BY <1>3, <1>4, SumIsChosen

LEMMA SumSame ==
  ASSUME NEW S, IsFiniteSet(S), NEW f, NEW e, \A x \in S : f[x] \in Int /\ e[x] = f[x]
  PROVE  SumFunctionOnSet(e, S) = SumFunctionOnSet(f, S)
<1>1. Sums(SumsOf(f, S), f, SUBSET S) /\ Sums(SumsOf(e, S), e, SUBSET S)
  BY SumsOfSums
<1>2. \A T \in SUBSET S : SumsOf(e, S)[T] = SumsOf(f, S)[T]
  BY <1>1, SumsAgree
<1> QED
  BY <1>2, SumIsChosen

(* Changing the number of one element changes the sum by the difference.    *)
LEMMA SumChange ==
  ASSUME NEW S, IsFiniteSet(S), NEW f, NEW e, NEW x \in S,
         \A y \in S : f[y] \in Int /\ e[y] \in Int,
         \A y \in S \ {x} : e[y] = f[y]
  PROVE  SumFunctionOnSet(e, S) = SumFunctionOnSet(f, S) + e[x] - f[x]
<1> DEFINE R == S \ {x}
<1>1. IsFiniteSet(R) /\ \A y \in R : f[y] \in Int
  BY FS_Subset
<1>2. SumFunctionOnSet(e, R) = SumFunctionOnSet(f, R)
  <2> HIDE DEF R
  <2>1. \A y \in R : e[y] = f[y]
    BY DEF R
  <2> QED
    BY <1>1, <2>1, SumSame
<1>3. SumFunctionOnSet(f, R) \in Int
  <2> HIDE DEF R
  <2> QED
    BY <1>1, SumType
<1>4. /\ SumFunctionOnSet(f, S) = f[x] + SumFunctionOnSet(f, R)
      /\ SumFunctionOnSet(e, S) = e[x] + SumFunctionOnSet(e, R)
  BY SumWithout
<1>5. f[x] \in Int /\ e[x] \in Int
  OBVIOUS
<1> HIDE DEF R
<1> QED
  BY <1>2, <1>3, <1>4, <1>5

(* Sums are monotone. *)
LEMMA SumMonotone ==
  ASSUME NEW S, IsFiniteSet(S), NEW f, NEW e,
         \A x \in S : f[x] \in Int /\ e[x] \in Int /\ e[x] <= f[x]
  PROVE  SumFunctionOnSet(e, S) <= SumFunctionOnSet(f, S)
<1> DEFINE C == {T \in SUBSET S : SumFunctionOnSet(e, T) <= SumFunctionOnSet(f, T)}
<1>1. {} \in C
  BY SumEmpty
<1>2. ASSUME NEW T \in C, NEW x \in S PROVE T \union {x} \in C
  <2>1. CASE x \in T
    <3>1. T \union {x} = T
      BY <2>1
    <3> QED
      BY <3>1
  <2>2. CASE x \notin T
    <3> DEFINE Q == T \union {x}
    <3>1. /\ IsFiniteSet(Q) /\ IsFiniteSet(T) /\ x \in Q /\ Q \ {x} = T
          /\ Q \subseteq S /\ T \subseteq S
      BY <2>2, FS_Subset
    <3> HIDE DEF Q
    <3>2. /\ SumFunctionOnSet(f, Q) = f[x] + SumFunctionOnSet(f, T)
          /\ SumFunctionOnSet(e, Q) = e[x] + SumFunctionOnSet(e, T)
      <4>1. \A y \in Q : f[y] \in Int /\ e[y] \in Int
        BY <3>1
      <4> QED
        BY <3>1, <4>1, SumWithout
    <3>3. SumFunctionOnSet(f, T) \in Int /\ SumFunctionOnSet(e, T) \in Int
      <4>1. \A y \in T : f[y] \in Int /\ e[y] \in Int
        BY <3>1
      <4> QED
        BY <3>1, <4>1, SumType
    <3>4. f[x] \in Int /\ e[x] \in Int /\ e[x] <= f[x]
      OBVIOUS
    <3>5. SumFunctionOnSet(e, T) <= SumFunctionOnSet(f, T)
      OBVIOUS
    <3>6. SumFunctionOnSet(e, Q) <= SumFunctionOnSet(f, Q)
      BY <3>2, <3>3, <3>4, <3>5
    <3> QED
      BY <3>1, <3>6 DEF Q
  <2> QED
    BY <2>1, <2>2
<1>3. C \in SUBSET SUBSET S
  OBVIOUS
<1>4. S \in C
  <2> HIDE DEF C
  <2> QED
    BY <1>1, <1>2, <1>3, ClosedFamily
<1> QED
  BY <1>4

(* The sum of the sums is the sum. *)
LEMMA SumPlus ==
  ASSUME NEW S, IsFiniteSet(S), NEW f, NEW e, NEW g,
         \A x \in S : f[x] \in Int /\ e[x] \in Int /\ g[x] = f[x] + e[x]
  PROVE  SumFunctionOnSet(g, S) = SumFunctionOnSet(f, S) + SumFunctionOnSet(e, S)
<1> DEFINE Sum(T) == SumFunctionOnSet(f, T) + SumFunctionOnSet(e, T)
           C == {T \in SUBSET S : SumFunctionOnSet(g, T) = Sum(T)}
<1>1. {} \in C
  BY SumEmpty
<1>2. ASSUME NEW T \in C, NEW x \in S PROVE T \union {x} \in C
  <2>1. CASE x \in T
    <3>1. T \union {x} = T
      BY <2>1
    <3> QED
      BY <3>1
  <2>2. CASE x \notin T
    <3> DEFINE Q == T \union {x}
    <3>1. /\ IsFiniteSet(Q) /\ IsFiniteSet(T) /\ x \in Q /\ Q \ {x} = T
          /\ Q \subseteq S /\ T \subseteq S
      BY <2>2, FS_Subset
    <3> HIDE DEF Q
    <3>2. /\ SumFunctionOnSet(f, Q) = f[x] + SumFunctionOnSet(f, T)
          /\ SumFunctionOnSet(e, Q) = e[x] + SumFunctionOnSet(e, T)
          /\ SumFunctionOnSet(g, Q) = g[x] + SumFunctionOnSet(g, T)
      <4>1. \A y \in Q : f[y] \in Int /\ e[y] \in Int /\ g[y] \in Int
        BY <3>1
      <4> QED
        BY <3>1, <4>1, SumWithout
    <3>3. SumFunctionOnSet(f, T) \in Int /\ SumFunctionOnSet(e, T) \in Int
      <4>1. \A y \in T : f[y] \in Int /\ e[y] \in Int
        BY <3>1
      <4> QED
        BY <3>1, <4>1, SumType
    <3>4. f[x] \in Int /\ e[x] \in Int /\ g[x] = f[x] + e[x]
      OBVIOUS
    <3>5. SumFunctionOnSet(g, T) = SumFunctionOnSet(f, T) + SumFunctionOnSet(e, T)
      OBVIOUS
    <3>6. SumFunctionOnSet(g, Q) = SumFunctionOnSet(f, Q) + SumFunctionOnSet(e, Q)
      BY <3>2, <3>3, <3>4, <3>5
    <3> QED
      BY <3>1, <3>6 DEF Q
  <2> QED
    BY <2>1, <2>2
<1>3. C \in SUBSET SUBSET S
  OBVIOUS
<1>4. S \in C
  <2> HIDE DEF C
  <2> QED
    BY <1>1, <1>2, <1>3, ClosedFamily
<1> QED
  BY <1>4

(* Counting is summing ones. *)
LEMMA SumCounts ==
  ASSUME NEW S, IsFiniteSet(S), NEW A \in SUBSET S, NEW f,
         \A x \in S : f[x] = IF x \in A THEN 1 ELSE 0
  PROVE  SumFunctionOnSet(f, S) = Cardinality(A)
<1> DEFINE C == {T \in SUBSET S : SumFunctionOnSet(f, T) = Cardinality(A \intersect T)}
<1>0. \A y \in S : f[y] \in Int
  OBVIOUS
<1>1. {} \in C
  <2>1. A \intersect {} = {}
    OBVIOUS
  <2> QED
    BY <2>1, SumEmpty, FS_EmptySet
<1>2. ASSUME NEW T \in C, NEW x \in S PROVE T \union {x} \in C
  <2>1. CASE x \in T
    <3>1. T \union {x} = T
      BY <2>1
    <3> QED
      BY <3>1
  <2>2. CASE x \notin T
    <3> DEFINE Q == T \union {x}
    <3>1. /\ IsFiniteSet(Q) /\ IsFiniteSet(A \intersect T) /\ x \in Q /\ Q \ {x} = T
          /\ Q \subseteq S /\ T \subseteq S
      BY <2>2, FS_Subset
    <3>2. A \intersect Q = IF x \in A THEN (A \intersect T) \union {x} ELSE A \intersect T
      OBVIOUS
    <3>3. Cardinality(A \intersect Q)
            = Cardinality(A \intersect T) + (IF x \in A THEN 1 ELSE 0)
      <4>1. Cardinality(A \intersect T) \in Nat
        BY <3>1, FS_CardinalityType
      <4>2. CASE x \in A
        <5>1. Cardinality((A \intersect T) \union {x}) = Cardinality(A \intersect T) + 1
          BY <2>2, <3>1, FS_AddElement
        <5> QED
          BY <3>2, <4>2, <5>1
      <4>3. CASE x \notin A
        <5>1. A \intersect Q = A \intersect T
          BY <3>2, <4>3
        <5> HIDE DEF Q
        <5> QED
          BY <4>1, <4>3, <5>1
      <4> QED
        BY <4>2, <4>3
    <3> HIDE DEF Q
    <3>4. SumFunctionOnSet(f, Q) = f[x] + SumFunctionOnSet(f, T)
      <4>1. \A y \in Q : f[y] \in Int
        BY <1>0, <3>1
      <4> QED
        BY <3>1, <4>1, SumWithout
    <3>5. SumFunctionOnSet(f, T) = Cardinality(A \intersect T)
      OBVIOUS
    <3>6. Cardinality(A \intersect T) \in Nat
      BY <3>1, FS_CardinalityType
    <3>7. f[x] = IF x \in A THEN 1 ELSE 0
      OBVIOUS
    <3>8. SumFunctionOnSet(f, Q) = Cardinality(A \intersect Q)
      BY <3>3, <3>4, <3>5, <3>6, <3>7
    <3> QED
      BY <3>1, <3>8 DEF Q
  <2> QED
    BY <2>1, <2>2
<1>3. C \in SUBSET SUBSET S
  OBVIOUS
<1>4. S \in C
  <2> HIDE DEF C
  <2> QED
    BY <1>1, <1>2, <1>3, ClosedFamily
<1>5. A \intersect S = A
  OBVIOUS
<1> QED
  BY <1>4, <1>5

(* Sums of naturals are naturals. *)
LEMMA SumNat ==
  ASSUME NEW S, IsFiniteSet(S), NEW f, \A x \in S : f[x] \in Nat
  PROVE  SumFunctionOnSet(f, S) \in Nat
<1> DEFINE zero == [x \in S |-> 0]
<1>1. SumFunctionOnSet(zero, S) = 0
  <2>1. \A x \in S : zero[x] = IF x \in {} THEN 1 ELSE 0
    OBVIOUS
  <2>2. SumFunctionOnSet(zero, S) = Cardinality({})
    <3> HIDE DEF zero
    <3> QED
      BY <2>1, SumCounts
  <2> QED
    BY <2>2, FS_EmptySet
<1>2. \A x \in S : f[x] \in Int /\ zero[x] \in Int /\ zero[x] <= f[x]
  OBVIOUS
<1>3. SumFunctionOnSet(zero, S) <= SumFunctionOnSet(f, S)
  <2> HIDE DEF zero
  <2> QED
    BY <1>2, SumMonotone
<1>4. SumFunctionOnSet(f, S) \in Int
  BY <1>2, SumType
<1> QED
  BY <1>1, <1>3, <1>4

(* A sum of numbers from 0 to b is at most b for each of them. *)
LEMMA SumBound ==
  ASSUME NEW S, IsFiniteSet(S), NEW b \in Nat, NEW f, \A x \in S : f[x] \in 0 .. b
  PROVE  SumFunctionOnSet(f, S) \in 0 .. b * Cardinality(S)
<1> DEFINE C == {T \in SUBSET S : SumFunctionOnSet(f, T) <= b * Cardinality(T)}
<1>0. \A T \in SUBSET S : IsFiniteSet(T) /\ Cardinality(T) \in Nat
  BY FS_Subset, FS_CardinalityType
<1>1. {} \in C
  BY SumEmpty, FS_EmptySet
<1>2. ASSUME NEW T \in C, NEW x \in S PROVE T \union {x} \in C
  <2>1. CASE x \in T
    <3>1. T \union {x} = T
      BY <2>1
    <3> QED
      BY <3>1
  <2>2. CASE x \notin T
    <3> DEFINE Q == T \union {x}
    <3>1. IsFiniteSet(Q) /\ x \in Q /\ Q \ {x} = T /\ Q \in SUBSET S /\ T \in SUBSET S
      BY <1>0, <2>2, FS_Subset
    <3>2. Cardinality(Q) = Cardinality(T) + 1
      BY <1>0, <2>2, <3>1, FS_AddElement
    <3>3. \A y \in S : f[y] \in Int
      OBVIOUS
    <3> HIDE DEF Q
    <3>4. SumFunctionOnSet(f, Q) = f[x] + SumFunctionOnSet(f, T)
      <4>1. \A y \in Q : f[y] \in Int
        BY <3>1, <3>3
      <4> QED
        BY <3>1, <4>1, SumWithout
    <3>5. SumFunctionOnSet(f, T) \in Int
      <4>1. \A y \in T : f[y] \in Int
        BY <3>1, <3>3
      <4> QED
        BY <1>0, <3>1, <4>1, SumType
    <3>6. SumFunctionOnSet(f, T) <= b * Cardinality(T) /\ f[x] <= b /\ f[x] \in Int
      OBVIOUS
    <3>7. PICK c \in Nat : c = Cardinality(T)
      BY <1>0, <3>1
    <3>8. b * (c + 1) = b * c + b
      OBVIOUS
    <3>9. SumFunctionOnSet(f, Q) <= b * Cardinality(Q)
      BY <3>2, <3>4, <3>5, <3>6, <3>7, <3>8
    <3> QED
      BY <3>1, <3>9 DEF Q
  <2> QED
    BY <2>1, <2>2
<1>3. C \in SUBSET SUBSET S
  OBVIOUS
<1>4. S \in C
  <2> HIDE DEF C
  <2> QED
    BY <1>1, <1>2, <1>3, ClosedFamily
<1>5. SumFunctionOnSet(f, S) \in Nat
  <2>1. \A x \in S : f[x] \in Nat
    OBVIOUS
  <2> QED
    BY <2>1, SumNat
<1> QED
  BY <1>0, <1>4, <1>5

(* Products of naturals grow with each factor. *)
LEMMA TimesGrows ==
  ASSUME NEW a \in Nat, NEW b \in Nat, NEW c \in Nat, a <= b
  PROVE  c * a \in Nat /\ c * b \in Nat /\ c * a <= c * b /\ a * c = c * a /\ b * c = c * b
<1>1. b = a + (b - a) /\ b - a \in Nat
  OBVIOUS
<1>2. PICK k \in Nat : b = a + k
  BY <1>1
<1>3. c * b = c * a + c * k
  BY <1>2
<1> QED
  BY <1>3

(* The sum of the first numbers of a sequence grows by the next one. *)
LEMMA SumOfFirst ==
  ASSUME NEW k \in Nat, NEW f, \A i \in 1 .. k : f[i] \in Nat, NEW n \in 1 .. k
  PROVE  /\ SumFunctionOnSet(f, 1 .. n - 1) \in Nat
         /\ SumFunctionOnSet(f, 1 .. n) = SumFunctionOnSet(f, 1 .. n - 1) + f[n]
<1>1. IsFiniteSet(1 .. n) /\ IsFiniteSet(1 .. n - 1)
  BY FS_Interval
<1>2. \A i \in 1 .. n - 1 : f[i] \in Nat
  OBVIOUS
<1>3. SumFunctionOnSet(f, 1 .. n - 1) \in Nat
  BY <1>1, <1>2, SumNat
<1>4. n \in 1 .. n /\ (1 .. n) \ {n} = 1 .. n - 1 /\ \A i \in 1 .. n : f[i] \in Int
  OBVIOUS
<1>5. SumFunctionOnSet(f, 1 .. n) = f[n] + SumFunctionOnSet(f, (1 .. n) \ {n})
  BY <1>1, <1>4, SumWithout
<1>6. f[n] \in Nat
  OBVIOUS
<1>7. SumFunctionOnSet(f, 1 .. n) = f[n] + SumFunctionOnSet(f, 1 .. n - 1)
  <2>1. SumFunctionOnSet(f, (1 .. n) \ {n}) = SumFunctionOnSet(f, 1 .. n - 1)
    BY <1>4, Zenon
  <2> QED
    BY <1>5, <2>1, Zenon
<1>8. PICK c \in Nat : c = SumFunctionOnSet(f, 1 .. n - 1)
  BY <1>3
<1>9. f[n] + c = c + f[n]
  BY <1>6
<1> QED
  BY <1>3, <1>7, <1>8, <1>9

(* Moving the numbers of a sum by one. *)
LEMMA SumShifts ==
  ASSUME NEW n \in Nat, NEW f, \A i \in 1 .. n + 1 : f[i] \in Nat,
         NEW g, \A i \in 1 .. n : g[i] = f[i + 1]
  PROVE  SumFunctionOnSet(f, 1 .. n + 1) = f[1] + SumFunctionOnSet(g, 1 .. n)
<1> DEFINE T == {k \in 1 .. n + 1 :
                   SumFunctionOnSet(f, 1 .. k) = f[1] + SumFunctionOnSet(g, 1 .. k - 1)}
<1>1. 1 \in T
  <2>1. SumFunctionOnSet(f, 1 .. 1) = SumFunctionOnSet(f, 1 .. 0) + f[1]
    <3>1. 1 \in 1 .. n + 1 /\ n + 1 \in Nat
      OBVIOUS
    <3>2. SumFunctionOnSet(f, 1 .. 1) = SumFunctionOnSet(f, 1 .. 1 - 1) + f[1]
      BY <3>1, SumOfFirst, Zenon
    <3> QED
      BY <3>2
  <2>2. 1 .. 0 = {} /\ 1 - 1 = 0
    OBVIOUS
  <2>3. SumFunctionOnSet(f, 1 .. 0) = 0 /\ SumFunctionOnSet(g, 1 .. 0) = 0
    BY <2>2, SumEmpty, Zenon
  <2> QED
    BY <2>1, <2>2, <2>3
<1>2. ASSUME NEW k \in 1 .. (n + 1) - 1, k \in T PROVE k + 1 \in T
  <2>1. k \in 1 .. n /\ k + 1 \in 1 .. n + 1 /\ n + 1 \in Nat /\ (k + 1) - 1 = k
    OBVIOUS
  <2>2. /\ SumFunctionOnSet(f, 1 .. (k + 1) - 1) \in Nat
        /\ SumFunctionOnSet(f, 1 .. k + 1) = SumFunctionOnSet(f, 1 .. (k + 1) - 1) + f[k + 1]
    BY <2>1, SumOfFirst, Zenon
  <2>3. \A i \in 1 .. n : g[i] \in Nat
    OBVIOUS
  <2>4. /\ SumFunctionOnSet(g, 1 .. k - 1) \in Nat
        /\ SumFunctionOnSet(g, 1 .. k) = SumFunctionOnSet(g, 1 .. k - 1) + g[k]
    BY <2>1, <2>3, SumOfFirst, Zenon
  <2>5. SumFunctionOnSet(f, 1 .. k) = f[1] + SumFunctionOnSet(g, 1 .. k - 1)
    BY <1>2
  <2>6. f[1] \in Nat /\ g[k] = f[k + 1] /\ g[k] \in Nat
    BY <2>1
  <2>7. SumFunctionOnSet(f, 1 .. k + 1) = SumFunctionOnSet(f, 1 .. k) + f[k + 1]
    BY <2>1, <2>2, Zenon
  <2>8. PICK c \in Nat : c = SumFunctionOnSet(g, 1 .. k - 1)
    BY <2>4
  <2>9. SumFunctionOnSet(f, 1 .. k + 1) = f[1] + SumFunctionOnSet(g, 1 .. k)
    BY <2>4, <2>5, <2>6, <2>7, <2>8
  <2> QED
    BY <2>1, <2>9
<1>3. n + 1 \in T
  <2> HIDE DEF T
  <2>1. n + 1 \in Nat /\ n + 1 \in 1 .. n + 1
    OBVIOUS
  <2>2. \A i \in 1 .. n + 1 : i \in T
    BY <1>1, <1>2, <2>1, ClosedUpTo, Zenon
  <2> QED
    BY <2>1, <2>2
<1>4. SumFunctionOnSet(f, 1 .. n + 1) = f[1] + SumFunctionOnSet(g, 1 .. (n + 1) - 1)
  BY <1>3
<1>5. (n + 1) - 1 = n
  OBVIOUS
<1> QED
  BY <1>4, <1>5, Zenon

=============================================================================
