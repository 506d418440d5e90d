------------------------- MODULE DataParallelProofs -------------------------
(***************************************************************************)
(* Proofs about the steps whose work many threads share.                   *)
(*                                                                         *)
(*   GradientQuantizer, for any numbers of rows and blocks, any gradients  *)
(*     and draws and any width of the sums: the device quantizes as the    *)
(*     host would, and no sum of a node wraps.                             *)
(*   HistLaunch, for any span, block size, tile limit and features: the    *)
(*     launches cover each row of the span once in each feature.           *)
(*   StablePartition, for any number of rows, directions, threads and      *)
(*     bounds of a segment: the threads leave what one would.              *)
(*   HistKernel, for any batch of spans, any bins, threads, rows per       *)
(*     thread, tile limit and width of a word: the histograms of a launch  *)
(*     are the exact sums of the nodes' rows.                              *)
(***************************************************************************)
EXTENDS HistKernel, GradientQuantizer, StablePartition, TLAPS, FiniteSetTheorems,
        WellFoundedInduction

----------------------------------------------------------------------------
\* A set of naturals that has 0 and the successor of each of its elements.
LEMMA NatSetInduction ==
  ASSUME NEW S \in SUBSET Nat, 0 \in S, \A n \in S : n + 1 \in S
  PROVE  S = Nat
<1> DEFINE T == Nat \ S
<1> SUFFICES ASSUME T # {} PROVE FALSE
  OBVIOUS
<1>1. PICK x \in T : \A y \in T : ~ (<<y, x>> \in OpToRel(<,Nat))
  BY NatLessThanWellFounded, WFMin
<1>2. \A y \in Nat : y < x => <<y, x>> \in OpToRel(<, Nat)
  BY DEF OpToRel
<1>3. x \in Nat /\ x # 0 /\ x - 1 \in Nat /\ x - 1 < x
  OBVIOUS
<1>4. x - 1 \in S
  BY <1>1, <1>2, <1>3
<1>5. (x - 1) + 1 = x
  BY <1>3
<1> QED
  BY <1>4, <1>5

----------------------------------------------------------------------------
(***************************************************************************)
(* Powers of two                                                           *)
(***************************************************************************)

Highest == Budget + Clamp + 2

IsPowers(F, k) ==
  /\ F[0] = 1
  /\ \A j \in 0..Highest : j # 0 /\ j <= k => F[j] = 2 * F[j - 1]

LEMMA HighestIsNat == Highest \in Nat /\ Budget \in Nat /\ Clamp \in Nat
BY QuantizerParams DEF Highest

LEMMA PowersExist == \E F \in [0..Highest -> Nat] : IsPowers(F, Highest)
<1> DEFINE K == {k \in Nat : \E F \in [0..Highest -> Nat] : IsPowers(F, k)}
<1>1. 0 \in K
  <2>1. [j \in 0..Highest |-> 1] \in [0..Highest -> Nat]
    OBVIOUS
  <2>2. IsPowers([j \in 0..Highest |-> 1], 0)
    BY HighestIsNat DEF IsPowers
  <2> QED
    BY <2>1, <2>2
<1>2. ASSUME NEW k \in K PROVE k + 1 \in K
  <2>1. k \in Nat
    OBVIOUS
  <2>2. PICK F \in [0..Highest -> Nat] : IsPowers(F, k)
    OBVIOUS
  <2> DEFINE G == [j \in 0..Highest |-> IF j = k + 1 THEN 2 * F[k] ELSE F[j]]
  <2>3. G \in [0..Highest -> Nat]
    <3> SUFFICES ASSUME NEW j \in 0..Highest, j = k + 1 PROVE 2 * F[k] \in Nat
      OBVIOUS
    <3> QED
      BY <2>1, HighestIsNat
  <2>4. IsPowers(G, k + 1)
    <3>1. G[0] = 1
      BY <2>1, <2>2, HighestIsNat DEF IsPowers
    <3>2. ASSUME NEW j \in 0..Highest, j # 0, j <= k + 1 PROVE G[j] = 2 * G[j - 1]
      <4>1. j - 1 \in 0..Highest /\ j - 1 # k + 1 /\ G[j - 1] = F[j - 1]
        BY <2>1, <3>2, HighestIsNat
      <4>2. CASE j = k + 1
        BY <2>1, <4>1, <4>2
      <4>3. CASE j # k + 1
        <5>1. j <= k
          BY <2>1, <3>2, <4>3
        <5> QED
          BY <2>2, <3>2, <4>1, <4>3, <5>1 DEF IsPowers
      <4> QED
        BY <4>2, <4>3
    <3> HIDE DEF G
    <3> QED
      BY <3>1, <3>2 DEF IsPowers
  <2> HIDE DEF G
  <2> QED
    BY <2>1, <2>3, <2>4
<1>3. K \in SUBSET Nat
  OBVIOUS
<1> HIDE DEF K
<1>4. Highest \in K
  BY <1>1, <1>2, <1>3, HighestIsNat, NatSetInduction
<1> QED
  BY <1>4 DEF K

LEMMA Powers ==
  /\ Pow2[0] = 1
  /\ \A j \in 0..Highest : j # 0 => Pow2[j] = 2 * Pow2[j - 1]
<1> DEFINE Def(F) == F = [n \in 0..Budget + Clamp + 2 |-> IF n = 0 THEN 1 ELSE 2 * F[n - 1]]
<1>1. \E F : Def(F)
  <2>1. PICK F \in [0..Highest -> Nat] : IsPowers(F, Highest)
    BY PowersExist
  <2>2. \A n \in 0..Highest : F[n] = IF n = 0 THEN 1 ELSE 2 * F[n - 1]
    BY <2>1, HighestIsNat DEF IsPowers
  <2>3. F = [n \in 0..Highest |-> IF n = 0 THEN 1 ELSE 2 * F[n - 1]]
    BY <2>1, <2>2
  <2> QED
    BY <2>3, Zenon DEF Highest
<1>2. Pow2 = CHOOSE F : Def(F)
  BY DEF Pow2
<1>3. Def(Pow2)
  BY <1>1, <1>2, Zenon
<1>4. \A n \in 0..Highest : Pow2[n] = IF n = 0 THEN 1 ELSE 2 * Pow2[n - 1]
  BY <1>3, Zenon DEF Highest
<1> QED
  BY <1>4, HighestIsNat

LEMMA PowersPositive == \A j \in 0..Highest : Pow2[j] \in Nat /\ Pow2[j] > 0
<1> DEFINE K == {k \in Nat : k <= Highest => Pow2[k] \in Nat /\ Pow2[k] > 0}
<1>1. 0 \in K
  BY Powers
<1>2. ASSUME NEW k \in K PROVE k + 1 \in K
  <2>1. k \in Nat /\ (k <= Highest => Pow2[k] \in Nat /\ Pow2[k] > 0)
    OBVIOUS
  <2>2. ASSUME k + 1 <= Highest PROVE Pow2[k + 1] \in Nat /\ Pow2[k + 1] > 0
    <3>1. Pow2[k + 1] = 2 * Pow2[k]
      <4>1. k + 1 \in 0..Highest /\ k + 1 # 0 /\ (k + 1) - 1 = k
        BY <2>1, <2>2, HighestIsNat
      <4> QED
        BY <4>1, Powers
    <3> QED
      BY <2>1, <2>2, <3>1, HighestIsNat
  <2> QED
    BY <2>1, <2>2
<1>3. K = Nat
  <2> HIDE DEF K
  <2>1. K \in SUBSET Nat
    BY DEF K
  <2> QED
    BY <1>1, <1>2, <2>1, NatSetInduction
<1> QED
  BY <1>3

LEMMA PowerOfSum ==
  ASSUME NEW a \in Nat, NEW b \in Nat, a + b <= Highest
  PROVE  Pow2[a + b] = Pow2[a] * Pow2[b]
<1> DEFINE K == {k \in Nat : k <= b => Pow2[a + k] = Pow2[a] * Pow2[k]}
<1>1. \A k \in 0..b : Pow2[a] \in Nat /\ Pow2[k] \in Nat /\ a + k \in 0..Highest /\ k \in 0..Highest
  <2> SUFFICES ASSUME NEW k \in 0..b
               PROVE Pow2[a] \in Nat /\ Pow2[k] \in Nat /\ a + k \in 0..Highest /\ k \in 0..Highest
    OBVIOUS
  <2>1. a \in 0..Highest /\ k \in 0..Highest /\ a + k \in 0..Highest
    BY HighestIsNat
  <2> QED
    BY <2>1, PowersPositive
<1>2. 0 \in K
  <2>1. Pow2[a] * 1 = Pow2[a] /\ a + 0 = a
    BY <1>1
  <2> QED
    BY <2>1, Powers
<1>3. ASSUME NEW k \in K PROVE k + 1 \in K
  <2>1. k \in Nat /\ (k <= b => Pow2[a + k] = Pow2[a] * Pow2[k])
    OBVIOUS
  <2>2. ASSUME k + 1 <= b PROVE Pow2[a + (k + 1)] = Pow2[a] * Pow2[k + 1]
    <3>1. /\ k \in 0..b /\ k + 1 \in 0..b /\ (k + 1) - 1 = k /\ k + 1 # 0
          /\ (a + (k + 1)) - 1 = a + k /\ a + (k + 1) # 0
      BY <2>1, <2>2
    <3>2. Pow2[k + 1] = 2 * Pow2[k] /\ Pow2[a + (k + 1)] = 2 * Pow2[a + k]
      BY <1>1, <3>1, Powers
    <3>3. Pow2[a + k] = Pow2[a] * Pow2[k]
      BY <2>1, <3>1
    <3>4. \A x, y \in Nat : 2 * (x * y) = x * (2 * y)
      OBVIOUS
    <3> QED
      BY <1>1, <3>1, <3>2, <3>3, <3>4
  <2> QED
    BY <2>1, <2>2
<1>4. K = Nat
  <2> HIDE DEF K
  <2>1. K \in SUBSET Nat
    BY DEF K
  <2> QED
    BY <1>2, <1>3, <2>1, NatSetInduction
<1>5. b \in K
  <2> HIDE DEF K
  <2> QED
    BY <1>4
<1>6. b <= b
  OBVIOUS
<1> QED
  BY <1>5, <1>6

----------------------------------------------------------------------------
(***************************************************************************)
(* Folds over finite sets                                                  *)
(***************************************************************************)

LEMMA SmallerSets ==
  ASSUME NEW s, IsFiniteSet(s), NEW x \in s
  PROVE  /\ IsFiniteSet(s \ {x})
         /\ Cardinality(s) \in Nat /\ Cardinality(s \ {x}) = Cardinality(s) - 1
         /\ Cardinality(s) > 0
<1>1. IsFiniteSet(s \ {x}) /\ Cardinality(s \ {x}) = Cardinality(s) - 1
  BY FS_RemoveElement
<1>2. Cardinality(s) \in Nat /\ Cardinality(s \ {x}) \in Nat
  BY <1>1, FS_CardinalityType
<1> QED
  BY <1>1, <1>2

\* A fold over the subsets of S: pick says which element is taken from a set,
\* step what is added for it.
FoldData(S, V, base, pick, step) ==
  /\ IsFiniteSet(S) /\ base \in V
  /\ \A s \in SUBSET S : s # {} => pick[s] \in s
  /\ \A x \in S, v \in V : step[<< x, v >>] \in V

IsFoldOf(F, S, base, pick, step) ==
  \A s \in SUBSET S :
    F[s] = IF s = {} THEN base ELSE step[<< pick[s], F[s \ {pick[s]}] >>]

LEMMA FoldExists ==
  ASSUME NEW S, NEW V, NEW base, NEW pick, NEW step, FoldData(S, V, base, pick, step)
  PROVE  \E F \in [SUBSET S -> V] : IsFoldOf(F, S, base, pick, step)
<1> USE DEF FoldData
<1> DEFINE Body(F, s) == IF s = {} THEN base ELSE step[<< pick[s], F[s \ {pick[s]}] >>]
           Right(F, k) == \A s \in SUBSET S : Cardinality(s) < k => F[s] = Body(F, s)
           K == {k \in Nat : \E F \in [SUBSET S -> V] : Right(F, k)}
<1>1. \A s \in SUBSET S : IsFiniteSet(s) /\ Cardinality(s) \in Nat
  BY FS_Subset, FS_CardinalityType
<1>2. 0 \in K
  <2>1. [s \in SUBSET S |-> base] \in [SUBSET S -> V]
    OBVIOUS
  <2>2. Right([s \in SUBSET S |-> base], 0)
    BY <1>1
  <2> QED
    BY <2>1, <2>2
<1>3. ASSUME NEW k \in K PROVE k + 1 \in K
  <2>1. k \in Nat
    OBVIOUS
  <2>2. PICK F \in [SUBSET S -> V] : Right(F, k)
    OBVIOUS
  <2> DEFINE G == [s \in SUBSET S |-> IF Cardinality(s) < k THEN F[s] ELSE Body(F, s)]
  <2>3. \A s \in SUBSET S : Body(F, s) \in V
    OBVIOUS
  <2> HIDE DEF Body
  <2>4. G \in [SUBSET S -> V]
    BY <2>3
  <2>5. ASSUME NEW s \in SUBSET S, Cardinality(s) < k + 1
        PROVE  Body(G, s) = Body(F, s)
    <3>1. CASE s = {}
      BY <3>1 DEF Body
    <3>2. CASE s # {}
      <4>1. pick[s] \in s /\ s \ {pick[s]} \in SUBSET S
        BY <3>2
      <4>2. Cardinality(s \ {pick[s]}) < k
        BY <1>1, <2>1, <2>5, <4>1, SmallerSets
      <4>3. G[s \ {pick[s]}] = F[s \ {pick[s]}]
        BY <4>1, <4>2
      <4> HIDE DEF G
      <4> QED
        BY <3>2, <4>3 DEF Body
    <3> QED
      BY <3>1, <3>2
  <2>6. ASSUME NEW s \in SUBSET S, Cardinality(s) < k + 1
        PROVE  G[s] = Body(G, s)
    BY <2>2, <2>5, <2>6
  <2> HIDE DEF G
  <2> QED
    BY <2>1, <2>4, <2>6
<1>4. K \in SUBSET Nat
  OBVIOUS
<1> HIDE DEF K
<1>5. Cardinality(S) + 1 \in K
  BY <1>1, <1>2, <1>3, <1>4, NatSetInduction
<1>6. PICK F \in [SUBSET S -> V] : Right(F, Cardinality(S) + 1)
  BY <1>5 DEF K
<1>7. \A s \in SUBSET S : F[s] = Body(F, s)
  BY <1>1, <1>6, FS_Subset
<1> QED
  BY <1>7, Zenon DEF IsFoldOf

\* Two functions that agree on a set as soon as they do on the set with one
\* element taken away are the same.
AgreeStepwise(S, F, G) ==
  /\ F[{}] = G[{}]
  /\ \A s \in SUBSET S : s # {} =>
       \E x \in s : F[s \ {x}] = G[s \ {x}] => F[s] = G[s]

LEMMA FoldUnique ==
  ASSUME NEW S, IsFiniteSet(S), NEW F, NEW G, AgreeStepwise(S, F, G)
  PROVE  \A s \in SUBSET S : F[s] = G[s]
<1> USE DEF AgreeStepwise
<1> DEFINE K == {k \in Nat : \A s \in SUBSET S : Cardinality(s) < k => F[s] = G[s]}
<1>1. \A s \in SUBSET S : IsFiniteSet(s) /\ Cardinality(s) \in Nat
  BY FS_Subset, FS_CardinalityType
<1>2. 0 \in K
  BY <1>1
<1>3. ASSUME NEW k \in K PROVE k + 1 \in K
  <2>1. k \in Nat /\ \A s \in SUBSET S : Cardinality(s) < k => F[s] = G[s]
    OBVIOUS
  <2>2. ASSUME NEW s \in SUBSET S, Cardinality(s) < k + 1
        PROVE  F[s] = G[s]
    <3>1. CASE s = {}
      BY <3>1
    <3>2. CASE s # {}
      <4>1. PICK x \in s : F[s \ {x}] = G[s \ {x}] => F[s] = G[s]
        BY <3>2
      <4>2. Cardinality(s \ {x}) < k /\ s \ {x} \in SUBSET S
        BY <1>1, <2>1, <2>2, <4>1, SmallerSets
      <4> QED
        BY <2>1, <4>1, <4>2
    <3> QED
      BY <3>1, <3>2
  <2> QED
    BY <2>1, <2>2
<1>4. K \in SUBSET Nat
  OBVIOUS
<1> HIDE DEF K
<1>5. Cardinality(S) + 1 \in K
  BY <1>1, <1>2, <1>3, <1>4, NatSetInduction
<1> QED
  BY <1>1, <1>5, FS_Subset DEF K

----------------------------------------------------------------------------
(***************************************************************************)
(* Sums of pairs and sums of numbers, taken in the same order              *)
(***************************************************************************)

Picked(s) == CHOOSE x \in s : TRUE
Total(v, S) == FoldFunctionOnSet(+, 0, v, S)

\* What a fold over S by AddAssign, and one by addition, satisfies.
IsPairFold(F, S, f) ==
  \A s \in SUBSET S : F[s] = IF s = {} THEN Zero ELSE AddAssign(f[Picked(s)], F[s \ {Picked(s)}])
IsTotalFold(F, S, v) ==
  \A s \in SUBSET S : F[s] = IF s = {} THEN 0 ELSE v[Picked(s)] + F[s \ {Picked(s)}]

LEMMA AddAssignType ==
  ASSUME NEW a \in Pairs, NEW b \in Pairs
  PROVE  AddAssign(a, b) \in Pairs
<1>1. \A w \in Int : Wrap(w) \in Int
  <2> SUFFICES ASSUME NEW w \in Int PROVE Wrap(w) \in Int
    OBVIOUS
  <2>1. Pow2[Budget + 1] \in Nat /\ Pow2[Budget + 2] \in Nat /\ Pow2[Budget + 2] > 0
    BY PowersPositive, HighestIsNat DEF Highest
  <2> QED
    BY <2>1 DEF Wrap
<1>2. a.grad + b.grad \in Int /\ a.hess + b.hess \in Int
  BY DEF Pairs
<1> QED
  BY <1>1, <1>2 DEF AddAssign, Pairs

LEMMA PairFold ==
  ASSUME NEW S, IsFiniteSet(S), NEW f, \A x \in S : f[x] \in Pairs
  PROVE  \E F : IsPairFold(F, S, f) /\ F[S] = SumOf(f, S)
<1> DEFINE pick == [s \in SUBSET S |-> Picked(s)]
           step == [p \in S \X Pairs |-> AddAssign(f[p[1]], p[2])]
           IsFold(F) == F = [s \in SUBSET S |->
                               IF s = {} THEN Zero
                               ELSE AddAssign(f[Picked(s)], F[s \ {Picked(s)}])]
<1>1. SumOf(f, S) = (CHOOSE F : IsFold(F))[S]
  BY DEF SumOf, FoldFunctionOnSet, MapThenFoldSet, Picked
<1>2. \A s \in SUBSET S : s # {} => Picked(s) \in s
  BY DEF Picked
<1>3. /\ \A s \in SUBSET S : pick[s] = Picked(s)
      /\ \A x \in S, w \in Pairs : step[<< x, w >>] = AddAssign(f[x], w)
  OBVIOUS
<1>4. \A x \in S, w \in Pairs : AddAssign(f[x], w) \in Pairs
  BY AddAssignType
<1> HIDE DEF pick, step
<1>5. PICK F \in [SUBSET S -> Pairs] : IsFoldOf(F, S, Zero, pick, step)
  <2>1. Zero \in Pairs
    BY DEF Zero, Pairs
  <2>2. FoldData(S, Pairs, Zero, pick, step)
    BY <1>2, <1>3, <1>4, <2>1 DEF FoldData
  <2> QED
    BY <2>2, FoldExists
<1>6. IsPairFold(F, S, f)
  <2> SUFFICES ASSUME NEW s \in SUBSET S
               PROVE  F[s] = IF s = {} THEN Zero ELSE AddAssign(f[Picked(s)], F[s \ {Picked(s)}])
    BY DEF IsPairFold
  <2>1. CASE s = {}
    BY <1>5, <2>1 DEF IsFoldOf
  <2>2. CASE s # {}
    <3>1. Picked(s) \in S /\ F[s \ {Picked(s)}] \in Pairs /\ pick[s] = Picked(s)
      BY <1>2, <1>3, <1>5, <2>2
    <3>2. F[s] = step[<< Picked(s), F[s \ {Picked(s)}] >>]
      BY <1>5, <2>2, <3>1 DEF IsFoldOf
    <3>3. F[s] = AddAssign(f[Picked(s)], F[s \ {Picked(s)}])
      BY <1>3, <3>1, <3>2
    <3> QED
      BY <2>2, <3>3
  <2> QED
    BY <2>1, <2>2
<1>7. IsFold(F)
  <2>1. F = [s \in SUBSET S |-> F[s]]
    BY <1>5
  <2>2. [s \in SUBSET S |-> F[s]] =
          [s \in SUBSET S |-> IF s = {} THEN Zero ELSE AddAssign(f[Picked(s)], F[s \ {Picked(s)}])]
    BY <1>6 DEF IsPairFold
  <2> QED
    BY <2>1, <2>2, Zenon
<1> DEFINE G == CHOOSE H : IsFold(H)
<1>8. IsFold(G)
  BY <1>7
<1>9. IsPairFold(G, S, f)
  <2>1. \A s \in SUBSET S :
          G[s] = IF s = {} THEN Zero ELSE AddAssign(f[Picked(s)], G[s \ {Picked(s)}])
    BY <1>8, Zenon
  <2> QED
    BY <2>1, Zenon DEF IsPairFold
<1>10. G[S] = SumOf(f, S)
  BY <1>1, Zenon
<1> QED
  BY <1>9, <1>10, Zenon

LEMMA TotalFold ==
  ASSUME NEW S, IsFiniteSet(S), NEW v, \A x \in S : v[x] \in Int
  PROVE  \E F : /\ IsTotalFold(F, S, v) /\ F[S] = Total(v, S)
                /\ \A s \in SUBSET S : F[s] \in Int
<1> DEFINE pick == [s \in SUBSET S |-> Picked(s)]
           step == [p \in S \X Int |-> v[p[1]] + p[2]]
           IsFold(F) == F = [s \in SUBSET S |->
                               IF s = {} THEN 0 ELSE v[Picked(s)] + F[s \ {Picked(s)}]]
<1>1. Total(v, S) = (CHOOSE F : IsFold(F))[S]
  BY DEF Total, FoldFunctionOnSet, MapThenFoldSet, Picked
<1>2. \A s \in SUBSET S : s # {} => Picked(s) \in s
  BY DEF Picked
<1>3. /\ \A s \in SUBSET S : pick[s] = Picked(s)
      /\ \A x \in S, w \in Int : step[<< x, w >>] = v[x] + w
  OBVIOUS
<1> HIDE DEF pick, step
<1>5. PICK F \in [SUBSET S -> Int] : IsFoldOf(F, S, 0, pick, step)
  <2>1. FoldData(S, Int, 0, pick, step)
    BY <1>2, <1>3 DEF FoldData
  <2> QED
    BY <2>1, FoldExists
<1>6. IsTotalFold(F, S, v)
  <2> SUFFICES ASSUME NEW s \in SUBSET S
               PROVE  F[s] = IF s = {} THEN 0 ELSE v[Picked(s)] + F[s \ {Picked(s)}]
    BY DEF IsTotalFold
  <2>1. CASE s = {}
    BY <1>5, <2>1 DEF IsFoldOf
  <2>2. CASE s # {}
    <3>1. Picked(s) \in S /\ F[s \ {Picked(s)}] \in Int /\ pick[s] = Picked(s)
      BY <1>2, <1>3, <1>5, <2>2
    <3>2. F[s] = step[<< Picked(s), F[s \ {Picked(s)}] >>]
      BY <1>5, <2>2, <3>1 DEF IsFoldOf
    <3>3. F[s] = v[Picked(s)] + F[s \ {Picked(s)}]
      BY <1>3, <3>1, <3>2
    <3> QED
      BY <2>2, <3>3
  <2> QED
    BY <2>1, <2>2
<1>7. IsFold(F)
  <2>1. F = [s \in SUBSET S |-> F[s]]
    BY <1>5
  <2>2. [s \in SUBSET S |-> F[s]] =
          [s \in SUBSET S |-> IF s = {} THEN 0 ELSE v[Picked(s)] + F[s \ {Picked(s)}]]
    BY <1>6 DEF IsTotalFold
  <2> QED
    BY <2>1, <2>2, Zenon
<1> DEFINE G == CHOOSE H : IsFold(H)
<1>8. IsFold(G)
  BY <1>7
<1>9. IsTotalFold(G, S, v)
  <2>1. \A s \in SUBSET S : G[s] = IF s = {} THEN 0 ELSE v[Picked(s)] + G[s \ {Picked(s)}]
    BY <1>8, Zenon
  <2> QED
    BY <2>1, Zenon DEF IsTotalFold
<1>10. G[S] = Total(v, S)
  BY <1>1, Zenon
<1> HIDE DEF G, IsFold
<1>11. \A s \in SUBSET S : F[s] = G[s]
  <2>1. AgreeStepwise(S, F, G)
    <3>1. F[{}] = G[{}]
      BY <1>6, <1>9 DEF IsTotalFold
    <3>2. \A s \in SUBSET S : s # {} => (F[s \ {Picked(s)}] = G[s \ {Picked(s)}] => F[s] = G[s])
      BY <1>6, <1>9 DEF IsTotalFold
    <3> QED
      BY <1>2, <3>1, <3>2 DEF AgreeStepwise
  <2> QED
    BY <2>1, FoldUnique
<1>12. \A s \in SUBSET S : G[s] \in Int
  BY <1>5, <1>11
<1> QED
  BY <1>9, <1>10, <1>12, Zenon

\* One element is taken away: the one the folds pick.
LEMMA TotalPart ==
  ASSUME NEW S, IsFiniteSet(S), NEW v, \A x \in S : v[x] \in Int, NEW F, IsTotalFold(F, S, v),
         NEW T \in SUBSET S
  PROVE  Total(v, T) = F[T]
<1>1. IsFiniteSet(T) /\ \A x \in T : v[x] \in Int
  BY FS_Subset
<1>2. PICK G : IsTotalFold(G, T, v) /\ G[T] = Total(v, T)
  BY <1>1, TotalFold
<1>3. AgreeStepwise(T, F, G)
  <2>1. F[{}] = G[{}]
    BY <1>2 DEF IsTotalFold
  <2>2. \A s \in SUBSET T : s # {} => Picked(s) \in s /\ (F[s \ {Picked(s)}] = G[s \ {Picked(s)}] => F[s] = G[s])
    <3> SUFFICES ASSUME NEW s \in SUBSET T, s # {}, F[s \ {Picked(s)}] = G[s \ {Picked(s)}]
                 PROVE  F[s] = G[s]
      BY DEF Picked
    <3>1. s \in SUBSET S
      OBVIOUS
    <3> QED
      BY <1>2, <3>1 DEF IsTotalFold
  <2> QED
    BY <2>1, <2>2 DEF AgreeStepwise
<1> QED
  BY <1>1, <1>2, <1>3, FoldUnique

LEMMA TotalStep ==
  ASSUME NEW S, IsFiniteSet(S), NEW v, \A x \in S : v[x] \in Int
  PROVE  /\ Total(v, S) \in Int
         /\ S = {} => Total(v, S) = 0
         /\ S # {} => /\ Picked(S) \in S
                      /\ Total(v, S) = v[Picked(S)] + Total(v, S \ {Picked(S)})
<1>1. PICK F : /\ IsTotalFold(F, S, v) /\ F[S] = Total(v, S)
               /\ \A s \in SUBSET S : F[s] \in Int
  BY TotalFold
<1>2. S \in SUBSET S
  OBVIOUS
<1>3. CASE S = {}
  BY <1>1, <1>2, <1>3 DEF IsTotalFold
<1>4. CASE S # {}
  <2>1. Picked(S) \in S
    BY <1>4 DEF Picked
  <2>2. F[S] = v[Picked(S)] + F[S \ {Picked(S)}]
    BY <1>1, <1>2, <1>4 DEF IsTotalFold
  <2>3. Total(v, S \ {Picked(S)}) = F[S \ {Picked(S)}]
    BY <1>1, TotalPart
  <2> QED
    BY <1>1, <1>4, <2>1, <2>2, <2>3
<1> QED
  BY <1>3, <1>4

LEMMA PairPart ==
  ASSUME NEW S, IsFiniteSet(S), NEW f, \A x \in S : f[x] \in Pairs, NEW F, IsPairFold(F, S, f),
         NEW T \in SUBSET S
  PROVE  SumOf(f, T) = F[T]
<1>1. IsFiniteSet(T) /\ \A x \in T : f[x] \in Pairs
  BY FS_Subset
<1>2. PICK G : IsPairFold(G, T, f) /\ G[T] = SumOf(f, T)
  BY <1>1, PairFold
<1>3. AgreeStepwise(T, F, G)
  <2>1. F[{}] = G[{}]
    BY <1>2 DEF IsPairFold
  <2>2. \A s \in SUBSET T : s # {} => Picked(s) \in s /\ (F[s \ {Picked(s)}] = G[s \ {Picked(s)}] => F[s] = G[s])
    <3> SUFFICES ASSUME NEW s \in SUBSET T, s # {}, F[s \ {Picked(s)}] = G[s \ {Picked(s)}]
                 PROVE  F[s] = G[s]
      BY DEF Picked
    <3>1. s \in SUBSET S
      OBVIOUS
    <3> QED
      BY <1>2, <3>1 DEF IsPairFold
  <2> QED
    BY <2>1, <2>2 DEF AgreeStepwise
<1> QED
  BY <1>1, <1>2, <1>3, FoldUnique

LEMMA PairStep ==
  ASSUME NEW S, IsFiniteSet(S), NEW f, \A x \in S : f[x] \in Pairs
  PROVE  /\ S = {} => SumOf(f, S) = Zero
         /\ S # {} => /\ Picked(S) \in S
                      /\ SumOf(f, S) = AddAssign(f[Picked(S)], SumOf(f, S \ {Picked(S)}))
<1>1. PICK F : IsPairFold(F, S, f) /\ F[S] = SumOf(f, S)
  BY PairFold
<1>2. S \in SUBSET S
  OBVIOUS
<1>3. CASE S = {}
  BY <1>1, <1>2, <1>3 DEF IsPairFold
<1>4. CASE S # {}
  <2>1. Picked(S) \in S
    BY <1>4 DEF Picked
  <2>2. F[S] = AddAssign(f[Picked(S)], F[S \ {Picked(S)}])
    BY <1>1, <1>2, <1>4 DEF IsPairFold
  <2>3. SumOf(f, S \ {Picked(S)}) = F[S \ {Picked(S)}]
    BY <1>1, PairPart
  <2> QED
    BY <1>1, <1>4, <2>1, <2>2, <2>3
<1> QED
  BY <1>3, <1>4

\* A set of subsets that has the empty one and every one whose rest it has, for the element
\* the folds pick, has them all.
LEMMA SubsetInduction ==
  ASSUME NEW S, IsFiniteSet(S), NEW A \in SUBSET SUBSET S, {} \in A,
         \A s \in SUBSET S : s # {} /\ s \ {Picked(s)} \in A => s \in A
  PROVE  A = SUBSET S
<1> DEFINE K == {k \in Nat : \A s \in SUBSET S : Cardinality(s) = k => s \in A}
<1>1. \A s \in SUBSET S : IsFiniteSet(s) /\ Cardinality(s) \in Nat
  BY FS_Subset, FS_CardinalityType
<1>2. 0 \in K
  BY <1>1, FS_EmptySet
<1>3. ASSUME NEW k \in K PROVE k + 1 \in K
  <2>1. k \in Nat /\ \A s \in SUBSET S : Cardinality(s) = k => s \in A
    OBVIOUS
  <2>2. ASSUME NEW s \in SUBSET S, Cardinality(s) = k + 1 PROVE s \in A
    <3>1. s # {}
      BY <1>1, <2>1, <2>2, FS_EmptySet
    <3>2. Picked(s) \in s /\ s \ {Picked(s)} \in SUBSET S
      BY <3>1 DEF Picked
    <3>3. Cardinality(s \ {Picked(s)}) = k
      BY <1>1, <2>1, <2>2, <3>2, SmallerSets
    <3> QED
      BY <2>1, <3>1, <3>2, <3>3
  <2> QED
    BY <2>1, <2>2
<1>4. K \in SUBSET Nat
  OBVIOUS
<1> HIDE DEF K
<1>5. \A k \in Nat : k \in K
  BY <1>2, <1>3, <1>4, NatSetInduction
<1>6. \A s \in SUBSET S : s \in A
  BY <1>1, <1>5 DEF K
<1> QED
  BY <1>6

LEMMA SumSame ==
  ASSUME NEW S, IsFiniteSet(S), NEW f, NEW g, \A x \in S : f[x] \in Pairs /\ g[x] = f[x]
  PROVE  SumOf(f, S) = SumOf(g, S)
<1> DEFINE A == {s \in SUBSET S : SumOf(f, s) = SumOf(g, s)}
<1>1. \A s \in SUBSET S : IsFiniteSet(s) /\ \A x \in s : f[x] \in Pairs /\ g[x] \in Pairs
  BY FS_Subset
<1>2. {} \in A
  BY <1>1, PairStep
<1>3. ASSUME NEW s \in SUBSET S, s # {}, s \ {Picked(s)} \in A PROVE s \in A
  <2>1. Picked(s) \in s /\ SumOf(f, s) = AddAssign(f[Picked(s)], SumOf(f, s \ {Picked(s)}))
    BY <1>1, <1>3, PairStep
  <2>2. SumOf(g, s) = AddAssign(g[Picked(s)], SumOf(g, s \ {Picked(s)}))
    BY <1>1, <1>3, PairStep
  <2>3. SumOf(f, s \ {Picked(s)}) = SumOf(g, s \ {Picked(s)}) /\ f[Picked(s)] = g[Picked(s)]
    BY <1>3, <2>1
  <2> QED
    BY <2>1, <2>2, <2>3
<1>4. A \in SUBSET SUBSET S
  OBVIOUS
<1> HIDE DEF A
<1>5. S \in A
  BY <1>2, <1>3, <1>4, SubsetInduction
<1> QED
  BY <1>5 DEF A

----------------------------------------------------------------------------
(***************************************************************************)
(* Sums that do not wrap                                                   *)
(***************************************************************************)

Half == Pow2[Budget + 1]
Narrow(x) == x \in Int /\ -Half <= x /\ x < Half

LEMMA WrapNarrow ==
  ASSUME NEW x, Narrow(x)
  PROVE  Wrap(x) = x
<1>1. /\ Half \in Nat /\ Half > 0 /\ Pow2[Budget + 2] = 2 * Half
  <2>1. Budget + 1 \in 0..Highest /\ Budget + 2 \in 0..Highest /\ (Budget + 2) - 1 = Budget + 1
        /\ Budget + 2 # 0
    BY HighestIsNat DEF Highest
  <2> QED
    BY <2>1, Powers, PowersPositive DEF Half
<1>2. x + Half \in Nat /\ x + Half < 2 * Half
  BY <1>1 DEF Narrow
<1>3. ASSUME NEW a \in Nat, NEW m \in Nat, a < m PROVE a % m = a
  BY <1>3
<1>4. (x + Half) % (2 * Half) = x + Half
  <2>1. 2 * Half \in Nat
    BY <1>1
  <2> QED
    BY <1>2, <1>3, <2>1
<1> QED
  BY <1>1, <1>4 DEF Wrap, Half, Narrow

\* If no sum over a part of S is wide, the sum of pairs is the pair of the sums.
Separate(f, v, w, S) == \A x \in S : f[x] \in Pairs /\ v[x] = f[x].grad /\ w[x] = f[x].hess
AllNarrow(v, S) == \A s \in SUBSET S : Narrow(Total(v, s))

LEMMA SumIsExact ==
  ASSUME NEW S, IsFiniteSet(S), NEW f, NEW v, NEW w, Separate(f, v, w, S),
         AllNarrow(v, S), AllNarrow(w, S)
  PROVE  SumOf(f, S) = [grad |-> Total(v, S), hess |-> Total(w, S)]
<1> DEFINE A == {s \in SUBSET S : SumOf(f, s) = [grad |-> Total(v, s), hess |-> Total(w, s)]}
<1>1. \A s \in SUBSET S : IsFiniteSet(s) /\ \A x \in s : f[x] \in Pairs /\ v[x] \in Int /\ w[x] \in Int
  BY FS_Subset DEF Separate, Pairs
<1>2. {} \in A
  <2>1. SumOf(f, {}) = Zero /\ Total(v, {}) = 0 /\ Total(w, {}) = 0
    BY <1>1, PairStep, TotalStep
  <2> QED
    BY <2>1 DEF Zero
<1>3. ASSUME NEW s \in SUBSET S, s # {}, s \ {Picked(s)} \in A PROVE s \in A
  <2> DEFINE x == Picked(s)
             r == s \ {x}
  <2>1. x \in s /\ SumOf(f, s) = AddAssign(f[x], SumOf(f, r))
    BY <1>1, <1>3, PairStep
  <2>2. /\ Total(v, s) = v[x] + Total(v, r)
        /\ Total(w, s) = w[x] + Total(w, r)
    BY <1>1, <1>3, TotalStep
  <2>3. SumOf(f, r) = [grad |-> Total(v, r), hess |-> Total(w, r)]
    BY <1>3
  <2>4. v[x] = f[x].grad /\ w[x] = f[x].hess
    BY <2>1 DEF Separate
  <2>5. Wrap(Total(v, s)) = Total(v, s) /\ Wrap(Total(w, s)) = Total(w, s)
    BY WrapNarrow DEF AllNarrow
  <2> HIDE DEF x, r
  <2>6. SumOf(f, s) = [grad |-> Total(v, s), hess |-> Total(w, s)]
    BY <2>1, <2>2, <2>3, <2>4, <2>5 DEF AddAssign
  <2> QED
    BY <2>6
<1>4. A \in SUBSET SUBSET S
  OBVIOUS
<1> HIDE DEF A
<1>5. S \in A
  BY <1>2, <1>3, <1>4, SubsetInduction
<1> QED
  BY <1>5 DEF A

\* A total is at most the number of its parts times the largest of them.
LEMMA TotalBound ==
  ASSUME NEW S, IsFiniteSet(S), NEW v, NEW q \in Nat,
         \A x \in S : v[x] \in Int /\ -q <= v[x] /\ v[x] <= q
  PROVE  \A s \in SUBSET S : /\ Total(v, s) \in Int
                             /\ -(q * Cardinality(s)) <= Total(v, s)
                             /\ Total(v, s) <= q * Cardinality(s)
<1> DEFINE A == {s \in SUBSET S : /\ -(q * Cardinality(s)) <= Total(v, s)
                                  /\ Total(v, s) <= q * Cardinality(s)}
<1>1. \A s \in SUBSET S : /\ IsFiniteSet(s) /\ Cardinality(s) \in Nat
                          /\ \A x \in s : v[x] \in Int
  BY FS_Subset, FS_CardinalityType
<1>2. \A s \in SUBSET S : Total(v, s) \in Int
  BY <1>1, TotalStep
<1>3. {} \in A
  <2>1. Total(v, {}) = 0 /\ Cardinality({}) = 0
    BY <1>1, TotalStep, FS_EmptySet
  <2> QED
    BY <2>1
<1>4. ASSUME NEW s \in SUBSET S, s # {}, s \ {Picked(s)} \in A PROVE s \in A
  <2> DEFINE x == Picked(s)
             r == s \ {x}
             c == Cardinality(r)
  <2>1. x \in s /\ Total(v, s) = v[x] + Total(v, r)
    BY <1>1, <1>4, TotalStep
  <2>2. Cardinality(s) = c + 1 /\ c \in Nat
    BY <1>1, <2>1, SmallerSets
  <2>3. -(q * c) <= Total(v, r) /\ Total(v, r) <= q * c /\ Total(v, r) \in Int
    BY <1>2, <1>4
  <2>4. q * (c + 1) = q * c + q /\ q * c \in Nat
    BY <2>2
  <2> HIDE DEF c, r, x
  <2>5. v[x] \in Int /\ -q <= v[x] /\ v[x] <= q
    BY <2>1
  <2>6. -(q * (c + 1)) <= Total(v, s) /\ Total(v, s) <= q * (c + 1)
    BY <2>1, <2>3, <2>4, <2>5
  <2> QED
    BY <2>2, <2>6
<1>5. A \in SUBSET SUBSET S
  OBVIOUS
<1> HIDE DEF A
<1>6. \A s \in SUBSET S : s \in A
  BY <1>3, <1>4, <1>5, SubsetInduction
<1> QED
  BY <1>2, <1>6 DEF A

LEMMA TotalPick ==
  ASSUME NEW S, IsFiniteSet(S), NEW v, \A x \in S : v[x] \in Int
  PROVE  \A s \in SUBSET S : /\ IsFiniteSet(s) /\ Cardinality(s) \in Nat /\ Total(v, s) \in Int
                             /\ s = {} => Total(v, s) = 0
                             /\ s # {} => \E x \in s : Total(v, s) = v[x] + Total(v, s \ {x})
<1> SUFFICES ASSUME NEW s \in SUBSET S
             PROVE  /\ IsFiniteSet(s) /\ Cardinality(s) \in Nat /\ Total(v, s) \in Int
                    /\ s = {} => Total(v, s) = 0
                    /\ s # {} => \E x \in s : Total(v, s) = v[x] + Total(v, s \ {x})
  OBVIOUS
<1>1. IsFiniteSet(s) /\ Cardinality(s) \in Nat /\ \A x \in s : v[x] \in Int
  BY FS_Subset, FS_CardinalityType
<1> QED
  BY <1>1, TotalStep

\* One element is taken away: any.
LEMMA TotalRemove ==
  ASSUME NEW S, IsFiniteSet(S), NEW v, \A x \in S : v[x] \in Int, NEW x \in S
  PROVE  Total(v, S) = v[x] + Total(v, S \ {x})
<1> DEFINE K == {k \in Nat : \A s \in SUBSET S : Cardinality(s) = k =>
                   \A y \in s : Total(v, s) = v[y] + Total(v, s \ {y})}
<1>1. \A s \in SUBSET S : IsFiniteSet(s) /\ Cardinality(s) \in Nat /\ Total(v, s) \in Int
  BY TotalPick
<1>2. 0 \in K
  BY <1>1, FS_EmptySet
<1>3. ASSUME NEW k \in K PROVE k + 1 \in K
  <2>1. k \in Nat /\ \A s \in SUBSET S : Cardinality(s) = k =>
                       \A y \in s : Total(v, s) = v[y] + Total(v, s \ {y})
    OBVIOUS
  <2>2. ASSUME NEW s \in SUBSET S, Cardinality(s) = k + 1, NEW y \in s
        PROVE  Total(v, s) = v[y] + Total(v, s \ {y})
    <3>1. PICK z \in s : Total(v, s) = v[z] + Total(v, s \ {z})
      BY TotalPick
    <3>2. CASE y = z
      BY <3>1, <3>2
    <3>3. CASE y # z
      <4>1. s \ {z} \in SUBSET S /\ s \ {y} \in SUBSET S /\ s \ {y, z} \in SUBSET S
            /\ y \in s \ {z} /\ z \in s \ {y}
            /\ (s \ {z}) \ {y} = s \ {y, z} /\ (s \ {y}) \ {z} = s \ {y, z}
        BY <3>3
      <4>2. Cardinality(s \ {z}) = k /\ Cardinality(s \ {y}) = k
        BY <1>1, <2>1, <2>2, SmallerSets
      <4>3. Total(v, s \ {z}) = v[y] + Total(v, s \ {y, z})
        BY <2>1, <4>1, <4>2
      <4>4. Total(v, s \ {y}) = v[z] + Total(v, s \ {y, z})
        BY <2>1, <4>1, <4>2
      <4>5. v[y] \in Int /\ v[z] \in Int /\ Total(v, s \ {y, z}) \in Int
        BY <1>1, <4>1
      <4> QED
        BY <3>1, <4>3, <4>4, <4>5
    <3> QED
      BY <3>2, <3>3
  <2> QED
    BY <2>1, <2>2
<1>4. K \in SUBSET Nat
  OBVIOUS
<1> HIDE DEF K
<1>5. Cardinality(S) \in K /\ S \in SUBSET S
  BY <1>1, <1>2, <1>3, <1>4, NatSetInduction
<1> QED
  BY <1>5 DEF K

\* The total of two sets without a common element is the sum of their totals.
LEMMA TotalUnion ==
  ASSUME NEW S, IsFiniteSet(S), NEW v, \A x \in S : v[x] \in Int,
         NEW A \in SUBSET S, NEW B \in SUBSET S, A \cap B = {}
  PROVE  Total(v, A \cup B) = Total(v, A) + Total(v, B)
<1> DEFINE D == {s \in SUBSET A : Total(v, s \cup B) = Total(v, s) + Total(v, B)}
<1>1. \A s \in SUBSET S : IsFiniteSet(s) /\ Total(v, s) \in Int /\ (s = {} => Total(v, s) = 0)
  BY TotalPick
<1>2. {} \in D
  <2>1. Total(v, B) \in Int /\ Total(v, {}) = 0
    BY <1>1
  <2>2. {} \cup B = B
    OBVIOUS
  <2>3. Total(v, {} \cup B) = Total(v, B)
    BY <2>2, Zenon
  <2>4. Total(v, {} \cup B) = Total(v, {}) + Total(v, B)
    BY <2>1, <2>3
  <2> QED
    BY <2>4
<1>3. ASSUME NEW s \in SUBSET A, s # {}, s \ {Picked(s)} \in D PROVE s \in D
  <2> DEFINE x == Picked(s)
             r == s \ {x}
  <2>1. x \in s
    BY <1>3 DEF Picked
  <2>2. /\ s \in SUBSET S /\ s \cup B \in SUBSET S /\ r \in SUBSET S /\ r \cup B \in SUBSET S
        /\ (s \cup B) \ {x} = r \cup B /\ x \in s \cup B /\ x \in S
    BY <2>1
  <2>3. Total(v, r \cup B) = Total(v, r) + Total(v, B)
    BY <1>3
  <2>4. Total(v, s \cup B) = v[x] + Total(v, r \cup B)
    <3>1. IsFiniteSet(s \cup B) /\ \A y \in s \cup B : v[y] \in Int
      BY <1>1, <2>2
    <3>2. Total(v, s \cup B) = v[x] + Total(v, (s \cup B) \ {x})
      BY <2>2, <3>1, TotalRemove
    <3> QED
      BY <2>2, <3>2
  <2>5. Total(v, s) = v[x] + Total(v, r)
    <3>1. IsFiniteSet(s) /\ \A y \in s : v[y] \in Int
      BY <1>1, <2>2
    <3> QED
      BY <2>1, <3>1, TotalRemove
  <2>6. v[x] \in Int /\ Total(v, r) \in Int /\ Total(v, B) \in Int
    BY <1>1, <2>2
  <2> HIDE DEF x, r
  <2>7. Total(v, s \cup B) = Total(v, s) + Total(v, B)
    BY <2>3, <2>4, <2>5, <2>6
  <2> QED
    BY <2>7
<1>4. D \in SUBSET SUBSET A /\ IsFiniteSet(A)
  BY <1>1
<1> HIDE DEF D
<1>5. \A s \in SUBSET A : s # {} /\ s \ {Picked(s)} \in D => s \in D
  BY <1>3, Zenon
<1>6. D = SUBSET A
  BY <1>2, <1>4, <1>5, SubsetInduction
<1>7. A \in D
  BY <1>6
<1> QED
  BY <1>7 DEF D

\* Totals over groups of elements add up to the total of all of them.
Grouped(S, group, T) == {x \in S : group[x] \in T}

GroupTotals(S, v, group, T, u) ==
  /\ IsFiniteSet(S) /\ \A x \in S : v[x] \in Int
  /\ IsFiniteSet(T) /\ \A b \in T : u[b] = Total(v, Grouped(S, group, {b}))

LEMMA TotalGroups ==
  ASSUME NEW S, NEW v, NEW group, NEW T, NEW u, GroupTotals(S, v, group, T, u)
  PROVE  \A t \in SUBSET T : Total(u, t) = Total(v, Grouped(S, group, t))
<1> USE DEF GroupTotals
<1> DEFINE D == {t \in SUBSET T : Total(u, t) = Total(v, Grouped(S, group, t))}
<1>1. \A s \in SUBSET S : IsFiniteSet(s) /\ Total(v, s) \in Int /\ (s = {} => Total(v, s) = 0)
  BY TotalPick
<1>2. \A t \in SUBSET T : Grouped(S, group, t) \in SUBSET S
  BY DEF Grouped
<1>3. \A b \in T : u[b] \in Int
  <2> SUFFICES ASSUME NEW b \in T PROVE u[b] \in Int
    OBVIOUS
  <2>1. Grouped(S, group, {b}) \in SUBSET S
    BY DEF Grouped
  <2> QED
    BY <1>1, <2>1
<1>4. \A t \in SUBSET T : /\ IsFiniteSet(t) /\ \A b \in t : u[b] \in Int
                          /\ t = {} => Total(u, t) = 0
  BY <1>3, TotalPick
<1>5. {} \in D
  <2>1. Grouped(S, group, {}) = {}
    BY DEF Grouped
  <2> QED
    BY <1>1, <1>4, <2>1
<1>6. ASSUME NEW t \in SUBSET T, t # {}, t \ {Picked(t)} \in D PROVE t \in D
  <2> DEFINE b == Picked(t)
             r == t \ {b}
  <2>1. b \in t /\ Total(u, t) = u[b] + Total(u, r)
    BY <1>4, <1>6, TotalStep
  <2>2. Total(u, r) = Total(v, Grouped(S, group, r))
    BY <1>6
  <2>3. /\ Grouped(S, group, t) = Grouped(S, group, {b}) \cup Grouped(S, group, r)
        /\ Grouped(S, group, {b}) \cap Grouped(S, group, r) = {}
        /\ Grouped(S, group, {b}) \in SUBSET S /\ Grouped(S, group, r) \in SUBSET S
    BY <2>1 DEF Grouped
  <2>4. Total(v, Grouped(S, group, t)) = Total(v, Grouped(S, group, {b})) + Total(v, Grouped(S, group, r))
    <3> DEFINE one == Grouped(S, group, {b})
               rest == Grouped(S, group, r)
    <3>1. one \in SUBSET S /\ rest \in SUBSET S /\ one \cap rest = {}
          /\ Grouped(S, group, t) = one \cup rest
      BY <2>3
    <3> HIDE DEF one, rest
    <3>2. Total(v, one \cup rest) = Total(v, one) + Total(v, rest)
      BY <3>1, TotalUnion
    <3> QED
      BY <3>1, <3>2 DEF one, rest
  <2>5. u[b] = Total(v, Grouped(S, group, {b}))
    BY <2>1
  <2> HIDE DEF b, r
  <2>6. Total(u, t) = Total(v, Grouped(S, group, t))
    BY <2>1, <2>2, <2>4, <2>5
  <2> QED
    BY <2>6
<1>7. D \in SUBSET SUBSET T
  OBVIOUS
<1> HIDE DEF D
<1>8. \A t \in SUBSET T : t \in D
  BY <1>5, <1>6, <1>7, SubsetInduction
<1> QED
  BY <1>8 DEF D

----------------------------------------------------------------------------
(***************************************************************************)
(* Largest elements                                                        *)
(***************************************************************************)

IsMax(m, S) == m \in S /\ \A y \in S : m >= y

LEMMA MaxIs ==
  ASSUME NEW S \in SUBSET Int, NEW m, IsMax(m, S)
  PROVE  Max(S) = m
<1>1. Max(S) \in S /\ \A y \in S : Max(S) >= y
  <2>1. \E x \in S : \A y \in S : x >= y
    BY DEF IsMax
  <2> QED
    BY <2>1, Zenon DEF Max
<1>2. Max(S) \in Int /\ m \in Int /\ Max(S) >= m /\ m >= Max(S)
  BY <1>1 DEF IsMax
<1> QED
  BY <1>2

LEMMA MaxOfFinite ==
  ASSUME NEW S, IsFiniteSet(S), S \in SUBSET Int, S # {}
  PROVE  IsMax(Max(S), S)
<1> DEFINE D == {s \in SUBSET S : s # {} => \E m : IsMax(m, s)}
<1>1. {} \in D
  OBVIOUS
<1>2. ASSUME NEW s \in SUBSET S, s # {}, s \ {Picked(s)} \in D PROVE s \in D
  <2> DEFINE x == Picked(s)
             r == s \ {x}
  <2>1. x \in s /\ x \in Int
    BY <1>2 DEF Picked
  <2>2. CASE r = {}
    <3>1. \A y \in s : y = x
      BY <2>2
    <3> HIDE DEF x, r
    <3>2. IsMax(x, s)
      BY <2>1, <3>1 DEF IsMax
    <3> QED
      BY <3>2
  <2>3. CASE r # {}
    <3>1. PICK m : IsMax(m, r)
      BY <1>2, <2>3
    <3>2. m \in Int /\ m \in s /\ \A y \in s : y \in Int /\ (y = x \/ m >= y)
      BY <3>1 DEF IsMax
    <3> HIDE DEF x, r
    <3>3. CASE m >= x
      <4>1. IsMax(m, s)
        BY <3>2, <3>3 DEF IsMax
      <4> QED
        BY <4>1
    <3>4. CASE ~(m >= x)
      <4>1. IsMax(x, s)
        BY <2>1, <3>2, <3>4 DEF IsMax
      <4> QED
        BY <4>1
    <3> QED
      BY <3>3, <3>4
  <2> QED
    BY <2>2, <2>3
<1>3. D \in SUBSET SUBSET S
  OBVIOUS
<1> HIDE DEF D
<1>4. S \in D
  <2>1. D = SUBSET S
    BY <1>1, <1>2, <1>3, SubsetInduction
  <2> QED
    BY <2>1
<1>5. PICK m : IsMax(m, S)
  BY <1>4 DEF D
<1> QED
  BY <1>5, MaxIs

----------------------------------------------------------------------------
(***************************************************************************)
(* Scaled values                                                           *)
(***************************************************************************)

\* QuantizeValue before it wraps.
Scaled(v, k) == IF k >= 0 THEN v * Pow2[k] ELSE RoundDiv(v, Pow2[-k])
Limit == Pow2[Budget] + NRows \div 2
FitsScale(m, k) == IF k >= 0 THEN m * NRows * Pow2[k] <= Pow2[Budget]
                   ELSE m * NRows <= Pow2[Budget - k]

LEMMA Numbers ==
  /\ NRows \in Nat /\ NRows > 0 /\ NBlocks \in Nat /\ NBlocks > 0
  /\ NonFinite \in Nat /\ NonFinite > 0
  /\ Pow2[Budget] \in Nat /\ Pow2[Budget] > 0 /\ NRows <= Pow2[Budget]
  /\ Half = 2 * Pow2[Budget]
<1>1. Budget \in 0..Highest /\ Budget + 1 \in 0..Highest /\ (Budget + 1) - 1 = Budget
      /\ Budget + 1 # 0
  BY HighestIsNat DEF Highest
<1>2. Pow2[Budget + 1] = 2 * Pow2[Budget] /\ Pow2[Budget] \in Nat /\ Pow2[Budget] > 0
  BY <1>1, Powers, PowersPositive
<1> QED
  BY <1>2, QuantizerParams DEF Half

\* The limit of a sum is well within i64.
LEMMA LimitIsNarrow ==
  /\ Limit \in Nat
  /\ \A x \in Int : -Limit <= x /\ x <= Limit => Narrow(x)
<1>1. NRows \div 2 \in Nat /\ NRows \div 2 < NRows
  <2>1. ASSUME NEW n \in Nat, n > 0 PROVE n \div 2 \in Nat /\ n \div 2 < n
    BY <2>1
  <2> QED
    BY <2>1, Numbers
<1>2. Limit \in Nat /\ Limit < Half
  BY <1>1, Numbers DEF Limit
<1>3. Half \in Nat
  BY Numbers
<1> QED
  BY <1>2, <1>3 DEF Narrow

LEMMA Product ==
  /\ \A a \in Nat, b \in Nat : a * b \in Nat
  /\ \A a \in Nat, b \in Nat, c \in Nat : a <= b => a * c <= b * c /\ c * a <= c * b
OBVIOUS

LEMMA DivBounds ==
  ASSUME NEW a \in Nat, NEW b \in Nat, b > 0
  PROVE  /\ a \div b \in Nat
         /\ b * (a \div b) <= a /\ a < b * (a \div b) + b
<1>1. ASSUME NEW p \in Int, p = a \div b PROVE p * b <= a /\ a < p * b + b /\ p >= 0
  BY <1>1
<1>2. a \div b \in Int
  OBVIOUS
<1>3. ASSUME NEW p \in Int PROVE p * b = b * p
  OBVIOUS
<1> QED
  BY <1>1, <1>2, <1>3

LEMMA ScaleExists ==
  ASSUME NEW m \in Nat, m < NonFinite, m # 0
  PROVE  PowScale(m) \in Exponents /\ FitsScale(m, PowScale(m))
<1> DEFINE K == {k \in Exponents : FitsScale(m, k)}
<1>1. IsFiniteSet(K) /\ K \in SUBSET Int
  <2>1. IsFiniteSet(Exponents)
    BY FS_Interval, HighestIsNat DEF Exponents
  <2>2. K \in SUBSET Exponents /\ Exponents \in SUBSET Int
    BY DEF Exponents
  <2> HIDE DEF K
  <2> QED
    BY <2>1, <2>2, FS_Subset
<1>2. K # {}
  <2>1. m * NRows <= Pow2[Budget + Clamp]
    <3>1. m * NRows <= NonFinite * NRows
      BY Numbers, Product
    <3>2. NonFinite * NRows <= Pow2[Budget + Clamp]
      BY QuantizerParams
    <3>3. Pow2[Budget + Clamp] \in Nat
      <4>1. Budget + Clamp \in 0..Highest
        BY HighestIsNat DEF Highest
      <4> QED
        BY <4>1, PowersPositive
    <3>4. m * NRows \in Nat /\ NonFinite * NRows \in Nat
      BY Numbers, Product
    <3> QED
      BY <3>1, <3>2, <3>3, <3>4
  <2>2. -Clamp \in Exponents
    BY HighestIsNat DEF Exponents
  <2>3. CASE Clamp = 0
    <3>1. -Clamp >= 0 /\ -Clamp = 0 /\ Budget + Clamp = Budget
      <4>1. -Clamp >= 0 /\ -Clamp <= 0 /\ -Clamp \in Int /\ Budget + Clamp = Budget
        BY <2>3, HighestIsNat
      <4>2. ASSUME NEW x \in Int, x >= 0, x <= 0 PROVE x = 0
        BY <4>2
      <4> QED
        BY <4>1, <4>2
    <3>2. m * NRows * Pow2[-Clamp] = m * NRows
      <4>1. m * NRows \in Nat
        BY Numbers, Product
      <4> QED
        BY <3>1, <4>1, Powers
    <3>3. FitsScale(m, -Clamp)
      BY <2>1, <3>1, <3>2 DEF FitsScale
    <3> QED
      BY <2>2, <3>3
  <2>4. CASE Clamp # 0
    <3>1. ~(-Clamp >= 0) /\ Budget - (-Clamp) = Budget + Clamp
      BY <2>4, HighestIsNat
    <3>2. FitsScale(m, -Clamp)
      BY <2>1, <3>1 DEF FitsScale
    <3> QED
      BY <2>2, <3>2
  <2> QED
    BY <2>3, <2>4
<1>3. PowScale(m) = Max(K)
  BY DEF PowScale, FitsScale
<1>4. Max(K) \in K
  <2> HIDE DEF K
  <2> QED
    BY <1>1, <1>2, MaxOfFinite DEF IsMax
<1> QED
  BY <1>3, <1>4

LEMMA Rounded ==
  ASSUME NEW v \in Int, NEW m \in Nat, -m <= v, v <= m, NEW d \in Nat, d > 0
  PROVE  /\ RoundDiv(v, d) \in Int
         /\ -((2 * m + d) \div (2 * d)) <= RoundDiv(v, d)
         /\ RoundDiv(v, d) <= (2 * m + d) \div (2 * d)
<1>1. ASSUME NEW a \in Nat, NEW b \in Nat, NEW c \in Nat, c > 0, a <= b
      PROVE  a \div c \in Nat /\ b \div c \in Nat /\ a \div c <= b \div c
  <2>1. a \div c \in Nat /\ c * (a \div c) <= a
    BY <1>1, DivBounds
  <2>2. b \div c \in Nat /\ b < c * (b \div c) + c
    BY <1>1, DivBounds
  <2>3. ASSUME NEW p \in Nat, NEW q \in Nat, c * p < c * q + c PROVE p <= q
    <3>1. SUFFICES ASSUME q + 1 <= p PROVE FALSE
      OBVIOUS
    <3>2. c * (q + 1) <= c * p
      BY <3>1, Product
    <3>3. c * (q + 1) = c * q + c /\ c * q \in Nat /\ c * p \in Nat
      BY Product
    <3> QED
      BY <2>3, <3>2, <3>3
  <2>4. c * (a \div c) \in Nat /\ c * (b \div c) \in Nat
    BY <2>1, <2>2, Product
  <2>5. c * (a \div c) < c * (b \div c) + c
    BY <1>1, <2>1, <2>2, <2>4
  <2> QED
    BY <2>1, <2>2, <2>3, <2>5
<1>2. CASE v < 0
  <2>1. -2 * v + d \in Nat /\ 2 * m + d \in Nat /\ 2 * d \in Nat /\ 2 * d > 0
        /\ -2 * v + d <= 2 * m + d
    BY <1>2
  <2>2. /\ (-2 * v + d) \div (2 * d) \in Nat /\ (2 * m + d) \div (2 * d) \in Nat
        /\ (-2 * v + d) \div (2 * d) <= (2 * m + d) \div (2 * d)
    BY <1>1, <2>1
  <2>3. RoundDiv(v, d) = -((-2 * v + d) \div (2 * d))
    BY <1>2 DEF RoundDiv
  <2> QED
    BY <2>2, <2>3
<1>3. CASE ~(v < 0)
  <2>1. 2 * v + d \in Nat /\ 2 * m + d \in Nat /\ 2 * d \in Nat /\ 2 * d > 0
        /\ 2 * v + d <= 2 * m + d
    BY <1>3
  <2>2. /\ (2 * v + d) \div (2 * d) \in Nat /\ (2 * m + d) \div (2 * d) \in Nat
        /\ (2 * v + d) \div (2 * d) <= (2 * m + d) \div (2 * d)
    BY <1>1, <2>1
  <2>3. RoundDiv(v, d) = (2 * v + d) \div (2 * d)
    BY <1>3 DEF RoundDiv
  <2> QED
    BY <2>2, <2>3
<1> QED
  BY <1>2, <1>3

\* With the scale of the largest magnitude, no row of a total has more than its share.
LEMMA ScaleFits ==
  ASSUME NEW m \in Nat, m < NonFinite
  PROVE  /\ PowScale(m) \in Exponents
         /\ \E q \in Nat : /\ NRows * q <= Limit
                           /\ \A v \in Int : -m <= v /\ v <= m =>
                                /\ Scaled(v, PowScale(m)) \in Int
                                /\ -q <= Scaled(v, PowScale(m)) /\ Scaled(v, PowScale(m)) <= q
<1> DEFINE k == PowScale(m)
<1>1. NRows \div 2 \in Nat
  BY Numbers
<1>2. CASE m = 0
  <2>1. k = 0 /\ k \in Exponents /\ k >= 0
    BY <1>2, HighestIsNat DEF PowScale, Exponents
  <2>2. \A v \in Int : -m <= v /\ v <= m => Scaled(v, k) = 0
    BY <1>2, <2>1, Powers DEF Scaled
  <2>3. NRows * 0 <= Limit
    BY LimitIsNarrow, Numbers
  <2> HIDE DEF k
  <2>4. 0 \in Nat
    OBVIOUS
  <2>5. \A v \in Int : -m <= v /\ v <= m => Scaled(v, k) \in Int /\ -0 <= Scaled(v, k) /\ Scaled(v, k) <= 0
    BY <2>2
  <2> QED
    BY <2>1, <2>3, <2>4, <2>5 DEF k
<1>3. CASE m # 0 /\ k >= 0
  <2>1. k \in Exponents /\ m * NRows * Pow2[k] <= Pow2[Budget]
    BY <1>3, ScaleExists DEF FitsScale
  <2>2. Pow2[k] \in Nat
    <3>1. k \in 0..Highest
      BY <1>3, <2>1, HighestIsNat DEF Exponents, Highest
    <3> QED
      BY <3>1, PowersPositive
  <2> DEFINE q == m * Pow2[k]
  <2>3. q \in Nat
    BY <2>2, Product
  <2>4. NRows * q <= Limit
    <3>1. \A a \in Nat, b \in Nat, c \in Nat : b * (a * c) = a * b * c
      OBVIOUS
    <3>2. NRows * q = m * NRows * Pow2[k]
      BY <2>2, <3>1, Numbers
    <3>3. NRows * q \in Nat
      BY <2>3, Numbers, Product
    <3> HIDE DEF q
    <3>4. NRows * q <= Pow2[Budget]
      BY <2>1, <3>2
    <3> QED
      BY <1>1, <3>3, <3>4, Numbers DEF Limit
  <2>5. ASSUME NEW v \in Int, -m <= v, v <= m
        PROVE  Scaled(v, k) \in Int /\ -q <= Scaled(v, k) /\ Scaled(v, k) <= q
    <3>1. Scaled(v, k) = v * Pow2[k]
      BY <1>3 DEF Scaled
    <3>2. CASE v < 0
      <4>1. -v \in Nat /\ -v <= m
        BY <2>5, <3>2
      <4>2. (-v) * Pow2[k] \in Nat /\ (-v) * Pow2[k] <= q
        BY <2>2, <4>1, Product
      <4>3. \A c \in Nat : (-v) * c = -(v * c)
        OBVIOUS
      <4>4. v * Pow2[k] = -((-v) * Pow2[k])
        BY <2>2, <4>2, <4>3
      <4> HIDE DEF q
      <4> QED
        BY <2>3, <3>1, <4>2, <4>4
    <3>3. CASE ~(v < 0)
      <4>1. v \in Nat /\ v <= m
        BY <2>5, <3>3
      <4>2. v * Pow2[k] \in Nat /\ v * Pow2[k] <= q
        BY <2>2, <4>1, Product
      <4> HIDE DEF q
      <4> QED
        BY <2>3, <3>1, <4>2
    <3> QED
      BY <3>2, <3>3
  <2> HIDE DEF q
  <2> QED
    BY <2>1, <2>3, <2>4, <2>5
<1>4. CASE m # 0 /\ ~(k >= 0)
  <2>1. k \in Exponents /\ m * NRows <= Pow2[Budget - k]
    BY <1>4, ScaleExists DEF FitsScale
  <2>2. k \in Int /\ -k \in Nat /\ Budget \in Nat /\ Budget + (-k) = Budget - k
        /\ Budget + (-k) <= Highest /\ -k \in 0..Highest
    BY <1>4, <2>1, HighestIsNat DEF Exponents, Highest
  <2> DEFINE d == Pow2[-k]
             q == (2 * m + d) \div (2 * d)
  <2>3. d \in Nat /\ d > 0
    BY <2>2, PowersPositive
  <2>4. Pow2[Budget - k] = Pow2[Budget] * d
    BY <2>2, PowerOfSum
  <2>5. q \in Nat /\ (2 * d) * q <= 2 * m + d
    <3>1. 2 * m + d \in Nat /\ 2 * d \in Nat /\ 2 * d > 0
      BY <2>3
    <3> HIDE DEF d
    <3> QED
      BY <3>1, DivBounds
  <2>6. NRows * q <= Limit
    <3>1. ASSUME NEW n \in Nat, n > 0, NEW p \in Nat, NEW r \in Nat, NEW D \in Nat, D > 0,
                 (2 * D) * r <= 2 * m + D, m * n <= p * D
          PROVE  2 * (n * r) <= 2 * p + n
      <4>1. ((2 * D) * r) * n <= (2 * m + D) * n
        <5>1. (2 * D) * r \in Nat /\ 2 * m + D \in Nat
          BY Product
        <5> QED
          BY <3>1, <5>1, Product
      <4>2. ((2 * D) * r) * n = D * (2 * (n * r))
        OBVIOUS
      <4>3. (2 * m + D) * n = 2 * (m * n) + D * n
        OBVIOUS
      <4>4. D * (2 * p + n) = 2 * (p * D) + D * n
        OBVIOUS
      <4>5. m * n \in Nat /\ p * D \in Nat /\ D * n \in Nat /\ n * r \in Nat
        BY Product
      <4>6. D * (2 * (n * r)) <= D * (2 * p + n)
        BY <3>1, <4>1, <4>2, <4>3, <4>4, <4>5
      <4>7. ASSUME NEW x \in Nat, NEW y \in Nat, D * x <= D * y PROVE x <= y
        <5>1. SUFFICES ASSUME y + 1 <= x PROVE FALSE
          OBVIOUS
        <5>2. D * (y + 1) <= D * x /\ D * (y + 1) = D * y + D /\ D * y \in Nat /\ D * x \in Nat
          BY <5>1, Product
        <5> QED
          BY <3>1, <4>7, <5>2
      <4>8. 2 * (n * r) \in Nat /\ 2 * p + n \in Nat
        BY <4>5
      <4> QED
        BY <4>6, <4>7, <4>8
    <3> HIDE DEF d, q
    <3>2. m * NRows <= Pow2[Budget] * d
      BY <2>1, <2>4
    <3>3. 2 * (NRows * q) <= 2 * Pow2[Budget] + NRows
      BY <2>3, <2>5, <3>1, <3>2, Numbers
    <3>4. NRows * q \in Nat
      BY <2>5, Numbers, Product
    <3>5. ASSUME NEW x \in Nat, NEW p \in Nat, NEW n \in Nat, 2 * x <= 2 * p + n
          PROVE  x <= p + n \div 2
      BY <3>5
    <3> QED
      BY <3>3, <3>4, <3>5, Numbers DEF Limit
  <2>7. ASSUME NEW v \in Int, -m <= v, v <= m
        PROVE  Scaled(v, k) \in Int /\ -q <= Scaled(v, k) /\ Scaled(v, k) <= q
    <3>1. Scaled(v, k) = RoundDiv(v, d)
      BY <1>4 DEF Scaled
    <3> QED
      BY <2>3, <2>7, <3>1, Rounded
  <2> HIDE DEF q
  <2> QED
    BY <2>1, <2>5, <2>6, <2>7
<1> QED
  BY <1>2, <1>3, <1>4

----------------------------------------------------------------------------
(***************************************************************************)
(* Pairs, their bounds and their sums                                      *)
(***************************************************************************)

Fixed(g, s) == [i \in Row |-> ToFixed(g[i], s)]
GradPart(f) == [i \in Row |-> f[i].grad]
HessPart(f) == [i \in Row |-> f[i].hess]

\* No total over a part of S leaves the limit.
Within(S, v) == \A s \in SUBSET S : Total(v, s) \in Int /\ -Limit <= Total(v, s) /\ Total(v, s) <= Limit

LEMMA RowsAreFinite ==
  /\ IsFiniteSet(Row) /\ Cardinality(Row) = NRows
  /\ IsFiniteSet(Block) /\ Block # {}
  /\ \A i \in Row : i \in Nat /\ i % NBlocks \in Block
<1>1. IsFiniteSet(Row) /\ Cardinality(Row) = NRows
  <2>1. NRows - 1 \in Int /\ (NRows - 1) - 0 + 1 = NRows /\ ~(0 > NRows - 1)
    BY Numbers
  <2> QED
    BY <2>1, FS_Interval DEF Row
<1>2. IsFiniteSet(Block) /\ 0 \in Block
  <2>1. NBlocks - 1 \in Int /\ 0 <= NBlocks - 1
    BY Numbers
  <2> QED
    BY <2>1, FS_Interval DEF Block
<1>3. ASSUME NEW i \in Row PROVE i \in Nat /\ i % NBlocks \in Block
  <2>1. ASSUME NEW a \in Nat, NEW n \in Nat, n > 0 PROVE a % n \in 0..n - 1
    BY <2>1
  <2>2. i \in Nat
    BY Numbers DEF Row
  <2> QED
    BY <2>1, <2>2, Numbers DEF Block
<1> QED
  BY <1>1, <1>2, <1>3

LEMMA PartFits ==
  ASSUME NEW m \in Nat, m < NonFinite,
         NEW v, \A i \in Row : v[i] \in Int /\ -m <= v[i] /\ v[i] <= m,
         NEW w, \A i \in Row : w[i] = QuantizeValue(v[i], PowScale(m))
  PROVE  /\ \A i \in Row : w[i] \in Int
         /\ Within(Row, w)
<1>1. PICK q \in Nat : /\ NRows * q <= Limit
                       /\ \A x \in Int : -m <= x /\ x <= m =>
                            /\ Scaled(x, PowScale(m)) \in Int
                            /\ -q <= Scaled(x, PowScale(m)) /\ Scaled(x, PowScale(m)) <= q
  BY ScaleFits
<1>2. q <= Limit /\ Limit \in Nat /\ NRows * q \in Nat
  <2>1. 1 * q <= NRows * q /\ NRows * q \in Nat
    BY Numbers, Product
  <2> QED
    BY <1>1, <2>1, LimitIsNarrow
<1>3. ASSUME NEW i \in Row PROVE w[i] \in Int /\ -q <= w[i] /\ w[i] <= q
  <2> DEFINE x == Scaled(v[i], PowScale(m))
  <2>1. x \in Int /\ -q <= x /\ x <= q
    BY <1>1
  <2>2. w[i] = Wrap(x)
    BY DEF QuantizeValue, Scaled
  <2> HIDE DEF x
  <2>3. Narrow(x)
    BY <1>2, <2>1, LimitIsNarrow
  <2> QED
    BY <2>1, <2>2, <2>3, WrapNarrow
<1>4. ASSUME NEW s \in SUBSET Row
      PROVE  Total(w, s) \in Int /\ -Limit <= Total(w, s) /\ Total(w, s) <= Limit
  <2>1. /\ Total(w, s) \in Int
        /\ -(q * Cardinality(s)) <= Total(w, s) /\ Total(w, s) <= q * Cardinality(s)
    BY <1>3, RowsAreFinite, TotalBound
  <2>2. Cardinality(s) \in Nat /\ Cardinality(s) <= NRows
    BY RowsAreFinite, FS_Subset, FS_CardinalityType
  <2>3. q * Cardinality(s) <= q * NRows /\ q * Cardinality(s) \in Nat
    BY <2>2, Numbers, Product
  <2>4. q * NRows = NRows * q
    BY Numbers
  <2> QED
    BY <1>1, <1>2, <2>1, <2>3, <2>4
<1> QED
  BY <1>3, <1>4 DEF Within

LEMMA MagnitudeIs ==
  \A x \in Int : /\ Magnitude(x) \in Nat
                 /\ \A m \in Nat : Magnitude(x) <= m <=> -m <= x /\ x <= m
BY DEF Magnitude

\* The largest magnitude of some values, or zero.
Magnitudes(v, rows) == {Magnitude(v[i]) : i \in rows} \cup {0}

LEMMA MagnitudesAre ==
  ASSUME NEW v, \A i \in Row : v[i] \in Int, NEW rows \in SUBSET Row
  PROVE  /\ Magnitudes(v, rows) \in SUBSET Nat
         /\ Max(Magnitudes(v, rows)) \in Nat
         /\ IsMax(Max(Magnitudes(v, rows)), Magnitudes(v, rows))
<1>1. Magnitudes(v, rows) \in SUBSET Nat /\ Magnitudes(v, rows) # {}
  BY MagnitudeIs DEF Magnitudes
<1>2. IsFiniteSet(Magnitudes(v, rows))
  <2>1. IsFiniteSet(rows)
    BY RowsAreFinite, FS_Subset
  <2>2. IsFiniteSet({Magnitude(v[i]) : i \in rows})
    <3> DEFINE T == {Magnitude(v[i]) : i \in rows}
               f == [i \in rows |-> Magnitude(v[i])]
    <3>1. f \in [rows -> T] /\ \A t \in T : \E i \in rows : f[i] = t
      OBVIOUS
    <3> HIDE DEF f, T
    <3>2. f \in Surjection(rows, T)
      BY <3>1 DEF Surjection
    <3>3. IsFiniteSet(T)
      BY <2>1, <3>2, FS_Surjection
    <3> QED
      BY <3>3 DEF T
  <2> QED
    BY <2>2, FS_AddElement DEF Magnitudes
<1>3. Magnitudes(v, rows) \in SUBSET Int
  BY <1>1
<1>4. IsMax(Max(Magnitudes(v, rows)), Magnitudes(v, rows))
  BY <1>1, <1>2, <1>3, MaxOfFinite
<1> QED
  BY <1>1, <1>4 DEF IsMax

LEMMA BoundsAre ==
  ASSUME NEW g \in [Row -> Pairs], NEW rows \in SUBSET Row
  PROVE  /\ Bounds(g, rows) = [grad |-> Max(Magnitudes(GradPart(g), rows)),
                               hess |-> Max(Magnitudes(HessPart(g), rows))]
         /\ Bounds(g, rows) \in [grad : Nat, hess : Nat]
         /\ \A i \in Row : GradPart(g)[i] \in Int /\ HessPart(g)[i] \in Int
<1>1. \A i \in Row : /\ GradPart(g)[i] = g[i].grad /\ g[i].grad \in Int
                     /\ HessPart(g)[i] = g[i].hess /\ g[i].hess \in Int
  BY DEF GradPart, HessPart, Pairs
<1>2. /\ {Magnitude(g[i].grad) : i \in rows} \cup {0} = Magnitudes(GradPart(g), rows)
      /\ {Magnitude(g[i].hess) : i \in rows} \cup {0} = Magnitudes(HessPart(g), rows)
  BY <1>1 DEF Magnitudes
<1>3. Bounds(g, rows) = [grad |-> Max(Magnitudes(GradPart(g), rows)),
                         hess |-> Max(Magnitudes(HessPart(g), rows))]
  BY <1>2, Zenon DEF Bounds
<1>4. Max(Magnitudes(GradPart(g), rows)) \in Nat /\ Max(Magnitudes(HessPart(g), rows)) \in Nat
  BY <1>1, MagnitudesAre
<1> QED
  BY <1>1, <1>3, <1>4

\* Pairs fixed with the scales of their bounds have sums that fit.
PartsFit(f) ==
  /\ f \in [Row -> Pairs]
  /\ Within(Row, GradPart(f)) /\ Within(Row, HessPart(f))

LEMMA FixedFit ==
  ASSUME NEW g \in [Row -> Pairs], IsFinite(Bounds(g, Row))
  PROVE  /\ PartsFit(Fixed(g, Scales(Bounds(g, Row))))
         /\ Scales(Bounds(g, Row)) \in [grad : Exponents, hess : Exponents]
<1> DEFINE a == Bounds(g, Row).grad
           b == Bounds(g, Row).hess
           f == Fixed(g, Scales(Bounds(g, Row)))
<1>1. a \in Nat /\ a < NonFinite /\ b \in Nat /\ b < NonFinite
  <2>1. Bounds(g, Row) \in [grad : Nat, hess : Nat]
    BY BoundsAre
  <2> QED
    BY <2>1 DEF IsFinite
<1>2. ASSUME NEW v, NEW m, \A i \in Row : v[i] \in Int, m = Max(Magnitudes(v, Row)), NEW i \in Row
      PROVE  -m <= v[i] /\ v[i] <= m
  <2>1. m \in Nat /\ IsMax(m, Magnitudes(v, Row))
    BY <1>2, MagnitudesAre
  <2>2. Magnitude(v[i]) \in Magnitudes(v, Row) /\ Magnitude(v[i]) \in Nat
    BY <1>2, MagnitudeIs DEF Magnitudes
  <2>3. Magnitude(v[i]) <= m
    BY <2>1, <2>2 DEF IsMax
  <2> QED
    BY <1>2, <2>1, <2>3, MagnitudeIs
<1>3. /\ a = Max(Magnitudes(GradPart(g), Row)) /\ b = Max(Magnitudes(HessPart(g), Row))
      /\ \A i \in Row : GradPart(g)[i] \in Int /\ HessPart(g)[i] \in Int
  BY BoundsAre
<1>4. \A i \in Row : /\ GradPart(f)[i] = QuantizeValue(GradPart(g)[i], PowScale(a))
                     /\ HessPart(f)[i] = QuantizeValue(HessPart(g)[i], PowScale(b))
                     /\ f[i] = [grad |-> GradPart(f)[i], hess |-> HessPart(f)[i]]
  BY DEF Fixed, ToFixed, Scales, GradPart, HessPart
<1>5. Scales(Bounds(g, Row)) = [grad |-> PowScale(a), hess |-> PowScale(b)]
  BY DEF Scales
<1>6. f = [i \in Row |-> f[i]]
  BY DEF Fixed
<1> HIDE DEF a, b, f
<1>7. (\A i \in Row : GradPart(f)[i] \in Int) /\ Within(Row, GradPart(f))
  <2>1. \A i \in Row : GradPart(g)[i] \in Int /\ -a <= GradPart(g)[i] /\ GradPart(g)[i] <= a
    BY <1>2, <1>3
  <2> QED
    BY <1>1, <1>4, <2>1, PartFits
<1>8. (\A i \in Row : HessPart(f)[i] \in Int) /\ Within(Row, HessPart(f))
  <2>1. \A i \in Row : HessPart(g)[i] \in Int /\ -b <= HessPart(g)[i] /\ HessPart(g)[i] <= b
    BY <1>2, <1>3
  <2> QED
    BY <1>1, <1>4, <2>1, PartFits
<1>9. f \in [Row -> Pairs]
  <2>1. ASSUME NEW i \in Row PROVE f[i] \in Pairs
    <3>1. f[i] = [grad |-> GradPart(f)[i], hess |-> HessPart(f)[i]]
      BY <1>4
    <3>2. GradPart(f)[i] \in Int /\ HessPart(f)[i] \in Int
      BY <1>7, <1>8
    <3>3. ASSUME NEW x \in Int, NEW y \in Int PROVE [grad |-> x, hess |-> y] \in Pairs
      BY DEF Pairs
    <3>4. [grad |-> GradPart(f)[i], hess |-> HessPart(f)[i]] \in Pairs
      BY <3>2, <3>3
    <3> QED
      BY <3>1, <3>4
  <2> QED
    BY <1>6, <2>1
<1>10. PowScale(a) \in Exponents /\ PowScale(b) \in Exponents
  BY <1>1, ScaleFits
<1> QED
  BY <1>5, <1>7, <1>8, <1>9, <1>10 DEF PartsFit, f

----------------------------------------------------------------------------
(***************************************************************************)
(* What the blocks find is what one pass finds                             *)
(***************************************************************************)

LEMMA RowsOfAre ==
  /\ \A b \in Block : RowsOf(b) \in SUBSET Row
  /\ \A i \in Row : \E b \in Block : i \in RowsOf(b)
BY RowsAreFinite DEF RowsOf

LEMMA MaxOfBlocks ==
  ASSUME NEW v, \A i \in Row : v[i] \in Int
  PROVE  Max({Max(Magnitudes(v, RowsOf(b))) : b \in Block}) = Max(Magnitudes(v, Row))
<1> DEFINE best(b) == Max(Magnitudes(v, RowsOf(b)))
           B == {best(b) : b \in Block}
           m == Max(Magnitudes(v, Row))
<1>1. IsMax(m, Magnitudes(v, Row)) /\ m \in Nat
  BY MagnitudesAre
<1>2. \A b \in Block : best(b) \in Nat /\ IsMax(best(b), Magnitudes(v, RowsOf(b)))
  BY MagnitudesAre, RowsOfAre
<1>3. \A b \in Block : best(b) \in Magnitudes(v, Row)
  <2> SUFFICES ASSUME NEW b \in Block PROVE best(b) \in Magnitudes(v, Row)
    OBVIOUS
  <2>1. best(b) \in Magnitudes(v, RowsOf(b))
    BY <1>2 DEF IsMax
  <2>2. Magnitudes(v, RowsOf(b)) \in SUBSET Magnitudes(v, Row)
    BY RowsOfAre DEF Magnitudes
  <2> QED
    BY <2>1, <2>2
<1>4. \E b \in Block : best(b) >= m
  <2>1. \E b \in Block : m \in Magnitudes(v, RowsOf(b))
    <3>1. CASE m = 0
      BY <3>1, RowsAreFinite DEF Magnitudes
    <3>2. CASE m # 0
      <4>1. PICK i \in Row : m = Magnitude(v[i])
        BY <1>1, <3>2 DEF IsMax, Magnitudes
      <4>2. PICK b \in Block : i \in RowsOf(b)
        BY RowsOfAre
      <4> HIDE DEF m
      <4> QED
        BY <4>1, <4>2 DEF Magnitudes
    <3> QED
      BY <3>1, <3>2
  <2> HIDE DEF m
  <2> QED
    BY <1>2, <2>1 DEF IsMax
<1> HIDE DEF m, best
<1>5. \A b \in Block : m >= best(b)
  BY <1>1, <1>3 DEF IsMax
<1>6. IsMax(m, B)
  <2>1. PICK b \in Block : best(b) >= m
    BY <1>4
  <2>2. best(b) = m
    BY <1>1, <1>2, <1>5, <2>1
  <2>3. m \in B
    BY <2>2
  <2> QED
    BY <1>5, <2>3 DEF IsMax
<1>7. B \in SUBSET Int
  BY <1>2
<1>8. Max(B) = m
  <2> HIDE DEF B
  <2> QED
    BY <1>6, <1>7, MaxIs
<1> QED
  BY <1>8 DEF B, best, m

LEMMA BoundsOfBlocks ==
  ASSUME NEW g \in [Row -> Pairs], NEW u, \A b \in Block : u[b] = Bounds(g, RowsOf(b))
  PROVE  [grad |-> Max({u[b].grad : b \in Block}), hess |-> Max({u[b].hess : b \in Block})]
           = Bounds(g, Row)
<1>1. \A b \in Block : /\ u[b].grad = Max(Magnitudes(GradPart(g), RowsOf(b)))
                       /\ u[b].hess = Max(Magnitudes(HessPart(g), RowsOf(b)))
  BY BoundsAre, RowsOfAre
<1>2. /\ {u[b].grad : b \in Block} = {Max(Magnitudes(GradPart(g), RowsOf(b))) : b \in Block}
      /\ {u[b].hess : b \in Block} = {Max(Magnitudes(HessPart(g), RowsOf(b))) : b \in Block}
  BY <1>1
<1>3. \A i \in Row : GradPart(g)[i] \in Int /\ HessPart(g)[i] \in Int
  BY BoundsAre
<1>4. /\ Max({u[b].grad : b \in Block}) = Max(Magnitudes(GradPart(g), Row))
      /\ Max({u[b].hess : b \in Block}) = Max(Magnitudes(HessPart(g), Row))
  BY <1>2, <1>3, MaxOfBlocks
<1>5. Bounds(g, Row) = [grad |-> Max(Magnitudes(GradPart(g), Row)),
                        hess |-> Max(Magnitudes(HessPart(g), Row))]
  BY BoundsAre
<1> QED
  BY <1>4, <1>5, Zenon

LEMMA BlockTotals ==
  ASSUME NEW v, \A i \in Row : v[i] \in Int, Within(Row, v),
         NEW u, \A b \in Block : u[b] = Total(v, RowsOf(b))
  PROVE  AllNarrow(u, Block) /\ Total(u, Block) = Total(v, Row)
<1> DEFINE group == [i \in Row |-> i % NBlocks]
<1>1. \A b \in Block : Grouped(Row, group, {b}) = RowsOf(b)
  BY DEF Grouped, RowsOf
<1>2. Grouped(Row, group, Block) = Row
  BY RowsAreFinite DEF Grouped
<1>3. \A t \in SUBSET Block : Grouped(Row, group, t) \in SUBSET Row
  BY DEF Grouped
<1> HIDE DEF group
<1>4. \A b \in Block : u[b] = Total(v, Grouped(Row, group, {b}))
  BY <1>1
<1>5. \A t \in SUBSET Block : Total(u, t) = Total(v, Grouped(Row, group, t))
  <2>1. GroupTotals(Row, v, group, Block, u)
    BY <1>4, RowsAreFinite DEF GroupTotals
  <2> QED
    BY <2>1, TotalGroups
<1>6. AllNarrow(u, Block)
  <2> SUFFICES ASSUME NEW t \in SUBSET Block PROVE Narrow(Total(u, t))
    BY DEF AllNarrow
  <2> DEFINE x == Total(v, Grouped(Row, group, t))
  <2>1. x \in Int /\ -Limit <= x /\ x <= Limit
    BY <1>3 DEF Within
  <2> HIDE DEF x
  <2>2. Narrow(x)
    BY <2>1, LimitIsNarrow
  <2> QED
    BY <1>5, <2>2 DEF x
<1>7. Block \in SUBSET Block
  OBVIOUS
<1> QED
  BY <1>2, <1>5, <1>6, <1>7

LEMMA PartSums ==
  ASSUME NEW f, PartsFit(f), NEW rows \in SUBSET Row
  PROVE  /\ SumOf(f, rows) = [grad |-> Total(GradPart(f), rows), hess |-> Total(HessPart(f), rows)]
         /\ SumOf(f, rows) \in Pairs
<1>1. IsFiniteSet(rows)
  BY RowsAreFinite, FS_Subset
<1>2. Separate(f, GradPart(f), HessPart(f), rows)
  BY DEF Separate, PartsFit, GradPart, HessPart
<1>3. ASSUME NEW v, Within(Row, v) PROVE AllNarrow(v, rows)
  <2> SUFFICES ASSUME NEW s \in SUBSET rows PROVE Narrow(Total(v, s))
    BY DEF AllNarrow
  <2>1. Total(v, s) \in Int /\ -Limit <= Total(v, s) /\ Total(v, s) <= Limit
    BY <1>3 DEF Within
  <2> QED
    BY <2>1, LimitIsNarrow
<1>4. SumOf(f, rows) = [grad |-> Total(GradPart(f), rows), hess |-> Total(HessPart(f), rows)]
  BY <1>1, <1>2, <1>3, SumIsExact DEF PartsFit
<1>5. Total(GradPart(f), rows) \in Int /\ Total(HessPart(f), rows) \in Int
  BY DEF PartsFit, Within
<1> QED
  BY <1>4, <1>5 DEF Pairs

LEMMA SumOfBlocks ==
  ASSUME NEW f, PartsFit(f), NEW u, \A b \in Block : u[b] = SumOf(f, RowsOf(b))
  PROVE  SumOf(u, Block) = SumOf(f, Row)
<1> DEFINE ug == [b \in Block |-> u[b].grad]
           uh == [b \in Block |-> u[b].hess]
<1>1. \A b \in Block : /\ u[b] = [grad |-> Total(GradPart(f), RowsOf(b)),
                                  hess |-> Total(HessPart(f), RowsOf(b))]
                       /\ u[b] \in Pairs
  BY PartSums, RowsOfAre
<1>2. Separate(u, ug, uh, Block)
  BY <1>1 DEF Separate
<1>3. \A b \in Block : ug[b] = Total(GradPart(f), RowsOf(b)) /\ uh[b] = Total(HessPart(f), RowsOf(b))
  <2> SUFFICES ASSUME NEW b \in Block
               PROVE  ug[b] = Total(GradPart(f), RowsOf(b)) /\ uh[b] = Total(HessPart(f), RowsOf(b))
    OBVIOUS
  <2> DEFINE x == Total(GradPart(f), RowsOf(b))
             y == Total(HessPart(f), RowsOf(b))
  <2>1. u[b] = [grad |-> x, hess |-> y] /\ ug[b] = u[b].grad /\ uh[b] = u[b].hess
    BY <1>1
  <2> HIDE DEF ug, uh, x, y
  <2>2. ug[b] = x /\ uh[b] = y
    BY <2>1
  <2> QED
    BY <2>2 DEF x, y
<1>4. \A i \in Row : GradPart(f)[i] \in Int /\ HessPart(f)[i] \in Int
  BY DEF PartsFit, GradPart, HessPart, Pairs
<1> HIDE DEF ug, uh
<1>5. AllNarrow(ug, Block) /\ Total(ug, Block) = Total(GradPart(f), Row)
  BY <1>3, <1>4, BlockTotals DEF PartsFit
<1>6. AllNarrow(uh, Block) /\ Total(uh, Block) = Total(HessPart(f), Row)
  BY <1>3, <1>4, BlockTotals DEF PartsFit
<1>7. SumOf(u, Block) = [grad |-> Total(ug, Block), hess |-> Total(uh, Block)]
  BY <1>2, <1>5, <1>6, RowsAreFinite, SumIsExact
<1>8. SumOf(f, Row) = [grad |-> Total(GradPart(f), Row), hess |-> Total(HessPart(f), Row)]
  BY PartSums
<1> QED
  BY <1>5, <1>6, <1>7, <1>8

LEMMA BoundsSame ==
  ASSUME NEW f, NEW g, NEW rows, \A i \in rows : f[i] = g[i]
  PROVE  Bounds(f, rows) = Bounds(g, rows)
<1>1. /\ {Magnitude(f[i].grad) : i \in rows} = {Magnitude(g[i].grad) : i \in rows}
      /\ {Magnitude(f[i].hess) : i \in rows} = {Magnitude(g[i].hess) : i \in rows}
  OBVIOUS
<1> QED
  BY <1>1, Zenon DEF Bounds

----------------------------------------------------------------------------
(***************************************************************************)
(* The inductive invariant: what the blocks that have run have found is    *)
(* what they would find in the masked gradients of the round               *)
(***************************************************************************)

Masked == ZeroUnselected(gradient, drawn)
Host == Fixed(Masked, Scales(Bounds(Masked, Row)))

MaskedSoFar ==
  [i \in Row |-> IF mode = "fast" \/ i % NBlocks \notin todo THEN Masked[i] ELSE gradient[i]]

BlocksMeasured ==
  pc = "max" => /\ mode # "host" /\ gpair_f32 = MaskedSoFar
                /\ \A b \in Block \ todo : gpair_max[b] = Bounds(Masked, RowsOf(b))

BlocksFixed ==
  pc = "quantize" =>
    /\ gpair_f32 = Masked
    /\ IsFinite(Bounds(Masked, Row)) /\ scales = Scales(Bounds(Masked, Row))
    /\ \A b \in Block \ todo :
         /\ gpair_sum[b] = SumOf(Host, RowsOf(b))
         /\ \A i \in RowsOf(b) : gpair[i] = Host[i]

QuantizerInv == QuantizerTypeOK /\ BlocksMeasured /\ BlocksFixed /\ SameAsHost

LEMMA MaskedPairs ==
  ASSUME NEW g \in [Row -> Pairs], NEW d
  PROVE  ZeroUnselected(g, d) \in [Row -> Pairs]
BY DEF ZeroUnselected, Zero, Pairs

LEMMA TypeIs ==
  QuantizerTypeOK <=>
    /\ mode \in {"host", "exact", "fast"}
    /\ round \in Nat \ {0}
    /\ pc \in {"gradient", "max", "quantize", "tree", "error"}
    /\ drawn \subseteq Row /\ todo \subseteq Block
    /\ scales \in [grad : Exponents, hess : Exponents]
    /\ root_sum \in Pairs
    /\ gradient \in [Row -> Pairs] /\ gpair_f32 \in [Row -> Pairs] /\ gpair \in [Row -> Pairs]
    /\ gpair_max \in [Block -> Pairs] /\ gpair_sum \in [Block -> Pairs]
BY DEF QuantizerTypeOK

LEMMA ZeroIsPair == Zero \in Pairs
BY DEF Zero, Pairs

LEMMA QuantizerInitially == QuantizerInit => QuantizerInv
<1> SUFFICES ASSUME QuantizerInit PROVE QuantizerInv
  OBVIOUS
<1>1. 0 \in Exponents
  BY HighestIsNat DEF Exponents
<1>2. QuantizerTypeOK
  BY <1>1, ZeroIsPair, TypeIs DEF QuantizerInit
<1> QED
  BY <1>2 DEF QuantizerInit, QuantizerInv, BlocksMeasured, BlocksFixed, SameAsHost

LEMMA GradientKeeps == QuantizerInv /\ Gradient => QuantizerInv'
<1> SUFFICES ASSUME QuantizerInv, Gradient PROVE QuantizerInv'
  OBVIOUS
<1>1. QuantizerTypeOK
  BY DEF QuantizerInv
<1>2. PICK g \in [Row -> Inputs[round]], d \in SUBSET Row :
        /\ gradient' = g /\ drawn' = d
        /\ DeviceInput(g, d) \/ HostInput(g, d)
  BY DEF Gradient
<1>3. /\ round \in DOMAIN Inputs
      /\ UNCHANGED << mode, round, gpair_max, gpair_sum >>
  BY DEF Gradient
<1>4. g \in [Row -> Pairs]
  <2>1. Inputs[round] \subseteq Pairs
    BY <1>3, QuantizerParams DEF Pairs
  <2> QED
    BY <2>1
<1> DEFINE masked == ZeroUnselected(g, d)
<1>5. masked \in [Row -> Pairs]
  BY <1>4, MaskedPairs
<1>6. Masked' = masked
  BY <1>2 DEF Masked
<1> HIDE DEF masked
<1>7. CASE DeviceInput(g, d)
  <2>1. /\ mode # "host" /\ gpair_f32' = IF mode = "fast" THEN masked ELSE g
        /\ todo' = Block /\ pc' = "max"
        /\ UNCHANGED << scales, gpair, root_sum >>
    BY <1>7 DEF DeviceInput, masked
  <2>2. QuantizerTypeOK'
    <3>1. gpair_f32' \in [Row -> Pairs]
      BY <1>4, <1>5, <2>1
    <3> QED
      BY <1>1, <1>2, <1>3, <1>4, <2>1, <3>1, TypeIs DEF QuantizerTypeOK
  <2>3. gpair_f32' = MaskedSoFar'
    <3>1. MaskedSoFar' = [i \in Row |-> IF mode = "fast" \/ i % NBlocks \notin Block
                                        THEN masked[i] ELSE g[i]]
      BY <1>2, <1>3, <1>6, <2>1 DEF MaskedSoFar
    <3>2. \A i \in Row : i % NBlocks \in Block
      BY RowsAreFinite
    <3>3. MaskedSoFar' = [i \in Row |-> IF mode = "fast" THEN masked[i] ELSE g[i]]
      BY <3>1, <3>2
    <3>4. CASE mode = "fast"
      BY <1>5, <2>1, <3>3, <3>4
    <3>5. CASE mode # "fast"
      BY <1>4, <2>1, <3>3, <3>5
    <3> QED
      BY <3>4, <3>5
  <2>4. mode' # "host" /\ Block \ todo' = {}
    BY <1>3, <2>1
  <2>5. BlocksMeasured'
    BY <2>3, <2>4 DEF BlocksMeasured
  <2> QED
    BY <2>1, <2>2, <2>5 DEF QuantizerInv, BlocksFixed, SameAsHost
<1>8. CASE HostInput(g, d)
  <2>1. UNCHANGED << gpair_f32, todo >>
    BY <1>8 DEF HostInput
  <2>2. CASE IsFinite(Bounds(masked, Row))
    <3> DEFINE s == Scales(Bounds(masked, Row))
    <3>1. /\ scales' = s /\ gpair' = Fixed(masked, s)
          /\ root_sum' = SumOf(Fixed(masked, s), Row)
          /\ pc' = "tree"
      BY <1>8, <2>2 DEF HostInput, UploadGpair, Fixed, masked
    <3>2. PartsFit(Fixed(masked, s)) /\ s \in [grad : Exponents, hess : Exponents]
      BY <1>5, <2>2, FixedFit
    <3> HIDE DEF s
    <3>3. Fixed(masked, s) \in [Row -> Pairs] /\ SumOf(Fixed(masked, s), Row) \in Pairs
      BY <3>2, PartSums DEF PartsFit
    <3>4. QuantizerTypeOK'
      BY <1>1, <1>2, <1>3, <1>4, <2>1, <3>1, <3>2, <3>3, TypeIs DEF QuantizerTypeOK
    <3>5. SameAsHost'
      <4>1. /\ IsFinite(Bounds(Masked', Row)) /\ scales' = Scales(Bounds(Masked', Row))
            /\ gpair' = Fixed(Masked', scales') /\ root_sum' = SumOf(gpair', Row)
        BY <1>6, <2>2, <3>1 DEF s
      <4> QED
        BY <3>1, <4>1 DEF SameAsHost, Masked, Fixed
    <3> QED
      BY <3>1, <3>4, <3>5 DEF QuantizerInv, BlocksMeasured, BlocksFixed
  <2>3. CASE ~IsFinite(Bounds(masked, Row))
    <3>1. pc' = "error" /\ UNCHANGED << scales, gpair, root_sum >>
      BY <1>8, <2>3 DEF HostInput, masked
    <3>2. QuantizerTypeOK'
      BY <1>1, <1>2, <1>3, <1>4, <2>1, <3>1, TypeIs DEF QuantizerTypeOK
    <3>3. SameAsHost'
      <4>1. ~IsFinite(Bounds(Masked', Row))
        BY <1>6, <2>3
      <4> QED
        BY <3>1, <4>1 DEF SameAsHost, Masked
    <3> QED
      BY <3>1, <3>2, <3>3 DEF QuantizerInv, BlocksMeasured, BlocksFixed
  <2> QED
    BY <2>2, <2>3
<1> QED
  BY <1>2, <1>7, <1>8

LEMMA MaxBlockKeeps ==
  ASSUME QuantizerInv, NEW b \in Block, MaxBlock(b)
  PROVE  QuantizerInv'
<1> DEFINE masked == [i \in Row |-> IF mode = "exact" /\ i \in RowsOf(b) \ drawn THEN Zero
                                    ELSE gpair_f32[i]]
<1>1. /\ pc = "max" /\ b \in todo
      /\ gpair_f32' = masked
      /\ gpair_max' = [gpair_max EXCEPT ![b] = Bounds(masked, RowsOf(b))]
      /\ todo' = todo \ {b}
      /\ UNCHANGED << mode, round, pc, gradient, drawn, scales, gpair, gpair_sum, root_sum >>
  BY DEF MaxBlock
<1>2. /\ QuantizerTypeOK /\ mode # "host" /\ gpair_f32 = MaskedSoFar
      /\ \A c \in Block \ todo : gpair_max[c] = Bounds(Masked, RowsOf(c))
  BY <1>1 DEF QuantizerInv, BlocksMeasured
<1>3. gradient \in [Row -> Pairs] /\ gpair_f32 \in [Row -> Pairs] /\ gpair_max \in [Block -> Pairs]
      /\ mode \in {"host", "exact", "fast"} /\ todo \subseteq Block
  BY <1>2, TypeIs
<1>4. masked \in [Row -> Pairs]
  BY <1>3, ZeroIsPair
<1>5. Masked' = Masked
  BY <1>1 DEF Masked
<1>6. \A i \in RowsOf(b) : i \in Row /\ i % NBlocks = b /\ masked[i] = Masked[i]
  <2> SUFFICES ASSUME NEW i \in RowsOf(b)
               PROVE  i \in Row /\ i % NBlocks = b /\ masked[i] = Masked[i]
    OBVIOUS
  <2>1. i \in Row /\ i % NBlocks = b
    BY DEF RowsOf
  <2>2. Masked[i] = IF i \in drawn THEN gradient[i] ELSE Zero
    BY <2>1 DEF Masked, ZeroUnselected
  <2>3. gpair_f32[i] = IF mode = "fast" THEN Masked[i] ELSE gradient[i]
    BY <1>1, <1>2, <2>1 DEF MaskedSoFar
  <2>4. masked[i] = IF mode = "exact" /\ i \notin drawn THEN Zero ELSE gpair_f32[i]
    BY <2>1
  <2> QED
    BY <1>2, <1>3, <2>1, <2>2, <2>3, <2>4
<1>7. gpair_f32' = MaskedSoFar'
  <2>1. MaskedSoFar' = [i \in Row |-> IF mode = "fast" \/ i % NBlocks \notin todo \ {b}
                                      THEN Masked[i] ELSE gradient[i]]
    BY <1>1, <1>5 DEF MaskedSoFar
  <2>2. ASSUME NEW i \in Row
        PROVE  masked[i] = IF mode = "fast" \/ i % NBlocks \notin todo \ {b}
                           THEN Masked[i] ELSE gradient[i]
    <3>1. CASE i % NBlocks = b
      <4>1. i \in RowsOf(b)
        BY <3>1 DEF RowsOf
      <4> QED
        BY <1>6, <3>1, <4>1
    <3>2. CASE i % NBlocks # b
      <4>1. i \notin RowsOf(b)
        BY <3>2 DEF RowsOf
      <4>2. masked[i] = gpair_f32[i]
        BY <4>1
      <4>3. gpair_f32[i] = IF mode = "fast" \/ i % NBlocks \notin todo THEN Masked[i] ELSE gradient[i]
        BY <1>2 DEF MaskedSoFar
      <4> QED
        BY <3>2, <4>2, <4>3
    <3> QED
      BY <3>1, <3>2
  <2>3. masked = [i \in Row |-> masked[i]]
    OBVIOUS
  <2> HIDE DEF masked
  <2>4. masked = [i \in Row |-> IF mode = "fast" \/ i % NBlocks \notin todo \ {b}
                                THEN Masked[i] ELSE gradient[i]]
    BY <2>2, <2>3
  <2> QED
    BY <1>1, <2>1, <2>4
<1>8. Bounds(masked, RowsOf(b)) = Bounds(Masked, RowsOf(b))
  <2> HIDE DEF masked
  <2> QED
    BY <1>6, BoundsSame
<1>9. Bounds(masked, RowsOf(b)) \in Pairs
  <2>1. Bounds(masked, RowsOf(b)) \in [grad : Nat, hess : Nat]
    <3> HIDE DEF masked
    <3> QED
      BY <1>4, BoundsAre, RowsOfAre
  <2> HIDE DEF masked
  <2> QED
    BY <2>1 DEF Pairs
<1> HIDE DEF masked
<1>10. QuantizerTypeOK'
  BY <1>1, <1>2, <1>3, <1>4, <1>9, TypeIs DEF QuantizerTypeOK
<1>11. ASSUME NEW c \in Block \ todo' PROVE gpair_max'[c] = Bounds(Masked', RowsOf(c))
  <2>1. CASE c = b
    BY <1>1, <1>3, <1>5, <1>8, <2>1
  <2>2. CASE c # b
    BY <1>1, <1>2, <1>3, <1>5, <2>2
  <2> QED
    BY <2>1, <2>2
<1>12. BlocksMeasured'
  BY <1>1, <1>2, <1>7, <1>11 DEF BlocksMeasured, Masked
<1> QED
  BY <1>1, <1>10, <1>12 DEF QuantizerInv, BlocksFixed, SameAsHost

LEMMA ChooseScalesKeeps == QuantizerInv /\ ChooseScales => QuantizerInv'
<1> SUFFICES ASSUME QuantizerInv, ChooseScales PROVE QuantizerInv'
  OBVIOUS
<1> DEFINE bounds == [grad |-> Max({gpair_max[b].grad : b \in Block}),
                      hess |-> Max({gpair_max[b].hess : b \in Block})]
<1>1. /\ pc = "max" /\ todo = {}
      /\ IF IsFinite(bounds)
         THEN scales' = Scales(bounds) /\ todo' = Block /\ pc' = "quantize"
         ELSE pc' = "error" /\ UNCHANGED << scales, todo >>
      /\ UNCHANGED << mode, round, gradient, drawn, gpair_f32, gpair_max, gpair, gpair_sum,
                      root_sum >>
  BY DEF ChooseScales
<1>2. /\ QuantizerTypeOK /\ gpair_f32 = MaskedSoFar
      /\ \A c \in Block : gpair_max[c] = Bounds(Masked, RowsOf(c))
  BY <1>1 DEF QuantizerInv, BlocksMeasured
<1>3. Masked \in [Row -> Pairs]
  BY <1>2, MaskedPairs, TypeIs DEF Masked
<1>4. bounds = Bounds(Masked, Row)
  BY <1>2, <1>3, BoundsOfBlocks
<1> HIDE DEF bounds
<1>5. MaskedSoFar = Masked
  BY <1>1, <1>3 DEF MaskedSoFar
<1>6. Masked' = Masked
  BY <1>1 DEF Masked
<1>7. CASE IsFinite(bounds)
  <2>1. scales' = Scales(bounds) /\ todo' = Block /\ pc' = "quantize"
    BY <1>1, <1>7
  <2>2. Scales(bounds) \in [grad : Exponents, hess : Exponents]
    BY <1>3, <1>4, <1>7, FixedFit
  <2>3. QuantizerTypeOK'
    BY <1>1, <1>2, <2>1, <2>2, TypeIs DEF QuantizerTypeOK
  <2>4. BlocksFixed'
    BY <1>1, <1>2, <1>4, <1>5, <1>6, <1>7, <2>1 DEF BlocksFixed
  <2> QED
    BY <2>1, <2>3, <2>4 DEF QuantizerInv, BlocksMeasured, SameAsHost
<1>8. CASE ~IsFinite(bounds)
  <2>1. pc' = "error" /\ UNCHANGED << scales, todo >>
    BY <1>1, <1>8
  <2>2. QuantizerTypeOK'
    BY <1>1, <1>2, <2>1, TypeIs DEF QuantizerTypeOK
  <2>3. ~IsFinite(Bounds(Masked', Row))
    BY <1>4, <1>6, <1>8
  <2>4. SameAsHost'
    BY <2>1, <2>3 DEF SameAsHost, Masked
  <2> QED
    BY <2>1, <2>2, <2>4 DEF QuantizerInv, BlocksMeasured, BlocksFixed
<1> QED
  BY <1>7, <1>8

LEMMA QuantizeBlockKeeps ==
  ASSUME QuantizerInv, NEW b \in Block, QuantizeBlock(b)
  PROVE  QuantizerInv'
<1> DEFINE fixed == [i \in Row |-> IF i \in RowsOf(b) THEN ToFixed(gpair_f32[i], scales)
                                   ELSE gpair[i]]
<1>1. /\ pc = "quantize" /\ b \in todo
      /\ gpair' = fixed
      /\ gpair_sum' = [gpair_sum EXCEPT ![b] = SumOf(fixed, RowsOf(b))]
      /\ todo' = todo \ {b}
      /\ UNCHANGED << mode, round, pc, gradient, drawn, gpair_f32, gpair_max, scales, root_sum >>
  BY DEF QuantizeBlock
<1>2. /\ QuantizerTypeOK /\ gpair_f32 = Masked
      /\ IsFinite(Bounds(Masked, Row)) /\ scales = Scales(Bounds(Masked, Row))
      /\ \A c \in Block \ todo : /\ gpair_sum[c] = SumOf(Host, RowsOf(c))
                                 /\ \A i \in RowsOf(c) : gpair[i] = Host[i]
  BY <1>1 DEF QuantizerInv, BlocksFixed
<1>3. /\ Masked \in [Row -> Pairs] /\ gpair \in [Row -> Pairs] /\ gpair_sum \in [Block -> Pairs]
      /\ todo \subseteq Block
  BY <1>2, MaskedPairs, TypeIs DEF Masked
<1>4. Masked' = Masked /\ Host' = Host
  BY <1>1 DEF Masked, Host
<1>5. PartsFit(Host)
  BY <1>2, <1>3, FixedFit DEF Host
<1>6. Host \in [Row -> Pairs]
  BY <1>5 DEF PartsFit
<1>7. \A i \in Row : fixed[i] = IF i \in RowsOf(b) THEN Host[i] ELSE gpair[i]
  BY <1>2 DEF Host, Fixed
<1>8. fixed \in [Row -> Pairs]
  <2>1. fixed = [i \in Row |-> fixed[i]]
    OBVIOUS
  <2> HIDE DEF fixed
  <2> QED
    BY <1>3, <1>6, <1>7, <2>1
<1> HIDE DEF fixed
<1>9. SumOf(fixed, RowsOf(b)) = SumOf(Host, RowsOf(b)) /\ SumOf(fixed, RowsOf(b)) \in Pairs
  <2>1. RowsOf(b) \in SUBSET Row /\ IsFiniteSet(RowsOf(b))
    BY RowsOfAre, RowsAreFinite, FS_Subset
  <2>2. \A i \in RowsOf(b) : Host[i] \in Pairs /\ fixed[i] = Host[i]
    BY <1>6, <1>7, <2>1
  <2>3. SumOf(Host, RowsOf(b)) = SumOf(fixed, RowsOf(b))
    BY <2>1, <2>2, SumSame
  <2>4. SumOf(Host, RowsOf(b)) \in Pairs
    BY <1>5, <2>1, PartSums
  <2> QED
    BY <2>3, <2>4
<1>10. QuantizerTypeOK'
  BY <1>1, <1>2, <1>8, <1>9, TypeIs DEF QuantizerTypeOK
<1>11. ASSUME NEW c \in Block \ todo'
       PROVE  /\ gpair_sum'[c] = SumOf(Host, RowsOf(c))
              /\ \A i \in RowsOf(c) : gpair'[i] = Host[i]
  <2>1. CASE c = b
    BY <1>1, <1>3, <1>7, <1>9, <2>1, RowsOfAre
  <2>2. CASE c # b
    <3>1. c \in Block \ todo
      BY <1>1, <2>2
    <3>2. \A i \in RowsOf(c) : i \in Row /\ i \notin RowsOf(b)
      BY <2>2 DEF RowsOf
    <3> QED
      BY <1>1, <1>2, <1>7, <2>2, <3>1, <3>2
  <2> QED
    BY <2>1, <2>2
<1>12. BlocksFixed'
  BY <1>1, <1>2, <1>4, <1>11 DEF BlocksFixed
<1> QED
  BY <1>1, <1>10, <1>12 DEF QuantizerInv, BlocksMeasured, SameAsHost

LEMMA SumBlocksKeeps == QuantizerInv /\ SumBlocks => QuantizerInv'
<1> SUFFICES ASSUME QuantizerInv, SumBlocks PROVE QuantizerInv'
  OBVIOUS
<1>1. /\ pc = "quantize" /\ todo = {} /\ root_sum' = SumOf(gpair_sum, Block) /\ pc' = "tree"
      /\ UNCHANGED << mode, round, gradient, drawn, gpair_f32, gpair_max, scales, gpair,
                      gpair_sum, todo >>
  BY DEF SumBlocks
<1>2. /\ QuantizerTypeOK
      /\ IsFinite(Bounds(Masked, Row)) /\ scales = Scales(Bounds(Masked, Row))
      /\ \A c \in Block : /\ gpair_sum[c] = SumOf(Host, RowsOf(c))
                          /\ \A i \in RowsOf(c) : gpair[i] = Host[i]
  BY <1>1 DEF QuantizerInv, BlocksFixed
<1>3. Masked \in [Row -> Pairs] /\ gpair \in [Row -> Pairs]
  BY <1>2, MaskedPairs, TypeIs DEF Masked
<1>4. PartsFit(Host)
  BY <1>2, <1>3, FixedFit DEF Host
<1>5. gpair = Host
  <2>1. \A i \in Row : gpair[i] = Host[i]
    BY <1>2, RowsOfAre
  <2>2. Host \in [Row -> Pairs]
    BY <1>4 DEF PartsFit
  <2> QED
    BY <1>3, <2>1, <2>2
<1>6. SumOf(gpair_sum, Block) = SumOf(Host, Row) /\ SumOf(Host, Row) \in Pairs
  BY <1>2, <1>4, SumOfBlocks, PartSums
<1>7. QuantizerTypeOK'
  BY <1>1, <1>2, <1>6, TypeIs DEF QuantizerTypeOK
<1>8. SameAsHost'
  <2>1. /\ IsFinite(Bounds(Masked', Row)) /\ scales' = Scales(Bounds(Masked', Row))
        /\ gpair' = Fixed(Masked', scales') /\ root_sum' = SumOf(gpair', Row)
    BY <1>1, <1>2, <1>5, <1>6 DEF Masked, Host
  <2> QED
    BY <1>1, <2>1 DEF SameAsHost, Masked, Fixed
<1> QED
  BY <1>1, <1>7, <1>8 DEF QuantizerInv, BlocksMeasured, BlocksFixed

LEMMA NextRoundKeeps == QuantizerInv /\ NextRound => QuantizerInv'
<1> SUFFICES ASSUME QuantizerInv, NextRound PROVE QuantizerInv'
  OBVIOUS
<1>1. QuantizerTypeOK'
  BY TypeIs DEF NextRound, QuantizerInv, QuantizerTypeOK
<1> QED
  BY <1>1 DEF NextRound, QuantizerInv, BlocksMeasured, BlocksFixed, SameAsHost

LEMMA QuantizerStep == QuantizerInv /\ [QuantizerNext]_quantizer_vars => QuantizerInv'
<1> SUFFICES ASSUME QuantizerInv, [QuantizerNext]_quantizer_vars PROVE QuantizerInv'
  OBVIOUS
<1>1. CASE UNCHANGED quantizer_vars
  <2>1. QuantizerTypeOK' /\ Masked' = Masked /\ Host' = Host /\ MaskedSoFar' = MaskedSoFar
    BY <1>1 DEF quantizer_vars, QuantizerInv, QuantizerTypeOK, Masked, Host, MaskedSoFar
  <2>2. BlocksMeasured' /\ BlocksFixed'
    BY <1>1, <2>1 DEF quantizer_vars, QuantizerInv, BlocksMeasured, BlocksFixed
  <2>3. SameAsHost'
    BY <1>1 DEF quantizer_vars, QuantizerInv, SameAsHost
  <2> QED
    BY <2>1, <2>2, <2>3 DEF QuantizerInv
<1>2. CASE QuantizerNext
  BY <1>1, <1>2, GradientKeeps, MaxBlockKeeps, ChooseScalesKeeps, QuantizeBlockKeeps,
     SumBlocksKeeps, NextRoundKeeps DEF QuantizerNext
<1> QED
  BY <1>1, <1>2

THEOREM QuantizerInvariant == QuantizerSpec => []QuantizerInv
BY QuantizerInitially, QuantizerStep, PTL DEF QuantizerSpec

\* Type correctness of the quantizer (GradQuantizer and its device side).
THEOREM QuantizerTypeCorrect == QuantizerSpec => []QuantizerTypeOK
<1>1. QuantizerInv => QuantizerTypeOK
  BY DEF QuantizerInv
<1> QED
  BY <1>1, QuantizerInvariant, PTL

LEMMA SumsFit == QuantizerInv => NodeSumsFit
<1> SUFFICES ASSUME QuantizerInv, pc = "tree", NEW rows \in SUBSET Row,
                    NEW half \in {[i \in Row |-> gpair[i].grad], [i \in Row |-> gpair[i].hess]}
             PROVE  Magnitude(Total(half, rows)) <= Limit
  BY DEF NodeSumsFit, Total, Limit
<1>1. /\ IsFinite(Bounds(Masked, Row)) /\ scales = Scales(Bounds(Masked, Row))
      /\ gpair = Fixed(Masked, scales)
  BY DEF QuantizerInv, SameAsHost, Masked, Fixed
<1>2. Masked \in [Row -> Pairs]
  BY MaskedPairs, TypeIs DEF Masked, QuantizerInv
<1>3. PartsFit(gpair)
  BY <1>1, <1>2, FixedFit
<1>4. half = GradPart(gpair) \/ half = HessPart(gpair)
  BY DEF GradPart, HessPart
<1>5. Total(half, rows) \in Int /\ -Limit <= Total(half, rows) /\ Total(half, rows) <= Limit
  BY <1>3, <1>4 DEF PartsFit, Within
<1> QED
  BY <1>5, LimitIsNarrow, MagnitudeIs

\* With any number of rows and blocks and any gradients, in whatever order the blocks
\* run, the device quantizes as the host would (GradQuantizer, gpair_max_abs,
\* gpair_quantize), and no sum over the rows of a node wraps.
THEOREM DeviceQuantizesLikeHost == QuantizerSpec => []QuantizedLikeHost
<1>1. QuantizerInv => QuantizedLikeHost
  BY SumsFit DEF QuantizerInv, QuantizedLikeHost
<1> QED
  BY <1>1, QuantizerInvariant, PTL

----------------------------------------------------------------------------
(***************************************************************************)
(* Bins and tiles                                                          *)
(***************************************************************************)

LEMMA BinsAreTotal == \A a, b : BinsOf(a, b) = Total(nBins, a..b)
BY DEF BinsOf, MapThenSumSet, Total, FoldFunctionOnSet

LEMMA NaturalTotal ==
  ASSUME NEW S, IsFiniteSet(S), NEW v, \A x \in S : v[x] \in Nat
  PROVE  \A s \in SUBSET S : Total(v, s) \in Nat
<1> DEFINE A == {s \in SUBSET S : Total(v, s) \in Nat}
<1>1. \A s \in SUBSET S : IsFiniteSet(s) /\ \A x \in s : v[x] \in Int
  BY FS_Subset
<1>2. {} \in A
  <2>1. IsFiniteSet({}) /\ \A x \in {} : v[x] \in Int
    BY FS_EmptySet
  <2>2. Total(v, {}) = 0
    BY <2>1, TotalStep
  <2> QED
    BY <2>2
<1>3. ASSUME NEW s \in SUBSET S, s # {}, s \ {Picked(s)} \in A PROVE s \in A
  <2> DEFINE x == Picked(s)
             r == s \ {x}
  <2>1. x \in s /\ Total(v, s) = v[x] + Total(v, r)
    BY <1>1, <1>3, TotalStep
  <2>2. v[x] \in Nat /\ Total(v, r) \in Nat
    BY <1>3, <2>1
  <2> HIDE DEF x, r
  <2>3. Total(v, s) \in Nat
    BY <2>1, <2>2
  <2> QED
    BY <2>3
<1>4. A \in SUBSET SUBSET S
  OBVIOUS
<1> HIDE DEF A
<1>5. A = SUBSET S
  BY <1>2, <1>3, <1>4, SubsetInduction
<1> QED
  BY <1>5 DEF A

\* The numbers of bins are positive, and a tile has at least those of each of its features.
LEMMA BinsFacts ==
  ASSUME nBins \in BinLists
  PROVE  /\ nBins \in Seq(Nat \ {0}) /\ Len(nBins) \in Nat /\ Features = 1..Len(nBins)
         /\ \A f \in Features : nBins[f] \in Nat \ {0}
         /\ \A a \in Nat \ {0}, b \in 0..Len(nBins) :
              /\ BinsOf(a, b) \in Nat
              /\ \A f \in a..b : nBins[f] <= BinsOf(a, b)
         /\ \A f \in Features : BinsOf(f, f) = nBins[f]
<1>1. /\ nBins \in Seq(Nat \ {0}) /\ Len(nBins) \in Nat /\ Features = 1..Len(nBins)
      /\ \A f \in Features : nBins[f] \in Nat \ {0}
  BY LaunchParams DEF Features
<1>2. ASSUME NEW a \in Nat \ {0}, NEW b \in 0..Len(nBins)
      PROVE  BinsOf(a, b) \in Nat /\ \A f \in a..b : nBins[f] <= BinsOf(a, b)
  <2> DEFINE S == a..b
  <2>1. IsFiniteSet(S)
    BY <1>1, FS_Interval
  <2>2. \A f \in S : f \in Features /\ nBins[f] \in Nat
    BY <1>1
  <2> HIDE DEF S
  <2>3. \A s \in SUBSET S : Total(nBins, s) \in Nat
    BY <2>1, <2>2, NaturalTotal
  <2>4. ASSUME NEW f \in S PROVE nBins[f] <= Total(nBins, S)
    <3>1. Total(nBins, S) = nBins[f] + Total(nBins, S \ {f})
      BY <2>1, <2>2, TotalRemove
    <3>2. Total(nBins, S \ {f}) \in Nat /\ nBins[f] \in Nat
      BY <2>2, <2>3
    <3> QED
      BY <3>1, <3>2
  <2>5. Total(nBins, S) \in Nat
    BY <2>3
  <2> QED
    BY <2>4, <2>5, BinsAreTotal DEF S
<1>3. ASSUME NEW f \in Features PROVE BinsOf(f, f) = nBins[f]
  <2>1. f..f = {f} /\ nBins[f] \in Nat
    BY <1>1
  <2>2. IsFiniteSet({f}) /\ \A x \in {f} : nBins[x] \in Int
    <3>1. IsFiniteSet({f})
      BY FS_Singleton
    <3> QED
      BY <2>1, <3>1
  <2>3. Total(nBins, {f}) = nBins[f] + Total(nBins, {f} \ {f})
    BY <2>2, TotalRemove
  <2>4. Total(nBins, {}) = 0 /\ {f} \ {f} = {}
    <3>1. IsFiniteSet({}) /\ \A x \in {} : nBins[x] \in Int
      BY FS_EmptySet
    <3> QED
      BY <3>1, TotalStep
  <2>5. Total(nBins, {f}) = nBins[f]
    BY <2>1, <2>3, <2>4
  <2> QED
    BY <2>1, <2>5, BinsAreTotal, Zenon
<1> QED
  BY <1>1, <1>2, <1>3

LEMMA TileFacts ==
  ASSUME nBins \in BinLists, NEW f \in Features
  PROVE  /\ TileLast(f) \in (f - 1)..Len(nBins)
         /\ TileLast(f) >= f => BinsOf(f, TileLast(f)) <= MaxTileBins
         /\ TileLast(f) < f => nBins[f] > MaxTileBins
<1> DEFINE E == {e \in f..Len(nBins) : BinsOf(f, e) <= MaxTileBins}
           S == {f - 1} \cup E
<1>1. f \in Nat \ {0} /\ f <= Len(nBins) /\ Len(nBins) \in Nat
  BY BinsFacts
<1>2. TileLast(f) = Max(S)
  BY DEF TileLast
<1>3. S \in SUBSET ((f - 1)..Len(nBins)) /\ S # {}
  BY <1>1
<1>4. IsFiniteSet((f - 1)..Len(nBins))
  BY <1>1, FS_Interval
<1>5. IsMax(Max(S), S)
  <2>1. S \in SUBSET Int
    BY <1>1, <1>3
  <2> HIDE DEF S
  <2> QED
    BY <1>3, <1>4, <2>1, FS_Subset, MaxOfFinite
<1>6. Max(S) \in S /\ \A e \in S : Max(S) >= e
  BY <1>5 DEF IsMax
<1>7. TileLast(f) < f => nBins[f] > MaxTileBins
  <2>1. SUFFICES ASSUME nBins[f] <= MaxTileBins PROVE ~(TileLast(f) < f)
    BY BinsFacts, LaunchParams
  <2>2. f \in S
    BY <1>1, <2>1, BinsFacts
  <2>3. Max(S) >= f /\ Max(S) \in Int
    <3> HIDE DEF S
    <3>1. \A e \in S : e \in Int
      BY <1>1, <1>3
    <3> QED
      BY <1>6, <2>2, <3>1
  <2> QED
    BY <1>1, <1>2, <2>3
<1>8. TileLast(f) >= f => BinsOf(f, TileLast(f)) <= MaxTileBins
  <2>1. ASSUME NEW m \in S, m >= f PROVE BinsOf(f, m) <= MaxTileBins
    <3>1. m # f - 1
      BY <1>1, <2>1
    <3> QED
      BY <3>1
  <2> HIDE DEF S
  <2> QED
    BY <1>2, <1>6, <2>1
<1>9. TileLast(f) \in (f - 1)..Len(nBins)
  <2> HIDE DEF S
  <2> QED
    BY <1>2, <1>3, <1>6
<1> QED
  BY <1>7, <1>8, <1>9

\* Where the tile after the one of f starts.
After(f) == Max({TileLast(f), f}) + 1

LEMMA AfterIs ==
  ASSUME nBins \in BinLists, NEW f \in Features
  PROVE  /\ After(f) \in (f + 1)..(Len(nBins) + 1)
         /\ TileLast(f) >= f => After(f) = TileLast(f) + 1
<1>1. f \in Nat \ {0} /\ f <= Len(nBins) /\ Len(nBins) \in Nat
      /\ TileLast(f) \in Int /\ TileLast(f) <= Len(nBins)
  BY BinsFacts, TileFacts
<1>2. CASE TileLast(f) >= f
  <2>1. IsMax(TileLast(f), {TileLast(f), f}) /\ {TileLast(f), f} \in SUBSET Int
    BY <1>1, <1>2 DEF IsMax
  <2>2. After(f) = TileLast(f) + 1
    BY <2>1, MaxIs DEF After
  <2> QED
    BY <1>1, <1>2, <2>2
<1>3. CASE ~(TileLast(f) >= f)
  <2>1. IsMax(f, {TileLast(f), f}) /\ {TileLast(f), f} \in SUBSET Int
    BY <1>1, <1>3 DEF IsMax
  <2>2. After(f) = f + 1
    BY <2>1, MaxIs DEF After
  <2> QED
    BY <1>1, <1>3, <2>2
<1> QED
  BY <1>2, <1>3

\* The starts of the tiles from a feature on.
Starts ==
  CHOOSE N : N = [f \in 1..(Len(nBins) + 1) |->
                    IF f > Len(nBins) THEN {} ELSE {f} \cup N[Max({TileLast(f), f}) + 1]]

AreStarts(N, from) ==
  \A f \in 1..(Len(nBins) + 1) : f >= from =>
    N[f] = IF f > Len(nBins) THEN {} ELSE {f} \cup N[After(f)]

LEMMA StartsExist ==
  ASSUME nBins \in BinLists
  PROVE  \E N \in [1..(Len(nBins) + 1) -> SUBSET Features] : AreStarts(N, 1)
<1> DEFINE last == Len(nBins) + 1
           V == [1..last -> SUBSET Features]
           K == {k \in Nat : \E N \in V : AreStarts(N, last - k)}
<1>1. Len(nBins) \in Nat /\ Features = 1..Len(nBins)
  BY BinsFacts
<1>2. 0 \in K
  <2>1. [f \in 1..last |-> {}] \in V
    OBVIOUS
  <2>2. AreStarts([f \in 1..last |-> {}], last - 0)
    BY <1>1 DEF AreStarts
  <2> QED
    BY <2>1, <2>2
<1>3. ASSUME NEW k \in K PROVE k + 1 \in K
  <2>1. k \in Nat
    OBVIOUS
  <2>2. PICK N \in V : AreStarts(N, last - k)
    OBVIOUS
  <2> DEFINE here == last - (k + 1)
             G == [f \in 1..last |-> IF f = here THEN {f} \cup N[After(f)] ELSE N[f]]
  <2>3. ASSUME NEW f \in 1..last, f <= Len(nBins)
        PROVE  f \in Features /\ After(f) \in 1..last /\ After(f) > f
    <3>1. f \in Features
      BY <1>1, <2>3
    <3>2. After(f) \in (f + 1)..(Len(nBins) + 1)
      BY <3>1, AfterIs
    <3> QED
      BY <1>1, <3>1, <3>2
  <2>4. here <= Len(nBins) /\ here \in Int /\ last - k = here + 1
    BY <1>1, <2>1
  <2>5. G \in V
    <3> SUFFICES ASSUME NEW f \in 1..last, f = here PROVE {f} \cup N[After(f)] \in SUBSET Features
      OBVIOUS
    <3>1. f \in Features /\ After(f) \in 1..last
      BY <2>3, <2>4
    <3> HIDE DEF last
    <3> QED
      BY <3>1
  <2>6. AreStarts(G, here)
    <3> SUFFICES ASSUME NEW f \in 1..last, f >= here
                 PROVE  G[f] = IF f > Len(nBins) THEN {} ELSE {f} \cup G[After(f)]
      BY DEF AreStarts
    <3>1. CASE f = here
      <4>1. here <= Len(nBins) /\ here \in Int /\ Len(nBins) \in Nat
        BY <1>1, <2>4
      <4> HIDE DEF here, last
      <4>2. f <= Len(nBins) /\ ~(f > Len(nBins))
        BY <3>1, <4>1
      <4>3. After(f) \in 1..last /\ After(f) > f
        BY <2>3, <4>2, Zenon
      <4>4. After(f) # here
        BY <3>1, <4>1, <4>3
      <4>5. G[f] = {f} \cup N[After(f)]
        BY <3>1, Zenon
      <4>6. G[After(f)] = N[After(f)]
        BY <4>3, <4>4, Zenon
      <4> HIDE DEF G
      <4> QED
        BY <4>2, <4>5, <4>6, Zenon
    <3>2. CASE f # here
      <4>1. f >= last - k
        <5>1. f \in Int /\ here \in Int /\ f >= here /\ last - k = here + 1
          BY <1>1, <2>4
        <5> HIDE DEF here, last
        <5> QED
          BY <3>2, <5>1
      <4>2. N[f] = IF f > Len(nBins) THEN {} ELSE {f} \cup N[After(f)]
        BY <2>2, <4>1 DEF AreStarts
      <4>3. G[f] = N[f]
        BY <3>2
      <4>4. CASE f > Len(nBins)
        BY <4>2, <4>3, <4>4
      <4>5. CASE ~(f > Len(nBins))
        <5>1. After(f) \in 1..last /\ After(f) # here /\ f <= Len(nBins)
          <6>1. here <= Len(nBins) /\ here \in Int /\ Len(nBins) \in Nat /\ f > here
            BY <1>1, <2>4, <4>1
          <6> HIDE DEF here, last
          <6>2. f <= Len(nBins)
            BY <4>5, <6>1
          <6>3. After(f) \in 1..last /\ After(f) > f
            BY <2>3, <6>2, Zenon
          <6> QED
            BY <6>1, <6>2, <6>3
        <5>2. G[After(f)] = N[After(f)]
          BY <5>1
        <5> HIDE DEF G
        <5> QED
          BY <4>2, <4>3, <4>5, <5>2
      <4> QED
        BY <4>4, <4>5
    <3> QED
      BY <3>1, <3>2
  <2> HIDE DEF G, V
  <2>7. AreStarts(G, last - (k + 1))
    BY <2>6
  <2> HIDE DEF last, here
  <2> QED
    BY <2>1, <2>5, <2>7
<1>4. K \in SUBSET Nat
  OBVIOUS
<1>5. Len(nBins) \in K
  <2> HIDE DEF K
  <2> QED
    BY <1>1, <1>2, <1>3, <1>4, NatSetInduction
<1>6. last - Len(nBins) = 1
  BY <1>1
<1> QED
  BY <1>5, <1>6

LEMMA StartsAre ==
  ASSUME nBins \in BinLists
  PROVE  /\ TileStarts = Starts[1] /\ AreStarts(Starts, 1)
         /\ \A f \in 1..(Len(nBins) + 1) : Starts[f] \in SUBSET (f..Len(nBins))
<1> DEFINE Def(N) == N = [f \in 1..(Len(nBins) + 1) |->
                    IF f > Len(nBins) THEN {} ELSE {f} \cup N[Max({TileLast(f), f}) + 1]]
<1>1. TileStarts = Starts[1]
  BY DEF TileStarts, Starts
<1>2. \E N : Def(N)
  <2>1. PICK N \in [1..(Len(nBins) + 1) -> SUBSET Features] : AreStarts(N, 1)
    BY StartsExist
  <2>2. \A f \in 1..(Len(nBins) + 1) :
          N[f] = IF f > Len(nBins) THEN {} ELSE {f} \cup N[Max({TileLast(f), f}) + 1]
    <3>1. ASSUME NEW f \in 1..(Len(nBins) + 1)
          PROVE  N[f] = IF f > Len(nBins) THEN {} ELSE {f} \cup N[After(f)]
      <4>1. f >= 1
        BY BinsFacts
      <4> QED
        BY <2>1, <4>1 DEF AreStarts
    <3> QED
      BY <3>1, Zenon DEF After
  <2>3. N = [f \in 1..(Len(nBins) + 1) |-> N[f]]
    BY <2>1
  <2>4. Def(N)
    BY <2>2, <2>3, Zenon
  <2> QED
    BY <2>4
<1>3. Starts = CHOOSE N : Def(N)
  BY DEF Starts
<1>4. Def(Starts)
  BY <1>2, <1>3, Zenon
<1>5. \A f \in 1..(Len(nBins) + 1) :
        Starts[f] = IF f > Len(nBins) THEN {} ELSE {f} \cup Starts[Max({TileLast(f), f}) + 1]
  BY <1>4, Zenon
<1>6. AreStarts(Starts, 1)
  BY <1>5 DEF AreStarts, After
<1>13. /\ \A f \in 1..(Len(nBins) + 1) : f <= Len(nBins) => Starts[f] = {f} \cup Starts[After(f)]
       /\ \A f \in 1..(Len(nBins) + 1) : f > Len(nBins) => Starts[f] = {}
  <2>1. \A f \in 1..(Len(nBins) + 1) :
          Starts[f] = IF f > Len(nBins) THEN {} ELSE {f} \cup Starts[After(f)]
    BY <1>5, Zenon DEF After
  <2>2. ASSUME NEW f \in 1..(Len(nBins) + 1)
        PROVE  /\ f <= Len(nBins) => Starts[f] = {f} \cup Starts[After(f)]
               /\ f > Len(nBins) => Starts[f] = {}
    <3>1. f \in Int /\ Len(nBins) \in Int /\ (f <= Len(nBins) => ~(f > Len(nBins)))
      BY BinsFacts
    <3> QED
      BY <2>1, <3>1, Zenon
  <2> QED
    BY <2>2
<1> HIDE DEF Def
<1> DEFINE last == Len(nBins) + 1
           K == {k \in Nat : \A f \in 1..last : f >= last - k => Starts[f] \in SUBSET (f..Len(nBins))}
<1>7. Len(nBins) \in Nat /\ Features = 1..Len(nBins)
  BY BinsFacts
<1>8. 0 \in K
  <2> SUFFICES ASSUME NEW f \in 1..last, f >= last - 0 PROVE Starts[f] \in SUBSET (f..Len(nBins))
    OBVIOUS
  <2>1. f > Len(nBins)
    BY <1>7
  <2> QED
    BY <1>13, <2>1
<1>9. ASSUME NEW k \in K PROVE k + 1 \in K
  <2>1. k \in Nat /\ \A f \in 1..last : f >= last - k => Starts[f] \in SUBSET (f..Len(nBins))
    OBVIOUS
  <2>2. ASSUME NEW f \in 1..last, f >= last - (k + 1) PROVE Starts[f] \in SUBSET (f..Len(nBins))
    <3>1. CASE f > Len(nBins)
      BY <1>13, <3>1
    <3>2. CASE ~(f > Len(nBins))
      <4>1. f \in Features
        BY <1>7, <3>2
      <4>2. After(f) \in (f + 1)..(Len(nBins) + 1)
        BY <4>1, AfterIs
      <4>3. After(f) \in 1..last /\ After(f) >= last - k
        BY <1>7, <2>1, <2>2, <4>2
      <4>4. Starts[After(f)] \in SUBSET (After(f)..Len(nBins))
        BY <2>1, <4>3
      <4>5. Starts[f] = {f} \cup Starts[After(f)]
        BY <1>7, <1>13, <3>2
      <4> QED
        BY <1>7, <3>2, <4>2, <4>4, <4>5
    <3> QED
      BY <3>1, <3>2
  <2> QED
    BY <2>1, <2>2
<1>10. K \in SUBSET Nat
  OBVIOUS
<1>11. Len(nBins) \in K
  <2> HIDE DEF K
  <2> QED
    BY <1>7, <1>8, <1>9, <1>10, NatSetInduction
<1>12. \A f \in 1..last : f >= last - Len(nBins)
  BY <1>7
<1> QED
  BY <1>1, <1>6, <1>11, <1>12

----------------------------------------------------------------------------
(***************************************************************************)
(* Rows and threads                                                        *)
(***************************************************************************)

LEMMA GroupPlace ==
  ASSUME NEW n \in Nat \ {0}, NEW g \in Nat, NEW q \in 0..(g - 1), NEW m \in 0..(n - 1)
  PROVE  q * n + m \in 0..(g * n - 1)
<1>1. q \in Nat /\ m \in Nat /\ m < n /\ q + 1 <= g
  OBVIOUS
<1>2. (q + 1) * n <= g * n /\ q * n \in Nat /\ g * n \in Nat
  BY <1>1, Product
<1>3. (q + 1) * n = q * n + n
  BY <1>1
<1> DEFINE a == q * n
           b == g * n
           c == (q + 1) * n
<1>4. a \in Nat /\ b \in Nat /\ c <= b /\ c = a + n
  BY <1>2, <1>3
<1> HIDE DEF a, b, c
<1>5. a + m \in 0..(b - 1)
  BY <1>1, <1>4
<1> QED
  BY <1>5 DEF a, b

Splits(i, n, g) == \E q \in 0..(g - 1), m \in 0..(n - 1) : i = q * n + m

LEMMA GroupSplit ==
  ASSUME NEW n \in Nat \ {0}, NEW g \in Nat, NEW b, b = g * n, NEW i \in 0..(b - 1)
  PROVE  Splits(i, n, g)
<1> DEFINE q == i \div n
           a == n * q
<1>1. i \in Nat /\ n \in Nat /\ n > 0 /\ b \in Nat /\ i < b
  <2>1. b \in Nat
    BY Product
  <2> QED
    BY <2>1
<1>2. q \in Nat /\ a <= i /\ i < a + n
  BY <1>1, DivBounds
<1>3. a = q * n /\ a \in Nat
  <2>1. q \in Int /\ n \in Int
    BY <1>1, <1>2
  <2> HIDE DEF q
  <2>2. n * q = q * n
    BY <2>1
  <2> QED
    BY <1>1, <1>2, <2>2, Product
<1>4. q < g
  <2>1. SUFFICES ASSUME g <= q PROVE FALSE
    BY <1>2
  <2> HIDE DEF q
  <2>2. g * n <= q * n
    BY <1>1, <1>2, <2>1, Product
  <2> HIDE DEF a
  <2>3. b <= a
    BY <1>3, <2>2
  <2> QED
    BY <1>1, <1>2, <1>3, <2>3
<1> HIDE DEF q, a
<1>5. i - a \in 0..(n - 1) /\ i = a + (i - a)
  BY <1>1, <1>2, <1>3
<1>6. q \in 0..(g - 1)
  BY <1>2, <1>4
<1>7. i = q * n + (i - a)
  BY <1>3, <1>5
<1> QED
  BY <1>5, <1>6, <1>7 DEF Splits

LEMMA ExactDivision ==
  ASSUME NEW n \in Nat \ {0}, NEW g \in Nat
  PROVE  (g * n) \div n = g
<1> DEFINE b == g * n
           q == b \div n
<1>1. b \in Nat /\ n \in Nat /\ n > 0
  BY Product
<1>2. q \in Nat /\ n * q <= b /\ b < n * q + n
  BY <1>1, DivBounds
<1> HIDE DEF q
<1>3. n * q = q * n /\ q * n \in Nat
  BY <1>1, <1>2, Product
<1>4. CASE q < g
  <2>1. q + 1 <= g
    BY <1>2, <1>4
  <2>2. (q + 1) * n <= g * n
    BY <1>1, <1>2, <2>1, Product
  <2>3. (q + 1) * n = q * n + n
    BY <1>1, <1>2
  <2> QED
    BY <1>1, <1>2, <1>3, <2>2, <2>3
<1>5. CASE q > g
  <2>1. g + 1 <= q
    BY <1>2, <1>5
  <2>2. (g + 1) * n <= q * n
    BY <1>1, <1>2, <2>1, Product
  <2>3. (g + 1) * n = g * n + n
    BY <1>1
  <2> QED
    BY <1>1, <1>2, <1>3, <2>2, <2>3
<1>6. q = g
  BY <1>2, <1>4, <1>5
<1> QED
  BY <1>6 DEF q, b

\* The threads of a launch over whole groups read every row of the view once.
LEMMA IndicesAre ==
  ASSUME NEW B \in Nat \ {0}, NEW P \in Nat \ {0}, NEW G \in Nat \ {0}, NEW v,
         v.block = B, v.perThread = P, v.len = G * (B * P)
  PROVE  Grid(v) = G /\ v.len > 0 /\ Indices(v) = 0..(v.len - 1)
<1> DEFINE n == B * P
<1>1. n \in Nat \ {0} /\ n = P * B
  <2>1. B \in Nat /\ P \in Nat /\ 1 <= B
    OBVIOUS
  <2>2. B * P \in Nat /\ 1 * P <= B * P
    BY <2>1, Product
  <2>3. 1 * P = P /\ P > 0
    OBVIOUS
  <2>4. B * P = P * B
    BY <2>1
  <2> QED
    BY <2>2, <2>3, <2>4
<1> HIDE DEF n
<1>2. v.len = G * n /\ v.block * v.perThread = n
  BY DEF n
<1>3. v.len \in Nat /\ v.len > 0
  <2>1. G * n \in Nat /\ 1 * n <= G * n
    BY <1>1, Product
  <2>2. 1 * n = n /\ n > 0
    BY <1>1
  <2> QED
    BY <1>2, <2>1, <2>2
<1>4. Grid(v) = G
  <2>1. (G * n) \div n = G
    BY <1>1, ExactDivision
  <2>2. v.len # 0
    BY <1>3
  <2> QED
    BY <1>2, <2>1, <2>2 DEF Grid
<1>5. ASSUME NEW b \in 0..(G - 1) PROVE b * v.block * v.perThread = b * n
  <2>1. (b * B) * P = b * (B * P)
    OBVIOUS
  <2> QED
    BY <2>1 DEF n
<1>6. ASSUME NEW x \in Indices(v) PROVE x \in 0..(v.len - 1)
  <2>1. PICK b \in 0..(G - 1), t \in 0..(B - 1), r \in 0..(P - 1) :
          x = b * v.block * v.perThread + t + r * v.block
    BY <1>4 DEF Indices
  <2>2. r * B + t \in 0..(P * B - 1)
    BY GroupPlace
  <2> DEFINE m == r * B + t
  <2>3. m \in 0..(n - 1) /\ m = t + r * B
    <3>1. r * B \in Int /\ t \in Int
      OBVIOUS
    <3> QED
      BY <1>1, <2>2, <3>1
  <2> HIDE DEF m
  <2>4. b * n + m \in 0..(G * n - 1)
    BY <1>1, <2>3, GroupPlace
  <2>5. x = b * n + m
    <3>1. x = b * n + t + r * B
      BY <1>5, <2>1
    <3>2. b * n \in Int /\ t \in Int /\ r * B \in Int
      BY <1>1
    <3> QED
      BY <2>3, <3>1, <3>2
  <2> QED
    BY <1>2, <2>4, <2>5
<1>7. ASSUME NEW x \in 0..(v.len - 1) PROVE x \in Indices(v)
  <2>1. PICK b \in 0..(G - 1), m \in 0..(n - 1) : x = b * n + m
    <3>1. Splits(x, n, G)
      BY <1>1, <1>2, GroupSplit
    <3> QED
      BY <3>1 DEF Splits
  <2>2. PICK r \in 0..(P - 1), t \in 0..(B - 1) : m = r * B + t
    <3>1. Splits(m, B, P)
      BY <1>1, GroupSplit
    <3> QED
      BY <3>1 DEF Splits
  <2>3. x = b * v.block * v.perThread + t + r * v.block
    <3>1. b * n \in Int /\ t \in Int /\ r * B \in Int
      BY <1>1
    <3>2. x = b * n + t + r * B
      BY <2>1, <2>2, <3>1
    <3> QED
      BY <1>5, <3>2
  <2>4. b \in 0..(Grid(v) - 1) /\ t \in 0..(v.block - 1) /\ r \in 0..(v.perThread - 1)
    BY <1>4
  <2>5. \E b2 \in 0..(Grid(v) - 1), t2 \in 0..(v.block - 1), r2 \in 0..(v.perThread - 1) :
          x = b2 * v.block * v.perThread + t2 + r2 * v.block
    BY <2>3, <2>4, Zenon
  <2> QED
    BY <2>5 DEF Indices
<1> QED
  BY <1>3, <1>4, <1>6, <1>7

LEMMA NoIndices ==
  ASSUME NEW v, v.len = 0
  PROVE  Indices(v) = {}
BY DEF Indices, Grid

\* Where the rows of a part start; behind the last part, the number of rows.
PartStart(k) ==
  IF k = 1 THEN 0
  ELSE IF path = "Fused4" THEN IF k = 2 THEN R4Rows ELSE IF k = 3 THEN FullRows ELSE span.len
  ELSE IF k = 2 THEN FullRows ELSE span.len

SpanOK ==
  /\ span \in [offset : 0..ArenaLen, len : 0..ArenaLen]
  /\ span.offset + span.len <= ArenaLen
  /\ path \in Paths

\* The part of n rows that whole groups of m take.
LEMMA FloorIs ==
  ASSUME NEW n \in Nat, NEW m \in Nat \ {0}
  PROVE  /\ Floor(n, m) \in Nat /\ Floor(n, m) <= n /\ n < Floor(n, m) + m
         /\ \E g \in Nat : Floor(n, m) = g * m
<1> DEFINE g == n \div m
<1>1. m \in Nat /\ m > 0
  OBVIOUS
<1>2. g \in Nat /\ m * g <= n /\ n < m * g + m
  BY <1>1, DivBounds
<1> HIDE DEF g
<1>3. m * g = g * m /\ g * m \in Nat
  BY <1>1, <1>2, Product
<1>4. Floor(n, m) = g * m
  BY DEF Floor, g
<1> QED
  BY <1>2, <1>3, <1>4

LEMMA PartsAre ==
  ASSUME SpanOK
  PROVE  /\ R4Rows \in Nat /\ R4Rows <= FullRows /\ FullRows \in Nat
         /\ FullRows <= span.len /\ span.len < FullRows + ThreadsPerBlock
         /\ \E g \in Nat : R4Rows = g * (ThreadsPerBlock * RowsPerThread)
         /\ \E g \in Nat : FullRows - R4Rows = g * ThreadsPerBlock
<1>1. span.len \in Nat
  BY LaunchParams DEF SpanOK
<1>2. ThreadsPerBlock \in Nat \ {0} /\ ThreadsPerBlock * RowsPerThread \in Nat \ {0}
  <2>1. ThreadsPerBlock \in Nat /\ RowsPerThread \in Nat /\ 1 <= ThreadsPerBlock /\ RowsPerThread > 0
    BY LaunchParams
  <2>2. /\ ThreadsPerBlock * RowsPerThread \in Nat
        /\ 1 * RowsPerThread <= ThreadsPerBlock * RowsPerThread
    BY <2>1, Product
  <2>3. 1 * RowsPerThread = RowsPerThread
    BY <2>1
  <2> QED
    BY <2>1, <2>2, <2>3
<1> DEFINE W == ThreadsPerBlock * RowsPerThread
<1> HIDE DEF W
<1>3. W \in Nat \ {0}
  BY <1>2 DEF W
<1>4. R4Rows \in Nat /\ R4Rows <= span.len /\ \E g \in Nat : R4Rows = g * W
  <2>1. CASE path = "Fused4"
    <3>1. R4Rows = Floor(span.len, W)
      BY <2>1 DEF R4Rows, W
    <3> QED
      BY <1>1, <1>3, <3>1, FloorIs
  <2>2. CASE path # "Fused4"
    <3>1. R4Rows = 0 /\ 0 * W = 0
      BY <1>3, <2>2 DEF R4Rows
    <3> QED
      BY <1>1, <3>1
  <2> QED
    BY <2>1, <2>2
<1> DEFINE rest == span.len - R4Rows
           more == Floor(rest, ThreadsPerBlock)
<1>5. rest \in Nat
  BY <1>1, <1>4
<1> HIDE DEF rest
<1>6. /\ more \in Nat /\ more <= rest /\ rest < more + ThreadsPerBlock
      /\ \E g \in Nat : more = g * ThreadsPerBlock
  BY <1>2, <1>5, FloorIs
<1>7. FullRows = R4Rows + more
  BY DEF FullRows, rest
<1> HIDE DEF more
<1>8. FullRows - R4Rows = more
  BY <1>4, <1>6, <1>7
<1>9. /\ R4Rows <= FullRows /\ FullRows \in Nat
      /\ FullRows <= span.len /\ span.len < FullRows + ThreadsPerBlock
  BY <1>1, <1>2, <1>4, <1>6, <1>7 DEF rest
<1> QED
  BY <1>4, <1>6, <1>8, <1>9 DEF W

\* What a part's view is: its rows start where those of the part before end, and whole
\* groups of its threads take all of them.
GroupsTake(v) ==
  /\ v.block \in 1..ThreadsPerBlock /\ v.perThread \in Nat \ {0}
  /\ \E g \in Nat \ {0} : v.len = g * (v.block * v.perThread)

PartOf(v, k) ==
  /\ v.from = PartStart(k) /\ v.from \in Nat /\ v.len \in Nat
  /\ v.from + v.len = PartStart(k + 1)
  /\ PartStart(k + 1) <= span.len
  /\ v.len # 0 => GroupsTake(v)

LEMMA GroupsDo ==
  ASSUME NEW v, NEW n \in Nat, NEW g \in Nat, NEW block \in 1..ThreadsPerBlock,
         NEW per \in Nat \ {0}, n = g * (block * per), n # 0,
         v.len = n, v.block = block, v.perThread = per
  PROVE  GroupsTake(v)
<1>1. g # 0
  <2>1. 0 * (block * per) = 0
    BY LaunchParams
  <2> QED
    BY <2>1
<1>2. g \in Nat \ {0}
  BY <1>1
<1> QED
  BY <1>2, Zenon DEF GroupsTake

LEMMA ViewsAre ==
  ASSUME SpanOK, NEW k \in 1..Len(Parts)
  PROVE  PartOf(View(Parts[k]), k)
<1> DEFINE v == View(Parts[k])
<1>1. /\ R4Rows \in Nat /\ R4Rows <= FullRows /\ FullRows \in Nat
      /\ FullRows <= span.len /\ span.len < FullRows + ThreadsPerBlock /\ span.len \in Nat
      /\ ThreadsPerBlock \in Nat \ {0} /\ RowsPerThread \in Nat \ {0}
      /\ ThreadsPerBlock \in 1..ThreadsPerBlock /\ 1 \in Nat \ {0}
  <2>1. /\ ThreadsPerBlock \in Nat \ {0} /\ RowsPerThread \in Nat \ {0}
        /\ span.len \in Nat
    BY LaunchParams DEF SpanOK
  <2>2. /\ R4Rows \in Nat /\ R4Rows <= FullRows /\ FullRows \in Nat
        /\ FullRows <= span.len /\ span.len < FullRows + ThreadsPerBlock
    BY PartsAre, Zenon
  <2> QED
    BY <2>1, <2>2
<1>2. CASE Parts[k] = "r4" /\ k = 1 /\ path = "Fused4"
  <2>1. /\ v.from = 0 /\ v.len = R4Rows /\ v.block = ThreadsPerBlock
        /\ v.perThread = RowsPerThread
    BY <1>2 DEF View
  <2>2. PartStart(k) = 0 /\ PartStart(k + 1) = R4Rows
    BY <1>2 DEF PartStart
  <2> HIDE DEF v
  <2>3. v.len # 0 => GroupsTake(v)
    <3>1. PICK g \in Nat : R4Rows = g * (ThreadsPerBlock * RowsPerThread)
      BY PartsAre
    <3> QED
      BY <1>1, <2>1, <3>1, GroupsDo, Zenon
  <2>4. PartOf(v, k)
    BY <1>1, <2>1, <2>2, <2>3 DEF PartOf
  <2> QED
    BY <2>4 DEF v
<1>3. CASE /\ Parts[k] = "full" /\ PartStart(k) = R4Rows
           /\ PartStart(k + 1) = FullRows
  <2> DEFINE n == FullRows - R4Rows
  <2>1. v.from = R4Rows /\ v.len = n /\ v.block = ThreadsPerBlock /\ v.perThread = 1
    BY <1>3 DEF View
  <2>2. n \in Nat /\ R4Rows + n = FullRows /\ FullRows <= span.len
    BY <1>1
  <2>3. \E g \in Nat : n = g * (ThreadsPerBlock * 1)
    <3>1. PICK g \in Nat : FullRows - R4Rows = g * ThreadsPerBlock
      BY PartsAre
    <3>2. ThreadsPerBlock * 1 = ThreadsPerBlock
      BY <1>1
    <3> QED
      BY <3>1, <3>2, Zenon
  <2> HIDE DEF v, n
  <2>4. v.len # 0 => GroupsTake(v)
    <3>1. PICK g \in Nat : n = g * (ThreadsPerBlock * 1)
      BY <2>3
    <3> QED
      BY <1>1, <2>1, <2>2, <3>1, GroupsDo, Zenon
  <2>5. PartOf(v, k)
    BY <1>1, <1>3, <2>1, <2>2, <2>4 DEF PartOf
  <2> QED
    BY <2>5 DEF v
<1>4. CASE /\ Parts[k] = "tail" /\ PartStart(k) = FullRows /\ PartStart(k + 1) = span.len
  <2> DEFINE n == span.len - FullRows
  <2>1. v.from = FullRows /\ v.len = n /\ v.block = n /\ v.perThread = 1
    BY <1>4 DEF View
  <2>2. n \in Nat /\ FullRows + n = span.len /\ n < ThreadsPerBlock /\ span.len <= span.len
    BY <1>1
  <2> HIDE DEF v, n
  <2>3. n = 1 * (n * 1)
    BY <2>2
  <2>4. v.len # 0 => GroupsTake(v)
    <3>1. n # 0 => n \in 1..ThreadsPerBlock
      BY <1>1, <2>2
    <3> QED
      BY <1>1, <2>1, <2>2, <2>3, <3>1, GroupsDo, Zenon
  <2>5. PartOf(v, k)
    BY <1>1, <1>4, <2>1, <2>2, <2>4 DEF PartOf
  <2> QED
    BY <2>5 DEF v
<1> HIDE DEF v
<1>5. CASE path = "Fused4"
  <2>1. Parts = <<"r4", "full", "tail">> /\ k \in {1, 2, 3}
    BY <1>5 DEF Parts
  <2>2. /\ Parts[1] = "r4" /\ Parts[2] = "full" /\ Parts[3] = "tail"
        /\ PartStart(2) = R4Rows /\ PartStart(3) = FullRows /\ PartStart(4) = span.len
    BY <1>5, <2>1 DEF PartStart
  <2>3. 2 + 1 = 3 /\ 3 + 1 = 4
    OBVIOUS
  <2>4. CASE k = 1
    BY <1>2, <1>5, <2>2, <2>4 DEF v
  <2>5. CASE k = 2
    BY <1>3, <2>2, <2>3, <2>5 DEF v
  <2>6. CASE k = 3
    BY <1>4, <2>2, <2>3, <2>6 DEF v
  <2> QED
    BY <2>1, <2>4, <2>5, <2>6
<1>6. CASE path # "Fused4"
  <2>1. Parts = <<"full", "tail">> /\ k \in {1, 2}
    BY <1>6 DEF Parts
  <2>2. /\ Parts[1] = "full" /\ Parts[2] = "tail"
        /\ PartStart(1) = R4Rows /\ PartStart(2) = FullRows /\ PartStart(3) = span.len
    BY <1>6, <2>1 DEF PartStart, R4Rows
  <2>3. 1 + 1 = 2 /\ 2 + 1 = 3
    OBVIOUS
  <2>4. CASE k = 1
    BY <1>3, <2>2, <2>3, <2>4 DEF v
  <2>5. CASE k = 2
    BY <1>4, <2>2, <2>3, <2>5 DEF v
  <2> QED
    BY <2>1, <2>4, <2>5
<1> QED
  BY <1>5, <1>6

LEMMA PartEnds ==
  /\ PartStart(1) = 0
  /\ PartStart(Len(Parts) + 1) = span.len
  /\ Len(Parts) \in {2, 3}
<1>1. CASE path = "Fused4"
  BY <1>1 DEF Parts, PartStart
<1>2. CASE path # "Fused4"
  BY <1>2 DEF Parts, PartStart
<1> QED
  BY <1>1, <1>2

----------------------------------------------------------------------------
(***************************************************************************)
(* What no step of a build changes                                         *)
(***************************************************************************)

LastIn(v, f) == Max({f - 1} \cup {e \in f..Len(v) : Total(v, f..e) <= MaxTileBins})

StartsIn(v) ==
  CHOOSE N : N = [f \in 1..(Len(v) + 1) |->
                    IF f > Len(v) THEN {} ELSE {f} \cup N[Max({LastIn(v, f), f}) + 1]]

\* The same in the next state.
LEMMA BinsAre ==
  /\ \A a, b : BinsOf(a, b) = Total(nBins, a..b)
  /\ \A f : TileLast(f) = LastIn(nBins, f)
  /\ Starts = StartsIn(nBins) /\ TileStarts = Starts[1]
<1>1. \A a, b : BinsOf(a, b) = Total(nBins, a..b)
  BY BinsAreTotal
<1>2. \A f : TileLast(f) = LastIn(nBins, f)
  BY DEF TileLast, LastIn, BinsOf, MapThenSumSet, Total, FoldFunctionOnSet
<1>3. Starts = StartsIn(nBins)
  BY DEF Starts, StartsIn, TileLast, LastIn, BinsOf, MapThenSumSet, Total, FoldFunctionOnSet
<1>4. TileStarts = Starts[1]
  BY DEF TileStarts, Starts
<1> QED
  BY <1>1, <1>2, <1>3, <1>4

LEMMA BinsWillBe ==
  /\ \A a, b : BinsOf(a, b)' = Total(nBins', a..b)
  /\ \A f : TileLast(f)' = LastIn(nBins', f)
  /\ Starts' = StartsIn(nBins') /\ TileStarts' = Starts'[1]
<1>1. (/\ \A a, b : BinsOf(a, b) = Total(nBins, a..b)
       /\ \A f : TileLast(f) = LastIn(nBins, f)
       /\ Starts = StartsIn(nBins) /\ TileStarts = Starts[1])'
  BY BinsAre, PTL
<1> QED
  BY <1>1

LEMMA BinsFrame ==
  ASSUME UNCHANGED nBins
  PROVE  /\ \A a, b : BinsOf(a, b)' = BinsOf(a, b)
         /\ \A f : TileLast(f)' = TileLast(f)
         /\ TileStarts' = TileStarts /\ Starts' = Starts
<1>1. \A a, b : BinsOf(a, b)' = BinsOf(a, b)
  BY BinsAre, BinsWillBe
<1>2. \A f : TileLast(f)' = TileLast(f)
  BY BinsAre, BinsWillBe
<1>3. TileStarts' = TileStarts /\ Starts' = Starts
  BY BinsAre, BinsWillBe
<1> QED
  BY <1>1, <1>2, <1>3

----------------------------------------------------------------------------
(***************************************************************************)
(* The invariant of a build                                                *)
(***************************************************************************)

\* The rows that have been added to a feature.
Covered(p, f) ==
  /\ InSpan(p)
  /\ \/ f < feature
     \/ /\ feature <= Len(nBins) /\ f \in LaunchFeatures
        /\ p - span.offset < PartStart(part)

\* Where the build is.
BuildOK ==
  /\ SpanOK
  /\ nBins \in BinLists
  /\ path # "Tiles" => Fits(nBins) /\ feature \in {1, Len(nBins) + 1}
  /\ result \in {"running", "ok", "too wide"}
  /\ feature \in 1..(Len(nBins) + 1)
  /\ part \in 1..(Len(Parts) + 1)

\* The tiles so far: all of them had room for their features, and those from here on
\* start where the kernel's own division has them start.
TilesOK ==
  /\ part > 1 /\ path = "Tiles" => feature <= Len(nBins) /\ TileLast(feature) >= feature
  /\ \A f \in 1..(feature - 1) : nBins[f] <= MaxTileBins
  /\ path = "Tiles" => {f \in TileStarts : f >= feature} = Starts[feature]

CountsOK == added = [p \in Positions |-> [f \in Features |-> IF Covered(p, f) THEN 1 ELSE 0]]

LaunchOK(l) ==
  /\ l.shared \in Nat /\ l.features \subseteq Features
  /\ Indices(l.view) = 0..(l.view.len - 1)
  /\ l.grid > 0
  /\ l.view.block \in 1..ThreadsPerBlock
  /\ span.offset + l.view.from + l.view.len <= ArenaLen
  /\ l.shared <= MaxTileBins
  /\ \A f \in l.features \cap TileStarts : BinsOf(f, TileLast(f)) <= l.shared

EndOK ==
  /\ result = "too wide" => ~ Fits(nBins) /\ span.len > 0
  /\ result = "ok" => Empty \/ feature > Len(nBins)

LaunchInv == BuildOK /\ TilesOK /\ CountsOK /\ (\A l \in launches : LaunchOK(l)) /\ EndOK

LEMMA Frame ==
  ASSUME UNCHANGED <<span, path, nBins>>
  PROVE  /\ SpanOK' = SpanOK /\ Fits(nBins)' = Fits(nBins)
         /\ Features' = Features /\ Parts' = Parts /\ Empty' = Empty
         /\ \A p : InSpan(p)' = InSpan(p)
         /\ \A k : PartStart(k)' = PartStart(k)
         /\ \A l : LaunchOK(l)' = LaunchOK(l)
<1>1. Features' = Features /\ Parts' = Parts
  BY DEF Features, Parts
<1>2. SpanOK' = SpanOK /\ \A p : InSpan(p)' = InSpan(p)
  BY DEF SpanOK, InSpan
<1>3. \A k : PartStart(k)' = PartStart(k)
  BY DEF PartStart, R4Rows, FullRows, Floor
<1>4. Fits(nBins)' = Fits(nBins)
  BY DEF Fits
<1>5. Empty' = Empty
  BY <1>1 DEF Empty
<1>6. \A l : LaunchOK(l)' = LaunchOK(l)
  BY <1>1, BinsFrame DEF LaunchOK
<1> QED
  BY <1>1, <1>2, <1>3, <1>4, <1>5, <1>6

LEMMA CountsFrame ==
  ASSUME UNCHANGED <<span, path, nBins, feature, part, added>>, CountsOK
  PROVE  CountsOK'
<1>1. Features' = Features
  BY Frame
<1>2. ASSUME NEW p, NEW f PROVE Covered(p, f)' = Covered(p, f)
  <2>1. LaunchFeatures' = LaunchFeatures
    BY <1>1, BinsFrame DEF LaunchFeatures
  <2>2. PartStart(part)' = PartStart(part)
    BY DEF PartStart, R4Rows, FullRows, Floor
  <2>3. InSpan(p)' = InSpan(p)
    BY Frame
  <2> QED
    BY <2>1, <2>2, <2>3 DEF Covered
<1> QED
  BY <1>1, <1>2 DEF CountsOK, Positions

LEMMA CoveredFacts ==
  ASSUME BuildOK
  PROVE  /\ span.offset \in Nat /\ span.len \in Nat /\ ArenaLen \in Nat
         /\ Len(nBins) \in Nat /\ Features = 1..Len(nBins) /\ feature \in Nat /\ part \in Nat
         /\ \A p \in Positions : p \in Nat
<1>1. Len(nBins) \in Nat /\ Features = 1..Len(nBins)
  BY BinsFacts DEF BuildOK
<1>2. ArenaLen \in Nat
  BY LaunchParams
<1>3. span.offset \in Nat /\ span.len \in Nat
  <2>1. span \in [offset : 0..ArenaLen, len : 0..ArenaLen]
    BY Zenon DEF BuildOK, SpanOK
  <2> QED
    BY <1>2, <2>1
<1>4. feature \in Nat /\ part \in Nat
  <2>1. feature \in 1..(Len(nBins) + 1) /\ part \in 1..(Len(Parts) + 1)
    BY Zenon DEF BuildOK
  <2>2. Len(Parts) \in Nat
    BY PartEnds
  <2> QED
    BY <1>1, <2>1, <2>2
<1>5. \A p \in Positions : p \in Nat
  BY <1>2 DEF Positions
<1> QED
  BY <1>1, <1>2, <1>3, <1>4, <1>5

LEMMA LaunchInitially == LaunchInit => LaunchInv
<1> SUFFICES ASSUME LaunchInit PROVE LaunchInv
  OBVIOUS
<1> USE DEF LaunchInit
<1>1. nBins \in BinLists
  OBVIOUS
<1>2. Len(nBins) \in Nat
  BY <1>1, BinsFacts
<1>3. BuildOK
  <2>1. Len(Parts) \in Nat /\ 1 \in 1..(Len(Parts) + 1)
    BY PartEnds
  <2>2. 1 \in 1..(Len(nBins) + 1)
    BY <1>2
  <2>3. SpanOK
    BY DEF SpanOK
  <2> QED
    BY <2>1, <2>2, <2>3 DEF BuildOK
<1>4. TilesOK
  <2>1. TileStarts = Starts[1] /\ Starts[1] \in SUBSET (1..Len(nBins))
    <3>1. 1 \in 1..(Len(nBins) + 1)
      BY <1>2
    <3> QED
      BY <1>1, <3>1, StartsAre
  <2>2. {f \in TileStarts : f >= 1} = Starts[1]
    BY <1>2, <2>1
  <2>3. ~(part > 1) /\ 1..(feature - 1) = {}
    OBVIOUS
  <2> QED
    BY <2>2, <2>3 DEF TilesOK
<1>5. CountsOK
  <2>1. ASSUME NEW p \in Positions, NEW f \in Features PROVE ~Covered(p, f)
    <3>1. p \in Nat /\ f \in Nat \ {0} /\ span.offset \in Nat
      BY <1>3, CoveredFacts
    <3>2. PartStart(part) = 0
      BY PartEnds
    <3> QED
      BY <3>1, <3>2 DEF Covered, InSpan
  <2> QED
    BY <2>1 DEF CountsOK
<1>6. EndOK
  BY DEF EndOK
<1> QED
  BY <1>3, <1>4, <1>5, <1>6 DEF LaunchInv

\* A tile, or the largest of the kernel's tiles, has the shared memory it needs.
LEMMA SharedIsEnough ==
  ASSUME BuildOK, TilesOK, feature <= Len(nBins),
         path = "Tiles" => TileLast(feature) >= feature
  PROVE  /\ LaunchFeatures \subseteq Features
         /\ \A f \in LaunchFeatures : f >= feature
         /\ SharedBins \in Nat /\ SharedBins <= MaxTileBins
         /\ \A f \in LaunchFeatures \cap TileStarts : BinsOf(f, TileLast(f)) <= SharedBins
<1>1. /\ Len(nBins) \in Nat /\ Features = 1..Len(nBins) /\ feature \in Features
      /\ nBins \in BinLists /\ MaxTileBins \in Nat /\ feature <= Len(nBins)
  <2>1. /\ Len(nBins) \in Nat /\ Features = 1..Len(nBins)
        /\ feature \in 1..(Len(nBins) + 1) /\ nBins \in BinLists
    BY CoveredFacts, Zenon DEF BuildOK
  <2> QED
    BY <2>1, LaunchParams
<1>2. /\ TileStarts = Starts[1] /\ AreStarts(Starts, 1)
      /\ \A f \in 1..(Len(nBins) + 1) : Starts[f] \in SUBSET (f..Len(nBins))
  BY <1>1, StartsAre
<1>3. CASE path = "Tiles"
  <2> DEFINE m == TileLast(feature)
  <2>1. m \in feature..Len(nBins) /\ BinsOf(feature, m) <= MaxTileBins
    <3>1. /\ TileLast(feature) \in (feature - 1)..Len(nBins)
          /\ TileLast(feature) >= feature => BinsOf(feature, TileLast(feature)) <= MaxTileBins
      BY <1>1, TileFacts
    <3> QED
      BY <1>1, <1>3, <3>1
  <2>2. LaunchFeatures = feature..m /\ SharedBins = BinsOf(feature, m)
    BY <1>3 DEF LaunchFeatures, SharedBins
  <2> HIDE DEF m
  <2>3. BinsOf(feature, m) \in Nat
    <3>1. feature \in Nat \ {0} /\ m \in 0..Len(nBins)
      BY <1>1, <2>1
    <3> QED
      BY <1>1, <3>1, BinsFacts
  <2>4. ASSUME NEW f \in feature..m, f \in TileStarts PROVE f = feature
    <3>1. f \in Starts[feature]
      BY <1>3, <2>4 DEF TilesOK
    <3>2. Starts[feature] = {feature} \cup Starts[After(feature)]
      <4>1. feature \in 1..(Len(nBins) + 1) /\ feature >= 1 /\ ~(feature > Len(nBins))
        BY <1>1
      <4> QED
        BY <1>2, <4>1 DEF AreStarts
    <3>3. After(feature) = m + 1
      <4>1. TileLast(feature) >= feature
        BY <1>3
      <4> QED
        BY <1>1, <4>1, AfterIs DEF m
    <3>4. Starts[m + 1] \in SUBSET ((m + 1)..Len(nBins))
      <4>1. m + 1 \in 1..(Len(nBins) + 1)
        BY <1>1, <2>1
      <4> QED
        BY <1>2, <4>1
    <3>5. f \notin (m + 1)..Len(nBins)
      BY <1>1, <2>1
    <3> QED
      BY <3>1, <3>2, <3>3, <3>4, <3>5
  <2>5. \A f \in LaunchFeatures \cap TileStarts : BinsOf(f, TileLast(f)) <= SharedBins
    <3>1. ASSUME NEW f \in LaunchFeatures \cap TileStarts PROVE BinsOf(f, TileLast(f)) <= SharedBins
      <4>1. f = feature
        BY <2>2, <2>4
      <4>2. BinsOf(f, TileLast(f)) = SharedBins
        BY <2>2, <4>1 DEF m
      <4> QED
        BY <2>2, <2>3, <4>2
    <3> QED
      BY <3>1
  <2>6. LaunchFeatures \subseteq Features /\ \A f \in LaunchFeatures : f >= feature
    BY <1>1, <2>1, <2>2
  <2> QED
    BY <2>1, <2>2, <2>3, <2>5, <2>6
<1>4. CASE path # "Tiles"
  <2>1. Fits(nBins) /\ feature = 1
    <3>1. Fits(nBins) /\ feature \in {1, Len(nBins) + 1}
      BY <1>4, Zenon DEF BuildOK
    <3> QED
      BY <1>1, <3>1
  <2> DEFINE S == {0} \cup {BinsOf(f, TileLast(f)) : f \in TileStarts}
  <2>2. LaunchFeatures = Features /\ SharedBins = Max(S)
    BY <1>4 DEF LaunchFeatures, SharedBins
  <2>3. ASSUME NEW f \in TileStarts
        PROVE  BinsOf(f, TileLast(f)) \in Nat /\ BinsOf(f, TileLast(f)) <= MaxTileBins
    <3>1. f \in Features
      <4>1. 1 \in 1..(Len(nBins) + 1)
        BY <1>1
      <4> QED
        BY <1>1, <1>2, <4>1
    <3>2. nBins[f] <= MaxTileBins /\ nBins[f] \in Nat
      BY <1>1, <2>1, <3>1, BinsFacts DEF Fits, Features
    <3>3. /\ TileLast(f) \in (f - 1)..Len(nBins)
          /\ TileLast(f) >= f => BinsOf(f, TileLast(f)) <= MaxTileBins
          /\ TileLast(f) < f => nBins[f] > MaxTileBins
      BY <1>1, <3>1, TileFacts
    <3>4. TileLast(f) >= f /\ f \in Nat \ {0} /\ TileLast(f) \in 0..Len(nBins)
      BY <1>1, <3>1, <3>2, <3>3
    <3>5. BinsOf(f, TileLast(f)) \in Nat
      BY <1>1, <3>4, BinsFacts
    <3> QED
      BY <3>3, <3>4, <3>5
  <2>4. S \in SUBSET (0..MaxTileBins) /\ S # {} /\ S \in SUBSET Int
    BY <1>1, <2>3
  <2>5. IsFiniteSet(0..MaxTileBins)
    BY <1>1, FS_Interval
  <2>6. \A f \in TileStarts : BinsOf(f, TileLast(f)) \in S
    OBVIOUS
  <2> HIDE DEF S
  <2>7. IsFiniteSet(S)
    BY <2>4, <2>5, FS_Subset
  <2>8. IsMax(Max(S), S)
    BY <2>4, <2>7, MaxOfFinite
  <2>9. Max(S) \in 0..MaxTileBins /\ \A y \in S : y \in Int /\ Max(S) >= y
    BY <2>4, <2>8 DEF IsMax
  <2>10. \A f \in TileStarts : BinsOf(f, TileLast(f)) <= Max(S)
    BY <2>6, <2>9
  <2>11. \A f \in Features : f >= feature
    BY <1>1, <2>1
  <2> QED
    BY <1>1, <2>2, <2>9, <2>10, <2>11
<1> QED
  BY <1>3, <1>4

----------------------------------------------------------------------------
(***************************************************************************)
(* The steps of a build                                                    *)
(***************************************************************************)

LEMMA RefuseKeeps == LaunchInv /\ RefuseFeature => LaunchInv'
<1> SUFFICES ASSUME LaunchInv, RefuseFeature PROVE LaunchInv'
  OBVIOUS
<1>1. /\ result = "running" /\ ~Empty /\ feature <= Len(nBins)
      /\ path = "Tiles" /\ TileLast(feature) < feature /\ result' = "too wide"
      /\ UNCHANGED <<span, path, nBins, feature, part, added, launches>>
  BY DEF RefuseFeature, Active
<1>2. BuildOK /\ TilesOK /\ CountsOK /\ \A l \in launches : LaunchOK(l)
  BY DEF LaunchInv
<1>3. BuildOK'
  BY <1>1, <1>2, Frame DEF BuildOK
<1>4. TilesOK'
  BY <1>1, <1>2, BinsFrame DEF TilesOK
<1>5. CountsOK'
  BY <1>1, <1>2, CountsFrame
<1>6. \A l \in launches' : LaunchOK(l)'
  BY <1>1, <1>2, Frame
<1>7. EndOK'
  <2>1. feature \in Features
    <3>1. feature \in 1..(Len(nBins) + 1) /\ Len(nBins) \in Nat /\ Features = 1..Len(nBins)
      BY <1>2, CoveredFacts, Zenon DEF BuildOK
    <3>2. feature <= Len(nBins)
      BY <1>1
    <3> QED
      BY <3>1, <3>2
  <2>2. nBins[feature] > MaxTileBins /\ nBins[feature] \in Nat /\ MaxTileBins \in Nat
    <3>1. nBins \in BinLists
      BY <1>2 DEF BuildOK
    <3> QED
      BY <1>1, <2>1, <3>1, TileFacts, BinsFacts, LaunchParams
  <2>3. ~Fits(nBins)
    BY <2>1, <2>2 DEF Fits, Features
  <2>4. span.len > 0
    <3>1. span.len # 0 /\ span.len \in Nat
      BY <1>1, <1>2, CoveredFacts DEF Empty
    <3> QED
      BY <3>1
  <2>5. (~Fits(nBins))' /\ (span.len > 0)'
    BY <1>1, <2>3, <2>4, Frame
  <2> QED
    BY <1>1, <2>5 DEF EndOK
<1> QED
  BY <1>3, <1>4, <1>5, <1>6, <1>7 DEF LaunchInv

LEMMA FinishKeeps == LaunchInv /\ Finish => LaunchInv'
<1> SUFFICES ASSUME LaunchInv, Finish PROVE LaunchInv'
  OBVIOUS
<1>1. /\ Empty \/ feature > Len(nBins)
      /\ result' = "ok"
      /\ UNCHANGED <<span, path, nBins, feature, part, added, launches>>
  BY DEF Finish
<1>2. BuildOK /\ TilesOK /\ CountsOK /\ \A l \in launches : LaunchOK(l)
  BY DEF LaunchInv
<1>3. BuildOK'
  BY <1>1, <1>2, Frame DEF BuildOK
<1>4. TilesOK'
  BY <1>1, <1>2, BinsFrame DEF TilesOK
<1>5. CountsOK'
  BY <1>1, <1>2, CountsFrame
<1>6. \A l \in launches' : LaunchOK(l)'
  BY <1>1, <1>2, Frame
<1>7. EndOK'
  BY <1>1, Frame DEF EndOK
<1> QED
  BY <1>3, <1>4, <1>5, <1>6, <1>7 DEF LaunchInv

\* The threads of a part read the rows of the span from where the part starts to where
\* the next one does.
LEMMA PartReads ==
  ASSUME BuildOK, part <= Len(Parts), NEW p \in Positions
  PROVE  LET v == View(Parts[part]) IN
         /\ PartStart(part) <= PartStart(part + 1) /\ PartStart(part + 1) <= span.len
         /\ PartStart(part) \in Nat /\ PartStart(part + 1) \in Nat
         /\ p - (span.offset + v.from) \in Indices(v) <=>
              PartStart(part) <= p - span.offset /\ p - span.offset < PartStart(part + 1)
<1> DEFINE v == View(Parts[part])
<1>1. PartOf(v, part)
  <2>1. part \in 1..Len(Parts) /\ SpanOK
    <3>1. part \in 1..(Len(Parts) + 1) /\ SpanOK
      BY Zenon DEF BuildOK
    <3>2. Len(Parts) \in Nat
      BY PartEnds
    <3> QED
      BY <3>1, <3>2
  <2> QED
    BY <2>1, ViewsAre
<1> HIDE DEF v
<1>2. /\ v.from = PartStart(part) /\ v.from \in Nat /\ v.len \in Nat
      /\ v.from + v.len = PartStart(part + 1)
      /\ PartStart(part + 1) <= span.len
      /\ v.len # 0 => GroupsTake(v)
  BY <1>1 DEF PartOf
<1>3. Indices(v) = 0..(v.len - 1)
  <2>1. CASE v.len = 0
    <3>1. 0..(v.len - 1) = {}
      BY <2>1
    <3> QED
      BY <2>1, <3>1, NoIndices
  <2>2. CASE v.len # 0
    <3>1. PICK g \in Nat \ {0} : v.len = g * (v.block * v.perThread)
      BY <1>2, <2>2 DEF GroupsTake
    <3>2. v.block \in Nat \ {0} /\ v.perThread \in Nat \ {0}
      BY <1>2, <2>2, LaunchParams DEF GroupsTake
    <3> QED
      BY <3>1, <3>2, IndicesAre
  <2> QED
    BY <2>1, <2>2
<1>4. p \in Nat /\ span.offset \in Nat /\ span.len \in Nat
  BY CoveredFacts
<1>5. /\ PartStart(part) <= PartStart(part + 1) /\ PartStart(part + 1) <= span.len
      /\ PartStart(part) \in Nat /\ PartStart(part + 1) \in Nat
  BY <1>2
<1>6. p - (span.offset + v.from) \in 0..(v.len - 1) <=>
        PartStart(part) <= p - span.offset /\ p - span.offset < PartStart(part + 1)
  <2> DEFINE o == span.offset
             a == v.from
             n == v.len
             b == PartStart(part + 1)
  <2>1. /\ p \in Nat /\ o \in Nat /\ a \in Nat /\ n \in Nat /\ b \in Nat
        /\ a + n = b /\ a = PartStart(part)
    BY <1>2, <1>4, <1>5
  <2> HIDE DEF o, a, n, b
  <2>2. p - (o + a) \in 0..(n - 1) <=> a <= p - o /\ p - o < b
    BY <2>1
  <2> QED
    BY <2>1, <2>2 DEF o, a, n, b
<1> QED
  BY <1>3, <1>5, <1>6 DEF v

LEMMA LaunchKeeps == LaunchInv /\ Launch => LaunchInv'
<1> SUFFICES ASSUME LaunchInv, Launch PROVE LaunchInv'
  OBVIOUS
<1> DEFINE v == View(Parts[part])
           start == span.offset + v.from
           new == [grid |-> Grid(v), view |-> v, features |-> LaunchFeatures, shared |-> SharedBins]
<1>1. /\ result = "running" /\ ~Empty /\ feature <= Len(nBins) /\ part <= Len(Parts)
      /\ path = "Tiles" => TileLast(feature) >= feature
      /\ added' = [p \in Positions |-> [f \in Features |->
                      added[p][f] + IF f \in LaunchFeatures /\ p - start \in Indices(v) THEN 1 ELSE 0]]
      /\ launches' = IF v.len = 0 THEN launches ELSE launches \cup {new}
      /\ part' = part + 1
      /\ UNCHANGED <<span, path, nBins, feature, result>>
  BY DEF Launch, Active
<1>2. BuildOK /\ TilesOK /\ CountsOK /\ EndOK /\ \A l \in launches : LaunchOK(l)
  BY DEF LaunchInv
<1>3. /\ LaunchFeatures \subseteq Features
      /\ \A f \in LaunchFeatures : f >= feature
      /\ SharedBins \in Nat /\ SharedBins <= MaxTileBins
      /\ \A f \in LaunchFeatures \cap TileStarts : BinsOf(f, TileLast(f)) <= SharedBins
  BY <1>1, <1>2, SharedIsEnough
<1>4. part \in 1..Len(Parts) /\ Len(Parts) \in Nat
  <2>1. part \in 1..(Len(Parts) + 1)
    BY <1>2, Zenon DEF BuildOK
  <2>2. Len(Parts) \in Nat
    BY PartEnds
  <2> QED
    BY <1>1, <2>1, <2>2
<1>5. BuildOK'
  <2>1. part' \in 1..(Len(Parts) + 1)
    BY <1>1, <1>4
  <2> HIDE DEF v, start, new
  <2> QED
    BY <1>1, <1>2, <2>1, Frame DEF BuildOK
<1>6. TilesOK'
  <2> HIDE DEF v, start, new
  <2>1. /\ path' = "Tiles" => feature' <= Len(nBins') /\ TileLast(feature)' >= feature'
        /\ \A f \in 1..(feature' - 1) : nBins'[f] <= MaxTileBins
    <3>1. TileLast(feature)' = TileLast(feature)
      BY <1>1, BinsAre, BinsWillBe
    <3> QED
      BY <1>1, <1>2, <3>1 DEF TilesOK
  <2>2. path' = "Tiles" => {f \in TileStarts' : f >= feature'} = (Starts')[feature']
    BY <1>1, <1>2, BinsFrame DEF TilesOK
  <2> QED
    BY <2>1, <2>2 DEF TilesOK
<1>7. CountsOK'
  <2>1. Features' = Features /\ LaunchFeatures' = LaunchFeatures
        /\ PartStart(part)' = PartStart(part + 1)
    <3> HIDE DEF v, start, new
    <3>1. Features' = Features
      BY <1>1, Frame
    <3>2. LaunchFeatures' = LaunchFeatures
      <4>1. TileLast(feature)' = TileLast(feature)
        BY <1>1, BinsAre, BinsWillBe
      <4> QED
        BY <1>1, <3>1, <4>1 DEF LaunchFeatures
    <3>3. PartStart(part)' = PartStart(part + 1)
      BY <1>1 DEF PartStart, R4Rows, FullRows, Floor
    <3> QED
      BY <3>1, <3>2, <3>3
  <2>2. ASSUME NEW p \in Positions, NEW f \in Features
        PROVE  added[p][f] + (IF f \in LaunchFeatures /\ p - start \in Indices(v) THEN 1 ELSE 0)
                 = IF Covered(p, f)' THEN 1 ELSE 0
    <3>1. /\ PartStart(part) <= PartStart(part + 1) /\ PartStart(part + 1) <= span.len
          /\ PartStart(part) \in Nat /\ PartStart(part + 1) \in Nat
          /\ p - start \in Indices(v) <=>
               PartStart(part) <= p - span.offset /\ p - span.offset < PartStart(part + 1)
      BY <1>1, <1>2, PartReads
    <3> HIDE DEF v, start, new
    <3>2. added[p][f] = IF Covered(p, f) THEN 1 ELSE 0
      BY <1>2 DEF CountsOK
    <3>3. Covered(p, f)' <=>
            InSpan(p) /\ (f < feature \/ (f \in LaunchFeatures /\ p - span.offset < PartStart(part + 1)))
      <4>1. InSpan(p)' = InSpan(p)
        BY <1>1, Frame
      <4> QED
        BY <1>1, <2>1, <4>1 DEF Covered
    <3>4. Covered(p, f) <=>
            InSpan(p) /\ (f < feature \/ (f \in LaunchFeatures /\ p - span.offset < PartStart(part)))
      BY <1>1 DEF Covered
    <3>5. InSpan(p) <=> p - span.offset >= 0 /\ p - span.offset < span.len
      BY <1>2, CoveredFacts DEF InSpan
    <3>6. f \in LaunchFeatures => ~(f < feature)
      BY <1>2, <1>3, CoveredFacts
    <3> DEFINE d == p - span.offset
    <3>7. d \in Int /\ span.len \in Nat
      BY <1>2, CoveredFacts
    <3> HIDE DEF d
    <3>8. ASSUME f \in LaunchFeatures, p - start \in Indices(v)
          PROVE  ~Covered(p, f) /\ Covered(p, f)'
      BY <3>1, <3>3, <3>4, <3>5, <3>6, <3>7, <3>8 DEF d
    <3>9. ASSUME ~(f \in LaunchFeatures /\ p - start \in Indices(v))
          PROVE  Covered(p, f)' <=> Covered(p, f)
      BY <3>1, <3>3, <3>4, <3>5, <3>6, <3>7, <3>9 DEF d
    <3>10. CASE f \in LaunchFeatures /\ p - start \in Indices(v)
      BY <3>2, <3>8, <3>10
    <3>11. CASE ~(f \in LaunchFeatures /\ p - start \in Indices(v))
      BY <3>2, <3>9, <3>11
    <3> QED
      BY <3>10, <3>11
  <2> HIDE DEF v, start, new
  <2>3. added' = [p \in Positions |-> [f \in Features |-> IF Covered(p, f)' THEN 1 ELSE 0]]
    BY <1>1, <2>2
  <2>4. Positions' = Positions
    BY DEF Positions
  <2> QED
    BY <2>1, <2>3, <2>4 DEF CountsOK
<1>8. \A l \in launches' : LaunchOK(l)'
  <2>1. SUFFICES ASSUME v.len # 0 PROVE LaunchOK(new)
    <3> HIDE DEF v, start, new
    <3>1. \A l : LaunchOK(l)' = LaunchOK(l)
      BY <1>1, Frame
    <3>2. launches' = launches \/ (launches' = launches \cup {new} /\ v.len # 0)
      BY <1>1
    <3> QED
      BY <1>2, <2>1, <3>1, <3>2
  <2>2. PartOf(v, part)
    BY <1>2, <1>4, ViewsAre DEF BuildOK
  <2> DEFINE u == v
  <2>3. /\ new.grid = Grid(u) /\ new.view = u /\ new.features = LaunchFeatures
        /\ new.shared = SharedBins /\ u.len # 0 /\ PartOf(u, part)
    BY <2>1, <2>2
  <2> HIDE DEF u, v, new
  <2>4. PICK g \in Nat \ {0} : u.len = g * (u.block * u.perThread)
    BY <2>3 DEF PartOf, GroupsTake
  <2>5. u.block \in 1..ThreadsPerBlock /\ u.block \in Nat \ {0} /\ u.perThread \in Nat \ {0}
    BY <2>3, LaunchParams DEF PartOf, GroupsTake
  <2>6. Grid(u) = g /\ Indices(u) = 0..(u.len - 1)
    BY <2>4, <2>5, IndicesAre
  <2>7. span.offset + u.from + u.len <= ArenaLen
    <3>1. /\ u.from \in Nat /\ u.len \in Nat
          /\ u.from + u.len = PartStart(part + 1) /\ PartStart(part + 1) <= span.len
      BY <2>3 DEF PartOf
    <3>2. span.offset \in Nat /\ span.len \in Nat /\ ArenaLen \in Nat
      BY <1>2, CoveredFacts
    <3>3. span.offset + span.len <= ArenaLen
      BY <1>2 DEF BuildOK, SpanOK
    <3>4. u.from + u.len <= span.len
      BY <3>1
    <3> QED
      BY <3>1, <3>2, <3>3, <3>4
  <2>8. Grid(u) > 0
    BY <2>6
  <2> QED
    BY <1>3, <2>3, <2>5, <2>6, <2>7, <2>8, Zenon DEF LaunchOK
<1>9. EndOK'
  <2> HIDE DEF v, start, new
  <2> QED
    BY <1>1, <1>2, Frame DEF EndOK
<1> QED
  BY <1>5, <1>6, <1>7, <1>8, <1>9 DEF LaunchInv

LEMMA NextTileKeeps == LaunchInv /\ NextTile => LaunchInv'
<1> SUFFICES ASSUME LaunchInv, NextTile PROVE LaunchInv'
  OBVIOUS
<1>1. /\ result = "running" /\ ~Empty /\ feature <= Len(nBins) /\ part > Len(Parts)
      /\ feature' = IF path = "Tiles" THEN TileLast(feature) + 1 ELSE Len(nBins) + 1
      /\ part' = 1
      /\ UNCHANGED <<span, path, nBins, added, launches, result>>
  BY DEF NextTile
<1>2. BuildOK /\ TilesOK /\ CountsOK /\ EndOK /\ \A l \in launches : LaunchOK(l)
  BY DEF LaunchInv
<1>3. /\ Len(nBins) \in Nat /\ Features = 1..Len(nBins) /\ feature \in Features
      /\ nBins \in BinLists /\ MaxTileBins \in Nat
  <2>1. /\ Len(nBins) \in Nat /\ Features = 1..Len(nBins)
        /\ feature \in 1..(Len(nBins) + 1) /\ nBins \in BinLists
    BY <1>2, CoveredFacts, Zenon DEF BuildOK
  <2> QED
    BY <1>1, <2>1, LaunchParams
<1>4. Len(Parts) \in Nat /\ part > 1 /\ part = Len(Parts) + 1
  <2>1. part \in 1..(Len(Parts) + 1) /\ Len(Parts) \in {2, 3}
    BY <1>2, PartEnds DEF BuildOK
  <2> QED
    BY <1>1, <2>1
<1> DEFINE m == TileLast(feature)
<1>5. path = "Tiles" => m \in feature..Len(nBins) /\ feature' = m + 1
  <2>1. /\ TileLast(feature) \in (feature - 1)..Len(nBins)
        /\ path = "Tiles" => TileLast(feature) >= feature
    BY <1>2, <1>3, <1>4, TileFacts DEF TilesOK
  <2> QED
    BY <1>1, <1>3, <2>1
<1>6. path # "Tiles" => feature' = Len(nBins) + 1 /\ feature = 1 /\ Fits(nBins)
  <2>1. path # "Tiles" => feature \in {1, Len(nBins) + 1} /\ Fits(nBins)
    BY <1>2, Zenon DEF BuildOK
  <2> QED
    BY <1>1, <1>3, <2>1
<1>7. LaunchFeatures = feature..(feature' - 1) /\ feature' \in 1..(Len(nBins) + 1) /\ feature' > feature
  BY <1>3, <1>5, <1>6 DEF LaunchFeatures
<1>8. BuildOK'
  <2>1. 1 \in 1..(Len(Parts) + 1)
    BY <1>4
  <2> QED
    BY <1>1, <1>2, <1>6, <1>7, <2>1, Frame DEF BuildOK
<1>9. TilesOK'
  <2>1. ASSUME NEW f \in 1..(feature' - 1) PROVE nBins[f] <= MaxTileBins
    <3>1. CASE f < feature
      <4>1. f \in 1..(feature - 1)
        BY <1>3, <1>7, <3>1
      <4> QED
        BY <1>2, <4>1 DEF TilesOK
    <3>2. CASE ~(f < feature) /\ path # "Tiles"
      <4>1. f \in DOMAIN nBins
        BY <1>3, <1>6, <3>2 DEF Features
      <4> QED
        BY <1>6, <3>2, <4>1 DEF Fits
    <3>3. CASE ~(f < feature) /\ path = "Tiles"
      <4>1. f \in feature..m /\ f \in Features /\ m \in 0..Len(nBins) /\ feature \in Nat \ {0}
            /\ m >= feature
        BY <1>3, <1>5, <3>3
      <4>2. nBins[f] <= BinsOf(feature, m) /\ BinsOf(feature, m) \in Nat /\ nBins[f] \in Nat
        BY <1>3, <4>1, BinsFacts
      <4>3. BinsOf(feature, m) <= MaxTileBins
        BY <1>3, <4>1, TileFacts
      <4> HIDE DEF m
      <4> QED
        BY <1>3, <4>2, <4>3
    <3> QED
      BY <3>1, <3>2, <3>3
  <2>2. ASSUME path = "Tiles"
        PROVE  {f \in TileStarts : f >= feature'} = Starts[feature']
    <3>1. {f \in TileStarts : f >= feature} = Starts[feature]
      BY <1>2, <2>2 DEF TilesOK
    <3>2. /\ AreStarts(Starts, 1)
          /\ \A f \in 1..(Len(nBins) + 1) : Starts[f] \in SUBSET (f..Len(nBins))
      BY <1>3, StartsAre
    <3>3. Starts[feature] = {feature} \cup Starts[After(feature)]
      <4>1. feature \in 1..(Len(nBins) + 1) /\ feature >= 1 /\ ~(feature > Len(nBins))
        BY <1>3
      <4> QED
        BY <3>2, <4>1 DEF AreStarts
    <3>4. After(feature) = feature'
      <4>1. TileLast(feature) >= feature
        BY <1>3, <1>5, <2>2
      <4>2. After(feature) = TileLast(feature) + 1
        BY <1>3, <4>1, AfterIs
      <4> QED
        BY <1>5, <2>2, <4>2
    <3>5. Starts[feature'] \in SUBSET (feature'..Len(nBins))
      BY <1>7, <3>2
    <3> DEFINE next == feature'
               later == Starts[feature']
    <3>6. later \in SUBSET (next..Len(nBins)) /\ Starts[feature] = {feature} \cup later
      BY <3>3, <3>4, <3>5
    <3>7. next > feature /\ next \in Int /\ feature \in Int
      BY <1>3, <1>7
    <3>8. \A f \in TileStarts : f \in Int
      <4>1. TileStarts = Starts[1] /\ 1 \in 1..(Len(nBins) + 1)
        BY <1>3, StartsAre
      <4> QED
        BY <3>2, <4>1
    <3> HIDE DEF next, later
    <3>9. {f \in TileStarts : f >= next} = later
      <4>1. ASSUME NEW f \in TileStarts, f >= next PROVE f \in later
        <5>1. f >= feature /\ f # feature
          BY <3>7, <3>8, <4>1
        <5> QED
          BY <3>1, <3>6, <5>1
      <4>2. ASSUME NEW f \in later PROVE f \in TileStarts /\ f >= next
        <5>1. f \in {x \in TileStarts : x >= feature}
          BY <3>1, <3>6
        <5>2. f >= next
          BY <1>3, <3>6, <3>7
        <5> QED
          BY <5>1, <5>2
      <4> QED
        BY <4>1, <4>2
    <3> QED
      BY <3>9 DEF next, later
  <2>3. ~(part' > 1)
    BY <1>1
  <2>4. (path' = "Tiles") => {f \in TileStarts' : f >= feature'} = (Starts')[feature']
    BY <1>1, <2>2, BinsFrame
  <2>5. \A f \in 1..(feature' - 1) : nBins'[f] <= MaxTileBins
    BY <1>1, <2>1
  <2> QED
    BY <2>3, <2>4, <2>5 DEF TilesOK
<1>10. CountsOK'
  <2>1. Features' = Features /\ Positions' = Positions
    BY <1>1, Frame DEF Positions
  <2>2. ASSUME NEW p \in Positions, NEW f \in Features PROVE Covered(p, f)' <=> Covered(p, f)
    <3>1. p \in Nat /\ span.offset \in Nat /\ span.len \in Nat /\ f \in Nat
      BY <1>2, <1>3, CoveredFacts
    <3>2. InSpan(p)' = InSpan(p) /\ (span.offset)' = span.offset
      BY <1>1, Frame
    <3>3. PartStart(part) = span.len
      BY <1>4, PartEnds
    <3>4. PartStart(part)' = 0
      BY <1>1 DEF PartStart
    <3>5. InSpan(p) => p - span.offset >= 0 /\ p - span.offset < span.len
      BY <3>1 DEF InSpan
    <3>6. Covered(p, f)' <=> InSpan(p) /\ f < feature'
      <4>1. InSpan(p) => ~(p - span.offset < 0)
        BY <3>1, <3>5
      <4> QED
        BY <3>2, <3>4, <4>1 DEF Covered
    <3>7. Covered(p, f) <=> InSpan(p) /\ (f < feature \/ f \in LaunchFeatures)
      BY <1>1, <3>3, <3>5 DEF Covered
    <3>8. f < feature' <=> (f < feature \/ f \in LaunchFeatures)
      <4> DEFINE next == feature'
      <4>1. /\ LaunchFeatures = feature..(next - 1) /\ next \in Int /\ next > feature
            /\ feature \in Int
        BY <1>3, <1>7
      <4> HIDE DEF next
      <4>2. f < next <=> (f < feature \/ f \in LaunchFeatures)
        BY <3>1, <4>1
      <4> QED
        BY <4>2 DEF next
    <3> QED
      BY <3>6, <3>7, <3>8
  <2>3. added' = [p \in Positions |-> [f \in Features |-> IF Covered(p, f)' THEN 1 ELSE 0]]
    BY <1>1, <1>2, <2>2 DEF CountsOK
  <2> QED
    BY <2>1, <2>3 DEF CountsOK
<1>11. \A l \in launches' : LaunchOK(l)'
  BY <1>1, <1>2, Frame
<1>12. EndOK'
  BY <1>1, <1>2, Frame DEF EndOK
<1> QED
  BY <1>8, <1>9, <1>10, <1>11, <1>12 DEF LaunchInv

LEMMA LaunchStep == LaunchInv /\ [LaunchNext]_launch_vars => LaunchInv'
<1> SUFFICES ASSUME LaunchInv, [LaunchNext]_launch_vars PROVE LaunchInv'
  OBVIOUS
<1>1. CASE RefuseFeature
  BY <1>1, RefuseKeeps
<1>2. CASE Launch
  BY <1>2, LaunchKeeps
<1>3. CASE NextTile
  BY <1>3, NextTileKeeps
<1>4. CASE Finish
  BY <1>4, FinishKeeps
<1>5. CASE UNCHANGED launch_vars
  <2>1. UNCHANGED <<span, path, nBins, feature, part, added, launches, result>>
    BY <1>5 DEF launch_vars
  <2>2. BuildOK /\ TilesOK /\ CountsOK /\ EndOK /\ \A l \in launches : LaunchOK(l)
    BY DEF LaunchInv
  <2>3. BuildOK' /\ EndOK' /\ \A l \in launches' : LaunchOK(l)'
    BY <2>1, <2>2, Frame DEF BuildOK, EndOK
  <2>4. TilesOK'
    BY <2>1, <2>2, BinsFrame DEF TilesOK
  <2>5. CountsOK'
    BY <2>1, <2>2, CountsFrame
  <2> QED
    BY <2>3, <2>4, <2>5 DEF LaunchInv
<1> QED
  BY <1>1, <1>2, <1>3, <1>4, <1>5 DEF LaunchNext

(***************************************************************************)
(* The invariant of a build: what has been added is what the tiles and     *)
(* parts launched so far cover, and every launch was in order.             *)
(***************************************************************************)
THEOREM LaunchInvariant == LaunchSpec => []LaunchInv
<1> QED
  BY LaunchInitially, LaunchStep, PTL DEF LaunchSpec

(***************************************************************************)
(* A build's state is well typed, and a launch names only features that    *)
(* are there.                                                              *)
(***************************************************************************)
THEOREM LaunchTypeCorrect == LaunchSpec => []LaunchTypeOK
<1>1. LaunchInv => LaunchTypeOK
  <2> SUFFICES ASSUME LaunchInv PROVE LaunchTypeOK
    OBVIOUS
  <2>1. BuildOK /\ \A l \in launches : LaunchOK(l)
    BY DEF LaunchInv
  <2>2. /\ result \in {"running", "ok", "too wide"} /\ feature \in 1..(Len(nBins) + 1)
        /\ part \in 1..(Len(Parts) + 1)
    BY <2>1, Zenon DEF BuildOK
  <2>3. part \in 1..4
    <3> DEFINE n == Len(Parts)
    <3>1. part \in 1..(n + 1)
      BY <2>2
    <3>2. n \in {2, 3}
      BY PartEnds
    <3> HIDE DEF n
    <3> QED
      BY <3>1, <3>2
  <2>4. \A l \in launches : l.shared \in Nat /\ l.features \subseteq Features
    BY <2>1, Zenon DEF LaunchOK
  <2> QED
    BY <2>2, <2>3, <2>4 DEF LaunchTypeOK
<1> QED
  BY <1>1, LaunchInvariant, PTL

LEMMA CoverFollows == LaunchInv => LaunchesCoverSpan
<1> SUFFICES ASSUME LaunchInv PROVE LaunchesCoverSpan
  OBVIOUS
<1>1. BuildOK /\ TilesOK /\ CountsOK /\ EndOK /\ \A l \in launches : LaunchOK(l)
  BY DEF LaunchInv
<1>2. /\ Len(nBins) \in Nat /\ Features = 1..Len(nBins) /\ feature \in 1..(Len(nBins) + 1)
      /\ span.offset \in Nat /\ span.len \in Nat /\ \A p \in Positions : p \in Nat
  BY <1>1, CoveredFacts, Zenon DEF BuildOK
<1>3. EveryRowOnce
  <2> SUFFICES ASSUME result = "ok", NEW p \in Positions, NEW f \in Features
               PROVE  added[p][f] = IF InSpan(p) THEN 1 ELSE 0
    BY DEF EveryRowOnce
  <2>1. added[p][f] = IF Covered(p, f) THEN 1 ELSE 0
    BY <1>1 DEF CountsOK
  <2>2. Covered(p, f) <=> InSpan(p)
    <3>1. CASE Empty
      <4>1. Features # {}
        OBVIOUS
      <4>2. span.len = 0
        BY <3>1, <4>1 DEF Empty
      <4>3. ~InSpan(p)
        BY <1>2, <4>2 DEF InSpan
      <4> QED
        BY <4>3 DEF Covered
    <3>2. CASE feature > Len(nBins)
      <4>1. f < feature
        BY <1>2, <3>2
      <4> QED
        BY <4>1 DEF Covered
    <3> QED
      BY <1>1, <3>1, <3>2 DEF EndOK
  <2> QED
    BY <2>1, <2>2
<1>4. ThreadsStayInView /\ SharedMemorySuffices
  BY <1>1, Zenon DEF ThreadsStayInView, SharedMemorySuffices, LaunchOK
<1>5. RefusesTooWide
  <2> SUFFICES ASSUME result # "running"
               PROVE  result = IF ~Fits(nBins) /\ span.len > 0 THEN "too wide" ELSE "ok"
    BY DEF RefusesTooWide
  <2>1. result = "ok" \/ result = "too wide"
    BY <1>1 DEF BuildOK
  <2>2. CASE result = "too wide"
    BY <1>1, <2>2 DEF EndOK
  <2>3. CASE result = "ok"
    <3>1. CASE Empty /\ span.len = 0
      BY <2>3, <3>1
    <3>2. CASE Empty /\ Features = {}
      <4>1. Fits(nBins)
        BY <3>2 DEF Fits, Features
      <4> QED
        BY <2>3, <4>1
    <3>3. CASE feature > Len(nBins)
      <4>1. 1..(feature - 1) = Features
        BY <1>2, <3>3
      <4>2. Fits(nBins)
        BY <1>1, <4>1 DEF TilesOK, Fits, Features
      <4> QED
        BY <2>3, <4>2
    <3> QED
      BY <1>1, <2>3, <3>1, <3>2, <3>3 DEF EndOK, Empty
  <2> QED
    BY <2>1, <2>2, <2>3
<1> QED
  BY <1>3, <1>4, <1>5 DEF LaunchesCoverSpan

(***************************************************************************)
(* For any span, block size, tile limit and list of features, on each of   *)
(* the three paths: a finished histogram has every row of the span once in *)
(* each feature and no other row, no thread reads past its view, every     *)
(* tile has its shared memory, and only a feature too wide is refused.     *)
(***************************************************************************)
THEOREM LaunchesAreRight == LaunchSpec => []LaunchesCoverSpan
<1> QED
  BY LaunchInvariant, CoverFollows, PTL

----------------------------------------------------------------------------
(***************************************************************************)
(* StablePartition: what the invariant speaks of                           *)
(***************************************************************************)

\* The rows before a byte, and how many of the first r rows go to a side.
Upto(b) == Least(b * ByteRows, n_rows)
Count(r, side) == Cardinality(OnSide(1..r, side))

\* A writer has copied the rows of its segment before the byte it is at.
WriterOK(s) ==
  /\ at[s] \in [byte : Nat, li : Nat, ri : Nat]
  /\ Segments[s].first <= at[s].byte /\ at[s].byte <= Segments[s].end
  /\ Count(Upto(at[s].byte), TRUE) = Count(Upto(Segments[s].first), TRUE) + at[s].li
  /\ Count(Upto(at[s].byte), FALSE) = Count(Upto(Segments[s].first), FALSE) + at[s].ri

\* These rows, and no others of the segment, are in their places of an output.
Written(output, side, s) ==
  \A r \in OnSide(RowsOfSegment(s), side) :
    output[Count(r, side)] = IF r <= Upto(at[s].byte) THEN r ELSE 0

Blank(output, side) == output \in [1..Count(n_rows, side) -> Nat]

InputOK ==
  /\ n_rows \in 0..MaxRows /\ goes \in [1..n_rows -> BOOLEAN]
  /\ threads \in 1..MaxThreads

CountedOK ==
  /\ DOMAIN counts \subseteq DOMAIN Segments
  /\ \A s \in DOMAIN counts : counts[s] = LeftCount(s)

WritingOK ==
  /\ DOMAIN counts = DOMAIN Segments /\ DOMAIN at = DOMAIN Segments
  /\ at \in [DOMAIN Segments -> [byte : Nat, li : Nat, ri : Nat]]
  /\ left \in [1..Count(n_rows, TRUE) -> Nat] /\ right \in [1..Count(n_rows, FALSE) -> Nat]
  /\ \A s \in DOMAIN Segments :
       WriterOK(s) /\ Written(left, TRUE, s) /\ Written(right, FALSE, s)

PartitionInv ==
  /\ InputOK /\ CountedOK
  /\ stage \in {"count", "write", "done"}
  /\ stage = "count" => left = << >> /\ right = << >>
  /\ stage # "count" => WritingOK
  /\ stage = "done" => \A s \in DOMAIN Segments : at[s].byte = Segments[s].end

----------------------------------------------------------------------------
(***************************************************************************)
(* Rows in order, and counts of them                                       *)
(***************************************************************************)

RankIn(S, r) == Cardinality({q \in S : q <= r})

\* The elements of a finite set of numbers, each at its rank.
LEMMA OrderIs ==
  ASSUME NEW S \in SUBSET Nat, IsFiniteSet(S)
  PROVE  /\ Cardinality(S) \in Nat
         /\ InOrder(S) \in [1..Cardinality(S) -> S]
         /\ \A r \in S : RankIn(S, r) \in 1..Cardinality(S) /\ InOrder(S)[RankIn(S, r)] = r
         /\ \A i \in 1..Cardinality(S) : RankIn(S, InOrder(S)[i]) = i
<1> DEFINE U(r) == {q \in S : q <= r}
<1>1. Cardinality(S) \in Nat
  BY FS_CardinalityType
<1>2. \A r \in S : U(r) \in SUBSET S /\ r \in U(r)
  OBVIOUS
<1>3. \A r \in S : /\ IsFiniteSet(U(r)) /\ Cardinality(U(r)) \in Nat
                   /\ Cardinality(U(r)) <= Cardinality(S) /\ Cardinality(U(r)) # 0
  <2> SUFFICES ASSUME NEW r \in S
               PROVE  /\ IsFiniteSet(U(r)) /\ Cardinality(U(r)) \in Nat
                      /\ Cardinality(U(r)) <= Cardinality(S) /\ Cardinality(U(r)) # 0
    OBVIOUS
  <2>1. U(r) \in SUBSET S /\ U(r) # {}
    BY <1>2
  <2> HIDE DEF U
  <2>2. IsFiniteSet(U(r)) /\ Cardinality(U(r)) <= Cardinality(S)
    BY <2>1, FS_Subset
  <2>3. Cardinality(U(r)) \in Nat /\ Cardinality(U(r)) # 0
    BY <2>1, <2>2, FS_CardinalityType, FS_EmptySet
  <2> QED
    BY <2>2, <2>3
<1>4. ASSUME NEW r \in S, NEW t \in S, r < t PROVE Cardinality(U(r)) # Cardinality(U(t))
  <2>1. U(r) \in SUBSET U(t) /\ t \in U(t) /\ t \notin U(r)
    <3>1. \A q \in S : q <= r => q <= t
      BY <1>4
    <3>2. r \in Nat /\ t \in Nat /\ ~(t <= r) /\ t <= t
      BY <1>4
    <3> QED
      BY <3>1, <3>2, Zenon
  <2>2. IsFiniteSet(U(t))
    BY <1>3
  <2> HIDE DEF U
  <2>3. Cardinality(U(t)) = Cardinality(U(r)) => U(t) = U(r)
    BY <2>1, <2>2, FS_Subset
  <2> QED
    BY <2>1, <2>3
<1>5. \A r \in S : RankIn(S, r) = Cardinality(U(r))
  BY DEF RankIn
<1> HIDE DEF U
<1>6. \A r \in S : RankIn(S, r) \in 1..Cardinality(S)
  BY <1>1, <1>3, <1>5
<1>7. ASSUME NEW r \in S, NEW t \in S, RankIn(S, r) = RankIn(S, t) PROVE r = t
  <2>1. ~(r < t) /\ ~(t < r)
    BY <1>4, <1>5, <1>7
  <2> QED
    BY <2>1
<1> DEFINE f == [r \in S |-> RankIn(S, r)]
<1>8. f \in Injection(S, 1..Cardinality(S))
  <2>1. f \in [S -> 1..Cardinality(S)]
    BY <1>6
  <2>2. \A r, t \in S : f[r] = f[t] => r = t
    BY <1>7
  <2> QED
    BY <2>1, <2>2 DEF Injection, IsInjective
<1>9. IsFiniteSet(1..Cardinality(S)) /\ Cardinality(1..Cardinality(S)) = Cardinality(S)
  BY <1>1, FS_Interval
<1>10. f \in Surjection(S, 1..Cardinality(S))
  BY <1>8, <1>9, FS_Injection
<1>11. ASSUME NEW i \in 1..Cardinality(S) PROVE \E r \in S : RankIn(S, r) = i
  BY <1>10 DEF Surjection
<1>12. \A i \in 1..Cardinality(S) : InOrder(S)[i] \in S /\ RankIn(S, InOrder(S)[i]) = i
  <2> SUFFICES ASSUME NEW i \in 1..Cardinality(S)
               PROVE  InOrder(S)[i] \in S /\ RankIn(S, InOrder(S)[i]) = i
    OBVIOUS
  <2>1. InOrder(S)[i] = CHOOSE r \in S : RankIn(S, r) = i
    BY DEF InOrder, RankIn
  <2> QED
    BY <1>11, <2>1
<1>13. InOrder(S) \in [1..Cardinality(S) -> S]
  <2> DEFINE g == [i \in 1..Cardinality(S) |-> CHOOSE r \in S : RankIn(S, r) = i]
  <2>1. InOrder(S) = g
    BY Zenon DEF InOrder, RankIn
  <2>2. g \in [1..Cardinality(S) -> S]
    BY <1>11
  <2> QED
    BY <2>1, <2>2, Zenon
<1>14. \A r \in S : InOrder(S)[RankIn(S, r)] = r
  BY <1>6, <1>7, <1>12
<1> QED
  BY <1>1, <1>6, <1>12, <1>13, <1>14

LEMMA InputFacts ==
  ASSUME InputOK
  PROVE  /\ n_rows \in Nat /\ DOMAIN goes = 1..n_rows /\ \A r \in 1..n_rows : goes[r] \in BOOLEAN
         /\ ByteRows \in Nat \ {0} /\ MinRows \in Nat \ {0} /\ threads \in Nat \ {0}
         /\ MaxRows \in Nat /\ MaxThreads \in Nat \ {0} /\ n_rows <= MaxRows
BY PartitionParams DEF InputOK

\* Sets of rows that go to one side.
LEMMA SidesAre ==
  ASSUME NEW a \in Nat, NEW b \in Nat, NEW side
  PROVE  /\ OnSide((a + 1)..b, side) \in SUBSET Nat
         /\ IsFiniteSet(OnSide((a + 1)..b, side))
         /\ Cardinality(OnSide((a + 1)..b, side)) \in Nat
<1>1. IsFiniteSet((a + 1)..b) /\ OnSide((a + 1)..b, side) \in SUBSET ((a + 1)..b)
  BY FS_Interval DEF OnSide
<1>2. IsFiniteSet(OnSide((a + 1)..b, side))
  BY <1>1, FS_Subset
<1>3. OnSide((a + 1)..b, side) \in SUBSET Nat
  BY <1>1
<1> QED
  BY <1>2, <1>3, FS_CardinalityType

LEMMA CountType == \A r \in Nat : \A side : Count(r, side) \in Nat
<1> SUFFICES ASSUME NEW r \in Nat, NEW side PROVE Count(r, side) \in Nat
  OBVIOUS
<1>1. Cardinality(OnSide((0 + 1)..r, side)) \in Nat
  BY SidesAre
<1>2. 0 + 1 = 1
  OBVIOUS
<1> QED
  BY <1>1, <1>2 DEF Count

LEMMA CountZero == \A side : Count(0, side) = 0
<1> SUFFICES ASSUME NEW side PROVE Count(0, side) = 0
  OBVIOUS
<1>1. OnSide(1..0, side) = {}
  BY DEF OnSide
<1> QED
  BY <1>1, FS_EmptySet DEF Count

\* The rows from a to b add to the count.
LEMMA CountSplit ==
  ASSUME NEW a \in Nat, NEW b \in Nat, a <= b, NEW side
  PROVE  /\ Count(b, side) = Count(a, side) + Cardinality(OnSide((a + 1)..b, side))
         /\ Count(a, side) <= Count(b, side)
<1> DEFINE A == OnSide(1..a, side)
           B == OnSide((a + 1)..b, side)
           C == OnSide(1..b, side)
<1>1. C = A \cup B /\ A \cap B = {}
  BY DEF OnSide
<1>2. IsFiniteSet(A) /\ IsFiniteSet(B) /\ Cardinality(A) \in Nat /\ Cardinality(B) \in Nat
  <2>1. 0 + 1 = 1
    OBVIOUS
  <2>2. IsFiniteSet(OnSide((0 + 1)..a, side)) /\ Cardinality(OnSide((0 + 1)..a, side)) \in Nat
    BY SidesAre
  <2> QED
    BY <2>1, <2>2, SidesAre
<1> HIDE DEF A, B, C
<1>3. Cardinality(C) = Cardinality(A) + Cardinality(B)
  <2>1. Cardinality(A \cup B) = Cardinality(A) + Cardinality(B) - Cardinality(A \cap B)
    BY <1>2, FS_Union
  <2>2. Cardinality(A \cap B) = 0
    BY <1>1, FS_EmptySet
  <2> QED
    BY <1>1, <1>2, <2>1, <2>2
<1> QED
  BY <1>2, <1>3 DEF A, B, C, Count

\* Every row goes to one of the sides.
LEMMA SidesPart ==
  ASSUME InputOK, NEW a \in Nat, NEW b \in Nat, a <= b, b <= n_rows
  PROVE  /\ Cardinality(OnSide((a + 1)..b, TRUE)) + Cardinality(OnSide((a + 1)..b, FALSE)) = b - a
         /\ Cardinality((a + 1)..b) = b - a
<1> DEFINE A == OnSide((a + 1)..b, TRUE)
           B == OnSide((a + 1)..b, FALSE)
<1>1. (a + 1)..b = A \cup B /\ A \cap B = {}
  <2>1. \A r \in (a + 1)..b : goes[r] \in BOOLEAN
    BY InputFacts
  <2> QED
    BY <2>1 DEF OnSide
<1>2. IsFiniteSet(A) /\ IsFiniteSet(B) /\ Cardinality(A) \in Nat /\ Cardinality(B) \in Nat
  BY SidesAre
<1>3. Cardinality((a + 1)..b) = b - a
  <2>1. Cardinality((a + 1)..b) = IF a + 1 > b THEN 0 ELSE b - (a + 1) + 1
    BY FS_Interval
  <2> QED
    BY <2>1
<1> HIDE DEF A, B
<1>4. Cardinality(A \cup B) = Cardinality(A) + Cardinality(B) - Cardinality(A \cap B)
  BY <1>2, FS_Union
<1>5. Cardinality(A \cap B) = 0
  BY <1>1, FS_EmptySet
<1>6. Cardinality(A) + Cardinality(B) = b - a
  <2>1. Cardinality(A \cup B) = b - a
    BY <1>1, <1>3, Zenon
  <2> QED
    BY <1>2, <1>4, <1>5, <2>1
<1> QED
  BY <1>3, <1>6 DEF A, B

\* A row raises the count of its side by one: rows of a side have different counts, in order.
LEMMA CountRow ==
  ASSUME NEW r \in Nat \ {0}, NEW side, goes[r] = side
  PROVE  Count(r, side) = Count(r - 1, side) + 1
<1>1. (r - 1) + 1 = r /\ r - 1 \in Nat /\ r - 1 <= r
  OBVIOUS
<1>2. Count(r, side) = Count(r - 1, side) + Cardinality(OnSide(r..r, side))
  <2> DEFINE q == r - 1
  <2>1. q \in Nat /\ q <= r /\ q + 1 = r
    BY <1>1
  <2> HIDE DEF q
  <2>2. Count(r, side) = Count(q, side) + Cardinality(OnSide((q + 1)..r, side))
    BY <2>1, CountSplit
  <2> QED
    BY <2>1, <2>2 DEF q
<1>3. OnSide(r..r, side) = {r}
  BY DEF OnSide
<1> QED
  BY <1>2, <1>3, FS_Singleton

LEMMA CountOrder ==
  ASSUME NEW r \in Nat \ {0}, NEW side, goes[r] = side, NEW a \in Nat
  PROVE  /\ r <= a => Count(r, side) <= Count(a, side)
         /\ a < r => Count(a, side) < Count(r, side)
         /\ Count(r, side) \in Nat \ {0}
<1>1. Count(r, side) = Count(r - 1, side) + 1 /\ r - 1 \in Nat
  BY CountRow
<1>2. Count(a, side) \in Nat /\ Count(r, side) \in Nat /\ Count(r - 1, side) \in Nat
  BY <1>1, CountType
<1>3. r <= a => Count(r, side) <= Count(a, side)
  BY CountSplit
<1>4. a < r => Count(a, side) <= Count(r - 1, side)
  <2>1. a < r => a <= r - 1
    OBVIOUS
  <2> QED
    BY <1>1, <2>1, CountSplit
<1> QED
  BY <1>1, <1>2, <1>3, <1>4

----------------------------------------------------------------------------
(***************************************************************************)
(* Bytes and segments                                                      *)
(***************************************************************************)

LEMMA CeilIs ==
  ASSUME NEW a \in Nat, NEW b \in Nat \ {0}
  PROVE  /\ CeilDiv(a, b) \in Nat
         /\ a <= b * CeilDiv(a, b)
         /\ a = 0 => CeilDiv(a, b) = 0
         /\ a # 0 => CeilDiv(a, b) # 0 /\ b * (CeilDiv(a, b) - 1) < a
<1> DEFINE c == CeilDiv(a, b)
           m == b * c
<1>1. a + b - 1 \in Nat /\ b > 0 /\ b \in Nat
  OBVIOUS
<1>2. c = (a + b - 1) \div b
  BY DEF CeilDiv
<1>3. c \in Nat /\ m <= a + b - 1 /\ a + b - 1 < m + b
  BY <1>1, <1>2, DivBounds
<1> HIDE DEF c
<1>4. m \in Nat /\ b * (c - 1) = m - b /\ (c = 0 => m = 0)
  <2>1. m \in Nat
    BY <1>1, <1>3, Product
  <2>2. b * (c - 1) = b * c - b
    BY <1>1, <1>3
  <2> QED
    BY <1>1, <2>1, <2>2
<1>5. c # 0 => b <= m
  <2>1. c # 0 => 1 <= c
    BY <1>3
  <2>2. c # 0 => b * 1 <= b * c
    BY <1>1, <1>3, <2>1, Product
  <2> QED
    BY <1>1, <2>2
<1> HIDE DEF m
<1>6. a <= m /\ (a = 0 => c = 0) /\ (a # 0 => c # 0 /\ m - b < a)
  BY <1>1, <1>3, <1>4, <1>5
<1> QED
  BY <1>3, <1>4, <1>6 DEF c, m

\* The bytes, and the rows before each.
LEMMA BytesAre ==
  ASSUME InputOK
  PROVE  /\ NBytes \in Nat /\ (NBytes = 0 <=> n_rows = 0)
         /\ Upto(0) = 0 /\ Upto(NBytes) = n_rows
         /\ \A b \in Nat : Upto(b) \in 0..n_rows
         /\ \A b \in Nat : b < NBytes => b * ByteRows = Upto(b)
         /\ \A a \in Nat, b \in Nat : a <= b => Upto(a) <= Upto(b)
         /\ \A a \in Nat, b \in Nat : a < NBytes => RowsOfBytes(a, b) = (Upto(a) + 1)..Upto(b)
<1>1. n_rows \in Nat /\ ByteRows \in Nat \ {0} /\ ByteRows \in Nat
  BY InputFacts
<1>2. /\ NBytes \in Nat /\ n_rows <= ByteRows * NBytes
      /\ n_rows = 0 => NBytes = 0
      /\ n_rows # 0 => NBytes # 0 /\ ByteRows * (NBytes - 1) < n_rows
  BY <1>1, CeilIs DEF NBytes
<1>3. \A b \in Nat : b * ByteRows \in Nat /\ b * ByteRows = ByteRows * b
  BY <1>1, Product
<1>4. \A a \in Nat, b \in Nat : a <= b => a * ByteRows <= b * ByteRows
  BY <1>1, Product
<1>5. \A b \in Nat : Upto(b) \in 0..n_rows
  <2> SUFFICES ASSUME NEW b \in Nat PROVE Upto(b) \in 0..n_rows
    OBVIOUS
  <2> DEFINE x == b * ByteRows
  <2>1. x \in Nat
    BY <1>3
  <2> HIDE DEF x
  <2>2. Least(x, n_rows) \in 0..n_rows
    BY <1>1, <2>1 DEF Least
  <2> QED
    BY <2>2 DEF x, Upto
<1>6. ASSUME NEW b \in Nat, b < NBytes PROVE b * ByteRows = Upto(b)
  <2> DEFINE x == b * ByteRows
             y == ByteRows * (NBytes - 1)
  <2>1. b <= NBytes - 1 /\ NBytes - 1 \in Nat /\ n_rows # 0
    BY <1>2, <1>6
  <2>2. x \in Nat /\ x <= y /\ y < n_rows
    <3>1. b * ByteRows <= (NBytes - 1) * ByteRows
      BY <1>4, <2>1
    <3>2. (NBytes - 1) * ByteRows = ByteRows * (NBytes - 1)
      BY <1>3, <2>1
    <3> QED
      BY <1>2, <1>3, <2>1, <3>1, <3>2
  <2>3. y \in Nat
    <3>1. \A k \in Nat : ByteRows * k \in Nat
      BY <1>1, Product
    <3> QED
      BY <2>1, <3>1
  <2> HIDE DEF x, y
  <2>4. Least(x, n_rows) = x
    BY <1>1, <2>2, <2>3 DEF Least
  <2> QED
    BY <2>4 DEF x, Upto
<1>7. ASSUME NEW a \in Nat, NEW b \in Nat, a <= b PROVE Upto(a) <= Upto(b)
  <2> DEFINE x == a * ByteRows
             y == b * ByteRows
  <2>1. x \in Nat /\ y \in Nat /\ x <= y
    BY <1>3, <1>4, <1>7
  <2> HIDE DEF x, y
  <2>2. Least(x, n_rows) <= Least(y, n_rows)
    BY <1>1, <2>1 DEF Least
  <2> QED
    BY <2>2 DEF x, y, Upto
<1>8. Upto(0) = 0
  <2>1. 0 * ByteRows = 0
    BY <1>1
  <2> QED
    BY <1>1, <2>1 DEF Upto, Least
<1>9. Upto(NBytes) = n_rows
  <2> DEFINE x == NBytes * ByteRows
  <2>1. x \in Nat /\ n_rows <= x
    BY <1>2, <1>3
  <2> HIDE DEF x
  <2>2. Least(x, n_rows) = n_rows
    BY <1>1, <2>1 DEF Least
  <2> QED
    BY <2>2 DEF x, Upto
<1>10. \A a \in Nat, b \in Nat : a < NBytes => RowsOfBytes(a, b) = (Upto(a) + 1)..Upto(b)
  BY <1>6, Zenon DEF RowsOfBytes, Upto
<1>11. NBytes = 0 <=> n_rows = 0
  BY <1>1, <1>2
<1> QED
  BY <1>2, <1>5, <1>6, <1>7, <1>8, <1>9, <1>10, <1>11

\* Where segment s starts; the one after the last starts where the bytes end.
StartByte(s) == IF s <= Len(Segments) THEN Segments[s].first ELSE NBytes

\* The segments follow each other from the first byte to the last.
LEMMA SegmentsAre ==
  ASSUME InputOK
  PROVE  /\ Len(Segments) \in Nat /\ DOMAIN Segments = 1..Len(Segments)
         /\ Len(Segments) <= threads
         /\ n_rows = 0 => Len(Segments) = 0
         /\ StartByte(1) = 0 /\ StartByte(Len(Segments) + 1) = NBytes
         /\ \A s \in DOMAIN Segments :
              /\ Segments[s].first \in Nat /\ Segments[s].end \in Nat
              /\ Segments[s].first < Segments[s].end /\ Segments[s].end <= NBytes
              /\ Segments[s].first = StartByte(s) /\ Segments[s].end = StartByte(s + 1)
              /\ Segments[s].first = (s - 1) * BytesPerSegment
              /\ Segments[s].end = Least(s * BytesPerSegment, NBytes)
         /\ BytesPerSegment \in Nat \ {0} \/ n_rows = 0
<1> DEFINE K == IF n_rows = 0 THEN 0 ELSE CeilDiv(NBytes, BytesPerSegment)
           B == BytesPerSegment
<1>1. /\ n_rows \in Nat /\ threads \in Nat \ {0} /\ MinRows \in Nat \ {0} /\ NBytes \in Nat
      /\ n_rows # 0 => NBytes # 0
  BY InputFacts, BytesAre
<1>2. n_rows # 0 => NSegments \in Nat \ {0} /\ NSegments <= threads
  <2>1. CeilDiv(n_rows, MinRows) \in Nat
    BY <1>1, CeilIs
  <2> QED
    BY <1>1, <2>1 DEF NSegments, Least
<1>3. n_rows # 0 => B \in Nat \ {0} /\ NBytes <= NSegments * B
  BY <1>1, <1>2, CeilIs DEF BytesPerSegment
<1>4. n_rows # 0 => K \in Nat \ {0} /\ NBytes <= B * K /\ B * (K - 1) < NBytes
  BY <1>1, <1>3, CeilIs
<1>5. K \in Nat /\ (n_rows = 0 => K = 0) /\ (n_rows # 0 => K # 0)
  BY <1>4
<1>6. K <= threads
  <2>1. CASE n_rows = 0
    BY <1>1, <1>5, <2>1
  <2>2. CASE n_rows # 0
    <3>1. SUFFICES ASSUME threads < K PROVE FALSE
      BY <1>1, <1>5
    <3> HIDE DEF K, B
    <3>2. NSegments <= K - 1 /\ K - 1 \in Nat
      BY <1>1, <1>2, <1>5, <2>2, <3>1
    <3>3. NSegments * B <= (K - 1) * B /\ (K - 1) * B = B * (K - 1)
      <4>1. NSegments \in Nat /\ B \in Nat
        BY <1>2, <1>3, <2>2
      <4>2. NSegments * B <= (K - 1) * B
        BY <3>2, <4>1, Product
      <4>3. (K - 1) * B = B * (K - 1)
        BY <3>2, <4>1
      <4> QED
        BY <4>2, <4>3
    <3> DEFINE x == NSegments * B
               y == B * (K - 1)
    <3>4. x \in Nat /\ y \in Int /\ x <= y /\ NBytes <= x /\ y < NBytes
      <4>1. NSegments \in Nat /\ B \in Nat /\ K - 1 \in Nat
        BY <1>2, <1>3, <2>2, <3>2
      <4>2. x \in Nat /\ y \in Nat
        BY <4>1, Product
      <4> QED
        BY <1>3, <1>4, <2>2, <3>3, <4>2
    <3> HIDE DEF x, y
    <3> QED
      BY <1>1, <3>4
  <2> QED
    BY <2>1, <2>2
<1>7. Segments = [s \in 1..K |-> [first |-> (s - 1) * B, end |-> Least(s * B, NBytes)]]
  BY DEF Segments
<1> HIDE DEF K
<1>8. DOMAIN Segments = 1..K /\ Len(Segments) = K
  <2>1. DOMAIN Segments = 1..K
    BY <1>7
  <2> DEFINE R == {Segments[s] : s \in 1..K}
  <2>2. Segments \in [1..K -> R]
    <3>1. Segments = [s \in 1..K |-> Segments[s]]
      BY <1>7
    <3>2. \A s \in 1..K : Segments[s] \in R
      OBVIOUS
    <3> QED
      BY <3>1, <3>2
  <2> HIDE DEF R
  <2>3. Segments \in Seq(R) /\ Len(Segments) = K
    BY <1>5, <2>2
  <2> QED
    BY <2>1, <2>3
<1>9. \A s \in 1..K : Segments[s].first = (s - 1) * B /\ Segments[s].end = Least(s * B, NBytes)
  BY <1>7
<1> HIDE DEF B
<1>10. ASSUME NEW s \in 1..K
       PROVE  /\ Segments[s].first \in Nat /\ Segments[s].end \in Nat
              /\ Segments[s].first < Segments[s].end /\ Segments[s].end <= NBytes
              /\ Segments[s].first = StartByte(s) /\ Segments[s].end = StartByte(s + 1)
  <2>1. n_rows # 0 /\ s \in Nat /\ s - 1 \in Nat /\ s <= K /\ K \in Nat /\ B \in Nat \ {0}
    BY <1>3, <1>5
  <2> DEFINE x == (s - 1) * B
             y == s * B
             z == B * (K - 1)
             w == B * K
  <2>2. x \in Nat /\ y \in Nat /\ z \in Nat /\ w \in Nat
    BY <2>1, Product
  <2>3. y = x + B
    BY <2>1
  <2>4. x <= z /\ NBytes <= w /\ z < NBytes /\ (s = K => y = w) /\ (s # K => y <= z)
    <3>1. s - 1 <= K - 1 /\ K - 1 \in Nat /\ (s # K => s <= K - 1) /\ B \in Nat
      BY <2>1
    <3>2. (s - 1) * B <= (K - 1) * B /\ (s # K => s * B <= (K - 1) * B)
      BY <2>1, <3>1, Product
    <3>3. (K - 1) * B = B * (K - 1) /\ K * B = B * K
      BY <2>1
    <3> QED
      BY <1>4, <2>1, <3>2, <3>3
  <2>5. Segments[s].first = x /\ Segments[s].end = Least(y, NBytes)
    BY <1>9
  <2>6. s # K => Segments[s + 1].first = y
    <3>1. s # K => s + 1 \in 1..K
      BY <2>1
    <3>2. (s + 1) - 1 = s
      BY <2>1
    <3> QED
      BY <1>9, <3>1, <3>2
  <2>7. StartByte(s) = x /\ (s # K => StartByte(s + 1) = y) /\ (s = K => StartByte(s + 1) = NBytes)
    <3>1. s <= K /\ (s # K => s + 1 <= K) /\ (s = K => ~(s + 1 <= K))
      BY <2>1
    <3> QED
      BY <1>8, <2>5, <2>6, <3>1 DEF StartByte
  <2> HIDE DEF x, y, z, w
  <2>8. Least(y, NBytes) = (IF s = K THEN NBytes ELSE y) /\ x < Least(y, NBytes) /\ Least(y, NBytes) <= NBytes
        /\ Least(y, NBytes) \in Nat
    BY <1>1, <2>1, <2>2, <2>3, <2>4 DEF Least
  <2> QED
    BY <2>2, <2>5, <2>7, <2>8
<1>11. StartByte(1) = 0
  <2>1. CASE K = 0
    <3>1. NBytes = 0
      BY <1>5, <2>1, BytesAre
    <3> QED
      BY <1>8, <2>1, <3>1 DEF StartByte
  <2>2. CASE K # 0
    <3>1. 1 \in 1..K /\ 1 <= K
      BY <1>5, <2>2
    <3>2. Segments[1].first = (1 - 1) * B
      BY <1>9, <3>1
    <3>3. B \in Nat
      BY <1>3, <1>5, <2>2
    <3>4. (1 - 1) * B = 0
      BY <3>3
    <3> QED
      BY <1>8, <3>1, <3>2, <3>4 DEF StartByte
  <2> QED
    BY <2>1, <2>2
<1>12. StartByte(K + 1) = NBytes
  <2>1. ~(K + 1 <= K)
    BY <1>5
  <2> QED
    BY <1>8, <2>1 DEF StartByte
<1>13. n_rows = 0 => K = 0
  BY <1>5
<1>14. B \in Nat \ {0} \/ n_rows = 0
  BY <1>3
<1> QED
  BY <1>5, <1>6, <1>8, <1>9, <1>10, <1>11, <1>12, <1>13, <1>14 DEF B

\* The rows of a segment are those between its first byte and its end.
LEMMA SegmentRows ==
  ASSUME InputOK, NEW s \in DOMAIN Segments
  PROVE  LET a == Upto(Segments[s].first)
             b == Upto(Segments[s].end)
         IN  /\ a \in Nat /\ b \in Nat /\ a <= b /\ b <= n_rows
             /\ RowsOfSegment(s) = (a + 1)..b
             /\ Count(b, TRUE) = Count(a, TRUE) + LeftCount(s)
             /\ Count(b, FALSE) = Count(a, FALSE) + (Cardinality(RowsOfSegment(s)) - LeftCount(s))
             /\ LeftCount(s) \in Nat /\ LeftCount(s) <= n_rows
             /\ Cardinality(RowsOfSegment(s)) \in Nat
<1> DEFINE a == Upto(Segments[s].first)
           b == Upto(Segments[s].end)
           l == Cardinality(OnSide((a + 1)..b, TRUE))
           r == Cardinality(OnSide((a + 1)..b, FALSE))
<1>1. /\ Segments[s].first \in Nat /\ Segments[s].end \in Nat
      /\ Segments[s].first < Segments[s].end /\ Segments[s].end <= NBytes /\ NBytes \in Nat
      /\ Segments[s].first < NBytes /\ Segments[s].first <= Segments[s].end
  <2>1. /\ Segments[s].first \in Nat /\ Segments[s].end \in Nat
        /\ Segments[s].first < Segments[s].end /\ Segments[s].end <= NBytes
    BY SegmentsAre
  <2>2. NBytes \in Nat
    BY BytesAre
  <2> QED
    BY <2>1, <2>2
<1>2. a \in 0..n_rows /\ b \in 0..n_rows /\ a <= b
  BY <1>1, BytesAre
<1>3. RowsOfSegment(s) = (a + 1)..b
  BY <1>1, BytesAre DEF RowsOfSegment
<1> HIDE DEF a, b
<1>4. n_rows \in Nat
  BY InputFacts
<1>5. a \in Nat /\ b \in Nat /\ b <= n_rows
  BY <1>2, <1>4
<1>6. LeftCount(s) = l
  BY <1>3 DEF LeftCount
<1>7. l \in Nat /\ r \in Nat /\ Count(b, TRUE) = Count(a, TRUE) + l /\ Count(b, FALSE) = Count(a, FALSE) + r
  BY <1>2, <1>5, SidesAre, CountSplit
<1>8. l + r = b - a /\ Cardinality((a + 1)..b) = b - a
  BY <1>2, <1>5, SidesPart
<1> HIDE DEF l, r
<1>9. /\ r = Cardinality(RowsOfSegment(s)) - LeftCount(s)
      /\ Cardinality(RowsOfSegment(s)) \in Nat /\ LeftCount(s) \in Nat /\ LeftCount(s) <= n_rows
  BY <1>2, <1>3, <1>4, <1>5, <1>6, <1>7, <1>8
<1> QED
  BY <1>2, <1>3, <1>5, <1>6, <1>7, <1>9 DEF a, b

\* Every byte belongs to one segment.
LEMMA SegmentOfByte ==
  ASSUME InputOK, NEW b \in Nat, b < NBytes
  PROVE  \E s \in DOMAIN Segments :
           {t \in DOMAIN Segments : Segments[t].first <= b /\ b < Segments[t].end} = {s}
<1> DEFINE B == BytesPerSegment
           K == Len(Segments)
<1>1. NBytes \in Nat /\ n_rows # 0
  BY BytesAre
<1>2. /\ K \in Nat /\ DOMAIN Segments = 1..K /\ B \in Nat \ {0}
      /\ StartByte(1) = 0 /\ StartByte(K + 1) = NBytes
      /\ \A t \in 1..K : /\ Segments[t].first = (t - 1) * B /\ Segments[t].end = Least(t * B, NBytes)
                         /\ Segments[t].end = StartByte(t + 1)
  BY <1>1, SegmentsAre
<1> HIDE DEF B, K
<1> DEFINE q == b \div B
           x == B * q
<1>3. B \in Nat /\ B > 0
  BY <1>2
<1>4. q \in Nat /\ x <= b /\ b < x + B
  BY <1>3, DivBounds
<1> HIDE DEF q
<1>5. x \in Nat /\ q * B = x /\ (q + 1) * B = x + B
  <2>1. x \in Nat
    BY <1>3, <1>4, Product
  <2> QED
    BY <1>3, <1>4, <2>1
<1>6. q < K
  <2>1. SUFFICES ASSUME K <= q PROVE FALSE
    BY <1>2, <1>4
  <2>2. K # 0
    <3>1. K = 0 => NBytes = 0
      BY <1>2
    <3> QED
      BY <1>1, <3>1
  <2> DEFINE y == K * B
  <2>3. y \in Nat /\ y <= x
    <3>1. K * B <= q * B
      BY <1>2, <1>3, <1>4, <2>1, Product
    <3>2. y \in Nat
      BY <1>2, <1>3, Product
    <3> QED
      BY <1>5, <3>1, <3>2
  <2>4. Least(y, NBytes) = NBytes
    <3>1. K \in 1..K
      BY <1>2, <2>2
    <3> QED
      BY <1>2, <3>1
  <2> HIDE DEF y, x
  <2>5. NBytes <= y
    BY <1>1, <2>3, <2>4 DEF Least
  <2> QED
    BY <1>1, <1>4, <1>5, <2>3, <2>5
<1> DEFINE s == q + 1
<1>7. s \in 1..K /\ s - 1 = q
  BY <1>2, <1>4, <1>6
<1>8. Segments[s].first = x /\ Segments[s].end = Least(x + B, NBytes)
  BY <1>2, <1>5, <1>7
<1> HIDE DEF x
<1>9. Segments[s].first <= b /\ b < Segments[s].end
  <2>1. b < Least(x + B, NBytes)
    BY <1>1, <1>3, <1>4, <1>5 DEF Least
  <2> QED
    BY <1>4, <1>8, <2>1
<1>10. ASSUME NEW t \in 1..K, Segments[t].first <= b, b < Segments[t].end PROVE t = s
  <2> DEFINE y == (t - 1) * B
             z == t * B
  <2>1. t \in Nat /\ t - 1 \in Nat
    BY <1>2
  <2>2. y \in Nat /\ z \in Nat
    BY <1>3, <2>1, Product
  <2>3. y <= b /\ b < Least(z, NBytes)
    BY <1>2, <1>10
  <2>4. CASE t < s
    <3>1. t <= q
      BY <1>4, <2>1, <2>4
    <3>2. z <= q * B
      BY <1>3, <1>4, <2>1, <3>1, Product
    <3> HIDE DEF y, z
    <3>3. b < z
      BY <1>1, <2>2, <2>3 DEF Least
    <3> QED
      BY <1>4, <1>5, <2>2, <3>2, <3>3
  <2>5. CASE s < t
    <3>1. q + 1 <= t - 1 /\ q + 1 \in Nat
      BY <1>4, <2>1, <2>5
    <3>2. (q + 1) * B <= y
      BY <1>3, <2>1, <3>1, Product
    <3> HIDE DEF y, z
    <3> QED
      BY <1>3, <1>4, <1>5, <2>2, <2>3, <3>2
  <2>6. s \in Nat
    BY <1>4
  <2> QED
    BY <2>1, <2>4, <2>5, <2>6
<1> HIDE DEF s
<1>11. {t \in DOMAIN Segments : Segments[t].first <= b /\ b < Segments[t].end} = {s}
  BY <1>2, <1>7, <1>9, <1>10
<1> QED
  BY <1>2, <1>7, <1>11

\* Every row belongs to a segment.
LEMMA SegmentOfRow ==
  ASSUME InputOK, NEW r \in 1..n_rows
  PROVE  \E s \in DOMAIN Segments : r \in RowsOfSegment(s)
<1> DEFINE b == (r - 1) \div ByteRows
           x == ByteRows * b
<1>1. n_rows \in Nat /\ ByteRows \in Nat /\ ByteRows > 0 /\ r - 1 \in Nat /\ NBytes \in Nat
      /\ Upto(NBytes) = n_rows
  BY InputFacts, BytesAre
<1>2. b \in Nat /\ x <= r - 1 /\ r - 1 < x + ByteRows
  BY <1>1, DivBounds
<1> HIDE DEF b
<1>3. x \in Nat /\ b * ByteRows = x /\ (b + 1) * ByteRows = x + ByteRows
  <2>1. x \in Nat
    BY <1>1, <1>2, Product
  <2> QED
    BY <1>1, <1>2, <2>1
<1> HIDE DEF x
<1>4. Upto(b) < r /\ r <= Upto(b + 1)
  <2>1. Upto(b) = Least(x, n_rows) /\ Upto(b + 1) = Least(x + ByteRows, n_rows)
    BY <1>3 DEF Upto
  <2> QED
    BY <1>1, <1>2, <1>3, <2>1 DEF Least
<1>5. b < NBytes
  <2>1. NBytes <= b => Upto(NBytes) <= Upto(b) /\ Upto(b) \in 0..n_rows
    BY <1>1, <1>2, BytesAre
  <2> QED
    BY <1>1, <1>2, <1>4, <2>1
<1>6. PICK s \in DOMAIN Segments : Segments[s].first <= b /\ b < Segments[s].end
  BY <1>2, <1>5, SegmentOfByte
<1>7. Segments[s].first \in Nat /\ Segments[s].end \in Nat
  BY SegmentsAre
<1>8. Upto(Segments[s].first) <= Upto(b) /\ Upto(b + 1) <= Upto(Segments[s].end)
  <2>1. b + 1 <= Segments[s].end /\ b + 1 \in Nat
    BY <1>2, <1>6, <1>7
  <2> QED
    BY <1>2, <1>6, <1>7, <2>1, BytesAre
<1>9. RowsOfSegment(s) = (Upto(Segments[s].first) + 1)..Upto(Segments[s].end)
      /\ Upto(Segments[s].first) \in Nat /\ Upto(Segments[s].end) \in Nat
  BY SegmentRows
<1>10. Upto(b) \in Nat /\ Upto(b + 1) \in Nat
  <2>1. b + 1 \in Nat
    BY <1>2
  <2>2. \A i \in Nat : Upto(i) \in 0..n_rows
    BY BytesAre, Zenon
  <2>3. Upto(b) \in 0..n_rows /\ Upto(b + 1) \in 0..n_rows
    BY <1>2, <2>1, <2>2, Zenon
  <2> QED
    BY <1>1, <2>3
<1>11. r \in RowsOfSegment(s)
  BY <1>1, <1>4, <1>8, <1>9, <1>10
<1> QED
  BY <1>11

\* Sums of what comes before.
LEMMA PrefixIs ==
  ASSUME NEW K \in Nat, NEW v, NEW g, \A s \in 1..K : v[s] \in Int,
         g[1] = 0, \A s \in 1..K : g[s + 1] = g[s] + v[s]
  PROVE  \A s \in 1..(K + 1) : Prefix(v, s) = g[s]
<1> DEFINE A == {k \in Nat : k <= K => Prefix(v, k + 1) = g[k + 1]}
<1>1. 0 \in A
  <2>1. 1..((0 + 1) - 1) = {}
    OBVIOUS
  <2>2. Total(v, {}) = 0
    BY FS_EmptySet, TotalStep
  <2>3. Prefix(v, 0 + 1) = Total(v, 1..((0 + 1) - 1))
    BY DEF Prefix, Total
  <2>4. Prefix(v, 0 + 1) = 0 /\ g[0 + 1] = 0
    BY <2>1, <2>2, <2>3
  <2> QED
    BY <2>4
<1>2. ASSUME NEW k \in A PROVE k + 1 \in A
  <2>1. k \in Nat /\ (k <= K => Prefix(v, k + 1) = g[k + 1])
    OBVIOUS
  <2> SUFFICES ASSUME k + 1 <= K PROVE Prefix(v, (k + 1) + 1) = g[(k + 1) + 1]
    BY <2>1
  <2>2. k + 1 \in 1..K /\ k <= K /\ (k + 1) - 1 = k /\ ((k + 1) + 1) - 1 = k + 1
    BY <2>1
  <2>3. Prefix(v, k + 1) = Total(v, 1..k) /\ Prefix(v, (k + 1) + 1) = Total(v, 1..(k + 1))
    BY <2>2, Zenon DEF Prefix, Total
  <2>4. Total(v, 1..(k + 1)) = v[k + 1] + Total(v, (1..(k + 1)) \ {k + 1})
    <3>1. IsFiniteSet(1..(k + 1)) /\ k + 1 \in 1..(k + 1)
      BY <2>1, FS_Interval
    <3>2. \A s \in 1..(k + 1) : v[s] \in Int
      BY <2>1
    <3> QED
      BY <3>1, <3>2, TotalRemove
  <2>5. (1..(k + 1)) \ {k + 1} = 1..k
    BY <2>1
  <2>6. g[(k + 1) + 1] = g[k + 1] + v[k + 1] /\ v[k + 1] \in Int
    BY <2>2
  <2>7. Total(v, 1..(k + 1)) = v[k + 1] + g[k + 1]
    BY <2>1, <2>2, <2>3, <2>4, <2>5, Zenon
  <2>8. Total(v, 1..k) \in Int
    <3>1. IsFiniteSet(1..k)
      BY <2>1, FS_Interval
    <3>2. \A s \in 1..k : v[s] \in Int
      BY <2>1, <2>2
    <3> QED
      BY <3>1, <3>2, TotalStep
  <2>9. g[k + 1] \in Int
    BY <2>1, <2>2, <2>3, <2>8
  <2> QED
    BY <2>3, <2>6, <2>7, <2>9
<1>3. A \in SUBSET Nat
  OBVIOUS
<1> HIDE DEF A
<1>4. A = Nat
  BY <1>1, <1>2, <1>3, NatSetInduction
<1> SUFFICES ASSUME NEW s \in 1..(K + 1) PROVE Prefix(v, s) = g[s]
  OBVIOUS
<1>5. s - 1 \in A /\ s - 1 <= K /\ (s - 1) + 1 = s
  BY <1>4
<1> QED
  BY <1>5 DEF A

\* A segment's slices start where the rows of the segments before it end.
LEMMA Offsets ==
  ASSUME InputOK, CountedOK, DOMAIN counts = DOMAIN Segments
  PROVE  \A s \in 1..(Len(Segments) + 1) :
           /\ LeftOffset(s) = Count(Upto(StartByte(s)), TRUE)
           /\ RightOffset(s) = Count(Upto(StartByte(s)), FALSE)
<1> DEFINE K == Len(Segments)
           gl == [s \in 1..(K + 1) |-> Count(Upto(StartByte(s)), TRUE)]
           gr == [s \in 1..(K + 1) |-> Count(Upto(StartByte(s)), FALSE)]
           vr == [i \in DOMAIN counts |-> RightCount(i)]
<1>1. K \in Nat /\ DOMAIN counts = 1..K /\ \A s \in 1..K : counts[s] = LeftCount(s)
  BY SegmentsAre DEF CountedOK
<1>2. /\ StartByte(1) = 0
      /\ \A s \in 1..K : Segments[s].first = StartByte(s) /\ Segments[s].end = StartByte(s + 1)
  BY SegmentsAre
<1>3. \A s \in 1..K : /\ counts[s] \in Int /\ vr[s] \in Int
                      /\ Count(Upto(StartByte(s + 1)), TRUE) = Count(Upto(StartByte(s)), TRUE) + counts[s]
                      /\ Count(Upto(StartByte(s + 1)), FALSE) = Count(Upto(StartByte(s)), FALSE) + vr[s]
  <2> SUFFICES ASSUME NEW s \in 1..K
               PROVE  /\ counts[s] \in Int /\ vr[s] \in Int
                      /\ Count(Upto(StartByte(s + 1)), TRUE) = Count(Upto(StartByte(s)), TRUE) + counts[s]
                      /\ Count(Upto(StartByte(s + 1)), FALSE) = Count(Upto(StartByte(s)), FALSE) + vr[s]
    OBVIOUS
  <2>1. s \in DOMAIN Segments
    BY SegmentsAre
  <2>2. vr[s] = Cardinality(RowsOfSegment(s)) - LeftCount(s)
    BY <1>1 DEF RightCount
  <2> HIDE DEF vr, K
  <2>3. /\ Count(Upto(Segments[s].end), TRUE) = Count(Upto(Segments[s].first), TRUE) + LeftCount(s)
        /\ Count(Upto(Segments[s].end), FALSE) = Count(Upto(Segments[s].first), FALSE)
                                                + (Cardinality(RowsOfSegment(s)) - LeftCount(s))
        /\ LeftCount(s) \in Nat /\ Cardinality(RowsOfSegment(s)) \in Nat
    BY <2>1, SegmentRows
  <2>4. Segments[s].first = StartByte(s) /\ Segments[s].end = StartByte(s + 1) /\ counts[s] = LeftCount(s)
    BY <1>1, <1>2
  <2>5. counts[s] \in Int /\ vr[s] \in Int
    BY <2>2, <2>3, <2>4
  <2> QED
    BY <2>2, <2>3, <2>4, <2>5, Zenon
<1> HIDE DEF K, vr
<1>4. gl[1] = 0 /\ gr[1] = 0
  <2>1. 1 \in 1..(K + 1)
    BY <1>1
  <2>2. Upto(StartByte(1)) = 0
    BY <1>2, BytesAre
  <2> QED
    BY <2>1, <2>2, CountZero
<1>5. \A s \in 1..K : gl[s + 1] = gl[s] + counts[s] /\ gr[s + 1] = gr[s] + vr[s]
  <2>1. \A s \in 1..K : s \in 1..(K + 1) /\ s + 1 \in 1..(K + 1)
    BY <1>1
  <2> QED
    BY <1>3, <2>1
<1>6. \A s \in 1..(K + 1) : Prefix(counts, s) = gl[s]
  <2>1. \A s \in 1..K : counts[s] \in Int
    BY <1>3
  <2>2. gl[1] = 0 /\ \A s \in 1..K : gl[s + 1] = gl[s] + counts[s]
    BY <1>4, <1>5
  <2>3. K \in Nat
    BY <1>1
  <2> HIDE DEF gl
  <2> QED
    BY <2>1, <2>2, <2>3, PrefixIs
<1>7. \A s \in 1..(K + 1) : Prefix(vr, s) = gr[s]
  <2>1. \A s \in 1..K : vr[s] \in Int
    BY <1>3
  <2>2. gr[1] = 0 /\ \A s \in 1..K : gr[s + 1] = gr[s] + vr[s]
    BY <1>4, <1>5
  <2>3. K \in Nat
    BY <1>1
  <2> HIDE DEF gr
  <2> QED
    BY <2>1, <2>2, <2>3, PrefixIs
<1> QED
  BY <1>6, <1>7, Zenon DEF K, vr, LeftOffset, RightOffset

\* Segments do not overlap.
LEMMA SegmentsApart ==
  ASSUME InputOK, NEW s \in DOMAIN Segments, NEW t \in DOMAIN Segments, s # t
  PROVE  Segments[t].end <= Segments[s].first \/ Segments[s].end <= Segments[t].first
<1>1. /\ Segments[s].first \in Nat /\ Segments[s].end \in Nat /\ Segments[s].first < Segments[s].end
      /\ Segments[t].first \in Nat /\ Segments[t].end \in Nat /\ Segments[t].first < Segments[t].end
      /\ Segments[s].end <= NBytes /\ Segments[t].end <= NBytes
  BY SegmentsAre
<1>2. NBytes \in Nat
  BY BytesAre
<1> DEFINE b == IF Segments[s].first <= Segments[t].first THEN Segments[t].first ELSE Segments[s].first
<1> SUFFICES ASSUME Segments[s].first < Segments[t].end, Segments[t].first < Segments[s].end
             PROVE  FALSE
  BY <1>1
<1>3. /\ b \in Nat /\ b < NBytes
      /\ Segments[s].first <= b /\ b < Segments[s].end
      /\ Segments[t].first <= b /\ b < Segments[t].end
  BY <1>1, <1>2
<1> HIDE DEF b
<1>4. PICK x \in DOMAIN Segments :
        {i \in DOMAIN Segments : Segments[i].first <= b /\ b < Segments[i].end} = {x}
  BY <1>3, SegmentOfByte
<1>5. s \in {i \in DOMAIN Segments : Segments[i].first <= b /\ b < Segments[i].end}
      /\ t \in {i \in DOMAIN Segments : Segments[i].first <= b /\ b < Segments[i].end}
  BY <1>3
<1>6. s \in {x} /\ t \in {x}
  BY <1>4, <1>5, Zenon
<1> QED
  BY <1>6

----------------------------------------------------------------------------
(***************************************************************************)
(* Copying the rows of a byte                                              *)
(***************************************************************************)

\* The rank of a row among those of its side after row a.
LEMMA RankIs ==
  ASSUME NEW a \in Nat, NEW c \in Nat, NEW side, NEW r \in OnSide((a + 1)..c, side)
  PROVE  Count(r, side) = Count(a, side) + RankIn(OnSide((a + 1)..c, side), r)
<1>1. r \in Nat /\ a <= r /\ r <= c
  BY DEF OnSide
<1>2. {q \in OnSide((a + 1)..c, side) : q <= r} = OnSide((a + 1)..r, side)
  BY <1>1 DEF OnSide
<1>3. Count(r, side) = Count(a, side) + Cardinality(OnSide((a + 1)..r, side))
  BY <1>1, CountSplit
<1> QED
  BY <1>2, <1>3 DEF RankIn

\* What the writer of a byte changes in one output.
Copied(new, output, b, side) ==
  /\ new \in [1..Count(n_rows, side) -> Nat]
  /\ Len(Side(b, side)) \in Nat
  /\ Count(Upto(b + 1), side) = Count(Upto(b), side) + Len(Side(b, side))
  /\ \A r \in OnSide(1..n_rows, side) :
       new[Count(r, side)] =
         IF Upto(b) < r /\ r <= Upto(b + 1) THEN r ELSE output[Count(r, side)]

LEMMA SideCopied ==
  ASSUME InputOK, NEW b \in Nat, b < NBytes, NEW side, NEW output \in [1..Count(n_rows, side) -> Nat]
  PROVE  Copied(Overlay(output, Count(Upto(b), side), Side(b, side)), output, b, side)
<1> DEFINE a == Upto(b)
           c == Upto(b + 1)
           S == OnSide((a + 1)..c, side)
           start == Count(a, side)
           new == Overlay(output, start, Side(b, side))
           N == Count(n_rows, side)
           w == Side(b, side)
<1>1. b + 1 \in Nat /\ b <= b + 1 /\ n_rows \in Nat
  BY InputFacts
<1>2. a \in 0..n_rows /\ c \in 0..n_rows /\ a <= c /\ RowsOfBytes(b, b + 1) = (a + 1)..c
  BY <1>1, BytesAre
<1> HIDE DEF a, c
<1>3. a \in Nat /\ c \in Nat /\ c <= n_rows /\ a <= n_rows
  BY <1>1, <1>2
<1>4. w = InOrder(S)
  BY <1>2, Zenon DEF Side
<1>5. S \in SUBSET Nat /\ IsFiniteSet(S) /\ Cardinality(S) \in Nat
  BY <1>3, SidesAre
<1>6. Count(c, side) = start + Cardinality(S)
  BY <1>2, <1>3, CountSplit
<1>7. \A r \in S : Count(r, side) = start + RankIn(S, r)
  BY <1>3, RankIs
<1>8. \A r \in S : r \in Nat /\ a < r /\ r <= c /\ goes[r] = side
  BY <1>3 DEF OnSide
<1>9. \A r \in OnSide(1..n_rows, side) :
        r \in Nat \ {0} /\ goes[r] = side /\ r <= n_rows /\ (r \in S <=> a < r /\ r <= c)
  BY <1>1, <1>3 DEF OnSide
<1>10. start \in Nat /\ N \in Nat /\ Count(c, side) \in Nat
  BY <1>1, <1>3, CountType
<1> HIDE DEF S
<1>11. /\ InOrder(S) \in [1..Cardinality(S) -> S]
       /\ \A r \in S : RankIn(S, r) \in 1..Cardinality(S) /\ InOrder(S)[RankIn(S, r)] = r
  BY <1>5, OrderIs
<1>12. Len(w) = Cardinality(S) /\ Len(w) \in Nat
  <2>1. w \in [1..Cardinality(S) -> S]
    BY <1>4, <1>11
  <2> HIDE DEF w
  <2>2. w \in Seq(S) /\ Len(w) = Cardinality(S)
    BY <1>5, <2>1
  <2> QED
    BY <1>5, <2>2
<1> HIDE DEF start, N, w
<1>13. new = [i \in 1..N |-> IF i \in (start + 1)..(start + Len(w)) THEN w[i - start] ELSE output[i]]
  <2>1. DOMAIN output = 1..N
    BY DEF N
  <2> QED
    BY <2>1 DEF Overlay, w
<1> HIDE DEF new
<1>14. new \in [1..N -> Nat]
  <2>1. ASSUME NEW i \in 1..N, i \in (start + 1)..(start + Len(w)) PROVE w[i - start] \in Nat
    <3>1. i - start \in 1..Cardinality(S)
      BY <1>10, <1>12, <2>1
    <3> QED
      BY <1>4, <1>5, <1>11, <3>1
  <2>2. \A i \in 1..N : output[i] \in Nat
    BY DEF N
  <2> QED
    BY <1>13, <2>1, <2>2
<1>15. ASSUME NEW r \in OnSide(1..n_rows, side)
       PROVE  new[Count(r, side)] = IF a < r /\ r <= c THEN r ELSE output[Count(r, side)]
  <2> DEFINE i == Count(r, side)
  <2>1. r \in Nat \ {0} /\ goes[r] = side /\ r <= n_rows
    BY <1>9
  <2>2. /\ r <= n_rows => i <= N
        /\ r <= a => i <= start
        /\ c < r => Count(c, side) < i
        /\ i \in Nat \ {0}
    BY <1>1, <1>3, <2>1, CountOrder DEF start, N
  <2> HIDE DEF i
  <2>3. i \in 1..N
    BY <1>10, <2>1, <2>2
  <2>4. CASE r \in S
    <3>1. i = start + RankIn(S, r) /\ RankIn(S, r) \in 1..Cardinality(S)
      BY <1>7, <1>11, <2>4 DEF i
    <3>2. i \in (start + 1)..(start + Len(w)) /\ i - start = RankIn(S, r)
      BY <1>10, <1>12, <3>1
    <3>3. new[i] = w[RankIn(S, r)]
      BY <1>13, <2>3, <3>2
    <3>4. w[RankIn(S, r)] = r
      BY <1>4, <1>11, <2>4
    <3> QED
      BY <1>9, <2>4, <3>3, <3>4 DEF i
  <2>5. CASE r \notin S
    <3>1. ~(a < r /\ r <= c)
      BY <1>9, <2>5
    <3>2. i <= start \/ start + Len(w) < i
      BY <1>3, <1>6, <1>12, <2>1, <2>2, <3>1
    <3>3. i \notin (start + 1)..(start + Len(w))
      BY <1>10, <1>12, <2>2, <3>2
    <3> QED
      BY <1>13, <2>3, <3>1, <3>3 DEF i
  <2> QED
    BY <2>4, <2>5
<1> QED
  BY <1>6, <1>12, <1>14, <1>15 DEF Copied, new, start, N, w, a, c

\* The serial partition puts a row where as many of its side have gone before.
LEMMA SerialIs ==
  ASSUME InputOK, NEW side
  PROVE  /\ Serial(side) \in [1..Count(n_rows, side) -> 1..n_rows]
         /\ \A r \in OnSide(1..n_rows, side) :
              Count(r, side) \in 1..Count(n_rows, side) /\ Serial(side)[Count(r, side)] = r
         /\ \A i \in 1..Count(n_rows, side) :
              Serial(side)[i] \in OnSide(1..n_rows, side) /\ Count(Serial(side)[i], side) = i
<1> DEFINE S == OnSide(1..n_rows, side)
<1>1. n_rows \in Nat /\ 0 + 1 = 1
  BY InputFacts
<1>2. S = OnSide((0 + 1)..n_rows, side)
  BY <1>1
<1>3. S \in SUBSET Nat /\ IsFiniteSet(S)
  BY <1>1, <1>2, SidesAre
<1>4. \A r \in S : Count(r, side) = Count(0, side) + RankIn(S, r)
  BY <1>1, <1>2, RankIs
<1>5. Cardinality(S) = Count(n_rows, side)
  BY DEF Count
<1>6. Serial(side) = InOrder(S)
  BY DEF Serial
<1>7. S \in SUBSET (1..n_rows)
  BY DEF OnSide
<1> HIDE DEF S
<1>8. /\ Cardinality(S) \in Nat
      /\ InOrder(S) \in [1..Cardinality(S) -> S]
      /\ \A r \in S : RankIn(S, r) \in 1..Cardinality(S) /\ InOrder(S)[RankIn(S, r)] = r
      /\ \A i \in 1..Cardinality(S) : RankIn(S, InOrder(S)[i]) = i
  BY <1>3, OrderIs
<1>9. \A r \in S : Count(r, side) = RankIn(S, r)
  <2>1. Count(0, side) = 0
    BY CountZero
  <2>2. \A r \in S : RankIn(S, r) \in Nat
    BY <1>8
  <2> QED
    BY <1>4, <2>1, <2>2
<1>10. \A i \in 1..Cardinality(S) : InOrder(S)[i] \in S
  BY <1>8
<1>11. InOrder(S) \in [1..Cardinality(S) -> 1..n_rows]
  BY <1>7, <1>8
<1>12. \A r \in S : Count(r, side) \in 1..Cardinality(S) /\ InOrder(S)[Count(r, side)] = r
  BY <1>8, <1>9
<1>13. \A i \in 1..Cardinality(S) : Count(InOrder(S)[i], side) = i
  BY <1>8, <1>9, <1>10
<1> QED
  BY <1>5, <1>6, <1>10, <1>11, <1>12, <1>13, Zenon DEF S

\* All of this is about the input, which no step changes.
LEMMA InputFrame ==
  ASSUME UNCHANGED << goes, threads >>
  PROVE  /\ n_rows' = n_rows /\ Segments' = Segments /\ InputOK' = InputOK
         /\ \A b : Upto(b)' = Upto(b)
         /\ \A r : \A side : Count(r, side)' = Count(r, side)
         /\ \A rows : \A side : OnSide(rows, side)' = OnSide(rows, side)
         /\ \A s : RowsOfSegment(s)' = RowsOfSegment(s) /\ LeftCount(s)' = LeftCount(s)
<1>1. n_rows' = n_rows
  BY DEF n_rows
<1>2. NBytes' = NBytes /\ \A b : Upto(b)' = Upto(b)
  BY <1>1, Zenon DEF NBytes, Upto
<1>3. NSegments' = NSegments
  BY <1>1, <1>2 DEF NSegments
<1>4. BytesPerSegment' = BytesPerSegment
  BY <1>2, <1>3 DEF BytesPerSegment
<1>5. Segments' = Segments
  BY <1>1, <1>2, <1>4 DEF Segments
<1>6. \A rows : \A side : OnSide(rows, side)' = OnSide(rows, side)
  BY DEF OnSide
<1>7. \A r : \A side : Count(r, side)' = Count(r, side)
  BY <1>6 DEF Count
<1>8. \A s : RowsOfSegment(s)' = RowsOfSegment(s)
  BY <1>1, <1>5 DEF RowsOfSegment, RowsOfBytes
<1>9. \A s : LeftCount(s)' = LeftCount(s)
  BY <1>6, <1>8 DEF LeftCount
<1>10. InputOK' = InputOK
  BY <1>1 DEF InputOK
<1> QED
  BY <1>1, <1>2, <1>5, <1>6, <1>7, <1>8, <1>9, <1>10

----------------------------------------------------------------------------
(***************************************************************************)
(* The invariant of the partition                                          *)
(***************************************************************************)

LEMMA PartitionInitially == PartitionInit => PartitionInv
<1> SUFFICES ASSUME PartitionInit PROVE PartitionInv
  OBVIOUS
<1>1. PICK m \in 0..MaxRows : goes \in [1..m -> BOOLEAN]
  BY DEF PartitionInit
<1>2. n_rows = m
  <2>1. m \in Nat
    BY PartitionParams
  <2>2. goes \in Seq(BOOLEAN) /\ Len(goes) = m
    BY <1>1, <2>1
  <2> QED
    BY <2>2 DEF n_rows
<1>3. InputOK
  BY <1>1, <1>2 DEF InputOK, PartitionInit
<1>4. CountedOK
  <2>1. DOMAIN counts = {}
    BY DEF PartitionInit
  <2> QED
    BY <2>1 DEF CountedOK
<1> QED
  BY <1>3, <1>4 DEF PartitionInv, PartitionInit

LEMMA CountKeeps ==
  ASSUME PartitionInv, NEW s \in DOMAIN Segments, CountSegment(s)
  PROVE  PartitionInv'
<1>1. /\ stage = "count" /\ stage' = stage /\ left' = left /\ right' = right
      /\ counts' = [i \in DOMAIN counts \cup {s} |-> IF i = s THEN LeftCount(s) ELSE counts[i]]
      /\ UNCHANGED << goes, threads >>
  BY DEF CountSegment
<1>2. InputOK /\ CountedOK /\ left = << >> /\ right = << >>
  BY <1>1 DEF PartitionInv
<1>3. Segments' = Segments /\ InputOK' /\ \A i : LeftCount(i)' = LeftCount(i)
  BY <1>1, <1>2, InputFrame
<1>4. CountedOK'
  <2>1. DOMAIN counts \subseteq DOMAIN Segments /\ \A i \in DOMAIN counts : counts[i] = LeftCount(i)
    BY <1>2 DEF CountedOK
  <2>2. DOMAIN counts' = DOMAIN counts \cup {s}
        /\ \A i \in DOMAIN counts' : counts'[i] = LeftCount(i)
    BY <1>1, <2>1
  <2>3. DOMAIN counts' \subseteq DOMAIN Segments' /\ \A i \in DOMAIN counts' : counts'[i] = LeftCount(i)'
    BY <1>3, <2>1, <2>2
  <2> QED
    BY <2>3 DEF CountedOK
<1> QED
  BY <1>1, <1>2, <1>3, <1>4 DEF PartitionInv

\* Where the outputs are cut, nothing is written yet.
LEMMA CutKeeps == PartitionInv /\ CutOutputs => PartitionInv'
<1> SUFFICES ASSUME PartitionInv, CutOutputs PROVE PartitionInv'
  OBVIOUS
<1> DEFINE K == Len(Segments)
<1>1. /\ stage = "count" /\ stage' = "write" /\ counts' = counts
      /\ DOMAIN counts = DOMAIN Segments
      /\ left' = [i \in 1..LeftOffset(K + 1) |-> 0]
      /\ right' = [i \in 1..RightOffset(K + 1) |-> 0]
      /\ at' = [s \in DOMAIN Segments |-> [byte |-> Segments[s].first, li |-> 0, ri |-> 0]]
      /\ UNCHANGED << goes, threads >>
  BY DEF CutOutputs
<1>2. InputOK /\ CountedOK
  BY DEF PartitionInv
<1>3. /\ Segments' = Segments /\ InputOK' /\ n_rows' = n_rows
      /\ \A b : Upto(b)' = Upto(b)
      /\ \A r : \A side : Count(r, side)' = Count(r, side)
      /\ \A rows : \A side : OnSide(rows, side)' = OnSide(rows, side)
      /\ \A s : RowsOfSegment(s)' = RowsOfSegment(s) /\ LeftCount(s)' = LeftCount(s)
  BY <1>1, <1>2, InputFrame
<1>4. K \in Nat /\ StartByte(K + 1) = NBytes /\ Upto(NBytes) = n_rows /\ n_rows \in Nat
  BY <1>2, SegmentsAre, BytesAre, InputFacts
<1> HIDE DEF K
<1>5. LeftOffset(K + 1) = Count(n_rows, TRUE) /\ RightOffset(K + 1) = Count(n_rows, FALSE)
  <2>1. K + 1 \in 1..(K + 1)
    BY <1>4
  <2> QED
    BY <1>1, <1>2, <1>4, <2>1, Offsets DEF K
<1>6. CountedOK'
  BY <1>1, <1>2, <1>3 DEF CountedOK
<1> DEFINE nl == Count(n_rows, TRUE)
           nr == Count(n_rows, FALSE)
<1>7. left' = [i \in 1..nl |-> 0] /\ right' = [i \in 1..nr |-> 0]
  BY <1>1, <1>5
<1>8. WritingOK'
  <2>1. DOMAIN counts' = DOMAIN Segments' /\ DOMAIN at' = DOMAIN Segments'
    BY <1>1, <1>3
  <2>2. left' \in [1..nl -> Nat] /\ right' \in [1..nr -> Nat]
    BY <1>7
  <2>3. nl = Count(n_rows, TRUE)' /\ nr = Count(n_rows, FALSE)'
    BY <1>3
  <2>4. at' \in [DOMAIN Segments' -> [byte : Nat, li : Nat, ri : Nat]]
    <3>1. \A s \in DOMAIN Segments : Segments[s].first \in Nat
      BY <1>2, SegmentsAre
    <3> QED
      BY <1>1, <1>3, <3>1
  <2>5. ASSUME NEW s \in DOMAIN Segments
        PROVE  WriterOK(s)' /\ Written(left, TRUE, s)' /\ Written(right, FALSE, s)'
    <3>1. at'[s] = [byte |-> Segments[s].first, li |-> 0, ri |-> 0]
      BY <1>1
    <3>2. /\ Segments[s].first \in Nat /\ Segments[s].end \in Nat
          /\ Segments[s].first <= Segments[s].end
      <4>1. /\ Segments[s].first \in Nat /\ Segments[s].end \in Nat
            /\ Segments[s].first < Segments[s].end
        BY <1>2, SegmentsAre
      <4> QED
        BY <4>1
    <3> DEFINE u == Upto(Segments[s].first)
    <3>3. /\ u \in Nat /\ Upto(Segments[s].end) \in Nat
          /\ RowsOfSegment(s) = (u + 1)..Upto(Segments[s].end) /\ Upto(Segments[s].end) <= n_rows
      BY <1>2, SegmentRows
    <3> HIDE DEF u
    <3>4. Count(u, TRUE) \in Nat /\ Count(u, FALSE) \in Nat
      BY <3>3, CountType
    <3>5. WriterOK(s)'
      <4>1. /\ at'[s] \in [byte : Nat, li : Nat, ri : Nat]
            /\ Segments[s].first <= at'[s].byte /\ at'[s].byte <= Segments[s].end
            /\ at'[s].byte = Segments[s].first /\ at'[s].li = 0 /\ at'[s].ri = 0
        BY <3>1, <3>2
      <4>2. /\ Count(Upto(at'[s].byte), TRUE) = Count(u, TRUE) + at'[s].li
            /\ Count(Upto(at'[s].byte), FALSE) = Count(u, FALSE) + at'[s].ri
        <5>1. Upto(at'[s].byte) = u
          BY <4>1, Zenon DEF u
        <5>2. Count(u, TRUE) = Count(u, TRUE) + 0 /\ Count(u, FALSE) = Count(u, FALSE) + 0
          <6> DEFINE x == Count(u, TRUE)
                     y == Count(u, FALSE)
          <6>1. x \in Nat /\ y \in Nat
            BY <3>4
          <6> HIDE DEF x, y
          <6>2. x = x + 0 /\ y = y + 0
            BY <6>1
          <6> QED
            BY <6>2 DEF x, y
        <5> QED
          BY <4>1, <5>1, <5>2, Zenon
      <4> QED
        BY <1>3, <4>1, <4>2 DEF WriterOK, u
    <3>6. ASSUME NEW side, NEW r \in OnSide(RowsOfSegment(s), side)
          PROVE  Count(r, side) \in 1..Count(n_rows, side) /\ ~(r <= u)
      <4>1. r \in Nat \ {0} /\ goes[r] = side /\ r <= n_rows /\ ~(r <= u)
        BY <1>4, <3>3 DEF OnSide
      <4>2. Count(r, side) <= Count(n_rows, side) /\ Count(r, side) \in Nat \ {0}
        BY <1>4, <4>1, CountOrder
      <4>3. Count(n_rows, side) \in Nat
        BY <1>4, CountType
      <4> QED
        BY <4>1, <4>2, <4>3
    <3>7. Upto(at[s].byte)' = u
      BY <1>3, <3>1 DEF u
    <3>8. \A r \in OnSide(RowsOfSegment(s), TRUE) :
            left'[Count(r, TRUE)] = IF r <= Upto(at[s].byte)' THEN r ELSE 0
      <4> HIDE DEF nl
      <4>1. \A i \in 1..nl : left'[i] = 0
        BY <1>7
      <4> QED
        BY <3>6, <3>7, <4>1 DEF nl
    <3>9. \A r \in OnSide(RowsOfSegment(s), FALSE) :
            right'[Count(r, FALSE)] = IF r <= Upto(at[s].byte)' THEN r ELSE 0
      <4> HIDE DEF nr
      <4>1. \A i \in 1..nr : right'[i] = 0
        BY <1>7
      <4> QED
        BY <3>6, <3>7, <4>1 DEF nr
    <3>10. Written(left, TRUE, s)' /\ Written(right, FALSE, s)'
      BY <1>3, <3>8, <3>9 DEF Written
    <3> QED
      BY <3>5, <3>10
  <2> HIDE DEF nl, nr
  <2> QED
    BY <1>3, <2>1, <2>2, <2>3, <2>4, <2>5, Zenon DEF WritingOK
<1> QED
  BY <1>1, <1>3, <1>6, <1>8 DEF PartitionInv

LEMMA JoinKeeps == PartitionInv /\ Join => PartitionInv'
<1> SUFFICES ASSUME PartitionInv, Join PROVE PartitionInv'
  OBVIOUS
<1>1. /\ stage = "write" /\ stage' = "done" /\ UNCHANGED << goes, threads, counts, at, left, right >>
      /\ \A s \in DOMAIN Segments : at[s].byte = Segments[s].end
  BY DEF Join
<1>2. InputOK /\ CountedOK /\ WritingOK
  BY <1>1 DEF PartitionInv
<1>3. /\ Segments' = Segments /\ InputOK' /\ n_rows' = n_rows
      /\ \A b : Upto(b)' = Upto(b)
      /\ \A r : \A side : Count(r, side)' = Count(r, side)
      /\ \A rows : \A side : OnSide(rows, side)' = OnSide(rows, side)
      /\ \A s : RowsOfSegment(s)' = RowsOfSegment(s) /\ LeftCount(s)' = LeftCount(s)
  BY <1>1, <1>2, InputFrame
<1>4. CountedOK'
  BY <1>1, <1>2, <1>3 DEF CountedOK
<1>5. \A s : WriterOK(s)' = WriterOK(s)
  BY <1>1, <1>3 DEF WriterOK
<1>6. \A s : Written(left, TRUE, s)' = Written(left, TRUE, s)
             /\ Written(right, FALSE, s)' = Written(right, FALSE, s)
  BY <1>1, <1>3 DEF Written
<1>7. WritingOK'
  BY <1>1, <1>2, <1>3, <1>5, <1>6 DEF WritingOK
<1>8. \A s \in DOMAIN Segments' : at'[s].byte = Segments'[s].end
  BY <1>1, <1>3
<1> QED
  BY <1>1, <1>3, <1>4, <1>7, <1>8 DEF PartitionInv

\* A byte is copied: the rows of its segment that are written are those before the next byte,
\* and no row of another segment is touched.
LEMMA WriteKeeps ==
  ASSUME PartitionInv, NEW s \in DOMAIN Segments, WriteByte(s)
  PROVE  PartitionInv'
<1> DEFINE b == at[s].byte
           l == Side(b, TRUE)
           r == Side(b, FALSE)
<1>1. /\ stage = "write" /\ b < Segments[s].end
      /\ left' = Overlay(left, LeftOffset(s) + at[s].li, l)
      /\ right' = Overlay(right, RightOffset(s) + at[s].ri, r)
      /\ at' = [at EXCEPT ![s] = [byte |-> b + 1, li |-> at[s].li + Len(l), ri |-> at[s].ri + Len(r)]]
      /\ UNCHANGED << goes, threads, stage, counts >>
  BY DEF WriteByte
<1>2. InputOK /\ CountedOK /\ WritingOK
  BY <1>1 DEF PartitionInv
<1>3. /\ Segments' = Segments /\ InputOK' /\ n_rows' = n_rows
      /\ \A i : Upto(i)' = Upto(i)
      /\ \A i : \A side : Count(i, side)' = Count(i, side)
      /\ \A rows : \A side : OnSide(rows, side)' = OnSide(rows, side)
      /\ \A t : RowsOfSegment(t)' = RowsOfSegment(t) /\ LeftCount(t)' = LeftCount(t)
  BY <1>1, <1>2, InputFrame
<1>4. /\ DOMAIN counts = DOMAIN Segments /\ DOMAIN at = DOMAIN Segments
      /\ at \in [DOMAIN Segments -> [byte : Nat, li : Nat, ri : Nat]]
      /\ left \in [1..Count(n_rows, TRUE) -> Nat] /\ right \in [1..Count(n_rows, FALSE) -> Nat]
      /\ \A t \in DOMAIN Segments :
           WriterOK(t) /\ Written(left, TRUE, t) /\ Written(right, FALSE, t)
  BY <1>2 DEF WritingOK
<1>5. /\ Segments[s].first \in Nat /\ Segments[s].end \in Nat /\ Segments[s].end <= NBytes
      /\ Segments[s].first = StartByte(s) /\ NBytes \in Nat /\ n_rows \in Nat
  BY <1>2, SegmentsAre, BytesAre, InputFacts
<1>6. /\ b \in Nat /\ at[s].li \in Nat /\ at[s].ri \in Nat
      /\ Segments[s].first <= b
      /\ Count(Upto(b), TRUE) = Count(Upto(Segments[s].first), TRUE) + at[s].li
      /\ Count(Upto(b), FALSE) = Count(Upto(Segments[s].first), FALSE) + at[s].ri
  <2>1. WriterOK(s)
    BY <1>4
  <2> QED
    BY <2>1, Zenon DEF WriterOK
<1>7. LeftOffset(s) + at[s].li = Count(Upto(b), TRUE) /\ RightOffset(s) + at[s].ri = Count(Upto(b), FALSE)
  <2>1. s \in 1..(Len(Segments) + 1)
    BY <1>2, SegmentsAre
  <2>2. /\ LeftOffset(s) = Count(Upto(StartByte(s)), TRUE)
        /\ RightOffset(s) = Count(Upto(StartByte(s)), FALSE)
    BY <1>2, <1>4, <2>1, Offsets
  <2> QED
    BY <1>5, <1>6, <2>2, Zenon
<1>8. b < NBytes /\ b + 1 \in Nat /\ b + 1 <= Segments[s].end
  BY <1>1, <1>5, <1>6
<1> HIDE DEF b, l, r
<1>9. Copied(left', left, b, TRUE)
  <2>1. left' = Overlay(left, Count(Upto(b), TRUE), Side(b, TRUE))
    BY <1>1, <1>7, Zenon DEF l
  <2> QED
    BY <1>2, <1>4, <1>6, <1>8, <2>1, SideCopied
<1>10. Copied(right', right, b, FALSE)
  <2>1. right' = Overlay(right, Count(Upto(b), FALSE), Side(b, FALSE))
    BY <1>1, <1>7, Zenon DEF r
  <2> QED
    BY <1>2, <1>4, <1>6, <1>8, <2>1, SideCopied
<1>11. /\ left' \in [1..Count(n_rows, TRUE) -> Nat] /\ right' \in [1..Count(n_rows, FALSE) -> Nat]
       /\ Len(l) \in Nat /\ Len(r) \in Nat
       /\ Count(Upto(b + 1), TRUE) = Count(Upto(b), TRUE) + Len(l)
       /\ Count(Upto(b + 1), FALSE) = Count(Upto(b), FALSE) + Len(r)
  BY <1>9, <1>10 DEF Copied, l, r
<1>12. /\ \A i \in OnSide(1..n_rows, TRUE) :
            left'[Count(i, TRUE)] = IF Upto(b) < i /\ i <= Upto(b + 1) THEN i ELSE left[Count(i, TRUE)]
       /\ \A i \in OnSide(1..n_rows, FALSE) :
            right'[Count(i, FALSE)] = IF Upto(b) < i /\ i <= Upto(b + 1) THEN i ELSE right[Count(i, FALSE)]
  BY <1>9, <1>10, Zenon DEF Copied
<1>13. /\ at'[s] = [byte |-> b + 1, li |-> at[s].li + Len(l), ri |-> at[s].ri + Len(r)]
       /\ \A t \in DOMAIN Segments : t # s => at'[t] = at[t]
       /\ DOMAIN at' = DOMAIN Segments
  BY <1>1, <1>4
<1>14. at' \in [DOMAIN Segments' -> [byte : Nat, li : Nat, ri : Nat]]
  <2>1. at'[s] \in [byte : Nat, li : Nat, ri : Nat]
    BY <1>6, <1>8, <1>11, <1>13
  <2>2. \A t \in DOMAIN Segments : at'[t] \in [byte : Nat, li : Nat, ri : Nat]
    BY <1>4, <1>13, <2>1
  <2>3. at' = [t \in DOMAIN Segments |-> at'[t]]
    BY <1>1, <1>4
  <2> QED
    BY <1>3, <2>2, <2>3
<1> DEFINE u == Upto(Segments[s].first)
           v == Upto(Segments[s].end)
           c == Upto(b)
           d == Upto(b + 1)
<1>15. /\ u \in Nat /\ v \in Nat /\ c \in Nat /\ d \in Nat
       /\ u <= c /\ c <= d /\ d <= v /\ v <= n_rows
       /\ RowsOfSegment(s) = (u + 1)..v
  <2>1. b <= b + 1
    BY <1>6
  <2>2. /\ u \in 0..n_rows /\ v \in 0..n_rows /\ c \in 0..n_rows /\ d \in 0..n_rows
        /\ u <= c /\ c <= d /\ d <= v
    BY <1>2, <1>5, <1>6, <1>8, <2>1, BytesAre
  <2>3. RowsOfSegment(s) = (u + 1)..v
    BY <1>2, SegmentRows
  <2> HIDE DEF u, v, c, d
  <2> QED
    BY <1>5, <2>2, <2>3
<1>16. \A t \in DOMAIN Segments : \A side : \A i \in OnSide(RowsOfSegment(t), side) :
         /\ i \in OnSide(1..n_rows, side) /\ i \in Nat
         /\ t # s => ~(c < i /\ i <= d)
  <2> SUFFICES ASSUME NEW t \in DOMAIN Segments, NEW side, NEW i \in OnSide(RowsOfSegment(t), side)
               PROVE  /\ i \in OnSide(1..n_rows, side) /\ i \in Nat
                      /\ t # s => ~(c < i /\ i <= d)
    OBVIOUS
  <2> DEFINE x == Upto(Segments[t].first)
             y == Upto(Segments[t].end)
  <2>1. x \in Nat /\ y \in Nat /\ y <= n_rows /\ RowsOfSegment(t) = (x + 1)..y
    BY <1>2, SegmentRows
  <2>2. goes[i] = side /\ i \in RowsOfSegment(t)
    BY DEF OnSide
  <2>3. t # s => Segments[t].end <= Segments[s].first \/ Segments[s].end <= Segments[t].first
    BY <1>2, SegmentsApart
  <2>4. Segments[t].first \in Nat /\ Segments[t].end \in Nat
    BY <1>2, SegmentsAre
  <2>5. t # s => y <= u \/ v <= x
    BY <1>2, <1>5, <2>3, <2>4, BytesAre
  <2> HIDE DEF x, y, u, v, c, d
  <2>6. i \in Nat /\ i \in 1..n_rows /\ x < i /\ i <= y
    BY <1>5, <2>1, <2>2
  <2>7. i \in OnSide(1..n_rows, side)
    BY <2>2, <2>6 DEF OnSide
  <2> QED
    BY <1>15, <2>1, <2>5, <2>6, <2>7
<1>17. ASSUME NEW t \in DOMAIN Segments
       PROVE  WriterOK(t)' /\ Written(left, TRUE, t)' /\ Written(right, FALSE, t)'
  <2>1. WriterOK(t) /\ Written(left, TRUE, t) /\ Written(right, FALSE, t)
    BY <1>4
  <2>2. CASE t # s
    <3>1. at'[t] = at[t]
      BY <1>13, <2>2
    <3>2. WriterOK(t)'
      BY <1>3, <2>1, <3>1 DEF WriterOK
    <3>3. Upto(at[t].byte)' = Upto(at[t].byte)
      BY <1>3, <3>1
    <3>4. \A i \in OnSide(RowsOfSegment(t), TRUE) : left'[Count(i, TRUE)] = left[Count(i, TRUE)]
      BY <1>12, <1>16, <2>2 DEF c, d
    <3>5. \A i \in OnSide(RowsOfSegment(t), FALSE) : right'[Count(i, FALSE)] = right[Count(i, FALSE)]
      BY <1>12, <1>16, <2>2 DEF c, d
    <3>6. Written(left, TRUE, t)'
      BY <1>3, <2>1, <3>3, <3>4 DEF Written
    <3>7. Written(right, FALSE, t)'
      BY <1>3, <2>1, <3>3, <3>5 DEF Written
    <3> QED
      BY <3>2, <3>6, <3>7
  <2>3. CASE t = s
    <3>1. at'[s].byte = b + 1 /\ at'[s].li = at[s].li + Len(l) /\ at'[s].ri = at[s].ri + Len(r)
      BY <1>13
    <3>2. at'[s] \in [byte : Nat, li : Nat, ri : Nat]
      BY <1>3, <1>14
    <3>3. Segments[s].first <= at'[s].byte /\ at'[s].byte <= Segments[s].end
      BY <1>5, <1>6, <1>8, <3>1
    <3>4. Upto(at'[s].byte) = d
      BY <3>1, Zenon DEF d
    <3>5. /\ Count(d, TRUE) = Count(u, TRUE) + at'[s].li
          /\ Count(d, FALSE) = Count(u, FALSE) + at'[s].ri
      <4>1. Count(u, TRUE) \in Nat /\ Count(u, FALSE) \in Nat
        BY <1>15, CountType
      <4>2. /\ Count(d, TRUE) = Count(c, TRUE) + Len(l) /\ Count(c, TRUE) = Count(u, TRUE) + at[s].li
            /\ Count(d, FALSE) = Count(c, FALSE) + Len(r) /\ Count(c, FALSE) = Count(u, FALSE) + at[s].ri
        BY <1>6, <1>11, Zenon DEF u, c, d
      <4> HIDE DEF u, c, d
      <4> DEFINE cu == Count(u, TRUE)
                 cf == Count(u, FALSE)
                 dt == Count(d, TRUE)
                 df == Count(d, FALSE)
                 n == Len(l)
                 m == Len(r)
      <4>3. /\ cu \in Nat /\ cf \in Nat /\ n \in Nat /\ m \in Nat
            /\ dt = (cu + at[s].li) + n /\ df = (cf + at[s].ri) + m
            /\ at'[s].li = at[s].li + n /\ at'[s].ri = at[s].ri + m
        BY <1>11, <3>1, <4>1, <4>2
      <4> HIDE DEF cu, cf, dt, df, n, m
      <4>4. dt = cu + at'[s].li /\ df = cf + at'[s].ri
        BY <1>6, <4>3
      <4> QED
        BY <4>4 DEF cu, cf, dt, df
    <3>6. WriterOK(s)'
      <4>1. /\ Count(Upto(at'[s].byte), TRUE) = Count(Upto(Segments[s].first), TRUE) + at'[s].li
            /\ Count(Upto(at'[s].byte), FALSE) = Count(Upto(Segments[s].first), FALSE) + at'[s].ri
        BY <3>4, <3>5, Zenon DEF u
      <4> QED
        BY <1>3, <3>2, <3>3, <4>1 DEF WriterOK
    <3>7. Upto(at[s].byte)' = d
      BY <1>3, <3>4
    <3>8. \A i \in OnSide(RowsOfSegment(s), TRUE) : left'[Count(i, TRUE)] = IF i <= d THEN i ELSE 0
      <4> SUFFICES ASSUME NEW i \in OnSide(RowsOfSegment(s), TRUE)
                   PROVE  left'[Count(i, TRUE)] = IF i <= d THEN i ELSE 0
        OBVIOUS
      <4>1. left[Count(i, TRUE)] = IF i <= c THEN i ELSE 0
        BY <2>1, <2>3 DEF Written, c, b
      <4>2. left'[Count(i, TRUE)] = IF c < i /\ i <= d THEN i ELSE left[Count(i, TRUE)]
        BY <1>12, <1>16, <2>3 DEF c, d
      <4>3. i \in Nat
        BY <1>16
      <4> HIDE DEF c, d
      <4> QED
        BY <1>15, <4>1, <4>2, <4>3
    <3>9. \A i \in OnSide(RowsOfSegment(s), FALSE) : right'[Count(i, FALSE)] = IF i <= d THEN i ELSE 0
      <4> SUFFICES ASSUME NEW i \in OnSide(RowsOfSegment(s), FALSE)
                   PROVE  right'[Count(i, FALSE)] = IF i <= d THEN i ELSE 0
        OBVIOUS
      <4>1. right[Count(i, FALSE)] = IF i <= c THEN i ELSE 0
        BY <2>1, <2>3 DEF Written, c, b
      <4>2. right'[Count(i, FALSE)] = IF c < i /\ i <= d THEN i ELSE right[Count(i, FALSE)]
        BY <1>12, <1>16, <2>3 DEF c, d
      <4>3. i \in Nat
        BY <1>16
      <4> HIDE DEF c, d
      <4> QED
        BY <1>15, <4>1, <4>2, <4>3
    <3> HIDE DEF d
    <3>10. Written(left, TRUE, s)' /\ Written(right, FALSE, s)'
      BY <1>3, <3>7, <3>8, <3>9 DEF Written
    <3> QED
      BY <2>3, <3>6, <3>10
  <2> QED
    BY <2>2, <2>3
<1>18. WritingOK'
  <2>1. DOMAIN counts' = DOMAIN Segments' /\ DOMAIN at' = DOMAIN Segments'
    BY <1>1, <1>3, <1>4, <1>13
  <2>2. left' \in [1..Count(n_rows, TRUE)' -> Nat] /\ right' \in [1..Count(n_rows, FALSE)' -> Nat]
    BY <1>3, <1>11
  <2> QED
    BY <1>3, <1>14, <1>17, <2>1, <2>2, Zenon DEF WritingOK
<1>19. CountedOK'
  BY <1>1, <1>2, <1>3 DEF CountedOK
<1> QED
  BY <1>1, <1>3, <1>18, <1>19 DEF PartitionInv

LEMMA PartitionStep == PartitionInv /\ [PartitionNext]_partition_vars => PartitionInv'
<1> SUFFICES ASSUME PartitionInv, [PartitionNext]_partition_vars PROVE PartitionInv'
  OBVIOUS
<1>1. ASSUME NEW s \in DOMAIN Segments, Worker(s) PROVE PartitionInv'
  BY <1>1, CountKeeps, WriteKeeps DEF Worker
<1>2. CASE CutOutputs
  BY <1>2, CutKeeps
<1>3. CASE Join
  BY <1>3, JoinKeeps
<1>4. CASE UNCHANGED partition_vars
  <2>1. UNCHANGED << goes, threads, stage, counts, at, left, right >>
    BY <1>4 DEF partition_vars
  <2>2. /\ Segments' = Segments /\ InputOK' = InputOK /\ n_rows' = n_rows
        /\ \A b : Upto(b)' = Upto(b)
        /\ \A r : \A side : Count(r, side)' = Count(r, side)
        /\ \A rows : \A side : OnSide(rows, side)' = OnSide(rows, side)
        /\ \A s : RowsOfSegment(s)' = RowsOfSegment(s) /\ LeftCount(s)' = LeftCount(s)
    BY <2>1, InputFrame
  <2>3. CountedOK' = CountedOK
    BY <2>1, <2>2 DEF CountedOK
  <2>4. \A s : WriterOK(s)' = WriterOK(s)
    BY <2>1, <2>2 DEF WriterOK
  <2>5. \A s : Written(left, TRUE, s)' = Written(left, TRUE, s)
               /\ Written(right, FALSE, s)' = Written(right, FALSE, s)
    BY <2>1, <2>2 DEF Written
  <2>6. WritingOK' = WritingOK
    BY <2>1, <2>2, <2>4, <2>5 DEF WritingOK
  <2> QED
    BY <2>1, <2>2, <2>3, <2>6 DEF PartitionInv
<1> QED
  BY <1>1, <1>2, <1>3, <1>4 DEF PartitionNext

\* At every moment the rows that are written are in their places, the counts are right and
\* each writer is where the rows it has copied leave it.
THEOREM PartitionInvariant == PartitionSpec => []PartitionInv
<1>1. PartitionInit => PartitionInv
  BY PartitionInitially
<1>2. PartitionInv /\ [PartitionNext]_partition_vars => PartitionInv'
  BY PartitionStep
<1> QED
  BY <1>1, <1>2, PTL DEF PartitionSpec

LEMMA LengthIs ==
  ASSUME NEW n \in Nat, NEW T, NEW f \in [1..n -> T]
  PROVE  Len(f) = n
OBVIOUS

\* Nothing else is in the variables of the partition than they are for.
THEOREM PartitionTypeCorrect == PartitionSpec => []PartitionTypeOK
<1>1. PartitionInv => PartitionTypeOK
  <2> SUFFICES ASSUME PartitionInv PROVE PartitionTypeOK
    OBVIOUS
  <2>1. InputOK /\ CountedOK /\ stage \in {"count", "write", "done"}
        /\ (stage = "count" => left = << >> /\ right = << >>)
        /\ (stage # "count" => WritingOK)
    BY Zenon DEF PartitionInv
  <2>2. n_rows \in 0..MaxRows /\ threads \in 1..MaxThreads /\ n_rows \in Nat
    BY <2>1, InputFacts DEF InputOK
  <2>3. DOMAIN counts \subseteq DOMAIN Segments
        /\ \A s \in DOMAIN counts : counts[s] \in 0..n_rows
    <3>1. \A s \in DOMAIN Segments : LeftCount(s) \in Nat /\ LeftCount(s) <= n_rows
      BY <2>1, SegmentRows
    <3> QED
      BY <2>1, <2>2, <3>1 DEF CountedOK
  <2>4. Len(left) + Len(right) = IF stage = "count" THEN 0 ELSE n_rows
    <3>1. CASE stage = "count"
      BY <2>1, <3>1
    <3>2. CASE stage # "count"
      <4>1. left \in [1..Count(n_rows, TRUE) -> Nat] /\ right \in [1..Count(n_rows, FALSE) -> Nat]
        BY <2>1, <3>2 DEF WritingOK
      <4>2. Count(n_rows, TRUE) \in Nat /\ Count(n_rows, FALSE) \in Nat
        BY <2>2, CountType
      <4>3. Len(left) = Count(n_rows, TRUE) /\ Len(right) = Count(n_rows, FALSE)
        BY <4>1, <4>2, LengthIs
      <4>4. Count(n_rows, TRUE) + Count(n_rows, FALSE) = n_rows
        <5>1. Cardinality(OnSide((0 + 1)..n_rows, TRUE)) + Cardinality(OnSide((0 + 1)..n_rows, FALSE))
                = n_rows - 0
          <6>1. 0 \in Nat /\ 0 <= n_rows /\ n_rows <= n_rows
            BY <2>2
          <6> QED
            BY <2>1, <2>2, <6>1, SidesPart
        <5>2. 0 + 1 = 1 /\ n_rows - 0 = n_rows
          BY <2>2
        <5> QED
          BY <5>1, <5>2, Zenon DEF Count
      <4> QED
        BY <3>2, <4>3, <4>4
    <3> QED
      BY <3>1, <3>2
  <2> QED
    BY <2>1, <2>2, <2>3, <2>4 DEF PartitionTypeOK
<1> QED
  BY <1>1, PartitionInvariant, PTL

\* An output holds nothing but what the serial partition puts there, and in the end all of it.
LEMMA OutputIsSerial ==
  ASSUME InputOK, NEW side, NEW output \in [1..Count(n_rows, side) -> Nat],
         \A s \in DOMAIN Segments : Written(output, side, s)
  PROVE  /\ \A i \in DOMAIN output : output[i] # 0 => output[i] = Serial(side)[i]
         /\ (\A s \in DOMAIN Segments : at[s].byte = Segments[s].end) => output = Serial(side)
<1> DEFINE N == Count(n_rows, side)
<1>1. DOMAIN output = 1..N
  OBVIOUS
<1>2. \A i \in 1..N : Serial(side)[i] \in OnSide(1..n_rows, side) /\ Count(Serial(side)[i], side) = i
  BY SerialIs
<1>3. ASSUME NEW i \in 1..N
      PROVE  /\ output[i] # 0 => output[i] = Serial(side)[i]
             /\ (\A s \in DOMAIN Segments : at[s].byte = Segments[s].end) => output[i] = Serial(side)[i]
  <2> DEFINE r == Serial(side)[i]
  <2>1. r \in 1..n_rows /\ goes[r] = side /\ Count(r, side) = i
    BY <1>2 DEF OnSide
  <2> HIDE DEF r
  <2>2. PICK s \in DOMAIN Segments : r \in RowsOfSegment(s)
    BY <2>1, SegmentOfRow
  <2>3. r \in OnSide(RowsOfSegment(s), side)
    BY <2>1, <2>2 DEF OnSide
  <2>4. output[i] = IF r <= Upto(at[s].byte) THEN r ELSE 0
    BY <2>1, <2>3 DEF Written
  <2>5. r <= Upto(Segments[s].end)
    <3>1. /\ RowsOfSegment(s) = (Upto(Segments[s].first) + 1)..Upto(Segments[s].end)
          /\ Upto(Segments[s].first) \in Nat /\ Upto(Segments[s].end) \in Nat
      BY SegmentRows
    <3> QED
      BY <2>2, <3>1
  <2> QED
    BY <2>4, <2>5 DEF r
<1>4. Serial(side) \in [1..N -> 1..n_rows]
  BY SerialIs
<1> HIDE DEF N
<1>5. (\A s \in DOMAIN Segments : at[s].byte = Segments[s].end) => output = Serial(side)
  <2> SUFFICES ASSUME \A s \in DOMAIN Segments : at[s].byte = Segments[s].end
               PROVE  output = Serial(side)
    OBVIOUS
  <2>1. \A i \in 1..N : output[i] = Serial(side)[i]
    BY <1>3
  <2>2. output = [i \in 1..N |-> output[i]]
    BY DEF N
  <2>3. Serial(side) = [i \in 1..N |-> Serial(side)[i]]
    BY <1>4
  <2> QED
    BY <2>1, <2>2, <2>3
<1> QED
  BY <1>1, <1>3, <1>5

LEMMA SerialFollows == PartitionInv => OutputsAreSerial
<1> SUFFICES ASSUME PartitionInv PROVE OutputsAreSerial
  OBVIOUS
<1>1. CASE stage = "count"
  <2>1. left = << >> /\ right = << >>
    BY <1>1 DEF PartitionInv
  <2>2. DOMAIN left = {} /\ DOMAIN right = {}
    BY <2>1
  <2> QED
    BY <1>1, <2>2 DEF OutputsAreSerial
<1>2. CASE stage # "count"
  <2>1. InputOK /\ WritingOK /\ (stage = "done" => \A s \in DOMAIN Segments : at[s].byte = Segments[s].end)
    BY <1>2, Zenon DEF PartitionInv
  <2>2. /\ left \in [1..Count(n_rows, TRUE) -> Nat] /\ right \in [1..Count(n_rows, FALSE) -> Nat]
        /\ \A s \in DOMAIN Segments : Written(left, TRUE, s) /\ Written(right, FALSE, s)
    BY <2>1, Zenon DEF WritingOK
  <2>3. /\ \A i \in DOMAIN left : left[i] # 0 => left[i] = Serial(TRUE)[i]
        /\ stage = "done" => left = Serial(TRUE)
    BY <2>1, <2>2, OutputIsSerial
  <2>4. /\ \A i \in DOMAIN right : right[i] # 0 => right[i] = Serial(FALSE)[i]
        /\ stage = "done" => right = Serial(FALSE)
    BY <2>1, <2>2, OutputIsSerial
  <2> QED
    BY <2>3, <2>4 DEF OutputsAreSerial
<1> QED
  BY <1>1, <1>2

LEMMA SlicesFollow == PartitionInv => WritersStayInSlices
<1> SUFFICES ASSUME PartitionInv, stage = "write", NEW s \in DOMAIN Segments
             PROVE  at[s].li <= counts[s] /\ at[s].ri <= RightCount(s)
  BY DEF WritersStayInSlices
<1>1. InputOK /\ CountedOK /\ WritingOK
  BY DEF PartitionInv
<1>2. WriterOK(s) /\ s \in DOMAIN counts /\ counts[s] = LeftCount(s)
  BY <1>1 DEF WritingOK, CountedOK
<1> DEFINE a == Upto(Segments[s].first)
           b == Upto(Segments[s].end)
           c == Upto(at[s].byte)
<1>3. /\ at[s].li \in Nat /\ at[s].ri \in Nat /\ at[s].byte \in Nat
      /\ at[s].byte <= Segments[s].end
      /\ Count(c, TRUE) = Count(a, TRUE) + at[s].li
      /\ Count(c, FALSE) = Count(a, FALSE) + at[s].ri
  BY <1>2 DEF WriterOK
<1>4. /\ a \in Nat /\ b \in Nat
      /\ Count(b, TRUE) = Count(a, TRUE) + LeftCount(s)
      /\ Count(b, FALSE) = Count(a, FALSE) + (Cardinality(RowsOfSegment(s)) - LeftCount(s))
      /\ LeftCount(s) \in Nat /\ Cardinality(RowsOfSegment(s)) \in Nat
  BY <1>1, SegmentRows
<1>5. c \in Nat /\ c <= b
  <2>1. Segments[s].end \in Nat
    BY <1>1, SegmentsAre
  <2>2. c \in 0..n_rows /\ c <= b
    BY <1>1, <1>3, <2>1, BytesAre
  <2>3. n_rows \in Nat
    BY <1>1, InputFacts
  <2> QED
    BY <2>2, <2>3
<1> HIDE DEF a, b, c
<1>6. /\ Count(c, TRUE) <= Count(b, TRUE) /\ Count(c, FALSE) <= Count(b, FALSE)
      /\ Count(a, TRUE) \in Nat /\ Count(a, FALSE) \in Nat
  BY <1>4, <1>5, CountSplit, CountType
<1>7. RightCount(s) = Cardinality(RowsOfSegment(s)) - LeftCount(s)
  BY <1>2 DEF RightCount
<1> DEFINE x == Count(a, TRUE)
           y == Count(a, FALSE)
           m == LeftCount(s)
           n == Cardinality(RowsOfSegment(s))
<1>8. /\ x \in Nat /\ y \in Nat /\ m \in Nat /\ n \in Nat
      /\ x + at[s].li <= x + m /\ y + at[s].ri <= y + (n - m)
  BY <1>3, <1>4, <1>6
<1> HIDE DEF x, y, m, n
<1>9. at[s].li <= m /\ at[s].ri <= n - m
  BY <1>3, <1>8
<1> QED
  BY <1>2, <1>7, <1>9 DEF m, n

LEMMA CoverHolds == PartitionInv => SegmentsCover
<1> SUFFICES ASSUME PartitionInv PROVE SegmentsCover
  OBVIOUS
<1>1. InputOK
  BY DEF PartitionInv
<1>2. Len(Segments) <= threads
  BY <1>1, SegmentsAre
<1>3. ASSUME NEW b \in 0..(NBytes - 1)
      PROVE  Cardinality({s \in DOMAIN Segments : Segments[s].first <= b /\ b < Segments[s].end}) = 1
  <2>1. NBytes \in Nat
    BY <1>1, BytesAre
  <2>2. b \in Nat /\ b < NBytes
    BY <2>1
  <2>3. PICK x \in DOMAIN Segments :
          {t \in DOMAIN Segments : Segments[t].first <= b /\ b < Segments[t].end} = {x}
    BY <1>1, <2>2, SegmentOfByte
  <2>4. Cardinality({x}) = 1
    BY FS_Singleton
  <2> QED
    BY <2>3, <2>4, Zenon
<1> QED
  BY <1>2, <1>3, Zenon DEF SegmentsCover

\* split_rows_by_prefix: whatever the order of the threads, what has been written is what a
\* serial stable partition leaves, and when they have joined all of it is there.
THEOREM PartitionsLikeSerial == PartitionSpec => []SameAsSerial
<1>1. PartitionInv => SameAsSerial
  BY SerialFollows, SlicesFollow, CoverHolds DEF SameAsSerial
<1> QED
  BY <1>1, PartitionInvariant, PTL

----------------------------------------------------------------------------
(***************************************************************************)
(* Sums modulo the range of a word                                         *)
(***************************************************************************)

\* Equal modulo the range of a whole sum.
Same(x, y) == \E q \in Int : x = y + q * Whole

LEMMA Remainder ==
  ASSUME NEW n \in Nat \ {0}, NEW x \in Int
  PROVE  /\ x % n \in 0..(n - 1)
         /\ x \div n \in Int /\ x = n * (x \div n) + (x % n)
         /\ x \in Nat => x \div n \in Nat
<1>1. n \in Int /\ n > 0
  OBVIOUS
<1>2. x % n \in 0..(n - 1) /\ x \div n \in Int
  BY <1>1
<1>3. x = n * (x \div n) + (x % n)
  BY <1>1
<1>4. x \in Nat => x \div n \in Nat
  BY <1>1, DivBounds
<1> QED
  BY <1>2, <1>3, <1>4

\* Two remainders with the same multiple apart are the same.
LEMMA SameRemainder ==
  ASSUME NEW n \in Nat \ {0}, NEW x \in Int, NEW y \in Int, NEW q \in Int, x = y + q * n
  PROVE  x % n = y % n
<1>1. /\ x % n \in 0..(n - 1) /\ x \div n \in Int /\ x = n * (x \div n) + (x % n)
      /\ y % n \in 0..(n - 1) /\ y \div n \in Int /\ y = n * (y \div n) + (y % n)
  BY Remainder
<1> DEFINE a == x % n
           b == y % n
           d == (x \div n) - (y \div n) - q
<1>2. a \in Int /\ b \in Int /\ 0 <= a /\ a < n /\ 0 <= b /\ b < n /\ d \in Int
  BY <1>1
<1>3. b = a + d * n
  <2>1. \A u \in Int, v \in Int : n * u + a = (n * v + b) + q * n => b = a + (u - v - q) * n
    BY <1>2
  <2> QED
    BY <1>1, <2>1
<1> HIDE DEF a, b, d
<1>4. CASE d = 0
  BY <1>2, <1>3, <1>4 DEF a, b
<1>5. CASE d > 0
  <2>1. 1 * n <= d * n
    BY <1>2, <1>5, Product
  <2>2. d * n \in Int
    BY <1>2
  <2> QED
    BY <1>2, <1>3, <2>1, <2>2
<1>6. CASE d < 0
  <2>1. 1 * n <= (-d) * n
    <3>1. -d \in Nat /\ 1 <= -d
      BY <1>2, <1>6
    <3> QED
      BY <3>1, Product
  <2>2. d * n = -((-d) * n) /\ (-d) * n \in Int
    BY <1>2
  <2> QED
    BY <1>2, <1>3, <2>1, <2>2
<1> QED
  BY <1>2, <1>4, <1>5, <1>6

LEMMA RadixIs == Radix \in Nat \ {0} /\ Whole \in Nat \ {0}
<1>1. Radix \in Nat \ {0}
  BY KernelParams
<1>2. 1 * 1 <= 1 * Radix /\ 1 * Radix <= Radix * Radix /\ Radix * Radix \in Nat
  BY <1>1, Product
<1> QED
  BY <1>1, <1>2 DEF Whole

LEMMA SameFacts ==
  /\ \A x \in Int : Same(x, x)
  /\ \A x \in Int, y \in Int, z \in Int : Same(x, y) => Same(x + z, y + z)
  /\ \A x \in Int, y \in Int, z \in Int : Same(x, y) /\ Same(y, z) => Same(x, z)
  /\ \A x \in Int, y \in Int : Same(x, y) => Same(y, x)
  /\ \A x \in Int : Same(x % Whole, x) /\ x % Whole \in 0..(Whole - 1)
  /\ \A x \in Int, y \in Int : Same(x, y) => x % Whole = y % Whole
<1>1. Whole \in Int
  BY RadixIs
<1>2. ASSUME NEW x \in Int PROVE Same(x, x)
  <2>1. x = x + 0 * Whole
    BY <1>1
  <2> QED
    BY <2>1 DEF Same
<1>3. ASSUME NEW x \in Int, NEW y \in Int, NEW z \in Int, Same(x, y) PROVE Same(x + z, y + z)
  <2>1. PICK q \in Int : x = y + q * Whole
    BY <1>3 DEF Same
  <2>2. q * Whole \in Int
    BY <1>1
  <2>3. x + z = (y + z) + q * Whole
    BY <2>1, <2>2
  <2> QED
    BY <2>3 DEF Same
<1>4. ASSUME NEW x \in Int, NEW y \in Int, NEW z \in Int, Same(x, y), Same(y, z) PROVE Same(x, z)
  <2>1. PICK q \in Int : x = y + q * Whole
    BY <1>4 DEF Same
  <2>2. PICK r \in Int : y = z + r * Whole
    BY <1>4 DEF Same
  <2>3. (q + r) * Whole = q * Whole + r * Whole /\ q * Whole \in Int /\ r * Whole \in Int /\ q + r \in Int
    BY <1>1
  <2>4. x = z + (q + r) * Whole
    BY <2>1, <2>2, <2>3
  <2> QED
    BY <2>3, <2>4 DEF Same
<1>5. ASSUME NEW x \in Int, NEW y \in Int, Same(x, y) PROVE Same(y, x)
  <2>1. PICK q \in Int : x = y + q * Whole
    BY <1>5 DEF Same
  <2>2. (-q) * Whole = -(q * Whole) /\ q * Whole \in Int /\ -q \in Int
    BY <1>1
  <2>3. y = x + (-q) * Whole
    BY <2>1, <2>2
  <2> QED
    BY <2>2, <2>3 DEF Same
<1>6. ASSUME NEW x \in Int PROVE Same(x % Whole, x) /\ x % Whole \in 0..(Whole - 1)
  <2>1. x % Whole \in 0..(Whole - 1) /\ x \div Whole \in Int /\ x = Whole * (x \div Whole) + (x % Whole)
    BY RadixIs, Remainder
  <2> DEFINE r == x % Whole
             d == x \div Whole
  <2>2. r \in Int /\ d \in Int /\ x = Whole * d + r
    BY <2>1, RadixIs
  <2> HIDE DEF r, d
  <2>3. r = x + (-d) * Whole /\ -d \in Int
    BY <1>1, <2>2
  <2> QED
    BY <2>1, <2>3 DEF Same, r
<1>7. ASSUME NEW x \in Int, NEW y \in Int, Same(x, y) PROVE x % Whole = y % Whole
  <2>1. PICK q \in Int : x = y + q * Whole
    BY <1>7 DEF Same
  <2> QED
    BY <2>1, RadixIs, SameRemainder
<1> QED
  BY <1>2, <1>3, <1>4, <1>5, <1>6, <1>7

\* A multiple of Radix more in the upper half is a multiple of Whole.
LEMMA UpperHalf ==
  ASSUME NEW x \in Int
  PROVE  x % Radix \in 0..(Radix - 1) /\ Same(Radix * (x % Radix), Radix * x)
<1>1. x % Radix \in 0..(Radix - 1) /\ x \div Radix \in Int /\ x = Radix * (x \div Radix) + (x % Radix)
  BY RadixIs, Remainder
<1> DEFINE r == x % Radix
           d == x \div Radix
<1>2. r \in Int /\ d \in Int /\ x = Radix * d + r /\ Radix \in Int
  BY <1>1, RadixIs
<1> HIDE DEF r, d
<1>3. Radix * r = Radix * x + (-d) * (Radix * Radix)
  <2>1. \A k \in Int : Radix * (k + r) = Radix * k + Radix * r
    BY <1>2
  <2>2. Radix * d \in Int /\ Radix * (Radix * d + r) = Radix * (Radix * d) + Radix * r
    BY <1>2, <2>1
  <2>3. Radix * (Radix * d) = d * (Radix * Radix) /\ (-d) * (Radix * Radix) = -(d * (Radix * Radix))
    BY <1>2
  <2>4. d * (Radix * Radix) \in Int /\ Radix * r \in Int
    BY <1>2
  <2> QED
    BY <1>2, <2>2, <2>3, <2>4
<1>4. -d \in Int
  BY <1>2
<1> QED
  BY <1>1, <1>3, <1>4 DEF Same, Whole, r

\* What the addition to the lower half returns tells whether it overflowed.
LEMMA LowerHalf ==
  ASSUME NEW l \in 0..(Radix - 1), NEW g \in 0..(Whole - 1), NEW c,
         c = (g \div Radix) + IF l > Radix - 1 - (g % Radix) THEN 1 ELSE 0
  PROVE  /\ (l + (g % Radix)) % Radix \in 0..(Radix - 1)
         /\ c \in 0..Radix
         /\ ((l + (g % Radix)) % Radix) + Radix * c = l + g
<1>1. g % Radix \in 0..(Radix - 1) /\ g \div Radix \in Nat /\ g = Radix * (g \div Radix) + (g % Radix)
      /\ Radix \in Nat /\ Radix > 0 /\ g \in Nat /\ g < Radix * Radix
  <2>1. g \in Int /\ g \in Nat /\ g < Whole /\ Radix \in Nat /\ Radix > 0
    BY RadixIs
  <2>2. /\ g % Radix \in 0..(Radix - 1)
        /\ g = Radix * (g \div Radix) + (g % Radix)
        /\ g \div Radix \in Nat
    BY <2>1, RadixIs, Remainder
  <2>3. g < Radix * Radix
    BY <2>1 DEF Whole
  <2> QED
    BY <2>1, <2>2, <2>3, Zenon
<1> DEFINE r == g % Radix
           d == g \div Radix
           m == (l + r) % Radix
<1>2. d < Radix
  <2> HIDE DEF d
  <2>1. SUFFICES ASSUME Radix <= d PROVE FALSE
    BY <1>1 DEF d
  <2>2. Radix * Radix <= Radix * d /\ Radix * d \in Nat /\ Radix * Radix \in Nat
    BY <1>1, <2>1, Product DEF d
  <2> QED
    BY <1>1, <2>2 DEF d
<1>3. l \in Nat /\ r \in Nat /\ r < Radix /\ l < Radix /\ d \in Nat /\ g = Radix * d + r
  BY <1>1
<1>4. m = IF l + r >= Radix THEN l + r - Radix ELSE l + r
  <2> HIDE DEF r
  <2>1. ASSUME NEW a \in Nat, a < Radix PROVE a % Radix = a
    BY <1>1, <2>1
  <2>2. CASE l + r < Radix
    BY <1>1, <1>3, <2>1, <2>2
  <2>3. CASE l + r >= Radix
    <3>1. l + r - Radix \in Nat /\ l + r - Radix < Radix
      BY <1>1, <1>3, <2>3
    <3>2. (l + r - Radix) % Radix = l + r - Radix
      BY <2>1, <3>1
    <3>3. l + r = (l + r - Radix) + 1 * Radix
      BY <1>1, <1>3
    <3>4. (l + r) % Radix = (l + r - Radix) % Radix
      BY <1>1, <1>3, <3>1, <3>3, SameRemainder, RadixIs
    <3> QED
      BY <1>1, <1>3, <2>3, <3>2, <3>4
  <2> QED
    BY <1>1, <1>3, <2>2, <2>3
<1>5. c = d + IF l > Radix - 1 - r THEN 1 ELSE 0
  OBVIOUS
<1>6. Radix * (d + 1) = Radix * d + Radix /\ Radix * d \in Int
  BY <1>1, <1>3
<1> HIDE DEF r, d, m
<1>7. m \in 0..(Radix - 1) /\ c \in 0..Radix
  BY <1>1, <1>2, <1>3, <1>4, <1>5
<1>8. m + Radix * c = l + g
  <2>1. CASE l + r >= Radix
    <3>1. c = d + 1 /\ m = l + r - Radix
      BY <1>1, <1>3, <1>4, <1>5, <2>1
    <3> QED
      BY <1>1, <1>3, <1>6, <3>1
  <2>2. CASE l + r < Radix
    <3>1. c = d /\ m = l + r
      BY <1>1, <1>3, <1>4, <1>5, <2>2
    <3> QED
      BY <1>1, <1>3, <1>6, <3>1
  <2> QED
    BY <1>1, <1>3, <2>1, <2>2
<1> QED
  BY <1>7, <1>8 DEF m, r

(***************************************************************************)
(* Tiles of a call                                                         *)
(***************************************************************************)

IsMin(m, S) == m \in S /\ \A y \in S : m <= y

LEMMA MinOfNats ==
  ASSUME NEW S \in SUBSET Nat, S # {}
  PROVE  IsMin(Min(S), S)
<1>1. \E m \in S : \A y \in S : m <= y
  <2>1. SUFFICES ASSUME ~ \E m \in S : \A y \in S : m <= y PROVE FALSE
    OBVIOUS
  <2> DEFINE A == {n \in Nat : \A y \in S : n <= y}
  <2>2. 0 \in A
    OBVIOUS
  <2>3. ASSUME NEW n \in A PROVE n + 1 \in A
    <3>1. n \notin S
      BY <2>1
    <3> QED
      BY <3>1
  <2>4. A \in SUBSET Nat
    OBVIOUS
  <2> HIDE DEF A
  <2>5. A = Nat
    BY <2>2, <2>3, <2>4, NatSetInduction
  <2>6. PICK y \in S : TRUE
    OBVIOUS
  <2>7. y + 1 \in A
    BY <2>5, <2>6
  <2>8. y + 1 <= y
    BY <2>6, <2>7 DEF A
  <2> QED
    BY <2>6, <2>8
<1> QED
  BY <1>1 DEF IsMin, Min

\* Downwards from the end of the features.
LEMMA DownInduction ==
  ASSUME NEW n \in Nat, NEW P \in SUBSET (1..(n + 1)), n + 1 \in P,
         \A f \in 1..n : (\A g \in (f + 1)..(n + 1) : g \in P) => f \in P
  PROVE  \A f \in 1..(n + 1) : f \in P
<1> DEFINE A == {k \in Nat : \A g \in 1..(n + 1) : g >= n + 1 - k => g \in P}
<1>1. 0 \in A
  OBVIOUS
<1>2. ASSUME NEW k \in A PROVE k + 1 \in A
  <2> SUFFICES ASSUME NEW g \in 1..(n + 1), g >= n + 1 - (k + 1) PROVE g \in P
    OBVIOUS
  <2>1. CASE g >= n + 1 - k
    BY <2>1
  <2>2. CASE ~(g >= n + 1 - k)
    <3>1. g \in 1..n /\ \A h \in (g + 1)..(n + 1) : h \in 1..(n + 1) /\ h >= n + 1 - k
      BY <2>2
    <3> QED
      BY <3>1
  <2> QED
    BY <2>1, <2>2
<1>3. A \in SUBSET Nat
  OBVIOUS
<1> HIDE DEF A
<1>4. n \in A
  BY <1>1, <1>2, <1>3, NatSetInduction
<1> QED
  BY <1>4 DEF A

\* The inputs of a launch are those of one call.
CallOK == call \in Calls /\ nBins = call.nBins

LEMMA CallFacts ==
  ASSUME CallOK
  PROVE  /\ nBins \in BinLists /\ Len(nBins) \in Nat /\ Features = 1..Len(nBins)
         /\ \A f \in Features : nBins[f] \in Nat \ {0} /\ nBins[f] <= MaxTileBins
         /\ MaxTileBins \in Nat /\ call.selected \subseteq Features
         /\ call.spans \in Seq([offset : Nat, len : Nat])
         /\ \A k \in DOMAIN call.spans : \A p \in SpanOf(call, k) :
              /\ p \in DOMAIN call.rowIdx
              /\ Gradients[p] \in 0..(Whole - 1)
              /\ \A f \in Features : BinAt(f, p) \in 0..(nBins[f] - 1) \cup {Missing}
         /\ Missing \notin 0..(MaxTileBins - 1)
<1>1. /\ call.nBins \in BinLists /\ Fits(call.nBins)
      /\ call.selected \subseteq DOMAIN call.nBins
      /\ call.spans \in Seq([offset : Nat, len : Nat])
      /\ \A k \in DOMAIN call.spans : \A p \in SpanOf(call, k) :
            /\ p \in DOMAIN call.rowIdx
            /\ call.grads[call.rowIdx[p]] \in 0..(Whole - 1)
            /\ \A f \in DOMAIN call.nBins :
                call.bins[call.physical[f]][call.rowIdx[p]] \in 0..(call.nBins[f] - 1) \cup {Missing}
      /\ Missing \notin 0..(MaxTileBins - 1)
  BY KernelParams, Zenon DEF CallOK
<1>2. nBins = call.nBins
  BY DEF CallOK
<1>3. nBins \in BinLists /\ Fits(nBins)
  BY <1>1, <1>2
<1>4. /\ Len(nBins) \in Nat /\ Features = 1..Len(nBins) /\ MaxTileBins \in Nat
      /\ \A f \in Features : nBins[f] \in Nat \ {0}
  BY <1>3, BinsFacts, LaunchParams
<1>5. \A f \in Features : nBins[f] <= MaxTileBins
  BY <1>3 DEF Fits, Features
<1>6. ASSUME NEW k \in DOMAIN call.spans, NEW p \in SpanOf(call, k)
      PROVE  /\ p \in DOMAIN call.rowIdx
             /\ Gradients[p] \in 0..(Whole - 1)
             /\ \A f \in Features : BinAt(f, p) \in 0..(nBins[f] - 1) \cup {Missing}
  BY <1>1, <1>2, Zenon DEF Gradients, BinAt, Features
<1> QED
  BY <1>1, <1>2, <1>3, <1>4, <1>5, <1>6, Zenon DEF Features

\* A tile holds its first feature, and the next tile starts after its last.
LEMMA TileIs ==
  ASSUME CallOK, NEW f \in Features
  PROVE  /\ TileLast(f) \in f..Len(nBins) /\ After(f) = TileLast(f) + 1
         /\ TileBins(f) \in Nat /\ TileBins(f) <= MaxTileBins
<1>1. /\ nBins \in BinLists /\ Len(nBins) \in Nat /\ f \in Nat \ {0} /\ f <= Len(nBins)
      /\ nBins[f] \in Nat /\ nBins[f] <= MaxTileBins /\ MaxTileBins \in Nat
  BY CallFacts
<1>2. /\ TileLast(f) \in (f - 1)..Len(nBins)
      /\ TileLast(f) >= f => BinsOf(f, TileLast(f)) <= MaxTileBins
      /\ TileLast(f) < f => nBins[f] > MaxTileBins
  BY <1>1, TileFacts
<1>3. TileLast(f) >= f /\ TileLast(f) \in f..Len(nBins) /\ TileLast(f) \in 0..Len(nBins)
  BY <1>1, <1>2
<1>4. BinsOf(f, TileLast(f)) \in Nat
  BY <1>1, <1>3, BinsFacts
<1> QED
  BY <1>1, <1>2, <1>3, <1>4, AfterIs DEF TileBins

LEMMA BinsSplit ==
  ASSUME CallOK, NEW a \in Nat \ {0}, NEW b \in 0..Len(nBins), NEW m \in (a - 1)..b
  PROVE  BinsOf(a, b) = BinsOf(a, m) + BinsOf(m + 1, b)
<1>1. Len(nBins) \in Nat /\ Features = 1..Len(nBins) /\ \A f \in Features : nBins[f] \in Nat
  BY CallFacts
<1> DEFINE S == a..b
           A == a..m
           B == (m + 1)..b
<1>2. IsFiniteSet(S)
  BY <1>1, FS_Interval
<1>3. \A f \in S : nBins[f] \in Int
  BY <1>1
<1>4. A \in SUBSET S /\ B \in SUBSET S /\ A \cap B = {} /\ A \cup B = S
  BY <1>1
<1> HIDE DEF A, B, S
<1>5. Total(nBins, A \cup B) = Total(nBins, A) + Total(nBins, B)
  BY <1>2, <1>3, <1>4, TotalUnion
<1>6. Total(nBins, S) = Total(nBins, A) + Total(nBins, B)
  BY <1>4, <1>5
<1> QED
  BY <1>6, BinsAreTotal DEF A, B, S

LEMMA OffsetsAre ==
  ASSUME CallOK
  PROVE  /\ \A f \in 1..(Len(nBins) + 1) : Offset(f) \in Nat
         /\ \A f \in 1..(Len(nBins) + 1), g \in 1..(Len(nBins) + 1) : f <= g => Offset(f) <= Offset(g)
         /\ \A f \in Features : Offset(f + 1) = Offset(f) + nBins[f]
         /\ \A f \in Features : Offset(TileLast(f) + 1) = Offset(f) + TileBins(f)
<1>1. nBins \in BinLists /\ Len(nBins) \in Nat /\ Features = 1..Len(nBins)
  BY CallFacts
<1>2. \A a \in Nat \ {0}, b \in 0..Len(nBins) : BinsOf(a, b) \in Nat
  BY <1>1, BinsFacts
<1>3. ASSUME NEW f \in 1..(Len(nBins) + 1) PROVE Offset(f) \in Nat
  <2>1. f - 1 \in 0..Len(nBins)
    BY <1>1
  <2> QED
    BY <1>2, <2>1 DEF Offset
<1>4. ASSUME NEW f \in 1..(Len(nBins) + 1), NEW g \in f..(Len(nBins) + 1)
      PROVE  Offset(g) = Offset(f) + BinsOf(f, g - 1) /\ BinsOf(f, g - 1) \in Nat
  <2>1. /\ 1 \in Nat \ {0} /\ g - 1 \in 0..Len(nBins) /\ f - 1 \in (1 - 1)..(g - 1)
        /\ (f - 1) + 1 = f /\ f \in Nat \ {0}
    BY <1>1
  <2>2. BinsOf(1, g - 1) = BinsOf(1, f - 1) + BinsOf((f - 1) + 1, g - 1)
    BY <2>1, BinsSplit
  <2> QED
    BY <1>2, <2>1, <2>2 DEF Offset
<1>5. ASSUME NEW f \in 1..(Len(nBins) + 1), NEW g \in 1..(Len(nBins) + 1), f <= g
      PROVE  Offset(f) <= Offset(g)
  <2>1. g \in f..(Len(nBins) + 1)
    BY <1>1, <1>5
  <2> QED
    BY <1>3, <1>4, <2>1
<1>6. ASSUME NEW f \in Features PROVE Offset(f + 1) = Offset(f) + nBins[f]
  <2>1. f \in 1..(Len(nBins) + 1) /\ f + 1 \in f..(Len(nBins) + 1) /\ (f + 1) - 1 = f
    BY <1>1
  <2>2. BinsOf(f, f) = nBins[f]
    BY <1>1, BinsFacts
  <2> QED
    BY <1>4, <2>1, <2>2
<1>7. ASSUME NEW f \in Features PROVE Offset(TileLast(f) + 1) = Offset(f) + TileBins(f)
  <2>1. TileLast(f) \in f..Len(nBins)
    BY TileIs
  <2>2. f \in 1..(Len(nBins) + 1) /\ TileLast(f) + 1 \in f..(Len(nBins) + 1) /\ (TileLast(f) + 1) - 1 = TileLast(f)
    BY <1>1, <2>1
  <2> QED
    BY <1>4, <2>2 DEF TileBins
<1> QED
  BY <1>3, <1>5, <1>6, <1>7

LEMMA Between ==
  ASSUME NEW o \in Nat, NEW m \in Nat, NEW n \in Nat, NEW h, h = m + n
  PROVE  (o - m \in 0..(n - 1)) <=> (m <= o /\ o < h)
OBVIOUS

\* Every feature has bins of its own, those of a tile's features are next to each other.
LEMMA SlotsAre ==
  ASSUME CallOK, NEW f \in Features, NEW x \in 0..(nBins[f] - 1)
  PROVE  /\ Offset(f) + x \in 0..(Offset(Len(nBins) + 1) - 1)
         /\ \A e \in Features : \A y : y \in 0..(nBins[e] - 1) /\ Offset(e) + y = Offset(f) + x => e = f /\ y = x
         /\ \A a \in Features :
              (f \in a..TileLast(a)) <=> ((Offset(f) + x) - Offset(a) \in 0..(TileBins(a) - 1))
<1>1. /\ Len(nBins) \in Nat /\ Features = 1..Len(nBins)
      /\ \A e \in Features : nBins[e] \in Nat \ {0}
  BY CallFacts
<1> DEFINE N == Len(nBins)
<1>2. /\ \A e \in 1..(N + 1) : Offset(e) \in Nat
      /\ \A e \in 1..(N + 1), g \in 1..(N + 1) : e <= g => Offset(e) <= Offset(g)
      /\ \A e \in Features : Offset(e + 1) = Offset(e) + nBins[e]
      /\ \A e \in Features : Offset(TileLast(e) + 1) = Offset(e) + TileBins(e)
  BY OffsetsAre
<1> HIDE DEF N
<1>3. ASSUME NEW e \in Features, NEW y \in 0..(nBins[e] - 1)
      PROVE  /\ Offset(e) + y \in Nat
             /\ \A g \in 1..(N + 1) : /\ g <= e => Offset(g) <= Offset(e) + y
                                      /\ e < g => Offset(e) + y < Offset(g)
  <2>1. e \in 1..(N + 1) /\ e + 1 \in 1..(N + 1) /\ nBins[e] \in Nat /\ N \in Nat
    BY <1>1 DEF N
  <2>2. Offset(e) \in Nat /\ Offset(e + 1) = Offset(e) + nBins[e]
    BY <1>2, <2>1
  <2>3. ASSUME NEW g \in 1..(N + 1)
        PROVE  /\ g <= e => Offset(g) <= Offset(e) + y
               /\ e < g => Offset(e) + y < Offset(g)
    <3>1. Offset(g) \in Nat /\ (g <= e => Offset(g) <= Offset(e)) /\ (e + 1 <= g => Offset(e + 1) <= Offset(g))
      BY <1>2, <2>1
    <3> QED
      BY <2>1, <2>2, <3>1
  <2> QED
    BY <2>1, <2>2, <2>3
<1>4. Offset(f) + x \in 0..(Offset(N + 1) - 1)
  <2>1. N + 1 \in 1..(N + 1) /\ f < N + 1
    BY <1>1 DEF N
  <2> QED
    BY <1>2, <1>3, <2>1
<1>5. ASSUME NEW e \in Features, NEW y, y \in 0..(nBins[e] - 1), Offset(e) + y = Offset(f) + x
      PROVE  e = f /\ y = x
  <2>1. e \in 1..(N + 1) /\ f \in 1..(N + 1) /\ e \in Int /\ f \in Int
    BY <1>1 DEF N
  <2>2. ~(e < f)
    BY <1>2, <1>3, <1>5, <2>1
  <2>3. ~(f < e)
    BY <1>2, <1>3, <1>5, <2>1
  <2>4. e = f
    BY <2>1, <2>2, <2>3
  <2> QED
    BY <1>2, <1>5, <2>1, <2>4
<1>6. ASSUME NEW a \in Features
      PROVE  (f \in a..TileLast(a)) <=> ((Offset(f) + x) - Offset(a) \in 0..(TileBins(a) - 1))
  <2>1. TileLast(a) \in a..N /\ TileBins(a) \in Nat
    BY TileIs DEF N
  <2> DEFINE g == TileLast(a) + 1
  <2>2. a \in 1..(N + 1) /\ g \in 1..(N + 1) /\ f \in Int /\ (f <= TileLast(a) <=> f < g)
    BY <1>1, <2>1 DEF N
  <2>3. Offset(g) = Offset(a) + TileBins(a) /\ Offset(a) \in Nat
    BY <1>2, <2>2
  <2> HIDE DEF g
  <2>4. /\ (a <= f <=> Offset(a) <= Offset(f) + x)
        /\ (f < g <=> Offset(f) + x < Offset(g)) /\ Offset(f) + x \in Nat /\ Offset(g) \in Nat
    <3>1. Offset(f) + x \in Nat /\ Offset(g) \in Nat /\ Offset(a) \in Nat
      BY <1>2, <1>3, <2>2
    <3>2. (a <= f => Offset(a) <= Offset(f) + x) /\ (f < a => Offset(f) + x < Offset(a))
      BY <1>3, <2>2
    <3>3. (g <= f => Offset(g) <= Offset(f) + x) /\ (f < g => Offset(f) + x < Offset(g))
      BY <1>3, <2>2
    <3>4. a \in Int /\ g \in Int /\ f \in Int
      BY <2>2
    <3> QED
      BY <3>1, <3>2, <3>3, <3>4
  <2>5. (f \in a..TileLast(a)) <=> (a <= f /\ f < g)
    BY <2>1, <2>2
  <2>6. ((Offset(f) + x) - Offset(a) \in 0..(TileBins(a) - 1))
          <=> (Offset(a) <= Offset(f) + x /\ Offset(f) + x < Offset(g))
    <3>1. /\ Offset(f) + x \in Nat /\ Offset(a) \in Nat /\ TileBins(a) \in Nat
          /\ Offset(g) = Offset(a) + TileBins(a)
      BY <2>1, <2>3, <2>4
    <3> QED
      BY <3>1, Between, Zenon
  <2> QED
    BY <2>4, <2>5, <2>6
<1> QED
  BY <1>4, <1>5, <1>6 DEF N

\* The tiles follow each other and leave out no feature.
LEMMA StartsFacts ==
  ASSUME CallOK
  PROVE  /\ TileStarts \subseteq Features
         /\ Len(nBins) > 0 => 1 \in TileStarts
         /\ \A f \in TileStarts : TileLast(f) < Len(nBins) => TileLast(f) + 1 \in TileStarts
         /\ \A f \in TileStarts, e \in Features :
              e >= f => \E g \in TileStarts : g >= f /\ e \in g..TileLast(g)
<1> DEFINE N == Len(nBins)
<1>1. nBins \in BinLists /\ N \in Nat /\ Features = 1..N
  BY CallFacts
<1>2. /\ TileStarts = Starts[1] /\ AreStarts(Starts, 1)
      /\ \A f \in 1..(N + 1) : Starts[f] \in SUBSET (f..N)
  BY <1>1, StartsAre
<1>3. ASSUME NEW f \in 1..N
      PROVE  /\ Starts[f] = {f} \cup Starts[TileLast(f) + 1]
             /\ TileLast(f) \in f..N /\ TileLast(f) + 1 \in (f + 1)..(N + 1)
  <2>1. f \in Features /\ f \in 1..(N + 1) /\ f >= 1 /\ ~(f > N)
    BY <1>1
  <2>2. TileLast(f) \in f..N /\ After(f) = TileLast(f) + 1
    BY <2>1, TileIs
  <2>3. Starts[f] = {f} \cup Starts[After(f)]
    BY <1>2, <2>1 DEF AreStarts
  <2> QED
    BY <1>1, <2>2, <2>3
<1>4. Starts[N + 1] = {}
  <2>1. N + 1 \in 1..(N + 1) /\ N + 1 >= 1 /\ N + 1 > N
    BY <1>1
  <2> QED
    BY <1>2, <2>1 DEF AreStarts
<1> DEFINE P == {f \in 1..(N + 1) : \A g \in Starts[f] : Starts[g] \subseteq Starts[f]}
           Q == {f \in 1..(N + 1) : \A e \in f..N : \E g \in Starts[f] : e \in g..TileLast(g)}
<1>5. P \in SUBSET (1..(N + 1)) /\ Q \in SUBSET (1..(N + 1)) /\ N + 1 \in P /\ N + 1 \in Q
  BY <1>1, <1>4
<1>6. ASSUME NEW f \in 1..N, \A g \in (f + 1)..(N + 1) : g \in P PROVE f \in P
  <2> DEFINE g == TileLast(f) + 1
  <2>1. g \in P /\ Starts[f] = {f} \cup Starts[g]
    BY <1>3, <1>6
  <2> HIDE DEF g
  <2>2. \A h \in Starts[g] : Starts[h] \subseteq Starts[g]
    BY <2>1
  <2>3. \A h \in Starts[f] : Starts[h] \subseteq Starts[f]
    BY <2>1, <2>2
  <2>4. f \in 1..(N + 1)
    BY <1>1
  <2> QED
    BY <2>3, <2>4
<1>7. ASSUME NEW f \in 1..N, \A g \in (f + 1)..(N + 1) : g \in Q PROVE f \in Q
  <2>1. TileLast(f) + 1 \in Q /\ TileLast(f) \in f..N
    BY <1>3, <1>7
  <2>2. ASSUME NEW e \in f..N PROVE \E g \in Starts[f] : e \in g..TileLast(g)
    <3>1. CASE e <= TileLast(f)
      <4>1. f \in Starts[f]
        BY <1>3
      <4>2. e \in f..TileLast(f)
        BY <1>1, <2>1, <3>1
      <4> QED
        BY <4>1, <4>2
    <3>2. CASE ~(e <= TileLast(f))
      <4>1. e \in (TileLast(f) + 1)..N
        BY <1>1, <2>1, <3>2
      <4> QED
        BY <1>3, <2>1, <4>1
    <3> QED
      BY <3>1, <3>2
  <2> QED
    BY <1>1, <2>2
<1> HIDE DEF P, Q
<1>8. \A f \in 1..(N + 1) : f \in P /\ f \in Q
  <2>1. \A f \in 1..(N + 1) : f \in P
    BY <1>1, <1>5, <1>6, DownInduction
  <2>2. \A f \in 1..(N + 1) : f \in Q
    BY <1>1, <1>5, <1>7, DownInduction
  <2> QED
    BY <2>1, <2>2
<1>9. TileStarts \subseteq Features
  <2>1. 1 \in 1..(N + 1)
    BY <1>1
  <2> QED
    BY <1>1, <1>2, <2>1
<1>10. \A f \in TileStarts : Starts[f] \subseteq TileStarts
  <2>1. 1 \in P
    BY <1>1, <1>8
  <2> QED
    BY <1>2, <2>1 DEF P
<1>11. \A f \in 1..N : f \in Starts[f]
  BY <1>3
<1>12. N > 0 => 1 \in TileStarts
  BY <1>1, <1>2, <1>11
<1>13. ASSUME NEW f \in TileStarts, TileLast(f) < N PROVE TileLast(f) + 1 \in TileStarts
  <2>1. f \in 1..N
    BY <1>1, <1>9
  <2>2. TileLast(f) + 1 \in 1..N
    <3>1. TileLast(f) \in f..N /\ f \in 1..N /\ N \in Nat /\ TileLast(f) < N
      BY <1>1, <1>3, <1>13, <2>1
    <3> HIDE DEF N
    <3> QED
      BY <3>1
  <2>3. TileLast(f) + 1 \in Starts[f]
    BY <1>3, <1>11, <2>1, <2>2
  <2> QED
    BY <1>10, <2>3
<1>14. ASSUME NEW f \in TileStarts, NEW e \in Features, e >= f
       PROVE  \E g \in TileStarts : g >= f /\ e \in g..TileLast(g)
  <2>1. f \in 1..N /\ f \in 1..(N + 1) /\ e \in f..N
    BY <1>1, <1>9, <1>14
  <2>2. f \in Q
    BY <1>8, <2>1
  <2>3. PICK g \in Starts[f] : e \in g..TileLast(g)
    BY <2>1, <2>2 DEF Q
  <2>4. g \in TileStarts /\ g \in f..N
    BY <1>2, <1>10, <2>1, <2>3
  <2> QED
    BY <2>1, <2>3, <2>4
<1> QED
  BY <1>9, <1>12, <1>13, <1>14

\* From a place where a tile may start, the next tile that is not skipped.
LEMMA FirstTileIs ==
  ASSUME CallOK, NEW f \in TileStarts \cup {Len(nBins) + 1}
  PROVE  /\ FirstTile(f) \in TileStarts \cup {Len(nBins) + 1}
         /\ FirstTile(f) >= f
         /\ \A e \in call.selected : e >= f => e >= FirstTile(f)
<1> DEFINE N == Len(nBins)
           S == {N + 1} \cup {g \in TileStarts : g >= f /\ (g..TileLast(g)) \cap call.selected # {}}
<1>1. N \in Nat /\ Features = 1..N /\ TileStarts \subseteq Features /\ call.selected \subseteq Features
  BY CallFacts, StartsFacts
<1>2. FirstTile(f) = Min(S)
  BY DEF FirstTile
<1>3. S \in SUBSET Nat /\ S # {} /\ f \in 1..(N + 1)
  <2>1. N + 1 \in Nat /\ N + 1 \in 1..(N + 1) /\ Features \subseteq Nat /\ Features \subseteq 1..(N + 1)
    BY <1>1
  <2>2. S \subseteq {N + 1} \cup TileStarts /\ N + 1 \in S
    BY Zenon
  <2>3. f \in TileStarts \cup {N + 1}
    OBVIOUS
  <2> HIDE DEF N, S
  <2>4. TileStarts \subseteq Nat /\ f \in 1..(N + 1)
    BY <1>1, <2>1, <2>3
  <2> QED
    BY <2>1, <2>2, <2>4
<1>4. \A g \in S : g \in TileStarts \cup {N + 1} /\ g >= f
  BY <1>1
<1>5. ASSUME NEW e \in call.selected, e >= f PROVE \E g \in S : e >= g
  <2>1. e \in Features /\ f \in TileStarts
    BY <1>1, <1>5
  <2>2. PICK g \in TileStarts : g >= f /\ e \in g..TileLast(g)
    BY <1>5, <2>1, StartsFacts
  <2>3. g \in S
    BY <2>2
  <2>4. e >= g
    BY <1>1, <2>1, <2>2
  <2> QED
    BY <2>3, <2>4
<1> HIDE DEF S
<1>6. Min(S) \in S /\ \A y \in S : Min(S) <= y
  BY <1>3, MinOfNats DEF IsMin
<1>7. ASSUME NEW e \in call.selected, e >= f PROVE e >= Min(S)
  <2>1. PICK g \in S : e >= g
    BY <1>5, <1>7
  <2>2. g \in Nat /\ Min(S) \in Nat /\ Min(S) <= g
    BY <1>3, <1>6, <2>1
  <2>3. e \in Nat
    BY <1>1
  <2> HIDE DEF N
  <2> QED
    BY <2>1, <2>2, <2>3
<1> QED
  BY <1>2, <1>4, <1>6, <1>7

LEMMA SharedIs ==
  ASSUME CallOK
  PROVE  SharedWords \in Nat /\ \A f \in TileStarts : TileBins(f) <= SharedWords
<1> DEFINE S == {0} \cup {TileBins(f) : f \in TileStarts}
<1>1. TileStarts \subseteq Features /\ MaxTileBins \in Nat
  BY StartsFacts, CallFacts
<1>2. \A f \in TileStarts : TileBins(f) \in 0..MaxTileBins
  <2>1. \A f \in TileStarts : TileBins(f) \in Nat /\ TileBins(f) <= MaxTileBins
    BY <1>1, TileIs
  <2> QED
    BY <1>1, <2>1
<1>3. S \in SUBSET (0..MaxTileBins) /\ S # {} /\ S \in SUBSET Int
  BY <1>1, <1>2
<1>4. SharedWords = Max(S)
  BY DEF SharedWords
<1>5. \A f \in TileStarts : TileBins(f) \in S
  OBVIOUS
<1> HIDE DEF S
<1>6. IsFiniteSet(S)
  <2>1. IsFiniteSet(0..MaxTileBins)
    BY <1>1, FS_Interval
  <2> QED
    BY <1>3, <2>1, FS_Subset
<1>7. Max(S) \in S /\ \A y \in S : Max(S) >= y
  BY <1>3, <1>6, MaxOfFinite DEF IsMax
<1>8. Max(S) \in Nat
  <2>1. Max(S) \in 0..MaxTileBins
    BY <1>3, <1>7
  <2> QED
    BY <2>1
<1>9. ASSUME NEW f \in TileStarts PROVE TileBins(f) <= Max(S)
  <2>1. TileBins(f) \in Nat /\ Max(S) >= TileBins(f)
    BY <1>2, <1>5, <1>7
  <2> QED
    BY <1>8, <2>1
<1> QED
  BY <1>4, <1>8, <1>9

(***************************************************************************)
(* Blocks of a call                                                        *)
(***************************************************************************)

LEMMA GroupUnique ==
  ASSUME NEW n \in Nat \ {0}, NEW q \in Nat, NEW r \in Nat,
         NEW m \in 0..(n - 1), NEW l \in 0..(n - 1), q * n + m = r * n + l
  PROVE  q = r /\ m = l
<1>1. ASSUME NEW x \in Nat, NEW y \in Nat, NEW i \in 0..(n - 1), NEW j \in 0..(n - 1),
             x * n + i = y * n + j, x < y
      PROVE  FALSE
  <2>1. (x + 1) * n <= y * n /\ x * n \in Nat /\ y * n \in Nat
    <3>1. x + 1 \in Nat /\ x + 1 <= y /\ n \in Nat
      BY <1>1
    <3> QED
      BY <3>1, Product
  <2>2. (x + 1) * n = x * n + n
    OBVIOUS
  <2> DEFINE a == x * n
             b == y * n
             c == (x + 1) * n
  <2>3. a \in Nat /\ b \in Nat /\ c <= b /\ c = a + n /\ a + i = b + j /\ n \in Nat
    BY <1>1, <2>1, <2>2
  <2> HIDE DEF a, b, c
  <2> QED
    BY <2>3
<1>2. q = r
  <2>1. ~(q < r) /\ ~(r < q)
    BY <1>1
  <2> QED
    BY <2>1
<1>3. m = l
  <2> DEFINE a == q * n
  <2>1. a \in Nat /\ a + m = a + l
    BY <1>2, Product
  <2> HIDE DEF a
  <2> QED
    BY <2>1
<1> QED
  BY <1>2, <1>3

NSpans == Len(call.spans)

LEMMA BlkIsTotal == \A k : BlkPtr(k) = Total(NodeBlocks, 1..(k - 1))
BY DEF BlkPtr, MapThenSumSet, Total, FoldFunctionOnSet

LEMMA BlocksAre ==
  ASSUME CallOK
  PROVE  /\ NSpans \in Nat /\ DOMAIN call.spans = 1..NSpans
         /\ RowsPerBlock \in Nat \ {0}
         /\ ThreadsPerBlock \in Nat \ {0} /\ RowsPerThread \in Nat \ {0}
         /\ \A k \in 1..NSpans :
              /\ call.spans[k].len \in Nat /\ call.spans[k].offset \in Nat
              /\ NodeBlocks[k] \in Nat /\ call.spans[k].len <= RowsPerBlock * NodeBlocks[k]
              /\ BlkPtr(k + 1) = BlkPtr(k) + NodeBlocks[k]
         /\ \A k \in 1..(NSpans + 1) : BlkPtr(k) \in Nat
         /\ BlkPtr(1) = 0
<1>1. NSpans \in Nat /\ DOMAIN call.spans = 1..NSpans
      /\ \A k \in 1..NSpans : call.spans[k].len \in Nat /\ call.spans[k].offset \in Nat
  <2>1. call.spans \in Seq([offset : Nat, len : Nat])
    BY CallFacts
  <2> DEFINE s == call.spans
             E == [offset : Nat, len : Nat]
  <2>2. s \in Seq(E)
    BY <2>1
  <2> HIDE DEF s, E
  <2>3. Len(s) \in Nat /\ DOMAIN s = 1..Len(s) /\ \A k \in 1..Len(s) : s[k] \in E
    BY <2>2
  <2>4. \A x \in E : x.len \in Nat /\ x.offset \in Nat
    BY DEF E
  <2>5. \A k \in 1..Len(s) : s[k].len \in Nat /\ s[k].offset \in Nat
    BY <2>3, <2>4
  <2> QED
    BY <2>3, <2>5 DEF NSpans, s
<1>2. ThreadsPerBlock \in Nat \ {0} /\ RowsPerThread \in Nat \ {0}
  BY LaunchParams
<1>3. RowsPerBlock \in Nat \ {0}
  <2>1. 1 * 1 <= ThreadsPerBlock * 1 /\ ThreadsPerBlock * 1 <= ThreadsPerBlock * RowsPerThread
        /\ ThreadsPerBlock * RowsPerThread \in Nat
    <3>1. 1 <= ThreadsPerBlock /\ 1 <= RowsPerThread /\ ThreadsPerBlock \in Nat /\ RowsPerThread \in Nat
      BY <1>2
    <3> QED
      BY <3>1, Product
  <2> QED
    BY <1>2, <2>1 DEF RowsPerBlock
<1>4. ASSUME NEW k \in 1..NSpans
      PROVE  NodeBlocks[k] \in Nat /\ call.spans[k].len <= RowsPerBlock * NodeBlocks[k]
  <2>1. NodeBlocks[k] = CeilDiv(call.spans[k].len, RowsPerBlock)
    BY <1>1 DEF NodeBlocks, CeilDiv
  <2> QED
    BY <1>1, <1>3, <2>1, CeilIs
<1>5. ASSUME NEW k \in 1..(NSpans + 1) PROVE BlkPtr(k) \in Nat
  <2> DEFINE S == 1..(k - 1)
  <2>1. IsFiniteSet(S)
    BY <1>1, FS_Interval
  <2>2. \A j \in S : NodeBlocks[j] \in Nat
    BY <1>1, <1>4
  <2> HIDE DEF S
  <2>3. Total(NodeBlocks, S) \in Nat
    BY <2>1, <2>2, NaturalTotal
  <2> QED
    BY <2>3, BlkIsTotal DEF S
<1>6. BlkPtr(1) = 0
  <2>1. 1..(1 - 1) = {} /\ IsFiniteSet({}) /\ \A j \in {} : NodeBlocks[j] \in Int
    BY FS_EmptySet
  <2>2. Total(NodeBlocks, {}) = 0
    BY <2>1, TotalStep
  <2> QED
    BY <2>1, <2>2, BlkIsTotal
<1>7. ASSUME NEW k \in 1..NSpans PROVE BlkPtr(k + 1) = BlkPtr(k) + NodeBlocks[k]
  <2> DEFINE S == 1..k
  <2>1. IsFiniteSet(S) /\ \A j \in S : NodeBlocks[j] \in Int
    BY <1>1, <1>4, FS_Interval
  <2>2. k \in S /\ S \ {k} = 1..(k - 1) /\ S = 1..((k + 1) - 1)
    BY <1>1
  <2> HIDE DEF S
  <2>3. Total(NodeBlocks, S) = NodeBlocks[k] + Total(NodeBlocks, S \ {k})
    BY <2>1, <2>2, TotalRemove
  <2>4. BlkPtr(k + 1) = NodeBlocks[k] + BlkPtr(k)
    BY <2>2, <2>3, BlkIsTotal
  <2>5. NodeBlocks[k] \in Nat /\ BlkPtr(k) \in Nat
    BY <1>1, <1>4, <1>5
  <2> QED
    BY <2>4, <2>5
<1> QED
  BY <1>1, <1>2, <1>3, <1>4, <1>5, <1>6, <1>7

LEMMA BlkOrder ==
  ASSUME CallOK
  PROVE  \A k \in 1..(NSpans + 1), l \in 1..(NSpans + 1) : k <= l => BlkPtr(k) <= BlkPtr(l)
<1>1. NSpans \in Nat
  BY BlocksAre
<1>2. \A k \in 1..(NSpans + 1) : BlkPtr(k) \in Nat
  BY BlocksAre
<1>3. \A k \in 1..NSpans : BlkPtr(k + 1) >= BlkPtr(k)
  <2>1. ASSUME NEW k \in 1..NSpans PROVE BlkPtr(k + 1) >= BlkPtr(k)
    <3>1. BlkPtr(k + 1) = BlkPtr(k) + NodeBlocks[k] /\ NodeBlocks[k] \in Nat
      BY BlocksAre
    <3>2. BlkPtr(k) \in Nat
      BY <1>1, <1>2
    <3> QED
      BY <3>1, <3>2
  <2> QED
    BY <2>1
<1> SUFFICES ASSUME NEW l \in 1..(NSpans + 1)
             PROVE  \A k \in 1..(NSpans + 1) : k <= l => BlkPtr(k) <= BlkPtr(l)
  BY <1>1
<1> DEFINE n == l - 1
           P == {k \in 1..(n + 1) : BlkPtr(k) <= BlkPtr(l)}
<1>4. n \in Nat /\ n + 1 = l /\ l <= NSpans + 1
  BY <1>1
<1>5. n + 1 \in P
  BY <1>2, <1>4
<1>6. ASSUME NEW k \in 1..n, \A g \in (k + 1)..(n + 1) : g \in P PROVE k \in P
  <2>1. k + 1 \in P
    BY <1>4, <1>6
  <2>2. k \in 1..NSpans /\ k + 1 \in 1..(NSpans + 1) /\ k \in 1..(NSpans + 1)
    BY <1>1, <1>4
  <2>3. BlkPtr(k + 1) <= BlkPtr(l) /\ BlkPtr(k + 1) >= BlkPtr(k)
        /\ BlkPtr(k) \in Nat /\ BlkPtr(k + 1) \in Nat /\ BlkPtr(l) \in Nat
    BY <1>2, <1>3, <2>1, <2>2
  <2> QED
    BY <1>4, <2>3
<1>7. P \in SUBSET (1..(n + 1))
  OBVIOUS
<1> HIDE DEF P
<1>8. \A k \in 1..(n + 1) : k \in P
  BY <1>4, <1>5, <1>6, <1>7, DownInduction
<1> QED
  BY <1>4, <1>8 DEF P

\* The binary search for a block, on every interval.
Searched(N, b) ==
  N = [x \in (1..NSpans + 1) \X (1..NSpans + 1) |->
         LET mid == (x[1] + x[2]) \div 2
         IN  IF x[1] + 1 >= x[2] THEN x[1]
             ELSE IF BlkPtr(mid) <= b THEN N[<<mid, x[2]>>] ELSE N[<<x[1], mid>>]]

SearchFor(b) == CHOOSE N : Searched(N, b)

LEMMA NodeIsSearched == \A b : NodeOf(b) = SearchFor(b)[<<1, NSpans + 1>>]
BY DEF NodeOf, SearchFor, Searched, NSpans

LEMMA SearchIs ==
  ASSUME CallOK, NEW b \in Nat
  PROVE  Searched(SearchFor(b), b)
<1> DEFINE D == 1..(NSpans + 1)
           Found(l, h) == {l} \cup {k \in D : l < k /\ k < h /\ BlkPtr(k) <= b}
           W == [x \in D \X D |-> Max(Found(x[1], x[2]))]
<1>1. NSpans \in Nat /\ \A k \in D : BlkPtr(k) \in Nat
  BY BlocksAre
<1>2. \A k \in D, l \in D : k <= l => BlkPtr(k) <= BlkPtr(l)
  BY BlkOrder
<1>3. D \subseteq Nat
  BY <1>1
<1> HIDE DEF D
<1>4. ASSUME NEW l \in D, NEW h \in D, l + 1 >= h PROVE Max(Found(l, h)) = l
  <2>1. Found(l, h) = {l}
    <3>1. l \in Nat /\ h \in Nat
      BY <1>3
    <3>2. \A k \in D : ~(l < k /\ k < h)
      BY <1>3, <1>4, <3>1
    <3> QED
      BY <3>2, Zenon
  <2>2. IsMax(l, {l}) /\ {l} \in SUBSET Int
    BY <1>3 DEF IsMax
  <2> HIDE DEF Found
  <2> QED
    BY <2>1, <2>2, MaxIs
<1>5. ASSUME NEW l \in D, NEW h \in D, ~(l + 1 >= h), NEW mid, mid = (l + h) \div 2
      PROVE  /\ mid \in D /\ l < mid /\ mid < h
             /\ Max(Found(l, h)) = IF BlkPtr(mid) <= b THEN Max(Found(mid, h)) ELSE Max(Found(l, mid))
  <2>1. l \in Nat /\ h \in Nat /\ h <= NSpans + 1 /\ 1 <= l /\ l + 2 <= h
    BY <1>1, <1>5 DEF D
  <2>2. mid \in Nat /\ l < mid /\ mid < h
    BY <1>5, <2>1
  <2>3. mid \in D
    BY <1>1, <2>1, <2>2 DEF D
  <2>4. ASSUME BlkPtr(mid) <= b PROVE Max(Found(l, h)) = Max(Found(mid, h))
    <3>1. Found(mid, h) \in SUBSET Int /\ Found(l, h) \in SUBSET Int
      <4>1. Found(mid, h) \subseteq {mid} \cup D /\ Found(l, h) \subseteq {l} \cup D
        BY Zenon
      <4>2. mid \in Nat /\ l \in Nat
        BY <2>1, <2>2
      <4> HIDE DEF Found
      <4>3. ASSUME NEW S, NEW y \in Nat, S \subseteq {y} \cup D PROVE S \in SUBSET Int
        BY <1>3, <4>3
      <4> QED
        BY <4>1, <4>2, <4>3
    <3>2. IsFiniteSet(Found(mid, h))
      <4>1. Found(mid, h) \subseteq 1..(NSpans + 1)
        BY <2>3 DEF D
      <4>2. IsFiniteSet(1..(NSpans + 1))
        BY <1>1, FS_Interval
      <4> QED
        BY <4>1, <4>2, FS_Subset
    <3>3. mid \in Found(mid, h)
      OBVIOUS
    <3> DEFINE m == Max(Found(mid, h))
    <3>4. m \in Found(mid, h) /\ \A y \in Found(mid, h) : m >= y
      BY <3>1, <3>2, <3>3, MaxOfFinite DEF IsMax
    <3>5. Found(mid, h) \subseteq Found(l, h)
      <4>1. \A k \in D : mid < k => l < k
        BY <1>3, <2>1, <2>2
      <4>2. mid \in Found(l, h)
        BY <2>2, <2>3, <2>4
      <4> QED
        BY <4>1, <4>2
    <3>6. \A y \in Found(l, h) : y \in Found(mid, h) \/ y <= mid
      <4>1. \A y \in D : y > mid \/ y <= mid
        BY <1>3, <2>2
      <4> QED
        BY <2>1, <2>2, <4>1
    <3> HIDE DEF Found, m
    <3>7. \A y \in Found(l, h) : m >= y
      <4>1. m \in Int /\ m >= mid /\ mid \in Int
        BY <3>1, <3>3, <3>4
      <4>2. \A y \in Found(l, h) : y \in Int
        BY <3>1
      <4> QED
        BY <3>4, <3>6, <4>1, <4>2
    <3>8. IsMax(m, Found(l, h))
      BY <3>4, <3>5, <3>7 DEF IsMax
    <3> QED
      BY <3>1, <3>8, MaxIs DEF m
  <2>5. ASSUME ~(BlkPtr(mid) <= b) PROVE Max(Found(l, h)) = Max(Found(l, mid))
    <3>1. \A k \in D : BlkPtr(k) <= b => k < mid
      <4>1. ASSUME NEW k \in D, BlkPtr(k) <= b, ~(k < mid) PROVE FALSE
        <5>1. mid <= k /\ BlkPtr(mid) <= BlkPtr(k)
          BY <1>2, <1>3, <2>2, <2>3, <4>1
        <5> QED
          BY <1>1, <2>3, <2>5, <4>1, <5>1
      <4> QED
        BY <4>1
    <3>2. \A k \in D : k < mid => k < h
      BY <1>3, <2>1, <2>2
    <3>3. Found(l, h) = Found(l, mid)
      BY <3>1, <3>2
    <3> QED
      BY <3>3
  <2> QED
    BY <2>2, <2>3, <2>4, <2>5
<1> HIDE DEF Found
<1>6. ASSUME NEW x \in D \X D
      PROVE  W[x] = LET mid == (x[1] + x[2]) \div 2
                    IN  IF x[1] + 1 >= x[2] THEN x[1]
                        ELSE IF BlkPtr(mid) <= b THEN W[<<mid, x[2]>>] ELSE W[<<x[1], mid>>]
  <2> DEFINE l == x[1]
             h == x[2]
             m == (l + h) \div 2
  <2>1. l \in D /\ h \in D /\ W[x] = Max(Found(l, h))
    OBVIOUS
  <2>2. \A i \in D, j \in D : W[<<i, j>>] = Max(Found(i, j))
    OBVIOUS
  <2> HIDE DEF W, l, h
  <2>3. CASE l + 1 >= h
    <3>1. W[x] = l
      BY <1>4, <2>1, <2>3
    <3> QED
      BY <2>3, <3>1 DEF l, h
  <2>4. CASE ~(l + 1 >= h)
    <3>1. /\ m \in D
          /\ Max(Found(l, h)) = IF BlkPtr(m) <= b THEN Max(Found(m, h)) ELSE Max(Found(l, m))
      BY <1>5, <2>1, <2>4
    <3> HIDE DEF m
    <3>2. W[x] = IF BlkPtr(m) <= b THEN W[<<m, h>>] ELSE W[<<l, m>>]
      BY <2>1, <2>2, <3>1
    <3> QED
      BY <2>4, <3>2 DEF l, h, m
  <2> QED
    BY <2>3, <2>4
<1>7. Searched(W, b)
  <2>1. W = [x \in D \X D |-> W[x]]
    OBVIOUS
  <2> HIDE DEF W
  <2>2. W = [x \in D \X D |->
              LET mid == (x[1] + x[2]) \div 2
              IN  IF x[1] + 1 >= x[2] THEN x[1]
                  ELSE IF BlkPtr(mid) <= b THEN W[<<mid, x[2]>>] ELSE W[<<x[1], mid>>]]
    BY <1>6, <2>1, Zenon
  <2> QED
    BY <2>2, Zenon DEF Searched, D
<1> HIDE DEF W
<1> QED
  BY <1>7, Zenon DEF SearchFor

\* A block is one of the blocks of its node.
LEMMA NodeIs ==
  ASSUME CallOK, NEW b \in Blocks
  PROVE  /\ NodeOf(b) \in 1..NSpans
         /\ BlkPtr(NodeOf(b)) <= b /\ b < BlkPtr(NodeOf(b) + 1)
<1> DEFINE D == 1..(NSpans + 1)
           N == SearchFor(b)
           Holds(l, h) == /\ N[<<l, h>>] \in l..(h - 1)
                          /\ BlkPtr(N[<<l, h>>]) <= b /\ b < BlkPtr(N[<<l, h>>] + 1)
           K == {k \in Nat : \A l \in D, h \in D :
                   l < h /\ h <= l + k /\ BlkPtr(l) <= b /\ b < BlkPtr(h) => Holds(l, h)}
<1>1. NSpans \in Nat /\ BlkPtr(1) = 0 /\ \A k \in D : BlkPtr(k) \in Nat
  BY BlocksAre
<1>2. b \in Nat /\ b < BlkPtr(NSpans + 1)
  <2>1. b \in 0..(BlkPtr(NSpans + 1) - 1)
    BY DEF Blocks, NSpans
  <2>2. BlkPtr(NSpans + 1) \in Nat
    BY <1>1
  <2> QED
    BY <2>1, <2>2
<1>3. Searched(N, b)
  BY <1>2, SearchIs
<1> HIDE DEF N
<1>4. ASSUME NEW l \in D, NEW h \in D
      PROVE  LET mid == (l + h) \div 2
             IN  N[<<l, h>>] = IF l + 1 >= h THEN l
                               ELSE IF BlkPtr(mid) <= b THEN N[<<mid, h>>] ELSE N[<<l, mid>>]
  <2> DEFINE F(x) == LET mid == (x[1] + x[2]) \div 2
                     IN  IF x[1] + 1 >= x[2] THEN x[1]
                         ELSE IF BlkPtr(mid) <= b THEN N[<<mid, x[2]>>] ELSE N[<<x[1], mid>>]
  <2>1. N = [x \in D \X D |-> F(x)]
    BY <1>3, Zenon DEF Searched, D
  <2>2. <<l, h>> \in D \X D
    OBVIOUS
  <2> HIDE DEF F
  <2>3. N[<<l, h>>] = F(<<l, h>>)
    BY <2>1, <2>2
  <2> QED
    BY <2>3 DEF F
<1>5. 0 \in K
  <2>1. D \subseteq Nat
    BY <1>1
  <2> HIDE DEF D, Holds
  <2> QED
    BY <2>1
<1>6. ASSUME NEW k \in K PROVE k + 1 \in K
  <2>1. k \in Nat /\ D \subseteq Nat
    BY <1>1
  <2> SUFFICES ASSUME NEW l \in D, NEW h \in D,
                      l < h, h <= l + (k + 1), BlkPtr(l) <= b, b < BlkPtr(h)
               PROVE  Holds(l, h)
    BY <2>1
  <2> DEFINE m == (l + h) \div 2
  <2>2. l \in Nat /\ h \in Nat /\ 1 <= l /\ h <= NSpans + 1
    BY <1>1
  <2>3. CASE l + 1 >= h
    <3>0. N[<<l, h>>] = l
      BY <1>4, <2>3
    <3>1. N[<<l, h>>] = l /\ h = l + 1
      BY <2>2, <2>3, <3>0
    <3> QED
      BY <2>2, <3>1
  <2>4. CASE ~(l + 1 >= h)
    <3>1. m \in Nat /\ l < m /\ m < h
      BY <2>2, <2>4
    <3>2. N[<<l, h>>] = IF BlkPtr(m) <= b THEN N[<<m, h>>] ELSE N[<<l, m>>]
      BY <1>4, <2>4
    <3> HIDE DEF m
    <3>3. m \in D /\ h <= m + k /\ m <= l + k
      BY <1>1, <2>1, <2>2, <3>1
    <3>4. \A i \in D, j \in D :
            i < j /\ j <= i + k /\ BlkPtr(i) <= b /\ b < BlkPtr(j) => Holds(i, j)
      OBVIOUS
    <3>5. CASE BlkPtr(m) <= b
      <4>1. Holds(m, h) /\ N[<<l, h>>] = N[<<m, h>>]
        <5> HIDE DEF Holds, K, D
        <5> QED
          BY <3>1, <3>2, <3>3, <3>4, <3>5
      <4> QED
        BY <2>2, <3>1, <4>1
    <3>6. CASE ~(BlkPtr(m) <= b)
      <4>1. BlkPtr(m) \in Nat /\ b < BlkPtr(m)
        BY <1>1, <1>2, <3>3, <3>6
      <4>2. Holds(l, m) /\ N[<<l, h>>] = N[<<l, m>>]
        <5> HIDE DEF Holds, K, D
        <5> QED
          BY <3>1, <3>2, <3>3, <3>4, <3>6, <4>1
      <4> QED
        BY <2>2, <3>1, <4>2
    <3> QED
      BY <3>5, <3>6
  <2> QED
    BY <2>3, <2>4
<1>7. K \in SUBSET Nat
  OBVIOUS
<1> HIDE DEF K
<1>8. NSpans \in K
  BY <1>1, <1>5, <1>6, <1>7, NatSetInduction
<1>9. NSpans > 0
  BY <1>1, <1>2
<1>10. 1 \in D /\ NSpans + 1 \in D /\ 1 < NSpans + 1 /\ NSpans + 1 <= 1 + NSpans
  BY <1>1, <1>9
<1>11. Holds(1, NSpans + 1)
  BY <1>1, <1>2, <1>8, <1>10 DEF K
<1>12. NodeOf(b) = N[<<1, NSpans + 1>>]
  BY NodeIsSearched DEF N
<1>13. N[<<1, NSpans + 1>>] \in 1..NSpans
  BY <1>1, <1>11
<1> QED
  BY <1>11, <1>12, <1>13

LEMMA NodeUnique ==
  ASSUME CallOK, NEW k \in 1..NSpans, NEW b \in Nat, BlkPtr(k) <= b, b < BlkPtr(k + 1)
  PROVE  b \in Blocks /\ NodeOf(b) = k
<1>1. NSpans \in Nat /\ \A l \in 1..(NSpans + 1) : BlkPtr(l) \in Nat
  BY BlocksAre
<1>2. \A l \in 1..(NSpans + 1), h \in 1..(NSpans + 1) : l <= h => BlkPtr(l) <= BlkPtr(h)
  BY BlkOrder
<1>3. b \in Blocks
  <2>1. k + 1 \in 1..(NSpans + 1) /\ NSpans + 1 \in 1..(NSpans + 1) /\ k + 1 <= NSpans + 1
    BY <1>1
  <2>2. BlkPtr(k + 1) <= BlkPtr(NSpans + 1) /\ BlkPtr(k + 1) \in Nat /\ BlkPtr(NSpans + 1) \in Nat
    BY <1>1, <1>2, <2>1
  <2>3. b \in 0..(BlkPtr(NSpans + 1) - 1)
    BY <2>2
  <2> QED
    BY <2>3 DEF Blocks, NSpans
<1> DEFINE n == NodeOf(b)
<1>4. n \in 1..NSpans /\ BlkPtr(n) <= b /\ b < BlkPtr(n + 1)
  BY <1>3, NodeIs
<1> HIDE DEF n
<1>5. ASSUME NEW i \in 1..NSpans, NEW j \in 1..NSpans, i < j, b < BlkPtr(i + 1), BlkPtr(j) <= b PROVE FALSE
  <2>1. i + 1 \in 1..(NSpans + 1) /\ j \in 1..(NSpans + 1) /\ i + 1 <= j
    BY <1>1, <1>5
  <2>2. BlkPtr(i + 1) <= BlkPtr(j) /\ BlkPtr(i + 1) \in Nat /\ BlkPtr(j) \in Nat
    BY <1>1, <1>2, <2>1
  <2> QED
    BY <1>5, <2>2
<1>6. ~(n < k) /\ ~(k < n)
  BY <1>4, <1>5
<1>7. n = k
  BY <1>1, <1>4, <1>6
<1> QED
  BY <1>3, <1>7 DEF n

\* Where in a span a thread of its q-th block reads.
ReadPlace(q, t, r) == q * RowsPerBlock + (r * ThreadsPerBlock + t)

LEMMA PlaceIs ==
  ASSUME CallOK, NEW q \in Nat, NEW t \in Threads, NEW r \in 0..(RowsPerThread - 1)
  PROVE  /\ r * ThreadsPerBlock + t \in 0..(RowsPerBlock - 1)
         /\ ReadPlace(q, t, r) \in Nat
<1>1. ThreadsPerBlock \in Nat \ {0} /\ RowsPerThread \in Nat \ {0} /\ RowsPerBlock \in Nat \ {0}
  BY BlocksAre
<1>2. RowsPerBlock = RowsPerThread * ThreadsPerBlock
  BY <1>1 DEF RowsPerBlock
<1>3. t \in 0..(ThreadsPerBlock - 1) /\ RowsPerThread \in Nat
  BY <1>1 DEF Threads
<1>4. r * ThreadsPerBlock + t \in 0..(RowsPerBlock - 1)
  BY <1>1, <1>2, <1>3, GroupPlace
<1>5. q * RowsPerBlock \in Nat
  BY <1>1, Product
<1> QED
  BY <1>4, <1>5 DEF ReadPlace

LEMMA ReadIs ==
  ASSUME CallOK, NEW b \in Blocks, NEW t \in Threads, NEW p
  PROVE  (p \in RowsRead(b, t)) <=>
            \E r \in 0..(RowsPerThread - 1) :
              /\ p = call.spans[NodeOf(b)].offset + ReadPlace(b - BlkPtr(NodeOf(b)), t, r)
              /\ p < call.spans[NodeOf(b)].offset + call.spans[NodeOf(b)].len
<1> DEFINE k == NodeOf(b)
           offset == call.spans[k].offset
           q == b - BlkPtr(k)
           start == offset + q * RowsPerBlock
<1>1. k \in 1..NSpans /\ BlkPtr(k) <= b /\ BlkPtr(k) \in Nat /\ b \in Nat /\ offset \in Nat /\ NSpans \in Nat
  <2>1. k \in 1..NSpans /\ BlkPtr(k) <= b /\ NSpans \in Nat
    BY NodeIs, BlocksAre
  <2>2. k \in 1..(NSpans + 1) /\ b \in Int
    BY <2>1 DEF Blocks
  <2>3. BlkPtr(k) \in Nat /\ offset \in Nat
    BY <2>1, <2>2, BlocksAre
  <2> QED
    BY <2>1, <2>2, <2>3
<1>2. q \in Nat
  BY <1>1
<1>3. ThreadsPerBlock \in Nat /\ RowsPerBlock \in Nat /\ t \in Nat
  BY BlocksAre DEF Threads
<1>4. RowsRead(b, t) = {x \in {start + t + r * ThreadsPerBlock : r \in 0..(RowsPerThread - 1)} :
                          x < offset + call.spans[k].len}
  BY DEF RowsRead
<1> HIDE DEF k, offset, q
<1>5. ASSUME NEW r \in 0..(RowsPerThread - 1)
      PROVE  start + t + r * ThreadsPerBlock = offset + ReadPlace(q, t, r)
  <2> DEFINE x == q * RowsPerBlock
             y == r * ThreadsPerBlock
  <2>1. x \in Nat /\ y \in Nat
    BY <1>2, <1>3, Product
  <2>2. start = offset + x /\ ReadPlace(q, t, r) = x + (y + t)
    BY DEF ReadPlace
  <2> HIDE DEF x, y
  <2>3. offset + x + t + y = offset + (x + (y + t))
    BY <1>1, <1>3, <2>1
  <2> QED
    BY <2>2, <2>3 DEF y
<1> HIDE DEF start
<1>6. (p \in RowsRead(b, t)) <=>
        \E r \in 0..(RowsPerThread - 1) :
          p = offset + ReadPlace(q, t, r) /\ p < offset + call.spans[k].len
  BY <1>4, <1>5
<1> QED
  BY <1>6 DEF k, offset, q

\* The rows of the threads are a partition of those of the node.
LEMMA RowsReadAre ==
  ASSUME CallOK, NEW b \in Blocks, NEW t \in Threads
  PROVE  RowsRead(b, t) \subseteq SpanOf(call, NodeOf(b))
<1> SUFFICES ASSUME NEW p \in RowsRead(b, t) PROVE p \in SpanOf(call, NodeOf(b))
  OBVIOUS
<1> DEFINE k == NodeOf(b)
           q == b - BlkPtr(k)
<1>1. PICK r \in 0..(RowsPerThread - 1) :
         p = call.spans[k].offset + ReadPlace(q, t, r) /\ p < call.spans[k].offset + call.spans[k].len
  BY ReadIs
<1>2. k \in 1..NSpans /\ BlkPtr(k) <= b /\ NSpans \in Nat
  BY NodeIs, BlocksAre
<1>3. BlkPtr(k) \in Nat /\ call.spans[k].offset \in Nat /\ call.spans[k].len \in Nat
  <2>1. k \in 1..(NSpans + 1)
    BY <1>2
  <2> QED
    BY <1>2, <2>1, BlocksAre
<1>4. q \in Nat
  BY <1>2, <1>3 DEF Blocks
<1>5. ReadPlace(q, t, r) \in Nat
  BY <1>4, PlaceIs
<1> HIDE DEF k, q
<1>6. p \in call.spans[k].offset .. (call.spans[k].offset + call.spans[k].len - 1)
  BY <1>1, <1>3, <1>5
<1> QED
  BY <1>6 DEF SpanOf, k

LEMMA RowsApart ==
  ASSUME CallOK, NEW b \in Blocks, NEW c \in Blocks, NodeOf(b) = NodeOf(c),
         NEW t \in Threads, NEW u \in Threads, NEW p \in RowsRead(b, t), p \in RowsRead(c, u)
  PROVE  b = c /\ t = u
<1> DEFINE k == NodeOf(b)
           m == BlkPtr(k)
           offset == call.spans[k].offset
<1>1. k \in 1..NSpans /\ m <= b /\ m <= c /\ NSpans \in Nat
  BY NodeIs, BlocksAre
<1>2. m \in Nat /\ offset \in Nat /\ b \in Int /\ c \in Int
  <2>1. k \in 1..(NSpans + 1)
    BY <1>1
  <2>2. m \in Nat /\ offset \in Nat
    BY <1>1, <2>1, BlocksAre
  <2> QED
    BY <2>2 DEF Blocks
<1>3. PICK r \in 0..(RowsPerThread - 1) : p = offset + ReadPlace(b - m, t, r)
  BY ReadIs
<1>4. PICK s \in 0..(RowsPerThread - 1) : p = offset + ReadPlace(c - m, u, s)
  BY ReadIs
<1>5. b - m \in Nat /\ c - m \in Nat
  BY <1>1, <1>2
<1> HIDE DEF k, m, offset
<1>6. /\ ReadPlace(b - m, t, r) \in Nat /\ r * ThreadsPerBlock + t \in 0..(RowsPerBlock - 1)
      /\ ReadPlace(c - m, u, s) \in Nat /\ s * ThreadsPerBlock + u \in 0..(RowsPerBlock - 1)
  BY <1>5, PlaceIs
<1>7. ReadPlace(b - m, t, r) = ReadPlace(c - m, u, s)
  BY <1>2, <1>3, <1>4, <1>6
<1>8. ThreadsPerBlock \in Nat \ {0} /\ RowsPerBlock \in Nat \ {0}
  BY BlocksAre
<1>9. b - m = c - m /\ r * ThreadsPerBlock + t = s * ThreadsPerBlock + u
  BY <1>5, <1>6, <1>7, <1>8, GroupUnique DEF ReadPlace
<1>10. t = u
  <2>1. r \in Nat /\ s \in Nat /\ t \in 0..(ThreadsPerBlock - 1) /\ u \in 0..(ThreadsPerBlock - 1)
    BY <1>3, <1>4 DEF Threads
  <2> QED
    BY <1>8, <1>9, <2>1, GroupUnique
<1> QED
  BY <1>2, <1>9, <1>10

LEMMA RowsCover ==
  ASSUME CallOK, NEW k \in DOMAIN call.spans, NEW p \in SpanOf(call, k)
  PROVE  \E b \in Blocks, t \in Threads : NodeOf(b) = k /\ p \in RowsRead(b, t)
<1> DEFINE offset == call.spans[k].offset
           len == call.spans[k].len
           m == BlkPtr(k)
           n == NodeBlocks[k]
           i == p - offset
<1>1. /\ NSpans \in Nat /\ DOMAIN call.spans = 1..NSpans /\ RowsPerBlock \in Nat \ {0}
      /\ ThreadsPerBlock \in Nat \ {0} /\ RowsPerThread \in Nat \ {0}
  BY BlocksAre
<1>2. k \in 1..NSpans /\ k \in 1..(NSpans + 1)
  BY <1>1
<1>3. /\ offset \in Nat /\ len \in Nat /\ m \in Nat /\ n \in Nat
      /\ len <= RowsPerBlock * n /\ BlkPtr(k + 1) = m + n
  BY <1>2, BlocksAre
<1>4. i \in Nat /\ i < len /\ p = offset + i /\ p < offset + len
  BY <1>3 DEF SpanOf
<1> HIDE DEF offset, len, m, n, i
<1>5. n * RowsPerBlock = RowsPerBlock * n /\ n * RowsPerBlock \in Nat
  BY <1>1, <1>3
<1>6. Splits(i, RowsPerBlock, n)
  <2>1. i \in 0..(n * RowsPerBlock - 1)
    <3> DEFINE a == n * RowsPerBlock
    <3>1. a \in Nat /\ len <= a
      BY <1>3, <1>5
    <3> HIDE DEF a
    <3>2. i \in 0..(a - 1)
      BY <1>3, <1>4, <3>1
    <3> QED
      BY <3>2 DEF a
  <2> QED
    BY <1>1, <1>3, <2>1, GroupSplit
<1>7. PICK q \in 0..(n - 1), j \in 0..(RowsPerBlock - 1) : i = q * RowsPerBlock + j
  BY <1>6 DEF Splits
<1>8. RowsPerBlock = RowsPerThread * ThreadsPerBlock
  BY <1>1 DEF RowsPerBlock
<1>9. Splits(j, ThreadsPerBlock, RowsPerThread)
  BY <1>1, <1>7, <1>8, GroupSplit
<1>10. PICK r \in 0..(RowsPerThread - 1), t \in 0..(ThreadsPerBlock - 1) : j = r * ThreadsPerBlock + t
  BY <1>9 DEF Splits
<1> DEFINE b == m + q
<1>11. b \in Nat /\ BlkPtr(k) <= b /\ b < BlkPtr(k + 1) /\ b - BlkPtr(k) = q
  <2>1. m + q \in Nat /\ m <= m + q /\ m + q < m + n /\ (m + q) - m = q
    BY <1>3, <1>7
  <2> QED
    BY <1>3, <2>1 DEF m
<1>12. b \in Blocks /\ NodeOf(b) = k
  BY <1>2, <1>11, NodeUnique
<1>13. t \in Threads
  BY <1>10 DEF Threads
<1>14. i = ReadPlace(q, t, r)
  BY <1>7, <1>10 DEF ReadPlace
<1> HIDE DEF b
<1>15. p \in RowsRead(b, t)
  BY <1>4, <1>11, <1>12, <1>13, <1>14, ReadIs DEF offset, len
<1> QED
  BY <1>12, <1>13, <1>15

(***************************************************************************)
(* The rows of a bin                                                       *)
(***************************************************************************)

\* The rows of a node that belong to bin g.
NodeRows(k, g) == {p \in SpanOf(call, k) : \E f \in Features : Counts(f, p) /\ Slot(f, p) = g}

LEMMA CountsFacts ==
  ASSUME CallOK, NEW k \in DOMAIN call.spans, NEW p \in SpanOf(call, k), NEW f, Counts(f, p)
  PROVE  /\ f \in Features /\ BinAt(f, p) \in 0..(nBins[f] - 1) /\ Offset(f) \in Nat
         /\ Slot(f, p) = Offset(f) + BinAt(f, p) /\ Slot(f, p) \in 0..(Offset(Len(nBins) + 1) - 1)
         /\ \A e \in Features : Counts(e, p) /\ Slot(e, p) = Slot(f, p) => e = f
         /\ \A a \in Features :
              (f \in a..TileLast(a)) <=> (Slot(f, p) - Offset(a) \in 0..(TileBins(a) - 1))
<1>1. f \in call.selected /\ BinAt(f, p) # Missing /\ call.selected \subseteq Features
  BY CallFacts DEF Counts
<1>2. \A e \in Features : BinAt(e, p) \in 0..(nBins[e] - 1) \cup {Missing}
  BY CallFacts
<1>3. \A e \in Features : Counts(e, p) => BinAt(e, p) \in 0..(nBins[e] - 1)
  BY <1>2 DEF Counts
<1>4. f \in Features /\ BinAt(f, p) \in 0..(nBins[f] - 1)
  BY <1>1, <1>3
<1>5. Offset(f) \in Nat
  <2>1. f \in 1..(Len(nBins) + 1)
    BY <1>4, CallFacts
  <2> QED
    BY <2>1, OffsetsAre
<1>6. /\ Offset(f) + BinAt(f, p) \in 0..(Offset(Len(nBins) + 1) - 1)
      /\ \A e \in Features : \A y : y \in 0..(nBins[e] - 1) /\ Offset(e) + y = Offset(f) + BinAt(f, p) => e = f
      /\ \A a \in Features :
          (f \in a..TileLast(a)) <=> ((Offset(f) + BinAt(f, p)) - Offset(a) \in 0..(TileBins(a) - 1))
  BY <1>4, SlotsAre
<1> QED
  BY <1>3, <1>4, <1>5, <1>6, Zenon DEF Slot

LEMMA GradSumIs ==
  \A S : GradSum(S) = Total(Gradients, S)
BY DEF GradSum, MapThenSumSet, Total, FoldFunctionOnSet

LEMMA GradSums ==
  ASSUME CallOK, NEW k \in DOMAIN call.spans
  PROVE  /\ IsFiniteSet(SpanOf(call, k))
         /\ \A S \in SUBSET SpanOf(call, k) : GradSum(S) \in Nat /\ (S = {} => GradSum(S) = 0)
         /\ \A A \in SUBSET SpanOf(call, k), B \in SUBSET SpanOf(call, k) :
              A \cap B = {} => GradSum(A \cup B) = GradSum(A) + GradSum(B)
         /\ \A S \in SUBSET SpanOf(call, k), x \in SpanOf(call, k) :
              x \in S => GradSum(S) = Gradients[x] + GradSum(S \ {x})
<1> DEFINE S == SpanOf(call, k)
<1>1. IsFiniteSet(S)
  <2>1. call.spans[k].offset \in Nat /\ call.spans[k].len \in Nat
    BY BlocksAre
  <2> DEFINE a == call.spans[k].offset
             b == call.spans[k].offset + call.spans[k].len - 1
  <2>2. a \in Int /\ b \in Int
    BY <2>1
  <2> HIDE DEF a, b
  <2>3. IsFiniteSet(a..b)
    BY <2>2, FS_Interval
  <2> QED
    BY <2>3, Zenon DEF SpanOf, a, b
<1>2. \A p \in S : Gradients[p] \in Nat /\ Gradients[p] \in Int
  <2>1. \A p \in S : Gradients[p] \in 0..(Whole - 1)
    BY CallFacts
  <2> QED
    BY <2>1
<1> HIDE DEF S
<1>3. \A s \in SUBSET S : Total(Gradients, s) \in Nat
  BY <1>1, <1>2, NaturalTotal
<1>4. \A s \in SUBSET S : IsFiniteSet(s) /\ (s = {} => Total(Gradients, s) = 0)
  BY <1>1, <1>2, TotalPick
<1>5. ASSUME NEW A \in SUBSET S, NEW B \in SUBSET S, A \cap B = {}
      PROVE  Total(Gradients, A \cup B) = Total(Gradients, A) + Total(Gradients, B)
  BY <1>1, <1>2, <1>5, TotalUnion
<1>6. ASSUME NEW s \in SUBSET S, NEW x \in s
      PROVE  Total(Gradients, s) = Gradients[x] + Total(Gradients, s \ {x})
  <2>1. IsFiniteSet(s) /\ \A y \in s : Gradients[y] \in Int
    BY <1>2, <1>4
  <2> QED
    BY <2>1, TotalRemove
<1> QED
  BY <1>1, <1>3, <1>4, <1>5, <1>6, GradSumIs DEF S

\* The rows of the blocks of a node are apart, and together they are those of the node.
LEMMA SlotRowsAre ==
  ASSUME CallOK
  PROVE  /\ \A b \in Blocks : \A g : SlotRows(b, g) \in SUBSET NodeRows(NodeOf(b), g)
         /\ \A b \in Blocks, c \in Blocks : \A g :
              NodeOf(b) = NodeOf(c) /\ b # c => SlotRows(b, g) \cap SlotRows(c, g) = {}
         /\ \A k \in DOMAIN call.spans : \A g : \A p \in NodeRows(k, g) :
              \E b \in Blocks : NodeOf(b) = k /\ p \in SlotRows(b, g)
<1>1. ASSUME NEW b \in Blocks, NEW g PROVE SlotRows(b, g) \in SUBSET NodeRows(NodeOf(b), g)
  <2>1. \A t \in Threads : RowsRead(b, t) \subseteq SpanOf(call, NodeOf(b))
    BY RowsReadAre
  <2> QED
    BY <2>1 DEF SlotRows, NodeRows
<1>2. ASSUME NEW b \in Blocks, NEW c \in Blocks, NEW g, NodeOf(b) = NodeOf(c), b # c
      PROVE  SlotRows(b, g) \cap SlotRows(c, g) = {}
  <2> SUFFICES ASSUME NEW p \in SlotRows(b, g), p \in SlotRows(c, g) PROVE FALSE
    OBVIOUS
  <2>1. PICK t \in Threads : p \in RowsRead(b, t)
    BY DEF SlotRows
  <2>2. PICK u \in Threads : p \in RowsRead(c, u)
    BY DEF SlotRows
  <2> QED
    BY <1>2, <2>1, <2>2, RowsApart
<1>3. ASSUME NEW k \in DOMAIN call.spans, NEW g, NEW p \in NodeRows(k, g)
      PROVE  \E b \in Blocks : NodeOf(b) = k /\ p \in SlotRows(b, g)
  <2>1. p \in SpanOf(call, k)
    BY DEF NodeRows
  <2>2. PICK b \in Blocks, t \in Threads : NodeOf(b) = k /\ p \in RowsRead(b, t)
    BY <2>1, RowsCover
  <2>3. p \in SlotRows(b, g)
    BY <2>2 DEF SlotRows, NodeRows
  <2> QED
    BY <2>2, <2>3
<1> QED
  BY <1>1, <1>2, <1>3

----------------------------------------------------------------------------
(***************************************************************************)
(* A launch keeps its inputs                                               *)
(***************************************************************************)

LEMMA NodeWillBe ==
  /\ \A k : BlkPtr(k)' = Total(NodeBlocks', 1..(k - 1))
  /\ \A S : GradSum(S)' = Total(Gradients', S)
  /\ CallOK' => \A b \in Blocks' : \E k \in 1..NSpans' :
        NodeOf(b)' = k /\ BlkPtr(k)' <= b /\ b < BlkPtr(k + 1)'
<1>1. (\A k : BlkPtr(k) = Total(NodeBlocks, 1..(k - 1)))'
  BY BlkIsTotal, PTL
<1>2. (\A S : GradSum(S) = Total(Gradients, S))'
  BY GradSumIs, PTL
<1>3. CallOK => \A b \in Blocks : \E k \in 1..NSpans :
         NodeOf(b) = k /\ BlkPtr(k) <= b /\ b < BlkPtr(k + 1)
  BY NodeIs
<1>4. (CallOK => \A b \in Blocks : \E k \in 1..NSpans :
         NodeOf(b) = k /\ BlkPtr(k) <= b /\ b < BlkPtr(k + 1))'
  BY <1>3, PTL
<1> QED
  BY <1>1, <1>2, <1>4

Unchanged == UNCHANGED <<nBins, call>>

LEMMA TilesFrame ==
  ASSUME Unchanged
  PROVE  /\ Features' = Features /\ TileStarts' = TileStarts /\ SharedWords' = SharedWords
         /\ \A f : Offset(f)' = Offset(f)
         /\ \A f : TileLast(f)' = TileLast(f)
         /\ \A f : TileBins(f)' = TileBins(f)
         /\ \A f : FirstTile(f)' = FirstTile(f)
         /\ \A f : At(f)' = At(f)
         /\ \A pos : Following(pos)' = Following(pos)
<1>1. nBins' = nBins /\ call' = call
  BY DEF Unchanged
<1>2. /\ \A a, b : BinsOf(a, b)' = BinsOf(a, b)
      /\ \A f : TileLast(f)' = TileLast(f)
      /\ TileStarts' = TileStarts
  BY <1>1, BinsFrame
<1>3. Features' = Features /\ \A f : At(f)' = At(f)
  BY <1>1 DEF Features, At
<1>4. \A f : Offset(f)' = Offset(f)
  BY <1>2 DEF Offset
<1>5. \A f : TileBins(f)' = TileBins(f)
  <2> TAKE f
  <2>1. BinsOf(f, TileLast(f))' = BinsOf(f, TileLast(f))
    BY <1>2
  <2> QED
    BY <2>1 DEF TileBins
<1>6. SharedWords' = SharedWords
  BY <1>2, <1>5 DEF SharedWords
<1>7. \A f : FirstTile(f)' = FirstTile(f)
  BY <1>1, <1>2 DEF FirstTile
<1>8. \A pos : Following(pos)' = Following(pos)
  <2> TAKE pos
  <2>1. At(FirstTile(TileLast(pos.tile) + 1))' = At(FirstTile(TileLast(pos.tile) + 1))
    BY <1>2, <1>3, <1>7
  <2> QED
    BY <2>1 DEF Following
<1> QED
  BY <1>2, <1>3, <1>4, <1>5, <1>6, <1>7, <1>8

LEMMA BlocksFrame ==
  ASSUME CallOK, Unchanged
  PROVE  /\ CallOK' /\ Blocks' = Blocks /\ NSpans' = NSpans
         /\ \A k : SpanOf(call, k)' = SpanOf(call, k)
         /\ \A b \in Blocks : NodeOf(b)' = NodeOf(b)
         /\ \A b \in Blocks, t \in Threads : RowsRead(b, t)' = RowsRead(b, t)
         /\ Gradients' = Gradients
         /\ \A S : GradSum(S)' = GradSum(S)
         /\ \A f, p : Counts(f, p)' = Counts(f, p) /\ Slot(f, p)' = Slot(f, p)
<1>1. nBins' = nBins /\ call' = call
  BY DEF Unchanged
<1>2. CallOK' /\ NSpans' = NSpans /\ Gradients' = Gradients /\ NodeBlocks' = NodeBlocks
  BY <1>1 DEF CallOK, NSpans, Gradients, NodeBlocks
<1>3. \A k : BlkPtr(k)' = BlkPtr(k)
  BY <1>2, NodeWillBe, BlkIsTotal
<1>4. \A S : GradSum(S)' = GradSum(S)
  BY <1>2, NodeWillBe, GradSumIs
<1>5. Blocks' = Blocks
  <2>1. Blocks = 0..(BlkPtr(NSpans + 1) - 1)
    BY DEF Blocks, NSpans
  <2>2. Blocks' = 0..(BlkPtr(NSpans + 1)' - 1)
    BY DEF Blocks, NSpans
  <2>3. BlkPtr(NSpans + 1)' = BlkPtr(NSpans + 1)
    BY <1>2, <1>3
  <2> QED
    BY <2>1, <2>2, <2>3
<1>6. \A k : SpanOf(call, k)' = SpanOf(call, k)
  BY <1>1 DEF SpanOf
<1>7. ASSUME NEW b \in Blocks PROVE NodeOf(b)' = NodeOf(b)
  <2>1. PICK k \in 1..NSpans' : NodeOf(b)' = k /\ BlkPtr(k)' <= b /\ b < BlkPtr(k + 1)'
    BY <1>2, <1>5, NodeWillBe
  <2>2. k \in 1..NSpans /\ BlkPtr(k) <= b /\ b < BlkPtr(k + 1)
    BY <1>2, <1>3, <2>1
  <2>3. b \in Nat
    BY DEF Blocks
  <2> QED
    BY <2>1, <2>2, <2>3, NodeUnique
<1>8. ASSUME NEW b \in Blocks, NEW t \in Threads PROVE RowsRead(b, t)' = RowsRead(b, t)
  <2>1. NodeOf(b)' = NodeOf(b) /\ BlkPtr(NodeOf(b))' = BlkPtr(NodeOf(b))
    BY <1>3, <1>7
  <2> QED
    BY <1>1, <2>1 DEF RowsRead, RowsPerBlock
<1>9. \A f, p : Counts(f, p)' = Counts(f, p) /\ Slot(f, p)' = Slot(f, p)
  <2> TAKE f, p
  <2>1. BinAt(f, p)' = BinAt(f, p)
    BY <1>1 DEF BinAt
  <2>2. Offset(f)' = Offset(f)
    BY TilesFrame
  <2> QED
    BY <1>1, <2>1, <2>2 DEF Counts, Slot
<1> QED
  BY <1>2, <1>4, <1>5, <1>6, <1>7, <1>8, <1>9

LEMMA WorkFrame ==
  ASSUME CallOK, Unchanged
  PROVE  /\ \A b \in Blocks, t \in Threads : \A pos : Work(b, t, pos)' = Work(b, t, pos)
         /\ \A b \in Blocks : \A g : SlotRows(b, g)' = SlotRows(b, g)
         /\ \A k, g : NodeRows(k, g)' = NodeRows(k, g)
<1>1. /\ Features' = Features
      /\ \A f : TileLast(f)' = TileLast(f)
      /\ \A f : TileBins(f)' = TileBins(f)
  BY TilesFrame
<1>2. /\ \A k : SpanOf(call, k)' = SpanOf(call, k)
      /\ \A b \in Blocks, t \in Threads : RowsRead(b, t)' = RowsRead(b, t)
      /\ \A f, p : Counts(f, p)' = Counts(f, p) /\ Slot(f, p)' = Slot(f, p)
  BY BlocksFrame
<1>3. ASSUME NEW b \in Blocks, NEW t \in Threads, NEW pos PROVE Work(b, t, pos)' = Work(b, t, pos)
  <2>1. RowsRead(b, t)' = RowsRead(b, t) /\ TileBins(pos.tile)' = TileBins(pos.tile)
        /\ TileLast(pos.tile)' = TileLast(pos.tile)
    BY <1>1, <1>2
  <2> QED
    BY <1>2, <2>1 DEF Work
<1>4. ASSUME NEW b \in Blocks, NEW g PROVE SlotRows(b, g)' = SlotRows(b, g)
  <2>1. \A t \in Threads : RowsRead(b, t)' = RowsRead(b, t)
    BY <1>2
  <2> QED
    BY <1>1, <1>2, <2>1 DEF SlotRows, Threads
<1>5. ASSUME NEW k, NEW g PROVE NodeRows(k, g)' = NodeRows(k, g)
  BY <1>1, <1>2 DEF NodeRows
<1> QED
  BY <1>3, <1>4, <1>5

LEMMA TotalSame ==
  ASSUME NEW S, IsFiniteSet(S), NEW v, NEW w, \A x \in S : v[x] \in Int /\ w[x] = v[x]
  PROVE  Total(w, S) = Total(v, S)
<1> DEFINE A == {s \in SUBSET S : Total(w, s) = Total(v, s)}
<1>1. \A s \in SUBSET S : IsFiniteSet(s) /\ \A x \in s : v[x] \in Int /\ w[x] \in Int /\ w[x] = v[x]
  BY FS_Subset
<1>2. {} \in A
  <2>1. IsFiniteSet({}) /\ (\A x \in {} : v[x] \in Int) /\ (\A x \in {} : w[x] \in Int)
    BY FS_EmptySet
  <2>2. Total(v, {}) = 0 /\ Total(w, {}) = 0
    BY <2>1, TotalStep
  <2> QED
    BY <2>2
<1>3. ASSUME NEW s \in SUBSET S, s # {}, s \ {Picked(s)} \in A PROVE s \in A
  <2>1. Picked(s) \in s /\ Total(v, s) = v[Picked(s)] + Total(v, s \ {Picked(s)})
    BY <1>1, <1>3, TotalStep
  <2>2. Total(w, s) = w[Picked(s)] + Total(w, s \ {Picked(s)})
    BY <1>1, <1>3, TotalStep
  <2>3. w[Picked(s)] = v[Picked(s)] /\ Total(w, s \ {Picked(s)}) = Total(v, s \ {Picked(s)})
    BY <1>1, <1>3, <2>1
  <2> QED
    BY <2>1, <2>2, <2>3
<1>4. A \in SUBSET SUBSET S
  OBVIOUS
<1> HIDE DEF A
<1>5. A = SUBSET S
  BY <1>2, <1>3, <1>4, SubsetInduction
<1> QED
  BY <1>5 DEF A

\* A total in which one term has another value.
LEMMA TotalChange ==
  ASSUME NEW S, IsFiniteSet(S), NEW v, \A x \in S : v[x] \in Int, NEW y \in S,
         NEW w, w[y] \in Int, \A x \in S \ {y} : w[x] = v[x]
  PROVE  Total(v, S) \in Int /\ Total(w, S) = Total(v, S) + (w[y] - v[y])
<1>1. \A x \in S : w[x] \in Int
  OBVIOUS
<1>2. Total(v, S) = v[y] + Total(v, S \ {y}) /\ Total(w, S) = w[y] + Total(w, S \ {y})
  BY <1>1, TotalRemove
<1>3. IsFiniteSet(S \ {y}) /\ \A x \in S \ {y} : v[x] \in Int /\ w[x] = v[x]
  BY FS_RemoveElement
<1>4. Total(w, S \ {y}) = Total(v, S \ {y})
  BY <1>3, TotalSame
<1>5. Total(v, S \ {y}) \in Int
  BY <1>3, TotalStep
<1> QED
  BY <1>2, <1>4, <1>5

----------------------------------------------------------------------------
(***************************************************************************)
(* The invariant of a launch                                               *)
(***************************************************************************)

\* A place of the kernel: in a tile that is not skipped, or at the end.
PlaceOK(pos) ==
  \/ /\ pos.tile \in TileStarts /\ pos.phase \in {"clear", "add", "flush"}
     /\ pos = [tile |-> pos.tile, phase |-> pos.phase]
  \/ pos = At(Len(nBins) + 1)

\* The furthest place of a block: its other threads are about to pass the barrier before it.
IsFront(b, pos) ==
  /\ \E t \in Threads : place[b][t] = pos
  /\ \A t \in Threads :
       \/ place[b][t] = pos
       \/ /\ place[b][t].phase # "done" /\ Following(place[b][t]) = pos
          /\ tasks[b][t] = {} /\ carry[b][t] = << >>

\* What a thread has yet to do at the front, if it has not come there all of its work.
TasksAt(b, t, pos) == IF place[b][t] = pos THEN tasks[b][t] ELSE Work(b, t, pos)

TasksOK(b, pos) ==
  \A t \in Threads :
    /\ TasksAt(b, t, pos) \subseteq Work(b, t, pos)
    /\ carry[b][t] # << >> => place[b][t] = pos /\ pos.phase = "add" /\ tasks[b][t] # {}

\* The words of the tile are zero, those excepted that are yet to be cleared.
Cleared(b, pos) ==
  \A s \in 0..(TileBins(pos.tile) - 1) :
    /\ lo[b][s] = 0 \/ \E t \in Threads : s \in TasksAt(b, t, pos)
    /\ hi[b][s] = 0 \/ \E t \in Threads : TileBins(pos.tile) + s \in TasksAt(b, t, pos)

\* The rows of bin g whose addition has not begun, and the carries under way.
ToCome(b, pos, g) ==
  {p \in SlotRows(b, g) : \E t \in Threads, f \in Features :
     <<f, p>> \in TasksAt(b, t, pos) \ Begun(b, t) /\ Slot(f, p) = g}

Carried(b, g) == Total(Carries(b, g), Threads)

Added(b, pos) ==
  \A s \in 0..(TileBins(pos.tile) - 1) : \A g :
    g = Offset(pos.tile) + s =>
      Same(lo[b][s] + Radix * (hi[b][s] + Carried(b, g)) + GradSum(ToCome(b, pos, g)),
           GradSum(SlotRows(b, g)))

\* The sums of the tile are those of all rows of the block.
Complete(b, pos) ==
  \A s \in 0..(TileBins(pos.tile) - 1) : \A g :
    g = Offset(pos.tile) + s => Same(lo[b][s] + Radix * hi[b][s], GradSum(SlotRows(b, g)))

BlockOK(b, pos) ==
  /\ PlaceOK(pos) /\ IsFront(b, pos) /\ TasksOK(b, pos)
  /\ pos.phase = "clear" => Cleared(b, pos)
  /\ pos.phase = "add" => Added(b, pos)
  /\ pos.phase = "flush" => Complete(b, pos)

\* The block has yet to flush bin g.
Owes(b, pos, g) ==
  /\ g >= Offset(pos.tile)
  /\ pos.phase = "flush" /\ g < Offset(pos.tile) + TileBins(pos.tile)
       => \E t \in Threads : 2 * (g - Offset(pos.tile)) \in TasksAt(b, t, pos)

Owing(k, g, front) == {b \in Blocks : NodeOf(b) = k /\ Owes(b, front[b], g)}

OwedRows(k, g, front) == UNION {SlotRows(b, g) : b \in Owing(k, g, front)}

Bins == 0..(Offset(Len(nBins) + 1) - 1)

HistsOK(front) ==
  \A k \in DOMAIN call.spans, g \in Bins :
    Same(hists[k][g] + GradSum(OwedRows(k, g, front)), GradSum(NodeRows(k, g)))

KInv(front) ==
  /\ KernelTypeOK
  /\ \A b \in Blocks : BlockOK(b, front[b])
  /\ HistsOK(front)

KernelInv == \E front \in [Blocks -> Places] : KInv(front)

----------------------------------------------------------------------------
\* Where a place is, and what follows it.
LEMMA PlaceFacts ==
  ASSUME CallOK, NEW pos, PlaceOK(pos)
  PROVE  /\ pos \in Places
         /\ pos.phase \in {"clear", "add", "flush"} =>
              pos.tile \in TileStarts /\ pos.tile \in Features /\ pos = [tile |-> pos.tile, phase |-> pos.phase]
         /\ pos.phase \notin {"clear", "add", "flush"} =>
              pos.tile = Len(nBins) + 1 /\ pos.phase = "done"
         /\ pos.tile \in 1..(Len(nBins) + 1)
<1>1. Len(nBins) \in Nat /\ Features = 1..Len(nBins) /\ TileStarts \subseteq Features
  BY CallFacts, StartsFacts
<1>2. At(Len(nBins) + 1) = [tile |-> Len(nBins) + 1, phase |-> "done"]
  <2>1. ~(Len(nBins) + 1 <= Len(nBins))
    BY <1>1
  <2> QED
    BY <2>1, Zenon DEF At
<1>3. CASE pos = At(Len(nBins) + 1)
  <2>1. pos = [tile |-> Len(nBins) + 1, phase |-> "done"]
    BY <1>2, <1>3
  <2>2. pos.tile = Len(nBins) + 1 /\ pos.phase = "done"
    BY <2>1
  <2>3. Len(nBins) + 1 \in Nat \ {0} /\ Len(nBins) + 1 \in 1..(Len(nBins) + 1)
    BY <1>1
  <2> QED
    BY <2>1, <2>2, <2>3 DEF Places
<1>4. CASE /\ pos.tile \in TileStarts /\ pos.phase \in {"clear", "add", "flush"}
           /\ pos = [tile |-> pos.tile, phase |-> pos.phase]
  <2>1. pos.tile \in Nat \ {0} /\ pos.tile \in Features /\ pos.tile \in 1..(Len(nBins) + 1)
    BY <1>1, <1>4
  <2> QED
    BY <1>4, <2>1 DEF Places
<1> QED
  BY <1>3, <1>4 DEF PlaceOK

LEMMA AtIs ==
  ASSUME CallOK, NEW f \in TileStarts \cup {Len(nBins) + 1}
  PROVE  /\ PlaceOK(At(f)) /\ At(f).tile = f /\ At(f).phase \in {"clear", "done"}
<1>1. Len(nBins) \in Nat /\ Features = 1..Len(nBins) /\ TileStarts \subseteq Features
  BY CallFacts, StartsFacts
<1>2. CASE f \in TileStarts
  <2>1. f <= Len(nBins)
    BY <1>1, <1>2
  <2>2. At(f) = [tile |-> f, phase |-> "clear"]
    BY <2>1 DEF At
  <2> QED
    BY <1>2, <2>2 DEF PlaceOK
<1>3. CASE f = Len(nBins) + 1
  <2>1. ~(f <= Len(nBins))
    BY <1>1, <1>3
  <2>2. At(f) = [tile |-> f, phase |-> "done"]
    BY <2>1 DEF At
  <2> QED
    BY <1>3, <2>2 DEF PlaceOK
<1> QED
  BY <1>2, <1>3

LEMMA FollowingIs ==
  ASSUME CallOK, NEW pos, PlaceOK(pos), pos.phase # "done"
  PROVE  /\ PlaceOK(Following(pos)) /\ Following(pos) # pos
         /\ Following(Following(pos)) # pos
         /\ pos.phase = "clear" => Following(pos) = [tile |-> pos.tile, phase |-> "add"]
         /\ pos.phase = "add" => Following(pos) = [tile |-> pos.tile, phase |-> "flush"]
         /\ pos.phase = "flush" => /\ Following(pos) = At(FirstTile(TileLast(pos.tile) + 1))
                                  /\ TileLast(pos.tile) + 1 \in TileStarts \cup {Len(nBins) + 1}
<1>1. /\ pos.phase \in {"clear", "add", "flush"}
      /\ pos.tile \in TileStarts /\ pos.tile \in Features /\ pos = [tile |-> pos.tile, phase |-> pos.phase]
  BY PlaceFacts
<1> DEFINE P(x) == [tile |-> pos.tile, phase |-> x]
           f == TileLast(pos.tile) + 1
           n == At(FirstTile(f))
<1>2. f \in TileStarts \cup {Len(nBins) + 1}
  <2>1. TileLast(pos.tile) \in pos.tile..Len(nBins)
    BY <1>1, TileIs
  <2>2. Len(nBins) \in Nat /\ pos.tile \in Nat
    BY <1>1, CallFacts
  <2>3. TileLast(pos.tile) < Len(nBins) \/ TileLast(pos.tile) = Len(nBins)
    BY <2>1, <2>2
  <2> QED
    BY <1>1, <2>3, StartsFacts
<1>3. PlaceOK(n) /\ n \in Places /\ n.phase \in {"clear", "done"}
  BY <1>2, FirstTileIs, AtIs, PlaceFacts
<1>4. \A x \in {"clear", "add", "flush"} : PlaceOK(P(x)) /\ P(x).phase = x /\ P(x).tile = pos.tile
  BY <1>1 DEF PlaceOK
<1>5. /\ Following(P("clear")) = P("add") /\ Following(P("add")) = P("flush")
      /\ Following(P("flush")) = n
  BY DEF Following
<1>6. \A x \in Places : x.phase \in {"clear", "done"} => Following(x).phase \in {"add", "clear", "done"}
  <2> SUFFICES ASSUME NEW x \in Places, x.phase \in {"clear", "done"}
               PROVE  Following(x).phase \in {"add", "clear", "done"}
    OBVIOUS
  <2>1. \A e : At(e).phase \in {"clear", "done"}
    BY DEF At
  <2>2. Following(x) = [x EXCEPT !.phase = "add"] \/ Following(x) = At(FirstTile(TileLast(x.tile) + 1))
    BY DEF Following
  <2>3. [x EXCEPT !.phase = "add"].phase = "add"
    BY DEF Places
  <2> QED
    BY <2>1, <2>2, <2>3
<1> HIDE DEF n, f
<1>7. CASE pos = P("clear")
  BY <1>3, <1>4, <1>5, <1>7
<1>8. CASE pos = P("add")
  BY <1>3, <1>4, <1>5, <1>8
<1>9. CASE pos = P("flush")
  BY <1>2, <1>3, <1>4, <1>5, <1>6, <1>9 DEF n, f
<1> QED
  BY <1>1, <1>7, <1>8, <1>9

LEMMA PlaceFrame ==
  ASSUME Unchanged
  PROVE  \A pos : PlaceOK(pos)' = PlaceOK(pos)
<1>1. nBins' = nBins /\ TileStarts' = TileStarts /\ \A f : At(f)' = At(f)
  BY TilesFrame DEF Unchanged
<1>2. At(Len(nBins) + 1)' = At(Len(nBins) + 1)
  BY <1>1
<1> QED
  BY <1>1, <1>2 DEF PlaceOK

\* What a thread has begun depends on its own tasks and carry only.
LEMMA BegunFrame ==
  ASSUME NEW b, NEW t, tasks'[b][t] = tasks[b][t], carry'[b][t] = carry[b][t]
  PROVE  Begun(b, t)' = Begun(b, t)
BY DEF Begun

LEMMA BlockKept ==
  ASSUME CallOK, Unchanged, NEW b \in Blocks,
         lo'[b] = lo[b], hi'[b] = hi[b], place'[b] = place[b], tasks'[b] = tasks[b],
         carry'[b] = carry[b], NEW pos
  PROVE  /\ BlockOK(b, pos) => BlockOK(b, pos)'
         /\ \A g : Owes(b, pos, g)' = Owes(b, pos, g)
<1>1. /\ Features' = Features
      /\ \A f : Offset(f)' = Offset(f)
      /\ \A f : TileBins(f)' = TileBins(f)
      /\ \A x : Following(x)' = Following(x)
  BY TilesFrame
<1>2. Threads' = Threads /\ Radix' = Radix
  BY DEF Threads
<1>3. /\ \A t \in Threads : Work(b, t, pos)' = Work(b, t, pos)
      /\ \A g : SlotRows(b, g)' = SlotRows(b, g)
      /\ \A S : GradSum(S)' = GradSum(S)
      /\ \A f, p : Slot(f, p)' = Slot(f, p)
  BY WorkFrame, BlocksFrame
<1>4. PlaceOK(pos)' = PlaceOK(pos)
  BY PlaceFrame
<1>5. \A t \in Threads : TasksAt(b, t, pos)' = TasksAt(b, t, pos)
  BY <1>3 DEF TasksAt
<1>6. \A t : Begun(b, t)' = Begun(b, t)
  BY DEF Begun
<1>7. IsFront(b, pos) => IsFront(b, pos)'
  <2>1. \A t \in Threads : Following(place[b][t])' = Following(place[b][t])
    BY <1>1
  <2> QED
    BY <2>1 DEF IsFront, Threads
<1>8. TasksOK(b, pos) => TasksOK(b, pos)'
  BY <1>3, <1>5 DEF TasksOK, Threads
<1>9. Cleared(b, pos) => Cleared(b, pos)'
  <2>1. TileBins(pos.tile)' = TileBins(pos.tile)
    BY <1>1
  <2> QED
    BY <1>5, <2>1 DEF Cleared, Threads
<1>10. \A g : ToCome(b, pos, g)' = ToCome(b, pos, g)
  BY <1>1, <1>3, <1>5, <1>6 DEF ToCome, Threads
<1>11. \A g : Carried(b, g)' = Carried(b, g)
  <2>1. \A g : Carries(b, g)' = Carries(b, g)
    BY <1>3, <1>6 DEF Carries, Threads
  <2> QED
    BY <1>2, <2>1 DEF Carried
<1>12. Added(b, pos) => Added(b, pos)'
  <2> SUFFICES ASSUME Added(b, pos), NEW s \in 0..(TileBins(pos.tile)' - 1), NEW g, g = Offset(pos.tile)' + s
               PROVE  Same(lo'[b][s] + Radix * (hi'[b][s] + Carried(b, g)') + GradSum(ToCome(b, pos, g))',
                           GradSum(SlotRows(b, g))')
    BY DEF Added
  <2>1. s \in 0..(TileBins(pos.tile) - 1) /\ g = Offset(pos.tile) + s
    BY <1>1
  <2>2. Same(lo[b][s] + Radix * (hi[b][s] + Carried(b, g)) + GradSum(ToCome(b, pos, g)),
             GradSum(SlotRows(b, g)))
    BY <2>1 DEF Added
  <2>3. /\ GradSum(ToCome(b, pos, g))' = GradSum(ToCome(b, pos, g))
        /\ GradSum(SlotRows(b, g))' = GradSum(SlotRows(b, g))
    BY <1>3, <1>10
  <2> QED
    BY <1>11, <2>2, <2>3
<1>13. Complete(b, pos) => Complete(b, pos)'
  <2> SUFFICES ASSUME Complete(b, pos), NEW s \in 0..(TileBins(pos.tile)' - 1), NEW g, g = Offset(pos.tile)' + s
               PROVE  Same(lo'[b][s] + Radix * hi'[b][s], GradSum(SlotRows(b, g))')
    BY DEF Complete
  <2>1. s \in 0..(TileBins(pos.tile) - 1) /\ g = Offset(pos.tile) + s
    BY <1>1
  <2>2. Same(lo[b][s] + Radix * hi[b][s], GradSum(SlotRows(b, g)))
    BY <2>1 DEF Complete
  <2>3. GradSum(SlotRows(b, g))' = GradSum(SlotRows(b, g))
    BY <1>3
  <2> QED
    BY <2>2, <2>3
<1>14. \A g : Owes(b, pos, g)' = Owes(b, pos, g)
  <2>1. Offset(pos.tile)' = Offset(pos.tile) /\ TileBins(pos.tile)' = TileBins(pos.tile)
    BY <1>1
  <2> QED
    BY <1>5, <2>1 DEF Owes, Threads
<1>15. BlockOK(b, pos) => BlockOK(b, pos)'
  BY <1>4, <1>7, <1>8, <1>9, <1>12, <1>13, Zenon DEF BlockOK
<1> QED
  BY <1>14, <1>15

\* A step of block b that leaves the sums owed to the histograms as they are.
OthersKept(b) ==
  \A c \in Blocks \ {b} :
    /\ lo'[c] = lo[c] /\ hi'[c] = hi[c] /\ place'[c] = place[c]
    /\ tasks'[c] = tasks[c] /\ carry'[c] = carry[c]

LEMMA OwingKept ==
  ASSUME CallOK, Unchanged, NEW front, NEW b \in Blocks, OthersKept(b), NEW new, NEW k, NEW g,
         NEW c \in Blocks, c # b, new[c] = front[c]
  PROVE  (c \in Owing(k, g, new)') <=> (c \in Owing(k, g, front))
<1>1. Blocks' = Blocks /\ NodeOf(c)' = NodeOf(c)
  BY BlocksFrame
<1>2. \A x : Owes(c, x, g)' = Owes(c, x, g)
  BY BlockKept DEF OthersKept
<1>3. Owes(c, front[c], g)' = Owes(c, front[c], g)
  BY <1>2
<1> QED
  BY <1>1, <1>3 DEF Owing

LEMMA InvStep ==
  ASSUME CallOK, Unchanged, NEW front \in [Blocks -> Places], KInv(front),
         NEW b \in Blocks, OthersKept(b), UNCHANGED hists,
         NEW pos \in Places, BlockOK(b, pos)', KernelTypeOK',
         \A g \in Bins : SlotRows(b, g) = {} \/ (Owes(b, pos, g)' <=> Owes(b, front[b], g))
  PROVE  KernelInv'
<1> DEFINE new == [front EXCEPT ![b] = pos]
<1>1. new \in [Blocks -> Places] /\ new[b] = pos /\ \A c \in Blocks : c # b => new[c] = front[c]
  OBVIOUS
<1>2. Blocks' = Blocks /\ \A c \in Blocks : NodeOf(c)' = NodeOf(c)
  BY BlocksFrame
<1>3. \A c \in Blocks : BlockOK(c, new[c])'
  <2> SUFFICES ASSUME NEW c \in Blocks, NEW x, x = new[c] PROVE BlockOK(c, x)'
    OBVIOUS
  <2>1. CASE c = b
    BY <1>1, <2>1
  <2>2. CASE c # b
    <3>1. BlockOK(c, front[c])
      BY DEF KInv
    <3>2. BlockOK(c, x)
      BY <1>1, <2>2, <3>1
    <3> QED
      BY <2>2, <3>2, BlockKept DEF OthersKept
  <2> QED
    BY <2>1, <2>2
<1>4. Bins' = Bins /\ DOMAIN call.spans' = DOMAIN call.spans
  <2>1. nBins' = nBins /\ call' = call
    BY DEF Unchanged
  <2>2. Offset(Len(nBins) + 1)' = Offset(Len(nBins) + 1)
    BY <2>1, TilesFrame
  <2> QED
    BY <2>1, <2>2 DEF Bins
<1> HIDE DEF new
<1>5. ASSUME NEW k \in DOMAIN call.spans, NEW g \in Bins
      PROVE  OwedRows(k, g, new)' = OwedRows(k, g, front)
  <2>1. ASSUME NEW c \in Blocks, c # b
        PROVE  (c \in Owing(k, g, new)') <=> (c \in Owing(k, g, front))
    <3>1. new[c] = front[c]
      BY <1>1, <2>1
    <3> QED
      BY <2>1, <3>1, OwingKept
  <2>2. \A c \in Blocks : SlotRows(c, g)' = SlotRows(c, g)
    BY WorkFrame
  <2>3. SlotRows(b, g) = {} \/ ((b \in Owing(k, g, new)') <=> (b \in Owing(k, g, front)))
    <3>1. Owes(b, new[b], g)' = Owes(b, pos, g)'
      BY <1>1
    <3> QED
      BY <1>2, <3>1 DEF Owing
  <2>4. Owing(k, g, new)' \subseteq Blocks /\ Owing(k, g, front) \subseteq Blocks
    BY <1>2 DEF Owing
  <2>5. OwedRows(k, g, new)' = UNION {SlotRows(c, g) : c \in Owing(k, g, new)'}
    BY <2>2, <2>4 DEF OwedRows
  <2> QED
    BY <2>1, <2>3, <2>4, <2>5 DEF OwedRows
<1>6. HistsOK(new)'
  <2> SUFFICES ASSUME NEW k \in DOMAIN call.spans, NEW g \in Bins
               PROVE  Same(hists'[k][g] + GradSum(OwedRows(k, g, new))', GradSum(NodeRows(k, g))')
    BY <1>4 DEF HistsOK
  <2>1. GradSum(OwedRows(k, g, new))' = GradSum(OwedRows(k, g, front))
    BY <1>5, BlocksFrame
  <2>2. GradSum(NodeRows(k, g))' = GradSum(NodeRows(k, g))
    BY BlocksFrame, WorkFrame
  <2>3. Same(hists[k][g] + GradSum(OwedRows(k, g, front)), GradSum(NodeRows(k, g)))
    BY DEF KInv, HistsOK
  <2> QED
    BY <2>1, <2>2, <2>3
<1>7. KInv(new)'
  BY <1>2, <1>3, <1>6 DEF KInv
<1> QED
  BY <1>1, <1>2, <1>7 DEF KernelInv

----------------------------------------------------------------------------
(***************************************************************************)
(* What a thread takes next                                                *)
(***************************************************************************)

LEMMA FirstIs ==
  ASSUME NEW A \in SUBSET Nat, NEW B \in SUBSET Nat, NEW S \in SUBSET (A \X B), S # {}
  PROVE  First(S) \in S
<1> DEFINE F == {x[1] : x \in S}
           m == Min(F)
           P == {x[2] : x \in {y \in S : y[1] = m}}
           n == Min(P)
<1>1. \A x \in S : x[1] \in Nat /\ x[2] \in Nat
  OBVIOUS
<1>2. m \in F /\ \A y \in F : m <= y
  <2>1. F \in SUBSET Nat /\ F # {}
    BY <1>1
  <2> HIDE DEF F
  <2> QED
    BY <2>1, MinOfNats DEF IsMin
<1>3. n \in P /\ \A y \in P : n <= y
  <2>1. P \in SUBSET Nat /\ P # {}
    <3> HIDE DEF m
    <3>1. P \in SUBSET Nat
      BY <1>1
    <3>2. P # {}
      BY <1>2
    <3> QED
      BY <3>1, <3>2
  <2> HIDE DEF P
  <2> QED
    BY <2>1, MinOfNats DEF IsMin
<1> HIDE DEF m, n
<1>4. PICK x \in S : x[1] = m /\ x[2] = n
  BY <1>3
<1>5. ASSUME NEW y \in S PROVE x[1] < y[1] \/ (x[1] = y[1] /\ x[2] <= y[2])
  <2>1. m <= y[1] /\ m \in Nat /\ y[1] \in Nat
    BY <1>1, <1>2, <1>4
  <2>2. CASE y[1] = m
    BY <1>3, <1>4, <2>2
  <2>3. CASE y[1] # m
    BY <1>4, <2>1, <2>3
  <2> QED
    BY <2>2, <2>3
<1>6. \E z \in S : \A y \in S : z[1] < y[1] \/ (z[1] = y[1] /\ z[2] <= y[2])
  BY <1>5
<1> QED
  BY <1>6 DEF First

\* The words and the rows of a thread's work.
LEMMA WorkIs ==
  ASSUME CallOK, NEW b \in Blocks, NEW t \in Threads, NEW pos, PlaceOK(pos)
  PROVE  /\ pos.phase \in {"clear", "flush"} =>
              /\ TileBins(pos.tile) \in Nat
              /\ \A w \in Work(b, t, pos) : w \in 0..(2 * TileBins(pos.tile) - 1) /\ w % ThreadsPerBlock = t
         /\ pos.phase = "flush" => \A w \in Work(b, t, pos) : w % 2 = 0
         /\ pos.phase = "add" =>
              Work(b, t, pos) = {x \in (pos.tile..TileLast(pos.tile)) \X RowsRead(b, t) : Counts(x[1], x[2])}
         /\ pos.phase = "done" => Work(b, t, pos) = {}
<1>1. pos.phase \in {"clear", "flush"} => TileBins(pos.tile) \in Nat
  <2>1. pos.phase \in {"clear", "flush"} => pos.tile \in Features
    BY PlaceFacts
  <2> QED
    BY <2>1, TileIs
<1>2. pos.phase = "clear" => Work(b, t, pos) = {w \in 0..(2 * TileBins(pos.tile) - 1) : w % ThreadsPerBlock = t}
  BY DEF Work
<1>3. pos.phase = "flush" =>
        Work(b, t, pos) = {w \in 0..(2 * TileBins(pos.tile) - 1) : w % ThreadsPerBlock = t /\ w % 2 = 0}
  BY DEF Work
<1>4. pos.phase = "add" =>
        Work(b, t, pos) = {x \in (pos.tile..TileLast(pos.tile)) \X RowsRead(b, t) : Counts(x[1], x[2])}
  BY DEF Work
<1>5. pos.phase = "done" => Work(b, t, pos) = {}
  BY DEF Work
<1> QED
  BY <1>1, <1>2, <1>3, <1>4, <1>5

LEMMA TypeFacts ==
  ASSUME KernelTypeOK
  PROVE  /\ CallOK
         /\ \A b \in Blocks, s \in 0..(SharedWords - 1) : lo[b][s] \in 0..(Radix - 1) /\ hi[b][s] \in 0..(Radix - 1)
         /\ \A b \in Blocks, t \in Threads :
              /\ place[b][t] \in Places /\ tasks[b][t] \subseteq Work(b, t, place[b][t])
              /\ carry[b][t] # << >> => carry[b][t][1] \in 0..Radix
         /\ \A k \in DOMAIN call.spans, g \in Bins : hists[k][g] \in 0..(Whole - 1)
<1>1. CallOK
  BY DEF KernelTypeOK, CallOK
<1>2. \A b \in Blocks, s \in 0..(SharedWords - 1) : lo[b][s] \in 0..(Radix - 1) /\ hi[b][s] \in 0..(Radix - 1)
  <2>1. /\ lo \in [Blocks -> [0..(SharedWords - 1) -> 0..(Radix - 1)]]
        /\ hi \in [Blocks -> [0..(SharedWords - 1) -> 0..(Radix - 1)]]
    BY Zenon DEF KernelTypeOK
  <2> QED
    BY <2>1
<1>3. ASSUME NEW b \in Blocks, NEW t \in Threads
      PROVE  /\ place[b][t] \in Places /\ tasks[b][t] \subseteq Work(b, t, place[b][t])
             /\ carry[b][t] # << >> => carry[b][t][1] \in 0..Radix
  <2>1. /\ carry \in [Blocks -> [Threads -> {<< >>} \cup {<<c>> : c \in 0..Radix}]]
        /\ place \in [Blocks -> [Threads -> Places]]
        /\ tasks[b][t] \subseteq Work(b, t, place[b][t])
    BY Zenon DEF KernelTypeOK
  <2>2. carry[b][t] \in {<< >>} \cup {<<c>> : c \in 0..Radix}
    BY <2>1
  <2> QED
    BY <2>1, <2>2
<1>4. \A k \in DOMAIN call.spans, g \in Bins : hists[k][g] \in 0..(Whole - 1)
  <2>1. hists \in [DOMAIN call.spans -> [Bins -> 0..(Whole - 1)]]
    BY Zenon DEF KernelTypeOK, Bins
  <2> QED
    BY <2>1
<1> QED
  BY <1>1, <1>2, <1>3, <1>4

\* The thread of a block that has something to do is at the front.
LEMMA ActsAtFront ==
  ASSUME NEW b \in Blocks, NEW pos, BlockOK(b, pos), NEW t \in Threads, tasks[b][t] # {}
  PROVE  /\ place[b][t] = pos /\ TasksAt(b, t, pos) = tasks[b][t]
         /\ tasks[b][t] \subseteq Work(b, t, pos)
<1>1. place[b][t] = pos
  BY DEF BlockOK, IsFront
<1>2. TasksAt(b, t, pos) = tasks[b][t]
  BY <1>1 DEF TasksAt
<1>3. TasksAt(b, t, pos) \subseteq Work(b, t, pos)
  BY DEF BlockOK, TasksOK
<1> QED
  BY <1>1, <1>2, <1>3

LEMMA MinTask ==
  ASSUME CallOK, NEW b \in Blocks, NEW pos, BlockOK(b, pos), NEW t \in Threads, tasks[b][t] # {},
         pos.phase \in {"clear", "flush"}
  PROVE  /\ Min(tasks[b][t]) \in tasks[b][t]
         /\ Min(tasks[b][t]) \in 0..(2 * TileBins(pos.tile) - 1)
         /\ Min(tasks[b][t]) % ThreadsPerBlock = t
         /\ pos.phase = "flush" => Min(tasks[b][t]) % 2 = 0
<1>1. PlaceOK(pos) /\ tasks[b][t] \subseteq Work(b, t, pos)
  BY ActsAtFront DEF BlockOK
<1>2. /\ \A w \in tasks[b][t] : w \in 0..(2 * TileBins(pos.tile) - 1) /\ w % ThreadsPerBlock = t
      /\ pos.phase = "flush" => \A w \in tasks[b][t] : w % 2 = 0
  BY <1>1, WorkIs
<1>3. tasks[b][t] \in SUBSET Nat
  BY <1>2
<1>4. Min(tasks[b][t]) \in tasks[b][t]
  BY <1>3, MinOfNats DEF IsMin
<1> QED
  BY <1>2, <1>4

\* The row a thread adds next, and its word of shared memory.
LEMMA FirstTask ==
  ASSUME CallOK, NEW b \in Blocks, NEW pos, BlockOK(b, pos), NEW t \in Threads, tasks[b][t] # {},
         pos.phase = "add"
  PROVE  LET x == First(tasks[b][t])
         IN  /\ x \in tasks[b][t] /\ x = <<x[1], x[2]>>
             /\ x[1] \in Features /\ x[1] \in pos.tile..TileLast(pos.tile)
             /\ x[2] \in RowsRead(b, t) /\ Counts(x[1], x[2]) /\ x[2] \in SpanOf(call, NodeOf(b))
             /\ SharedSlot(b, t, x) \in 0..(TileBins(pos.tile) - 1)
             /\ Slot(x[1], x[2]) = Offset(pos.tile) + SharedSlot(b, t, x)
             /\ x[2] \in SlotRows(b, Slot(x[1], x[2]))
             /\ Gradients[x[2]] \in 0..(Whole - 1)
<1> DEFINE x == First(tasks[b][t])
           g == Slot(x[1], x[2])
<1>1. PlaceOK(pos) /\ tasks[b][t] \subseteq Work(b, t, pos) /\ place[b][t] = pos
  BY ActsAtFront DEF BlockOK
<1>2. Work(b, t, pos) = {y \in (pos.tile..TileLast(pos.tile)) \X RowsRead(b, t) : Counts(y[1], y[2])}
  BY <1>1, WorkIs
<1>3. pos.tile \in Features /\ Len(nBins) \in Nat /\ Features = 1..Len(nBins)
  BY <1>1, PlaceFacts, CallFacts
<1>4. TileLast(pos.tile) \in pos.tile..Len(nBins) /\ TileBins(pos.tile) \in Nat
  BY <1>3, TileIs
<1>5. pos.tile..TileLast(pos.tile) \in SUBSET Features /\ Features \in SUBSET Nat
  BY <1>3, <1>4
<1>6. NodeOf(b) \in DOMAIN call.spans /\ RowsRead(b, t) \subseteq SpanOf(call, NodeOf(b))
  BY NodeIs, BlocksAre, RowsReadAre
<1>7. SpanOf(call, NodeOf(b)) \in SUBSET Nat
  <2>1. call.spans[NodeOf(b)].offset \in Nat
    BY <1>6, BlocksAre
  <2> QED
    BY <2>1 DEF SpanOf
<1>8. x \in tasks[b][t]
  <2>1. tasks[b][t] \in SUBSET ((pos.tile..TileLast(pos.tile)) \X RowsRead(b, t))
    BY <1>1, <1>2
  <2>2. pos.tile..TileLast(pos.tile) \in SUBSET Nat /\ RowsRead(b, t) \in SUBSET Nat
    BY <1>5, <1>6, <1>7
  <2> QED
    BY <2>1, <2>2, FirstIs
<1> HIDE DEF x
<1>9. x = <<x[1], x[2]>> /\ x[1] \in pos.tile..TileLast(pos.tile) /\ x[2] \in RowsRead(b, t) /\ Counts(x[1], x[2])
  BY <1>1, <1>2, <1>8
<1>10. x[1] \in Features /\ x[2] \in SpanOf(call, NodeOf(b))
  BY <1>5, <1>6, <1>9
<1>11. Gradients[x[2]] \in 0..(Whole - 1)
  BY <1>6, <1>10, CallFacts
<1>12. g - Offset(pos.tile) \in 0..(TileBins(pos.tile) - 1) /\ g \in Int
  <2>1. /\ g \in 0..(Offset(Len(nBins) + 1) - 1)
        /\ \A a \in Features : (x[1] \in a..TileLast(a)) <=> (g - Offset(a) \in 0..(TileBins(a) - 1))
    BY <1>6, <1>9, <1>10, CountsFacts
  <2> QED
    BY <1>3, <1>9, <2>1
<1>13. Offset(pos.tile) \in Nat
  <2>1. pos.tile \in 1..(Len(nBins) + 1)
    BY <1>3
  <2> QED
    BY <2>1, OffsetsAre
<1>14. SharedSlot(b, t, x) = g - Offset(pos.tile)
  BY <1>1 DEF SharedSlot
<1>15. x[2] \in SlotRows(b, g)
  BY <1>9, <1>10 DEF SlotRows
<1>16. g = Offset(pos.tile) + SharedSlot(b, t, x)
  BY <1>12, <1>13, <1>14
<1> HIDE DEF g
<1>17. /\ x \in tasks[b][t] /\ x = <<x[1], x[2]>>
       /\ x[1] \in Features /\ x[1] \in pos.tile..TileLast(pos.tile)
       /\ x[2] \in RowsRead(b, t) /\ Counts(x[1], x[2]) /\ x[2] \in SpanOf(call, NodeOf(b))
       /\ SharedSlot(b, t, x) \in 0..(TileBins(pos.tile) - 1)
       /\ g = Offset(pos.tile) + SharedSlot(b, t, x)
       /\ x[2] \in SlotRows(b, g)
       /\ Gradients[x[2]] \in 0..(Whole - 1)
  BY <1>8, <1>9, <1>10, <1>11, <1>12, <1>14, <1>15, <1>16
<1> QED
  BY <1>17, Zenon DEF x, g

----------------------------------------------------------------------------
(***************************************************************************)
(* The steps of a thread within a phase                                    *)
(***************************************************************************)

LEMMA TypeKept ==
  ASSUME KernelTypeOK, Unchanged,
         lo' \in [Blocks -> [0..(SharedWords - 1) -> 0..(Radix - 1)]],
         hi' \in [Blocks -> [0..(SharedWords - 1) -> 0..(Radix - 1)]],
         place' \in [Blocks -> [Threads -> Places]],
         tasks' = [b \in Blocks |-> [t \in Threads |-> tasks'[b][t]]],
         \A b \in Blocks, t \in Threads : tasks'[b][t] \subseteq Work(b, t, place'[b][t]),
         carry' \in [Blocks -> [Threads -> {<< >>} \cup {<<c>> : c \in 0..Radix}]],
         hists' \in [DOMAIN call.spans -> [Bins -> 0..(Whole - 1)]]
  PROVE  KernelTypeOK'
<1>1. CallOK /\ nBins' = nBins /\ call' = call
  BY TypeFacts DEF Unchanged
<1>2. Blocks' = Blocks /\ SharedWords' = SharedWords /\ Threads' = Threads
  BY <1>1, BlocksFrame, TilesFrame DEF Threads
<1>3. Offset(Len(nBins) + 1)' = Offset(Len(nBins) + 1)
  BY <1>1, TilesFrame
<1>4. ASSUME NEW b \in Blocks, NEW t \in Threads
      PROVE  Work(b, t, place[b][t])' = Work(b, t, place'[b][t])
  <2>1. \A pos : Work(b, t, pos)' = Work(b, t, pos)
    BY <1>1, WorkFrame
  <2> QED
    BY <2>1
<1>5. call' \in Calls /\ nBins' = call'.nBins
  BY <1>1 DEF CallOK
<1>6. \A b \in Blocks', t \in Threads' : tasks'[b][t] \subseteq Work(b, t, place[b][t])'
  BY <1>2, <1>4
<1>7. hists' \in [DOMAIN call'.spans -> [0..(Offset(Len(nBins) + 1)' - 1) -> 0..(Whole - 1)]]
  BY <1>1, <1>3 DEF Bins
<1> QED
  BY <1>2, <1>5, <1>6, <1>7, Zenon DEF KernelTypeOK

\* A thread has done x.
LEMMA TookIs ==
  ASSUME KernelTypeOK, NEW b \in Blocks, NEW t \in Threads, NEW x, Took(b, t, x)
  PROVE  /\ tasks' = [c \in Blocks |-> [u \in Threads |-> tasks'[c][u]]]
         /\ tasks'[b][t] = tasks[b][t] \ {x}
         /\ \A u \in Threads : u # t => tasks'[b][u] = tasks[b][u]
         /\ \A c \in Blocks : c # b => tasks'[c] = tasks[c]
<1>1. tasks = [c \in Blocks |-> [u \in Threads |-> tasks[c][u]]]
  BY DEF KernelTypeOK
<1>2. tasks' = [tasks EXCEPT ![b][t] = tasks[b][t] \ {x}]
  BY DEF Took
<1> QED
  BY <1>1, <1>2

LEMMA TookWithin ==
  ASSUME KernelTypeOK, NEW b \in Blocks, NEW t \in Threads, NEW x, Took(b, t, x), UNCHANGED place
  PROVE  /\ tasks' = [c \in Blocks |-> [u \in Threads |-> tasks'[c][u]]]
         /\ \A c \in Blocks, u \in Threads : tasks'[c][u] \subseteq Work(c, u, place'[c][u])
<1>1. \A c \in Blocks, u \in Threads : tasks[c][u] \subseteq Work(c, u, place[c][u])
  BY TypeFacts
<1>2. \A c \in Blocks, u \in Threads : tasks'[c][u] \subseteq tasks[c][u]
  BY TookIs
<1> QED
  BY <1>1, <1>2, TookIs

LEMMA TasksTaken ==
  ASSUME KernelTypeOK, Unchanged, NEW b \in Blocks, NEW t \in Threads, NEW x, Took(b, t, x),
         UNCHANGED place, NEW pos, place[b][t] = pos
  PROVE  /\ TasksAt(b, t, pos)' = TasksAt(b, t, pos) \ {x}
         /\ \A u \in Threads : u # t => TasksAt(b, u, pos)' = TasksAt(b, u, pos)
<1>1. \A u \in Threads : Work(b, u, pos)' = Work(b, u, pos)
  BY TypeFacts, WorkFrame
<1> QED
  BY <1>1, TookIs DEF TasksAt

\* The other threads of the block do not notice.
LEMMA FrontKept ==
  ASSUME KernelTypeOK, Unchanged, NEW b \in Blocks, NEW pos, BlockOK(b, pos),
         UNCHANGED place, NEW t \in Threads, place[b][t] = pos,
         \A u \in Threads : u # t => tasks'[b][u] = tasks[b][u] /\ carry'[b][u] = carry[b][u]
  PROVE  PlaceOK(pos)' /\ IsFront(b, pos)'
<1>1. PlaceOK(pos)'
  BY PlaceFrame DEF BlockOK
<1>2. \A u \in Threads : Following(place[b][u])' = Following(place[b][u])
  BY TilesFrame
<1>3. IsFront(b, pos)
  BY DEF BlockOK
<1> QED
  BY <1>1, <1>2, <1>3 DEF IsFront, Threads

LEMMA OwesKept ==
  ASSUME KernelTypeOK, Unchanged, NEW b, NEW pos, pos.phase # "flush"
  PROVE  \A g : Owes(b, pos, g)' <=> Owes(b, pos, g)
<1>1. Offset(pos.tile)' = Offset(pos.tile)
  BY TilesFrame
<1> QED
  BY <1>1 DEF Owes

LEMMA ClearKeeps ==
  ASSUME NEW front \in [Blocks -> Places], KInv(front), NEW b \in Blocks, NEW t \in Threads, Clear(b, t)
  PROVE  KernelInv'
<1> DEFINE pos == front[b]
           n == TileBins(pos.tile)
           w == Min(tasks[b][t])
<1>1. KernelTypeOK /\ CallOK /\ BlockOK(b, pos) /\ pos \in Places
  BY TypeFacts DEF KInv
<1> HIDE DEF pos
<1>2. /\ Unchanged /\ tasks[b][t] # {} /\ place[b][t].phase = "clear"
      /\ UNCHANGED <<place, carry, hists>>
  BY DEF Clear, Does, Unchanged
<1>3. place[b][t] = pos /\ pos.phase = "clear" /\ TasksAt(b, t, pos) = tasks[b][t]
  BY <1>1, <1>2, ActsAtFront
<1>4. /\ lo' = IF w < n THEN [lo EXCEPT ![b][w] = 0] ELSE lo
      /\ hi' = IF w < n THEN hi ELSE [hi EXCEPT ![b][w - n] = 0]
      /\ Took(b, t, w)
  BY <1>3 DEF Clear
<1>5. w \in tasks[b][t] /\ w \in 0..(2 * n - 1)
  BY <1>1, <1>2, <1>3, MinTask
<1>6. pos.tile \in TileStarts /\ n \in Nat /\ n <= SharedWords /\ SharedWords \in Nat
  <2>1. pos.tile \in TileStarts /\ pos.tile \in Features
    BY <1>1, <1>3, PlaceFacts DEF BlockOK
  <2> QED
    BY <1>1, <2>1, SharedIs, TileIs
<1>7. /\ lo \in [Blocks -> [0..(SharedWords - 1) -> 0..(Radix - 1)]]
      /\ hi \in [Blocks -> [0..(SharedWords - 1) -> 0..(Radix - 1)]]
      /\ place \in [Blocks -> [Threads -> Places]]
      /\ carry \in [Blocks -> [Threads -> {<< >>} \cup {<<c>> : c \in 0..Radix}]]
      /\ hists \in [DOMAIN call.spans -> [Bins -> 0..(Whole - 1)]]
  BY <1>1, Zenon DEF KernelTypeOK, Bins
<1>8. 0 \in 0..(Radix - 1)
  BY RadixIs
<1> HIDE DEF n, w
<1>9. /\ lo' \in [Blocks -> [0..(SharedWords - 1) -> 0..(Radix - 1)]]
      /\ \A c \in Blocks : c # b => lo'[c] = lo[c]
      /\ \A s \in 0..(n - 1) : lo'[b][s] = IF s = w THEN 0 ELSE lo[b][s]
  <2>1. CASE w < n
    <3>1. w \in 0..(SharedWords - 1) /\ \A s \in 0..(n - 1) : s \in 0..(SharedWords - 1)
      BY <1>5, <1>6, <2>1
    <3> QED
      BY <1>4, <1>7, <1>8, <2>1, <3>1
  <2>2. CASE ~(w < n)
    <3>1. \A s \in 0..(n - 1) : s # w
      BY <1>5, <1>6, <2>2
    <3> QED
      BY <1>4, <1>7, <2>2, <3>1
  <2> QED
    BY <2>1, <2>2
<1>10. /\ hi' \in [Blocks -> [0..(SharedWords - 1) -> 0..(Radix - 1)]]
       /\ \A c \in Blocks : c # b => hi'[c] = hi[c]
       /\ \A s \in 0..(n - 1) : hi'[b][s] = IF n + s = w THEN 0 ELSE hi[b][s]
  <2>1. CASE ~(w < n)
    <3>1. /\ w - n \in 0..(SharedWords - 1) /\ w - n \in 0..(n - 1)
          /\ \A s \in 0..(n - 1) : s \in 0..(SharedWords - 1) /\ (n + s = w <=> s = w - n)
      BY <1>5, <1>6, <2>1
    <3>2. hi' = [hi EXCEPT ![b][w - n] = 0]
      BY <1>4, <2>1
    <3> DEFINE v == w - n
    <3>3. v \in 0..(SharedWords - 1) /\ hi' = [hi EXCEPT ![b][v] = 0]
      BY <3>1, <3>2
    <3> HIDE DEF v
    <3>4. /\ hi' \in [Blocks -> [0..(SharedWords - 1) -> 0..(Radix - 1)]]
          /\ \A c \in Blocks : c # b => hi'[c] = hi[c]
          /\ \A s \in 0..(SharedWords - 1) : hi'[b][s] = IF s = v THEN 0 ELSE hi[b][s]
      BY <1>7, <1>8, <3>3
    <3> QED
      BY <3>1, <3>4 DEF v
  <2>2. CASE w < n
    <3>1. \A s \in 0..(n - 1) : n + s # w
      BY <1>5, <1>6, <2>2
    <3> QED
      BY <1>4, <1>7, <2>2, <3>1
  <2> QED
    BY <2>1, <2>2
<1>11. KernelTypeOK'
  <2>1. /\ tasks' = [c \in Blocks |-> [u \in Threads |-> tasks'[c][u]]]
        /\ \A c \in Blocks, u \in Threads : tasks'[c][u] \subseteq Work(c, u, place'[c][u])
    BY <1>1, <1>2, <1>4, TookWithin
  <2> QED
    BY <1>1, <1>2, <1>7, <1>9, <1>10, <2>1, TypeKept
<1>12. OthersKept(b)
  BY <1>1, <1>2, <1>4, <1>9, <1>10, TookIs DEF OthersKept
<1>13. /\ TasksAt(b, t, pos)' = TasksAt(b, t, pos) \ {w}
       /\ \A u \in Threads : u # t => TasksAt(b, u, pos)' = TasksAt(b, u, pos)
  BY <1>1, <1>2, <1>3, <1>4, TasksTaken
<1>14. PlaceOK(pos)' /\ IsFront(b, pos)'
  BY <1>1, <1>2, <1>3, <1>4, TookIs, FrontKept
<1>15. TasksOK(b, pos)'
  <2>1. \A u \in Threads : TasksAt(b, u, pos) \subseteq Work(b, u, pos) /\ carry[b][u] = << >>
    BY <1>1, <1>3 DEF BlockOK, TasksOK
  <2>2. \A u \in Threads : Work(b, u, pos)' = Work(b, u, pos)
    BY <1>1, <1>2, WorkFrame
  <2>3. \A u \in Threads : TasksAt(b, u, pos)' \subseteq Work(b, u, pos)' /\ carry'[b][u] = << >>
    BY <1>2, <1>13, <2>1, <2>2
  <2> QED
    BY <2>3 DEF TasksOK, Threads
<1>16. Cleared(b, pos)'
  <2>1. n' = n
    BY <1>2, TilesFrame DEF n
  <2>2. Cleared(b, pos)
    BY <1>1, <1>3 DEF BlockOK
  <2> SUFFICES ASSUME NEW s \in 0..(n - 1)
               PROVE  /\ lo'[b][s] = 0 \/ \E u \in Threads : s \in TasksAt(b, u, pos)'
                      /\ hi'[b][s] = 0 \/ \E u \in Threads : n + s \in TasksAt(b, u, pos)'
    BY <2>1 DEF Cleared, Threads, n
  <2>3. /\ lo[b][s] = 0 \/ \E u \in Threads : s \in TasksAt(b, u, pos)
        /\ hi[b][s] = 0 \/ \E u \in Threads : n + s \in TasksAt(b, u, pos)
    BY <2>2 DEF Cleared, n
  <2>4. \A y : y # w => \A u \in Threads : y \in TasksAt(b, u, pos) => y \in TasksAt(b, u, pos)'
    BY <1>13
  <2>5. CASE s = w
    <3>1. n + s # w
      BY <1>6, <2>5
    <3> QED
      BY <1>9, <1>10, <2>3, <2>4, <2>5, <3>1
  <2>6. CASE n + s = w
    <3>1. s # w
      BY <1>6, <2>6
    <3> QED
      BY <1>9, <1>10, <2>3, <2>4, <2>6, <3>1
  <2>7. CASE s # w /\ n + s # w
    BY <1>9, <1>10, <2>3, <2>4, <2>7
  <2> QED
    BY <2>5, <2>6, <2>7
<1>17. BlockOK(b, pos)'
  BY <1>3, <1>14, <1>15, <1>16 DEF BlockOK
<1>18. \A g : Owes(b, pos, g)' <=> Owes(b, pos, g)
  BY <1>1, <1>2, <1>3, OwesKept
<1> QED
  BY <1>1, <1>2, <1>11, <1>12, <1>17, <1>18, InvStep DEF pos

\* The tasks and carries of one thread, and the total of the carries.
LEMMA CarriesAre ==
  ASSUME KernelTypeOK, NEW b \in Blocks, NEW g
  PROVE  /\ IsFiniteSet(Threads) /\ Carried(b, g) \in Int
         /\ \A u \in Threads : Carries(b, g)[u] \in Int
         /\ \A u \in Threads : Carries(b, g)[u] =
              IF \E x \in Begun(b, u) : Slot(x[1], x[2]) = g THEN carry[b][u][1] ELSE 0
<1>1. IsFiniteSet(Threads)
  BY LaunchParams, FS_Interval DEF Threads
<1>2. \A u \in Threads : Carries(b, g)[u] =
        IF \E x \in Begun(b, u) : Slot(x[1], x[2]) = g THEN carry[b][u][1] ELSE 0
  BY DEF Carries
<1>3. ASSUME NEW u \in Threads PROVE Carries(b, g)[u] \in Int
  <2>1. CASE \E x \in Begun(b, u) : Slot(x[1], x[2]) = g
    <3>1. carry[b][u] # << >>
      BY <2>1 DEF Begun
    <3>2. carry[b][u][1] \in 0..Radix
      BY <3>1, TypeFacts
    <3> QED
      BY <1>2, <2>1, <3>2
  <2>2. CASE ~ \E x \in Begun(b, u) : Slot(x[1], x[2]) = g
    BY <1>2, <2>2
  <2> QED
    BY <2>1, <2>2
<1>4. Carried(b, g) \in Int
  BY <1>1, <1>3, TotalStep DEF Carried
<1> QED
  BY <1>1, <1>2, <1>3, <1>4

LEMMA CarriesWillBe ==
  (KernelTypeOK => \A c \in Blocks : \A h : \A u \in Threads :
     /\ Carries(c, h)[u] \in Int
     /\ Carries(c, h)[u] = IF \E x \in Begun(c, u) : Slot(x[1], x[2]) = h THEN carry[c][u][1] ELSE 0)'
<1>1. KernelTypeOK => \A c \in Blocks : \A h : \A u \in Threads :
        /\ Carries(c, h)[u] \in Int
        /\ Carries(c, h)[u] = IF \E x \in Begun(c, u) : Slot(x[1], x[2]) = h THEN carry[c][u][1] ELSE 0
  BY CarriesAre
<1> QED
  BY <1>1, PTL

\* One thread's carry changes the total by the difference.
LEMMA CarriedChange ==
  ASSUME KernelTypeOK, KernelTypeOK', Unchanged, NEW b \in Blocks, NEW t \in Threads, NEW g,
         \A u \in Threads : u # t => tasks'[b][u] = tasks[b][u] /\ carry'[b][u] = carry[b][u]
  PROVE  /\ Carries(b, g)[t] \in Int /\ Carries(b, g)'[t] \in Int
         /\ Carried(b, g)' = Carried(b, g) + (Carries(b, g)'[t] - Carries(b, g)[t])
<1>1. /\ IsFiniteSet(Threads) /\ \A u \in Threads : Carries(b, g)[u] \in Int
      /\ \A u \in Threads : Carries(b, g)[u] =
              IF \E x \in Begun(b, u) : Slot(x[1], x[2]) = g THEN carry[b][u][1] ELSE 0
  BY CarriesAre
<1>2. (KernelTypeOK => \A c \in Blocks : \A h : \A u \in Threads :
          /\ Carries(c, h)[u] \in Int
          /\ Carries(c, h)[u] = IF \E x \in Begun(c, u) : Slot(x[1], x[2]) = h THEN carry[c][u][1] ELSE 0)'
  BY CarriesWillBe
<1>3. CallOK /\ Blocks' = Blocks /\ Threads' = Threads
  BY TypeFacts, BlocksFrame DEF Threads
<1>4. \A u \in Threads :
          /\ Carries(b, g)'[u] \in Int
          /\ Carries(b, g)'[u] =
               IF \E x \in Begun(b, u)' : Slot(x[1], x[2])' = g THEN carry'[b][u][1] ELSE 0
  BY <1>2, <1>3
<1>5. \A u \in Threads : u # t => Begun(b, u)' = Begun(b, u)
  BY DEF Begun
<1>6. \A x : Slot(x[1], x[2])' = Slot(x[1], x[2])
  BY <1>3, BlocksFrame
<1>7. \A u \in Threads \ {t} : Carries(b, g)'[u] = Carries(b, g)[u]
  BY <1>1, <1>4, <1>5, <1>6
<1>8. Total(Carries(b, g)', Threads) = Total(Carries(b, g), Threads) + (Carries(b, g)'[t] - Carries(b, g)[t])
  BY <1>1, <1>4, <1>7, TotalChange
<1> QED
  BY <1>1, <1>3, <1>4, <1>8 DEF Carried

\* Rows of the block that belong to one bin have it from one feature and one thread.
LEMMA OneTask ==
  ASSUME CallOK, NEW b \in Blocks, NEW pos, BlockOK(b, pos), pos.phase = "add",
         NEW t \in Threads, NEW u \in Threads, NEW f, NEW e \in Features, NEW p,
         Counts(f, p), p \in RowsRead(b, t), <<e, p>> \in TasksAt(b, u, pos), Slot(e, p) = Slot(f, p)
  PROVE  u = t /\ e = f
<1>1. /\ TasksAt(b, u, pos) \subseteq Work(b, u, pos)
      /\ Work(b, u, pos) = {x \in (pos.tile..TileLast(pos.tile)) \X RowsRead(b, u) : Counts(x[1], x[2])}
  BY WorkIs DEF BlockOK, TasksOK
<1>2. p \in RowsRead(b, u) /\ Counts(e, p)
  BY <1>1
<1>3. u = t
  BY <1>2, RowsApart
<1>4. NodeOf(b) \in DOMAIN call.spans /\ p \in SpanOf(call, NodeOf(b))
  BY NodeIs, BlocksAre, RowsReadAre
<1>5. e = f
  BY <1>2, <1>4, CountsFacts
<1> QED
  BY <1>3, <1>5

LEMMA AddLowKeeps ==
  ASSUME NEW front \in [Blocks -> Places], KInv(front), NEW b \in Blocks, NEW t \in Threads, AddLow(b, t)
  PROVE  KernelInv'
<1> DEFINE pos == front[b]
           n == TileBins(pos.tile)
           x == First(tasks[b][t])
           f == x[1]
           p == x[2]
           s == SharedSlot(b, t, x)
           r == Gradients[p]
           c == (r \div Radix) + IF lo[b][s] > Radix - 1 - (r % Radix) THEN 1 ELSE 0
<1>1. KernelTypeOK /\ CallOK /\ BlockOK(b, pos) /\ pos \in Places
  BY TypeFacts DEF KInv
<1> HIDE DEF pos
<1>2. /\ Unchanged /\ tasks[b][t] # {} /\ place[b][t].phase = "add" /\ carry[b][t] = << >>
      /\ UNCHANGED <<hi, place, tasks, hists>>
      /\ lo' = [lo EXCEPT ![b][s] = (lo[b][s] + (r % Radix)) % Radix]
      /\ carry' = [carry EXCEPT ![b][t] = <<c>>]
  BY DEF AddLow, Does, Unchanged
<1>3. place[b][t] = pos /\ pos.phase = "add" /\ TasksAt(b, t, pos) = tasks[b][t]
  BY <1>1, <1>2, ActsAtFront
<1>4. /\ x \in tasks[b][t] /\ x = <<f, p>> /\ f \in Features /\ p \in RowsRead(b, t) /\ Counts(f, p)
      /\ p \in SpanOf(call, NodeOf(b)) /\ s \in 0..(n - 1) /\ Slot(f, p) = Offset(pos.tile) + s
      /\ p \in SlotRows(b, Slot(f, p)) /\ r \in 0..(Whole - 1)
  BY <1>1, <1>2, <1>3, FirstTask
<1>5. pos.tile \in TileStarts /\ n \in Nat /\ n <= SharedWords /\ SharedWords \in Nat
  <2>1. pos.tile \in TileStarts /\ pos.tile \in Features
    BY <1>1, <1>3, PlaceFacts DEF BlockOK
  <2> QED
    BY <1>1, <2>1, SharedIs, TileIs
<1>6. /\ lo \in [Blocks -> [0..(SharedWords - 1) -> 0..(Radix - 1)]]
      /\ hi \in [Blocks -> [0..(SharedWords - 1) -> 0..(Radix - 1)]]
      /\ place \in [Blocks -> [Threads -> Places]]
      /\ tasks = [d \in Blocks |-> [u \in Threads |-> tasks[d][u]]]
      /\ carry \in [Blocks -> [Threads -> {<< >>} \cup {<<d>> : d \in 0..Radix}]]
      /\ hists \in [DOMAIN call.spans -> [Bins -> 0..(Whole - 1)]]
  BY <1>1, Zenon DEF KernelTypeOK, Bins
<1>7. \A i \in 0..(n - 1) : i \in 0..(SharedWords - 1)
  BY <1>5
<1>8. /\ (lo[b][s] + (r % Radix)) % Radix \in 0..(Radix - 1) /\ c \in 0..Radix
      /\ ((lo[b][s] + (r % Radix)) % Radix) + Radix * c = lo[b][s] + r
  <2>1. lo[b][s] \in 0..(Radix - 1)
    BY <1>1, <1>4, <1>7, TypeFacts
  <2> HIDE DEF r, s
  <2> QED
    BY <1>4, <2>1, LowerHalf DEF c
<1> HIDE DEF n, x, f, p, s, r, c
<1> DEFINE l == (lo[b][s] + (r % Radix)) % Radix
<1>9. lo' = [lo EXCEPT ![b][s] = l]
  BY <1>2
<1>10. l \in 0..(Radix - 1) /\ l + Radix * c = lo[b][s] + r
  BY <1>8
<1> HIDE DEF l
<1>11. /\ lo' \in [Blocks -> [0..(SharedWords - 1) -> 0..(Radix - 1)]]
       /\ \A d \in Blocks : d # b => lo'[d] = lo[d]
       /\ \A i \in 0..(n - 1) : lo'[b][i] = IF i = s THEN l ELSE lo[b][i]
  BY <1>4, <1>6, <1>7, <1>9, <1>10
<1>12. /\ carry' \in [Blocks -> [Threads -> {<< >>} \cup {<<d>> : d \in 0..Radix}]]
       /\ \A d \in Blocks : d # b => carry'[d] = carry[d]
       /\ carry'[b][t] = <<c>> /\ \A u \in Threads : u # t => carry'[b][u] = carry[b][u]
  <2>1. <<c>> \in {<< >>} \cup {<<d>> : d \in 0..Radix}
    BY <1>8
  <2> QED
    BY <1>2, <1>6, <2>1
<1>13. KernelTypeOK'
  <2>1. \A d \in Blocks, u \in Threads : tasks'[d][u] \subseteq Work(d, u, place'[d][u])
    BY <1>1, <1>2, TypeFacts
  <2>2. tasks' = [d \in Blocks |-> [u \in Threads |-> tasks'[d][u]]]
    BY <1>2, <1>6
  <2> QED
    BY <1>1, <1>2, <1>6, <1>11, <1>12, <2>1, <2>2, TypeKept
<1>14. OthersKept(b)
  BY <1>2, <1>11, <1>12 DEF OthersKept
<1>15. \A u \in Threads : TasksAt(b, u, pos)' = TasksAt(b, u, pos)
  <2>1. \A u \in Threads : Work(b, u, pos)' = Work(b, u, pos)
    BY <1>1, <1>2, WorkFrame
  <2> QED
    BY <1>2, <2>1 DEF TasksAt
<1>16. PlaceOK(pos)' /\ IsFront(b, pos)'
  BY <1>1, <1>2, <1>3, <1>12, FrontKept
<1>17. TasksOK(b, pos)'
  <2>1. \A u \in Threads :
          /\ TasksAt(b, u, pos) \subseteq Work(b, u, pos)
          /\ carry[b][u] # << >> => place[b][u] = pos /\ pos.phase = "add" /\ tasks[b][u] # {}
    BY <1>1 DEF BlockOK, TasksOK
  <2>2. \A u \in Threads : Work(b, u, pos)' = Work(b, u, pos)
    BY <1>1, <1>2, WorkFrame
  <2>3. \A u \in Threads :
          /\ TasksAt(b, u, pos)' \subseteq Work(b, u, pos)'
          /\ carry'[b][u] # << >> => place'[b][u] = pos /\ pos.phase = "add" /\ tasks'[b][u] # {}
    BY <1>2, <1>3, <1>12, <1>15, <2>1, <2>2
  <2> QED
    BY <2>3 DEF TasksOK, Threads
<1>18. /\ Begun(b, t) = {} /\ Begun(b, t)' = {x}
       /\ \A u \in Threads : u # t => Begun(b, u)' = Begun(b, u)
  <2>1. Begun(b, t) = {}
    BY <1>2 DEF Begun
  <2>2. Begun(b, t)' = {First(tasks'[b][t])}
    BY <1>12 DEF Begun
  <2>3. \A u \in Threads : u # t => Begun(b, u)' = Begun(b, u)
    BY <1>2, <1>12 DEF Begun
  <2> QED
    BY <1>2, <2>1, <2>2, <2>3 DEF x
<1>19. /\ \A g : SlotRows(b, g)' = SlotRows(b, g)
       /\ \A S : GradSum(S)' = GradSum(S)
       /\ \A e, q : Slot(e, q)' = Slot(e, q)
       /\ Features' = Features /\ Threads' = Threads
       /\ Offset(pos.tile)' = Offset(pos.tile) /\ TileBins(pos.tile)' = n
  BY <1>1, <1>2, WorkFrame, BlocksFrame, TilesFrame DEF Threads, n
<1>20. ASSUME NEW g PROVE Carried(b, g) \in Int /\ Carried(b, g)' = Carried(b, g) + IF g = Slot(f, p) THEN c ELSE 0
  <2>1. /\ Carries(b, g)[t] \in Int /\ Carries(b, g)'[t] \in Int
        /\ Carried(b, g)' = Carried(b, g) + (Carries(b, g)'[t] - Carries(b, g)[t])
    BY <1>1, <1>2, <1>12, <1>13, CarriedChange
  <2>2. Carries(b, g)[t] = 0 /\ Carried(b, g) \in Int
    BY <1>1, <1>18, CarriesAre
  <2>3. Carries(b, g)'[t] = IF g = Slot(f, p) THEN c ELSE 0
    <3>1. Carries(b, g)'[t] = IF \E y \in Begun(b, t)' : Slot(y[1], y[2])' = g THEN carry'[b][t][1] ELSE 0
      BY <1>19 DEF Carries
    <3>2. (\E y \in Begun(b, t)' : Slot(y[1], y[2])' = g) <=> g = Slot(f, p)
      BY <1>18, <1>19 DEF f, p
    <3> QED
      BY <1>12, <3>1, <3>2
  <2> QED
    BY <2>1, <2>2, <2>3
<1>21. ASSUME NEW g
       PROVE  ToCome(b, pos, g)' = IF g = Slot(f, p) THEN ToCome(b, pos, g) \ {p} ELSE ToCome(b, pos, g)
  <2>1. ToCome(b, pos, g)' =
          {q \in SlotRows(b, g) : \E u \in Threads, e \in Features :
             <<e, q>> \in TasksAt(b, u, pos) \ Begun(b, u)' /\ Slot(e, q) = g}
    <3>1. ToCome(b, pos, g)' =
            {q \in SlotRows(b, g)' : \E u \in Threads', e \in Features' :
               <<e, q>> \in TasksAt(b, u, pos)' \ Begun(b, u)' /\ Slot(e, q)' = g}
      BY Zenon DEF ToCome
    <3> DEFINE P(q) == \E u \in Threads', e \in Features' :
                         <<e, q>> \in TasksAt(b, u, pos)' \ Begun(b, u)' /\ Slot(e, q)' = g
               Q(q) == \E u \in Threads, e \in Features :
                         <<e, q>> \in TasksAt(b, u, pos) \ Begun(b, u)' /\ Slot(e, q) = g
    <3>2. \A q : P(q) <=> Q(q)
      BY <1>15, <1>19
    <3>3. ToCome(b, pos, g)' = {q \in SlotRows(b, g)' : P(q)}
      BY <3>1
    <3> HIDE DEF P, Q
    <3>4. ToCome(b, pos, g)' = {q \in SlotRows(b, g) : Q(q)}
      BY <1>19, <3>2, <3>3
    <3> QED
      BY <3>4 DEF Q
  <2>2. \A u \in Threads : \A q, e :
          (<<e, q>> \in TasksAt(b, u, pos) \ Begun(b, u)') <=>
             (<<e, q>> \in TasksAt(b, u, pos) \ Begun(b, u) /\ ~(u = t /\ e = f /\ q = p))
    BY <1>4, <1>18
  <2>3. \A e \in Features, u \in Threads :
          <<e, p>> \in TasksAt(b, u, pos) /\ Slot(e, p) = Slot(f, p) => u = t /\ e = f
    BY <1>1, <1>3, <1>4, OneTask
  <2> QED
    BY <2>1, <2>2, <2>3 DEF ToCome
<1>22. p \in ToCome(b, pos, Slot(f, p))
  <2>1. <<f, p>> \in TasksAt(b, t, pos) \ Begun(b, t)
    BY <1>3, <1>4, <1>18
  <2> QED
    BY <1>4, <2>1 DEF ToCome
<1>23. \A g : /\ ToCome(b, pos, g) \in SUBSET SpanOf(call, NodeOf(b))
               /\ SlotRows(b, g) \in SUBSET SpanOf(call, NodeOf(b))
  <2>1. \A g : SlotRows(b, g) \in SUBSET NodeRows(NodeOf(b), g)
    BY <1>1, SlotRowsAre
  <2> QED
    BY <2>1 DEF ToCome, NodeRows
<1>24. Added(b, pos)'
  <2> SUFFICES ASSUME NEW i \in 0..(n - 1), NEW g, g = Offset(pos.tile) + i
               PROVE  Same(lo'[b][i] + Radix * (hi'[b][i] + Carried(b, g)') + GradSum(ToCome(b, pos, g)'),
                           GradSum(SlotRows(b, g)))
    BY <1>19 DEF Added
  <2>1. Same(lo[b][i] + Radix * (hi[b][i] + Carried(b, g)) + GradSum(ToCome(b, pos, g)),
             GradSum(SlotRows(b, g)))
    BY <1>1, <1>3 DEF BlockOK, Added, n
  <2>2. (g = Slot(f, p)) <=> (i = s)
    <3>1. Offset(pos.tile) \in Nat
      <4>1. pos.tile \in 1..(Len(nBins) + 1)
        BY <1>1, PlaceFacts DEF BlockOK
      <4> QED
        BY <1>1, <4>1, OffsetsAre
    <3> QED
      BY <1>4, <3>1
  <2>3. CASE i # s
    <3>1. /\ lo'[b][i] = lo[b][i] /\ hi'[b][i] = hi[b][i]
          /\ Carried(b, g)' = Carried(b, g) /\ ToCome(b, pos, g)' = ToCome(b, pos, g)
      BY <1>2, <1>11, <1>20, <1>21, <2>2, <2>3
    <3> QED
      BY <2>1, <3>1
  <2>4. CASE i = s
    <3>1. lo'[b][i] = l /\ hi'[b][i] = hi[b][i] /\ g = Slot(f, p)
      BY <1>2, <1>11, <2>2, <2>4
    <3>2. Carried(b, g)' = Carried(b, g) + c /\ ToCome(b, pos, g)' = ToCome(b, pos, g) \ {p} /\ Carried(b, g) \in Int
      BY <1>20, <1>21, <3>1
    <3>3. GradSum(ToCome(b, pos, g)) = r + GradSum(ToCome(b, pos, g) \ {p})
          /\ GradSum(ToCome(b, pos, g) \ {p}) \in Int
      <4>1. NodeOf(b) \in DOMAIN call.spans
        BY <1>1, NodeIs, BlocksAre
      <4>2. p \in ToCome(b, pos, g) /\ ToCome(b, pos, g) \ {p} \in SUBSET SpanOf(call, NodeOf(b))
        BY <1>22, <1>23, <3>1
      <4>3. GradSum(ToCome(b, pos, g) \ {p}) \in Nat
        BY <1>1, <4>1, <4>2, GradSums
      <4>4. GradSum(ToCome(b, pos, g)) = Gradients[p] + GradSum(ToCome(b, pos, g) \ {p})
        BY <1>1, <1>4, <1>23, <4>1, <4>2, GradSums
      <4> QED
        BY <4>3, <4>4 DEF r
    <3> DEFINE C == Carried(b, g)
               G == GradSum(ToCome(b, pos, g) \ {p})
               h == hi[b][s]
               L == lo[b][s]
    <3>4. C \in Int /\ G \in Int /\ h \in Int /\ L \in Int /\ r \in Int /\ c \in Int /\ l \in Int /\ Radix \in Int
      <4>1. h \in 0..(Radix - 1) /\ L \in 0..(Radix - 1)
        BY <1>1, <1>4, <1>7, TypeFacts
      <4> QED
        BY <1>4, <1>8, <1>10, <3>2, <3>3, <4>1, RadixIs
    <3> HIDE DEF C, G, h, L
    <3>5. l + Radix * (h + (C + c)) + G = L + Radix * (h + C) + (r + G)
      <4>1. Radix * (h + (C + c)) = Radix * (h + C) + Radix * c /\ Radix * (h + C) \in Int /\ Radix * c \in Int
        BY <3>4
      <4>2. l + Radix * c = L + r
        BY <1>10 DEF L
      <4> QED
        BY <3>4, <4>1, <4>2
    <3>6. Same(L + Radix * (h + C) + (r + G), GradSum(SlotRows(b, g)))
      BY <2>1, <2>4, <3>3 DEF C, G, h, L
    <3>7. Same(l + Radix * (h + (C + c)) + G, GradSum(SlotRows(b, g)))
      BY <3>5, <3>6
    <3> QED
      BY <2>4, <3>1, <3>2, <3>7 DEF C, G, h
  <2> QED
    BY <2>3, <2>4
<1>25. BlockOK(b, pos)'
  BY <1>3, <1>16, <1>17, <1>24 DEF BlockOK
<1>26. \A g : Owes(b, pos, g)' <=> Owes(b, pos, g)
  BY <1>1, <1>2, <1>3, OwesKept
<1> QED
  BY <1>1, <1>2, <1>13, <1>14, <1>25, <1>26, InvStep DEF pos

LEMMA AddHighKeeps ==
  ASSUME NEW front \in [Blocks -> Places], KInv(front), NEW b \in Blocks, NEW t \in Threads, AddHigh(b, t)
  PROVE  KernelInv'
<1> DEFINE pos == front[b]
           n == TileBins(pos.tile)
           x == First(tasks[b][t])
           f == x[1]
           p == x[2]
           s == SharedSlot(b, t, x)
           c == carry[b][t][1]
           h == (hi[b][s] + c) % Radix
<1>1. KernelTypeOK /\ CallOK /\ BlockOK(b, pos) /\ pos \in Places
  BY TypeFacts DEF KInv
<1> HIDE DEF pos
<1>2. /\ Unchanged /\ tasks[b][t] # {} /\ place[b][t].phase = "add" /\ carry[b][t] # << >>
      /\ UNCHANGED <<lo, place, hists>>
      /\ hi' = [hi EXCEPT ![b][s] = h]
      /\ carry' = [carry EXCEPT ![b][t] = << >>]
      /\ Took(b, t, x)
  BY DEF AddHigh, Does, Unchanged
<1>3. place[b][t] = pos /\ pos.phase = "add" /\ TasksAt(b, t, pos) = tasks[b][t]
  BY <1>1, <1>2, ActsAtFront
<1>4. x = <<f, p>> /\ s \in 0..(n - 1) /\ Slot(f, p) = Offset(pos.tile) + s
  BY <1>1, <1>2, <1>3, FirstTask
<1>5. pos.tile \in TileStarts /\ n \in Nat /\ n <= SharedWords /\ SharedWords \in Nat
  <2>1. pos.tile \in TileStarts /\ pos.tile \in Features
    BY <1>1, <1>3, PlaceFacts DEF BlockOK
  <2> QED
    BY <1>1, <2>1, SharedIs, TileIs
<1>6. /\ lo \in [Blocks -> [0..(SharedWords - 1) -> 0..(Radix - 1)]]
      /\ hi \in [Blocks -> [0..(SharedWords - 1) -> 0..(Radix - 1)]]
      /\ place \in [Blocks -> [Threads -> Places]]
      /\ carry \in [Blocks -> [Threads -> {<< >>} \cup {<<d>> : d \in 0..Radix}]]
      /\ hists \in [DOMAIN call.spans -> [Bins -> 0..(Whole - 1)]]
  BY <1>1, Zenon DEF KernelTypeOK, Bins
<1>7. \A i \in 0..(n - 1) : i \in 0..(SharedWords - 1)
  BY <1>5
<1>8. hi[b][s] \in 0..(Radix - 1) /\ c \in 0..Radix /\ Radix \in Nat
  BY <1>1, <1>2, <1>4, <1>6, <1>7, TypeFacts, RadixIs
<1>9. h \in 0..(Radix - 1) /\ Same(Radix * h, Radix * (hi[b][s] + c))
  <2> DEFINE y == hi[b][s] + c
  <2>1. y \in Int
    BY <1>8
  <2> HIDE DEF y
  <2> QED
    BY <2>1, UpperHalf DEF y
<1> HIDE DEF n, x, f, p, s, c, h
<1>10. /\ hi' \in [Blocks -> [0..(SharedWords - 1) -> 0..(Radix - 1)]]
       /\ \A d \in Blocks : d # b => hi'[d] = hi[d]
       /\ \A i \in 0..(n - 1) : hi'[b][i] = IF i = s THEN h ELSE hi[b][i]
  BY <1>2, <1>4, <1>6, <1>7, <1>9
<1>11. /\ carry' \in [Blocks -> [Threads -> {<< >>} \cup {<<d>> : d \in 0..Radix}]]
       /\ \A d \in Blocks : d # b => carry'[d] = carry[d]
       /\ carry'[b][t] = << >> /\ \A u \in Threads : u # t => carry'[b][u] = carry[b][u]
  BY <1>2, <1>6
<1>12. KernelTypeOK'
  <2>1. /\ tasks' = [d \in Blocks |-> [u \in Threads |-> tasks'[d][u]]]
        /\ \A d \in Blocks, u \in Threads : tasks'[d][u] \subseteq Work(d, u, place'[d][u])
    BY <1>1, <1>2, TookWithin
  <2> QED
    BY <1>1, <1>2, <1>6, <1>10, <1>11, <2>1, TypeKept
<1>13. /\ tasks'[b][t] = tasks[b][t] \ {x}
       /\ \A u \in Threads : u # t => tasks'[b][u] = tasks[b][u]
       /\ \A d \in Blocks : d # b => tasks'[d] = tasks[d]
  BY <1>1, <1>2, TookIs
<1>14. OthersKept(b)
  BY <1>2, <1>10, <1>11, <1>13 DEF OthersKept
<1>15. /\ TasksAt(b, t, pos)' = TasksAt(b, t, pos) \ {x}
       /\ \A u \in Threads : u # t => TasksAt(b, u, pos)' = TasksAt(b, u, pos)
  BY <1>1, <1>2, <1>3, TasksTaken
<1>16. PlaceOK(pos)' /\ IsFront(b, pos)'
  BY <1>1, <1>2, <1>3, <1>11, <1>13, FrontKept
<1>17. TasksOK(b, pos)'
  <2>1. \A u \in Threads :
          /\ TasksAt(b, u, pos) \subseteq Work(b, u, pos)
          /\ carry[b][u] # << >> => place[b][u] = pos /\ pos.phase = "add" /\ tasks[b][u] # {}
    BY <1>1 DEF BlockOK, TasksOK
  <2>2. \A u \in Threads : Work(b, u, pos)' = Work(b, u, pos)
    BY <1>1, <1>2, WorkFrame
  <2>3. \A u \in Threads : TasksAt(b, u, pos)' \subseteq TasksAt(b, u, pos)
    BY <1>15
  <2>4. \A u \in Threads :
          /\ TasksAt(b, u, pos)' \subseteq Work(b, u, pos)'
          /\ carry'[b][u] # << >> => place'[b][u] = pos /\ pos.phase = "add" /\ tasks'[b][u] # {}
    BY <1>2, <1>11, <1>13, <2>1, <2>2, <2>3
  <2> QED
    BY <2>4 DEF TasksOK, Threads
<1>18. /\ Begun(b, t) = {x} /\ Begun(b, t)' = {}
       /\ \A u \in Threads : u # t => Begun(b, u)' = Begun(b, u)
  <2>1. Begun(b, t) = {x}
    BY <1>2 DEF Begun, x
  <2>2. Begun(b, t)' = {}
    BY <1>11 DEF Begun
  <2>3. \A u \in Threads : u # t => Begun(b, u)' = Begun(b, u)
    BY <1>11, <1>13 DEF Begun
  <2> QED
    BY <2>1, <2>2, <2>3
<1>19. /\ \A g : SlotRows(b, g)' = SlotRows(b, g)
       /\ \A S : GradSum(S)' = GradSum(S)
       /\ \A e, q : Slot(e, q)' = Slot(e, q)
       /\ Features' = Features /\ Threads' = Threads
       /\ Offset(pos.tile)' = Offset(pos.tile) /\ TileBins(pos.tile)' = n
  BY <1>1, <1>2, WorkFrame, BlocksFrame, TilesFrame DEF Threads, n
<1>20. ASSUME NEW g
       PROVE  /\ Carried(b, g) \in Int /\ Carried(b, g)' \in Int
              /\ Carried(b, g) = Carried(b, g)' + IF g = Slot(f, p) THEN c ELSE 0
  <2>1. /\ Carries(b, g)[t] \in Int /\ Carries(b, g)'[t] \in Int
        /\ Carried(b, g)' = Carried(b, g) + (Carries(b, g)'[t] - Carries(b, g)[t])
    BY <1>1, <1>2, <1>11, <1>12, <1>13, CarriedChange
  <2>2. Carries(b, g)[t] = (IF g = Slot(f, p) THEN c ELSE 0) /\ Carried(b, g) \in Int
    <3>1. Carries(b, g)[t] = (IF \E y \in Begun(b, t) : Slot(y[1], y[2]) = g THEN carry[b][t][1] ELSE 0)
          /\ Carried(b, g) \in Int
      BY <1>1, CarriesAre
    <3>2. (\E y \in Begun(b, t) : Slot(y[1], y[2]) = g) <=> g = Slot(f, p)
      BY <1>18 DEF f, p
    <3> QED
      BY <3>1, <3>2 DEF c
  <2>3. Carries(b, g)'[t] = 0
    <3>1. Carries(b, g)'[t] = IF \E y \in Begun(b, t)' : Slot(y[1], y[2])' = g THEN carry'[b][t][1] ELSE 0
      BY <1>19 DEF Carries
    <3> QED
      BY <1>18, <3>1
  <2> QED
    BY <1>8, <2>1, <2>2, <2>3
<1>21. ASSUME NEW g PROVE ToCome(b, pos, g)' = ToCome(b, pos, g)
  <2>1. \A u \in Threads : TasksAt(b, u, pos)' \ Begun(b, u)' = TasksAt(b, u, pos) \ Begun(b, u)
    <3>1. TasksAt(b, t, pos)' \ Begun(b, t)' = TasksAt(b, t, pos) \ Begun(b, t)
      BY <1>15, <1>18
    <3> QED
      BY <1>15, <1>18, <3>1
  <2>2. ToCome(b, pos, g)' =
          {q \in SlotRows(b, g)' : \E u \in Threads', e \in Features' :
             <<e, q>> \in TasksAt(b, u, pos)' \ Begun(b, u)' /\ Slot(e, q)' = g}
    BY Zenon DEF ToCome
  <2> DEFINE P(q) == \E u \in Threads', e \in Features' :
                       <<e, q>> \in TasksAt(b, u, pos)' \ Begun(b, u)' /\ Slot(e, q)' = g
             Q(q) == \E u \in Threads, e \in Features :
                       <<e, q>> \in TasksAt(b, u, pos) \ Begun(b, u) /\ Slot(e, q) = g
  <2>3. \A q : P(q) <=> Q(q)
    BY <1>19, <2>1
  <2>4. ToCome(b, pos, g)' = {q \in SlotRows(b, g)' : P(q)} /\ ToCome(b, pos, g) = {q \in SlotRows(b, g) : Q(q)}
    BY <2>2, Zenon DEF ToCome
  <2> HIDE DEF P, Q
  <2> QED
    BY <1>19, <2>3, <2>4
<1>22. Added(b, pos)'
  <2> SUFFICES ASSUME NEW i \in 0..(n - 1), NEW g, g = Offset(pos.tile) + i
               PROVE  Same(lo'[b][i] + Radix * (hi'[b][i] + Carried(b, g)') + GradSum(ToCome(b, pos, g)'),
                           GradSum(SlotRows(b, g)))
    BY <1>19 DEF Added
  <2>1. Same(lo[b][i] + Radix * (hi[b][i] + Carried(b, g)) + GradSum(ToCome(b, pos, g)),
             GradSum(SlotRows(b, g)))
    BY <1>1, <1>3 DEF BlockOK, Added, n
  <2>2. (g = Slot(f, p)) <=> (i = s)
    <3>1. Offset(pos.tile) \in Nat
      <4>1. pos.tile \in 1..(Len(nBins) + 1)
        BY <1>1, PlaceFacts DEF BlockOK
      <4> QED
        BY <1>1, <4>1, OffsetsAre
    <3> QED
      BY <1>4, <3>1
  <2>3. CASE i # s
    <3>1. /\ lo'[b][i] = lo[b][i] /\ hi'[b][i] = hi[b][i]
          /\ Carried(b, g)' = Carried(b, g) /\ ToCome(b, pos, g)' = ToCome(b, pos, g)
      BY <1>2, <1>10, <1>20, <1>21, <2>2, <2>3
    <3> QED
      BY <2>1, <3>1
  <2>4. CASE i = s
    <3>1. lo'[b][i] = lo[b][i] /\ hi'[b][i] = h /\ g = Slot(f, p)
      BY <1>2, <1>10, <2>2, <2>4
    <3>2. Carried(b, g) = Carried(b, g)' + c /\ ToCome(b, pos, g)' = ToCome(b, pos, g)
          /\ Carried(b, g) \in Int /\ Carried(b, g)' \in Int
      BY <1>20, <1>21, <3>1
    <3>3. GradSum(ToCome(b, pos, g)) \in Int /\ GradSum(SlotRows(b, g)) \in Int
      <4>1. NodeOf(b) \in DOMAIN call.spans
        BY <1>1, NodeIs, BlocksAre
      <4>2. SlotRows(b, g) \in SUBSET SpanOf(call, NodeOf(b))
        <5>1. SlotRows(b, g) \in SUBSET NodeRows(NodeOf(b), g)
          BY <1>1, SlotRowsAre
        <5> QED
          BY <5>1 DEF NodeRows
      <4>3. ToCome(b, pos, g) \in SUBSET SpanOf(call, NodeOf(b))
        BY <4>2 DEF ToCome
      <4> QED
        BY <1>1, <4>1, <4>2, <4>3, GradSums
    <3> DEFINE C == Carried(b, g)
               D == Carried(b, g)'
               G == GradSum(ToCome(b, pos, g))
               T == GradSum(SlotRows(b, g))
               H == hi[b][s]
               L == lo[b][s]
    <3>4. C \in Int /\ D \in Int /\ G \in Int /\ T \in Int /\ H \in Int /\ L \in Int
          /\ c \in Int /\ h \in Int /\ Radix \in Int /\ C = D + c
      <4>1. L \in 0..(Radix - 1)
        BY <1>1, <1>4, <1>7, TypeFacts
      <4> QED
        BY <1>8, <1>9, <3>2, <3>3, <4>1
    <3>5. Same(L + Radix * (H + C) + G, T)
      BY <2>1, <2>4
    <3>6. Same(Radix * h, Radix * (H + c))
      BY <1>9
    <3> HIDE DEF C, D, G, T, H, L
    <3> DEFINE M == Radix * h
               N == Radix * (H + c)
               R == Radix * D
    <3>7. M \in Int /\ N \in Int /\ R \in Int /\ Radix * (h + D) = M + R /\ Radix * (H + C) = N + R
      BY <3>4
    <3> HIDE DEF M, N, R
    <3>8. Same(M + (L + R + G), N + (L + R + G))
      <4>1. L + R + G \in Int
        BY <3>4, <3>7
      <4>2. Same(M, N)
        BY <3>6 DEF M, N
      <4> QED
        BY <3>7, <4>1, <4>2, SameFacts
    <3>9. L + Radix * (h + D) + G = M + (L + R + G) /\ L + Radix * (H + C) + G = N + (L + R + G)
          /\ M + (L + R + G) \in Int /\ N + (L + R + G) \in Int
      BY <3>4, <3>7
    <3>10. Same(N + (L + R + G), T)
      BY <3>5, <3>9
    <3>11. Same(M + (L + R + G), T)
      BY <3>4, <3>8, <3>9, <3>10, SameFacts
    <3>12. Same(L + Radix * (h + D) + G, T)
      BY <3>9, <3>11
    <3> QED
      BY <2>4, <3>1, <3>2, <3>12 DEF D, G, T, L
  <2> QED
    BY <2>3, <2>4
<1>23. BlockOK(b, pos)'
  BY <1>3, <1>16, <1>17, <1>22 DEF BlockOK
<1>24. \A g : Owes(b, pos, g)' <=> Owes(b, pos, g)
  BY <1>1, <1>2, <1>3, OwesKept
<1> QED
  BY <1>1, <1>2, <1>12, <1>14, <1>23, <1>24, InvStep DEF pos

\* The bins of a tile are bins of the histogram.
LEMMA TileInBins ==
  ASSUME CallOK, NEW f \in Features
  PROVE  /\ Offset(f) \in Nat /\ TileBins(f) \in Nat /\ Offset(Len(nBins) + 1) \in Nat
         /\ \A s \in 0..(TileBins(f) - 1) : Offset(f) + s \in Bins
<1>1. Len(nBins) \in Nat /\ Features = 1..Len(nBins)
  BY CallFacts
<1>2. TileLast(f) \in f..Len(nBins) /\ TileBins(f) \in Nat
  BY TileIs
<1> DEFINE N == Len(nBins) + 1
           l == TileLast(f) + 1
<1>3. f \in 1..N /\ l \in 1..N /\ N \in 1..N /\ l <= N
  BY <1>1, <1>2
<1> HIDE DEF N, l
<1>4. Offset(f) \in Nat /\ Offset(l) \in Nat /\ Offset(N) \in Nat /\ Offset(l) <= Offset(N)
  BY <1>3, OffsetsAre DEF N
<1>5. Offset(l) = Offset(f) + TileBins(f)
  BY OffsetsAre DEF l
<1>6. \A s \in 0..(TileBins(f) - 1) : Offset(f) + s \in 0..(Offset(N) - 1)
  BY <1>2, <1>4, <1>5
<1> QED
  BY <1>2, <1>4, <1>6 DEF Bins, N

\* The even words of a tile, one for each of its sums.
LEMMA EvenWord ==
  ASSUME NEW n \in Nat, NEW w \in 0..(2 * n - 1), w % 2 = 0
  PROVE  w \div 2 \in 0..(n - 1) /\ w = 2 * (w \div 2)
OBVIOUS

LEMMA FlushKeeps ==
  ASSUME NEW front \in [Blocks -> Places], KInv(front), NEW b \in Blocks, NEW t \in Threads, Flush(b, t)
  PROVE  KernelInv'
<1> DEFINE pos == front[b]
           n == TileBins(pos.tile)
           w == Min(tasks[b][t])
           s == w \div 2
           g == Offset(pos.tile) + s
           v == lo[b][s] + Radix * hi[b][s]
           k == NodeOf(b)
<1>1. KernelTypeOK /\ CallOK /\ BlockOK(b, pos) /\ pos \in Places
  BY TypeFacts DEF KInv
<1> HIDE DEF pos
<1>2. /\ Unchanged /\ tasks[b][t] # {} /\ place[b][t].phase = "flush"
      /\ UNCHANGED <<lo, hi, place, carry>>
      /\ Took(b, t, w)
  BY DEF Flush, Does, Unchanged
<1>3. place[b][t] = pos /\ pos.phase = "flush" /\ TasksAt(b, t, pos) = tasks[b][t]
  BY <1>1, <1>2, ActsAtFront
<1>4. hists' = [hists EXCEPT ![k][g] = (hists[k][g] + v) % Whole]
  BY <1>3 DEF Flush
<1>5. w \in tasks[b][t] /\ w \in 0..(2 * n - 1) /\ w % ThreadsPerBlock = t /\ w % 2 = 0
  BY <1>1, <1>2, <1>3, MinTask
<1>6. pos.tile \in TileStarts /\ pos.tile \in Features /\ n \in Nat /\ n <= SharedWords /\ SharedWords \in Nat
  <2>1. pos.tile \in TileStarts /\ pos.tile \in Features
    BY <1>1, <1>3, PlaceFacts DEF BlockOK
  <2> QED
    BY <1>1, <2>1, SharedIs, TileIs
<1>7. /\ lo \in [Blocks -> [0..(SharedWords - 1) -> 0..(Radix - 1)]]
      /\ hi \in [Blocks -> [0..(SharedWords - 1) -> 0..(Radix - 1)]]
      /\ place \in [Blocks -> [Threads -> Places]]
      /\ carry \in [Blocks -> [Threads -> {<< >>} \cup {<<d>> : d \in 0..Radix}]]
      /\ hists \in [DOMAIN call.spans -> [Bins -> 0..(Whole - 1)]]
  BY <1>1, Zenon DEF KernelTypeOK, Bins
<1>8. s \in 0..(n - 1) /\ w = 2 * s
  <2> HIDE DEF n, w
  <2> QED
    BY <1>5, <1>6, EvenWord
<1>9. g \in Bins /\ Offset(pos.tile) \in Nat
  <2> HIDE DEF s
  <2> QED
    BY <1>1, <1>6, <1>8, TileInBins DEF n
<1>10. k \in DOMAIN call.spans
  BY <1>1, NodeIs, BlocksAre
<1>11. v \in Int /\ Radix \in Int
  <2> HIDE DEF s
  <2>1. s \in 0..(SharedWords - 1)
    BY <1>6, <1>8
  <2>2. lo[b][s] \in 0..(Radix - 1) /\ hi[b][s] \in 0..(Radix - 1) /\ Radix \in Nat
    BY <1>1, <2>1, TypeFacts, RadixIs
  <2> QED
    BY <2>2
<1>12. Same(v, GradSum(SlotRows(b, g)))
  <2> HIDE DEF s
  <2>1. Complete(b, pos)
    BY <1>1, <1>3 DEF BlockOK
  <2> QED
    BY <1>8, <2>1 DEF Complete, n
<1> HIDE DEF n, w, s, v, k
<1>13. g = Offset(pos.tile) + s
  OBVIOUS
<1> HIDE DEF g
<1>14. hists[k][g] \in 0..(Whole - 1) /\ Whole \in Nat
  BY <1>7, <1>9, <1>10, RadixIs
<1> DEFINE e == (hists[k][g] + v) % Whole
<1>15. e \in 0..(Whole - 1) /\ Same(e, hists[k][g] + v)
  <2> DEFINE y == hists[k][g] + v
  <2>1. y \in Int
    BY <1>11, <1>14
  <2> HIDE DEF y
  <2> QED
    BY <2>1, SameFacts DEF y
<1>16. hists' = [hists EXCEPT ![k][g] = e]
  BY <1>4
<1> HIDE DEF e
<1>17. /\ hists' \in [DOMAIN call.spans -> [Bins -> 0..(Whole - 1)]]
       /\ hists'[k][g] = e
       /\ \A j \in DOMAIN call.spans, i \in Bins : ~(j = k /\ i = g) => hists'[j][i] = hists[j][i]
  BY <1>7, <1>9, <1>10, <1>15, <1>16
<1>18. KernelTypeOK'
  <2>1. /\ tasks' = [d \in Blocks |-> [u \in Threads |-> tasks'[d][u]]]
        /\ \A d \in Blocks, u \in Threads : tasks'[d][u] \subseteq Work(d, u, place'[d][u])
    BY <1>1, <1>2, TookWithin
  <2> QED
    BY <1>1, <1>2, <1>7, <1>17, <2>1, TypeKept
<1>19. /\ tasks'[b][t] = tasks[b][t] \ {w}
       /\ \A u \in Threads : u # t => tasks'[b][u] = tasks[b][u]
       /\ \A d \in Blocks : d # b => tasks'[d] = tasks[d]
  BY <1>1, <1>2, TookIs
<1>20. OthersKept(b)
  BY <1>2, <1>19 DEF OthersKept
<1>21. /\ TasksAt(b, t, pos)' = TasksAt(b, t, pos) \ {w}
       /\ \A u \in Threads : u # t => TasksAt(b, u, pos)' = TasksAt(b, u, pos)
  BY <1>1, <1>2, <1>3, TasksTaken
<1>22. PlaceOK(pos)' /\ IsFront(b, pos)'
  BY <1>1, <1>2, <1>3, <1>19, FrontKept
<1>23. \A u \in Threads :
         /\ TasksAt(b, u, pos) \subseteq Work(b, u, pos)
         /\ carry[b][u] # << >> => place[b][u] = pos /\ pos.phase = "add" /\ tasks[b][u] # {}
  BY <1>1 DEF BlockOK, TasksOK
<1>24. TasksOK(b, pos)'
  <2>1. \A u \in Threads : Work(b, u, pos)' = Work(b, u, pos)
    BY <1>1, <1>2, WorkFrame
  <2>2. \A u \in Threads : TasksAt(b, u, pos)' \subseteq TasksAt(b, u, pos)
    BY <1>21
  <2>3. \A u \in Threads : carry[b][u] = << >>
    BY <1>3, <1>23
  <2>4. \A u \in Threads :
          /\ TasksAt(b, u, pos)' \subseteq Work(b, u, pos)'
          /\ carry'[b][u] # << >> => place'[b][u] = pos /\ pos.phase = "add" /\ tasks'[b][u] # {}
    BY <1>2, <1>23, <2>1, <2>2, <2>3
  <2> QED
    BY <2>4 DEF TasksOK, Threads
<1>25. /\ \A i : SlotRows(b, i)' = SlotRows(b, i)
       /\ \A d \in Blocks : \A i : SlotRows(d, i)' = SlotRows(d, i)
       /\ \A S : GradSum(S)' = GradSum(S)
       /\ \A j, i : NodeRows(j, i)' = NodeRows(j, i)
       /\ Blocks' = Blocks /\ Threads' = Threads /\ Bins' = Bins /\ DOMAIN call'.spans = DOMAIN call.spans
       /\ \A d \in Blocks : NodeOf(d)' = NodeOf(d)
       /\ Offset(pos.tile)' = Offset(pos.tile) /\ TileBins(pos.tile)' = n
  <2>1. nBins' = nBins /\ call' = call
    BY <1>2 DEF Unchanged
  <2>2. Offset(Len(nBins) + 1)' = Offset(Len(nBins) + 1)
    BY <1>2, <2>1, TilesFrame
  <2>3. Bins' = Bins
    BY <2>1, <2>2 DEF Bins
  <2> QED
    BY <1>1, <1>2, <2>1, <2>3, WorkFrame, BlocksFrame, TilesFrame DEF Threads, n
<1>26. Complete(b, pos)'
  <2> SUFFICES ASSUME NEW i \in 0..(n - 1), NEW j, j = Offset(pos.tile) + i
               PROVE  Same(lo'[b][i] + Radix * hi'[b][i], GradSum(SlotRows(b, j)))
    BY <1>25 DEF Complete
  <2>1. Same(lo[b][i] + Radix * hi[b][i], GradSum(SlotRows(b, j)))
    BY <1>1, <1>3 DEF BlockOK, Complete, n
  <2> QED
    BY <1>2, <2>1
<1>27. BlockOK(b, pos)'
  BY <1>3, <1>22, <1>24, <1>26 DEF BlockOK
<1>28. \A u \in Threads : u # t => w \notin TasksAt(b, u, pos)
  <2>1. \A u \in Threads : \A y \in Work(b, u, pos) : y % ThreadsPerBlock = u
    BY <1>1, <1>3, WorkIs DEF BlockOK
  <2> QED
    BY <1>5, <1>23, <2>1
<1>29. ASSUME NEW i \in Bins
       PROVE  /\ i # g => (Owes(b, pos, i)' <=> Owes(b, pos, i))
              /\ i = g => Owes(b, pos, i) /\ ~Owes(b, pos, i)'
  <2> DEFINE y == 2 * (i - Offset(pos.tile))
  <2>1. i \in Int
    BY DEF Bins
  <2>2. (y = w) <=> (i = g)
    BY <1>8, <1>9, <1>13, <2>1
  <2>3. i = g => i >= Offset(pos.tile) /\ i < Offset(pos.tile) + n
    BY <1>6, <1>8, <1>9, <1>13
  <2> HIDE DEF y
  <2>4. Owes(b, pos, i) <=>
          /\ i >= Offset(pos.tile)
          /\ i < Offset(pos.tile) + n => \E u \in Threads : y \in TasksAt(b, u, pos)
    BY <1>3 DEF Owes, n, y
  <2>5. Owes(b, pos, i)' <=>
          /\ i >= Offset(pos.tile)
          /\ i < Offset(pos.tile) + n => \E u \in Threads : y \in TasksAt(b, u, pos)'
    <3>1. Owes(b, pos, i)' <=>
            /\ i >= Offset(pos.tile)'
            /\ pos.phase = "flush" /\ i < Offset(pos.tile)' + TileBins(pos.tile)'
                 => \E u \in Threads' : 2 * (i - Offset(pos.tile)') \in TasksAt(b, u, pos)'
      BY Zenon DEF Owes
    <3> QED
      BY <1>3, <1>25, <3>1 DEF y
  <2>6. i # g => \A u \in Threads : y \in TasksAt(b, u, pos)' <=> y \in TasksAt(b, u, pos)
    BY <1>21, <2>2
  <2>7. w \in TasksAt(b, t, pos) /\ \A u \in Threads : w \notin TasksAt(b, u, pos)'
    BY <1>3, <1>5, <1>21, <1>28
  <2>8. CASE i # g
    BY <2>4, <2>5, <2>6, <2>8
  <2>9. CASE i = g
    BY <2>2, <2>3, <2>4, <2>5, <2>7, <2>9
  <2> QED
    BY <2>8, <2>9
<1>30. ASSUME NEW j \in DOMAIN call.spans, NEW i \in Bins
       PROVE  /\ ~(j = k /\ i = g) => OwedRows(j, i, front)' = OwedRows(j, i, front)
              /\ j = k /\ i = g =>
                   /\ OwedRows(j, i, front) = OwedRows(j, i, front)' \cup SlotRows(b, g)
                   /\ OwedRows(j, i, front)' \cap SlotRows(b, g) = {}
              /\ OwedRows(j, i, front) \in SUBSET SpanOf(call, j)
  <2> DEFINE A == Owing(j, i, front)
             B == Owing(j, i, front)'
  <2>1. \A d \in Blocks : d # b => (d \in B <=> d \in A)
    BY <1>1, <1>2, <1>20, OwingKept
  <2>2. A \subseteq Blocks /\ B \subseteq Blocks
    BY <1>25 DEF Owing
  <2>3. (b \in A <=> k = j /\ Owes(b, pos, i)) /\ (b \in B <=> k = j /\ Owes(b, pos, i)')
    BY <1>25 DEF Owing, k, pos
  <2>4. OwedRows(j, i, front) = UNION {SlotRows(d, i) : d \in A}
    BY DEF OwedRows
  <2>5. OwedRows(j, i, front)' = UNION {SlotRows(d, i) : d \in B}
    <3>1. OwedRows(j, i, front)' = UNION {SlotRows(d, i)' : d \in B}
      BY Zenon DEF OwedRows
    <3> QED
      BY <1>25, <2>2, <3>1
  <2>6. \A d \in A : NodeOf(d) = j
    BY DEF Owing
  <2>7. \A d \in Blocks : SlotRows(d, i) \in SUBSET SpanOf(call, NodeOf(d))
    <3>1. \A d \in Blocks : SlotRows(d, i) \in SUBSET NodeRows(NodeOf(d), i)
      BY <1>1, SlotRowsAre
    <3> QED
      BY <3>1 DEF NodeRows
  <2>8. OwedRows(j, i, front) \in SUBSET SpanOf(call, j)
    BY <2>2, <2>4, <2>6, <2>7
  <2>9. CASE ~(j = k /\ i = g)
    <3>1. b \in A <=> b \in B
      BY <1>29, <2>3, <2>9
    <3>2. A = B
      BY <2>1, <2>2, <3>1
    <3> QED
      BY <2>4, <2>5, <2>8, <2>9, <3>2
  <2>10. CASE j = k /\ i = g
    <3>1. b \in A /\ b \notin B
      BY <1>29, <2>3, <2>10
    <3>2. A = B \cup {b}
      BY <2>1, <2>2, <3>1
    <3>3. \A d \in B : NodeOf(d) = NodeOf(b) /\ d # b /\ d \in Blocks
      BY <2>2, <2>6, <2>10, <3>1, <3>2 DEF k
    <3>4. \A d \in B : SlotRows(d, g) \cap SlotRows(b, g) = {}
      BY <1>1, <3>3, SlotRowsAre
    <3> HIDE DEF A, B
    <3> QED
      BY <2>4, <2>5, <2>8, <2>10, <3>2, <3>4
  <2> QED
    BY <2>9, <2>10
<1>31. HistsOK(front)'
  <2> SUFFICES ASSUME NEW j \in DOMAIN call.spans, NEW i \in Bins
               PROVE  Same(hists'[j][i] + GradSum(OwedRows(j, i, front)'), GradSum(NodeRows(j, i)))
    <3>1. HistsOK(front)' <=>
            \A j \in DOMAIN call'.spans, i \in Bins' :
              Same(hists'[j][i] + GradSum(OwedRows(j, i, front))', GradSum(NodeRows(j, i))')
      BY DEF HistsOK
    <3>2. \A j, i : GradSum(OwedRows(j, i, front))' = GradSum(OwedRows(j, i, front)')
      BY <1>25
    <3>3. \A j, i : GradSum(NodeRows(j, i))' = GradSum(NodeRows(j, i))
      BY <1>25
    <3> QED
      BY <1>25, <3>1, <3>2, <3>3
  <2>1. Same(hists[j][i] + GradSum(OwedRows(j, i, front)), GradSum(NodeRows(j, i)))
    BY DEF KInv, HistsOK
  <2>2. CASE ~(j = k /\ i = g)
    BY <1>17, <1>30, <2>1, <2>2
  <2>3. CASE j = k /\ i = g
    <3> DEFINE P == OwedRows(j, i, front)'
               Q == SlotRows(b, i)
               R == OwedRows(j, i, front)
    <3>1. R = P \cup Q /\ P \cap Q = {} /\ R \in SUBSET SpanOf(call, j)
      BY <1>30, <2>3
    <3> HIDE DEF P, Q, R
    <3>2. P \in SUBSET SpanOf(call, j) /\ Q \in SUBSET SpanOf(call, j)
      BY <3>1
    <3>3. GradSum(R) = GradSum(P) + GradSum(Q) /\ GradSum(P) \in Int /\ GradSum(Q) \in Int
      BY <1>1, <3>1, <3>2, GradSums
    <3>4. GradSum(NodeRows(j, i)) \in Int
      <4>1. NodeRows(j, i) \in SUBSET SpanOf(call, j)
        BY DEF NodeRows
      <4> QED
        BY <1>1, <4>1, GradSums
    <3> DEFINE H == hists[j][i]
               p == GradSum(P)
               q == GradSum(Q)
               T == GradSum(NodeRows(j, i))
    <3>5. H \in Int /\ p \in Int /\ q \in Int /\ T \in Int /\ v \in Int /\ e \in Int
      BY <1>11, <1>14, <1>15, <2>3, <3>3, <3>4
    <3>6. Same(e, H + v) /\ Same(v, q) /\ Same(H + (p + q), T)
      <4>1. Same(H + GradSum(R), T)
        BY <2>1, <2>3 DEF R
      <4> QED
        BY <1>12, <1>15, <2>3, <3>3, <4>1 DEF Q
    <3> HIDE DEF H, p, q, T
    <3>7. Same(e + p, (H + v) + p) /\ Same(v + (H + p), q + (H + p))
      <4>1. H + v \in Int /\ H + p \in Int
        BY <3>5
      <4> QED
        BY <3>5, <3>6, <4>1, SameFacts
    <3>8. (H + v) + p = v + (H + p) /\ q + (H + p) = H + (p + q)
      BY <3>5
    <3>9. Same(e + p, v + (H + p)) /\ Same(v + (H + p), H + (p + q))
      BY <3>7, <3>8
    <3>10. Same(e + p, H + (p + q))
      BY <3>5, <3>9, SameFacts
    <3>11. Same(e + p, T)
      BY <3>5, <3>6, <3>10, SameFacts
    <3> QED
      BY <1>17, <2>3, <3>11 DEF p, P, T, e
  <2> QED
    BY <2>2, <2>3
<1>32. ASSUME NEW d \in Blocks, NEW x, x = front[d] PROVE BlockOK(d, x)'
  <2>1. CASE d = b
    BY <1>27, <1>32, <2>1 DEF pos
  <2>2. CASE d # b
    <3>1. BlockOK(d, x)
      BY <1>32 DEF KInv
    <3>2. /\ lo'[d] = lo[d] /\ hi'[d] = hi[d] /\ place'[d] = place[d] /\ tasks'[d] = tasks[d]
          /\ carry'[d] = carry[d]
      BY <1>20, <2>2 DEF OthersKept
    <3> QED
      BY <1>1, <1>2, <3>1, <3>2, BlockKept
  <2> QED
    BY <2>1, <2>2
<1>33. KInv(front)'
  <2>1. \A d \in Blocks : BlockOK(d, front[d])'
    BY <1>32
  <2> QED
    BY <1>18, <1>25, <1>31, <2>1 DEF KInv
<1> QED
  BY <1>25, <1>33 DEF KernelInv

----------------------------------------------------------------------------
(***************************************************************************)
(* The barrier                                                             *)
(***************************************************************************)

\* The step of one thread past a barrier.
LEMMA PassedIs ==
  ASSUME KernelTypeOK, NEW b \in Blocks, NEW t \in Threads, PassBarrier(b, t),
         PlaceOK(Following(place[b][t]))
  PROVE  /\ Unchanged /\ UNCHANGED <<lo, hi, carry, hists>>
         /\ place'[b][t] = Following(place[b][t])
         /\ tasks'[b][t] = Work(b, t, Following(place[b][t]))
         /\ \A u \in Threads : u # t => place'[b][u] = place[b][u] /\ tasks'[b][u] = tasks[b][u]
         /\ OthersKept(b) /\ KernelTypeOK'
<1> DEFINE q == Following(place[b][t])
<1>1. CallOK /\ q \in Places
  BY TypeFacts, PlaceFacts
<1>2. /\ lo \in [Blocks -> [0..(SharedWords - 1) -> 0..(Radix - 1)]]
      /\ hi \in [Blocks -> [0..(SharedWords - 1) -> 0..(Radix - 1)]]
      /\ place \in [Blocks -> [Threads -> Places]]
      /\ tasks = [d \in Blocks |-> [u \in Threads |-> tasks[d][u]]]
      /\ carry \in [Blocks -> [Threads -> {<< >>} \cup {<<d>> : d \in 0..Radix}]]
      /\ hists \in [DOMAIN call.spans -> [Bins -> 0..(Whole - 1)]]
  BY Zenon DEF KernelTypeOK, Bins
<1>3. /\ Unchanged /\ UNCHANGED <<lo, hi, carry, hists>>
      /\ place' = [place EXCEPT ![b][t] = q]
      /\ tasks' = [tasks EXCEPT ![b][t] = Work(b, t, q)]
  BY DEF PassBarrier, Unchanged
<1> HIDE DEF q
<1>4. /\ place' \in [Blocks -> [Threads -> Places]]
      /\ place'[b][t] = q
      /\ \A u \in Threads : u # t => place'[b][u] = place[b][u]
      /\ \A c \in Blocks : c # b => place'[c] = place[c]
  BY <1>1, <1>2, <1>3
<1> DEFINE W == Work(b, t, q)
<1>5. tasks' = [tasks EXCEPT ![b][t] = W]
  BY <1>3
<1> HIDE DEF W
<1>6. /\ tasks' = [d \in Blocks |-> [u \in Threads |-> tasks'[d][u]]]
      /\ tasks'[b][t] = W
      /\ \A u \in Threads : u # t => tasks'[b][u] = tasks[b][u]
      /\ \A c \in Blocks : c # b => tasks'[c] = tasks[c]
  BY <1>2, <1>5
<1>7. \A d \in Blocks, u \in Threads : tasks'[d][u] \subseteq Work(d, u, place'[d][u])
  <2> SUFFICES ASSUME NEW d \in Blocks, NEW u \in Threads PROVE tasks'[d][u] \subseteq Work(d, u, place'[d][u])
    OBVIOUS
  <2>1. tasks[d][u] \subseteq Work(d, u, place[d][u])
    BY TypeFacts
  <2>2. CASE d = b /\ u = t
    BY <1>4, <1>6, <2>2 DEF W
  <2>3. CASE ~(d = b /\ u = t)
    <3>1. place'[d][u] = place[d][u] /\ tasks'[d][u] = tasks[d][u]
      BY <1>4, <1>6, <2>3
    <3> QED
      BY <2>1, <3>1
  <2> QED
    BY <2>2, <2>3
<1>8. KernelTypeOK'
  BY <1>2, <1>3, <1>4, <1>6, <1>7, TypeKept
<1>9. OthersKept(b)
  BY <1>3, <1>4, <1>6 DEF OthersKept
<1> QED
  BY <1>3, <1>4, <1>6, <1>8, <1>9 DEF q, W

\* A thread that comes to the place where others of its block are already.
LEMMA CatchUpKeeps ==
  ASSUME NEW front \in [Blocks -> Places], KInv(front), NEW b \in Blocks, NEW t \in Threads,
         PassBarrier(b, t), place[b][t] # front[b]
  PROVE  KernelInv'
<1> DEFINE pos == front[b]
<1>1. KernelTypeOK /\ CallOK /\ BlockOK(b, pos) /\ pos \in Places
  BY TypeFacts DEF KInv
<1> HIDE DEF pos
<1>2. PlaceOK(pos) /\ IsFront(b, pos) /\ TasksOK(b, pos)
  BY <1>1 DEF BlockOK
<1>3. Following(place[b][t]) = pos /\ tasks[b][t] = {} /\ carry[b][t] = << >> /\ place[b][t] # pos
  BY <1>2 DEF IsFront, pos
<1>4. /\ Unchanged /\ UNCHANGED <<lo, hi, carry, hists>>
      /\ place'[b][t] = pos /\ tasks'[b][t] = Work(b, t, pos)
      /\ \A u \in Threads : u # t => place'[b][u] = place[b][u] /\ tasks'[b][u] = tasks[b][u]
      /\ OthersKept(b) /\ KernelTypeOK'
  BY <1>1, <1>2, <1>3, PassedIs
<1>5. \A u \in Threads : TasksAt(b, u, pos)' = TasksAt(b, u, pos)
  <2>1. \A u \in Threads : Work(b, u, pos)' = Work(b, u, pos)
    BY <1>1, <1>4, WorkFrame
  <2>2. TasksAt(b, t, pos)' = TasksAt(b, t, pos)
    BY <1>3, <1>4 DEF TasksAt
  <2> QED
    BY <1>4, <2>1, <2>2 DEF TasksAt
<1>6. \A u \in Threads : Begun(b, u)' = Begun(b, u)
  <2>1. Begun(b, t) = {} /\ Begun(b, t)' = {}
    BY <1>3, <1>4 DEF Begun
  <2>2. \A u \in Threads : u # t => Begun(b, u)' = Begun(b, u)
    BY <1>4 DEF Begun
  <2> QED
    BY <2>1, <2>2
<1>7. /\ \A g : SlotRows(b, g)' = SlotRows(b, g)
      /\ \A S : GradSum(S)' = GradSum(S)
      /\ \A e, q : Slot(e, q)' = Slot(e, q)
      /\ Features' = Features /\ Threads' = Threads
      /\ Offset(pos.tile)' = Offset(pos.tile) /\ TileBins(pos.tile)' = TileBins(pos.tile)
      /\ \A x : Following(x)' = Following(x)
  BY <1>1, <1>4, WorkFrame, BlocksFrame, TilesFrame DEF Threads
<1>8. PlaceOK(pos)' /\ IsFront(b, pos)'
  <2>1. PlaceOK(pos)'
    BY <1>2, <1>4, PlaceFrame
  <2>2. \A u \in Threads :
          \/ place'[b][u] = pos
          \/ /\ place'[b][u].phase # "done" /\ Following(place[b][u])' = pos
             /\ tasks'[b][u] = {} /\ carry'[b][u] = << >>
    <3>1. \A u \in Threads : u # t => Following(place[b][u])' = Following(place[b][u])
      <4>1. \A x : Following(x)' = Following(x)
        BY <1>7
      <4> SUFFICES ASSUME NEW u \in Threads, u # t PROVE Following(place[b][u])' = Following(place[b][u])
        OBVIOUS
      <4>2. place'[b][u] = place[b][u] /\ TileLast(place[b][u].tile)' = TileLast(place[b][u].tile)
        <5>1. place'[b][u] = place[b][u]
          BY <1>4
        <5>2. \A f : TileLast(f)' = TileLast(f)
          BY <1>4, TilesFrame
        <5> QED
          BY <5>1, <5>2
      <4>3. \A f : At(FirstTile(f))' = At(FirstTile(f))
        BY <1>4, TilesFrame
      <4>4. At(FirstTile(TileLast(place[b][u].tile) + 1))' = At(FirstTile(TileLast(place[b][u].tile) + 1))
        BY <4>2, <4>3
      <4> QED
        BY <4>2, <4>4 DEF Following
    <3> QED
      BY <1>2, <1>4, <3>1 DEF IsFront
  <2> QED
    BY <1>4, <1>7, <2>1, <2>2 DEF IsFront
<1>9. TasksOK(b, pos)'
  <2>1. \A u \in Threads :
          /\ TasksAt(b, u, pos) \subseteq Work(b, u, pos)
          /\ carry[b][u] # << >> => place[b][u] = pos /\ pos.phase = "add" /\ tasks[b][u] # {}
    BY <1>2 DEF TasksOK
  <2>2. \A u \in Threads : Work(b, u, pos)' = Work(b, u, pos)
    BY <1>1, <1>4, WorkFrame
  <2>3. \A u \in Threads :
          /\ TasksAt(b, u, pos)' \subseteq Work(b, u, pos)'
          /\ carry'[b][u] # << >> => place'[b][u] = pos /\ pos.phase = "add" /\ tasks'[b][u] # {}
    BY <1>3, <1>4, <1>5, <2>1, <2>2
  <2> QED
    BY <1>7, <2>3 DEF TasksOK
<1>10. \A g : ToCome(b, pos, g)' = ToCome(b, pos, g)
  <2> TAKE g
  <2>1. ToCome(b, pos, g)' =
          {p \in SlotRows(b, g)' : \E u \in Threads', e \in Features' :
             <<e, p>> \in TasksAt(b, u, pos)' \ Begun(b, u)' /\ Slot(e, p)' = g}
    BY Zenon DEF ToCome
  <2> DEFINE P(p) == \E u \in Threads', e \in Features' :
                       <<e, p>> \in TasksAt(b, u, pos)' \ Begun(b, u)' /\ Slot(e, p)' = g
             Q(p) == \E u \in Threads, e \in Features :
                       <<e, p>> \in TasksAt(b, u, pos) \ Begun(b, u) /\ Slot(e, p) = g
  <2>2. \A p : P(p) <=> Q(p)
    BY <1>5, <1>6, <1>7
  <2>3. ToCome(b, pos, g)' = {p \in SlotRows(b, g)' : P(p)} /\ ToCome(b, pos, g) = {p \in SlotRows(b, g) : Q(p)}
    BY <2>1, Zenon DEF ToCome
  <2> HIDE DEF P, Q
  <2> QED
    BY <1>7, <2>2, <2>3
<1>11. \A g : Carried(b, g)' = Carried(b, g)
  <2> TAKE g
  <2>1. Carries(b, g)' =
          [u \in Threads' |-> IF \E x \in Begun(b, u)' : Slot(x[1], x[2])' = g THEN carry'[b][u][1] ELSE 0]
    BY Zenon DEF Carries
  <2>2. \A x : Slot(x[1], x[2])' = Slot(x[1], x[2])
    BY <1>7
  <2>3. Carries(b, g)' = Carries(b, g)
    BY <1>4, <1>6, <1>7, <2>1, <2>2 DEF Carries
  <2> QED
    BY <1>7, <2>3 DEF Carried
<1>12. Cleared(b, pos) => Cleared(b, pos)'
  BY <1>4, <1>5, <1>7 DEF Cleared
<1>13. Added(b, pos) => Added(b, pos)'
  <2> SUFFICES ASSUME Added(b, pos), NEW s \in 0..(TileBins(pos.tile) - 1), NEW g, g = Offset(pos.tile) + s
               PROVE  Same(lo'[b][s] + Radix * (hi'[b][s] + Carried(b, g)') + GradSum(ToCome(b, pos, g)'),
                           GradSum(SlotRows(b, g)))
    BY <1>7 DEF Added
  <2>1. Same(lo[b][s] + Radix * (hi[b][s] + Carried(b, g)) + GradSum(ToCome(b, pos, g)),
             GradSum(SlotRows(b, g)))
    BY DEF Added
  <2> QED
    BY <1>4, <1>10, <1>11, <2>1
<1>14. Complete(b, pos) => Complete(b, pos)'
  <2> SUFFICES ASSUME Complete(b, pos), NEW s \in 0..(TileBins(pos.tile) - 1), NEW g, g = Offset(pos.tile) + s
               PROVE  Same(lo'[b][s] + Radix * hi'[b][s], GradSum(SlotRows(b, g)))
    BY <1>7 DEF Complete
  <2>1. Same(lo[b][s] + Radix * hi[b][s], GradSum(SlotRows(b, g)))
    BY DEF Complete
  <2> QED
    BY <1>4, <2>1
<1>15. BlockOK(b, pos)'
  BY <1>1, <1>8, <1>9, <1>12, <1>13, <1>14, Zenon DEF BlockOK
<1>16. \A g : Owes(b, pos, g)' <=> Owes(b, pos, g)
  <2> TAKE g
  <2>1. Owes(b, pos, g)' <=>
          /\ g >= Offset(pos.tile)'
          /\ pos.phase = "flush" /\ g < Offset(pos.tile)' + TileBins(pos.tile)'
               => \E u \in Threads' : 2 * (g - Offset(pos.tile)') \in TasksAt(b, u, pos)'
    BY Zenon DEF Owes
  <2> QED
    BY <1>5, <1>7, <2>1 DEF Owes
<1> QED
  BY <1>1, <1>4, <1>15, <1>16, InvStep DEF pos

\* All threads of the block have come to the barrier.
LEMMA AllThere ==
  ASSUME CallOK, NEW b \in Blocks, NEW pos, BlockOK(b, pos), NEW t \in Threads, place[b][t] = pos,
         pos.phase # "done",
         \A u \in Threads : \/ place[b][u] = pos /\ tasks[b][u] = {}
                            \/ place[b][u] = Following(pos)
  PROVE  /\ \A u \in Threads : place[b][u] = pos /\ tasks[b][u] = {} /\ carry[b][u] = << >>
         /\ \A u \in Threads : TasksAt(b, u, pos) = {} /\ Begun(b, u) = {}
<1>1. PlaceOK(pos) /\ IsFront(b, pos) /\ TasksOK(b, pos)
  BY DEF BlockOK
<1>2. Following(pos) # pos /\ Following(Following(pos)) # pos
  BY <1>1, FollowingIs
<1>3. \A u \in Threads : place[b][u] = pos /\ tasks[b][u] = {}
  BY <1>1, <1>2 DEF IsFront
<1>4. \A u \in Threads : carry[b][u] = << >>
  BY <1>1, <1>3 DEF TasksOK
<1> QED
  BY <1>3, <1>4 DEF TasksAt, Begun

\* No carry is under way when no addition has begun.
LEMMA NoneCarried ==
  ASSUME KernelTypeOK, NEW b \in Blocks, \A u \in Threads : Begun(b, u) = {}, NEW g
  PROVE  Carried(b, g) = 0
<1>1. IsFiniteSet(Threads) /\ \A u \in Threads : Carries(b, g)[u] = 0
  BY CarriesAre
<1> DEFINE v == Carries(b, g)
           A == {s \in SUBSET Threads : Total(v, s) = 0}
<1>2. \A s \in SUBSET Threads : IsFiniteSet(s) /\ \A u \in s : v[u] \in Int /\ v[u] = 0
  BY <1>1, FS_Subset
<1>3. {} \in A
  <2>1. IsFiniteSet({}) /\ (\A u \in {} : v[u] \in Int)
    BY FS_EmptySet
  <2>2. Total(v, {}) = 0
    BY <2>1, TotalStep
  <2> QED
    BY <2>2
<1>4. ASSUME NEW s \in SUBSET Threads, s # {}, s \ {Picked(s)} \in A PROVE s \in A
  <2>1. Picked(s) \in s /\ Total(v, s) = v[Picked(s)] + Total(v, s \ {Picked(s)})
    <3>1. IsFiniteSet(s) /\ \A u \in s : v[u] \in Int
      BY <1>2, <1>4
    <3> HIDE DEF v, A
    <3> QED
      BY <1>4, <3>1, TotalStep
  <2>2. v[Picked(s)] = 0 /\ Total(v, s \ {Picked(s)}) = 0
    BY <1>2, <1>4, <2>1
  <2>3. Total(v, s) = 0
    BY <2>1, <2>2
  <2> QED
    BY <2>3
<1>5. A \in SUBSET SUBSET Threads
  OBVIOUS
<1> HIDE DEF A
<1>6. A = SUBSET Threads
  BY <1>1, <1>3, <1>4, <1>5, SubsetInduction
<1> QED
  BY <1>6 DEF A, Carried

\* All words of a tile are the work of some thread when it clears, all sums when it flushes.
LEMMA WorkCovers ==
  ASSUME CallOK, NEW b \in Blocks, NEW pos, NEW n \in Nat, n = TileBins(pos.tile)
  PROVE  /\ pos.phase = "clear" => \A w \in 0..(2 * n - 1) : \E t \in Threads : w \in Work(b, t, pos)
         /\ pos.phase = "flush" => \A s \in 0..(n - 1) : \E t \in Threads : 2 * s \in Work(b, t, pos)
<1>1. \A w \in Nat : w % ThreadsPerBlock \in Threads
  <2>1. ThreadsPerBlock \in Nat \ {0}
    BY BlocksAre
  <2>2. \A w \in Int : w % ThreadsPerBlock \in 0..(ThreadsPerBlock - 1)
    BY <2>1, Remainder
  <2> QED
    BY <2>2 DEF Threads
<1>2. ASSUME pos.phase = "clear", NEW w \in 0..(2 * n - 1) PROVE \E t \in Threads : w \in Work(b, t, pos)
  <2>1. w \in Nat
    OBVIOUS
  <2>2. w \in Work(b, w % ThreadsPerBlock, pos)
    BY <1>2 DEF Work
  <2> QED
    BY <1>1, <2>1, <2>2
<1>3. ASSUME pos.phase = "flush", NEW s \in 0..(n - 1) PROVE \E t \in Threads : 2 * s \in Work(b, t, pos)
  <2>1. 2 * s \in Nat /\ 2 * s \in 0..(2 * n - 1) /\ (2 * s) % 2 = 0
    OBVIOUS
  <2>2. 2 * s \in Work(b, (2 * s) % ThreadsPerBlock, pos)
    <3> DEFINE w == 2 * s
    <3> HIDE DEF w
    <3>1. w \in 0..(2 * n - 1) /\ w % 2 = 0
      BY <2>1 DEF w
    <3>2. w \in Work(b, w % ThreadsPerBlock, pos)
      BY <1>3, <3>1 DEF Work
    <3> QED
      BY <3>2 DEF w
  <2> QED
    BY <1>1, <2>1, <2>2
<1> QED
  BY <1>2, <1>3

\* The rows of a tile's bins are all yet to come when its threads begin to add.
LEMMA AllToCome ==
  ASSUME CallOK, NEW b \in Blocks, NEW pos, PlaceOK(pos), pos.phase = "add",
         NEW s \in 0..(TileBins(pos.tile) - 1), NEW g, g = Offset(pos.tile) + s, NEW p \in SlotRows(b, g)
  PROVE  \E u \in Threads, f \in Features : <<f, p>> \in Work(b, u, pos) /\ Slot(f, p) = g
<1>1. PICK u \in Threads, f \in Features : p \in RowsRead(b, u) /\ Counts(f, p) /\ Slot(f, p) = g
  BY DEF SlotRows
<1>2. pos.tile \in Features
  BY PlaceFacts
<1>3. NodeOf(b) \in DOMAIN call.spans /\ p \in SpanOf(call, NodeOf(b))
  BY <1>1, NodeIs, BlocksAre, RowsReadAre
<1>4. (f \in pos.tile..TileLast(pos.tile)) <=> (Slot(f, p) - Offset(pos.tile) \in 0..(TileBins(pos.tile) - 1))
  BY <1>1, <1>2, <1>3, CountsFacts
<1>5. Slot(f, p) - Offset(pos.tile) = s
  BY <1>1, <1>2, TileInBins
<1>6. f \in pos.tile..TileLast(pos.tile)
  BY <1>4, <1>5
<1>7. <<f, p>> \in Work(b, u, pos)
  <2>1. Work(b, u, pos) = {x \in (pos.tile..TileLast(pos.tile)) \X RowsRead(b, u) : Counts(x[1], x[2])}
    BY WorkIs
  <2> QED
    BY <1>1, <1>6, <2>1
<1> QED
  BY <1>1, <1>7

\* The tiles that are skipped have no rows.
LEMMA SkippedEmpty ==
  ASSUME CallOK, NEW b \in Blocks, NEW f \in TileStarts \cup {Len(nBins) + 1}, NEW g \in Int,
         Offset(f) <= g, g < Offset(FirstTile(f))
  PROVE  SlotRows(b, g) = {}
<1>1. SUFFICES ASSUME NEW p \in SlotRows(b, g) PROVE FALSE
  OBVIOUS
<1>2. PICK u \in Threads, e \in Features : p \in RowsRead(b, u) /\ Counts(e, p) /\ Slot(e, p) = g
  BY DEF SlotRows
<1>3. NodeOf(b) \in DOMAIN call.spans /\ p \in SpanOf(call, NodeOf(b))
  BY <1>2, NodeIs, BlocksAre, RowsReadAre
<1>4. /\ BinAt(e, p) \in 0..(nBins[e] - 1) /\ Slot(e, p) = Offset(e) + BinAt(e, p)
      /\ e \in call.selected
  BY <1>2, <1>3, CountsFacts DEF Counts
<1>5. /\ Len(nBins) \in Nat /\ Features = 1..Len(nBins) /\ TileStarts \subseteq Features
      /\ nBins[e] \in Nat
  BY CallFacts, StartsFacts
<1> DEFINE N == Len(nBins) + 1
           h == FirstTile(f)
<1>6. f \in 1..N /\ e \in 1..N /\ e + 1 \in 1..N /\ h \in 1..N /\ (\A d \in call.selected : d >= f => d >= h)
  <2>1. h \in TileStarts \cup {N} /\ \A d \in call.selected : d >= f => d >= h
    BY FirstTileIs
  <2> HIDE DEF h
  <2> QED
    BY <1>5, <2>1
<1> HIDE DEF N, h
<1>7. /\ \A d \in 1..N : Offset(d) \in Nat
      /\ \A c \in 1..N, d \in 1..N : c <= d => Offset(c) <= Offset(d)
      /\ Offset(e + 1) = Offset(e) + nBins[e]
  BY OffsetsAre DEF N
<1>8. Offset(e) <= g /\ g < Offset(e + 1) /\ Offset(f) <= g /\ g < Offset(h)
  <2>1. g = Offset(e) + BinAt(e, p)
    BY <1>2, <1>4
  <2>2. Offset(e) \in Nat
    BY <1>6, <1>7
  <2>3. Offset(e) <= g /\ g < Offset(e) + nBins[e]
    BY <1>4, <1>5, <2>1, <2>2
  <2> QED
    BY <1>7, <2>3 DEF h
<1>9. e >= f
  <2>1. SUFFICES ASSUME e + 1 <= f PROVE FALSE
    BY <1>6 DEF N
  <2>2. Offset(e + 1) <= Offset(f)
    BY <1>6, <1>7, <2>1
  <2> QED
    BY <1>6, <1>7, <1>8, <2>2
<1>10. e >= h
  BY <1>4, <1>6, <1>9
<1>11. Offset(h) <= Offset(e)
  BY <1>6, <1>7, <1>10 DEF N
<1> QED
  BY <1>6, <1>7, <1>8, <1>11

\* The first thread to pass a barrier moves the front of its block.
LEMMA MovesOnKeeps ==
  ASSUME NEW front \in [Blocks -> Places], KInv(front), NEW b \in Blocks, NEW t \in Threads,
         PassBarrier(b, t), place[b][t] = front[b]
  PROVE  KernelInv'
<1> DEFINE pos == front[b]
           n == TileBins(pos.tile)
<1>1. KernelTypeOK /\ CallOK /\ BlockOK(b, pos) /\ pos \in Places
  BY TypeFacts DEF KInv
<1>2. PlaceOK(pos) /\ place[b][t] = pos
  BY <1>1 DEF BlockOK
<1> HIDE DEF pos
<1>3. /\ pos.phase # "done"
      /\ \A u \in Threads : \/ place[b][u] = pos /\ tasks[b][u] = {}
                            \/ place[b][u] = Following(pos)
  BY <1>2 DEF PassBarrier
<1>4. /\ \A u \in Threads : place[b][u] = pos /\ tasks[b][u] = {} /\ carry[b][u] = << >>
      /\ \A u \in Threads : TasksAt(b, u, pos) = {} /\ Begun(b, u) = {}
  BY <1>1, <1>2, <1>3, AllThere
<1>0. PICK q : q = Following(pos)
  OBVIOUS
<1>5. /\ PlaceOK(q) /\ q # pos /\ q \in Places
      /\ pos.phase = "clear" => q = [tile |-> pos.tile, phase |-> "add"]
      /\ pos.phase = "add" => q = [tile |-> pos.tile, phase |-> "flush"]
      /\ pos.phase = "flush" => /\ q = At(FirstTile(TileLast(pos.tile) + 1))
                                /\ TileLast(pos.tile) + 1 \in TileStarts \cup {Len(nBins) + 1}
  BY <1>0, <1>1, <1>2, <1>3, FollowingIs, PlaceFacts
<1>6. /\ pos.phase \in {"clear", "add", "flush"}
      /\ pos.tile \in Features /\ n \in Nat /\ Offset(pos.tile) \in Nat
      /\ pos.tile \in TileStarts
  <2>1. pos.phase \in {"clear", "add", "flush"}
    BY <1>1, <1>2, <1>3, PlaceFacts
  <2>2. pos.tile \in TileStarts /\ pos.tile \in Features
    BY <1>1, <1>2, <2>1, PlaceFacts
  <2> QED
    BY <1>1, <2>1, <2>2, TileInBins
<1> HIDE DEF n
<1>7. /\ Unchanged /\ UNCHANGED <<lo, hi, carry, hists>>
      /\ place'[b][t] = q /\ tasks'[b][t] = Work(b, t, q)
      /\ \A u \in Threads : u # t => place'[b][u] = pos /\ tasks'[b][u] = {}
      /\ OthersKept(b) /\ KernelTypeOK'
  BY <1>0, <1>1, <1>2, <1>4, <1>5, PassedIs
<1>8. /\ \A u \in Threads : \A x : Work(b, u, x)' = Work(b, u, x)
      /\ \A g : SlotRows(b, g)' = SlotRows(b, g)
      /\ \A S : GradSum(S)' = GradSum(S)
      /\ \A e, p : Slot(e, p)' = Slot(e, p)
      /\ Features' = Features /\ Threads' = Threads
      /\ \A f : Offset(f)' = Offset(f)
      /\ \A f : TileBins(f)' = TileBins(f)
  BY <1>1, <1>7, WorkFrame, BlocksFrame, TilesFrame DEF Threads
<1>9. \A u \in Threads : TasksAt(b, u, q)' = Work(b, u, q)
  BY <1>5, <1>7, <1>8 DEF TasksAt
<1>10. PlaceOK(q)' /\ IsFront(b, q)'
  <2>1. PlaceOK(q)'
    BY <1>5, <1>7, PlaceFrame
  <2>2. Following(pos)' = q
    BY <1>0, <1>7, TilesFrame
  <2>3. \A u \in Threads : u # t => Following(place[b][u])' = q
    <3> SUFFICES ASSUME NEW u \in Threads, u # t PROVE Following(place[b][u])' = q
      OBVIOUS
    <3>1. place'[b][u] = pos
      BY <1>7
    <3>2. Following(place[b][u])' = Following(pos)'
      BY <3>1 DEF Following
    <3> QED
      BY <2>2, <3>2
  <2>4. \A u \in Threads :
          \/ place'[b][u] = q
          \/ /\ place'[b][u].phase # "done" /\ Following(place[b][u])' = q
             /\ tasks'[b][u] = {} /\ carry'[b][u] = << >>
    BY <1>3, <1>4, <1>7, <2>3
  <2> QED
    BY <1>7, <1>8, <2>1, <2>4 DEF IsFront
<1>11. TasksOK(b, q)'
  <2>1. \A u \in Threads :
          /\ TasksAt(b, u, q)' \subseteq Work(b, u, q)'
          /\ carry'[b][u] = << >>
    BY <1>4, <1>7, <1>8, <1>9
  <2> QED
    BY <1>8, <2>1 DEF TasksOK
<1>12. \A u \in Threads : Begun(b, u)' = {}
  <2>1. \A u \in Threads : carry'[b][u] = << >>
    BY <1>4, <1>7
  <2> QED
    BY <2>1 DEF Begun
<1>13. \A g : Carried(b, g) = 0 /\ Carried(b, g)' = 0
  <2>1. \A g : Carried(b, g) = 0
    BY <1>1, <1>4, NoneCarried
  <2> SUFFICES ASSUME NEW g PROVE Carried(b, g)' = Carried(b, g)
    BY <2>1
  <2>2. Carries(b, g)' =
          [u \in Threads' |-> IF \E x \in Begun(b, u)' : Slot(x[1], x[2])' = g THEN carry'[b][u][1] ELSE 0]
    BY Zenon DEF Carries
  <2>3. Carries(b, g)' = [u \in Threads |-> 0]
    BY <1>8, <1>12, <2>2
  <2>4. Carries(b, g) = [u \in Threads |-> 0]
    BY <1>4 DEF Carries
  <2> QED
    BY <1>8, <2>3, <2>4 DEF Carried
<1>14. \A g : GradSum(SlotRows(b, g)) \in Int
  <2>1. NodeOf(b) \in DOMAIN call.spans
    BY <1>1, NodeIs, BlocksAre
  <2>2. \A g : SlotRows(b, g) \in SUBSET SpanOf(call, NodeOf(b))
    <3>1. \A g : SlotRows(b, g) \in SUBSET NodeRows(NodeOf(b), g)
      BY <1>1, SlotRowsAre
    <3> QED
      BY <3>1 DEF NodeRows
  <2> QED
    BY <1>1, <2>1, <2>2, GradSums
<1>15. Radix \in Int
  BY RadixIs
<1>16. ASSUME pos.phase = "clear" PROVE BlockOK(b, q)' /\ \A g : Owes(b, q, g)' <=> Owes(b, pos, g)
  <2>1. q.tile = pos.tile /\ q.phase = "add"
    BY <1>5, <1>16
  <2>2. \A s \in 0..(n - 1) : lo[b][s] = 0 /\ hi[b][s] = 0
    <3>1. Cleared(b, pos)
      BY <1>1, <1>16 DEF BlockOK
    <3> QED
      BY <1>4, <3>1 DEF Cleared, n
  <2>3. ASSUME NEW s \in 0..(n - 1), NEW g, g = Offset(pos.tile) + s
        PROVE  ToCome(b, q, g)' = SlotRows(b, g)
    <3>1. ToCome(b, q, g)' =
            {p \in SlotRows(b, g)' : \E u \in Threads', e \in Features' :
               <<e, p>> \in TasksAt(b, u, q)' \ Begun(b, u)' /\ Slot(e, p)' = g}
      BY Zenon DEF ToCome
    <3>2. \A p \in SlotRows(b, g) : \E u \in Threads, e \in Features : <<e, p>> \in Work(b, u, q) /\ Slot(e, p) = g
      <4>1. s \in 0..(TileBins(q.tile) - 1) /\ g = Offset(q.tile) + s
        BY <2>1, <2>3 DEF n
      <4> QED
        <5> SUFFICES ASSUME NEW p \in SlotRows(b, g)
                     PROVE  \E u \in Threads, e \in Features : <<e, p>> \in Work(b, u, q) /\ Slot(e, p) = g
          OBVIOUS
        <5>1. CallOK /\ PlaceOK(q) /\ q.phase = "add"
          BY <1>1, <1>5, <2>1
        <5> HIDE DEF n
        <5> QED
          BY <4>1, <5>1, AllToCome
    <3>3. \A p \in SlotRows(b, g) : \E u \in Threads', e \in Features' :
            <<e, p>> \in TasksAt(b, u, q)' \ Begun(b, u)' /\ Slot(e, p)' = g
      BY <1>8, <1>9, <1>12, <3>2
    <3> QED
      BY <1>8, <3>1, <3>3
  <2>4. Added(b, q)'
    <3> SUFFICES ASSUME NEW s \in 0..(n - 1), NEW g, g = Offset(pos.tile) + s
                 PROVE  Same(lo'[b][s] + Radix * (hi'[b][s] + Carried(b, g)') + GradSum(ToCome(b, q, g)'),
                             GradSum(SlotRows(b, g)))
      BY <1>8, <2>1 DEF Added, n
    <3>1. lo'[b][s] = 0 /\ hi'[b][s] = 0 /\ Carried(b, g)' = 0 /\ ToCome(b, q, g)' = SlotRows(b, g)
      BY <1>7, <1>13, <2>2, <2>3
    <3>2. 0 + Radix * (0 + 0) + GradSum(SlotRows(b, g)) = GradSum(SlotRows(b, g))
      BY <1>14, <1>15
    <3>3. Same(0 + Radix * (0 + 0) + GradSum(SlotRows(b, g)), GradSum(SlotRows(b, g)))
      BY <1>14, <3>2, SameFacts
    <3> QED
      BY <3>1, <3>3
  <2>5. BlockOK(b, q)'
    BY <1>10, <1>11, <2>1, <2>4 DEF BlockOK
  <2>6. \A g : Owes(b, q, g)' <=> Owes(b, pos, g)
    <3>1. Offset(q.tile)' = Offset(pos.tile)
      BY <1>8, <2>1
    <3> QED
      BY <1>16, <2>1, <3>1 DEF Owes
  <2> QED
    BY <2>5, <2>6
<1>17. ASSUME pos.phase = "add"
       PROVE  BlockOK(b, q)' /\ \A g \in Bins : Owes(b, q, g)' <=> Owes(b, pos, g)
  <2>1. q.tile = pos.tile /\ q.phase = "flush"
    BY <1>5, <1>17
  <2>2. \A g : ToCome(b, pos, g) = {}
    BY <1>4 DEF ToCome
  <2>3. GradSum({}) = 0
    <3>1. NodeOf(b) \in DOMAIN call.spans
      BY <1>1, NodeIs, BlocksAre
    <3> QED
      BY <1>1, <3>1, GradSums
  <2>4. Complete(b, q)'
    <3> SUFFICES ASSUME NEW s \in 0..(n - 1), NEW g, g = Offset(pos.tile) + s
                 PROVE  Same(lo'[b][s] + Radix * hi'[b][s], GradSum(SlotRows(b, g)))
      BY <1>8, <2>1 DEF Complete, n
    <3>1. Same(lo[b][s] + Radix * (hi[b][s] + Carried(b, g)) + GradSum(ToCome(b, pos, g)),
               GradSum(SlotRows(b, g)))
      BY <1>1, <1>17 DEF BlockOK, Added, n
    <3>2. Same(lo[b][s] + Radix * (hi[b][s] + 0) + 0, GradSum(SlotRows(b, g)))
      BY <1>13, <2>2, <2>3, <3>1
    <3>3. lo[b][s] \in Int /\ hi[b][s] \in Int
      <4>1. n <= SharedWords /\ SharedWords \in Nat
        BY <1>1, <1>6, SharedIs DEF n
      <4>2. s \in 0..(SharedWords - 1)
        BY <1>6, <4>1
      <4>3. lo[b][s] \in 0..(Radix - 1) /\ hi[b][s] \in 0..(Radix - 1)
        BY <1>1, <4>2, TypeFacts
      <4> QED
        BY <4>3
    <3>4. lo[b][s] + Radix * (hi[b][s] + 0) + 0 = lo[b][s] + Radix * hi[b][s]
      BY <1>15, <3>3
    <3> QED
      BY <1>7, <3>2, <3>4
  <2>5. BlockOK(b, q)'
    BY <1>10, <1>11, <2>1, <2>4 DEF BlockOK
  <2>6. ASSUME NEW g \in Bins PROVE Owes(b, q, g)' <=> Owes(b, pos, g)
    <3>1. Owes(b, q, g)' <=>
            /\ g >= Offset(q.tile)'
            /\ q.phase = "flush" /\ g < Offset(q.tile)' + TileBins(q.tile)'
                 => \E u \in Threads' : 2 * (g - Offset(q.tile)') \in TasksAt(b, u, q)'
      BY Zenon DEF Owes
    <3>2. Offset(q.tile)' = Offset(pos.tile) /\ TileBins(q.tile)' = n /\ TileBins(q.tile) = n
      BY <1>8, <2>1 DEF n
    <3>3. Owes(b, q, g)' <=>
            /\ g >= Offset(pos.tile)
            /\ g < Offset(pos.tile) + n => \E u \in Threads : 2 * (g - Offset(pos.tile)) \in Work(b, u, q)
      BY <1>8, <1>9, <2>1, <3>1, <3>2
    <3>4. Owes(b, pos, g) <=> g >= Offset(pos.tile)
      BY <1>17 DEF Owes
    <3>5. ASSUME g >= Offset(pos.tile), g < Offset(pos.tile) + n
          PROVE  \E u \in Threads : 2 * (g - Offset(pos.tile)) \in Work(b, u, q)
      <4>1. g \in Int
        BY DEF Bins
      <4>2. g - Offset(pos.tile) \in 0..(n - 1)
        BY <1>6, <3>5, <4>1
      <4> QED
        BY <1>1, <1>6, <2>1, <3>2, <4>2, WorkCovers
    <3> QED
      BY <3>3, <3>4, <3>5
  <2> QED
    BY <2>5, <2>6
<1>18. ASSUME pos.phase = "flush"
       PROVE  BlockOK(b, q)' /\ \A g \in Bins : SlotRows(b, g) = {} \/ (Owes(b, q, g)' <=> Owes(b, pos, g))
  <2> DEFINE l == TileLast(pos.tile) + 1
             h == FirstTile(l)
             m == TileBins(h)
  <2>1. l \in TileStarts \cup {Len(nBins) + 1} /\ h \in TileStarts \cup {Len(nBins) + 1} /\ h >= l /\ q = At(h)
    BY <1>1, <1>5, <1>18, FirstTileIs
  <2>2. q.tile = h /\ q.phase \in {"clear", "done"}
    BY <1>1, <2>1, AtIs
  <2>3. Offset(l) = Offset(pos.tile) + n
    BY <1>1, <1>6, OffsetsAre DEF n
  <2>4. Offset(l) \in Nat /\ Offset(h) \in Nat /\ Offset(l) <= Offset(h)
    <3>1. Len(nBins) \in Nat /\ Features = 1..Len(nBins) /\ TileStarts \subseteq Features
      BY <1>1, CallFacts, StartsFacts
    <3> HIDE DEF l, h
    <3>2. l \in 1..(Len(nBins) + 1) /\ h \in 1..(Len(nBins) + 1)
      BY <2>1, <3>1
    <3> QED
      BY <1>1, <2>1, <3>2, OffsetsAre
  <2> HIDE DEF l, h
  <2>5. q.phase = "clear" => Cleared(b, q)'
    <3> SUFFICES ASSUME q.phase = "clear", NEW s \in 0..(m - 1)
                 PROVE  /\ \E u \in Threads : s \in TasksAt(b, u, q)'
                        /\ \E u \in Threads : m + s \in TasksAt(b, u, q)'
      BY <1>8, <2>2 DEF Cleared
    <3>1. m \in Nat
      <4>1. h \in Features
        BY <1>1, <1>5, <2>2, PlaceFacts
      <4> QED
        BY <1>1, <4>1, TileIs
    <3> HIDE DEF m
    <3>2. s \in 0..(2 * m - 1) /\ m + s \in 0..(2 * m - 1)
      BY <3>1
    <3>3. \A w \in 0..(2 * m - 1) : \E u \in Threads : w \in Work(b, u, q)
      BY <1>1, <2>2, <3>1, WorkCovers DEF m
    <3> QED
      BY <1>9, <3>2, <3>3
  <2>6. BlockOK(b, q)'
    BY <1>10, <1>11, <2>2, <2>5 DEF BlockOK
  <2>7. ASSUME NEW g \in Bins PROVE SlotRows(b, g) = {} \/ (Owes(b, q, g)' <=> Owes(b, pos, g))
    <3>1. Owes(b, q, g)' <=> g >= Offset(h)
      <4>1. Offset(q.tile)' = Offset(h)
        BY <1>8, <2>2
      <4> QED
        BY <2>2, <4>1 DEF Owes
    <3>2. Owes(b, pos, g) <=> g >= Offset(pos.tile) /\ ~(g < Offset(pos.tile) + n)
      BY <1>4, <1>18 DEF Owes, n
    <3>3. g \in Int
      BY DEF Bins
    <3>4. Owes(b, pos, g) <=> g >= Offset(l)
      BY <1>6, <2>3, <3>2, <3>3
    <3>5. CASE Offset(l) <= g /\ g < Offset(h)
      BY <1>1, <2>1, <3>3, <3>5, SkippedEmpty DEF h
    <3>6. CASE ~(Offset(l) <= g /\ g < Offset(h))
      BY <2>4, <3>1, <3>3, <3>4, <3>6
    <3> QED
      BY <3>5, <3>6
  <2> QED
    BY <2>6, <2>7
<1>19. BlockOK(b, q)' /\ \A g \in Bins : SlotRows(b, g) = {} \/ (Owes(b, q, g)' <=> Owes(b, pos, g))
  BY <1>6, <1>16, <1>17, <1>18
<1> QED
  BY <1>1, <1>5, <1>7, <1>19, InvStep DEF pos

----------------------------------------------------------------------------
(***************************************************************************)
(* The invariant of a launch holds                                         *)
(***************************************************************************)

\* Before the first tile there are no rows.
LEMMA FirstPlace ==
  ASSUME CallOK
  PROVE  /\ 1 \in TileStarts \cup {Len(nBins) + 1} /\ Offset(1) = 0
         /\ FirstTile(1) \in TileStarts \cup {Len(nBins) + 1}
         /\ PlaceOK(At(FirstTile(1))) /\ At(FirstTile(1)).tile = FirstTile(1)
         /\ At(FirstTile(1)).phase \in {"clear", "done"}
         /\ \A b \in Blocks : \A g \in Bins : ~(g >= Offset(FirstTile(1))) => SlotRows(b, g) = {}
<1>1. 1 \in TileStarts \cup {Len(nBins) + 1}
  BY StartsFacts, CallFacts
<1>2. Offset(1) = 0
  <2>1. 1 - 1 = 0
    OBVIOUS
  <2>2. BinsOf(1, 0) = Total(nBins, 1..0)
    BY BinsAreTotal
  <2>3. 1..0 = {} /\ IsFiniteSet({})
    BY FS_EmptySet
  <2>4. Total(nBins, {}) = 0
    BY <2>3, TotalStep
  <2> QED
    BY <2>1, <2>2, <2>3, <2>4 DEF Offset
<1>3. FirstTile(1) \in TileStarts \cup {Len(nBins) + 1}
  BY <1>1, FirstTileIs
<1>4. /\ PlaceOK(At(FirstTile(1))) /\ At(FirstTile(1)).tile = FirstTile(1)
      /\ At(FirstTile(1)).phase \in {"clear", "done"}
  BY <1>3, AtIs
<1>5. ASSUME NEW b \in Blocks, NEW g \in Bins, ~(g >= Offset(FirstTile(1))) PROVE SlotRows(b, g) = {}
  <2>1. g \in Int /\ Offset(1) <= g
    BY <1>2 DEF Bins
  <2>2. Offset(FirstTile(1)) \in Nat
    <3>1. Len(nBins) \in Nat /\ Features = 1..Len(nBins) /\ TileStarts \subseteq Features
      BY CallFacts, StartsFacts
    <3>2. FirstTile(1) \in 1..(Len(nBins) + 1)
      <4> DEFINE N == Len(nBins)
                 h == FirstTile(1)
      <4>1. h \in TileStarts \/ h = N + 1
        BY <1>3
      <4> HIDE DEF h, N
      <4>2. N \in Nat /\ (h \in 1..N \/ h = N + 1)
        BY <3>1, <4>1 DEF N
      <4>3. h \in 1..(N + 1)
        BY <4>2
      <4> QED
        BY <4>3 DEF h, N
    <3> QED
      BY <3>2, OffsetsAre
  <2>3. g < Offset(FirstTile(1))
    BY <1>5, <2>1, <2>2
  <2> QED
    BY <1>1, <2>1, <2>3, SkippedEmpty
<1> QED
  BY <1>1, <1>2, <1>3, <1>4, <1>5

LEMMA KernelStarts == KernelInit => KernelInv
<1> SUFFICES ASSUME KernelInit PROVE KernelInv
  OBVIOUS
<1> DEFINE pos == At(FirstTile(1))
           front == [b \in Blocks |-> pos]
           n == TileBins(pos.tile)
<1>1. CallOK
  BY Zenon DEF KernelInit, CallOK
<1>2. /\ PlaceOK(pos) /\ pos.tile = FirstTile(1) /\ pos.phase \in {"clear", "done"} /\ pos \in Places
      /\ \A b \in Blocks : \A g \in Bins : ~(g >= Offset(pos.tile)) => SlotRows(b, g) = {}
  BY <1>1, FirstPlace, PlaceFacts
<1>3. /\ lo \in [Blocks -> [0..(SharedWords - 1) -> Garbage]]
      /\ hi \in [Blocks -> [0..(SharedWords - 1) -> Garbage]]
      /\ place = [b \in Blocks |-> [t \in Threads |-> pos]]
      /\ tasks = [b \in Blocks |-> [t \in Threads |-> Work(b, t, pos)]]
      /\ carry = [b \in Blocks |-> [t \in Threads |-> << >>]]
      /\ hists = [k \in DOMAIN call.spans |-> [g \in Bins |-> 0]]
  BY Zenon DEF KernelInit, Bins
<1> HIDE DEF pos
<1>4. Garbage \subseteq 0..(Radix - 1) /\ 0 \in 0..(Whole - 1)
  BY KernelParams, RadixIs
<1>5. KernelTypeOK
  <2>1. /\ lo \in [Blocks -> [0..(SharedWords - 1) -> 0..(Radix - 1)]]
        /\ hi \in [Blocks -> [0..(SharedWords - 1) -> 0..(Radix - 1)]]
    BY <1>3, <1>4
  <2>2. place \in [Blocks -> [Threads -> Places]]
    BY <1>2, <1>3
  <2>3. /\ tasks = [b \in Blocks |-> [t \in Threads |-> tasks[b][t]]]
        /\ \A b \in Blocks, t \in Threads : tasks[b][t] \subseteq Work(b, t, place[b][t])
    BY <1>3
  <2>4. carry \in [Blocks -> [Threads -> {<< >>} \cup {<<c>> : c \in 0..Radix}]]
    BY <1>3
  <2>5. hists \in [DOMAIN call.spans -> [Bins -> 0..(Whole - 1)]]
    BY <1>3, <1>4
  <2> QED
    BY <1>1, <2>1, <2>2, <2>3, <2>4, <2>5, Zenon DEF KernelTypeOK, CallOK, Bins
<1>6. ASSUME NEW b \in Blocks PROVE BlockOK(b, pos)
  <2>1. IsFront(b, pos)
    <3>1. 0 \in Threads
      BY <1>1, BlocksAre DEF Threads
    <3> QED
      BY <1>3, <3>1 DEF IsFront
  <2>2. \A t \in Threads : TasksAt(b, t, pos) = Work(b, t, pos) /\ carry[b][t] = << >>
    BY <1>3 DEF TasksAt
  <2>3. TasksOK(b, pos)
    BY <2>2 DEF TasksOK
  <2>4. ASSUME pos.phase = "clear" PROVE Cleared(b, pos)
    <3>1. n \in Nat
      <4>1. pos.tile \in Features
        BY <1>1, <1>2, <2>4, PlaceFacts
      <4> QED
        BY <1>1, <4>1, TileIs
    <3>2. \A w \in 0..(2 * n - 1) : \E t \in Threads : w \in Work(b, t, pos)
      BY <1>1, <2>4, <3>1, WorkCovers
    <3> HIDE DEF n
    <3>3. \A s \in 0..(n - 1) : s \in 0..(2 * n - 1) /\ n + s \in 0..(2 * n - 1)
      BY <3>1
    <3>4. \A s \in 0..(n - 1) : /\ \E t \in Threads : s \in TasksAt(b, t, pos)
                               /\ \E t \in Threads : n + s \in TasksAt(b, t, pos)
      BY <2>2, <3>2, <3>3
    <3> QED
      BY <3>4 DEF Cleared, n
  <2> QED
    BY <1>2, <2>1, <2>3, <2>4 DEF BlockOK
<1>7. \A b \in Blocks : \A g : Owes(b, pos, g) <=> g >= Offset(pos.tile)
  BY <1>2 DEF Owes
<1>8. ASSUME NEW k \in DOMAIN call.spans, NEW g \in Bins
      PROVE  OwedRows(k, g, front) = NodeRows(k, g)
  <2>1. Owing(k, g, front) = {b \in Blocks : NodeOf(b) = k /\ g >= Offset(pos.tile)}
    BY <1>7 DEF Owing
  <2>2. \A b \in Owing(k, g, front) : SlotRows(b, g) \in SUBSET NodeRows(k, g)
    BY <1>1, <2>1, SlotRowsAre
  <2>3. \A p \in NodeRows(k, g) : \E b \in Blocks : NodeOf(b) = k /\ p \in SlotRows(b, g)
    BY <1>1, SlotRowsAre
  <2>4. \A p \in NodeRows(k, g) : \E b \in Owing(k, g, front) : p \in SlotRows(b, g)
    BY <1>2, <2>1, <2>3
  <2> HIDE DEF front
  <2> QED
    BY <2>2, <2>4 DEF OwedRows
<1> HIDE DEF front
<1>9. HistsOK(front)
  <2> SUFFICES ASSUME NEW k \in DOMAIN call.spans, NEW g \in Bins
               PROVE  Same(hists[k][g] + GradSum(OwedRows(k, g, front)), GradSum(NodeRows(k, g)))
    BY DEF HistsOK
  <2>1. GradSum(NodeRows(k, g)) \in Int
    <3>1. NodeRows(k, g) \in SUBSET SpanOf(call, k)
      BY DEF NodeRows
    <3> QED
      BY <1>1, <3>1, GradSums
  <2>2. hists[k][g] = 0 /\ OwedRows(k, g, front) = NodeRows(k, g)
    BY <1>3, <1>8
  <2>3. 0 + GradSum(NodeRows(k, g)) = GradSum(NodeRows(k, g))
    BY <2>1
  <2>4. Same(GradSum(NodeRows(k, g)), GradSum(NodeRows(k, g)))
    BY <2>1, SameFacts
  <2> QED
    BY <2>2, <2>3, <2>4
<1>10. front \in [Blocks -> Places] /\ \A b \in Blocks : BlockOK(b, front[b])
  BY <1>2, <1>6 DEF front
<1> QED
  BY <1>5, <1>9, <1>10 DEF KernelInv, KInv

\* A launch may stutter.
LEMMA KernelStutters ==
  ASSUME NEW front \in [Blocks -> Places], KInv(front), UNCHANGED kernel_vars
  PROVE  KernelInv'
<1>1. KernelTypeOK /\ CallOK
  BY TypeFacts DEF KInv
<1>2. Unchanged /\ UNCHANGED <<lo, hi, place, tasks, carry, hists>>
  BY DEF kernel_vars, Unchanged
<1>3. KernelTypeOK'
  <2>1. /\ lo \in [Blocks -> [0..(SharedWords - 1) -> 0..(Radix - 1)]]
        /\ hi \in [Blocks -> [0..(SharedWords - 1) -> 0..(Radix - 1)]]
        /\ place \in [Blocks -> [Threads -> Places]]
        /\ tasks = [b \in Blocks |-> [t \in Threads |-> tasks[b][t]]]
        /\ \A b \in Blocks, t \in Threads : tasks[b][t] \subseteq Work(b, t, place[b][t])
        /\ carry \in [Blocks -> [Threads -> {<< >>} \cup {<<d>> : d \in 0..Radix}]]
        /\ hists \in [DOMAIN call.spans -> [Bins -> 0..(Whole - 1)]]
    BY <1>1, Zenon DEF KernelTypeOK, Bins
  <2> QED
    BY <1>1, <1>2, <2>1, TypeKept
<1>4. /\ Blocks' = Blocks /\ Bins' = Bins /\ DOMAIN call'.spans = DOMAIN call.spans
      /\ \A b \in Blocks : NodeOf(b)' = NodeOf(b)
      /\ \A b \in Blocks : \A g : SlotRows(b, g)' = SlotRows(b, g)
      /\ \A S : GradSum(S)' = GradSum(S)
      /\ \A k, g : NodeRows(k, g)' = NodeRows(k, g)
  <2>1. nBins' = nBins /\ call' = call
    BY <1>2 DEF Unchanged
  <2>2. Offset(Len(nBins) + 1)' = Offset(Len(nBins) + 1)
    BY <1>2, <2>1, TilesFrame
  <2>3. Bins' = Bins
    BY <2>1, <2>2 DEF Bins
  <2> QED
    BY <1>1, <1>2, <2>1, <2>3, WorkFrame, BlocksFrame
<1>5. \A b \in Blocks : \A pos : (BlockOK(b, pos) => BlockOK(b, pos)') /\ \A g : Owes(b, pos, g)' = Owes(b, pos, g)
  BY <1>1, <1>2, BlockKept
<1>6. \A b \in Blocks : BlockOK(b, front[b])'
  <2>1. \A b \in Blocks : BlockOK(b, front[b])
    BY DEF KInv
  <2> QED
    BY <1>5, <2>1
<1>7. ASSUME NEW k, NEW g PROVE OwedRows(k, g, front)' = OwedRows(k, g, front)
  <2>1. Owing(k, g, front)' = Owing(k, g, front) /\ Owing(k, g, front) \subseteq Blocks
    <3>1. \A b \in Blocks : Owes(b, front[b], g)' <=> Owes(b, front[b], g)
      BY <1>5
    <3> QED
      BY <1>4, <3>1 DEF Owing
  <2>2. OwedRows(k, g, front)' = UNION {SlotRows(b, g)' : b \in Owing(k, g, front)'}
    BY Zenon DEF OwedRows
  <2> QED
    BY <1>4, <2>1, <2>2 DEF OwedRows
<1>8. HistsOK(front)'
  <2>1. HistsOK(front)' <=>
          \A j \in DOMAIN call'.spans, i \in Bins' :
            Same(hists'[j][i] + GradSum(OwedRows(j, i, front))', GradSum(NodeRows(j, i))')
    BY DEF HistsOK
  <2>2. \A j, i : GradSum(OwedRows(j, i, front))' = GradSum(OwedRows(j, i, front))
    BY <1>4, <1>7
  <2>3. \A j, i : GradSum(NodeRows(j, i))' = GradSum(NodeRows(j, i))
    BY <1>4
  <2>4. HistsOK(front)
    BY DEF KInv
  <2> QED
    BY <1>2, <1>4, <2>1, <2>2, <2>3, <2>4 DEF HistsOK
<1>9. KInv(front)'
  BY <1>3, <1>4, <1>6, <1>8 DEF KInv
<1> QED
  BY <1>4, <1>9 DEF KernelInv

LEMMA KernelSteps == KernelInv /\ [KernelNext]_kernel_vars => KernelInv'
<1> SUFFICES ASSUME NEW front \in [Blocks -> Places], KInv(front), [KernelNext]_kernel_vars
             PROVE  KernelInv'
  BY DEF KernelInv
<1>1. CASE UNCHANGED kernel_vars
  BY <1>1, KernelStutters
<1>2. ASSUME NEW b \in Blocks, NEW t \in Threads, Clear(b, t) PROVE KernelInv'
  BY <1>2, ClearKeeps
<1>3. ASSUME NEW b \in Blocks, NEW t \in Threads, AddLow(b, t) PROVE KernelInv'
  BY <1>3, AddLowKeeps
<1>4. ASSUME NEW b \in Blocks, NEW t \in Threads, AddHigh(b, t) PROVE KernelInv'
  BY <1>4, AddHighKeeps
<1>5. ASSUME NEW b \in Blocks, NEW t \in Threads, Flush(b, t) PROVE KernelInv'
  BY <1>5, FlushKeeps
<1>6. ASSUME NEW b \in Blocks, NEW t \in Threads, PassBarrier(b, t) PROVE KernelInv'
  BY <1>6, CatchUpKeeps, MovesOnKeeps
<1> QED
  BY <1>1, <1>2, <1>3, <1>4, <1>5, <1>6 DEF KernelNext

\* The threads of a block are at most a barrier apart; what their tile holds, together with
\* the carries and the rows to come, is the sum of the block's rows, and what the
\* histograms hold, together with the blocks yet to flush, is the sum of the nodes' rows.
THEOREM KernelInvariant == KernelSpec => []KernelInv
<1>1. KernelInit => KernelInv
  BY KernelStarts
<1>2. KernelInv /\ [KernelNext]_kernel_vars => KernelInv'
  BY KernelSteps
<1> QED
  BY <1>1, <1>2, PTL DEF KernelSpec

\* What each thread may hold: shared memory, its tasks and its carries have their types.
THEOREM KernelTypeCorrect == KernelSpec => []KernelTypeOK
<1>1. KernelInv => KernelTypeOK
  BY DEF KernelInv, KInv
<1> QED
  BY <1>1, KernelInvariant, PTL

\* The rows of a node that belong to bin x of feature f.
LEMMA NodeRowsAre ==
  ASSUME CallOK, NEW k \in DOMAIN call.spans, NEW f \in Features, NEW x \in 0..(nBins[f] - 1)
  PROVE  NodeRows(k, Offset(f) + x) =
           IF f \in call.selected THEN {p \in SpanOf(call, k) : BinAt(f, p) = x} ELSE {}
<1>1. ASSUME NEW p \in SpanOf(call, k)
      PROVE  (\E e \in Features : Counts(e, p) /\ Slot(e, p) = Offset(f) + x)
               <=> f \in call.selected /\ BinAt(f, p) = x
  <2>1. ASSUME NEW e \in Features, Counts(e, p), Slot(e, p) = Offset(f) + x
        PROVE  f \in call.selected /\ BinAt(f, p) = x
    <3>1. BinAt(e, p) \in 0..(nBins[e] - 1) /\ Slot(e, p) = Offset(e) + BinAt(e, p)
      BY <2>1, CountsFacts
    <3>2. \A d \in Features : \A y :
            y \in 0..(nBins[d] - 1) /\ Offset(d) + y = Offset(f) + x => d = f /\ y = x
      BY SlotsAre
    <3>3. e = f /\ BinAt(e, p) = x
      BY <2>1, <3>1, <3>2
    <3> QED
      BY <2>1, <3>3 DEF Counts
  <2>2. ASSUME f \in call.selected, BinAt(f, p) = x PROVE Counts(f, p) /\ Slot(f, p) = Offset(f) + x
    <3>1. /\ nBins[f] \in Nat \ {0} /\ nBins[f] <= MaxTileBins /\ MaxTileBins \in Nat
          /\ Missing \notin 0..(MaxTileBins - 1)
      BY CallFacts
    <3>2. x \in 0..(MaxTileBins - 1)
      BY <3>1
    <3>3. x # Missing
      BY <3>1, <3>2
    <3> QED
      BY <2>2, <3>3 DEF Counts, Slot
  <2> QED
    BY <2>1, <2>2
<1> QED
  BY <1>1 DEF NodeRows

LEMMA EndedIsExact == KernelInv => SumsExact
<1> SUFFICES ASSUME NEW front \in [Blocks -> Places], KInv(front), KernelEnded,
                    NEW k \in DOMAIN call.spans, NEW f \in Features, NEW x \in 0..(nBins[f] - 1)
             PROVE  hists[k][Offset(f) + x] =
                      IF f \in call.selected THEN GradSum({p \in SpanOf(call, k) : BinAt(f, p) = x}) % Whole
                      ELSE 0
  BY DEF KernelInv, SumsExact
<1>1. KernelTypeOK /\ CallOK
  BY TypeFacts DEF KInv
<1> DEFINE g == Offset(f) + x
<1>2. g \in Bins
  BY <1>1, SlotsAre DEF Bins
<1>3. ASSUME NEW b \in Blocks PROVE ~Owes(b, front[b], g)
  <2>1. PlaceOK(front[b]) /\ \E t \in Threads : place[b][t] = front[b]
    BY DEF KInv, BlockOK, IsFront
  <2>2. front[b].phase = "done"
    BY <2>1 DEF KernelEnded
  <2>3. front[b].tile = Len(nBins) + 1
    BY <1>1, <2>1, <2>2, PlaceFacts
  <2>4. g \in Int /\ Offset(Len(nBins) + 1) \in Int /\ g < Offset(Len(nBins) + 1)
    BY <1>1, <1>2, TileInBins DEF Bins
  <2> HIDE DEF g
  <2>5. ~(g >= Offset(front[b].tile))
    BY <2>3, <2>4
  <2> QED
    BY <2>5 DEF Owes
<1>4. NodeRows(k, g) = IF f \in call.selected THEN {p \in SpanOf(call, k) : BinAt(f, p) = x} ELSE {}
  BY <1>1, NodeRowsAre
<1> HIDE DEF g
<1>5. OwedRows(k, g, front) = {}
  BY <1>3 DEF OwedRows, Owing
<1>6. GradSum({}) = 0 /\ GradSum(NodeRows(k, g)) \in Nat
  <2>1. NodeRows(k, g) \in SUBSET SpanOf(call, k)
    BY DEF NodeRows
  <2> QED
    BY <1>1, <2>1, GradSums
<1>7. Same(hists[k][g] + 0, GradSum(NodeRows(k, g)))
  BY <1>2, <1>5, <1>6 DEF KInv, HistsOK
<1>8. hists[k][g] \in 0..(Whole - 1) /\ Whole \in Nat
  BY <1>1, <1>2, TypeFacts, RadixIs
<1> DEFINE h == hists[k][g]
           S == GradSum(NodeRows(k, g))
<1>9. h \in Nat /\ h < Whole /\ S \in Nat /\ h + 0 = h
  BY <1>6, <1>8
<1>10. Same(h, S)
  BY <1>7, <1>9
<1> HIDE DEF h, S
<1>11. h % Whole = S % Whole /\ h % Whole = h /\ 0 % Whole = 0
  <2>1. h % Whole = S % Whole
    BY <1>9, <1>10, SameFacts
  <2>2. ASSUME NEW a \in Nat, a < Whole PROVE a % Whole = a
    <3>1. Whole \in Nat /\ Whole > 0
      BY <1>8, <2>2
    <3> QED
      BY <2>2, <3>1
  <2>3. 0 \in Nat /\ 0 < Whole
    BY <1>8, <1>9
  <2> QED
    BY <1>9, <2>1, <2>2, <2>3
<1>12. h = S % Whole
  BY <1>11
<1>13. CASE f \in call.selected
  BY <1>4, <1>12, <1>13 DEF h, S, g
<1>14. CASE f \notin call.selected
  <2>1. NodeRows(k, g) = {}
    BY <1>4, <1>14
  <2>2. S = 0
    BY <1>6, <2>1 DEF S
  <2>3. h = 0
    BY <1>11, <1>12, <2>2
  <2> QED
    BY <1>14, <2>3 DEF h, g
<1> QED
  BY <1>13, <1>14

LEMMA CarriedIs ==
  \A b, g : MapThenSumSet(LAMBDA t : Carries(b, g)[t], Threads) = Carried(b, g)
BY DEF Carried, MapThenSumSet, Total, FoldFunctionOnSet

LEMMA AddingAddsUp == KernelInv => PlanesAddUp
<1> SUFFICES ASSUME NEW front \in [Blocks -> Places], KInv(front),
                    NEW b \in Blocks, NEW f \in Features,
                    \A t \in Threads : place[b][t] = [tile |-> f, phase |-> "add"],
                    NEW s \in 0..(TileBins(f) - 1), NEW g, g = Offset(f) + s
             PROVE  (lo[b][s] + Radix * (hi[b][s] + Carried(b, g)) + GradSum(RowsToCome(b, g))) % Whole
                      = GradSum(SlotRows(b, g)) % Whole
  BY CarriedIs DEF KernelInv, PlanesAddUp
<1> DEFINE pos == [tile |-> f, phase |-> "add"]
<1>1. KernelTypeOK /\ CallOK /\ BlockOK(b, front[b])
  BY TypeFacts DEF KInv
<1>2. pos.tile = f /\ pos.phase = "add" /\ \A t \in Threads : place[b][t] = pos
  OBVIOUS
<1> HIDE DEF pos
<1>3. front[b] = pos
  <2>1. \E t \in Threads : place[b][t] = front[b]
    BY <1>1 DEF BlockOK, IsFront
  <2> QED
    BY <1>2, <2>1
<1>4. Added(b, pos) /\ PlaceOK(pos)
  BY <1>1, <1>2, <1>3 DEF BlockOK
<1>5. Same(lo[b][s] + Radix * (hi[b][s] + Carried(b, g)) + GradSum(ToCome(b, pos, g)), GradSum(SlotRows(b, g)))
  BY <1>2, <1>4 DEF Added
<1>6. ToCome(b, pos, g) = RowsToCome(b, g)
  <2>1. \A t \in Threads : TasksAt(b, t, pos) = tasks[b][t]
    BY <1>2 DEF TasksAt
  <2> QED
    BY <2>1 DEF ToCome, RowsToCome
<1>7. GradSum(RowsToCome(b, g)) \in Int /\ GradSum(SlotRows(b, g)) \in Int
  <2>1. NodeOf(b) \in DOMAIN call.spans
    BY <1>1, NodeIs, BlocksAre
  <2>2. SlotRows(b, g) \in SUBSET SpanOf(call, NodeOf(b))
    <3>1. SlotRows(b, g) \in SUBSET NodeRows(NodeOf(b), g)
      BY <1>1, SlotRowsAre
    <3> QED
      BY <3>1 DEF NodeRows
  <2>3. RowsToCome(b, g) \in SUBSET SpanOf(call, NodeOf(b))
    BY <2>2 DEF RowsToCome
  <2> QED
    BY <1>1, <2>1, <2>2, <2>3, GradSums
<1>8. lo[b][s] \in Int /\ hi[b][s] \in Int /\ Radix \in Int /\ Carried(b, g) \in Int
  <2>1. f \in TileStarts /\ TileBins(f) \in Nat
    BY <1>1, <1>2, <1>4, PlaceFacts, TileIs
  <2>2. TileBins(f) <= SharedWords /\ SharedWords \in Nat
    BY <1>1, <2>1, SharedIs
  <2>3. s \in 0..(SharedWords - 1)
    BY <2>1, <2>2
  <2>4. lo[b][s] \in 0..(Radix - 1) /\ hi[b][s] \in 0..(Radix - 1)
    BY <1>1, <2>3, TypeFacts
  <2> QED
    BY <1>1, <2>4, CarriesAre, RadixIs
<1> DEFINE X == lo[b][s] + Radix * (hi[b][s] + Carried(b, g)) + GradSum(RowsToCome(b, g))
           Y == GradSum(SlotRows(b, g))
<1>9. X \in Int /\ Y \in Int
  BY <1>7, <1>8
<1>10. Same(X, Y)
  BY <1>5, <1>6
<1> HIDE DEF X, Y
<1>11. X % Whole = Y % Whole
  BY <1>9, <1>10, SameFacts
<1> QED
  BY <1>11 DEF X, Y

\* Every node has the sums of its own rows when the launch has ended, exact modulo the
\* range of a word, and on the way the halves of a sum, the carries and the rows to come
\* lose nothing: for every batch of spans, number of threads and cutting into tiles.
THEOREM LaunchIsExact == KernelSpec => []LaunchSumsExact
<1>1. KernelInv => LaunchSumsExact
  BY EndedIsExact, AddingAddsUp DEF LaunchSumsExact
<1> QED
  BY <1>1, KernelInvariant, PTL

=============================================================================
