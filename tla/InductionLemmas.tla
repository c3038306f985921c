-------------------------- MODULE InductionLemmas --------------------------
(***************************************************************************)
(* Induction and recursion over data, in a form the proofs of the          *)
(* components can use: every lemma is about sets and functions, none takes *)
(* an operator.  Induction is the least counterexample: a property of the  *)
(* naturals is a set of naturals, and a set that is not empty has a        *)
(* smallest element.  A recursive definition is a CHOOSE, which is the     *)
(* function meant once one such function exists.                           *)
(***************************************************************************)
EXTENDS Integers, FiniteSets, SequencesExt, FiniteSetTheorems,
        FunctionTheorems, TLAPS

(* A set of naturals that is not empty has a smallest element.             *)
LEMMA Smallest ==
  ASSUME NEW T, T \subseteq Nat, T # {}
  PROVE  \E n \in T : \A m \in T : n <= m
  <1>1. PICK n \in T : \A m \in T : <<m, n>> \notin OpToRel(<, Nat)
    BY NatLessThanWellFounded, WFMin
  <1>2. ASSUME NEW k \in Nat, NEW m \in Nat
        PROVE  <<m, k>> \in OpToRel(<, Nat) <=> m < k
    BY DEF OpToRel
  <1>3. ASSUME NEW m \in T PROVE n <= m
    <2>1. n \in Nat /\ m \in Nat
      OBVIOUS
    <2>2. ~(m < n)
      BY <1>1, <1>2, <2>1
    <2> QED BY <2>1, <2>2
  <1> QED BY <1>3

LEMMA MinInSet ==
  ASSUME NEW T, T \subseteq Nat, T # {}
  PROVE  Min(T) \in T /\ \A m \in T : Min(T) <= m
  <1>1. \E n \in T : \A m \in T : n <= m
    BY Smallest
  <1> QED BY <1>1 DEF Min

(* Induction over the naturals.                                            *)
LEMMA Induction ==
  ASSUME NEW T, 0 \in T, \A n \in Nat : n \in T => n + 1 \in T
  PROVE  Nat \subseteq T
  <1> DEFINE U == Nat \ T
  <1>1. SUFFICES ASSUME U # {} PROVE FALSE
    OBVIOUS
  <1>2. PICK n \in U : \A m \in U : n <= m
    BY <1>1, Smallest
  <1>3. n - 1 \in Nat /\ n - 1 \notin U
    BY <1>2
  <1> QED BY <1>3

(* Induction over the first n numbers.                                     *)
LEMMA BoundedInduction ==
  ASSUME NEW n \in Nat, NEW T, 0 \in T, \A k \in 0..n-1 : k \in T => k + 1 \in T
  PROVE  0..n \subseteq T
  <1> DEFINE U == T \cup {k \in Nat : k > n}
  <1>1. Nat \subseteq U
    <2>1. 0 \in U
      OBVIOUS
    <2>2. ASSUME NEW k \in Nat, k \in U PROVE k + 1 \in U
      BY <2>2
    <2> HIDE DEF U
    <2> QED BY <2>1, <2>2, Induction
  <1> QED BY <1>1

(* A function on 0..n may be defined by its value at 0 and by what follows *)
(* from each value.                                                        *)
LEMMA BoundedRecursion ==
  ASSUME NEW n \in Nat, NEW V, NEW z \in V, NEW step \in [V \X (1..n) -> V]
  PROVE  \E f \in [0..n -> V] : f[0] = z /\ \A k \in 1..n : f[k] = step[<<f[k-1], k>>]
  <1> DEFINE Good(m, f) == /\ f \in [0..m -> V] /\ f[0] = z
                           /\ \A k \in 1..m : f[k] = step[<<f[k-1], k>>]
             T == {m \in Nat : \E f : Good(m, f)}
  <1>1. 0 \in T
    <2>1. Good(0, [k \in 0..0 |-> z])
      OBVIOUS
    <2> QED BY <2>1
  <1>2. ASSUME NEW m \in 0..n-1, m \in T PROVE m + 1 \in T
    <2>1. PICK f : Good(m, f)
      BY <1>2
    <2> DEFINE v == step[<<f[m], m+1>>]
               g == [k \in 0..m+1 |-> IF k <= m THEN f[k] ELSE v]
    <2>2. f \in [0..m -> V] /\ f[0] = z /\ \A k \in 1..m : f[k] = step[<<f[k-1], k>>]
      BY <2>1
    <2>3. v \in V
      BY <2>2
    <2>4. /\ g[m+1] = v
          /\ \A k \in 0..m : g[k] = f[k]
      OBVIOUS
    <2>5. g \in [0..m+1 -> V]
      BY <2>2, <2>3
    <2> HIDE DEF g
    <2>6. g[0] = z
      BY <2>2, <2>4
    <2>7. ASSUME NEW k \in 1..m+1 PROVE g[k] = step[<<g[k-1], k>>]
      <3>1. CASE k = m + 1
        BY <2>4, <3>1
      <3>2. CASE k \in 1..m
        BY <2>2, <2>4, <3>2
      <3> QED BY <3>1, <3>2
    <2>8. Good(m+1, g)
      BY <2>5, <2>6, <2>7
    <2> QED BY <2>8
  <1> HIDE DEF T
  <1>3. 0..n \subseteq T
    BY <1>1, <1>2, BoundedInduction
  <1>4. n \in T
    BY <1>3
  <1> QED BY <1>4 DEF T

-----------------------------------------------------------------------------
(* Folds.  A fold over a finite set takes its elements in the order in     *)
(* which ch picks them; the partial results, one for each subset, exist.   *)
Foldable(S, ch, V, z, step) ==
  /\ IsFiniteSet(S) /\ \A s \in SUBSET S : s # {} => ch[s] \in s
  /\ z \in V /\ step \in [V \X S -> V]

Folded(it, S, ch, V, z, step) ==
  /\ it \in [SUBSET S -> V]
  /\ \A s \in SUBSET S :
       it[s] = IF s = {} THEN z ELSE step[<<it[s \ {ch[s]}], ch[s]>>]

LEMMA FoldDefined ==
  ASSUME NEW S, NEW ch, NEW V, NEW z, NEW step, Foldable(S, ch, V, z, step)
  PROVE  \E it : Folded(it, S, ch, V, z, step)
  <1> DEFINE Sub(m) == {s \in SUBSET S : Cardinality(s) <= m}
             Good(m, it) ==
               /\ it \in [Sub(m) -> V]
               /\ \A s \in Sub(m) :
                    it[s] = IF s = {} THEN z ELSE step[<<it[s \ {ch[s]}], ch[s]>>]
             T == {m \in Nat : \E it : Good(m, it)}
  <1> USE DEF Foldable
  <1>1. ASSUME NEW s \in SUBSET S
        PROVE  /\ Cardinality(s) \in Nat /\ Cardinality(s) <= Cardinality(S)
               /\ Cardinality(s) = 0 <=> s = {}
               /\ s # {} => Cardinality(s \ {ch[s]}) = Cardinality(s) - 1
    <2>1. IsFiniteSet(s) /\ Cardinality(s) <= Cardinality(S)
      BY FS_Subset
    <2>2. Cardinality(s) \in Nat
      BY <2>1, FS_CardinalityType
    <2>3. Cardinality(s) = 0 <=> s = {}
      BY <2>1, FS_EmptySet
    <2>4. s # {} => Cardinality(s \ {ch[s]}) = Cardinality(s) - 1
      BY <2>1, FS_RemoveElement
    <2> QED BY <2>1, <2>2, <2>3, <2>4
  <1>2. 0 \in T
    <2>1. Sub(0) = {{}}
      <3>1. ASSUME NEW s \in SUBSET S PROVE s \in Sub(0) <=> s = {}
        <4>1. Cardinality(s) \in Nat /\ (Cardinality(s) = 0 <=> s = {})
          BY <1>1
        <4> QED BY <4>1
      <3>2. {} \in SUBSET S
        OBVIOUS
      <3> QED BY <3>1, <3>2
    <2>2. Good(0, [s \in Sub(0) |-> z])
      BY <2>1
    <2> QED BY <2>2
  <1>3. ASSUME NEW m \in Nat, m \in T PROVE m + 1 \in T
    <2>1. PICK it : Good(m, it)
      BY <1>3
    <2> DEFINE v(s) == step[<<it[s \ {ch[s]}], ch[s]>>]
               g == [s \in Sub(m+1) |-> IF s \in Sub(m) THEN it[s] ELSE v(s)]
    <2>2. Sub(m) \subseteq Sub(m+1) /\ {} \in Sub(m)
      <3>1. ASSUME NEW s \in Sub(m) PROVE s \in Sub(m+1)
        <4>1. Cardinality(s) \in Nat
          BY <1>1
        <4> QED BY <4>1
      <3>2. {} \in SUBSET S /\ Cardinality({}) = 0
        BY FS_EmptySet
      <3> QED BY <3>1, <3>2
    <2>3. ASSUME NEW s \in Sub(m+1), s # {}
          PROVE  s \ {ch[s]} \in Sub(m) /\ ch[s] \in S
      BY <1>1, <2>3
    <2>4. ASSUME NEW s \in Sub(m+1), s # {}
          PROVE  v(s) \in V
      <3>1. it[s \ {ch[s]}] \in V
        BY <2>1, <2>3, <2>4
      <3> QED BY <2>3, <2>4, <3>1
    <2>5. g \in [Sub(m+1) -> V]
      <3>1. ASSUME NEW s \in Sub(m+1)
            PROVE  (IF s \in Sub(m) THEN it[s] ELSE v(s)) \in V
        <4>1. CASE s \in Sub(m)
          BY <2>1, <4>1
        <4>2. CASE s \notin Sub(m)
          BY <2>2, <2>4, <4>2
        <4> QED BY <4>1, <4>2
      <3> HIDE DEF Sub, v
      <3> QED BY <3>1
    <2>6. ASSUME NEW s \in Sub(m) PROVE g[s] = it[s]
      BY <2>2
    <2>7. ASSUME NEW s \in Sub(m+1)
          PROVE  g[s] = IF s = {} THEN z ELSE step[<<g[s \ {ch[s]}], ch[s]>>]
      <3>1. s # {} => g[s \ {ch[s]}] = it[s \ {ch[s]}]
        BY <2>3, <2>6
      <3>2. CASE s \in Sub(m)
        <4>1. g[s] = it[s]
          BY <2>6, <3>2
        <4>2. it[s] = IF s = {} THEN z ELSE step[<<it[s \ {ch[s]}], ch[s]>>]
          BY <2>1, <3>2
        <4> HIDE DEF g, Sub
        <4> QED BY <3>1, <4>1, <4>2
      <3>3. CASE s \notin Sub(m)
        <4>1. s # {} /\ g[s] = v(s)
          BY <2>2, <3>3
        <4> QED BY <3>1, <4>1
      <3> QED BY <3>2, <3>3
    <2> HIDE DEF g
    <2>8. Good(m+1, g)
      BY <2>5, <2>7
    <2> HIDE DEF Good
    <2> QED BY <2>8
  <1>4. Cardinality(S) \in T
    <2> HIDE DEF T
    <2>1. Nat \subseteq T
      BY <1>2, <1>3, Induction
    <2> QED BY <2>1, FS_CardinalityType
  <1>5. Sub(Cardinality(S)) = SUBSET S
    BY <1>1
  <1>6. PICK it : Good(Cardinality(S), it)
    BY <1>4
  <1>7. Folded(it, S, ch, V, z, step)
    BY <1>5, <1>6 DEF Folded
  <1> QED BY <1>7

LEMMA IntervalSize ==
  ASSUME NEW n \in Nat
  PROVE  IsFiniteSet(1..n) /\ Cardinality(1..n) = n
  <1>1. IsFiniteSet(1..n) /\ Cardinality(1..n) = IF 1 > n THEN 0 ELSE n-1+1
    BY FS_Interval
  <1> QED BY <1>1

(* A finite set of numbers has a largest element.                          *)
LEMMA MaxInSet ==
  ASSUME NEW s, s \subseteq Nat, IsFiniteSet(s), s # {}
  PROVE  Max(s) \in s /\ \A x \in s : x <= Max(s)
  <1> DEFINE T == {n \in Nat : \A x \in s : x <= n}
  <1>1. T # {}
    <2> DEFINE Bounded(t) == \E n \in Nat : \A x \in t : x <= n
               K == {k \in Nat : \A t \in SUBSET s : Cardinality(t) = k => Bounded(t)}
    <2>1. ASSUME NEW t \in SUBSET s
          PROVE  IsFiniteSet(t) /\ Cardinality(t) \in Nat
      BY FS_Subset, FS_CardinalityType
    <2>2. 0 \in K
      <3>1. ASSUME NEW t \in SUBSET s, Cardinality(t) = 0 PROVE Bounded(t)
        BY <2>1, <3>1, FS_EmptySet
      <3> QED BY <3>1
    <2>3. ASSUME NEW k \in Nat, k \in K PROVE k + 1 \in K
      <3>1. ASSUME NEW t \in SUBSET s, Cardinality(t) = k + 1 PROVE Bounded(t)
        <4>1. PICK x \in t : TRUE
          <5>1. t # {}
            BY <2>1, <3>1, FS_EmptySet
          <5> QED BY <5>1
        <4>2. Cardinality(t \ {x}) = k
          <5>1. IsFiniteSet(t) /\ Cardinality(t) = k + 1
            BY <2>1, <3>1
          <5>2. Cardinality(t \ {x}) = Cardinality(t) - 1
            BY <4>1, <5>1, FS_RemoveElement
          <5> QED BY <5>1, <5>2
        <4>3. PICK n \in Nat : \A y \in t \ {x} : y <= n
          BY <2>3, <4>2
        <4>4. x \in Nat
          BY <4>1
        <4>5. \A y \in t : y <= IF n < x THEN x ELSE n
          BY <4>3, <4>4
        <4> QED BY <4>3, <4>4, <4>5
      <3> HIDE DEF Bounded
      <3> QED BY <3>1
    <2>4. Cardinality(s) \in K
      <3> HIDE DEF K
      <3> QED BY <2>1, <2>2, <2>3, Induction
    <2>5. Bounded(s)
      BY <2>4
    <2> QED BY <2>5
  <1>2. PICK n \in T : \A m \in T : n <= m
    <2> HIDE DEF T
    <2> QED BY <1>1, Smallest DEF T
  <1>3. n \in s
    <2>1. SUFFICES ASSUME n \notin s PROVE FALSE
      OBVIOUS
    <2>2. \A x \in s : x <= n - 1 /\ x \in Nat
      BY <1>2, <2>1
    <2>3. n - 1 \in T
      <3>1. PICK x \in s : TRUE
        OBVIOUS
      <3>2. x <= n - 1 /\ x \in Nat /\ n \in Nat
        BY <2>2, <3>1
      <3> QED BY <2>2, <3>2
    <2> QED BY <1>2, <2>3
  <1>4. \A x \in s : n >= x
    BY <1>2
  <1> QED BY <1>3, <1>4 DEF Max

(* The partial results of a fold over the numbers 1 to n, the largest      *)
(* last, exist.                                                            *)
LEMMA FoldInterval ==
  ASSUME NEW n \in Nat, NEW V, NEW z \in V, NEW step \in [V \X (1..n) -> V]
  PROVE  \E it : /\ it = [s \in SUBSET (1..n) |->
                            IF s = {} THEN z ELSE step[<<it[s \ {Max(s)}], Max(s)>>]]
                 /\ \A s \in SUBSET (1..n) :
                      it[s] \in V /\ (s # {} => Max(s) \in s)
  <1> DEFINE ch == [s \in SUBSET (1..n) |-> Max(s)]
  <1>1. ASSUME NEW s \in SUBSET (1..n), s # {}
        PROVE  ch[s] = Max(s) /\ Max(s) \in s /\ \A x \in s : x <= Max(s)
    <2>1. IsFiniteSet(1..n)
      BY FS_Interval
    <2>2. IsFiniteSet(s)
      BY <2>1, FS_Subset
    <2>3. s \subseteq Nat
      OBVIOUS
    <2> QED BY <1>1, <2>2, <2>3, MaxInSet
  <1>2. Foldable(1..n, ch, V, z, step)
    <2>1. IsFiniteSet(1..n)
      BY FS_Interval
    <2>2. \A s \in SUBSET (1..n) : s # {} => ch[s] \in s
      BY <1>1
    <2> HIDE DEF ch
    <2> QED BY <2>1, <2>2 DEF Foldable
  <1>3. PICK it : Folded(it, 1..n, ch, V, z, step)
    BY <1>2, FoldDefined
  <1> USE <1>3 DEF Folded
  <1> HIDE DEF ch
  <1>4. it = [s \in SUBSET (1..n) |->
                IF s = {} THEN z ELSE step[<<it[s \ {Max(s)}], Max(s)>>]]
    BY <1>1
  <1> QED BY <1>1, <1>4

(* The largest of the numbers from 1 to k is k, and without it k-1 is.     *)
LEMMA MaxInterval ==
  ASSUME NEW k \in Nat \ {0}
  PROVE  Max(1..k) = k /\ (1..k) \ {k} = 1..k-1
  <1>1. IsFiniteSet(1..k) /\ 1..k \subseteq Nat /\ 1..k # {}
    <2>1. IsFiniteSet(1..k)
      BY FS_Interval
    <2>2. 1..k \subseteq Nat /\ k \in 1..k
      OBVIOUS
    <2> QED BY <2>1, <2>2
  <1>2. Max(1..k) \in 1..k /\ \A x \in 1..k : x <= Max(1..k)
    BY <1>1, MaxInSet
  <1> QED BY <1>2

(* The partial results for the intervals from 1 are the trace of the fold. *)
FoldSteps(it, n, V, z, step) ==
  /\ it[{}] = z
  /\ \A s \in SUBSET (1..n) :
       s # {} /\ it[s \ {Max(s)}] \in V /\ Max(s) \in 1..n
         => it[s] = step[<<it[s \ {Max(s)}], Max(s)>>]

Trace(f, n, V, z, step, last) ==
  /\ f \in [0..n -> V] /\ f[0] = z /\ f[n] = last
  /\ \A k \in 1..n : f[k] = step[<<f[k-1], k>>]

LEMMA FoldTrace ==
  ASSUME NEW n \in Nat, NEW V, NEW z \in V, NEW step \in [V \X (1..n) -> V],
         NEW it, FoldSteps(it, n, V, z, step)
  PROVE  \E f : Trace(f, n, V, z, step, it[1..n])
  <1> USE DEF FoldSteps
  <1> DEFINE f == [k \in 0..n |-> it[1..k]]
             T == {k \in 0..n : f[k] \in V}
  <1>1. f[0] = z
    <2>1. 1..0 = {}
      OBVIOUS
    <2> QED BY <2>1
  <1>2. ASSUME NEW k \in 1..n, f[k-1] \in V PROVE f[k] = step[<<f[k-1], k>>]
    <2>1. Max(1..k) = k /\ (1..k) \ {k} = 1..k-1
      BY MaxInterval
    <2>2. 1..k \in SUBSET (1..n) /\ 1..k # {} /\ k-1 \in 0..n /\ k \in 0..n
      <3>1. k \in 1..k
        OBVIOUS
      <3> QED BY <3>1
    <2>3. f[k-1] = it[1..k-1] /\ f[k] = it[1..k]
      BY <2>2
    <2>4. it[(1..k) \ {Max(1..k)}] \in V /\ Max(1..k) \in 1..n
      BY <1>2, <2>1, <2>3
    <2>5. it[1..k] = step[<<it[(1..k) \ {Max(1..k)}], Max(1..k)>>]
      BY <2>2, <2>4
    <2> QED BY <2>1, <2>3, <2>5
  <1> HIDE DEF f
  <1>3. ASSUME NEW k \in 0..n-1, k \in T PROVE k+1 \in T
    <2>1. k+1 \in 1..n /\ k+1 \in 0..n /\ (k+1)-1 = k
      OBVIOUS
    <2>2. f[k+1] = step[<<f[k], k+1>>]
      BY <1>2, <1>3, <2>1
    <2> QED BY <1>3, <2>1, <2>2
  <1>4. 0..n \subseteq T
    <2>1. 0 \in T
      BY <1>1
    <2> HIDE DEF T
    <2> QED BY <1>3, <2>1, BoundedInduction
  <1>5. f \in [0..n -> V] /\ f[n] = it[1..n]
    BY <1>4 DEF f
  <1>6. \A k \in 1..n : f[k] = step[<<f[k-1], k>>]
    BY <1>2, <1>4
  <1> QED BY <1>1, <1>5, <1>6 DEF Trace

-----------------------------------------------------------------------------
(* Sums.                                                                   *)

Chosen(s) == CHOOSE x \in s : TRUE

Summable(fun, S) == IsFiniteSet(S) /\ \A x \in S : fun[x] \in Int

(* The sum over a set is the last of its partial sums.                     *)
PartialSums(it, fun, S) ==
  it = [s \in SUBSET S |-> IF s = {} THEN 0
                           ELSE fun[Chosen(s)] + it[s \ {Chosen(s)}]]

IntegerSums(it, fun, S) == PartialSums(it, fun, S) /\ it \in [SUBSET S -> Int]

LEMMA SumIsLast ==
  ASSUME NEW fun, NEW S
  PROVE  SumFunctionOnSet(fun, S) = (CHOOSE it : PartialSums(it, fun, S))[S]
  BY Zenon DEF SumFunctionOnSet, FoldFunctionOnSet, MapThenFoldSet, PartialSums, Chosen

LEMMA PartialSumsDefined ==
  ASSUME NEW fun, NEW S, Summable(fun, S)
  PROVE  \E it : IntegerSums(it, fun, S)
  <1> USE DEF Summable
  <1> DEFINE ch == [s \in SUBSET S |-> Chosen(s)]
             step == [p \in Int \X S |-> fun[p[2]] + p[1]]
  <1>1. ASSUME NEW s \in SUBSET S, s # {}
        PROVE  ch[s] = Chosen(s) /\ Chosen(s) \in s
    BY <1>1 DEF Chosen
  <1>2. Foldable(S, ch, Int, 0, step)
    <2>1. step \in [Int \X S -> Int]
      OBVIOUS
    <2>2. \A s \in SUBSET S : s # {} => ch[s] \in s
      BY <1>1
    <2> HIDE DEF ch, step
    <2> QED BY <2>1, <2>2 DEF Foldable
  <1>3. PICK it : Folded(it, S, ch, Int, 0, step)
    <2> HIDE DEF ch, step
    <2> QED BY <1>2, FoldDefined
  <1>4. it \in [SUBSET S -> Int]
    BY <1>3 DEF Folded
  <1>5. ASSUME NEW s \in SUBSET S
        PROVE  it[s] = IF s = {} THEN 0 ELSE fun[Chosen(s)] + it[s \ {Chosen(s)}]
    <2>1. CASE s = {}
      BY <1>3, <2>1 DEF Folded
    <2>2. CASE s # {}
      <3>1. Chosen(s) \in S /\ it[s \ {Chosen(s)}] \in Int
        BY <1>1, <1>4, <2>2
      <3>2. it[s] = step[<<it[s \ {ch[s]}], ch[s]>>]
        BY <1>3, <2>2 DEF Folded
      <3>3. it[s] = step[<<it[s \ {Chosen(s)}], Chosen(s)>>]
        <4> HIDE DEF step, ch
        <4> QED BY <1>1, <2>2, <3>2
      <3> QED BY <2>2, <3>1, <3>3
    <2> QED BY <2>1, <2>2
  <1> HIDE DEF ch, step
  <1>6. PartialSums(it, fun, S)
    BY <1>4, <1>5 DEF PartialSums
  <1> QED BY <1>4, <1>6 DEF IntegerSums

(* Induction over the subsets of a finite set: what holds of the empty set *)
(* and of every set with an element taken from which leaves one it holds of.*)
LEMMA SubsetInduction ==
  ASSUME NEW S, IsFiniteSet(S), NEW T, {} \in T,
         \A s \in SUBSET S : s # {} /\ (\A x \in s : s \ {x} \in T) => s \in T
  PROVE  SUBSET S \subseteq T
  <1> DEFINE K == {k \in Nat : \A s \in SUBSET S : Cardinality(s) = k => s \in T}
  <1>1. ASSUME NEW s \in SUBSET S
        PROVE  /\ IsFiniteSet(s) /\ Cardinality(s) \in Nat
               /\ Cardinality(s) = 0 <=> s = {}
               /\ \A x \in s : Cardinality(s \ {x}) = Cardinality(s) - 1
    <2>1. IsFiniteSet(s)
      BY FS_Subset
    <2>2. Cardinality(s) \in Nat
      BY <2>1, FS_CardinalityType
    <2>3. Cardinality(s) = 0 <=> s = {}
      BY <2>1, FS_EmptySet
    <2>4. \A x \in s : Cardinality(s \ {x}) = Cardinality(s) - 1
      BY <2>1, FS_RemoveElement
    <2> QED BY <2>1, <2>2, <2>3, <2>4
  <1>2. 0 \in K
    BY <1>1
  <1>3. ASSUME NEW k \in Nat, k \in K PROVE k + 1 \in K
    <2>1. ASSUME NEW s \in SUBSET S, Cardinality(s) = k + 1 PROVE s \in T
      <3>1. s # {}
        BY <1>1, <2>1
      <3>2. ASSUME NEW x \in s PROVE s \ {x} \in T
        <4>1. Cardinality(s \ {x}) = k
          BY <1>1, <2>1
        <4> QED BY <1>3, <4>1
      <3> QED BY <3>1, <3>2
    <2> QED BY <2>1
  <1>4. Nat \subseteq K
    <2> HIDE DEF K
    <2> QED BY <1>2, <1>3, Induction
  <1> QED BY <1>1, <1>4

(* Partial sums do not depend on the order, nor on the set they are part of.*)
Removable(it, fun, S) ==
  \A s \in SUBSET S : \A x \in s : it[s] = fun[x] + it[s \ {x}]

LEMMA PartialSumsRemove ==
  ASSUME NEW fun, NEW S, Summable(fun, S), NEW it, IntegerSums(it, fun, S)
  PROVE  Removable(it, fun, S)
  <1> USE DEF IntegerSums, Summable
  <1> DEFINE T == {s \in SUBSET S : \A x \in s : it[s] = fun[x] + it[s \ {x}]}
  <1>1. ASSUME NEW s \in SUBSET S, s # {}
        PROVE  Chosen(s) \in s /\ it[s] = fun[Chosen(s)] + it[s \ {Chosen(s)}]
    BY <1>1 DEF Chosen, PartialSums
  <1>2. {} \in T
    OBVIOUS
  <1>3. ASSUME NEW s \in SUBSET S, s # {}, \A x \in s : s \ {x} \in T
        PROVE  s \in T
    <2> DEFINE c == Chosen(s)
    <2>1. c \in s /\ it[s] = fun[c] + it[s \ {c}]
      BY <1>1, <1>3
    <2>2. ASSUME NEW x \in s, x # c PROVE it[s] = fun[x] + it[s \ {x}]
      <3> DEFINE rest == (s \ {c}) \ {x}
      <3>1. it[s \ {c}] = fun[x] + it[rest]
        BY <1>3, <2>1, <2>2
      <3>2. it[s \ {x}] = fun[c] + it[rest]
        <4>1. it[s \ {x}] = fun[c] + it[(s \ {x}) \ {c}]
          BY <1>3, <2>1, <2>2
        <4>2. (s \ {x}) \ {c} = rest
          OBVIOUS
        <4> QED BY <4>1, <4>2
      <3>3. fun[x] \in Int /\ fun[c] \in Int /\ it[rest] \in Int
        BY <2>1
      <3> HIDE DEF c, rest
      <3> QED BY <2>1, <3>1, <3>2, <3>3
    <2> QED BY <2>1, <2>2
  <1>4. SUBSET S \subseteq T
    <2> HIDE DEF T
    <2> QED BY <1>2, <1>3, SubsetInduction
  <1> QED BY <1>4 DEF Removable

LEMMA PartialSumsOnSubset ==
  ASSUME NEW fun, NEW S, Summable(fun, S),
         NEW R \in SUBSET S,
         NEW it, PartialSums(it, fun, S), NEW jt, PartialSums(jt, fun, R)
  PROVE  jt[R] = it[R]
  <1> DEFINE T == {s \in SUBSET R : jt[s] = it[s]}
  <1> USE DEF Summable
  <1>1. IsFiniteSet(R)
    BY FS_Subset
  <1>2. {} \in T
    BY DEF PartialSums
  <1>3. ASSUME NEW s \in SUBSET R, s # {}, \A x \in s : s \ {x} \in T
        PROVE  s \in T
    <2>1. Chosen(s) \in s
      BY <1>3 DEF Chosen
    <2>2. it[s] = fun[Chosen(s)] + it[s \ {Chosen(s)}]
      BY <1>3 DEF PartialSums
    <2>3. jt[s] = fun[Chosen(s)] + jt[s \ {Chosen(s)}]
      BY <1>3 DEF PartialSums
    <2> QED BY <1>3, <2>1, <2>2, <2>3
  <1>4. SUBSET R \subseteq T
    <2> HIDE DEF T
    <2> QED BY <1>1, <1>2, <1>3, SubsetInduction
  <1> QED BY <1>4

(* The laws of a sum: nothing sums to 0; an element may be taken out; the  *)
(* sum of integers is one, of naturals one too; and two functions that     *)
(* agree have the same sum.                                                *)
LEMMA SumOfNone ==
  ASSUME NEW fun
  PROVE  SumFunctionOnSet(fun, {}) = 0
  <1>1. Summable(fun, {})
    BY FS_EmptySet DEF Summable
  <1>2. PICK it : PartialSums(it, fun, {})
    BY <1>1, PartialSumsDefined DEF IntegerSums
  <1> DEFINE jt == CHOOSE i : PartialSums(i, fun, {})
  <1>3. PartialSums(jt, fun, {})
    BY <1>2
  <1> HIDE DEF jt
  <1>4. jt[{}] = 0
    BY <1>3 DEF PartialSums
  <1> QED BY <1>4, SumIsLast DEF jt

LEMMA SumRemove ==
  ASSUME NEW fun, NEW S, Summable(fun, S), NEW x \in S
  PROVE  /\ SumFunctionOnSet(fun, S) \in Int
         /\ SumFunctionOnSet(fun, S \ {x}) \in Int
         /\ SumFunctionOnSet(fun, S) = fun[x] + SumFunctionOnSet(fun, S \ {x})
  <1>1. PICK it : IntegerSums(it, fun, S)
    BY PartialSumsDefined
  <1>2. ASSUME NEW R \in SUBSET S PROVE SumFunctionOnSet(fun, R) = it[R]
    <2>1. Summable(fun, R)
      BY FS_Subset DEF Summable
    <2>2. \E jt : PartialSums(jt, fun, R)
      BY <2>1, PartialSumsDefined DEF IntegerSums
    <2> DEFINE jt == CHOOSE i : PartialSums(i, fun, R)
    <2>3. PartialSums(jt, fun, R)
      BY <2>2
    <2> HIDE DEF jt
    <2>4. jt[R] = it[R]
      BY <1>1, <2>3, PartialSumsOnSubset DEF IntegerSums
    <2> QED BY <2>4, SumIsLast DEF jt
  <1>3. it[S] = fun[x] + it[S \ {x}]
    <2>1. Removable(it, fun, S)
      BY <1>1, PartialSumsRemove
    <2> QED BY <2>1 DEF Removable
  <1>4. S \ {x} \in SUBSET S /\ S \in SUBSET S
    OBVIOUS
  <1>5. it[S] \in Int /\ it[S \ {x}] \in Int
    BY <1>1, <1>4 DEF IntegerSums
  <1> QED BY <1>2, <1>3, <1>4, <1>5

LEMMA SumAdd ==
  ASSUME NEW fun, NEW S, NEW x, x \notin S, Summable(fun, S \cup {x})
  PROVE  /\ SumFunctionOnSet(fun, S) \in Int
         /\ SumFunctionOnSet(fun, S \cup {x}) = fun[x] + SumFunctionOnSet(fun, S)
  <1> DEFINE R == S \cup {x}
  <1>1. x \in R /\ R \ {x} = S /\ Summable(fun, R)
    OBVIOUS
  <1> HIDE DEF R
  <1>2. /\ SumFunctionOnSet(fun, R \ {x}) \in Int
        /\ SumFunctionOnSet(fun, R) = fun[x] + SumFunctionOnSet(fun, R \ {x})
    BY <1>1, SumRemove
  <1> QED BY <1>1, <1>2 DEF R

LEMMA SumType ==
  ASSUME NEW fun, NEW S, IsFiniteSet(S), \A y \in S : fun[y] \in Nat
  PROVE  SumFunctionOnSet(fun, S) \in Nat
  <1> DEFINE T == {s \in SUBSET S : SumFunctionOnSet(fun, s) \in Nat}
  <1>1. {} \in T
    BY SumOfNone
  <1>2. ASSUME NEW s \in SUBSET S, s # {}, \A x \in s : s \ {x} \in T
        PROVE  s \in T
    <2>1. PICK x \in s : TRUE
      BY <1>2
    <2>2. Summable(fun, s)
      BY FS_Subset DEF Summable
    <2>3. SumFunctionOnSet(fun, s) = fun[x] + SumFunctionOnSet(fun, s \ {x})
      BY <2>1, <2>2, SumRemove
    <2> QED BY <1>2, <2>1, <2>3
  <1>3. SUBSET S \subseteq T
    <2> HIDE DEF T
    <2> QED BY <1>1, <1>2, SubsetInduction
  <1> QED BY <1>3

LEMMA SumCongruent ==
  ASSUME NEW fun, NEW gun, NEW S, Summable(fun, S), \A y \in S : fun[y] = gun[y]
  PROVE  SumFunctionOnSet(fun, S) = SumFunctionOnSet(gun, S)
  <1> USE DEF Summable
  <1> DEFINE T == {s \in SUBSET S : SumFunctionOnSet(fun, s) = SumFunctionOnSet(gun, s)}
  <1>1. {} \in T
    BY SumOfNone
  <1>2. ASSUME NEW s \in SUBSET S, s # {}, \A x \in s : s \ {x} \in T
        PROVE  s \in T
    <2>1. PICK x \in s : TRUE
      BY <1>2
    <2>2. Summable(fun, s) /\ Summable(gun, s)
      BY FS_Subset DEF Summable
    <2>3. SumFunctionOnSet(fun, s) = fun[x] + SumFunctionOnSet(fun, s \ {x})
      BY <2>1, <2>2, SumRemove
    <2>4. SumFunctionOnSet(gun, s) = gun[x] + SumFunctionOnSet(gun, s \ {x})
      BY <2>1, <2>2, SumRemove
    <2> QED BY <1>2, <2>1, <2>3, <2>4
  <1>3. SUBSET S \subseteq T
    <2> HIDE DEF T
    <2> QED BY <1>1, <1>2, SubsetInduction
  <1> QED BY <1>3

(* The sizes of sets with nothing in common add up to that of their union. *)
LEMMA SumOfSizes ==
  ASSUME NEW S, IsFiniteSet(S), NEW fun, NEW A,
         \A x \in S : IsFiniteSet(A[x]) /\ fun[x] = Cardinality(A[x]),
         \A x, y \in S : x # y => A[x] \cap A[y] = {}
  PROVE  SumFunctionOnSet(fun, S) = Cardinality(UNION {A[x] : x \in S})
  <1> DEFINE U(s) == UNION {A[x] : x \in s}
             T == {s \in SUBSET S : /\ IsFiniteSet(U(s))
                                    /\ SumFunctionOnSet(fun, s) = Cardinality(U(s))}
  <1>1. {} \in T
    <2>1. U({}) = {}
      OBVIOUS
    <2> HIDE DEF U
    <2> QED BY <2>1, SumOfNone, FS_EmptySet
  <1>2. ASSUME NEW s \in SUBSET S, s # {}, \A x \in s : s \ {x} \in T
        PROVE  s \in T
    <2>1. PICK x \in s : TRUE
      BY <1>2
    <2> DEFINE rest == s \ {x}
    <2>2. /\ IsFiniteSet(U(rest)) /\ SumFunctionOnSet(fun, rest) = Cardinality(U(rest))
          /\ Cardinality(U(rest)) \in Nat
      <3>1. rest \in T
        BY <1>2, <2>1
      <3>2. IsFiniteSet(U(rest)) /\ SumFunctionOnSet(fun, rest) = Cardinality(U(rest))
        BY <3>1
      <3> HIDE DEF U
      <3> QED BY <3>2, FS_CardinalityType
    <2>3. U(s) = U(rest) \cup A[x] /\ U(rest) \cap A[x] = {}
      BY <2>1
    <2>4. IsFiniteSet(A[x]) /\ fun[x] = Cardinality(A[x]) /\ Cardinality(A[x]) \in Nat
      BY <2>1, FS_CardinalityType
    <2>5. SumFunctionOnSet(fun, s) = fun[x] + SumFunctionOnSet(fun, rest)
      <3>1. ASSUME NEW y \in s PROVE fun[y] \in Int
        BY FS_CardinalityType
      <3>2. Summable(fun, s)
        BY <3>1, FS_Subset DEF Summable
      <3> QED BY <2>1, <3>2, SumRemove
    <2> HIDE DEF U, rest
    <2>6. IsFiniteSet(U(s)) /\ Cardinality(U(s)) = Cardinality(U(rest)) + Cardinality(A[x])
      <3>1. /\ IsFiniteSet(U(rest) \cup A[x])
            /\ Cardinality(U(rest) \cup A[x]) =
                 Cardinality(U(rest)) + Cardinality(A[x]) - Cardinality(U(rest) \cap A[x])
        BY <2>2, <2>4, FS_Union
      <3>2. Cardinality(U(rest) \cap A[x]) = 0
        BY <2>3, FS_EmptySet
      <3> QED BY <2>2, <2>3, <2>4, <3>1, <3>2
    <2> QED BY <2>2, <2>4, <2>5, <2>6
  <1>3. SUBSET S \subseteq T
    <2> HIDE DEF T
    <2> QED BY <1>1, <1>2, SubsetInduction
  <1> QED BY <1>3

-----------------------------------------------------------------------------
(* The elements of a finite set of naturals in their order.                *)

Rank(S, a) == Cardinality({b \in S : b <= a})

(* A greater element has a greater rank.                                   *)
LEMMA RankGrows ==
  ASSUME NEW S, S \subseteq Nat, IsFiniteSet(S), NEW a \in S, NEW b \in S, a < b
  PROVE  Rank(S, a) < Rank(S, b)
  <1> DEFINE A == {c \in S : c <= a}
             B == {c \in S : c <= b}
  <1>1. A \in SUBSET B /\ b \in B /\ b \notin A /\ B \in SUBSET S
    <2>1. \A c \in S : c \in Nat /\ (c <= a => c <= b) /\ b <= b /\ ~(b <= a)
      OBVIOUS
    <2> QED BY <2>1
  <1> HIDE DEF A, B
  <1>2. IsFiniteSet(B)
    BY <1>1, FS_Subset
  <1>3. Cardinality(A) <= Cardinality(B) /\ (Cardinality(A) = Cardinality(B) => A = B)
        /\ IsFiniteSet(A)
    BY <1>1, <1>2, FS_Subset
  <1>4. Cardinality(A) # Cardinality(B) /\ Cardinality(A) \in Nat /\ Cardinality(B) \in Nat
    BY <1>1, <1>2, <1>3, FS_CardinalityType
  <1> QED BY <1>3, <1>4 DEF Rank, A, B

(* Ranks count from 1 to the size of the set.                              *)
LEMMA RankType ==
  ASSUME NEW S, S \subseteq Nat, IsFiniteSet(S), NEW a \in S
  PROVE  Rank(S, a) \in 1..Cardinality(S)
  <1> DEFINE A == {c \in S : c <= a}
  <1>1. A \in SUBSET S /\ a \in A
    <2>1. a <= a
      OBVIOUS
    <2> QED BY <2>1
  <1> HIDE DEF A
  <1>2. IsFiniteSet(A) /\ Cardinality(A) <= Cardinality(S) /\ Cardinality(S) \in Nat
    BY <1>1, FS_Subset, FS_CardinalityType
  <1>3. Cardinality(A) \in Nat /\ Cardinality(A) # 0
    BY <1>1, <1>2, FS_CardinalityType, FS_EmptySet
  <1> QED BY <1>2, <1>3 DEF Rank, A

(* No two elements have the same rank, and ranks keep the order.           *)
LEMMA RankOnce ==
  ASSUME NEW S, S \subseteq Nat, IsFiniteSet(S), NEW a \in S, NEW b \in S
  PROVE  /\ Rank(S, a) = Rank(S, b) => a = b
         /\ Rank(S, a) < Rank(S, b) => a < b
  <1>1. a < b => Rank(S, a) < Rank(S, b)
    BY RankGrows
  <1>2. b < a => Rank(S, b) < Rank(S, a)
    BY RankGrows
  <1>3. Rank(S, a) \in Int /\ Rank(S, b) \in Int /\ a \in Nat /\ b \in Nat
    <2>1. Rank(S, a) \in 1..Cardinality(S) /\ Rank(S, b) \in 1..Cardinality(S)
      BY RankType
    <2>2. Cardinality(S) \in Nat
      BY FS_CardinalityType
    <2> QED BY <2>1, <2>2
  <1> QED BY <1>1, <1>2, <1>3

(* Every number up to the size of the set is the rank of an element.       *)
LEMMA RankReached ==
  ASSUME NEW S, S \subseteq Nat, IsFiniteSet(S), NEW k \in 1..Cardinality(S)
  PROVE  \E a \in S : Rank(S, a) = k
  <1> DEFINE n == Cardinality(S)
             f == [a \in S |-> Rank(S, a)]
  <1>1. n \in Nat /\ IsFiniteSet(1..n) /\ Cardinality(1..n) = n
    BY FS_CardinalityType, FS_Interval
  <1>2. f \in Injection(S, 1..n)
    <2>1. f \in [S -> 1..n]
      BY RankType
    <2>2. \A a, b \in S : f[a] = f[b] => a = b
      BY RankOnce
    <2> HIDE DEF f
    <2> QED BY <2>1, <2>2, Fun_IsInj
  <1> HIDE DEF f
  <1>3. f \in Surjection(S, 1..n)
    BY <1>1, <1>2, FS_Injection
  <1>4. \E a \in S : f[a] = k
    <2> HIDE DEF n
    <2> QED BY <1>3 DEF Surjection, n
  <1> QED BY <1>4 DEF f
=============================================================================
