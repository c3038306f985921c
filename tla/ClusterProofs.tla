--------------------------- MODULE ClusterProofs ---------------------------
(***************************************************************************)
(* The composition, for every dataset, every set of ranges and every       *)
(* number of servants, started as often as anybody likes.  First what the  *)
(* operators compute: a pass of the bubble sort puts one city in its place,*)
(* the sort all of them, so that a servant lists the cities of its range,  *)
(* each once, and counts their transactions; the server reads of a         *)
(* registration what was sent, if it has room.  Then the ports: ranges     *)
(* that do not overlap give different ones.  Then the invariant: what the  *)
(* table holds is what a servant that is there has sent, and a query has   *)
(* the counts of the servants it has visited.                              *)
(***************************************************************************)
EXTENDS Cluster, InductionLemmas, SequenceTheorems

-----------------------------------------------------------------------------
(* What the operators compute.                                             *)

(* The cities in some order.                                               *)
Lists == [1..Cardinality(Cities) -> Cities]

(* A fold over 1..n whose steps lead from listings to listings.            *)
Folds(it, list, n, step) ==
  /\ it = [s \in SUBSET (1..n) |->
              IF s = {} THEN list ELSE step[<<it[s \ {Max(s)}], Max(s)>>]]
  /\ \A s \in SUBSET (1..n) : it[s] \in Lists /\ (s # {} => Max(s) \in s)

LEMMA ListsFolded ==
  ASSUME NEW list \in Lists, NEW n \in Nat, NEW step \in [Lists \X (1..n) -> Lists]
  PROVE  \E it : Folds(it, list, n, step)
  BY FoldInterval DEF Folds

(* A pass of the bubble sort, a pair at a time: a fold exists, and is what  *)
(* its steps make of its base.                                             *)
LEMMA PassSteps ==
  ASSUME NEW list \in Lists, NEW n \in Nat, n < Cardinality(Cities)
  PROVE  \E f \in [0..n -> Lists] :
           /\ f[0] = list /\ f[n] = Pass(list, n)
           /\ \A j \in 1..n : f[j] = IF f[j-1][j] > f[j-1][j+1]
                                     THEN Swap(f[j-1], j) ELSE f[j-1]
  <1> DEFINE seq == [j \in 1..n |-> j]
             Step(l, j) == IF l[j] > l[j+1] THEN Swap(l, j) ELSE l
             step == [p \in Lists \X (1..n) |-> Step(p[1], p[2])]
             Eq(it) == it = [s \in SUBSET (DOMAIN seq) |->
                               IF s = {} THEN list
                               ELSE Step(it[s \ {Max(s)}], seq[Max(s)])]
             c == CHOOSE it : Eq(it)
  <1>1. Pass(list, n) = c[DOMAIN seq]
    BY Zenon DEF Pass, FoldLeft, MapThenFoldSet
  <1>2. step \in [Lists \X (1..n) -> Lists]
    <2>1. ASSUME NEW l \in Lists, NEW j \in 1..n PROVE Step(l, j) \in Lists
      <3>1. j \in 1..Cardinality(Cities) /\ j+1 \in 1..Cardinality(Cities)
        BY FS_CardinalityType, ClusterAssumption
      <3> QED BY <3>1 DEF Swap, Lists
    <2> HIDE DEF Step
    <2> QED BY <2>1
  <1>3. \E it : Eq(it)
    <2> HIDE DEF step
    <2>0. \E it : Folds(it, list, n, step)
      BY <1>2, ListsFolded
    <2>1. PICK it : /\ it = [s \in SUBSET (1..n) |->
                            IF s = {} THEN list ELSE step[<<it[s \ {Max(s)}], Max(s)>>]]
                 /\ \A s \in SUBSET (1..n) :
                      it[s] \in Lists /\ (s # {} => Max(s) \in s)
      BY <2>0 DEF Folds
    <2>2. ASSUME NEW s \in SUBSET (1..n)
          PROVE  it[s] = IF s = {} THEN list ELSE Step(it[s \ {Max(s)}], seq[Max(s)])
      <3>1. CASE s = {}
        BY <2>1, <3>1
      <3>2. CASE s # {}
        <4>1. it[s \ {Max(s)}] \in Lists /\ Max(s) \in 1..n
          BY <2>1, <3>2
        <4>2. seq[Max(s)] = Max(s)
          BY <4>1
        <4>3. it[s] = step[<<it[s \ {Max(s)}], Max(s)>>]
          BY <2>1, <3>2
        <4> HIDE DEF Step
        <4> QED BY <3>2, <4>1, <4>2, <4>3 DEF step
      <3> QED BY <3>1, <3>2
    <2>3. DOMAIN seq = 1..n
      OBVIOUS
    <2> HIDE DEF Step, seq
    <2>4. it = [s \in SUBSET (1..n) |-> it[s]]
      BY <2>1
    <2>5. Eq(it)
      BY <2>2, <2>3, <2>4
    <2> QED BY <2>5
  <1>4. Eq(c)
    <2> HIDE DEF Eq
    <2> QED BY <1>3
  <1> HIDE DEF c
  <1> DEFINE f == [k \in 0..n |-> c[1..k]]
  <1>5. DOMAIN seq = 1..n
    OBVIOUS
  <1>6. ASSUME NEW k \in 1..n PROVE f[k] = Step(f[k-1], k)
    <2>1. Max(1..k) = k /\ (1..k) \ {k} = 1..k-1
      BY MaxInterval
    <2>2. 1..k \in SUBSET (1..n) /\ k \in 1..k /\ seq[k] = k
      OBVIOUS
    <2> HIDE DEF Step, seq
    <2>3. c[1..k] = Step(c[1..k-1], k)
      BY <1>4, <1>5, <2>1, <2>2
    <2> QED BY <2>3
  <1>7. f[0] = list
    <2>1. 1..0 = {} /\ {} \in SUBSET (1..n)
      OBVIOUS
    <2> HIDE DEF Step
    <2> QED BY <1>4, <2>1
  <1>8. f \in [0..n -> Lists]
    <2> DEFINE T == {k \in 0..n : f[k] \in Lists}
    <2>1. 0 \in T
      BY <1>7
    <2>2. ASSUME NEW k \in 0..n-1, k \in T PROVE k+1 \in T
      <3>1. f[k+1] = Step(f[k], k+1)
        <4> HIDE DEF f, Step
        <4> QED BY <1>6
      <3>2. step[<<f[k], k+1>>] \in Lists /\ step[<<f[k], k+1>>] = Step(f[k], k+1)
        <4>1. f[k] \in Lists /\ k+1 \in 1..n
          BY <2>2
        <4> HIDE DEF f, Step
        <4> QED BY <4>1, <1>2
      <3> HIDE DEF f, Step
      <3> QED BY <3>1, <3>2
    <2>3. 0..n \subseteq T
      <3> HIDE DEF T
      <3> QED BY <2>1, <2>2, BoundedInduction
    <2> QED BY <2>3
  <1>9. f[n] = Pass(list, n)
    BY <1>1, <1>5
  <1> HIDE DEF f
  <1> QED BY <1>6, <1>7, <1>8, <1>9

-----------------------------------------------------------------------------
Distinct(l) == \A j, k \in DOMAIN l : l[j] = l[k] => j = k

(* Everything after the first m is in its place.                           *)
Settled(l, m) ==
  \A k \in m+1..Cardinality(Cities) : \A j \in 1..k-1 : l[j] < l[k]

Top(l, m) == \A k \in 1..m : l[k] <= l[m]

LEMMA NumberOfCities ==
  /\ Cardinality(Cities) \in Nat /\ IsFiniteSet(Cities) /\ Cities \subseteq Nat
  BY FS_CardinalityType, ClusterAssumption

LEMMA SwapKeeps ==
  ASSUME NEW l \in Lists, Distinct(l), NEW m \in 1..Cardinality(Cities), Settled(l, m),
         NEW j \in 1..m-1
  PROVE  Swap(l, j) \in Lists /\ Distinct(Swap(l, j)) /\ Settled(Swap(l, j), m)
  <1> DEFINE N == Cardinality(Cities)
             t == Swap(l, j)
  <1>1. N \in Nat /\ Cities \subseteq Nat
    BY NumberOfCities
  <1>2. l \in [1..N -> Cities]
    BY DEF Lists
  <1>3. j \in 1..N /\ j+1 \in 1..m /\ j+1 \in 1..N
    BY <1>1
  <1>4. /\ t \in [1..N -> Cities] /\ t[j] = l[j+1] /\ t[j+1] = l[j]
        /\ \A k \in 1..N : k # j /\ k # j+1 => t[k] = l[k]
    BY <1>2, <1>3 DEF Swap
  <1> HIDE DEF t
  <1>5. Distinct(t)
    <2>1. ASSUME NEW a \in 1..N, NEW b \in 1..N, t[a] = t[b] PROVE a = b
      BY <1>2, <1>3, <1>4, <2>1 DEF Distinct
    <2> QED BY <1>4, <2>1 DEF Distinct
  <1>6. Settled(t, m)
    <2>1. ASSUME NEW k \in m+1..N, NEW a \in 1..k-1 PROVE t[a] < t[k]
      <3>1. t[k] = l[k]
        BY <1>1, <1>3, <1>4
      <3>2. j \in 1..k-1 /\ j+1 \in 1..k-1 /\ a \in 1..N
        BY <1>1, <1>3
      <3>3. l[j] < l[k] /\ l[j+1] < l[k] /\ l[a] < l[k]
        BY <3>2 DEF Settled
      <3>4. CASE a = j
        BY <1>4, <3>1, <3>3, <3>4
      <3>5. CASE a = j+1
        BY <1>4, <3>1, <3>3, <3>5
      <3>6. CASE a # j /\ a # j+1
        BY <1>4, <3>1, <3>2, <3>3, <3>6
      <3> QED BY <3>4, <3>5, <3>6
    <2> QED BY <2>1 DEF Settled
  <1>7. t \in Lists
    BY <1>4 DEF Lists
  <1> QED BY <1>5, <1>6, <1>7 DEF t

(* A pass puts the largest of the first n+1 cities in its place.           *)
LEMMA PassSettles ==
  ASSUME NEW list \in Lists, Distinct(list), NEW n \in Nat, n < Cardinality(Cities),
         Settled(list, n+1)
  PROVE  Pass(list, n) \in Lists /\ Distinct(Pass(list, n)) /\ Settled(Pass(list, n), n)
  <1> DEFINE N == Cardinality(Cities)
  <1>1. N \in Nat /\ Cities \subseteq Nat
    BY NumberOfCities
  <1>2. PICK f \in [0..n -> Lists] :
           /\ f[0] = list /\ f[n] = Pass(list, n)
           /\ \A j \in 1..n : f[j] = IF f[j-1][j] > f[j-1][j+1]
                                     THEN Swap(f[j-1], j) ELSE f[j-1]
    BY PassSteps
  <1> DEFINE Good(j) == Distinct(f[j]) /\ Settled(f[j], n+1) /\ Top(f[j], j+1)
             T == {j \in 0..n : Good(j)}
  <1>3. 0 \in T
    <2>1. Top(list, 1)
      <3>1. 1 \in 1..N
        BY <1>1
      <3>2. list[1] \in Nat
        BY <1>1, <3>1 DEF Lists
      <3> QED BY <3>2 DEF Top
    <2> QED BY <1>2, <2>1
  <1>4. ASSUME NEW j \in 0..n-1, j \in T PROVE j+1 \in T
    <2> DEFINE l == f[j]
               i == j+1
    <2>1. l \in Lists /\ Distinct(l) /\ Settled(l, n+1) /\ Top(l, i) /\ i \in 1..n
      BY <1>4
    <2>2. f[i] = IF l[i] > l[i+1] THEN Swap(l, i) ELSE l
      BY <1>2, <2>1
    <2> HIDE DEF l, i
    <2>3. l \in [1..N -> Nat] /\ \A k \in 1..i+1 : k \in 1..N
      <3>1. l \in [1..N -> Nat]
        BY <1>1, <2>1 DEF Lists
      <3> QED BY <1>1, <2>1, <3>1
    <2>4. CASE l[i] > l[i+1]
      <3>1. f[i] = Swap(l, i)
        BY <2>2, <2>4
      <3>2. Distinct(f[i]) /\ Settled(f[i], n+1)
        <4>1. i \in 1..(n+1)-1 /\ n+1 \in 1..Cardinality(Cities)
          BY <1>1, <2>1
        <4> QED BY <2>1, <3>1, <4>1, SwapKeeps
      <3>3. /\ f[i][i] = l[i+1] /\ f[i][i+1] = l[i]
            /\ \A k \in 1..i-1 : f[i][k] = l[k]
        BY <2>1, <2>3, <3>1 DEF Swap
      <3>4. Top(f[i], i+1)
        <4>1. ASSUME NEW k \in 1..i+1 PROVE f[i][k] <= f[i][i+1]
          <5>1. l[i] \in Nat /\ l[i+1] \in Nat
            BY <2>1, <2>3
          <5>2. CASE k = i+1
            BY <3>3, <5>1, <5>2
          <5>3. CASE k = i
            BY <2>4, <3>3, <5>1, <5>3
          <5>4. CASE k \in 1..i-1
            <6>1. l[k] <= l[i]
              BY <2>1, <5>4 DEF Top
            <6> QED BY <3>3, <5>4, <6>1
          <5> QED BY <2>1, <5>2, <5>3, <5>4
        <4> QED BY <4>1 DEF Top
      <3> QED BY <2>1, <3>2, <3>4 DEF i
    <2>5. CASE ~(l[i] > l[i+1])
      <3>1. f[i] = l
        BY <2>2, <2>5
      <3>2. Top(l, i+1)
        <4>1. ASSUME NEW k \in 1..i+1 PROVE l[k] <= l[i+1]
          <5>1. l[i] \in Nat /\ l[i+1] \in Nat /\ l[k] \in Nat /\ l[i] <= l[i+1]
            BY <2>1, <2>3, <2>5
          <5>2. k # i+1 => l[k] <= l[i]
            BY <2>1 DEF Top
          <5> QED BY <5>1, <5>2
        <4> QED BY <4>1 DEF Top
      <3> QED BY <2>1, <3>1, <3>2 DEF i
    <2> QED BY <2>4, <2>5
  <1>5. n \in T
    <2> HIDE DEF T
    <2>1. 0..n \subseteq T
      BY <1>3, <1>4, BoundedInduction
    <2> QED BY <2>1
  <1> DEFINE l == f[n]
  <1>6. l \in Lists /\ Distinct(l) /\ Settled(l, n+1) /\ Top(l, n+1)
    BY <1>5
  <1> HIDE DEF l
  <1>7. Settled(l, n)
    <2>1. ASSUME NEW k \in n+1..N, NEW j \in 1..k-1 PROVE l[j] < l[k]
      <3>1. CASE k = n+1
        <4>1. l[j] <= l[k]
          BY <1>6, <3>1 DEF Top
        <4>2. j \in 1..N /\ k \in 1..N /\ j # k
          BY <1>1
        <4>3. l[j] \in Nat /\ l[k] \in Nat /\ l[j] # l[k]
          BY <1>1, <1>6, <4>2 DEF Lists, Distinct
        <4> QED BY <4>1, <4>3
      <3>2. CASE k # n+1
        BY <1>6, <3>2 DEF Settled
      <3> QED BY <3>1, <3>2
    <2> QED BY <2>1 DEF Settled
  <1> QED BY <1>2, <1>6, <1>7 DEF l

(* The sort, a pass at a time.                                             *)
LEMMA SortSteps ==
  ASSUME NEW list \in Lists, NEW n \in Nat, n = Cardinality(Cities)
  PROVE  \E f \in [0..n -> Lists] :
           /\ f[0] = list /\ f[n] = SortStringListAlphabetically(list)
           /\ \A j \in 1..n : f[j] = Pass(f[j-1], n - j)
  <1>len. n \in Nat /\ DOMAIN list = 1..n /\ Len(list) = n
    BY NumberOfCities DEF Lists
  <1> DEFINE seq == [i \in DOMAIN list |-> i]
             Step(l, i) == Pass(l, Len(list) - i)
             step == [p \in Lists \X (1..n) |-> Step(p[1], p[2])]
             Eq(it) == it = [s \in SUBSET (DOMAIN seq) |->
                               IF s = {} THEN list
                               ELSE Step(it[s \ {Max(s)}], seq[Max(s)])]
             c == CHOOSE it : Eq(it)
  <1>1. SortStringListAlphabetically(list) = c[DOMAIN seq]
    BY Zenon DEF SortStringListAlphabetically, FoldLeft, MapThenFoldSet
  <1>2. step \in [Lists \X (1..n) -> Lists]
    <2>1. ASSUME NEW l \in Lists, NEW j \in 1..n PROVE Step(l, j) \in Lists
      <3>1. n - j \in Nat /\ n - j < Cardinality(Cities)
        BY <1>len
      <3>2. \E f \in [0..n-j -> Lists] : f[n-j] = Pass(l, n-j)
        <4> DEFINE m == n - j
        <4> HIDE DEF m, Step
        <4>1. m \in Nat /\ m < Cardinality(Cities)
          BY <3>1 DEF m
        <4>2. \E f \in [0..m -> Lists] : f[m] = Pass(l, m)
          BY <4>1, PassSteps
        <4> QED BY <4>2 DEF m
      <3> QED BY <1>len, <3>1, <3>2
    <2> HIDE DEF Step
    <2> QED BY <2>1
  <1>3. \E it : Eq(it)
    <2> HIDE DEF step
    <2>0. \E it : Folds(it, list, n, step)
      BY <1>2, ListsFolded
    <2>1. PICK it : /\ it = [s \in SUBSET (1..n) |->
                            IF s = {} THEN list ELSE step[<<it[s \ {Max(s)}], Max(s)>>]]
                 /\ \A s \in SUBSET (1..n) :
                      it[s] \in Lists /\ (s # {} => Max(s) \in s)
      BY <2>0 DEF Folds
    <2>2. ASSUME NEW s \in SUBSET (1..n)
          PROVE  it[s] = IF s = {} THEN list ELSE Step(it[s \ {Max(s)}], seq[Max(s)])
      <3>1. CASE s = {}
        BY <2>1, <3>1
      <3>2. CASE s # {}
        <4>1. it[s \ {Max(s)}] \in Lists /\ Max(s) \in 1..n
          BY <2>1, <3>2
        <4>2. seq[Max(s)] = Max(s)
          BY <1>len, <4>1
        <4>3. it[s] = step[<<it[s \ {Max(s)}], Max(s)>>]
          BY <2>1, <3>2
        <4> HIDE DEF Step
        <4> QED BY <3>2, <4>1, <4>2, <4>3 DEF step
      <3> QED BY <3>1, <3>2
    <2>3. DOMAIN seq = 1..n
      BY <1>len
    <2> HIDE DEF Step, seq
    <2>4. it = [s \in SUBSET (1..n) |-> it[s]]
      BY <2>1
    <2>5. Eq(it)
      BY <2>2, <2>3, <2>4
    <2> QED BY <2>5
  <1>4. Eq(c)
    <2> HIDE DEF Eq
    <2> QED BY <1>3
  <1> HIDE DEF c
  <1> DEFINE f == [k \in 0..n |-> c[1..k]]
  <1>5. DOMAIN seq = 1..n
    BY <1>len
  <1>6. ASSUME NEW k \in 1..n PROVE f[k] = Step(f[k-1], k)
    <2>1. Max(1..k) = k /\ (1..k) \ {k} = 1..k-1
      BY MaxInterval
    <2>2. 1..k \in SUBSET (1..n) /\ k \in 1..k /\ seq[k] = k
      BY <1>len
    <2> HIDE DEF Step, seq
    <2>3. c[1..k] = Step(c[1..k-1], k)
      BY <1>4, <1>5, <2>1, <2>2
    <2> QED BY <2>3
  <1>7. f[0] = list
    <2>1. 1..0 = {} /\ {} \in SUBSET (1..n)
      BY <1>len
    <2> HIDE DEF Step
    <2> QED BY <1>4, <2>1
  <1>8. f \in [0..n -> Lists]
    <2> DEFINE T == {k \in 0..n : f[k] \in Lists}
    <2>1. 0 \in T
      BY <1>7
    <2>2. ASSUME NEW k \in 0..n-1, k \in T PROVE k+1 \in T
      <3>1. f[k+1] = Step(f[k], k+1)
        <4> HIDE DEF f, Step
        <4> QED BY <1>6
      <3>2. step[<<f[k], k+1>>] \in Lists /\ step[<<f[k], k+1>>] = Step(f[k], k+1)
        <4>1. f[k] \in Lists /\ k+1 \in 1..n
          BY <2>2
        <4> HIDE DEF f, Step
        <4> QED BY <4>1, <1>2
      <3> HIDE DEF f, Step
      <3> QED BY <3>1, <3>2
    <2>3. 0..n \subseteq T
      <3> HIDE DEF T
      <3> QED BY <2>1, <2>2, BoundedInduction
    <2> QED BY <2>3
  <1>9. f[n] = SortStringListAlphabetically(list)
    BY <1>1, <1>5
  <1> HIDE DEF f
  <1> QED BY <1>len, <1>6, <1>7, <1>8, <1>9

(* Nothing is out of place when every pass has been made.                  *)
LEMMA SortSorts ==
  ASSUME NEW list \in Lists, Distinct(list)
  PROVE  \E l \in Lists : /\ l = SortStringListAlphabetically(list)
                          /\ Distinct(l) /\ Settled(l, 0)
  <1> DEFINE N == Cardinality(Cities)
  <1>1. N \in Nat
    BY NumberOfCities
  <1>2. PICK f \in [0..N -> Lists] :
           /\ f[0] = list /\ f[N] = SortStringListAlphabetically(list)
           /\ \A j \in 1..N : f[j] = Pass(f[j-1], N - j)
    BY <1>1, SortSteps
  <1> DEFINE T == {j \in 0..N : Distinct(f[j]) /\ Settled(f[j], N - j)}
  <1>3. 0 \in T
    <2>1. Settled(list, N - 0)
      BY <1>1 DEF Settled
    <2> QED BY <1>1, <1>2, <2>1
  <1>4. ASSUME NEW j \in 0..N-1, j \in T PROVE j+1 \in T
    <2> DEFINE l == f[j]
               n == N - (j+1)
    <2>1. l \in Lists /\ Distinct(l) /\ Settled(l, n+1)
      <3>1. N - j = n + 1
        BY <1>1
      <3> QED BY <1>4, <3>1
    <2>2. n \in Nat /\ n < Cardinality(Cities)
      BY <1>1
    <2>3. f[j+1] = Pass(l, n)
      <3>1. j+1 \in 1..N /\ (j+1)-1 = j
        BY <1>1
      <3>2. f[j+1] = Pass(f[(j+1)-1], N - (j+1))
        BY <1>2, <3>1
      <3> QED BY <3>1, <3>2
    <2> HIDE DEF l, n
    <2>4. Distinct(f[j+1]) /\ Settled(f[j+1], n)
      BY <2>1, <2>2, <2>3, PassSettles
    <2> QED BY <1>1, <2>4 DEF n
  <1>5. N \in T
    <2> HIDE DEF T
    <2>1. 0..N \subseteq T
      BY <1>1, <1>3, <1>4, BoundedInduction
    <2> QED BY <1>1, <2>1
  <1>6. f[N] \in Lists /\ Distinct(f[N]) /\ Settled(f[N], 0)
    <2>1. N - N = 0
      BY <1>1
    <2> QED BY <1>5, <2>1
  <1> QED BY <1>2, <1>6

(* A city's place in the sorted list is its position.                      *)
LEMMA SortedPositions ==
  ASSUME NEW l \in Lists, Distinct(l), Settled(l, 0)
  PROVE  /\ \A p \in DOMAIN l : Position(l[p]) = p
         /\ \A c \in Cities : \E p \in DOMAIN l : c = l[p]
  <1> DEFINE N == Cardinality(Cities)
             First(p) == {l[k] : k \in 1..p}
             T == {p \in 0..N : IsFiniteSet(First(p)) /\ Cardinality(First(p)) = p}
  <1>1. N \in Nat /\ IsFiniteSet(Cities) /\ Cities \subseteq Nat
    BY NumberOfCities
  <1>2. l \in [1..N -> Cities] /\ l \in [1..N -> Nat] /\ DOMAIN l = 1..N
    BY <1>1 DEF Lists
  <1>3. 0 \in T
    <2>1. First(0) = {}
      OBVIOUS
    <2> QED BY <1>1, <2>1, FS_EmptySet
  <1>4. ASSUME NEW p \in 0..N-1, p \in T PROVE p+1 \in T
    <2>1. First(p+1) = First(p) \cup {l[p+1]}
      <3>1. 1..p+1 = (1..p) \cup {p+1}
        OBVIOUS
      <3> QED BY <3>1
    <2>2. l[p+1] \notin First(p)
      <3>1. SUFFICES ASSUME NEW k \in 1..p, l[p+1] = l[k] PROVE FALSE
        OBVIOUS
      <3>2. p+1 \in 1..N /\ k \in 1..N
        BY <1>1
      <3>3. p+1 = k
        BY <1>2, <3>1, <3>2 DEF Distinct
      <3> QED BY <3>3
    <2> HIDE DEF First
    <2>3. IsFiniteSet(First(p+1)) /\ Cardinality(First(p+1)) = p + 1
      BY <1>4, <2>1, <2>2, FS_AddElement
    <2> QED BY <1>1, <2>3
  <1>5. ASSUME NEW p \in 0..N PROVE IsFiniteSet(First(p)) /\ Cardinality(First(p)) = p
    <2>1. 0..N \subseteq T
      <3> HIDE DEF T
      <3> QED BY <1>1, <1>3, <1>4, BoundedInduction
    <2> QED BY <2>1
  <1>6. First(N) = Cities
    <2>1. First(N) \in SUBSET Cities
      BY <1>2
    <2>2. Cardinality(First(N)) = Cardinality(Cities)
      <3>1. N \in 0..N
        BY <1>1
      <3> HIDE DEF First
      <3> QED BY <1>5, <3>1
    <2> HIDE DEF First
    <2> QED BY <1>1, <2>1, <2>2, FS_Subset
  <1>7. ASSUME NEW j \in 1..N, NEW k \in 1..N PROVE l[j] <= l[k] <=> j <= k
    <2>1. l[j] \in Nat /\ l[k] \in Nat
      BY <1>2
    <2>2. j < k => l[j] < l[k]
      BY <1>1 DEF Settled
    <2>3. k < j => l[k] < l[j]
      BY <1>1 DEF Settled
    <2> QED BY <2>1, <2>2, <2>3
  <1>8. ASSUME NEW p \in 1..N PROVE Position(l[p]) = p
    <2>1. {d \in Cities : d <= l[p]} = First(p)
      <3>1. ASSUME NEW k \in 1..p PROVE l[k] \in Cities /\ l[k] <= l[p]
        <4>1. k \in 1..N /\ k <= p
          BY <1>1
        <4> QED BY <1>2, <1>7, <4>1
      <3>2. ASSUME NEW d \in Cities, d <= l[p] PROVE d \in First(p)
        <4>1. PICK k \in 1..N : d = l[k]
          BY <1>6
        <4> QED BY <1>7, <3>2, <4>1
      <3> QED BY <3>1, <3>2
    <2> HIDE DEF First
    <2> QED BY <1>5, <2>1 DEF Position
  <1> QED BY <1>2, <1>6, <1>8

(* The smaller and the larger of two numbers.                              *)
LEMMA OfTwo ==
  ASSUME NEW a \in Nat, NEW b \in Nat
  PROVE  /\ Min({a, b}) = IF a <= b THEN a ELSE b
         /\ Max({a, b}) = IF a <= b THEN b ELSE a
  <1>1. \E x \in {a, b} : \A y \in {a, b} : x <= y
    OBVIOUS
  <1>2. \E x \in {a, b} : \A y \in {a, b} : x >= y
    OBVIOUS
  <1>3. Min({a, b}) \in {a, b} /\ \A y \in {a, b} : Min({a, b}) <= y
    BY <1>1, Zenon DEF Min
  <1>4. Max({a, b}) \in {a, b} /\ \A y \in {a, b} : Max({a, b}) >= y
    BY <1>2, Zenon DEF Max
  <1> QED BY <1>3, <1>4

(* The cities of a range, each once.                                       *)
IsListing(list, r) ==
  list \in Seq(Cities) /\ Distinct(list) /\ ToSet(list) = CitiesIn(r)

(* Whatever the order in which readdir gives the directories, a servant    *)
(* finds those of its range, and finds each once.                          *)
LEMMA DirectoriesListed ==
  ASSUME NEW r \in Ranges, NEW list \in MainDirLists[r]
  PROVE  IsListing(list, r)
  <1> DEFINE N == Cardinality(Cities)
  <1>1. N \in Nat /\ IsFiniteSet(Cities) /\ Cities \subseteq Nat
    BY NumberOfCities
  <1>2. PICK given \in SetToSeqs(Cities) : list = FilterDatasetWithGivenRange(r, given)
    BY DEF MainDirLists
  <1>3. given \in Lists /\ Distinct(given)
    BY <1>2 DEF SetToSeqs, Lists, Distinct
  <1>4. PICK l \in Lists : /\ l = SortStringListAlphabetically(given)
                           /\ Distinct(l) /\ Settled(l, 0)
    BY <1>3, SortSorts
  <1>5. /\ \A p \in DOMAIN l : Position(l[p]) = p
        /\ \A c \in Cities : \E p \in DOMAIN l : c = l[p]
    BY <1>4, SortedPositions
  <1> DEFINE a == IF r.lower <= 1 THEN 1 ELSE r.lower
             b == IF r.upper <= N THEN r.upper ELSE N
  <1>6. r.lower \in Nat /\ r.upper \in Nat
    BY ClusterAssumption
  <1>7. list = SubSeq(l, a, b)
    <2>1. Len(given) = N
      BY <1>1, <1>3 DEF Lists
    <2>2. Max({r.lower, 1}) = a /\ Min({r.upper, N}) = b
      <3> HIDE DEF N
      <3> QED BY <1>1, <1>6, OfTwo
    <2> HIDE DEF a, b
    <2> QED BY <1>2, <1>4, <2>1, <2>2 DEF FilterDatasetWithGivenRange
  <1>8. a \in Nat \ {0} /\ b \in Nat /\ b <= N /\ DOMAIN l = 1..N /\ l \in [1..N -> Cities]
    BY <1>1, <1>4, <1>6 DEF Lists
  <1>9. \A i \in 1..N : i \in a..b <=> i \in r.lower..r.upper
    BY <1>1, <1>6
  <1> HIDE DEF a, b, N
  <1>10. /\ list \in Seq(Cities)
         /\ Len(list) = IF a <= b THEN b - a + 1 ELSE 0
         /\ \A i \in 1..b-a+1 : list[i] = l[a+i-1]
    <2>1. \A i \in a..b : l[i] \in Cities
      BY <1>8, <1>1
    <2>2. a \in Int /\ b \in Int
      BY <1>8
    <2> QED BY <1>7, <2>1, <2>2, SubSeqProperties
  <1>11. DOMAIN list = 1..b-a+1 /\ \A i \in DOMAIN list : a+i-1 \in a..b /\ a+i-1 \in 1..N
    <2>1. DOMAIN list = 1..Len(list)
      BY <1>10
    <2> QED BY <1>1, <1>8, <1>10, <2>1
  <1>12. Distinct(list)
    <2>1. ASSUME NEW j \in DOMAIN list, NEW k \in DOMAIN list, list[j] = list[k] PROVE j = k
      <3>1. l[a+j-1] = l[a+k-1] /\ a+j-1 \in 1..N /\ a+k-1 \in 1..N
        BY <1>10, <1>11, <2>1
      <3>2. a+j-1 = a+k-1
        BY <1>4, <1>8, <3>1 DEF Distinct
      <3> QED BY <1>8, <1>11, <3>2
    <2> QED BY <2>1 DEF Distinct
  <1>13. ASSUME NEW i \in DOMAIN list PROVE list[i] \in CitiesIn(r)
    <2>1. list[i] = l[a+i-1] /\ a+i-1 \in a..b /\ a+i-1 \in 1..N
      BY <1>10, <1>11
    <2>2. Position(list[i]) = a+i-1 /\ list[i] \in Cities
      BY <1>5, <1>8, <2>1
    <2> QED BY <1>9, <2>1, <2>2 DEF CitiesIn
  <1>14. ASSUME NEW c \in CitiesIn(r) PROVE \E i \in DOMAIN list : c = list[i]
    <2>1. c \in Cities /\ Position(c) \in r.lower..r.upper
      BY DEF CitiesIn
    <2>2. PICK p \in 1..N : c = l[p] /\ Position(c) = p
      BY <1>5, <1>8, <2>1
    <2>3. p \in a..b
      BY <1>9, <2>1, <2>2
    <2>4. p-a+1 \in DOMAIN list /\ a+(p-a+1)-1 = p
      BY <1>8, <1>11, <2>3
    <2>5. list[p-a+1] = l[a+(p-a+1)-1]
      BY <1>10, <1>11, <2>4
    <2> QED BY <2>2, <2>4, <2>5
  <1>15. ToSet(list) = CitiesIn(r)
    BY <1>13, <1>14 DEF ToSet
  <1> QED BY <1>10, <1>12, <1>15 DEF IsListing

(* The transactions of a query in the cities of a range.                   *)
CityCount(r, q) ==
  SumFunctionOnSet(Transactions, {c \in CitiesIn(r) : q \in {NoCity, c}})

(* A servant's lists hold the transactions of the cities in its range.     *)
LEMMA TransactionsCounted ==
  ASSUME NEW r \in Ranges, NEW list, IsListing(list, r), NEW q
  PROVE  CountOf(list, q) = CityCount(r, q) /\ CityCount(r, q) \in Nat
  <1> DEFINE n == Len(list)
             fun == [k \in DOMAIN list |->
                       IF q \in {NoCity, list[k]} THEN Transactions[list[k]] ELSE 0]
             Heard(k) == {c \in {list[j] : j \in 1..k} : q \in {NoCity, c}}
             T == {k \in 0..n : SumFunctionOnSet(fun, 1..k)
                                = SumFunctionOnSet(Transactions, Heard(k))}
  <1>1. /\ n \in Nat /\ DOMAIN list = 1..n /\ \A j \in 1..n : list[j] \in Cities
        /\ IsFiniteSet(Cities) /\ Transactions \in [Cities -> Nat]
    <2>1. list \in Seq(Cities)
      BY DEF IsListing
    <2> QED BY <2>1, NumberOfCities, ClusterAssumption
  <1>2. \A j \in 1..n : fun[j] = IF q \in {NoCity, list[j]} THEN Transactions[list[j]] ELSE 0
    BY <1>1
  <1>3. \A j \in 1..n : fun[j] \in Nat
    BY <1>1, <1>2
  <1> HIDE DEF fun, n
  <1>4. ASSUME NEW S \in SUBSET Cities
        PROVE  Summable(Transactions, S) /\ SumFunctionOnSet(Transactions, S) \in Nat
    <2>1. IsFiniteSet(S)
      BY <1>1, FS_Subset
    <2>2. \A c \in S : Transactions[c] \in Nat
      BY <1>1
    <2> QED BY <2>1, <2>2, SumType DEF Summable
  <1>5. 0 \in T
    <2>1. 1..0 = {} /\ Heard(0) = {} /\ 0 \in 0..n
      BY <1>1
    <2> HIDE DEF Heard
    <2>2. SumFunctionOnSet(fun, 1..0) = 0
      BY <2>1, SumOfNone
    <2>3. SumFunctionOnSet(Transactions, Heard(0)) = 0
      BY <2>1, SumOfNone
    <2> QED BY <2>1, <2>2, <2>3
  <1>6. ASSUME NEW k \in 0..n-1, k \in T PROVE k+1 \in T
    <2> DEFINE c == list[k+1]
    <2>1. /\ k \in Nat /\ k+1 \in 1..n /\ c \in Cities
          /\ 1..k+1 = (1..k) \cup {k+1} /\ k+1 \notin 1..k
      BY <1>1
    <2>2. /\ SumFunctionOnSet(fun, 1..k) \in Int
          /\ SumFunctionOnSet(fun, 1..k+1) = fun[k+1] + SumFunctionOnSet(fun, 1..k)
      <3>1. IsFiniteSet(1..k+1)
        BY <2>1, FS_Interval
      <3>2. \A j \in 1..k+1 : fun[j] \in Int
        BY <1>1, <1>3
      <3>3. Summable(fun, (1..k) \cup {k+1})
        BY <2>1, <3>1, <3>2 DEF Summable
      <3> QED BY <2>1, <3>3, SumAdd
    <2>3. c \notin Heard(k) /\ Heard(k) \subseteq Cities /\ Heard(k+1) \subseteq Cities
      <3>1. ASSUME NEW j \in 1..k+1 PROVE list[j] \in Cities /\ (list[j] = c => j = k+1)
        <4>1. j \in 1..n
          BY <1>1
        <4> QED BY <1>1, <2>1, <4>1 DEF IsListing, Distinct
      <3> QED BY <2>1, <3>1
    <2>4. CASE q \in {NoCity, c}
      <3>1. Heard(k+1) = Heard(k) \cup {c}
        BY <2>1, <2>4
      <3>2. fun[k+1] = Transactions[c]
        BY <1>2, <2>1, <2>4
      <3> HIDE DEF Heard
      <3>3. Summable(Transactions, Heard(k) \cup {c})
        BY <1>4, <2>3, <3>1
      <3>4. SumFunctionOnSet(Transactions, Heard(k+1))
              = Transactions[c] + SumFunctionOnSet(Transactions, Heard(k))
        BY <2>3, <3>1, <3>3, SumAdd
      <3> QED BY <1>6, <2>1, <2>2, <3>2, <3>4
    <2>5. CASE q \notin {NoCity, c}
      <3>1. Heard(k+1) = Heard(k)
        BY <2>1, <2>5
      <3>2. fun[k+1] = 0
        BY <1>2, <2>1, <2>5
      <3> HIDE DEF Heard
      <3> QED BY <1>6, <2>1, <2>2, <3>1, <3>2
    <2> QED BY <2>4, <2>5
  <1>7. n \in T
    <2> HIDE DEF T
    <2>1. 0..n \subseteq T
      BY <1>1, <1>5, <1>6, BoundedInduction
    <2> QED BY <1>1, <2>1
  <1>8. Heard(n) = {c \in CitiesIn(r) : q \in {NoCity, c}}
    BY <1>1 DEF IsListing, ToSet
  <1>9. CountOf(list, q) = SumFunctionOnSet(fun, 1..n)
    BY <1>1 DEF CountOf, SumFunction, fun
  <1>10. Heard(n) \in SUBSET Cities
    BY <1>8 DEF CitiesIn
  <1> HIDE DEF Heard
  <1> QED BY <1>4, <1>7, <1>8, <1>9, <1>10 DEF CityCount

-----------------------------------------------------------------------------
(* What the server has of a registration before it reads the cities.       *)
Blank(m) ==
  [port |-> m.port, size |-> 0, overflow |-> FALSE, from |-> m.from,
   cityNames |-> [k \in 1..2*CityCapacity |-> Hole]]

Records(m) ==
  [port : {m.port}, size : Nat, overflow : BOOLEAN, from : {m.from},
   cityNames : [1..2*CityCapacity -> Cities \cup {Hole}]]

(* One city more in a record.                                              *)
LEMMA CityAdded ==
  ASSUME NEW m, NEW s \in Records(m), NEW city \in Cities
  PROVE  /\ AddCityToServant(s, city) \in Records(m)
         /\ s.size < CityCapacity =>
              /\ AddCityToServant(s, city).overflow = s.overflow
              /\ AddCityToServant(s, city).size =
                   IF s.size + 1 = CityCapacity THEN 2 * CityCapacity ELSE s.size + 1
              /\ AddCityToServant(s, city).cityNames =
                   [s.cityNames EXCEPT ![s.size + 1] = city]
         /\ s.size >= CityCapacity =>
              /\ AddCityToServant(s, city).size = s.size
              /\ AddCityToServant(s, city).cityNames = s.cityNames
  <1>1. CityCapacity \in Nat \ {0}
    BY ClusterAssumption
  <1>2. /\ s.size \in Nat /\ s.cityNames \in [1..2*CityCapacity -> Cities \cup {Hole}]
        /\ s = [port |-> s.port, size |-> s.size, overflow |-> s.overflow,
                from |-> s.from, cityNames |-> s.cityNames]
    BY DEF Records
  <1>3. CASE s.size >= CityCapacity
    <2>1. AddCityToServant(s, city) = [s EXCEPT !.overflow = TRUE]
      BY <1>3 DEF AddCityToServant
    <2>2. [s EXCEPT !.overflow = TRUE] \in Records(m)
      BY DEF Records
    <2>3. /\ [s EXCEPT !.overflow = TRUE].size = s.size
          /\ [s EXCEPT !.overflow = TRUE].cityNames = s.cityNames
      BY DEF Records
    <2>4. ~(s.size < CityCapacity)
      BY <1>1, <1>2, <1>3
    <2> QED BY <2>1, <2>2, <2>3, <2>4
  <1>4. CASE s.size < CityCapacity
    <2> DEFINE size == s.size + 1
               names == [s.cityNames EXCEPT ![size] = city]
               full == IF size >= CityCapacity THEN 2 * size ELSE size
    <2>1. AddCityToServant(s, city) = [s EXCEPT !.cityNames = names, !.size = full]
      BY <1>1, <1>2, <1>4 DEF AddCityToServant
    <2>2. /\ names \in [1..2*CityCapacity -> Cities \cup {Hole}] /\ full \in Nat
          /\ full = IF size = CityCapacity THEN 2 * CityCapacity ELSE size
      BY <1>1, <1>2, <1>4
    <2>3. AddCityToServant(s, city) =
            [port |-> s.port, size |-> full, overflow |-> s.overflow,
             from |-> s.from, cityNames |-> names]
      <3> HIDE DEF names, full
      <3> QED BY <1>2, <2>1
    <2> HIDE DEF names, full
    <2>4. AddCityToServant(s, city) \in Records(m)
      BY <2>2, <2>3 DEF Records
    <2>5. ~(s.size >= CityCapacity)
      BY <1>1, <1>2, <1>4
    <2> QED BY <2>2, <2>3, <2>4, <2>5 DEF names
  <1> QED BY <1>1, <1>2, <1>3, <1>4

(* What the server reads, a city at a time.                                *)
LEMMA ReadSteps ==
  ASSUME NEW m, NEW n \in Nat, m.cities \in Seq(Cities), n = Len(m.cities)
  PROVE  \E f \in [0..n -> Records(m)] :
           /\ f[0] = Blank(m) /\ f[n] = ReadServant(m)
           /\ \A j \in 1..n : f[j] = AddCityToServant(f[j-1], m.cities[j])
  <1>len. DOMAIN m.cities = 1..n
    OBVIOUS
  <1>blank. Blank(m) \in Records(m)
    BY ClusterAssumption DEF Blank, Records
  <1> DEFINE seq == m.cities
             Step(l, i) == AddCityToServant(l, m.cities[i])
             step == [p \in Records(m) \X (1..n) |-> Step(p[1], p[2])]
             Eq(it) == it = [s \in SUBSET (DOMAIN seq) |->
                               IF s = {} THEN Blank(m)
                               ELSE AddCityToServant(it[s \ {Max(s)}], seq[Max(s)])]
             c == CHOOSE it : Eq(it)
  <1>1. ReadServant(m) = c[DOMAIN seq]
    BY Zenon DEF ReadServant, Blank, FoldLeft, MapThenFoldSet
  <1>2. step \in [Records(m) \X (1..n) -> Records(m)]
    <2>1. ASSUME NEW l \in Records(m), NEW j \in 1..n PROVE Step(l, j) \in Records(m)
      <3>1. m.cities[j] \in Cities
        BY <1>len
      <3> QED BY <3>1, CityAdded
    <2> HIDE DEF Step
    <2> QED BY <2>1
  <1>3. \E it : Eq(it)
    <2> HIDE DEF step
    <2>1. PICK it : /\ it = [s \in SUBSET (1..n) |->
                            IF s = {} THEN Blank(m) ELSE step[<<it[s \ {Max(s)}], Max(s)>>]]
                 /\ \A s \in SUBSET (1..n) :
                      it[s] \in Records(m) /\ (s # {} => Max(s) \in s)
      <3> DEFINE V == Records(m)
                 z == Blank(m)
      <3>1. z \in V /\ step \in [V \X (1..n) -> V]
        BY <1>blank, <1>2
      <3> HIDE DEF V, z
      <3>2. \E it : /\ it = [s \in SUBSET (1..n) |->
                            IF s = {} THEN z ELSE step[<<it[s \ {Max(s)}], Max(s)>>]]
                 /\ \A s \in SUBSET (1..n) :
                      it[s] \in V /\ (s # {} => Max(s) \in s)
        BY <3>1, FoldInterval
      <3> QED BY <3>2 DEF V, z
    <2>2. ASSUME NEW s \in SUBSET (1..n)
          PROVE  it[s] = IF s = {} THEN Blank(m)
                         ELSE AddCityToServant(it[s \ {Max(s)}], seq[Max(s)])
      <3>1. CASE s = {}
        BY <2>1, <3>1
      <3>2. CASE s # {}
        <4>1. it[s \ {Max(s)}] \in Records(m) /\ Max(s) \in 1..n
          BY <2>1, <3>2
        <4>3. it[s] = step[<<it[s \ {Max(s)}], Max(s)>>]
          BY <2>1, <3>2
        <4> QED BY <3>2, <4>1, <4>3 DEF step
      <3> QED BY <3>1, <3>2
    <2>3. DOMAIN seq = 1..n
      BY <1>len
    <2> HIDE DEF Step, seq
    <2>4. it = [s \in SUBSET (1..n) |-> it[s]]
      BY <2>1
    <2>5. Eq(it)
      BY <2>2, <2>3, <2>4
    <2> QED BY <2>5
  <1>4. Eq(c)
    <2> HIDE DEF Eq
    <2> QED BY <1>3
  <1> HIDE DEF c
  <1> DEFINE f == [k \in 0..n |-> c[1..k]]
  <1>5. DOMAIN seq = 1..n
    BY <1>len
  <1>6. ASSUME NEW k \in 1..n PROVE f[k] = Step(f[k-1], k)
    <2>1. Max(1..k) = k /\ (1..k) \ {k} = 1..k-1
      BY MaxInterval
    <2>2. 1..k \in SUBSET (1..n) /\ k \in 1..k /\ DOMAIN seq = 1..n
      BY <1>len
    <2>3. c[1..k] = AddCityToServant(c[(1..k) \ {k}], seq[k])
      <3> HIDE DEF seq
      <3> QED BY <1>4, <2>1, <2>2
    <2>4. c[1..k] = Step(c[1..k-1], k)
      BY <2>1, <2>3
    <2> HIDE DEF Step
    <2> QED BY <2>4
  <1>7. f[0] = Blank(m)
    <2>1. 1..0 = {} /\ {} \in SUBSET (1..n)
      BY <1>len
    <2> HIDE DEF Step
    <2> QED BY <1>4, <2>1
  <1>8. f \in [0..n -> Records(m)]
    <2> DEFINE T == {k \in 0..n : f[k] \in Records(m)}
    <2>1. 0 \in T
      BY <1>blank, <1>7
    <2>2. ASSUME NEW k \in 0..n-1, k \in T PROVE k+1 \in T
      <3>1. f[k+1] = Step(f[k], k+1)
        <4> HIDE DEF f, Step
        <4> QED BY <1>6
      <3>2. step[<<f[k], k+1>>] \in Records(m) /\ step[<<f[k], k+1>>] = Step(f[k], k+1)
        <4>1. f[k] \in Records(m) /\ k+1 \in 1..n
          BY <2>2
        <4> HIDE DEF f, Step
        <4> QED BY <4>1, <1>2
      <3> HIDE DEF f, Step
      <3> QED BY <3>1, <3>2
    <2>3. 0..n \subseteq T
      <3> HIDE DEF T
      <3> QED BY <2>1, <2>2, BoundedInduction
    <2> QED BY <2>3
  <1>9. f[n] = ReadServant(m)
    BY <1>1, <1>5
  <1> HIDE DEF f
  <1> QED BY <1>len, <1>6, <1>7, <1>8, <1>9

(* What the server has of a registration: its cities, in their order, if   *)
(* it has room for them; otherwise a number of cities that is wrong.       *)
LEMMA RegistrationRead ==
  ASSUME NEW m, m.cities \in Seq(Cities)
  PROVE  /\ ReadServant(m) \in Records(m)
         /\ Len(m.cities) < CityCapacity =>
              /\ ReadServant(m).size = Len(m.cities) /\ ~ReadServant(m).overflow
              /\ \A j \in 1..Len(m.cities) : ReadServant(m).cityNames[j] = m.cities[j]
         /\ Len(m.cities) >= CityCapacity =>
              /\ ReadServant(m).size = 2 * CityCapacity
              /\ ReadServant(m).cityNames[2 * CityCapacity] = Hole
  <1> DEFINE n == Len(m.cities)
  <1>1. /\ n \in Nat /\ CityCapacity \in Nat \ {0}
        /\ \A j \in 1..n : m.cities[j] \in Cities
    BY ClusterAssumption
  <1>2. PICK f \in [0..n -> Records(m)] :
           /\ f[0] = Blank(m) /\ f[n] = ReadServant(m)
           /\ \A j \in 1..n : f[j] = AddCityToServant(f[j-1], m.cities[j])
    BY <1>1, ReadSteps
  <1> DEFINE Fits(k) == /\ f[k].size = k /\ f[k].overflow = FALSE
                        /\ \A j \in 1..k : f[k].cityNames[j] = m.cities[j]
             Good(k) == /\ k < CityCapacity => Fits(k)
                        /\ k >= CityCapacity => f[k].size = 2 * CityCapacity
                        /\ f[k].cityNames[2 * CityCapacity] = Hole
             T == {k \in 0..n : Good(k)}
  <1> HIDE DEF n
  <1>3. 0 \in T
    BY <1>1, <1>2 DEF Blank
  <1>4. ASSUME NEW k \in 0..n-1, k \in T PROVE k+1 \in T
    <2> DEFINE s == f[k]
               t == f[k+1]
               city == m.cities[k+1]
    <2>1. /\ k \in Nat /\ k+1 \in 1..n /\ s \in Records(m) /\ city \in Cities
          /\ t = AddCityToServant(s, city)
      <3>1. k \in Nat /\ k \in 0..n /\ k+1 \in 1..n /\ (k+1)-1 = k
        BY <1>1
      <3>2. f[k+1] = AddCityToServant(f[(k+1)-1], m.cities[k+1])
        BY <1>2, <3>1
      <3> QED BY <1>1, <1>2, <3>1, <3>2
    <2>2. Good(k)
      BY <1>4
    <2>3. s.size \in Nat /\ s.cityNames \in [1..2*CityCapacity -> Cities \cup {Hole}]
      BY <2>1 DEF Records
    <2>4. /\ s.size < CityCapacity =>
               /\ t.overflow = s.overflow
               /\ t.size = IF s.size + 1 = CityCapacity THEN 2 * CityCapacity
                           ELSE s.size + 1
               /\ t.cityNames = [s.cityNames EXCEPT ![s.size + 1] = city]
          /\ s.size >= CityCapacity => t.size = s.size /\ t.cityNames = s.cityNames
      <3> HIDE DEF s, t, city
      <3> QED BY <2>1, CityAdded
    <2>5. CASE k < CityCapacity
      <3>1. s.size = k /\ Fits(k)
        BY <2>2, <2>5
      <3>2. /\ t.overflow = FALSE
            /\ t.size = IF k + 1 = CityCapacity THEN 2 * CityCapacity ELSE k + 1
            /\ t.cityNames = [s.cityNames EXCEPT ![k + 1] = city]
        BY <2>4, <2>5, <3>1
      <3>3. k + 1 \in 1..2*CityCapacity /\ k + 1 # 2 * CityCapacity
        BY <1>1, <2>1, <2>5
      <3>4. t.cityNames[2 * CityCapacity] = Hole
        <4>1. 2 * CityCapacity \in 1..2*CityCapacity
          BY <1>1
        <4> QED BY <2>2, <2>3, <3>2, <3>3, <4>1
      <3>5. ASSUME NEW j \in 1..k+1 PROVE t.cityNames[j] = m.cities[j]
        <4>1. j \in 1..2*CityCapacity
          BY <1>1, <2>1, <2>5
        <4>2. CASE j = k + 1
          BY <2>3, <3>2, <4>1, <4>2
        <4>3. CASE j # k + 1
          BY <2>1, <2>3, <3>1, <3>2, <4>1, <4>3
        <4> QED BY <4>2, <4>3
      <3>6. k + 1 < CityCapacity => Fits(k+1)
        BY <3>2, <3>5
      <3>7. k + 1 >= CityCapacity => t.size = 2 * CityCapacity
        BY <1>1, <2>1, <2>5, <3>2
      <3> HIDE DEF Fits
      <3> QED BY <2>1, <3>4, <3>6, <3>7
    <2>6. CASE ~(k < CityCapacity)
      <3>1. k >= CityCapacity /\ k + 1 >= CityCapacity /\ ~(k + 1 < CityCapacity)
            /\ 2 * CityCapacity >= CityCapacity
        BY <1>1, <2>1, <2>6
      <3>2. t.size = 2 * CityCapacity /\ t.cityNames[2 * CityCapacity] = Hole
        BY <2>2, <2>4, <3>1
      <3> HIDE DEF Fits
      <3> QED BY <2>1, <3>1, <3>2
    <2> QED BY <2>5, <2>6
  <1>5. n \in T
    <2> HIDE DEF T
    <2>1. 0..n \subseteq T
      BY <1>1, <1>3, <1>4, BoundedInduction
    <2> QED BY <1>1, <2>1
  <1>6. f[n] \in Records(m)
    BY <1>1, <1>2
  <1> QED BY <1>2, <1>5, <1>6 DEF n

(* The server prints a registration without touching what it has not read  *)
(* if and only if it has room for its cities, and there is one.            *)
LEMMA Problems ==
  ASSUME NEW m, m.cities \in Seq(Cities), m.cities # <<>>, m.from # Nobody
  PROVE  Problem(m) = IF Len(m.cities) < CityCapacity THEN "none" ELSE "many cities"
  <1> DEFINE s == ReadServant(m)
             n == Len(m.cities)
  <1>1. n \in Nat \ {0} /\ CityCapacity \in Nat \ {0} /\ Hole \notin Cities
        /\ m.cities[n] \in Cities
    BY ClusterAssumption
  <1>2. /\ n < CityCapacity =>
             s.size = n /\ ~s.overflow /\ \A j \in 1..n : s.cityNames[j] = m.cities[j]
        /\ n >= CityCapacity =>
             s.size = 2 * CityCapacity /\ s.cityNames[2 * CityCapacity] = Hole
    BY RegistrationRead
  <1>3. s.overflow \in BOOLEAN
    BY RegistrationRead DEF Records
  <1> HIDE DEF n
  <1>4. CASE n < CityCapacity
    <2>1. n \in 1..n /\ s.size = n /\ n > 0 /\ n # 0 /\ s.cityNames[n] # Hole /\ ~s.overflow
      BY <1>1, <1>2, <1>4
    <2>2. Problem(m) = "none"
      BY <1>3, <2>1 DEF Problem
    <2> QED BY <1>4, <2>2 DEF n
  <1>5. CASE ~(n < CityCapacity)
    <2>1. n >= CityCapacity /\ 2 * CityCapacity > 0 /\ 2 * CityCapacity # 0
      BY <1>1, <1>5
    <2>2. s.size = 2 * CityCapacity /\ s.cityNames[s.size] = Hole
      BY <1>2, <2>1
    <2>3. Problem(m) = "many cities"
      BY <1>3, <2>1, <2>2 DEF Problem
    <2> QED BY <1>5, <2>3 DEF n
  <1> QED BY <1>4, <1>5

-----------------------------------------------------------------------------
RangesOK == range \in [Servants -> Ranges] /\ pc \in [Servants -> ServantPcs]

PortsDistinct == \A s, t \in Listening : Port(s) = Port(t) => s = t

IInv == RangesOK /\ PortsDistinct

-----------------------------------------------------------------------------
(* The middle of a range, rounded down, lies in it: two ranges with the    *)
(* same middle share it.                                                   *)
LEMMA SharedPortOverlap ==
  ASSUME NEW r \in Ranges, NEW q \in Ranges, PortOf(r) = PortOf(q)
  PROVE  r.lower <= q.upper /\ q.lower <= r.upper
  <1>1. /\ r.lower \in Nat /\ r.upper \in Nat /\ r.lower <= r.upper
        /\ q.lower \in Nat /\ q.upper \in Nat /\ q.lower <= q.upper
    BY ClusterAssumption
  <1>2. ASSUME NEW l \in Nat, NEW u \in Nat, l <= u
        PROVE  /\ (l + u) \div 2 \in Nat
               /\ l <= (l + u) \div 2 /\ (l + u) \div 2 <= u
    BY <1>2
  <1> DEFINE m == (r.lower + r.upper) \div 2
             n == (q.lower + q.upper) \div 2
  <1>3. m \in Nat /\ n \in Nat /\ r.lower <= m /\ m <= r.upper
                  /\ q.lower <= n /\ n <= q.upper
    BY <1>1, <1>2
  <1>4. 33500 + m + 1 = 33500 + n + 1
    BY DEF PortOf
  <1> HIDE DEF m, n
  <1> QED BY <1>1, <1>3, <1>4

-----------------------------------------------------------------------------
LEMMA NextCases ==
  ASSUME [Next]_vars
  PROVE  \/ \E s \in Servants : (\E r \in Ranges : Start(s, r))
         \/ \E s \in Servants : Bind(s) \/ Unblock(s) \/ Connect(s) \/ Send(s)
                              \/ CleanUp(s) \/ Exit(s) \/ Interrupt(s)
         \/ UNCHANGED <<pc, range>>
  <1>1. CASE \/ StartServer \/ ServerTerminates \/ HandleServant
             \/ \E q \in Queries : Queried(q)
    BY <1>1 DEF StartServer, ServerTerminates, HandleServant, RegisterServant,
       CloseEmpty, Queried, BeginQuery, Clash, HandleClientRequest, Visit, Reply, CutOff,
       Answer, QueryGoes, startVars
  <1> QED BY <1>1 DEF Next, Servant, vars, startVars

(* What a step does to the servants that listen: one that starts does not, *)
(* one joins them by binding a port that none of them has, some may go.    *)
LEMMA ListenersStep ==
  ASSUME RangesOK, [Next]_vars
  PROVE  \/ /\ Listening' \subseteq Listening
            /\ \A s \in Listening : range'[s] = range[s]
         \/ /\ range' = range
            /\ \E s \in Servants : /\ Listening' = Listening \cup {s}
                                  /\ Port(s) \notin {Port(t) : t \in Listening}
  <1> USE DEF RangesOK, ServantPcs
  <1>1. ASSUME NEW s \in Servants, NEW r \in Ranges, Start(s, r)
        PROVE  /\ Listening' \subseteq Listening
               /\ \A t \in Listening : range'[t] = range[t]
    <2>1. pc[s] = "off" /\ pc' \in {[pc EXCEPT ![s] = "off"], [pc EXCEPT ![s] = "bind"]}
      BY <1>1 DEF Start, ServantGoes, AfterListing
    <2>2. range' = [range EXCEPT ![s] = r]
      BY <1>1 DEF Start
    <2> QED BY <2>1, <2>2 DEF Listening
  <1>2. ASSUME NEW s \in Servants, Terminates(s)
        PROVE  Listening' \subseteq Listening /\ range' = range
    BY <1>2 DEF Terminates, Listening
  <1>3. ASSUME NEW s \in Servants, NEW from \in ServantPcs \ {"off", "bind"},
               NEW to \in ServantPcs, ServantGoes(s, from, to)
        PROVE  Listening' \subseteq Listening
    BY <1>3 DEF ServantGoes, Listening
  <1>4. ASSUME NEW s \in Servants, Bind(s)
        PROVE  \/ Terminates(s)
               \/ /\ range' = range /\ Listening' = Listening \cup {s}
                  /\ Port(s) \notin {Port(t) : t \in Listening}
    BY <1>4 DEF Bind, ServantGoes, Listening, startVars
  <1>5. ASSUME NEW s \in Servants,
               Unblock(s) \/ Connect(s) \/ Send(s) \/ CleanUp(s)
        PROVE  Listening' \subseteq Listening /\ range' = range
    BY <1>2, <1>3, <1>5 DEF Unblock, Connect, Send, CleanUp, startVars
  <1>6. ASSUME NEW s \in Servants, Exit(s) \/ Interrupt(s)
        PROVE  Listening' \subseteq Listening /\ range' = range
    BY <1>2, <1>6 DEF Exit, Interrupt, Listening, startVars
  <1>7. CASE UNCHANGED <<pc, range>>
    BY <1>7 DEF Listening
  <1> QED BY <1>1, <1>2, <1>4, <1>5, <1>6, <1>7, NextCases

LEMMA RangesStep ==
  ASSUME RangesOK, [Next]_vars
  PROVE  RangesOK'
  <1> USE DEF RangesOK, ServantPcs
  <1>1. ASSUME NEW s \in Servants, NEW r \in Ranges, Start(s, r)
        PROVE  RangesOK'
    BY <1>1 DEF Start, ServantGoes, AfterListing
  <1>2. ASSUME NEW s \in Servants, Terminates(s)
        PROVE  RangesOK'
    BY <1>2 DEF Terminates
  <1>3. ASSUME NEW s \in Servants,
               Bind(s) \/ Unblock(s) \/ Connect(s) \/ Send(s) \/ CleanUp(s)
        PROVE  RangesOK'
    BY <1>2, <1>3 DEF Bind, Unblock, Connect, Send, CleanUp, ServantGoes, startVars
  <1>4. ASSUME NEW s \in Servants, Exit(s) \/ Interrupt(s)
        PROVE  RangesOK'
    BY <1>2, <1>4 DEF Exit, Interrupt, startVars
  <1> QED BY <1>1, <1>3, <1>4, NextCases

LEMMA PortsKept ==
  ASSUME IInv, [Next]_vars
  PROVE  IInv'
  <1>1. RangesOK /\ PortsDistinct /\ RangesOK'
    BY RangesStep DEF IInv
  <1>2. CASE /\ Listening' \subseteq Listening
             /\ \A s \in Listening : range'[s] = range[s]
    BY <1>1, <1>2 DEF IInv, PortsDistinct, Port
  <1>3. ASSUME range' = range, NEW s \in Servants, Listening' = Listening \cup {s},
               Port(s) \notin {Port(t) : t \in Listening}
        PROVE  IInv'
    BY <1>1, <1>3 DEF IInv, PortsDistinct, Port
  <1> QED BY <1>1, <1>2, <1>3, ListenersStep

LEMMA Invariance == Spec => []IInv
  <1>1. Init => IInv
    <2> SUFFICES ASSUME Init PROVE IInv
      OBVIOUS
    <2>1. Listening = {}
      BY DEF Init, Listening
    <2>2. RangesOK
      BY ClusterAssumption DEF Init, RangesOK, ServantPcs
    <2> QED BY <2>1, <2>2 DEF IInv, PortsDistinct
  <1>2. IInv /\ [Next]_vars => IInv'
    BY PortsKept
  <1> QED BY <1>1, <1>2, PTL DEF Spec

-----------------------------------------------------------------------------
(* No two servants listen on one port: the port in a registration names    *)
(* the servant that has sent it as long as that one listens.               *)
THEOREM ListenersHavePortsOfTheirOwn == Spec => []PortsDistinct
  <1>1. IInv => PortsDistinct
    BY DEF IInv
  <1> QED BY <1>1, Invariance, PTL

(* A servant does not get its port only if its range overlaps that of a    *)
(* servant that listens, or an old connection is left on the port.         *)
THEOREM PortsFollowRanges == Spec => BindFailsOnlyOnOverlap
  <1>1. ASSUME IInv, [Next]_vars, NEW s \in Servants, pc[s] = "bind", pc'[s] = "off"
        PROVE  \/ Port(s) \in lingering
               \/ \E t \in Listening : /\ range[t].lower <= range[s].upper
                                       /\ range[s].lower <= range[t].upper
    <2>1. RangesOK
      BY <1>1 DEF IInv
    <2>2. Bind(s) => Port(s) \in {Port(t) : t \in Listening} \cup lingering
      BY <1>1, <2>1 DEF Bind, ServantGoes, RangesOK
    <2>3. Bind(s)
      <3>1. ASSUME NEW x \in Servants, NEW r \in Ranges, Start(x, r)
            PROVE  FALSE
        BY <1>1, <2>1, <3>1 DEF Start, ServantGoes, RangesOK
      <3>2. ASSUME NEW x \in Servants,
                   Unblock(x) \/ Connect(x) \/ Send(x) \/ CleanUp(x) \/ Exit(x)
                     \/ Interrupt(x) \/ (Bind(x) /\ x # s)
            PROVE  FALSE
        BY <1>1, <2>1, <3>2 DEF Bind, Unblock, Connect, Send, CleanUp, Exit,
           Interrupt, Terminates, ServantGoes, RangesOK
      <3> QED BY <1>1, <3>1, <3>2, NextCases
    <2>4. ASSUME NEW t \in Listening, Port(t) = Port(s)
          PROVE  /\ range[t].lower <= range[s].upper
                 /\ range[s].lower <= range[t].upper
      <3>1. range[s] \in Ranges /\ range[t] \in Ranges
        BY <2>1 DEF RangesOK, Listening
      <3> QED BY <2>4, <3>1, SharedPortOverlap DEF Port
    <2> QED BY <2>2, <2>3, <2>4
  <1>2. IInv /\ [Next]_vars =>
          [\A s \in Servants :
             pc[s] = "bind" /\ pc'[s] = "off" =>
               \/ Port(s) \in lingering
               \/ \E t \in Listening : /\ range[t].lower <= range[s].upper
                                       /\ range[s].lower <= range[t].upper]_vars
    BY <1>1
  <1> QED BY <1>2, Invariance, PTL DEF Spec, BindFailsOnlyOnOverlap

-----------------------------------------------------------------------------
(* The invariant of the composition.                                       *)

(* A servant that runs knows the cities of its range, and has at least one.*)
StartsOK ==
  /\ RangesOK /\ mainDirList \in [Servants -> Seq(Cities)]
  /\ \A s \in Servants :
       pc[s] # "off" => mainDirList[s] # <<>> /\ IsListing(mainDirList[s], range[s])
  /\ pending \subseteq Servants /\ starts \in 0..MaxStarts
  /\ lingering \subseteq {PortOf(r) : r \in Ranges}

Messages ==
  {Nothing} \cup [from : Servants, port : Int, cities : Seq(Cities) \ {<<>>}]

TableRecords ==
  [port : Int, size : Nat, overflow : BOOLEAN, from : Servants,
   cityNames : [1..2*CityCapacity -> Cities \cup {Hole}]]

(* What is on its way, and what the table holds, is what the servant has   *)
(* sent, which is still there.                                             *)
Sent(m) == pc[m.from] = "serve" /\ m = Registration(m.from)

Known(record) ==
  LET s == record.from
  IN /\ pc[s] = "serve" /\ record.port = Port(s) /\ record.size = Len(mainDirList[s])
     /\ \A j \in 1..record.size : record.cityNames[j] = mainDirList[s][j]

TableOK ==
  /\ server \in {"new", "up", "down"} /\ registering \in BOOLEAN /\ disturbed \in BOOLEAN
  /\ incoming \in Seq(Messages) /\ servants \in Seq(TableRecords)
  /\ ~disturbed =>
       /\ \A k \in DOMAIN incoming : incoming[k] # Nothing => Sent(incoming[k])
       /\ \A k \in DOMAIN servants : Known(servants[k])

(* A query has the counts of the servants before the one it visits, as     *)
(* long as its answers have not clashed with another's, and is about to    *)
(* have that of the one it is at.                                          *)
Counts(q) == [k \in 1..query[q].table |-> RangeCount(range[servants[k].from], q)]

Started(q) == query[q].at \in {"visit", "await", "answered"}

QueryOK(q) ==
  /\ server = "new" => ~Started(q)
  /\ server = "up" /\ Started(q) =>
       /\ query[q].table <= Len(servants) /\ query[q].i \in 1..query[q].table+1
       /\ query[q].at = "await" => query[q].i <= query[q].table
       /\ query[q].at = "answered" => query[q].i = query[q].table + 1
       /\ ~disturbed /\ query[q].at = "await" =>
            query[q].servant = servants[query[q].i].from
       /\ ~disturbed /\ ~query[q].clashed =>
            /\ query[q].result = SumFunctionOnSet(Counts(q), 1..query[q].i-1)
            /\ query[q].at = "await" => query[q].sent = q

QueryRecords ==
  [at : {"new", "visit", "await", "answered", "lost"}, table : Nat, i : Nat,
   result : Int, servant : Servants \cup {Nobody}, sent : Queries \cup {Nobody},
   clashed : BOOLEAN]

QueriesOK == query \in [Queries -> QueryRecords] /\ \A q \in Queries : QueryOK(q)

CInv == StartsOK /\ PortsDistinct /\ TableOK /\ QueriesOK

-----------------------------------------------------------------------------
LEMMA LostType == [New EXCEPT !.at = "lost"] \in QueryRecords
  <1>1. New \in QueryRecords
    BY DEF New, QueryRecords
  <1>2. ASSUME NEW r \in QueryRecords
        PROVE  [r EXCEPT !.at = "lost"] \in QueryRecords
    BY DEF QueryRecords
  <1> QED BY <1>1, <1>2

LEMMA PortType ==
  ASSUME NEW r \in Ranges PROVE PortOf(r) \in Int
  BY ClusterAssumption DEF PortOf

(* The type that is last in a servant's list counts for nothing.           *)
LEMMA RangeCountIs ==
  ASSUME NEW r, NEW q
  PROVE  RangeCount(r, q) = IF r \in EndsWithType THEN 0 ELSE CityCount(r, q)
  BY DEF RangeCount, CityCount

LEMMA RangeCountType ==
  ASSUME NEW r \in Ranges, NEW q PROVE RangeCount(r, q) \in Nat
  <1> DEFINE S == {c \in CitiesIn(r) : q \in {NoCity, c}}
  <1>1. S \in SUBSET Cities
    BY DEF CitiesIn
  <1>2. IsFiniteSet(S)
    BY <1>1, FS_Subset, NumberOfCities
  <1>3. \A c \in S : Transactions[c] \in Nat
    BY <1>1, ClusterAssumption
  <1> HIDE DEF S
  <1>4. SumFunctionOnSet(Transactions, S) \in Nat
    BY <1>2, <1>3, SumType
  <1> QED BY <1>4, RangeCountIs DEF CityCount, S

LEMMA StartsStep ==
  ASSUME StartsOK, [Next]_vars
  PROVE  StartsOK'
  <1>1. RangesOK /\ RangesOK'
    BY RangesStep DEF StartsOK
  <1> USE DEF StartsOK
  <1>2. ASSUME NEW s \in Servants, NEW r \in Ranges, Start(s, r)
        PROVE  StartsOK'
    <2>1. PICK list \in MainDirLists[r] :
             /\ mainDirList' = [mainDirList EXCEPT ![s] = list]
             /\ pc[s] = "off" /\ pc' = [pc EXCEPT ![s] = AfterListing(list)]
      BY <1>2 DEF Start, ServantGoes
    <2>2. IsListing(list, r) /\ list \in Seq(Cities)
      BY DirectoriesListed DEF IsListing
    <2>3. /\ range' = [range EXCEPT ![s] = r] /\ starts < MaxStarts /\ starts' = starts + 1
          /\ pending' = pending /\ lingering' = lingering
      BY <1>2 DEF Start
    <2>4. MaxStarts \in Nat
      BY ClusterAssumption
    <2>5. starts' \in 0..MaxStarts
      BY <2>3, <2>4
    <2>6. ASSUME NEW t \in Servants, pc'[t] # "off"
          PROVE  mainDirList'[t] # <<>> /\ IsListing(mainDirList'[t], range'[t])
      <3>1. CASE t = s
        <4>1. pc'[s] = AfterListing(list) /\ mainDirList'[s] = list /\ range'[s] = r
          BY <1>1, <2>1, <2>3 DEF RangesOK
        <4>2. list # <<>>
          BY <2>6, <3>1, <4>1 DEF AfterListing
        <4> QED BY <2>2, <3>1, <4>1, <4>2
      <3>2. CASE t # s
        BY <1>1, <2>1, <2>3, <2>6, <3>2 DEF RangesOK
      <3> QED BY <3>1, <3>2
    <2>7. mainDirList' \in [Servants -> Seq(Cities)]
      BY <2>1, <2>2
    <2> QED BY <1>1, <2>3, <2>5, <2>6, <2>7
  <1>3. ASSUME NEW s \in Servants, Terminates(s)
        PROVE  StartsOK'
    <2>1. /\ pc' = [pc EXCEPT ![s] = "off"] /\ UNCHANGED <<range, mainDirList, starts>>
          /\ pending' = pending \ {s}
          /\ lingering' = lingering \/ lingering' = lingering \cup {Port(s)}
      BY <1>3 DEF Terminates
    <2>2. Port(s) \in {PortOf(r) : r \in Ranges}
      BY <1>1 DEF Port, RangesOK
    <2>3. \A t \in Servants : pc'[t] # "off" => pc[t] # "off"
      BY <1>1, <2>1 DEF RangesOK
    <2> QED BY <1>1, <2>1, <2>2, <2>3
  <1>4. ASSUME NEW s \in Servants, UNCHANGED startVars, pc[s] # "off",
               NEW to, pc' = [pc EXCEPT ![s] = to]
        PROVE  StartsOK'
    <2>1. UNCHANGED <<range, mainDirList, pending, starts, lingering>>
      BY <1>4 DEF startVars
    <2>2. \A t \in Servants : pc'[t] # "off" => pc[t] # "off"
      BY <1>1, <1>4 DEF RangesOK
    <2> QED BY <1>1, <2>1, <2>2
  <1>5. CASE UNCHANGED <<pc, startVars>>
    BY <1>1, <1>5 DEF startVars
  <1>6. ASSUME NEW s \in Servants,
               Bind(s) \/ Unblock(s) \/ Connect(s) \/ Send(s) \/ CleanUp(s)
        PROVE  StartsOK'
    <2>1. \/ Terminates(s)
          \/ UNCHANGED startVars /\ pc[s] # "off" /\ \E to : pc' = [pc EXCEPT ![s] = to]
      BY <1>6 DEF Bind, Unblock, Connect, Send, CleanUp, ServantGoes
    <2> QED BY <1>3, <1>4, <2>1
  <1>7. ASSUME NEW s \in Servants, Exit(s) \/ Interrupt(s)
        PROVE  StartsOK'
    <2>1. \/ Terminates(s) \/ UNCHANGED <<pc, startVars>>
          \/ /\ pending' = pending \cup {s}
             /\ UNCHANGED <<pc, range, mainDirList, starts, lingering>>
      BY <1>7 DEF Exit, Interrupt
    <2>2. CASE /\ pending' = pending \cup {s}
               /\ UNCHANGED <<pc, range, mainDirList, starts, lingering>>
      BY <1>1, <2>2
    <2> QED BY <1>3, <1>5, <2>1, <2>2
  <1>8. CASE \/ StartServer \/ ServerTerminates \/ HandleServant
             \/ \E q \in Queries : Queried(q)
    <2>1. CASE StartServer \/ ServerTerminates \/ HandleServant
      BY <1>5, <2>1 DEF StartServer, ServerTerminates, HandleServant, RegisterServant,
         CloseEmpty, startVars
    <2>2. ASSUME NEW q \in Queries, Queried(q)
          PROVE  UNCHANGED <<pc, startVars>>
      BY <2>2 DEF Queried, BeginQuery, Clash, HandleClientRequest, Visit, Reply, CutOff,
         Answer, QueryGoes
    <2> QED BY <1>5, <1>8, <2>1, <2>2
  <1> QED BY <1>2, <1>5, <1>6, <1>7, <1>8 DEF Next, Servant, vars

(* As long as no registered servant has terminated, one that serves stays  *)
(* as it is.                                                               *)
LEMMA ServingStays ==
  ASSUME StartsOK, disturbed \in BOOLEAN, [Next]_vars
  PROVE  /\ disturbed' \in BOOLEAN
         /\ ~disturbed' => /\ ~disturbed
                           /\ \A s \in Servants : pc[s] = "serve" =>
                                /\ pc'[s] = "serve" /\ range'[s] = range[s]
                                /\ mainDirList'[s] = mainDirList[s]
  <1> USE DEF StartsOK, RangesOK
  <1>1. ASSUME NEW s \in Servants, NEW r \in Ranges, Start(s, r)
        PROVE  /\ disturbed' = disturbed
               /\ \A t \in Servants : pc[t] = "serve" =>
                                /\ pc'[t] = "serve" /\ range'[t] = range[t]
                                /\ mainDirList'[t] = mainDirList[t]
    <2>1. /\ disturbed' = disturbed /\ pc[s] = "off"
          /\ range' = [range EXCEPT ![s] = r]
          /\ \E l : mainDirList' = [mainDirList EXCEPT ![s] = l]
          /\ \E to : pc' = [pc EXCEPT ![s] = to]
      BY <1>1 DEF Start, ServantGoes
    <2> QED BY <2>1
  <1>2. ASSUME NEW s \in Servants, Terminates(s)
        PROVE  /\ disturbed' = (disturbed \/ pc[s] = "serve")
               /\ UNCHANGED <<range, mainDirList>> /\ pc' = [pc EXCEPT ![s] = "off"]
    BY <1>2 DEF Terminates
  <1>3. ASSUME NEW s \in Servants,
               Bind(s) \/ Unblock(s) \/ Connect(s) \/ Send(s) \/ CleanUp(s)
                 \/ Exit(s) \/ Interrupt(s)
        PROVE  \/ Terminates(s)
               \/ UNCHANGED <<pc, range, mainDirList, disturbed>>
               \/ /\ UNCHANGED <<range, mainDirList, disturbed>> /\ pc[s] # "serve"
                  /\ \E to : pc' = [pc EXCEPT ![s] = to]
    BY <1>3 DEF Bind, Unblock, Connect, Send, CleanUp, Exit, Interrupt, ServantGoes,
       startVars
  <1>4. CASE \/ StartServer \/ ServerTerminates \/ HandleServant
             \/ \E q \in Queries : Queried(q)
    BY <1>4 DEF StartServer, ServerTerminates, HandleServant, RegisterServant,
       CloseEmpty, Queried, BeginQuery, Clash, HandleClientRequest, Visit, Reply, CutOff,
       Answer, QueryGoes, startVars
  <1>5. CASE UNCHANGED vars
    BY <1>5 DEF vars, startVars
  <1>6. ASSUME NEW s \in Servants,
               Bind(s) \/ Unblock(s) \/ Connect(s) \/ Send(s) \/ CleanUp(s)
                 \/ Exit(s) \/ Interrupt(s)
        PROVE  /\ disturbed' \in BOOLEAN
               /\ ~disturbed' => /\ ~disturbed
                           /\ \A t \in Servants : pc[t] = "serve" =>
                                /\ pc'[t] = "serve" /\ range'[t] = range[t]
                                /\ mainDirList'[t] = mainDirList[t]
    <2>1. CASE Terminates(s)
      BY <1>2, <2>1
    <2>2. CASE UNCHANGED <<pc, range, mainDirList, disturbed>>
      BY <2>2
    <2>3. CASE /\ UNCHANGED <<range, mainDirList, disturbed>> /\ pc[s] # "serve"
               /\ \E to : pc' = [pc EXCEPT ![s] = to]
      BY <2>3
    <2> QED BY <1>3, <1>6, <2>1, <2>2, <2>3
  <1> QED BY <1>1, <1>4, <1>5, <1>6 DEF Next, Servant

-----------------------------------------------------------------------------
(* What is left of a sequence when an element is removed was in it.        *)
LEMMA Removed ==
  ASSUME NEW S, NEW s \in Seq(S), NEW k \in DOMAIN s
  PROVE  /\ RemoveAt(s, k) \in Seq(S)
         /\ \A j \in DOMAIN RemoveAt(s, k) : \E i \in DOMAIN s : RemoveAt(s, k)[j] = s[i]
  <1> DEFINE R == {s[i] : i \in DOMAIN s}
             a == SubSeq(s, 1, k-1)
             b == SubSeq(s, k+1, Len(s))
  <1>1. k \in 1..Len(s) /\ Len(s) \in Nat /\ R \subseteq S
    OBVIOUS
  <1>2. a \in Seq(R)
    <2>1. \A i \in 1..k-1 : s[i] \in R
      BY <1>1
    <2> HIDE DEF R
    <2> QED BY <1>1, <2>1, SubSeqProperties
  <1>3. b \in Seq(R)
    <2>1. \A i \in k+1..Len(s) : s[i] \in R
      BY <1>1
    <2> HIDE DEF R
    <2> QED BY <1>1, <2>1, SubSeqProperties
  <1>4. RemoveAt(s, k) = a \o b
    BY DEF RemoveAt
  <1> HIDE DEF a, b, R
  <1>5. a \o b \in Seq(R)
    BY <1>2, <1>3
  <1>6. a \o b \in Seq(S)
    BY <1>1, <1>5
  <1>7. \A j \in DOMAIN (a \o b) : (a \o b)[j] \in R
    BY <1>5
  <1> QED BY <1>4, <1>6, <1>7 DEF R

(* What a step does to what the server has.                                *)
LEMMA ServerCases ==
  ASSUME [Next]_vars
  PROVE  \/ UNCHANGED serverVars
         \/ \E s \in Servants : /\ pc[s] = "send" /\ pc' = [pc EXCEPT ![s] = "serve"]
                                /\ UNCHANGED <<range, mainDirList>>
                                /\ UNCHANGED <<server, servants, registering>>
                                /\ Arrives(Registration(s))
         \/ UNCHANGED <<server, servants, registering>> /\ Arrives(Nothing)
         \/ ServerTerminates
         \/ StartServer
         \/ \E k \in DOMAIN incoming : RegisterServant(k) \/ CloseEmpty(k)
  <1>1. ASSUME NEW s \in Servants,
               (\E r \in Ranges : Start(s, r)) \/ Bind(s) \/ Unblock(s) \/ Connect(s)
                  \/ CleanUp(s) \/ Exit(s)
        PROVE  UNCHANGED serverVars
    BY <1>1 DEF Start, Bind, Unblock, Connect, CleanUp, Exit, Terminates, ServantGoes,
       serverVars
  <1>2. ASSUME NEW s \in Servants, Send(s)
        PROVE  /\ pc[s] = "send" /\ pc' = [pc EXCEPT ![s] = "serve"]
               /\ UNCHANGED <<range, mainDirList>>
               /\ UNCHANGED <<server, servants, registering>>
               /\ Arrives(Registration(s))
    BY <1>2 DEF Send, ServantGoes, startVars
  <1>3. ASSUME NEW s \in Servants, Interrupt(s)
        PROVE  \/ UNCHANGED serverVars
               \/ UNCHANGED <<server, servants, registering>> /\ Arrives(Nothing)
    BY <1>3 DEF Interrupt, Terminates, serverVars
  <1>4. ASSUME NEW q \in Queries, Queried(q)
        PROVE  UNCHANGED serverVars
    BY <1>4 DEF Queried, BeginQuery, Clash, HandleClientRequest, Visit, Reply, CutOff,
       Answer
  <1>5. CASE UNCHANGED vars
    BY <1>5 DEF vars, serverVars
  <1> QED BY <1>1, <1>2, <1>3, <1>4, <1>5 DEF Next, Servant, HandleServant

LEMMA RegistrationType ==
  ASSUME StartsOK, NEW s \in Servants, pc[s] # "off"
  PROVE  Registration(s) \in Messages \ {Nothing}
  <1>1. Port(s) \in Int
    BY PortType DEF StartsOK, RangesOK, Port
  <1>2. mainDirList[s] \in Seq(Cities) \ {<<>>} /\ Nobody \notin Servants
    BY ClusterAssumption DEF StartsOK
  <1> QED BY <1>1, <1>2 DEF Registration, Messages, Nothing

(* A registration that can be printed is what the servant has sent.        *)
LEMMA RecordRead ==
  ASSUME NEW m \in Messages, Problem(m) = "none"
  PROVE  /\ m # Nothing /\ ReadServant(m) \in TableRecords
         /\ (Sent(m) => Known(ReadServant(m)))
  <1>1. m # Nothing
    BY DEF Problem, Nothing
  <1>2. /\ m \in [from : Servants, port : Int, cities : Seq(Cities) \ {<<>>}]
        /\ m.cities \in Seq(Cities) /\ m.cities # <<>> /\ m.from \in Servants
        /\ m.from # Nobody /\ m.port \in Int
    BY <1>1, ClusterAssumption DEF Messages
  <1>3. Len(m.cities) < CityCapacity
    BY <1>2, Problems
  <1>4. /\ ReadServant(m) \in Records(m)
        /\ ReadServant(m).size = Len(m.cities)
        /\ \A j \in 1..Len(m.cities) : ReadServant(m).cityNames[j] = m.cities[j]
    BY <1>2, <1>3, RegistrationRead
  <1>5. /\ ReadServant(m) \in TableRecords
        /\ ReadServant(m).from = m.from /\ ReadServant(m).port = m.port
    BY <1>2, <1>4 DEF Records, TableRecords
  <1>6. ASSUME Sent(m) PROVE Known(ReadServant(m))
    <2>1. m.port = Port(m.from) /\ m.cities = mainDirList[m.from] /\ pc[m.from] = "serve"
      BY <1>6 DEF Sent, Registration
    <2> QED BY <1>4, <1>5, <2>1 DEF Known
  <1> QED BY <1>1, <1>5, <1>6

LEMMA TableStep ==
  ASSUME StartsOK, TableOK, [Next]_vars
  PROVE  TableOK'
  <1>1. StartsOK'
    BY StartsStep
  <1>2. /\ disturbed' \in BOOLEAN
        /\ ~disturbed' => /\ ~disturbed
                          /\ \A s \in Servants : pc[s] = "serve" =>
                                /\ pc'[s] = "serve" /\ range'[s] = range[s]
                                /\ mainDirList'[s] = mainDirList[s]
    BY ServingStays DEF TableOK
  <1>3. ASSUME NEW m \in Messages \ {Nothing}, Sent(m), ~disturbed'
        PROVE  Sent(m)'
    <2>1. m.from \in Servants
      BY DEF Messages
    <2>2. /\ pc'[m.from] = "serve" /\ range'[m.from] = range[m.from]
          /\ mainDirList'[m.from] = mainDirList[m.from]
      BY <1>2, <1>3, <2>1 DEF Sent
    <2> QED BY <1>3, <2>2 DEF Sent, Registration, Port
  <1>4. ASSUME NEW t \in TableRecords, Known(t), ~disturbed'
        PROVE  Known(t)'
    <2>1. t.from \in Servants
      BY DEF TableRecords
    <2>2. /\ pc'[t.from] = "serve" /\ range'[t.from] = range[t.from]
          /\ mainDirList'[t.from] = mainDirList[t.from]
      BY <1>2, <1>4, <2>1 DEF Known
    <2> QED BY <1>4, <2>2 DEF Known, Port
  <1>5. /\ server \in {"new", "up", "down"} /\ registering \in BOOLEAN
        /\ incoming \in Seq(Messages) /\ servants \in Seq(TableRecords)
    BY DEF TableOK
  <1> DEFINE Mail(k, m) == k \in DOMAIN incoming /\ m = incoming[k] /\ m # Nothing
             Entry(k, t) == k \in DOMAIN servants /\ t = servants[k]
             MailOK == ~disturbed' => \A k : \A m \in Messages : Mail(k, m)' => Sent(m)'
             EntriesOK == ~disturbed' => \A k : \A t \in TableRecords :
                                                  Entry(k, t)' => Known(t)'
  <1>6. ASSUME ~disturbed', NEW k
        PROVE  /\ \A m \in Messages : Mail(k, m) => Sent(m)'
               /\ \A t \in TableRecords : Entry(k, t) => Known(t)'
    <2>1. ASSUME NEW m \in Messages, Mail(k, m) PROVE Sent(m)'
      <3>1. Sent(m)
        BY <1>2, <1>6, <2>1 DEF TableOK
      <3> QED BY <1>3, <1>6, <2>1, <3>1
    <2>2. ASSUME NEW t \in TableRecords, Entry(k, t) PROVE Known(t)'
      <3>1. Known(t)
        BY <1>2, <1>6, <2>2 DEF TableOK
      <3> QED BY <1>4, <1>6, <3>1
    <2> QED BY <2>1, <2>2
  <1>table. ASSUME server' \in {"new", "up", "down"}, registering' \in BOOLEAN,
               incoming' \in Seq(Messages), servants' \in Seq(TableRecords),
               MailOK, EntriesOK
        PROVE  TableOK'
    <2>1. ASSUME ~disturbed', NEW k \in DOMAIN incoming', incoming'[k] # Nothing
          PROVE  Sent(incoming[k])'
      <3>1. PICK m \in Messages : m = incoming'[k]
        BY <1>table, <2>1
      <3>2. Mail(k, m)'
        BY <2>1, <3>1
      <3> HIDE DEF Mail
      <3>3. Sent(m)'
        BY <1>table, <2>1, <3>2
      <3> QED BY <3>1, <3>3 DEF Sent, Registration, Port
    <2>2. ASSUME ~disturbed', NEW k \in DOMAIN servants'
          PROVE  Known(servants[k])'
      <3>1. PICK t \in TableRecords : t = servants'[k]
        BY <1>table, <2>2
      <3>2. Entry(k, t)'
        BY <2>2, <3>1
      <3> HIDE DEF Entry
      <3>3. Known(t)'
        BY <1>table, <2>2, <3>2
      <3> QED BY <3>1, <3>3 DEF Known, Port
    <2> QED BY <1>2, <1>table, <2>1, <2>2 DEF TableOK
  <1>entries. servants' = servants => EntriesOK
    BY <1>6
  <1>7. ASSUME NEW m \in Messages, Arrives(m), UNCHANGED <<server, servants, registering>>,
               ~disturbed' /\ m # Nothing => Sent(m)'
        PROVE  TableOK'
    <2>1. \/ incoming' = incoming
          \/ /\ incoming' \in Seq(Messages)
             /\ \A k \in DOMAIN incoming' : (k \in DOMAIN incoming /\ incoming'[k] = incoming[k])
                                           \/ incoming'[k] = m
      BY <1>5, <1>7 DEF Arrives
    <2>2. ASSUME ~disturbed', NEW k, NEW x \in Messages, Mail(k, x)'
          PROVE  Sent(x)'
      <3>1. CASE x = m
        <4>1. Sent(m)'
          BY <1>7, <2>2, <3>1
        <4> QED BY <3>1, <4>1
      <3>2. CASE Mail(k, x)
        <4> HIDE DEF Mail
        <4> QED BY <1>6, <2>2, <3>2
      <3> QED BY <2>1, <2>2, <3>1, <3>2
    <2>3. MailOK
      <3> HIDE DEF Mail
      <3> QED BY <2>2
    <2>4. EntriesOK
      BY <1>7, <1>entries
    <2> HIDE DEF MailOK, EntriesOK
    <2> QED BY <1>5, <1>7, <1>table, <2>1, <2>3, <2>4
  <1>8. CASE UNCHANGED serverVars
    <2>1. MailOK /\ EntriesOK
      BY <1>6, <1>8 DEF serverVars
    <2> HIDE DEF MailOK, EntriesOK
    <2> QED BY <1>5, <1>8, <1>table, <2>1 DEF serverVars
  <1>9. ASSUME NEW s \in Servants, pc[s] = "send", pc' = [pc EXCEPT ![s] = "serve"],
               UNCHANGED <<range, mainDirList>>,
               UNCHANGED <<server, servants, registering>>, Arrives(Registration(s))
        PROVE  TableOK'
    <2>1. PICK m \in Messages : m = Registration(s)
      BY <1>9, RegistrationType
    <2>2. Sent(m)'
      <3>1. m.from = s /\ m.port = Port(s) /\ m.cities = mainDirList[s] /\ pc'[s] = "serve"
        BY <1>9, <2>1 DEF Registration, StartsOK, RangesOK
      <3> QED BY <1>9, <2>1, <3>1 DEF Sent, Registration, Port
    <2> QED BY <1>7, <1>9, <2>1, <2>2
  <1>10. CASE UNCHANGED <<server, servants, registering>> /\ Arrives(Nothing)
    BY <1>7, <1>10 DEF Messages
  <1>11. CASE ServerTerminates
    <2>1. MailOK /\ EntriesOK
      BY <1>11 DEF ServerTerminates
    <2> HIDE DEF MailOK, EntriesOK
    <2> QED BY <1>5, <1>11, <1>table, <2>1 DEF ServerTerminates
  <1>12. CASE StartServer
    <2>1. MailOK /\ EntriesOK
      BY <1>6, <1>12 DEF StartServer
    <2> HIDE DEF MailOK, EntriesOK
    <2> QED BY <1>5, <1>12, <1>table, <2>1 DEF StartServer
  <1>13. ASSUME NEW k \in DOMAIN incoming, incoming' = RemoveAt(incoming, k)
         PROVE  incoming' \in Seq(Messages) /\ MailOK
    <2>1. /\ incoming' \in Seq(Messages)
          /\ \A j \in DOMAIN incoming' : \E i \in DOMAIN incoming : incoming'[j] = incoming[i]
      BY <1>5, <1>13, Removed
    <2>2. ASSUME ~disturbed', NEW j, NEW m \in Messages, Mail(j, m)'
          PROVE  Sent(m)'
      <3>1. PICK i : Mail(i, m)
        BY <2>1, <2>2
      <3> HIDE DEF Mail
      <3> QED BY <1>6, <2>2, <3>1
    <2> HIDE DEF Mail
    <2> QED BY <2>1, <2>2
  <1>14. ASSUME NEW k \in DOMAIN incoming, CloseEmpty(k)
         PROVE  TableOK'
    <2>1. /\ incoming' = RemoveAt(incoming, k)
          /\ server' = server /\ servants' = servants /\ registering' = registering
      BY <1>14 DEF CloseEmpty
    <2> HIDE DEF MailOK, EntriesOK
    <2> QED BY <1>5, <1>13, <1>table, <1>entries, <2>1
  <1>15. ASSUME NEW k \in DOMAIN incoming, RegisterServant(k)
         PROVE  TableOK'
    <2> DEFINE m == incoming[k]
               t == ReadServant(m)
    <2>1. /\ incoming' = RemoveAt(incoming, k) /\ registering' = TRUE /\ server' = server
          /\ m \in Messages
      BY <1>5, <1>15 DEF RegisterServant
    <2>2. incoming' \in Seq(Messages) /\ MailOK
      BY <1>13, <2>1
    <2>3. CASE servants' = servants
      <3> HIDE DEF MailOK, EntriesOK, m
      <3> QED BY <1>5, <1>table, <1>entries, <2>1, <2>2, <2>3
    <2>4. CASE Problem(m) = "none" /\ servants' = Append(servants, t)
      <3>1. m # Nothing /\ t \in TableRecords /\ (Sent(m) => Known(t))
        <4> HIDE DEF m
        <4> QED BY <2>1, <2>4, RecordRead DEF t
      <3>2. ~disturbed' => Sent(m)
        BY <1>2, <3>1 DEF TableOK
      <3> HIDE DEF m, t
      <3>3. /\ servants' \in Seq(TableRecords)
            /\ \A j \in DOMAIN servants' : (j \in DOMAIN servants /\ servants'[j] = servants[j])
                                           \/ servants'[j] = t
        BY <1>5, <2>4, <3>1
      <3>4. EntriesOK
        <4>1. ASSUME ~disturbed', NEW j, NEW x \in TableRecords, Entry(j, x)'
              PROVE  Known(x)'
          <5>1. CASE x = t
            <6>1. Known(x)
              BY <3>1, <3>2, <4>1, <5>1
            <6> QED BY <1>4, <4>1, <6>1
          <5>2. CASE Entry(j, x)
            <6> HIDE DEF Entry
            <6> QED BY <1>6, <4>1, <5>2
          <5> QED BY <3>3, <4>1, <5>1, <5>2
        <4> HIDE DEF Entry
        <4> QED BY <4>1
      <3> HIDE DEF MailOK, EntriesOK
      <3> QED BY <1>5, <1>table, <2>1, <2>2, <3>3, <3>4
    <2> QED BY <1>15, <2>3, <2>4 DEF RegisterServant
  <1> QED BY <1>8, <1>9, <1>10, <1>11, <1>12, <1>14, <1>15, ServerCases

-----------------------------------------------------------------------------
(* What a step does to the queries and to the table they go through.       *)
TableGrows ==
  /\ server' = server /\ Len(servants') >= Len(servants)
  /\ \A k \in DOMAIN servants : servants'[k] = servants[k]

LEMMA QueryCases ==
  ASSUME TableOK, [Next]_vars
  PROVE  \/ query' = query /\ TableGrows
         \/ StartServer
         \/ ServerTerminates
         \/ \E s \in Servants : Terminates(s)
         \/ \E q \in Queries : Queried(q)
  <1>1. UNCHANGED <<server, servants>> => TableGrows
    BY DEF TableGrows, TableOK
  <1>2. ASSUME NEW s \in Servants, NEW r \in Ranges, Start(s, r)
        PROVE  UNCHANGED <<query, server, servants>>
    BY <1>2 DEF Start, serverVars
  <1>3. ASSUME NEW s \in Servants,
               Bind(s) \/ Unblock(s) \/ Connect(s) \/ Send(s) \/ CleanUp(s)
                 \/ Exit(s) \/ Interrupt(s)
        PROVE  Terminates(s) \/ UNCHANGED <<query, server, servants>>
    BY <1>3 DEF Bind, Unblock, Connect, Send, CleanUp, Exit, Interrupt, serverVars
  <1>4. ASSUME NEW k \in DOMAIN incoming, RegisterServant(k) \/ CloseEmpty(k)
        PROVE  query' = query /\ TableGrows
    <2>1. query' = query /\ server' = server
      BY <1>4 DEF RegisterServant, CloseEmpty
    <2>2. \/ servants' = servants
          \/ \E t : servants' = Append(servants, t)
      BY <1>4 DEF RegisterServant, CloseEmpty
    <2>3. servants \in Seq(TableRecords)
      BY DEF TableOK
    <2>4. ASSUME NEW t, servants' = Append(servants, t) PROVE TableGrows
      BY <2>1, <2>3, <2>4 DEF TableGrows
    <2> QED BY <1>1, <2>1, <2>2, <2>4
  <1>5. CASE UNCHANGED vars
    BY <1>1, <1>5 DEF vars, serverVars
  <1> QED BY <1>1, <1>2, <1>3, <1>4, <1>5 DEF Next, Servant, HandleServant

(* A servant that is not in charge of a city has none of its transactions. *)
LEMMA NotInCharge ==
  ASSUME StartsOK, NEW t \in TableRecords, Known(t), NEW q, ~InCharge(t, q)
  PROVE  RangeCount(range[t.from], q) = 0
  <1> DEFINE s == t.from
             list == mainDirList[s]
             S == {c \in CitiesIn(range[s]) : q \in {NoCity, c}}
  <1>1. s \in Servants /\ pc[s] = "serve"
    BY DEF TableRecords, Known
  <1>2. IsListing(list, range[s])
    BY <1>1 DEF StartsOK
  <1>3. q # NoCity /\ \A j \in 1..Len(list) : list[j] # q
    BY DEF InCharge, Known
  <1>4. q \notin CitiesIn(range[s])
    <2>1. DOMAIN list = 1..Len(list)
      BY <1>2 DEF IsListing
    <2> QED BY <1>2, <1>3, <2>1 DEF IsListing, ToSet
  <1>5. S = {}
    BY <1>3, <1>4
  <1>6. CityCount(range[s], q) = 0
    BY <1>5, SumOfNone DEF CityCount
  <1> QED BY <1>6, RangeCountIs

LEMMA KnownRange ==
  ASSUME StartsOK, TableOK, NEW k \in DOMAIN servants
  PROVE  servants[k] \in TableRecords /\ servants[k].from \in Servants
         /\ range[servants[k].from] \in Ranges
  <1>1. servants[k] \in TableRecords
    BY DEF TableOK
  <1> QED BY <1>1 DEF TableRecords, StartsOK, RangesOK

(* The counts of the servants visited do not change.                       *)
LEMMA CountsStay ==
  ASSUME StartsOK, TableOK, [Next]_vars, ~disturbed', TableGrows,
         NEW q \in Queries, query[q].table \in 0..Len(servants),
         query'[q].table = query[q].table
  PROVE  Counts(q)' = Counts(q)
  <1>1. /\ ~disturbed
        /\ \A s \in Servants : pc[s] = "serve" =>
             /\ pc'[s] = "serve" /\ range'[s] = range[s]
    BY ServingStays DEF TableOK
  <1>2. DOMAIN servants = 1..Len(servants) /\ Len(servants) \in Nat
    BY DEF TableOK
  <1>3. ASSUME NEW k \in 1..query[q].table
        PROVE  RangeCount(range'[servants'[k].from], q)
                 = RangeCount(range[servants[k].from], q)
    <2>1. k \in DOMAIN servants
      BY <1>2
    <2>2. Known(servants[k]) /\ servants[k].from \in Servants
      BY <1>1, <2>1, KnownRange DEF TableOK
    <2>3. range'[servants[k].from] = range[servants[k].from]
      BY <1>1, <2>2 DEF Known
    <2> QED BY <2>1, <2>3 DEF TableGrows
  <1>4. Counts(q)' = [k \in 1..query'[q].table |-> RangeCount(range'[servants'[k].from], q)]
    BY DEF Counts, RangeCount, CitiesIn, Position
  <1> QED BY <1>3, <1>4 DEF Counts

LEMMA QueryStays ==
  ASSUME StartsOK, TableOK, [Next]_vars, TableGrows, NEW q \in Queries, QueryOK(q),
         query[q] \in QueryRecords,
         query'[q].at = query[q].at, query'[q].table = query[q].table,
         query'[q].i = query[q].i,
         ~query'[q].clashed => /\ ~query[q].clashed /\ query'[q].sent = query[q].sent
                               /\ query'[q].result = query[q].result,
         ~disturbed' /\ server = "up" /\ query[q].at = "await" =>
           query'[q].servant = query[q].servant
  PROVE  QueryOK(q)'
  <1>1. /\ server' = server /\ (~disturbed' => ~disturbed)
        /\ Len(servants') >= Len(servants)
        /\ \A k \in DOMAIN servants : servants'[k] = servants[k]
        /\ Len(servants) \in Nat /\ DOMAIN servants = 1..Len(servants)
    BY ServingStays DEF TableGrows, TableOK
  <1>2. Len(servants') \in Nat
    <2>1. TableOK'
      BY TableStep
    <2> QED BY <2>1 DEF TableOK
  <1>3. server' = "new" => ~Started(q)'
    BY <1>1 DEF QueryOK, Started
  <1>4. ASSUME server' = "up", Started(q)'
        PROVE  /\ query[q].table \in 0..Len(servants) /\ query[q].i \in 1..query[q].table+1
               /\ query[q].at = "await" => query[q].i \in 1..query[q].table
               /\ query[q].at = "answered" => query[q].i = query[q].table + 1
               /\ ~disturbed' /\ query[q].at = "await" =>
                    query[q].servant = servants[query[q].i].from
               /\ ~disturbed' /\ ~query'[q].clashed =>
                    /\ query[q].result = SumFunctionOnSet(Counts(q), 1..query[q].i-1)
                    /\ query[q].at = "await" => query[q].sent = q
    <2>1. server = "up" /\ Started(q)
      BY <1>1, <1>4 DEF Started
    <2>2. query[q].table \in Nat
      BY DEF QueryRecords
    <2> QED BY <1>1, <2>1, <2>2 DEF QueryOK
  <1>5. ASSUME server' = "up", Started(q)', ~disturbed'
        PROVE  /\ ~query'[q].clashed =>
                    /\ query'[q].result = SumFunctionOnSet(Counts(q)', 1..query'[q].i-1)
                    /\ query'[q].at = "await" => query'[q].sent = q
               /\ query'[q].at = "await" => query'[q].servant = servants'[query'[q].i].from
    <2>1. Counts(q)' = Counts(q)
      BY <1>4, <1>5, CountsStay
    <2>2. query'[q].at = "await" => query'[q].servant = servants'[query'[q].i].from
      BY <1>1, <1>4, <1>5
    <2> QED BY <1>4, <1>5, <2>1, <2>2
  <1>6. SumFunctionOnSet(Counts(q)', 1..query'[q].i-1)
          = SumFunctionOnSet(Counts(q), 1..query[q].i-1)'
    OBVIOUS
  <1> QED BY <1>1, <1>2, <1>3, <1>4, <1>5, <1>6 DEF QueryOK, Started

(* One servant more is counted.                                            *)
LEMMA SumNext ==
  ASSUME StartsOK, TableOK, NEW q \in Queries, query[q].table \in 0..Len(servants),
         NEW i \in 1..query[q].table
  PROVE  /\ SumFunctionOnSet(Counts(q), 1..i-1) \in Int
         /\ SumFunctionOnSet(Counts(q), 1..i)
              = RangeCount(range[servants[i].from], q)
                + SumFunctionOnSet(Counts(q), 1..i-1)
  <1> DEFINE fun == Counts(q)
  <1>1. /\ i \in Nat /\ 1..i = (1..i-1) \cup {i} /\ i \notin 1..i-1
        /\ \A k \in 1..i : k \in 1..query[q].table /\ k \in DOMAIN servants
    BY DEF TableOK
  <1>2. \A k \in 1..i : /\ fun[k] = RangeCount(range[servants[k].from], q)
                        /\ fun[k] \in Int
    <2>1. ASSUME NEW k \in 1..i
          PROVE  fun[k] = RangeCount(range[servants[k].from], q) /\ fun[k] \in Int
      <3>1. fun[k] = RangeCount(range[servants[k].from], q)
        BY <1>1 DEF Counts
      <3>2. range[servants[k].from] \in Ranges
        BY <1>1, KnownRange
      <3>3. RangeCount(range[servants[k].from], q) \in Nat
        BY <3>2, RangeCountType
      <3> HIDE DEF fun
      <3> QED BY <3>1, <3>3
    <2> QED BY <2>1
  <1> HIDE DEF fun
  <1>3. IsFiniteSet(1..i)
    BY <1>1, FS_Interval
  <1>4. Summable(fun, (1..i-1) \cup {i})
    BY <1>1, <1>2, <1>3 DEF Summable
  <1>5. /\ SumFunctionOnSet(fun, 1..i-1) \in Int
        /\ SumFunctionOnSet(fun, 1..i) = fun[i] + SumFunctionOnSet(fun, 1..i-1)
    BY <1>1, <1>4, SumAdd
  <1> QED BY <1>1, <1>2, <1>5 DEF fun

(* A worker that adds the count of the servant it visits has the counts of *)
(* one servant more.                                                       *)
LEMMA QueryAdds ==
  ASSUME StartsOK, TableOK, NEW q \in Queries, QueryOK(q), query[q] \in QueryRecords,
         query[q].at \in {"visit", "await"},
         query[q].i <= query[q].table \/ query[q].at = "await", NEW n \in Int,
         ~disturbed /\ ~query[q].clashed /\ server = "up"
              /\ query[q].i \in 1..query[q].table
              /\ query[q].table \in 0..Len(servants) =>
           n = RangeCount(range[servants[query[q].i].from], q),
         query' = [query EXCEPT ![q] = Add(q, n)], query \in [Queries -> QueryRecords],
         UNCHANGED <<server, servants, range, disturbed>>
  PROVE  QueryOK(q)' /\ query'[q] \in QueryRecords
  <1> DEFINE i == query[q].i
             table == query[q].table
  <1>1. /\ i \in Nat /\ table \in Nat /\ query[q].result \in Int
        /\ query'[q].at = "visit" /\ query'[q].i = i + 1 /\ query'[q].table = table
        /\ query'[q].result = query[q].result + n
        /\ query'[q].clashed = query[q].clashed
        /\ query'[q] \in QueryRecords
    <2> DEFINE Q == query[q]
    <2>1. /\ Q = [at |-> Q.at, table |-> Q.table, i |-> Q.i, result |-> Q.result,
                  servant |-> Q.servant, sent |-> Q.sent, clashed |-> Q.clashed]
          /\ Q.i \in Nat /\ Q.table \in Nat /\ Q.result \in Int
          /\ Q.clashed \in BOOLEAN
      BY DEF QueryRecords
    <2>2. query'[q] = Add(q, n)
      OBVIOUS
    <2> HIDE DEF Q
    <2>3. Add(q, n) = [at |-> "visit", table |-> Q.table, i |-> Q.i + 1,
                       result |-> Q.result + n, servant |-> Nobody, sent |-> Nobody,
                       clashed |-> Q.clashed]
      <3>1. Add(q, n) = [Q EXCEPT !.at = "visit", !.i = @ + 1, !.result = @ + n,
                                  !.servant = Nobody, !.sent = Nobody]
        BY DEF Add, Q
      <3> QED BY <2>1, <3>1
    <2>4. Q.i + 1 \in Nat /\ Q.result + n \in Int
      BY <2>1
    <2> QED BY <2>1, <2>2, <2>3, <2>4 DEF Q, QueryRecords
  <1>2. server # "new"
    BY DEF QueryOK, Started
  <1>3. ASSUME server = "up"
        PROVE  /\ i \in 1..table /\ table \in 0..Len(servants)
               /\ ~disturbed /\ ~query[q].clashed =>
                    query[q].result = SumFunctionOnSet(Counts(q), 1..i-1)
    <2>1. Len(servants) \in Nat
      BY DEF TableOK
    <2> QED BY <1>1, <1>3, <2>1 DEF QueryOK, Started
  <1>4. ASSUME server = "up", ~disturbed, ~query[q].clashed
        PROVE  query'[q].result = SumFunctionOnSet(Counts(q), 1..i)
    <2>1. /\ SumFunctionOnSet(Counts(q), 1..i-1) \in Int
          /\ SumFunctionOnSet(Counts(q), 1..i)
              = RangeCount(range[servants[i].from], q)
                + SumFunctionOnSet(Counts(q), 1..i-1)
      BY <1>3, <1>4, SumNext
    <2>2. n = RangeCount(range[servants[i].from], q)
      BY <1>3, <1>4
    <2>3. query[q].result = SumFunctionOnSet(Counts(q), 1..i-1)
      BY <1>3, <1>4
    <2>4. query'[q].result = query[q].result + n
      BY <1>1
    <2> HIDE DEF i
    <2> QED BY <2>1, <2>2, <2>3, <2>4
  <1>5. Counts(q)' = Counts(q)
    BY <1>1 DEF Counts, RangeCount, CitiesIn, Position
  <1>6. (i + 1) - 1 = i /\ (server = "up" => i + 1 \in 1..table+1)
    BY <1>1, <1>3
  <1>7. server = "up" /\ ~disturbed /\ ~query'[q].clashed =>
          query'[q].result = SumFunctionOnSet(Counts(q)', 1..query'[q].i-1)
    BY <1>1, <1>4, <1>5, <1>6
  <1>8. QueryOK(q)'
    <2> HIDE DEF i, table
    <2>1. server = "up" => table <= Len(servants)
      BY <1>3 DEF TableOK
    <2> QED BY <1>1, <1>2, <1>6, <1>7, <2>1 DEF QueryOK, Started
  <1> QED BY <1>1, <1>8

LEMMA QueriesStep ==
  ASSUME StartsOK, PortsDistinct, TableOK, QueriesOK, [Next]_vars
  PROVE  QueriesOK'
  <1>1. query \in [Queries -> QueryRecords] /\ \A q \in Queries : QueryOK(q)
    BY DEF QueriesOK
  <1>2. CASE query' = query /\ TableGrows
    <2>1. ASSUME NEW q \in Queries PROVE QueryOK(q)'
      BY <1>1, <1>2, QueryStays
    <2> QED BY <1>1, <1>2, <2>1 DEF QueriesOK
  <1>3. CASE StartServer
    <2>1. ASSUME NEW q \in Queries PROVE QueryOK(q)'
      BY <1>1, <1>3 DEF StartServer, QueryOK, Started
    <2> QED BY <1>1, <1>3, <2>1 DEF QueriesOK, StartServer
  <1>4. CASE ServerTerminates
    <2>1. server' = "down"
      BY <1>4 DEF ServerTerminates
    <2>2. ASSUME NEW q \in Queries PROVE QueryOK(q)'
      BY <2>1 DEF QueryOK
    <2>3. query' \in [Queries -> QueryRecords]
      BY <1>1, <1>4, LostType DEF ServerTerminates
    <2> QED BY <2>2, <2>3 DEF QueriesOK
  <1>5. ASSUME NEW s \in Servants, Terminates(s)
        PROVE  QueriesOK'
    <2>1. /\ query' = [q \in Queries |->
                          IF q \in {x \in Queries : query[x].servant = s}
                          THEN [query[q] EXCEPT !.servant = Nobody] ELSE query[q]]
          /\ UNCHANGED <<server, servants>> /\ pc' = [pc EXCEPT ![s] = "off"]
      BY <1>5 DEF Terminates
    <2>2. TableGrows
      BY <2>1 DEF TableGrows, TableOK
    <2>3. ASSUME NEW q \in Queries PROVE QueryOK(q)' /\ query'[q] \in QueryRecords
      <3>1. /\ query'[q].at = query[q].at /\ query'[q].table = query[q].table
            /\ query'[q].i = query[q].i /\ query'[q].result = query[q].result
            /\ query'[q].clashed = query[q].clashed /\ query'[q].sent = query[q].sent
            /\ query'[q] \in QueryRecords
            /\ query[q].servant # s => query'[q] = query[q]
        BY <1>1, <2>1 DEF QueryRecords
      <3>2. ASSUME ~disturbed', server = "up", query[q].at = "await"
            PROVE  query[q].servant # s
        <4>1. /\ ~disturbed
              /\ \A t \in Servants : pc[t] = "serve" => pc'[t] = "serve"
          BY <3>2, ServingStays DEF TableOK
        <4>2. /\ query[q].table <= Len(servants) /\ query[q].i \in 1..query[q].table+1
              /\ query[q].i <= query[q].table
              /\ query[q].servant = servants[query[q].i].from
          BY <1>1, <3>2, <4>1 DEF QueryOK, Started
        <4>3. query[q].i \in DOMAIN servants
          <5>1. query[q].table \in Nat
            BY <1>1 DEF QueryRecords
          <5> QED BY <4>2, <5>1 DEF TableOK
        <4>4. Known(servants[query[q].i]) /\ servants[query[q].i].from \in Servants
          BY <4>1, <4>3, KnownRange DEF TableOK
        <4>5. pc'[servants[query[q].i].from] = "serve"
          BY <4>1, <4>4 DEF Known
        <4> QED BY <2>1, <4>2, <4>4, <4>5 DEF StartsOK, RangesOK
      <3> QED BY <1>1, <2>2, <3>1, <3>2, QueryStays
    <2>4. query' \in [Queries -> QueryRecords]
      <3>1. query' = [q \in Queries |-> query'[q]]
        BY <2>1
      <3> QED BY <2>3, <3>1
    <2> QED BY <2>3, <2>4 DEF QueriesOK
  <1>6. ASSUME NEW q \in Queries, Queried(q)
        PROVE  QueriesOK'
    <2>1. /\ UNCHANGED <<pc, startVars, disturbed, server, servants>>
          /\ \E new : query' = [query EXCEPT ![q] = new]
      BY <1>6 DEF Queried, BeginQuery, Clash, HandleClientRequest, Visit, Reply, CutOff,
         Answer, QueryGoes, serverVars
    <2>2. TableGrows
      BY <2>1 DEF TableGrows, TableOK
    <2>3. UNCHANGED <<pc, range, mainDirList, server, servants, disturbed>>
      BY <2>1 DEF startVars
    <2>4. ASSUME NEW x \in Queries, x # q PROVE QueryOK(x)' /\ query'[x] = query[x]
      <3>1. query'[x] = query[x]
        BY <1>1, <2>1, <2>4
      <3> QED BY <1>1, <2>2, <3>1, QueryStays
    <2>5. ASSUME QueryOK(q)', query'[q] \in QueryRecords PROVE QueriesOK'
      <3>1. query' \in [Queries -> QueryRecords]
        BY <1>1, <2>1, <2>5
      <3> QED BY <2>4, <2>5, <3>1 DEF QueriesOK
    <2> DEFINE i == query[q].i
               table == query[q].table
               t == servants[i]
    <2>6. /\ query[q] \in QueryRecords /\ i \in Nat /\ table \in Nat
          /\ query[q].result \in Int /\ query[q].servant \in Servants \cup {Nobody}
      BY <1>1 DEF QueryRecords
    <2>7. Len(servants) \in Nat /\ DOMAIN servants = 1..Len(servants)
      BY DEF TableOK
    <2>8. ASSUME server = "up", query[q].at \in {"visit", "await"}, ~disturbed, i <= table
          PROVE  /\ t \in TableRecords /\ Known(t) /\ t.from \in Servants
                 /\ range[t.from] \in Ranges
                 /\ query[q].at = "await" => query[q].servant = t.from
      <3>1. i \in DOMAIN servants
        BY <1>1, <2>6, <2>7, <2>8 DEF QueryOK, Started
      <3> QED BY <1>1, <2>8, <3>1, KnownRange DEF TableOK, QueryOK, Started
    <2>9. CASE BeginQuery(q)
      <3>1. server = "up" /\ query'[q] = [New EXCEPT !.at = "visit", !.table = Len(servants)]
        BY <1>1, <2>9 DEF BeginQuery, QueryGoes
      <3>2. /\ query'[q].at = "visit" /\ query'[q].table = Len(servants)
            /\ query'[q].i = 1 /\ query'[q].result = 0
            /\ query'[q] \in QueryRecords
        <4>1. query'[q] = [at |-> "visit", table |-> Len(servants), i |-> 1,
                           result |-> 0, servant |-> Nobody, sent |-> Nobody,
                           clashed |-> FALSE]
          BY <3>1 DEF New
        <4> QED BY <2>7, <4>1 DEF QueryRecords
      <3>3. 1..query'[q].i-1 = {}
        BY <3>2
      <3>4. SumFunctionOnSet(Counts(q)', 1..query'[q].i-1) = 0
        BY <3>3, SumOfNone
      <3>5. QueryOK(q)'
        BY <2>3, <2>7, <3>1, <3>2, <3>4 DEF QueryOK, Started
      <3> QED BY <2>5, <3>2, <3>5
    <2>10. ASSUME NEW n \in Int, query' = [query EXCEPT ![q] = Add(q, n)],
                  query[q].at \in {"visit", "await"},
                  i <= table \/ query[q].at = "await",
                  ~disturbed /\ ~query[q].clashed /\ server = "up" /\ i <= table =>
                    n = RangeCount(range[t.from], q)
           PROVE  QueriesOK'
      <3>1. ~disturbed /\ ~query[q].clashed /\ server = "up" /\ query[q].i \in 1..query[q].table
              /\ query[q].table \in 0..Len(servants) =>
                n = RangeCount(range[servants[query[q].i].from], q)
        BY <2>6, <2>10
      <3>2. UNCHANGED <<server, servants, range, disturbed>>
        BY <2>3
      <3>3. QueryOK(q)' /\ query'[q] \in QueryRecords
        <4>1. query[q].i <= query[q].table \/ query[q].at = "await"
          BY <2>10
        <4> HIDE DEF i, table, t
        <4> QED BY <1>1, <2>6, <2>10, <3>1, <3>2, <4>1, QueryAdds
      <3> QED BY <2>5, <3>3
    <2>11. CASE Visit(q)
      <3>1. query[q].at = "visit" /\ i <= table
        BY <2>11 DEF Visit, QueryGoes
      <3>2. CASE ~InCharge(t, q) /\ QueryGoes(q, "visit", Add(q, 0))
        <4>1. ~disturbed /\ server = "up" => 0 = RangeCount(range[t.from], q)
          BY <2>8, <3>1, <3>2, NotInCharge
        <4>2. query' = [query EXCEPT ![q] = Add(q, 0)] /\ 0 \in Int
          BY <3>2 DEF QueryGoes
        <4> HIDE DEF i, table, t
        <4> QED BY <2>10, <3>1, <4>1, <4>2
      <3> DEFINE there == {s \in Listening : Port(s) = t.port}
      <3>3. ASSUME ~disturbed, server = "up"
            PROVE  t.from \in there /\ \A s \in there : s = t.from
        <4>1. t.from \in there
          BY <2>8, <3>1, <3>3 DEF Known, Listening
        <4> QED BY <4>1 DEF PortsDistinct
      <3>4. CASE there = {} /\ QueryGoes(q, "visit", Add(q, -1))
        <4>1. ~(~disturbed /\ server = "up")
          BY <3>3, <3>4
        <4>2. query' = [query EXCEPT ![q] = Add(q, -1)] /\ -1 \in Int
          BY <3>4 DEF QueryGoes
        <4> HIDE DEF there, i, table, t
        <4> QED BY <2>10, <3>1, <4>1, <4>2
      <3>5. ASSUME NEW s \in there,
                   QueryGoes(q, "visit", [query[q] EXCEPT !.at = "await", !.servant = s,
                                                          !.sent = q])
            PROVE  QueriesOK'
        <4>1. s \in Servants
          BY DEF Listening
        <4>2. query'[q] = [query[q] EXCEPT !.at = "await", !.servant = s, !.sent = q]
          BY <1>1, <3>5 DEF QueryGoes
        <4>3. /\ query'[q].at = "await" /\ query'[q].table = table /\ query'[q].i = i
              /\ query'[q].result = query[q].result /\ query'[q].servant = s
              /\ query'[q].sent = q /\ query'[q].clashed = query[q].clashed
              /\ query'[q] \in QueryRecords
          BY <2>6, <4>1, <4>2 DEF QueryRecords
        <4>4. Counts(q)' = Counts(q)
          BY <2>3, <4>3 DEF Counts, RangeCount, CitiesIn, Position
        <4>5. ~disturbed /\ server = "up" => s = t.from
          BY <3>3
        <4> HIDE DEF there
        <4>6. /\ server # "new"
              /\ server = "up" => /\ table <= Len(servants) /\ i \in 1..table+1
                                  /\ ~disturbed /\ ~query[q].clashed => query[q].result
                                       = SumFunctionOnSet(Counts(q), 1..i-1)
          BY <1>1, <3>1 DEF QueryOK, Started
        <4>7. QueryOK(q)'
          <5>1. ~disturbed /\ ~query[q].clashed /\ server = "up" => query'[q].result
                                       = SumFunctionOnSet(Counts(q)', 1..query'[q].i-1)
            BY <4>3, <4>4, <4>6
          <5>2. ~disturbed /\ server = "up" =>
                  query'[q].servant = servants'[query'[q].i].from
            BY <2>3, <4>3, <4>5
          <5> HIDE DEF t
          <5> QED BY <2>3, <3>1, <4>3, <4>6, <5>1, <5>2 DEF QueryOK, Started
        <4> QED BY <2>5, <4>3, <4>7
      <3> HIDE DEF i, table
      <3> QED BY <2>11, <3>2, <3>4, <3>5 DEF Visit, i, table
    <2>12. CASE Reply(q)
      <3> DEFINE s == query[q].servant
                 p == query[q].sent
                 n == TransactionCount(s, p)
      <3>1. /\ s # Nobody /\ pc[s] = "serve" /\ query[q].at = "await"
            /\ query' = [query EXCEPT ![q] = Add(q, n)]
        BY <2>12 DEF Reply, QueryGoes
      <3>2. s \in Servants
        BY <2>6, <3>1
      <3>3. IsListing(mainDirList[s], range[s]) /\ range[s] \in Ranges
        BY <3>1, <3>2 DEF StartsOK, RangesOK
      <3> HIDE DEF s, p, n
      <3>4. n = RangeCount(range[s], p) /\ n \in Int
        <4>1. CountOf(mainDirList[s], p) = CityCount(range[s], p)
          BY <3>3, TransactionsCounted
        <4>2. n = RangeCount(range[s], p)
          BY <4>1, RangeCountIs DEF n, TransactionCount
        <4>3. RangeCount(range[s], p) \in Nat
          BY <3>3, RangeCountType
        <4> QED BY <4>2, <4>3
      <3>5. ~disturbed /\ server = "up" /\ i <= table => s = t.from
        BY <2>8, <3>1 DEF s
      <3>6. ~disturbed /\ ~query[q].clashed /\ server = "up" => p = q
        BY <1>1, <3>1 DEF QueryOK, Started, p
      <3> HIDE DEF i, table, t
      <3> QED BY <2>10, <3>1, <3>4, <3>5, <3>6
    <2>13. CASE CutOff(q)
      <3>1. /\ query[q].servant = Nobody /\ query[q].at = "await"
            /\ query' = [query EXCEPT ![q] = Add(q, 0)]
        BY <2>13 DEF CutOff, QueryGoes
      <3>2. ~(~disturbed /\ server = "up" /\ i <= table)
        BY <2>8, <3>1, ClusterAssumption
      <3>3. 0 \in Int
        OBVIOUS
      <3> HIDE DEF i, table, t
      <3> QED BY <2>10, <3>1, <3>2, <3>3
    <2>14. CASE Answer(q)
      <3>1. /\ query[q].at = "visit" /\ i > table
            /\ query'[q] = [query[q] EXCEPT !.at = "answered"]
        BY <1>1, <2>14 DEF Answer, QueryGoes
      <3>2. /\ query'[q].at = "answered" /\ query'[q].table = table /\ query'[q].i = i
            /\ query'[q].result = query[q].result /\ query'[q] \in QueryRecords
            /\ query'[q].clashed = query[q].clashed
        BY <2>6, <3>1 DEF QueryRecords
      <3>3. Counts(q)' = Counts(q)
        BY <2>3, <3>2 DEF Counts, RangeCount, CitiesIn, Position
      <3>4. /\ server # "new"
            /\ server = "up" => /\ table <= Len(servants) /\ i \in 1..table+1
                                /\ ~disturbed /\ ~query[q].clashed => query[q].result
                                       = SumFunctionOnSet(Counts(q), 1..i-1)
        BY <1>1, <3>1 DEF QueryOK, Started
      <3>5. ~disturbed /\ ~query[q].clashed /\ server = "up" => query'[q].result
                                     = SumFunctionOnSet(Counts(q)', 1..query'[q].i-1)
        BY <3>2, <3>3, <3>4
      <3>6. server = "up" => i = table + 1
        BY <2>6, <3>1, <3>4
      <3>7. QueryOK(q)'
        BY <2>3, <3>2, <3>4, <3>5, <3>6 DEF QueryOK, Started
      <3> QED BY <2>5, <3>2, <3>7
    <2>15. CASE Clash(q)
      <3>1. PICK sent \in Queries \cup {Nobody} :
              QueryGoes(q, "await", [query[q] EXCEPT !.sent = sent, !.clashed = TRUE])
        BY <2>15, Zenon DEF Clash
      <3>2. query'[q] = [query[q] EXCEPT !.sent = sent, !.clashed = TRUE]
        BY <1>1, <3>1 DEF QueryGoes
      <3>3. /\ query'[q].at = query[q].at /\ query'[q].table = table /\ query'[q].i = i
            /\ query'[q].servant = query[q].servant /\ query'[q].clashed
            /\ query'[q] \in QueryRecords
        BY <2>6, <3>2 DEF QueryRecords
      <3>4. QueryOK(q)'
        BY <1>1, <2>2, <2>6, <3>3, QueryStays
      <3> QED BY <2>5, <3>3, <3>4
    <2> QED BY <1>6, <2>9, <2>11, <2>12, <2>13, <2>14, <2>15
         DEF Queried, HandleClientRequest
  <1> QED BY <1>2, <1>3, <1>4, <1>5, <1>6, QueryCases

-----------------------------------------------------------------------------
LEMMA CInvariance == Spec => []CInv
  <1>1. Init => CInv
    <2> SUFFICES ASSUME Init PROVE CInv
      OBVIOUS
    <2> USE ClusterAssumption DEF Init
    <2>1. Listening = {}
      BY DEF Listening
    <2>2. RangesOK /\ PortsDistinct
      BY <2>1 DEF RangesOK, ServantPcs, PortsDistinct
    <2>3. StartsOK
      <3>1. mainDirList \in [Servants -> Seq(Cities)]
        OBVIOUS
      <3> QED BY <2>2, <3>1 DEF StartsOK
    <2>4. TableOK
      <3>1. incoming = <<>> /\ servants = <<>> /\ incoming \in Seq(Messages)
            /\ servants \in Seq(TableRecords) /\ DOMAIN incoming = {} /\ DOMAIN servants = {}
        OBVIOUS
      <3>2. server = "new" /\ registering = FALSE /\ disturbed = FALSE
        OBVIOUS
      <3> QED BY ONLY <3>1, <3>2 DEF TableOK
    <2>5. QueriesOK
      <3>1. New \in QueryRecords
        BY DEF New, QueryRecords
      <3> QED BY <3>1 DEF QueriesOK, QueryOK, Started, New
    <2> QED BY <2>2, <2>3, <2>4, <2>5 DEF CInv
  <1>2. CInv /\ [Next]_vars => CInv'
    <2> SUFFICES ASSUME CInv, [Next]_vars PROVE CInv'
      OBVIOUS
    <2>1. PortsDistinct'
      <3>1. IInv'
        BY PortsKept DEF CInv, StartsOK, IInv
      <3> QED BY <3>1 DEF IInv
    <2> QED BY <2>1, StartsStep, TableStep, QueriesStep DEF CInv
  <1> QED BY <1>1, <1>2, PTL DEF Spec

-----------------------------------------------------------------------------
(* The types; a registered servant is there, at the port it is known by,   *)
(* until one that is registered terminates.                                *)
THEOREM TypeCorrect == Spec => []TypeOK
  <1>1. ASSUME CInv PROVE TypeOK
    <2> USE DEF CInv, StartsOK, RangesOK
    <2>1. \A q \in Queries : query[q].at \in {"new", "visit", "await", "answered", "lost"}
      BY <1>1 DEF QueriesOK, QueryRecords
    <2>2. ~disturbed => \A k \in DOMAIN servants :
             pc[servants[k].from] = "serve" /\ servants[k].port = Port(servants[k].from)
      BY <1>1 DEF TableOK, Known
    <2>3. \A s, t \in Listening : Port(s) = Port(t) => s = t
      BY <1>1 DEF PortsDistinct
    <2>4. server \in {"new", "up", "down"} /\ registering \in BOOLEAN
      BY <1>1 DEF TableOK
    <2> QED BY <1>1, <2>1, <2>2, <2>3, <2>4 DEF TypeOK
  <1> QED BY <1>1, CInvariance, PTL

(* As long as no registered servant has terminated, the answer to a query  *)
(* is the number of transactions it asks for in the ranges of the servants *)
(* that were registered when it began: for every dataset, whatever order   *)
(* readdir gives it in, every set of ranges and every number of servants;  *)
(* unless its answer clashed with another query's at a servant.  A servant *)
(* whose last type is the one asked about counts none.                     *)
THEOREM AnswersCount == Spec => []AnswerIsCount
  <1>1. ASSUME CInv PROVE AnswerIsCount
    <2> SUFFICES ASSUME NEW q \in Queries, query[q].at = "answered", server = "up",
                        ~disturbed, ~query[q].clashed
                 PROVE  query[q].result = SumFunction(Counts(q))
      BY DEF AnswerIsCount, Counts
    <2>1. query[q].table \in Nat
      BY <1>1 DEF CInv, QueriesOK, QueryRecords
    <2>2. /\ query[q].i = query[q].table + 1
          /\ query[q].result = SumFunctionOnSet(Counts(q), 1..query[q].i-1)
      BY <1>1 DEF CInv, QueriesOK, QueryOK, Started
    <2>3. query[q].i - 1 = query[q].table
      BY <2>1, <2>2
    <2>4. DOMAIN Counts(q) = 1..query[q].table
      BY DEF Counts
    <2> QED BY <2>2, <2>3, <2>4 DEF SumFunction
  <1> QED BY <1>1, CInvariance, PTL

(* A step either finds no fault, or a worker prints a registration with a  *)
(* problem, or SIGINT frees a second time what the clean-up has freed.     *)
LEMMA FaultCases ==
  ASSUME Next
  PROVE  \/ fault' = "none"
         \/ \E k \in DOMAIN incoming :
              /\ incoming[k] = Nothing => registering
              /\ Problem(incoming[k]) # "none" /\ fault' = Problem(incoming[k])
         \/ fault' = "double free" /\ \E s \in Servants : pc[s] = "cleanup"
  <1>1. ASSUME NEW s \in Servants, NEW r \in Ranges, Start(s, r)
        PROVE  fault' = "none"
    BY <1>1 DEF Start, ServantGoes, Running
  <1>2. ASSUME NEW s \in Servants,
               Bind(s) \/ Unblock(s) \/ Connect(s) \/ Send(s) \/ CleanUp(s) \/ Exit(s)
        PROVE  fault' = "none"
    BY <1>2 DEF Bind, Unblock, Connect, Send, CleanUp, Exit, Terminates, ServantGoes,
       Running
  <1>3. ASSUME NEW s \in Servants, Interrupt(s)
        PROVE  \/ fault' = "none"
               \/ fault' = "double free" /\ pc[s] = "cleanup"
    <2>1. Terminates(s) => fault = "none"
      BY DEF Terminates, Running
    <2>2. \/ Running /\ UNCHANGED fault
          \/ Terminates(s) /\ UNCHANGED fault
          \/ pc[s] = "cleanup" /\ fault' = "double free"
      BY <1>3, Zenon DEF Interrupt
    <2> QED BY <2>1, <2>2 DEF Running
  <1>4. CASE StartServer \/ ServerTerminates
    BY <1>4 DEF StartServer, ServerTerminates, Running
  <1>5. ASSUME NEW k \in DOMAIN incoming, RegisterServant(k) \/ CloseEmpty(k)
        PROVE  \/ fault' = "none"
               \/ /\ incoming[k] = Nothing => registering
                  /\ Problem(incoming[k]) # "none" /\ fault' = Problem(incoming[k])
    BY <1>5 DEF RegisterServant, CloseEmpty, Running
  <1>6. ASSUME NEW q \in Queries, Queried(q)
        PROVE  fault' = "none"
    BY <1>6 DEF Queried, BeginQuery, Clash, HandleClientRequest, Visit, Reply, CutOff,
       Answer, QueryGoes, Running
  <1> QED BY <1>1, <1>2, <1>3, <1>4, <1>5, <1>6 DEF Next, Servant, HandleServant

(* Memory is misused only for a servant with as many cities as the server  *)
(* has room for, for a peer that was interrupted before it sent anything,  *)
(* and by a servant that is interrupted in its clean-up; never for one     *)
(* without a city.                                                         *)
THEOREM FaultsHaveCauses == Spec => FaultsExplained
  <1> DEFINE Cause ==
        /\ fault' # "no city"
        /\ fault' = "many cities" =>
             \E k \in DOMAIN incoming : Len(incoming[k].cities) >= CityCapacity
        /\ fault' = "nothing sent" => registering /\ Nothing \in ToSet(incoming)
        /\ fault' = "double free" => \E s \in Servants : pc[s] = "cleanup"
  <1>1. ASSUME TableOK, Next PROVE Cause
    <2>1. ASSUME NEW k \in DOMAIN incoming, incoming[k] = Nothing => registering,
                 Problem(incoming[k]) # "none", fault' = Problem(incoming[k])
          PROVE  Cause
      <3> DEFINE m == incoming[k]
      <3>1. m \in Messages
        BY <1>1 DEF TableOK
      <3>2. CASE m = Nothing
        <4>1. Problem(m) = "nothing sent"
          BY <3>2 DEF Problem, Nothing
        <4>2. registering /\ Nothing \in ToSet(incoming)
          BY <2>1, <3>2 DEF ToSet
        <4> QED BY <2>1, <4>1, <4>2
      <3>3. CASE m # Nothing
        <4>1. /\ m.cities \in Seq(Cities) /\ m.cities # <<>> /\ m.from \in Servants
              /\ m.from # Nobody
          BY <3>1, <3>3, ClusterAssumption DEF Messages
        <4>2. Problem(m) = IF Len(m.cities) < CityCapacity THEN "none" ELSE "many cities"
          BY <4>1, Problems
        <4>3. Len(m.cities) \in Nat /\ CityCapacity \in Nat
          BY <4>1, ClusterAssumption
        <4>4. Problem(m) # "none"
          BY <2>1
        <4>5. Problem(m) = "many cities" /\ ~(Len(m.cities) < CityCapacity)
          BY ONLY <4>2, <4>4
        <4>6. Len(m.cities) >= CityCapacity
          <5>1. ASSUME NEW x \in Nat, NEW y \in Nat, ~(x < y) PROVE x >= y
            BY <5>1
          <5> QED BY <4>3, <4>5, <5>1
        <4> QED BY <2>1, <4>5, <4>6
      <3> QED BY <3>2, <3>3
    <2> QED BY <1>1, <2>1, FaultCases
  <1>2. CInv /\ [Next]_vars => [Cause]_vars
    BY <1>1 DEF CInv
  <1> QED BY <1>2, CInvariance, PTL DEF Spec, FaultsExplained
=============================================================================
