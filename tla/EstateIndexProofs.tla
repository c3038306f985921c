------------------------- MODULE EstateIndexProofs -------------------------
(***************************************************************************)
(* The dataset in memory, for every set of types, cities and dates and any *)
(* number of transactions.  A date list is a sequence of nodes that its    *)
(* pointers run through in both directions, in calendar order; inserting a *)
(* node keeps it one, whatever the position.  The lists of two types share *)
(* no node, every node is in one, and it holds the transactions loaded for *)
(* its type and date: so the sum over a range counts what was loaded.      *)
(***************************************************************************)
EXTENDS EstateIndex, InductionLemmas, SequenceTheorems

-----------------------------------------------------------------------------
(* The inductive invariant.                                                *)

Node == [d : Dates, estates : Seq(Cities), next : Nat, back : Nat]
Transaction == [type : Types, d : Dates, city : Cities]
DateLists == [type : Types, front : Nat, rear : Nat, size : Nat]

Typed ==
  /\ dataset \in Seq(DateLists) /\ nodes \in Seq(Node)
  /\ loaded \in Seq(Transaction)

(* The pointers of h run through w, from front to rear and back.           *)
Chain(h, de, w) ==
  /\ w \in Seq(DOMAIN h) /\ w # <<>>
  /\ w[1] = de.front /\ w[Len(w)] = de.rear /\ Len(w) = de.size
  /\ \A j \in 1..Len(w)-1 : h[w[j]].next = w[j+1] /\ h[w[j+1]].back = w[j]
  /\ h[w[1]].back = Null /\ h[w[Len(w)]].next = Null
  /\ \A i, j \in 1..Len(w) : i < j => Before(h[w[i]].d, h[w[j]].d)

Linked == \A k \in DOMAIN dataset : Chain(nodes, dataset[k], DateList(k))

(* Each type has one list, and each node is in one.                        *)
Apart ==
  /\ \A k, l \in DOMAIN dataset :
        /\ dataset[k].type = dataset[l].type => k = l
        /\ k # l => ToSet(DateList(k)) \cap ToSet(DateList(l)) = {}
  /\ \A n \in DOMAIN nodes : \E k \in DOMAIN dataset : n \in ToSet(DateList(k))

(* The transactions of a type and a date, all or those of a city.          *)
Matching(l, type, d, city) ==
  {j \in DOMAIN l : /\ l[j].type = type /\ l[j].d = d
                    /\ city \in {NoCity, l[j].city}}

(* A node holds what was loaded for it, and what was loaded has a node.    *)
Stored ==
  /\ \A k \in DOMAIN dataset : \A n \in ToSet(DateList(k)) :
       \A city \in Cities \cup {NoCity} :
         EstateCount(nodes[n].estates, city) =
           Cardinality(Matching(loaded, dataset[k].type, nodes[n].d, city))
  /\ \A j \in DOMAIN loaded : \E k \in DOMAIN dataset :
        /\ dataset[k].type = loaded[j].type
        /\ \E n \in ToSet(DateList(k)) : nodes[n].d = loaded[j].d
  /\ \A n \in DOMAIN nodes : nodes[n].estates # <<>>
  /\ Len(nodes) <= Len(loaded)

Released ==
  freed \subseteq {Null} \cup DOMAIN nodes /\ (freed # {} => DOMAIN nodes \subseteq freed)

IInv == Typed /\ Linked /\ Apart /\ Stored /\ Released

-----------------------------------------------------------------------------
(* Dates.                                                                  *)

LEMMA Calendar ==
  ASSUME NEW a \in Dates, NEW b \in Dates
  PROVE  /\ CompareDates(a, b) = SMALLER <=> Before(a, b)
         /\ CompareDates(a, b) = EQUAL <=> a = b
         /\ CompareDates(a, b) = BIGGER <=> Before(b, a)
         /\ Before(a, b) => ~Before(b, a) /\ a # b
         /\ Before(a, b) \/ Before(b, a) \/ a = b
  <1>1. PICK a1, a2, a3 \in Nat : a = <<a1, a2, a3>>
    BY IndexAssumption
  <1>2. PICK b1, b2, b3 \in Nat : b = <<b1, b2, b3>>
    BY IndexAssumption
  <1> QED BY <1>1, <1>2 DEF CompareDates, Compare, Before, SMALLER, EQUAL, BIGGER

LEMMA BeforeTransitive ==
  ASSUME NEW a \in Dates, NEW b \in Dates, NEW c \in Dates, Before(a, b), Before(b, c)
  PROVE  Before(a, c)
  <1>1. PICK a1, a2, a3 \in Nat : a = <<a1, a2, a3>>
    BY IndexAssumption
  <1>2. PICK b1, b2, b3 \in Nat : b = <<b1, b2, b3>>
    BY IndexAssumption
  <1>3. PICK c1, c2, c3 \in Nat : c = <<c1, c2, c3>>
    BY IndexAssumption
  <1> QED BY <1>1, <1>2, <1>3 DEF Before

-----------------------------------------------------------------------------
(* Lists.                                                                  *)

(* w is what the next pointers of h run through from front.                *)
Path(h, front, w) ==
  /\ w \in Seq(DOMAIN h) /\ Len(w) <= Len(h)
  /\ front = IF w = <<>> THEN Null ELSE w[1]
  /\ \A j \in 1..Len(w) : h[w[j]].next = IF j = Len(w) THEN Null ELSE w[j+1]

(* Walking along the pointers finds it.                                    *)
LEMMA PathForward ==
  ASSUME NEW h \in Seq(Node), NEW front, NEW w, Path(h, front, w)
  PROVE  Forward(h, front) = w
  <1> DEFINE L == Len(h)
             Next1(at, n) == IF n = 0 THEN front
                             ELSE IF at[n-1] = Null THEN Null ELSE h[at[n-1]].next
             Eq(at) == at = [n \in 0..L |-> Next1(at, n)]
             c == CHOOSE at : Eq(at)
             m == Cardinality({n \in 0..L : c[n] # Null})
             at0 == [n \in 0..L |-> IF n < Len(w) THEN w[n+1] ELSE Null]
  <1>1. Forward(h, front) = [j \in 1..m |-> c[j-1]]
    BY Zenon DEF Forward
  <1>2. /\ L \in Nat /\ Len(w) \in Nat /\ Len(w) <= L
        /\ w \in [1..Len(w) -> 1..L]
        /\ w = <<>> <=> Len(w) = 0
    BY DEF Path
  <1>3. /\ front = IF Len(w) = 0 THEN Null ELSE w[1]
        /\ \A j \in 1..Len(w) : h[w[j]].next = IF j = Len(w) THEN Null ELSE w[j+1]
    BY <1>2 DEF Path
  <1> HIDE DEF L
  <1>4. ASSUME NEW n \in 0..L
        PROVE  at0[n] = Next1(at0, n)
    <2>1. at0[n] = IF n < Len(w) THEN w[n+1] ELSE Null
      OBVIOUS
    <2>2. CASE n = 0
      <3>1. n + 1 = 1 /\ (n < Len(w) <=> Len(w) # 0)
        BY <1>2, <2>2
      <3> HIDE DEF at0
      <3> QED BY <1>3, <2>1, <2>2, <3>1
    <2>3. CASE n # 0
      <3>1. at0[n-1] = IF n-1 < Len(w) THEN w[(n-1)+1] ELSE Null
        BY <1>2, <2>3
      <3> HIDE DEF at0
      <3>2. CASE n <= Len(w)
        <4>1. n \in 1..Len(w) /\ w[n] # Null /\ at0[n-1] = w[n]
          <5>1. n \in 1..Len(w) /\ (n-1)+1 = n /\ n-1 < Len(w)
            BY <1>2, <2>3, <3>2
          <5>2. w[n] \in 1..L
            BY <1>2, <5>1
          <5> QED BY <1>2, <3>1, <5>1, <5>2 DEF Null
        <4>2. h[w[n]].next = IF n = Len(w) THEN Null ELSE w[n+1]
          BY <1>3, <4>1
        <4>3. n < Len(w) <=> n # Len(w)
          <5>1. n \in Int /\ Len(w) \in Int
            BY <1>2
          <5> QED BY <3>2, <5>1
        <4>4. Next1(at0, n) = h[w[n]].next
          BY <2>3, <4>1
        <4> HIDE DEF Next1
        <4> QED BY <2>1, <4>2, <4>3, <4>4
      <3>3. CASE ~(n <= Len(w))
        <4>1. at0[n-1] = Null /\ at0[n] = Null
          BY <1>2, <2>1, <2>3, <3>1, <3>3
        <4> QED BY <2>3, <4>1
      <3> QED BY <3>2, <3>3
    <2> QED BY <2>2, <2>3
  <1>5. Eq(c)
    <2>1. Eq(at0)
      BY <1>4
    <2> HIDE DEF Eq
    <2> QED BY <2>1
  <1> HIDE DEF c
  <1>6. ASSUME NEW n \in 0..L PROVE c[n] = at0[n]
    <2> DEFINE T == {k \in 0..L : c[k] = at0[k]}
    <2>1. 0 \in T
      <3>1. 0 \in 0..L
        BY <1>2
      <3>2. c[0] = front /\ at0[0] = front
        <4>1. at0[0] = Next1(at0, 0)
          BY <1>4, <3>1
        <4> HIDE DEF at0
        <4> QED BY <1>5, <3>1, <4>1
      <3> QED BY <3>1, <3>2
    <2>2. ASSUME NEW k \in 0..L-1, k \in T PROVE k+1 \in T
      <3>1. k+1 \in 0..L /\ k+1 # 0 /\ (k+1)-1 = k /\ c[k] = at0[k]
        BY <1>2, <2>2
      <3>2. c[k+1] = Next1(c, k+1)
        BY <1>5, <3>1
      <3>3. at0[k+1] = Next1(at0, k+1)
        BY <1>4, <3>1
      <3> HIDE DEF at0
      <3>4. c[k+1] = at0[k+1]
        BY <3>1, <3>2, <3>3
      <3> QED BY <3>1, <3>4
    <2> HIDE DEF at0
    <2>3. 0..L \subseteq T
      <3> HIDE DEF T
      <3> QED BY <1>2, <2>1, <2>2, BoundedInduction
    <2> QED BY <2>3
  <1>7. m = Len(w)
    <2>1. ASSUME NEW n \in 0..L PROVE c[n] # Null <=> n < Len(w)
      <3>1. n < Len(w) => n+1 \in 1..Len(w) /\ w[n+1] \in 1..L
        BY <1>2
      <3> QED BY <1>2, <1>6, <3>1 DEF Null
    <2>2. {n \in 0..L : c[n] # Null} = 0..Len(w)-1
      BY <1>2, <2>1
    <2>3. Cardinality(0..Len(w)-1) = Len(w)
      <3>1. 0 \in Int /\ Len(w)-1 \in Int
        BY <1>2
      <3>2. Cardinality(0..Len(w)-1) = IF 0 > Len(w)-1 THEN 0 ELSE (Len(w)-1)-0+1
        BY <3>1, FS_Interval
      <3> QED BY <1>2, <3>2
    <2> HIDE DEF Null
    <2> QED BY <2>2, <2>3
  <1>8. ASSUME NEW j \in 1..Len(w) PROVE c[j-1] = w[j]
    <2>1. j-1 \in 0..L /\ j-1 < Len(w) /\ (j-1)+1 = j
      BY <1>2
    <2> QED BY <1>6, <2>1
  <1> HIDE DEF m
  <1> QED BY <1>1, <1>2, <1>7, <1>8

(* The list of no node.                                                    *)
LEMMA NoPath ==
  ASSUME NEW h \in Seq(Node)
  PROVE  Forward(h, Null) = <<>>
  <1>1. Path(h, Null, <<>>)
    BY DEF Path
  <1> QED BY <1>1, PathForward

LEMMA ChainType ==
  ASSUME NEW h \in Seq(Node), NEW de, NEW w, Chain(h, de, w)
  PROVE  /\ Len(h) \in Nat /\ DOMAIN h = 1..Len(h)
         /\ Len(w) \in Nat \ {0} /\ DOMAIN w = 1..Len(w) /\ w \in [1..Len(w) -> 1..Len(h)]
         /\ ToSet(w) = {w[j] : j \in 1..Len(w)}
         /\ \A n \in DOMAIN h : h[n] \in Node /\ h[n].d \in Dates
         /\ \A j \in 1..Len(w) : w[j] \in DOMAIN h /\ h[w[j]].d \in Dates
  <1>1. /\ Len(h) \in Nat /\ DOMAIN h = 1..Len(h)
        /\ \A n \in DOMAIN h : h[n] \in Node
    OBVIOUS
  <1>2. Len(w) \in Nat \ {0} /\ DOMAIN w = 1..Len(w) /\ w \in [1..Len(w) -> DOMAIN h]
    BY DEF Chain
  <1>3. \A n \in DOMAIN h : h[n].d \in Dates
    BY <1>1 DEF Node
  <1>4. ToSet(w) = {w[j] : j \in 1..Len(w)}
    BY <1>2 DEF ToSet
  <1> QED BY <1>1, <1>2, <1>3, <1>4

(* No node comes twice in a date list.                                     *)
LEMMA ChainOnce ==
  ASSUME NEW h \in Seq(Node), NEW de, NEW w, Chain(h, de, w),
         NEW i \in 1..Len(w), NEW j \in 1..Len(w), h[w[i]].d = h[w[j]].d
  PROVE  i = j
  <1>1. h[w[i]].d \in Dates /\ i \in Int /\ j \in Int
    BY ChainType
  <1>2. i < j => Before(h[w[i]].d, h[w[j]].d)
    BY DEF Chain
  <1>3. j < i => Before(h[w[j]].d, h[w[i]].d)
    BY DEF Chain
  <1>4. ~Before(h[w[i]].d, h[w[i]].d)
    BY <1>1, Calendar
  <1> QED BY <1>1, <1>2, <1>3, <1>4

LEMMA ChainForward ==
  ASSUME NEW h \in Seq(Node), NEW de, NEW w, Chain(h, de, w)
  PROVE  Forward(h, de.front) = w /\ Len(w) <= Len(h)
  <1>1. /\ Len(h) \in Nat /\ Len(w) \in Nat \ {0} /\ w \in [1..Len(w) -> 1..Len(h)]
        /\ DOMAIN h = 1..Len(h)
    BY ChainType
  <1>2. Len(w) <= Len(h)
    <2>1. \A i, j \in 1..Len(w) : w[i] = w[j] => i = j
      BY ChainOnce
    <2>2. w \in Injection(1..Len(w), 1..Len(h))
      BY <1>1, <2>1 DEF Injection, IsInjective
    <2>3. IsFiniteSet(1..Len(h)) /\ Cardinality(1..Len(h)) = Len(h)
      BY <1>1, IntervalSize
    <2>4. Cardinality(1..Len(w)) = Len(w)
      BY <1>1, IntervalSize
    <2>5. Cardinality(1..Len(w)) <= Cardinality(1..Len(h))
      BY <2>2, <2>3, FS_Injection
    <2> QED BY <2>3, <2>4, <2>5
  <1>3. Path(h, de.front, w)
    <2>1. w # <<>> /\ w[1] = de.front /\ w \in Seq(DOMAIN h)
      BY DEF Chain
    <2>2. ASSUME NEW j \in 1..Len(w)
          PROVE  h[w[j]].next = IF j = Len(w) THEN Null ELSE w[j+1]
      <3>1. Len(w) \in Int
        BY <1>1
      <3>2. j # Len(w) => j \in 1..Len(w)-1
        BY <3>1
      <3> QED BY <3>2 DEF Chain
    <2> QED BY <1>2, <2>1, <2>2 DEF Path
  <1> QED BY <1>2, <1>3, PathForward

-----------------------------------------------------------------------------
(* Inserting.                                                              *)

(* e before the p-th element of w, or after the last.                      *)
With(w, p, e) ==
  [j \in 1..Len(w)+1 |-> IF j < p THEN w[j] ELSE IF j = p THEN e ELSE w[j-1]]

(* g is h with e in that place: e and its neighbours point to each other.  *)
Spliced(h, g, w, p, e) ==
  /\ g \in Seq(Node) /\ Len(g) = Len(h)
  /\ g[e].next = IF p = Len(w)+1 THEN Null ELSE w[p]
  /\ g[e].back = IF p = 1 THEN Null ELSE w[p-1]
  /\ \A n \in DOMAIN h : g[n].d = h[n].d /\ g[n].estates = h[n].estates
  /\ \A j \in 1..Len(w) :
        /\ g[w[j]].next = IF j = p-1 THEN e ELSE h[w[j]].next
        /\ g[w[j]].back = IF j = p THEN e ELSE h[w[j]].back
  /\ \A n \in DOMAIN h \ (ToSet(w) \cup {e}) : g[n] = h[n]

LEMMA BackSplices ==
  ASSUME NEW h \in Seq(Node), NEW de, NEW w, Chain(h, de, w),
         NEW e \in DOMAIN h, e \notin ToSet(w), NEW p \in 1..Len(w)
  PROVE  Spliced(h, AddDateEstateBack(h, w[p], e), w, p, e)
  <1> DEFINE g == AddDateEstateBack(h, w[p], e)
             b == h[w[p]].back
             G(n) == CASE n = e -> [h[n] EXCEPT !.next = w[p], !.back = b]
                       [] n = w[p] -> [h[n] EXCEPT !.back = e]
                       [] n = b -> [h[n] EXCEPT !.next = e]
                       [] OTHER -> h[n]
  <1>1. /\ Len(h) \in Nat /\ DOMAIN h = 1..Len(h)
        /\ Len(w) \in Nat \ {0} /\ w \in [1..Len(w) -> 1..Len(h)]
        /\ \A n \in DOMAIN h : h[n] \in Node
        /\ ToSet(w) = {w[j] : j \in 1..Len(w)}
    BY ChainType
  <1>2. b = IF p = 1 THEN Null ELSE w[p-1]
    <2>1. p # 1 => p-1 \in 1..Len(w)-1 /\ (p-1)+1 = p
      BY <1>1
    <2> QED BY <2>1 DEF Chain
  <1>3. \A i, j \in 1..Len(w) : w[i] = w[j] => i = j
    BY ChainOnce
  <1>4. \A j \in 1..Len(w) : w[j] # e /\ w[j] # Null
    BY <1>1 DEF Null
  <1>5. w[p] # b /\ b \in Nat /\ b # e
    <2>1. w[p] # b
      <3>1. p # 1 => p-1 \in 1..Len(w) /\ p-1 # p
        BY <1>1
      <3> QED BY <1>2, <1>3, <1>4, <3>1
    <2>2. b \in Nat
      BY <1>1 DEF Node
    <2>3. b # e
      <3>1. p # 1 => p-1 \in 1..Len(w)
        BY <1>1
      <3>2. e # Null
        BY <1>1 DEF Null
      <3> QED BY <1>2, <1>4, <3>1, <3>2
    <2> QED BY <2>1, <2>2, <2>3
  <1>6. ASSUME NEW n \in DOMAIN h PROVE g[n] = G(n)
    BY DEF AddDateEstateBack
  <1>7. DOMAIN g = DOMAIN h
    BY DEF AddDateEstateBack
  <1>8. w[p] \in DOMAIN h /\ w[p] \in Nat /\ e \in Nat
    BY <1>1
  <1> HIDE DEF g, b
  <1>9. ASSUME NEW n \in DOMAIN h
        PROVE  /\ g[n] \in Node /\ g[n].d = h[n].d /\ g[n].estates = h[n].estates
               /\ g[n].next = IF n = e THEN w[p] ELSE IF n = b THEN e ELSE h[n].next
               /\ g[n].back = IF n = e THEN b ELSE IF n = w[p] THEN e ELSE h[n].back
               /\ n \notin {e, w[p], b} => g[n] = h[n]
    <2>1. h[n] \in Node
      BY <1>1
    <2>2. G(n) \in Node
      BY <1>5, <1>8, <2>1 DEF Node
    <2>3. h[n] = [d |-> h[n].d, estates |-> h[n].estates, next |-> h[n].next, back |-> h[n].back]
      BY <2>1 DEF Node
    <2>4. g[n] = G(n)
      BY <1>6
    <2> HIDE DEF G
    <2>5. CASE n = e
      <3>1. G(n) = [h[n] EXCEPT !.next = w[p], !.back = b]
        BY <1>4, <1>5, <2>3, <2>5 DEF G
      <3> QED BY <1>5, <2>2, <2>3, <2>4, <2>5, <3>1
    <2>6. CASE n # e /\ n = w[p]
      <3>1. G(n) = [h[n] EXCEPT !.back = e]
        BY <1>4, <1>5, <2>3, <2>6 DEF G
      <3> QED BY <1>5, <2>2, <2>3, <2>4, <2>6, <3>1
    <2>7. CASE n # e /\ n # w[p] /\ n = b
      <3>1. G(n) = [h[n] EXCEPT !.next = e]
        BY <2>7 DEF G
      <3> QED BY <2>2, <2>3, <2>4, <2>7, <3>1
    <2>8. CASE n \notin {e, w[p], b}
      <3>1. G(n) = h[n]
        BY <2>8 DEF G
      <3> QED BY <2>2, <2>4, <2>8, <3>1
    <2> QED BY <2>5, <2>6, <2>7, <2>8
  <1>10. g \in Seq(Node) /\ Len(g) = Len(h)
    <2>1. g \in [1..Len(h) -> Node]
      <3>1. g = [n \in DOMAIN h |-> g[n]]
        BY DEF g, AddDateEstateBack
      <3> QED BY <1>1, <1>9, <3>1
    <2> QED BY <1>1, <2>1
  <1>11. g[e].next = w[p] /\ g[e].back = b
    BY <1>9
  <1>12. ASSUME NEW j \in 1..Len(w)
         PROVE  /\ g[w[j]].next = IF j = p-1 THEN e ELSE h[w[j]].next
                /\ g[w[j]].back = IF j = p THEN e ELSE h[w[j]].back
    <2>1. w[j] \in DOMAIN h /\ w[j] # e
      BY <1>1, <1>4
    <2>2. w[j] = w[p] <=> j = p
      BY <1>3
    <2>3. w[j] = b <=> j = p-1
      <3>1. CASE p = 1
        BY <1>1, <1>2, <1>4, <3>1
      <3>2. CASE p # 1
        <4>1. p-1 \in 1..Len(w)
          BY <1>1, <3>2
        <4> QED BY <1>2, <1>3, <3>2, <4>1
      <3> QED BY <3>1, <3>2
    <2> QED BY <1>9, <2>1, <2>2, <2>3
  <1>13. ASSUME NEW n \in DOMAIN h \ (ToSet(w) \cup {e}) PROVE g[n] = h[n]
    <2>1. n # e /\ n # w[p]
      BY <1>1
    <2>2. n # b
      <3>1. p # 1 => p-1 \in 1..Len(w)
        BY <1>1
      <3>2. n # Null
        BY <1>1 DEF Null
      <3> QED BY <1>1, <1>2, <3>1, <3>2
    <2> QED BY <1>9, <2>1, <2>2
  <1>14. p # Len(w)+1
    BY <1>1
  <1>15. g = AddDateEstateBack(h, w[p], e)
    BY DEF g
  <1> QED BY <1>2, <1>9, <1>10, <1>11, <1>12, <1>13, <1>14, <1>15 DEF Spliced

LEMMA FrontSplices ==
  ASSUME NEW h \in Seq(Node), NEW de, NEW w, Chain(h, de, w),
         NEW e \in DOMAIN h, e \notin ToSet(w)
  PROVE  Spliced(h, AddDateEstateFront(h, w[Len(w)], e), w, Len(w)+1, e)
  <1> DEFINE N == Len(w)
             q == w[N]
             g == AddDateEstateFront(h, q, e)
             G(n) == CASE n = e -> [h[n] EXCEPT !.next = Null, !.back = q]
                       [] n = q -> [h[n] EXCEPT !.next = e]
                       [] n = Null -> [h[n] EXCEPT !.back = e]
                       [] OTHER -> h[n]
  <1>1. /\ Len(h) \in Nat /\ DOMAIN h = 1..Len(h)
        /\ N \in Nat \ {0} /\ w \in [1..N -> 1..Len(h)]
        /\ \A n \in DOMAIN h : h[n] \in Node
        /\ ToSet(w) = {w[j] : j \in 1..N}
    BY ChainType
  <1>2. h[q].next = Null
    BY DEF Chain
  <1>3. \A i, j \in 1..N : w[i] = w[j] => i = j
    BY ChainOnce
  <1>4. \A j \in 1..N : w[j] # e
    BY <1>1
  <1>5. q \in DOMAIN h /\ q \in Nat /\ e \in Nat /\ Null \in Nat /\ q # e /\ N \in 1..N
    BY <1>1 DEF Null
  <1>6. ASSUME NEW n \in DOMAIN h PROVE g[n] = G(n) /\ n # Null
    BY <1>1, <1>2 DEF AddDateEstateFront, Null
  <1>7. g = [n \in DOMAIN h |-> g[n]]
    BY DEF AddDateEstateFront
  <1> HIDE DEF g, q
  <1>8. ASSUME NEW n \in DOMAIN h
        PROVE  /\ g[n] \in Node /\ g[n].d = h[n].d /\ g[n].estates = h[n].estates
               /\ g[n].next = IF n = e THEN Null ELSE IF n = q THEN e ELSE h[n].next
               /\ g[n].back = IF n = e THEN q ELSE h[n].back
               /\ n \notin {e, q} => g[n] = h[n]
    <2>1. h[n] \in Node /\ n # Null
      BY <1>1, <1>6
    <2>2. h[n] = [d |-> h[n].d, estates |-> h[n].estates, next |-> h[n].next, back |-> h[n].back]
      BY <2>1 DEF Node
    <2>3. g[n] = G(n)
      BY <1>6
    <2> HIDE DEF G
    <2>4. CASE n = e
      <3>1. G(n) = [h[n] EXCEPT !.next = Null, !.back = q]
        BY <1>5, <2>1, <2>2, <2>4 DEF G
      <3>2. G(n) \in Node
        BY <1>5, <2>1, <3>1 DEF Node
      <3> QED BY <1>5, <2>2, <2>3, <2>4, <3>1, <3>2
    <2>5. CASE n # e /\ n = q
      <3>1. G(n) = [h[n] EXCEPT !.next = e]
        BY <1>5, <2>1, <2>2, <2>5 DEF G
      <3>2. G(n) \in Node
        BY <1>5, <2>1, <3>1 DEF Node
      <3> QED BY <1>5, <2>2, <2>3, <2>5, <3>1, <3>2
    <2>6. CASE n \notin {e, q}
      <3>1. G(n) = h[n]
        BY <2>1, <2>6 DEF G
      <3> QED BY <2>1, <2>3, <2>6, <3>1
    <2> QED BY <2>4, <2>5, <2>6
  <1>9. g \in Seq(Node) /\ Len(g) = Len(h)
    <2>1. g \in [1..Len(h) -> Node]
      BY <1>1, <1>7, <1>8
    <2> QED BY <1>1, <2>1
  <1>10. ASSUME NEW j \in 1..N
         PROVE  /\ g[w[j]].next = IF j = N THEN e ELSE h[w[j]].next
                /\ g[w[j]].back = h[w[j]].back
    <2>1. w[j] \in DOMAIN h /\ w[j] # e
      BY <1>1, <1>4
    <2>2. w[j] = q <=> j = N
      BY <1>3, <1>5 DEF q
    <2> QED BY <1>8, <2>1, <2>2
  <1>11. ASSUME NEW n \in DOMAIN h \ (ToSet(w) \cup {e}) PROVE g[n] = h[n]
    <2>1. n # e /\ n # q
      BY <1>1, <1>5 DEF q
    <2> QED BY <1>8, <2>1
  <1>12. g[e].next = Null /\ g[e].back = q
    BY <1>8
  <1>13. N + 1 # 1 /\ (N+1)-1 = N /\ \A j \in 1..N : j # N+1
    BY <1>1
  <1>14. \A n \in DOMAIN h : g[n].d = h[n].d /\ g[n].estates = h[n].estates
    BY <1>8
  <1>15. Spliced(h, g, w, N+1, e)
    BY <1>9, <1>10, <1>11, <1>12, <1>13, <1>14 DEF Spliced, q
  <1> QED BY <1>15 DEF g, q

(* A node put where its date belongs keeps the list a date list.           *)
LEMMA SplicedChain ==
  ASSUME NEW h \in Seq(Node), NEW de, NEW w, Chain(h, de, w),
         NEW e \in DOMAIN h, NEW p \in 1..Len(w)+1,
         NEW g, Spliced(h, g, w, p, e),
         \A j \in 1..Len(w) : IF j < p THEN Before(h[w[j]].d, h[e].d)
                              ELSE Before(h[e].d, h[w[j]].d),
         NEW df, df.front = IF p = 1 THEN e ELSE de.front,
         df.rear = IF p = Len(w)+1 THEN e ELSE de.rear, df.size = de.size + 1
  PROVE  /\ Chain(g, df, With(w, p, e))
         /\ ToSet(With(w, p, e)) = ToSet(w) \cup {e}
  <1> DEFINE N == Len(w)
             v == With(w, p, e)
  <1>1. /\ Len(h) \in Nat /\ DOMAIN h = 1..Len(h)
        /\ N \in Nat \ {0} /\ w \in [1..N -> 1..Len(h)]
        /\ ToSet(w) = {w[j] : j \in 1..N}
    BY ChainType
  <1>2. DOMAIN g = DOMAIN h /\ Len(g) = Len(h)
    <2>1. g \in Seq(Node) /\ Len(g) = Len(h)
      BY DEF Spliced
    <2> QED BY <1>1, <2>1
  <1>3. N \in Int /\ p \in Int /\ 1 <= p /\ p <= N+1 /\ N >= 1
    BY <1>1
  <1>4. ASSUME NEW j \in 1..N+1
        PROVE  /\ v[j] = IF j < p THEN w[j] ELSE IF j = p THEN e ELSE w[j-1]
               /\ v[j] \in 1..Len(h)
               /\ j < p => j \in 1..N
               /\ j > p => j-1 \in 1..N
    <2>1. v[j] = IF j < p THEN w[j] ELSE IF j = p THEN e ELSE w[j-1]
      BY DEF With
    <2>2. (j < p => j \in 1..N) /\ (j > p => j-1 \in 1..N)
      BY <1>3
    <2>3. CASE j < p
      BY <1>1, <2>1, <2>2, <2>3
    <2>4. CASE j = p
      BY <1>1, <1>3, <2>1, <2>2, <2>4
    <2>5. CASE j > p
      <3>1. v[j] = w[j-1]
        BY <1>3, <2>1, <2>5
      <3> QED BY <1>1, <2>1, <2>2, <2>5, <3>1
    <2> QED BY <1>3, <2>3, <2>4, <2>5
  <1>5. v \in Seq(DOMAIN g) /\ Len(v) = N+1 /\ DOMAIN v = 1..N+1
    <2>1. v = [j \in 1..N+1 |-> v[j]]
      BY DEF With
    <2>2. v \in [1..N+1 -> DOMAIN g]
      BY <1>1, <1>2, <1>4, <2>1
    <2> HIDE DEF v
    <2>3. N+1 \in Nat
      BY <1>1
    <2> QED BY <2>2, <2>3
  <1> HIDE DEF v
  <1>6. ToSet(v) = ToSet(w) \cup {e}
    <2>1. ASSUME NEW n \in ToSet(v) PROVE n \in ToSet(w) \cup {e}
      <3>1. PICK j \in 1..N+1 : v[j] = n
        BY <1>5 DEF ToSet
      <3>2. CASE j < p
        BY <1>1, <1>4, <3>1, <3>2
      <3>3. CASE j = p
        BY <1>3, <1>4, <3>1, <3>3
      <3>4. CASE j > p
        <4>1. v[j] = w[j-1] /\ j-1 \in 1..N
          BY <1>3, <1>4, <3>4
        <4> QED BY <1>1, <3>1, <4>1
      <3> QED BY <1>3, <3>2, <3>3, <3>4
    <2>2. ASSUME NEW n \in ToSet(w) PROVE n \in ToSet(v)
      <3>1. PICK j \in 1..N : w[j] = n
        BY <1>1
      <3>2. CASE j < p
        <4>1. j \in 1..N+1 /\ v[j] = n
          BY <1>3, <1>4, <3>1, <3>2
        <4> QED BY <1>5, <4>1 DEF ToSet
      <3>3. CASE j >= p
        <4>1. j+1 \in 1..N+1 /\ ~(j+1 < p) /\ j+1 # p /\ (j+1)-1 = j
          BY <1>3, <3>3
        <4>2. v[j+1] = n
          BY <1>4, <3>1, <4>1
        <4> QED BY <1>5, <4>1, <4>2 DEF ToSet
      <3> QED BY <1>3, <3>2, <3>3
    <2>3. e \in ToSet(v)
      <3>1. p \in 1..N+1 /\ v[p] = e
        BY <1>3, <1>4
      <3> QED BY <1>5, <3>1 DEF ToSet
    <2> QED BY <2>1, <2>2, <2>3
  <1>7. v[1] = df.front
    <2>1. 1 \in 1..N+1 /\ w[1] = de.front /\ (1 < p <=> p # 1)
      BY <1>3 DEF Chain
    <2> QED BY <1>3, <1>4, <2>1
  <1>8. v[N+1] = df.rear
    <2>1. N+1 \in 1..N+1 /\ ~(N+1 < p) /\ (N+1)-1 = N
      BY <1>3
    <2>2. w[N] = de.rear
      BY DEF Chain
    <2> QED BY <1>4, <2>1, <2>2
  <1>9. N + 1 = df.size
    BY DEF Chain
  <1>10. /\ g[e].next = IF p = N+1 THEN Null ELSE w[p]
         /\ g[e].back = IF p = 1 THEN Null ELSE w[p-1]
         /\ \A j \in 1..N : /\ g[w[j]].next = IF j = p-1 THEN e ELSE h[w[j]].next
                            /\ g[w[j]].back = IF j = p THEN e ELSE h[w[j]].back
    BY DEF Spliced
  <1>11. /\ \A j \in 1..N-1 : h[w[j]].next = w[j+1] /\ h[w[j+1]].back = w[j]
         /\ h[w[1]].back = Null /\ h[w[N]].next = Null
    BY DEF Chain
  <1>12. ASSUME NEW j \in 1..N
         PROVE  g[v[j]].next = v[j+1] /\ g[v[j+1]].back = v[j]
    <2>1. j \in 1..N+1 /\ j+1 \in 1..N+1 /\ (j+1)-1 = j /\ j \in Int
      BY <1>3
    <2>2. CASE j+1 < p
      <3>1. j \in 1..N-1 /\ j < p /\ j # p-1 /\ j+1 # p /\ j+1 \in 1..N
        BY <1>3, <2>1, <2>2
      <3>2. v[j] = w[j] /\ v[j+1] = w[j+1]
        BY <1>4, <2>1, <2>2, <3>1
      <3> QED BY <1>10, <1>11, <3>1, <3>2
    <2>3. CASE j+1 = p
      <3>1. j < p /\ j = p-1 /\ p # 1 /\ p - 1 = j
        BY <1>3, <2>1, <2>3
      <3>2. v[j] = w[j] /\ v[j+1] = e
        BY <1>4, <2>1, <2>3, <3>1
      <3> QED BY <1>10, <2>3, <3>1, <3>2
    <2>4. CASE j = p
      <3>1. ~(j < p) /\ ~(j+1 < p) /\ j+1 # p /\ p # N+1
        BY <1>3, <2>1, <2>4
      <3>2. v[j] = e /\ v[j+1] = w[j]
        BY <1>4, <2>1, <2>4, <3>1
      <3> QED BY <1>10, <2>4, <3>1, <3>2
    <2>5. CASE j > p
      <3>1. ~(j < p) /\ j # p /\ ~(j+1 < p) /\ j+1 # p
        BY <1>3, <2>1, <2>5
      <3>2. v[j] = w[j-1] /\ v[j+1] = w[j]
        BY <1>4, <2>1, <3>1
      <3>3. j-1 \in 1..N-1 /\ j-1 \in 1..N /\ (j-1)+1 = j /\ j-1 # p-1
        BY <1>3, <2>1, <2>5
      <3>4. h[w[j-1]].next = w[j] /\ h[w[j]].back = w[j-1]
        BY <1>11, <3>3
      <3> QED BY <1>10, <3>1, <3>2, <3>3, <3>4
    <2> QED BY <1>3, <2>1, <2>2, <2>3, <2>4, <2>5
  <1>13. g[v[1]].back = Null
    <2>1. 1 \in 1..N+1 /\ 1 \in 1..N /\ (p # 1 => 1 < p)
      BY <1>3
    <2> QED BY <1>3, <1>4, <1>10, <1>11, <2>1
  <1>14. g[v[N+1]].next = Null
    <2>1. N+1 \in 1..N+1 /\ N \in 1..N /\ ~(N+1 < p) /\ (N+1)-1 = N /\ (N = p-1 => N+1 = p)
      BY <1>3
    <2>2. v[N+1] = IF N+1 = p THEN e ELSE w[N]
      BY <1>4, <2>1
    <2> QED BY <1>10, <1>11, <2>1, <2>2
  <1>15. ASSUME NEW i \in 1..N+1, NEW j \in 1..N+1, i < j
         PROVE  Before(g[v[i]].d, g[v[j]].d)
    <2>1. g[v[i]].d = h[v[i]].d /\ g[v[j]].d = h[v[j]].d
      BY <1>1, <1>4 DEF Spliced
    <2>2. i \in Int /\ j \in Int
      OBVIOUS
    <2>3. \A k, l \in 1..N : k < l => Before(h[w[k]].d, h[w[l]].d)
      BY DEF Chain
    <2>4. CASE j < p
      <3>1. i < p /\ v[i] = w[i] /\ v[j] = w[j] /\ i \in 1..N /\ j \in 1..N
        BY <1>3, <1>4, <1>15, <2>2, <2>4
      <3> QED BY <1>15, <2>1, <2>3, <3>1
    <2>5. CASE j = p
      <3>1. i < p /\ v[i] = w[i] /\ v[j] = e /\ i \in 1..N
        BY <1>3, <1>4, <1>15, <2>2, <2>5
      <3> QED BY <2>1, <3>1
    <2>6. CASE j > p
      <3>1. v[j] = w[j-1] /\ j-1 \in 1..N
        BY <1>3, <1>4, <2>2, <2>6
      <3>2. CASE i < p
        <4>1. v[i] = w[i] /\ i \in 1..N /\ i < j-1
          BY <1>3, <1>4, <2>2, <2>6, <3>2
        <4> QED BY <2>1, <2>3, <3>1, <4>1
      <3>3. CASE i = p
        <4>1. v[i] = e /\ ~(j-1 < p)
          BY <1>3, <1>4, <2>2, <2>6, <3>3
        <4> QED BY <2>1, <3>1, <4>1
      <3>4. CASE i > p
        <4>1. v[i] = w[i-1] /\ i-1 \in 1..N /\ i-1 < j-1
          BY <1>3, <1>4, <1>15, <2>2, <3>4
        <4> QED BY <2>1, <2>3, <3>1, <4>1
      <3> QED BY <1>3, <2>2, <3>2, <3>3, <3>4
    <2> QED BY <1>3, <2>2, <2>4, <2>5, <2>6
  <1>16. (N+1)-1 = N /\ v # <<>>
    BY <1>3, <1>5
  <1>17. Chain(g, df, v)
    BY <1>5, <1>7, <1>8, <1>9, <1>12, <1>13, <1>14, <1>15, <1>16 DEF Chain
  <1> QED BY <1>6, <1>17 DEF v

(* A date list does not depend on other nodes, nor on what its own hold.   *)
LEMMA ChainElsewhere ==
  ASSUME NEW h \in Seq(Node), NEW g \in Seq(Node), NEW de, NEW w, Chain(h, de, w),
         Len(h) <= Len(g),
         \A n \in ToSet(w) : /\ g[n].d = h[n].d
                             /\ g[n].next = h[n].next /\ g[n].back = h[n].back
  PROVE  Chain(g, de, w)
  <1>1. /\ Len(h) \in Nat /\ DOMAIN h = 1..Len(h)
        /\ Len(w) \in Nat \ {0} /\ w \in [1..Len(w) -> 1..Len(h)]
        /\ ToSet(w) = {w[j] : j \in 1..Len(w)}
    BY ChainType
  <1>2. Len(g) \in Nat /\ DOMAIN g = 1..Len(g)
    OBVIOUS
  <1>3. w \in Seq(DOMAIN g)
    <2>1. w \in Seq(DOMAIN h) /\ DOMAIN h \subseteq DOMAIN g
      BY <1>1, <1>2 DEF Chain
    <2> QED BY <2>1, SeqMonotonic
  <1>4. \A j \in 1..Len(w) : /\ g[w[j]].d = h[w[j]].d
                             /\ g[w[j]].next = h[w[j]].next /\ g[w[j]].back = h[w[j]].back
    BY <1>1
  <1>5. 1 \in 1..Len(w) /\ Len(w) \in 1..Len(w)
    BY <1>1
  <1>6. \A j \in 1..Len(w)-1 : j \in 1..Len(w) /\ j+1 \in 1..Len(w)
    BY <1>1
  <1> QED BY <1>3, <1>4, <1>5, <1>6 DEF Chain

(* g and list are h and its list w with e in some place.                   *)
Placed(h, g, list, w, e) ==
  \E p \in 1..Len(w)+1 :
     /\ Spliced(h, g, w, p, e)
     /\ Chain(g, list, With(w, p, e)) /\ ToSet(With(w, p, e)) = ToSet(w) \cup {e}

(* The loop stops where a new date belongs.                                *)
LEMMA ProperPosition ==
  ASSUME NEW h \in Seq(Node), NEW de \in DateLists, NEW w, Chain(h, de, w),
         NEW e \in DOMAIN h, e \notin ToSet(w),
         NEW d \in Dates, h[e].d = d, \A j \in 1..Len(w) : h[w[j]].d # d,
         NEW r, r = AddElementToProperPosition(h, de, d, e)
  PROVE  /\ r.list \in DateLists /\ r.list.type = de.type
         /\ Placed(h, r.heap, r.list, w, e)
  <1> DEFINE N == Len(w)
             S == {j \in DOMAIN w : j = N \/ CompareDates(h[w[j]].d, d) # SMALLER}
             m == Min(S)
             before == CompareDates(h[w[m]].d, d) # SMALLER
             linked == IF before THEN AddDateEstateBack(h, w[m], e)
                       ELSE AddDateEstateFront(h, w[m], e)
             behind == linked[de.front].back
             list == [de EXCEPT !.front = IF behind # Null THEN behind ELSE @,
                                !.rear = IF before THEN @ ELSE e,
                                !.size = @ + 1]
             p == IF before THEN m ELSE N + 1
  <1>1. /\ Len(h) \in Nat /\ DOMAIN h = 1..Len(h)
        /\ N \in Nat \ {0} /\ DOMAIN w = 1..N /\ w \in [1..N -> 1..Len(h)]
        /\ \A j \in 1..N : h[w[j]].d \in Dates
    BY ChainType
  <1>2. r = [heap |-> linked, list |-> list]
    <2>1. Forward(h, de.front) = w
      BY ChainForward
    <2>2. StopAt(h, de.front, d) = w[m]
      BY <2>1 DEF StopAt
    <2> HIDE DEF m
    <2> QED BY <2>2 DEF AddElementToProperPosition
  <1>3. m \in S /\ \A j \in S : m <= j
    <2>1. S \subseteq Nat /\ N \in S
      BY <1>1
    <2> HIDE DEF S
    <2> QED BY <2>1, MinInSet
  <1> HIDE DEF m
  <1>4. m \in 1..N /\ (m = N \/ before)
    BY <1>1, <1>3
  <1>m. N \in Int /\ N >= 1 /\ m \in Int /\ 1 <= m /\ m <= N
    <2>1. N \in Nat \ {0} /\ m \in 1..N
      BY <1>1, <1>4
    <2> HIDE DEF S, before
    <2> QED BY <2>1
  <1>5. ASSUME NEW j \in 1..N, j < m PROVE Before(h[w[j]].d, d)
    <2>1. j \notin S
      <3>1. j \in Int /\ ~(m <= j)
        BY <1>m, <1>5
      <3> HIDE DEF S
      <3> QED BY <1>3, <3>1
    <2>2. CompareDates(h[w[j]].d, d) = SMALLER
      BY <1>1, <2>1
    <2> QED BY <1>1, <2>2, Calendar
  <1>6. before => \A j \in 1..N : j >= m => Before(d, h[w[j]].d)
    <2>1. SUFFICES ASSUME before, NEW j \in 1..N, j >= m PROVE Before(d, h[w[j]].d)
      OBVIOUS
    <2>2. Before(d, h[w[m]].d)
      <3>1. h[w[m]].d \in Dates /\ h[w[m]].d # d
        BY <1>1, <1>4
      <3>2. CompareDates(h[w[m]].d, d) # SMALLER
        BY <2>1
      <3> HIDE DEF before
      <3> QED BY <3>1, <3>2, Calendar
    <2>3. j # m => Before(h[w[m]].d, h[w[j]].d)
      <3>1. j # m => m < j
        BY <1>m, <2>1
      <3> QED BY <1>4, <3>1 DEF Chain
    <2> QED BY <1>1, <1>4, <2>2, <2>3, BeforeTransitive
  <1>7. ~before => \A j \in 1..N : Before(h[w[j]].d, d)
    <2>1. SUFFICES ASSUME ~before, NEW j \in 1..N PROVE Before(h[w[j]].d, d)
      OBVIOUS
    <2>2. m = N
      BY <1>4, <2>1
    <2>3. CASE j = N
      BY <1>1, <2>1, <2>2, <2>3, Calendar
    <2>4. CASE j # N
      <3>1. j < m
        BY <1>m, <2>2, <2>4
      <3> QED BY <1>5, <3>1
    <2> QED BY <2>3, <2>4
  <1> HIDE DEF before, S
  <1>8. p \in 1..N+1 /\ (p = N+1 <=> ~before) /\ p \in Int
    BY <1>m
  <1>9. Spliced(h, linked, w, p, e)
    <2>1. CASE before
      BY <1>4, <2>1, BackSplices
    <2>2. CASE ~before
      <3>1. w[m] = w[N]
        BY <1>4, <2>2
      <3>2. linked = AddDateEstateFront(h, w[N], e) /\ p = N+1
        BY <2>2, <3>1
      <3> HIDE DEF linked, p
      <3> QED BY <3>2, FrontSplices
    <2> QED BY <2>1, <2>2
  <1>10. ASSUME NEW j \in 1..N
         PROVE  IF j < p THEN Before(h[w[j]].d, h[e].d) ELSE Before(h[e].d, h[w[j]].d)
    <2>1. CASE before
      <3>1. p = m /\ (j < m \/ j >= m)
        BY <1>4, <2>1
      <3> HIDE DEF p
      <3> QED BY <1>5, <1>6, <2>1, <3>1
    <2>2. CASE ~before
      <3>1. j < p
        BY <1>1, <2>2
      <3> QED BY <1>7, <2>2, <3>1
    <2> QED BY <2>1, <2>2
  <1> HIDE DEF linked, p
  <1>11. behind = IF p = 1 THEN e ELSE Null
    <2>1. de.front = w[1] /\ h[w[1]].back = Null
      BY DEF Chain
    <2>2. 1 \in 1..N
      BY <1>1
    <2> QED BY <1>9, <2>1, <2>2 DEF Spliced
  <1>12. e # Null /\ e \in Nat
    BY <1>1 DEF Null
  <1> HIDE DEF behind
  <1>13. /\ list.front = IF p = 1 THEN e ELSE de.front
         /\ list.rear = IF p = N+1 THEN e ELSE de.rear
         /\ list.size = de.size + 1
         /\ list.type = de.type /\ list \in DateLists
    <2>1. de = [type |-> de.type, front |-> de.front, rear |-> de.rear, size |-> de.size]
      BY DEF DateLists
    <2>2. list = [type |-> de.type, front |-> IF p = 1 THEN e ELSE de.front,
                  rear |-> IF p = N+1 THEN e ELSE de.rear, size |-> de.size + 1]
      <3>1. list = [type |-> de.type, front |-> IF behind # Null THEN behind ELSE de.front,
                    rear |-> IF before THEN de.rear ELSE e, size |-> de.size + 1]
        <4> DEFINE F == IF behind # Null THEN behind ELSE de.front
                   R == IF before THEN de.rear ELSE e
                   Z == de.size + 1
        <4>1. list = [de EXCEPT !.front = F, !.rear = R, !.size = Z]
          OBVIOUS
        <4> HIDE DEF F, R, Z, list
        <4>2. list = [type |-> de.type, front |-> F, rear |-> R, size |-> Z]
          BY <2>1, <4>1
        <4> QED BY <4>2 DEF F, R, Z
      <3>2. (IF behind # Null THEN behind ELSE de.front) = IF p = 1 THEN e ELSE de.front
        BY <1>11, <1>12
      <3>3. (IF before THEN de.rear ELSE e) = IF p = N+1 THEN e ELSE de.rear
        BY <1>8
      <3> HIDE DEF list
      <3> QED BY <3>1, <3>2, <3>3
    <2> HIDE DEF list
    <2>3. list \in DateLists
      BY <1>12, <2>2 DEF DateLists
    <2> QED BY <2>2, <2>3
  <1> HIDE DEF list
  <1>14. Chain(linked, list, With(w, p, e)) /\ ToSet(With(w, p, e)) = ToSet(w) \cup {e}
    BY <1>8, <1>9, <1>10, <1>13, SplicedChain
  <1> QED BY <1>2, <1>8, <1>9, <1>13, <1>14 DEF Placed

ChainOrNone(h, de, w) ==
  Chain(h, de, w) \/ (w = <<>> /\ de.front = Null /\ de.rear = Null)

(* The list w has got the node e.                                          *)
Extended(g, list, w, e) == \E v : Chain(g, list, v) /\ ToSet(v) = ToSet(w) \cup {e}

(* A new date gets a node of its own, in its place in the list.            *)
LEMMA DateAdded ==
  ASSUME NEW h \in Seq(Node), NEW de \in DateLists, NEW w,
         ChainOrNone(h, de, w), NEW d \in Dates, \A j \in 1..Len(w) : h[w[j]].d # d,
         NEW estates \in Seq(Cities),
         NEW r, r = AddDateEstate(h, de, d, estates)
  PROVE  /\ r.list \in DateLists /\ r.list.type = de.type
         /\ r.heap \in Seq(Node) /\ Len(r.heap) = Len(h)+1
         /\ r.heap[Len(h)+1].d = d /\ r.heap[Len(h)+1].estates = estates
         /\ \A n \in DOMAIN h : r.heap[n].d = h[n].d /\ r.heap[n].estates = h[n].estates
         /\ \A n \in DOMAIN h \ ToSet(w) : r.heap[n] = h[n]
         /\ Extended(r.heap, r.list, w, Len(h)+1)
  <1> DEFINE e == Len(h) + 1
             new == [d |-> d, estates |-> estates, next |-> Null, back |-> Null]
             grown == Append(h, new)
  <1>1. Len(h) \in Nat /\ DOMAIN h = 1..Len(h) /\ e \in Nat
    OBVIOUS
  <1>2. new \in Node
    BY DEF Node, Null
  <1> HIDE DEF new
  <1>3. /\ grown \in Seq(Node) /\ Len(grown) = e /\ DOMAIN grown = 1..e
        /\ \A n \in DOMAIN h : grown[n] = h[n]
        /\ grown[e] = new
    BY <1>1, <1>2
  <1>4. r = IF de.rear = Null
            THEN [heap |-> grown, list |-> [de EXCEPT !.front = e, !.rear = e, !.size = 1]]
            ELSE AddElementToProperPosition(grown, de, d, e)
    BY DEF AddDateEstate, new
  <1>5. /\ new.d = d /\ new.estates = estates /\ new.next = Null /\ new.back = Null
    BY DEF new
  <1>6. e \in DOMAIN grown /\ e \notin DOMAIN h /\ DOMAIN h \subseteq DOMAIN grown
    BY <1>1, <1>3
  <1> HIDE DEF grown, e
  <1>7. CASE w = <<>> /\ de.front = Null /\ de.rear = Null
    <2> DEFINE list == [de EXCEPT !.front = e, !.rear = e, !.size = 1]
    <2>1. r.heap = grown /\ r.list = list
      BY <1>4, <1>7
    <2>2. /\ list.front = e /\ list.rear = e /\ list.size = 1
          /\ list.type = de.type /\ list \in DateLists
      BY <1>1 DEF DateLists
    <2> HIDE DEF list
    <2>3. Chain(grown, list, <<e>>)
      <3>1. <<e>> \in Seq(DOMAIN grown) /\ <<e>> # <<>> /\ Len(<<e>>) = 1 /\ <<e>>[1] = e
        BY <1>6
      <3>2. /\ \A j \in 1..1-1 : FALSE
            /\ \A i, j \in 1..1 : ~(i < j)
        OBVIOUS
      <3> QED BY <1>3, <1>5, <2>2, <3>1, <3>2 DEF Chain
    <2>4. ToSet(<<e>>) = ToSet(w) \cup {e}
      BY <1>7 DEF ToSet
    <2> QED BY <1>3, <1>5, <2>1, <2>2, <2>3, <2>4 DEF Extended, e
  <1>8. CASE Chain(h, de, w)
    <2>1. /\ ToSet(w) \subseteq DOMAIN h /\ de.rear # Null
          /\ DOMAIN w = 1..Len(w) /\ \A j \in 1..Len(w) : w[j] \in DOMAIN h
      <3>1. /\ Len(w) \in Nat \ {0} /\ w \in [1..Len(w) -> 1..Len(h)] /\ DOMAIN w = 1..Len(w)
            /\ ToSet(w) = {w[j] : j \in 1..Len(w)}
        BY <1>8, ChainType
      <3>2. de.rear = w[Len(w)] /\ Len(w) \in 1..Len(w)
        BY <1>8, <3>1 DEF Chain
      <3>3. \A j \in 1..Len(w) : w[j] \in DOMAIN h
        BY <1>1, <3>1
      <3>4. de.rear \in DOMAIN h
        BY <3>2, <3>3
      <3>5. ToSet(w) \subseteq DOMAIN h
        BY <3>1, <3>3
      <3>6. de.rear # Null
        BY <1>1, <3>4 DEF Null
      <3> QED BY <3>1, <3>3, <3>5, <3>6
    <2>2. Chain(grown, de, w)
      <3>1. Len(h) <= Len(grown)
        BY <1>1, <1>3 DEF e
      <3>2. \A n \in ToSet(w) : grown[n] = h[n]
        BY <1>3, <2>1
      <3> QED BY <1>3, <1>8, <3>1, <3>2, ChainElsewhere
    <2>3. r = AddElementToProperPosition(grown, de, d, e)
      BY <1>4, <2>1
    <2>4. e \notin ToSet(w) /\ grown[e].d = d /\ \A j \in 1..Len(w) : grown[w[j]].d # d
      BY <1>3, <1>5, <1>6, <2>1
    <2>5. /\ r.list \in DateLists /\ r.list.type = de.type
          /\ Placed(grown, r.heap, r.list, w, e)
      <3>1. grown \in Seq(Node) /\ e \in DOMAIN grown
        BY <1>3, <1>6
      <3> QED BY ONLY de \in DateLists, d \in Dates, <2>2, <2>3, <2>4, <3>1,
                      ProperPosition
    <2>6. PICK p \in 1..Len(w)+1 :
               /\ Spliced(grown, r.heap, w, p, e)
               /\ Chain(r.heap, r.list, With(w, p, e))
               /\ ToSet(With(w, p, e)) = ToSet(w) \cup {e}
      BY <2>5 DEF Placed
    <2>7. /\ r.heap \in Seq(Node) /\ Len(r.heap) = Len(grown)
          /\ \A n \in DOMAIN grown : r.heap[n].d = grown[n].d /\ r.heap[n].estates = grown[n].estates
          /\ \A n \in DOMAIN grown \ (ToSet(w) \cup {e}) : r.heap[n] = grown[n]
      BY <2>6 DEF Spliced
    <2>8. \A n \in DOMAIN h : r.heap[n].d = h[n].d /\ r.heap[n].estates = h[n].estates
      BY <1>3, <1>6, <2>7
    <2>9. \A n \in DOMAIN h \ ToSet(w) : r.heap[n] = h[n]
      BY <1>3, <1>6, <2>7
    <2>10. r.heap[e].d = d /\ r.heap[e].estates = estates
      BY <1>3, <1>5, <1>6, <2>7
    <2> QED BY <1>3, <2>5, <2>6, <2>7, <2>8, <2>9, <2>10 DEF Extended, e
  <1> QED BY <1>7, <1>8 DEF ChainOrNone

LEMMA DateFound ==
  ASSUME NEW h \in Seq(Node), NEW front, NEW w \in Seq(DOMAIN h), Forward(h, front) = w,
         NEW d \in Dates, NEW f, f = FindDate(h, front, d)
  PROVE  \/ f = Null /\ \A j \in 1..Len(w) : h[w[j]].d # d
         \/ f # Null /\ f \in ToSet(w) /\ h[f].d = d
  <1> DEFINE S == {j \in DOMAIN w : CompareDates(h[w[j]].d, d) = EQUAL}
  <1>1. f = IF S = {} THEN Null ELSE w[Min(S)]
    BY DEF FindDate
  <1>2. DOMAIN w = 1..Len(w) /\ Len(w) \in Nat /\ DOMAIN h = 1..Len(h) /\ Len(h) \in Nat
    OBVIOUS
  <1>3. \A j \in 1..Len(w) : w[j] \in DOMAIN h /\ h[w[j]].d \in Dates
    <2>1. ASSUME NEW n \in DOMAIN h PROVE h[n].d \in Dates
      <3>1. h[n] \in Node
        OBVIOUS
      <3> QED BY <3>1 DEF Node
    <2> QED BY <1>2, <2>1
  <1>4. \A j \in 1..Len(w) : j \in S <=> h[w[j]].d = d
    BY <1>2, <1>3, Calendar
  <1>5. CASE S = {}
    BY <1>1, <1>4, <1>5
  <1>6. CASE S # {}
    <2>1. S \subseteq Nat
      BY <1>2
    <2> DEFINE m == Min(S)
    <2>2. m \in S
      <3> HIDE DEF S
      <3> QED BY <1>6, <2>1, MinInSet
    <2>3. f = w[m]
      BY <1>1, <1>6
    <2> HIDE DEF m
    <2>4. m \in 1..Len(w) /\ h[w[m]].d = d
      BY <1>2, <1>4, <2>2
    <2>5. w[m] \in ToSet(w) /\ w[m] # Null
      BY <1>2, <1>3, <2>4 DEF ToSet, Null
    <2> QED BY <2>3, <2>4, <2>5
  <1> QED BY <1>5, <1>6

-----------------------------------------------------------------------------
(* Counting.                                                               *)

LEMMA EstatesCounted ==
  ASSUME NEW estates \in Seq(Cities), NEW city \in Cities, NEW q \in Cities \cup {NoCity}
  PROVE  /\ EstateCount(estates, q) \in Nat
         /\ EstateCount(<<>>, q) = 0
         /\ EstateCount(Append(estates, city), q) =
              EstateCount(estates, q) + (IF q \in {NoCity, city} THEN 1 ELSE 0)
  <1> DEFINE N == Len(estates)
             more == Append(estates, city)
             S == {j \in DOMAIN estates : estates[j] = q}
             T == {j \in DOMAIN more : more[j] = q}
  <1>1. N \in Nat /\ DOMAIN estates = 1..N /\ Len(more) = N+1 /\ DOMAIN more = 1..N+1
    OBVIOUS
  <1>2. more[N+1] = city /\ \A j \in 1..N : more[j] = estates[j]
    OBVIOUS
  <1>3. NoCity \notin Cities
    BY IndexAssumption
  <1>4. CASE q = NoCity
    BY <1>1, <1>4 DEF EstateCount
  <1>5. CASE q # NoCity
    <2> HIDE DEF more
    <2>1. S \subseteq 1..N /\ IsFiniteSet(S) /\ Cardinality(S) \in Nat
      <3>1. S \subseteq 1..N /\ IsFiniteSet(1..N)
        BY <1>1, IntervalSize
      <3> HIDE DEF S
      <3> QED BY <3>1, FS_Subset, FS_CardinalityType
    <2>2. T = S \cup (IF q = city THEN {N+1} ELSE {})
      BY <1>1, <1>2
    <2>3. N+1 \notin S
      BY <1>1
    <2>4. EstateCount(estates, q) = Cardinality(S) /\ EstateCount(more, q) = Cardinality(T)
      BY <1>5 DEF EstateCount
    <2>5. EstateCount(<<>>, q) = 0
      <3>1. {j \in DOMAIN <<>> : <<>>[j] = q} = {}
        OBVIOUS
      <3> QED BY <1>5, <3>1, FS_EmptySet DEF EstateCount
    <2> HIDE DEF S, T
    <2>6. Cardinality(T) = Cardinality(S) + (IF q = city THEN 1 ELSE 0)
      <3>1. CASE q = city
        BY <2>1, <2>2, <2>3, <3>1, FS_AddElement
      <3>2. CASE q # city
        <4>1. T = S
          BY <2>2, <3>2
        <4> QED BY <2>1, <3>2, <4>1
      <3> QED BY <3>1, <3>2
    <2> QED BY <1>5, <2>1, <2>4, <2>5, <2>6 DEF more
  <1> QED BY <1>4, <1>5

LEMMA MatchingGrows ==
  ASSUME NEW l \in Seq(Transaction), NEW t \in Transaction,
         NEW type, NEW d, NEW q
  PROVE  /\ IsFiniteSet(Matching(l, type, d, q)) /\ Cardinality(Matching(l, type, d, q)) \in Nat
         /\ Cardinality(Matching(Append(l, t), type, d, q)) =
              Cardinality(Matching(l, type, d, q))
              + (IF t.type = type /\ t.d = d /\ q \in {NoCity, t.city} THEN 1 ELSE 0)
  <1> DEFINE N == Len(l)
             more == Append(l, t)
             S == Matching(l, type, d, q)
             T == Matching(more, type, d, q)
             New == t.type = type /\ t.d = d /\ q \in {NoCity, t.city}
  <1>1. N \in Nat /\ DOMAIN l = 1..N /\ DOMAIN more = 1..N+1
    OBVIOUS
  <1>2. more[N+1] = t /\ \A j \in 1..N : more[j] = l[j]
    OBVIOUS
  <1> HIDE DEF more
  <1>3. S \subseteq 1..N /\ N+1 \notin S
    BY <1>1 DEF Matching
  <1>4. T = S \cup (IF New THEN {N+1} ELSE {})
    <2>1. ASSUME NEW j \in 1..N PROVE j \in T <=> j \in S
      BY <1>1, <1>2 DEF Matching
    <2>2. N+1 \in T <=> New
      BY <1>1, <1>2 DEF Matching
    <2>3. T \subseteq 1..N+1
      BY <1>1 DEF Matching
    <2>4. \A j \in 1..N+1 : j \in 1..N \/ j = N+1
      BY <1>1
    <2> HIDE DEF T, S, New
    <2> QED BY <1>3, <2>1, <2>2, <2>3, <2>4
  <1>5. IsFiniteSet(S) /\ Cardinality(S) \in Nat
    <2> HIDE DEF S
    <2> QED BY <1>1, <1>3, IntervalSize, FS_Subset, FS_CardinalityType
  <1>6. Cardinality(T) = Cardinality(S) + (IF New THEN 1 ELSE 0)
    <2> HIDE DEF S, T, New
    <2>1. CASE New
      BY <1>3, <1>4, <1>5, <2>1, FS_AddElement
    <2>2. CASE ~New
      <3>1. T = S
        BY <1>4, <2>2
      <3> QED BY <1>5, <2>2, <3>1
    <2> QED BY <2>1, <2>2
  <1> QED BY <1>5, <1>6 DEF more

-----------------------------------------------------------------------------
(* A step that loads a transaction.                                        *)

(* It has a node already, n, in the k-th list.                             *)
EstateAdded(k, n, type, d, city) ==
  /\ k \in DOMAIN dataset /\ dataset[k].type = type
  /\ n \in ToSet(DateList(k)) /\ nodes[n].d = d
  /\ nodes' = [nodes EXCEPT ![n].estates = Append(@, city)] /\ dataset' = dataset

(* It gets one, in the K-th list, which was w and is v.                    *)
NodeAdded(K, w, v, type, d, city) ==
  /\ IF K \in DOMAIN dataset THEN dataset[K].type = type /\ w = DateList(K)
     ELSE /\ K = Len(dataset) + 1 /\ w = <<>>
          /\ \A k \in DOMAIN dataset : dataset[k].type # type
  /\ dataset' \in Seq(DateLists) /\ DOMAIN dataset' = DOMAIN dataset \cup {K}
  /\ dataset'[K].type = type /\ \A k \in DOMAIN dataset \ {K} : dataset'[k] = dataset[k]
  /\ nodes' \in Seq(Node) /\ Len(nodes') = Len(nodes) + 1
  /\ Chain(nodes', dataset'[K], v) /\ ToSet(v) = ToSet(w) \cup {Len(nodes) + 1}
  /\ \A n \in DOMAIN nodes : nodes'[n].d = nodes[n].d /\ nodes'[n].estates = nodes[n].estates
  /\ \A n \in DOMAIN nodes \ ToSet(w) : nodes'[n] = nodes[n]
  /\ nodes'[Len(nodes) + 1].d = d /\ nodes'[Len(nodes) + 1].estates = <<city>>
  /\ \A n \in ToSet(w) : nodes[n].d # d

LEMMA InvType ==
  ASSUME IInv
  PROVE  /\ Len(dataset) \in Nat /\ DOMAIN dataset = 1..Len(dataset)
         /\ Len(nodes) \in Nat /\ DOMAIN nodes = 1..Len(nodes)
         /\ \A k \in DOMAIN dataset :
               /\ dataset[k] \in DateLists /\ ToSet(DateList(k)) \subseteq DOMAIN nodes
               /\ DateList(k) \in Seq(DOMAIN nodes)
         /\ \A n \in DOMAIN nodes : nodes[n] \in Node
  <1> USE DEF IInv, Typed
  <1>1. /\ Len(dataset) \in Nat /\ DOMAIN dataset = 1..Len(dataset)
        /\ Len(nodes) \in Nat /\ DOMAIN nodes = 1..Len(nodes)
    OBVIOUS
  <1>2. ASSUME NEW k \in DOMAIN dataset PROVE dataset[k] \in DateLists
    OBVIOUS
  <1>3. ASSUME NEW n \in DOMAIN nodes PROVE nodes[n] \in Node
    OBVIOUS
  <1>4. ASSUME NEW k \in DOMAIN dataset
        PROVE  DateList(k) \in Seq(DOMAIN nodes) /\ ToSet(DateList(k)) \subseteq DOMAIN nodes
    <2>1. Chain(nodes, dataset[k], DateList(k)) /\ nodes \in Seq(Node)
      BY DEF Linked
    <2> DEFINE w == DateList(k)
    <2> HIDE DEF w
    <2>2. Chain(nodes, dataset[k], w)
      BY <2>1 DEF w
    <2>3. w \in Seq(DOMAIN nodes)
      BY <2>2 DEF Chain
    <2>4. ToSet(w) \subseteq DOMAIN nodes
      BY <2>3 DEF ToSet
    <2> QED BY <2>3, <2>4 DEF w
  <1> QED BY <1>1, <1>2, <1>3, <1>4

LEMMA AddCases ==
  ASSUME IInv, NEW type \in Types, NEW d \in Dates, NEW city \in Cities,
         AddEstateToTypeLL(type, d, city)
  PROVE  /\ loaded' = Append(loaded, [type |-> type, d |-> d, city |-> city])
         /\ freed = {} /\ freed' = {}
         /\ \/ \E k, n : EstateAdded(k, n, type, d, city)
            \/ \E K, w, v : NodeAdded(K, w, v, type, d, city)
  <1> DEFINE known == {k \in DOMAIN dataset : dataset[k].type = type}
             K == IF known # {} THEN CHOOSE k \in known : TRUE ELSE Len(dataset) + 1
             empty == [type |-> type, front |-> Null, rear |-> Null, size |-> 0]
             de == IF known # {} THEN dataset[K] ELSE empty
             w == IF known # {} THEN DateList(K) ELSE <<>>
             found == FindDate(nodes, de.front, d)
             r == AddDateEstate(nodes, de, d, <<city>>)
             added == IF found # Null
                      THEN [heap |-> [nodes EXCEPT ![found].estates = Append(@, city)], list |-> de]
                      ELSE r
  <1>1. /\ loaded' = Append(loaded, [type |-> type, d |-> d, city |-> city])
        /\ freed = {} /\ freed' = {}
        /\ nodes' = added.heap
        /\ dataset' = IF known # {} THEN [dataset EXCEPT ![K] = added.list]
                      ELSE Append(dataset, added.list)
    BY DEF AddEstateToTypeLL, AddEstate, AddEstateToDatedLL
  <1>2. known # {} => K \in known
    OBVIOUS
  <1>3. nodes \in Seq(Node) /\ dataset \in Seq(DateLists)
    BY DEF IInv, Typed
  <1>4. known = {} => K = Len(dataset) + 1 /\ K \notin DOMAIN dataset
    BY InvType
  <1>5. de \in DateLists /\ de.type = type
    <2>1. CASE known # {}
      BY <1>2, <2>1, InvType
    <2>2. CASE known = {}
      BY <2>2 DEF DateLists, Null
    <2> QED BY <2>1, <2>2
  <1>6. /\ Forward(nodes, de.front) = w /\ w \in Seq(DOMAIN nodes)
        /\ \/ Chain(nodes, de, w)
           \/ w = <<>> /\ de.front = Null /\ de.rear = Null
    <2>1. CASE known # {}
      <3>1. K \in DOMAIN dataset /\ de = dataset[K] /\ w = DateList(K)
        BY <1>2, <2>1
      <3> HIDE DEF K, de, w
      <3>2. Chain(nodes, de, w)
        BY <3>1 DEF IInv, Linked
      <3>3. Forward(nodes, de.front) = w
        BY <3>1 DEF DateList
      <3> QED BY <3>1, <3>2, <3>3, InvType
    <2>2. CASE known = {}
      <3>1. w = <<>> /\ de.front = Null /\ de.rear = Null
        BY <2>2
      <3> HIDE DEF w, de
      <3> QED BY <1>3, <3>1, NoPath
    <2> QED BY <2>1, <2>2
  <1>7. ToSet(w) \subseteq DOMAIN nodes /\ ToSet(w) = {w[j] : j \in 1..Len(w)}
    <2> HIDE DEF w
    <2> QED BY <1>6 DEF ToSet
  <1> HIDE DEF de, w, found, r
  <1>8. \/ found = Null /\ \A j \in 1..Len(w) : nodes[w[j]].d # d
        \/ found # Null /\ found \in ToSet(w) /\ nodes[found].d = d
    BY <1>3, <1>6, DateFound DEF found
  <1>9. CASE found # Null
    <2>1. w # <<>>
      BY <1>8, <1>9 DEF ToSet
    <2>2. known # {}
      BY <2>1 DEF w
    <2>3. K \in DOMAIN dataset /\ dataset[K].type = type /\ w = DateList(K) /\ de = dataset[K]
      BY <1>2, <2>2 DEF w, de
    <2> HIDE DEF K, known
    <2>4. nodes' = [nodes EXCEPT ![found].estates = Append(@, city)]
      BY <1>1, <1>9
    <2>5. dataset' = [dataset EXCEPT ![K] = dataset[K]]
      BY <1>1, <1>9, <2>2, <2>3
    <2>6. dataset' = dataset
      BY <1>3, <2>3, <2>5
    <2>7. EstateAdded(K, found, type, d, city)
      BY <1>8, <1>9, <2>3, <2>4, <2>6 DEF EstateAdded
    <2> QED BY <1>1, <2>7
  <1>10. CASE found = Null
    <2>1. nodes' = r.heap
          /\ dataset' = IF known # {} THEN [dataset EXCEPT ![K] = r.list]
                        ELSE Append(dataset, r.list)
      BY <1>1, <1>10
    <2>2. <<city>> \in Seq(Cities) /\ \A j \in 1..Len(w) : nodes[w[j]].d # d
      BY <1>8, <1>10
    <2>3. /\ r.list \in DateLists /\ r.list.type = de.type
          /\ r.heap \in Seq(Node) /\ Len(r.heap) = Len(nodes)+1
          /\ r.heap[Len(nodes)+1].d = d /\ r.heap[Len(nodes)+1].estates = <<city>>
          /\ \A n \in DOMAIN nodes : r.heap[n].d = nodes[n].d /\ r.heap[n].estates = nodes[n].estates
          /\ \A n \in DOMAIN nodes \ ToSet(w) : r.heap[n] = nodes[n]
          /\ Extended(r.heap, r.list, w, Len(nodes)+1)
      <3>1. r = AddDateEstate(nodes, de, d, <<city>>)
        BY DEF r
      <3>2. ChainOrNone(nodes, de, w)
        BY <1>6 DEF ChainOrNone
      <3>3. nodes \in Seq(Node) /\ de \in DateLists /\ <<city>> \in Seq(Cities)
        BY <1>3, <1>5, <2>2
      <3>4. \A j \in 1..Len(w) : nodes[w[j]].d # d
        BY <2>2
      <3> DEFINE estates == <<city>>
      <3>5. estates \in Seq(Cities) /\ r = AddDateEstate(nodes, de, d, estates)
        BY <3>1, <3>3
      <3> HIDE DEF estates
      <3>6. /\ r.list \in DateLists /\ r.list.type = de.type
            /\ r.heap \in Seq(Node) /\ Len(r.heap) = Len(nodes)+1
            /\ r.heap[Len(nodes)+1].d = d /\ r.heap[Len(nodes)+1].estates = estates
            /\ \A n \in DOMAIN nodes : r.heap[n].d = nodes[n].d /\ r.heap[n].estates = nodes[n].estates
            /\ \A n \in DOMAIN nodes \ ToSet(w) : r.heap[n] = nodes[n]
            /\ Extended(r.heap, r.list, w, Len(nodes)+1)
        BY ONLY d \in Dates, <3>2, <3>3, <3>4, <3>5, DateAdded
      <3> QED BY <3>6 DEF estates
    <2>4. PICK v : Chain(r.heap, r.list, v) /\ ToSet(v) = ToSet(w) \cup {Len(nodes)+1}
      BY <2>3 DEF Extended
    <2>5. /\ dataset' \in Seq(DateLists) /\ DOMAIN dataset' = DOMAIN dataset \cup {K}
          /\ dataset'[K] = r.list /\ \A k \in DOMAIN dataset \ {K} : dataset'[k] = dataset[k]
      <3>1. CASE known # {}
        <4>1. K \in DOMAIN dataset /\ dataset' = [dataset EXCEPT ![K] = r.list]
          BY <1>2, <2>1, <3>1
        <4> HIDE DEF K, known
        <4> QED BY <1>3, <2>3, <4>1, ExceptSeq, InvType
      <3>2. CASE known = {}
        <4>1. K = Len(dataset) + 1 /\ dataset' = Append(dataset, r.list)
          BY <1>4, <2>1, <3>2
        <4> HIDE DEF K, known
        <4> QED BY <1>3, <2>3, <4>1
      <3> QED BY <3>1, <3>2
    <2>6. IF K \in DOMAIN dataset THEN dataset[K].type = type /\ w = DateList(K)
          ELSE /\ K = Len(dataset) + 1 /\ w = <<>>
               /\ \A k \in DOMAIN dataset : dataset[k].type # type
      BY <1>2, <1>4 DEF w
    <2>7. \A n \in ToSet(w) : nodes[n].d # d
      BY <1>7, <2>2
    <2> HIDE DEF K, known
    <2>8. NodeAdded(K, w, v, type, d, city)
      BY <1>5, <2>1, <2>3, <2>4, <2>5, <2>6, <2>7 DEF NodeAdded
    <2> QED BY <1>1, <2>8
  <1> QED BY <1>9, <1>10

LEMMA OneList ==
  ASSUME IInv, NEW k \in DOMAIN dataset, NEW l \in DOMAIN dataset, NEW n
  PROVE  /\ dataset[k].type = dataset[l].type => k = l
         /\ n \in ToSet(DateList(k)) /\ n \in ToSet(DateList(l)) => k = l
  BY DEF IInv, Apart

(* Two nodes of a list have different dates.                               *)
LEMMA OneNode ==
  ASSUME IInv, NEW k \in DOMAIN dataset,
         NEW m \in ToSet(DateList(k)), NEW n \in ToSet(DateList(k)), nodes[m].d = nodes[n].d
  PROVE  m = n
  <1> DEFINE w == DateList(k)
  <1>1. nodes \in Seq(Node) /\ Chain(nodes, dataset[k], w)
    BY DEF IInv, Typed, Linked
  <1> HIDE DEF w
  <1>2. ToSet(w) = {w[j] : j \in 1..Len(w)}
    BY <1>1, ChainType
  <1>3. PICK i \in 1..Len(w), j \in 1..Len(w) : w[i] = m /\ w[j] = n
    BY <1>2 DEF w
  <1>4. i = j
    BY <1>1, <1>3, ChainOnce
  <1> QED BY <1>3, <1>4

LEMMA LoadedGrows ==
  ASSUME IInv, NEW type \in Types, NEW d \in Dates, NEW city \in Cities,
         loaded' = Append(loaded, [type |-> type, d |-> d, city |-> city])
  PROVE  /\ loaded' \in Seq(Transaction) /\ Len(loaded) \in Nat /\ Len(loaded') = Len(loaded) + 1
         /\ DOMAIN loaded = 1..Len(loaded) /\ DOMAIN loaded' = 1..Len(loaded)+1
         /\ \A j \in DOMAIN loaded : loaded'[j] = loaded[j] /\ loaded[j] \in Transaction
         /\ loaded'[Len(loaded)+1].type = type /\ loaded'[Len(loaded)+1].d = d
         /\ \A t, b, q :
              /\ Cardinality(Matching(loaded, t, b, q)) \in Nat
              /\ Cardinality(Matching(loaded', t, b, q)) =
                   Cardinality(Matching(loaded, t, b, q))
                   + (IF type = t /\ d = b /\ q \in {NoCity, city} THEN 1 ELSE 0)
  <1> DEFINE new == [type |-> type, d |-> d, city |-> city]
  <1>1. new \in Transaction /\ new.type = type /\ new.d = d /\ new.city = city
    BY DEF Transaction
  <1>2. loaded \in Seq(Transaction) /\ loaded' = Append(loaded, new)
    BY DEF IInv, Typed
  <1> HIDE DEF new
  <1>3. ASSUME NEW t, NEW b, NEW q
        PROVE  /\ Cardinality(Matching(loaded, t, b, q)) \in Nat
               /\ Cardinality(Matching(loaded', t, b, q)) =
                    Cardinality(Matching(loaded, t, b, q))
                    + (IF type = t /\ d = b /\ q \in {NoCity, city} THEN 1 ELSE 0)
    BY <1>1, <1>2, MatchingGrows
  <1>4. /\ loaded' \in Seq(Transaction) /\ Len(loaded) \in Nat /\ Len(loaded') = Len(loaded) + 1
        /\ DOMAIN loaded = 1..Len(loaded) /\ DOMAIN loaded' = 1..Len(loaded)+1
    BY <1>1, <1>2
  <1>5. \A j \in DOMAIN loaded : loaded'[j] = loaded[j] /\ loaded[j] \in Transaction
    BY <1>1, <1>2
  <1>6. loaded'[Len(loaded)+1] = new
    BY <1>1, <1>2
  <1> QED BY <1>1, <1>3, <1>4, <1>5, <1>6

LEMMA EstateStep ==
  ASSUME IInv, NEW type \in Types, NEW d \in Dates, NEW city \in Cities,
         loaded' = Append(loaded, [type |-> type, d |-> d, city |-> city]), freed' = {},
         NEW K, NEW N, EstateAdded(K, N, type, d, city)
  PROVE  IInv'
  <1>1. /\ K \in DOMAIN dataset /\ dataset[K].type = type
        /\ N \in ToSet(DateList(K)) /\ nodes[N].d = d
        /\ nodes' = [nodes EXCEPT ![N].estates = Append(@, city)] /\ dataset' = dataset
    BY DEF EstateAdded
  <1>2. nodes \in Seq(Node) /\ N \in DOMAIN nodes /\ nodes[N] \in Node
        /\ nodes[N].estates \in Seq(Cities)
    BY <1>1, InvType DEF IInv, Typed, Node
  <1> DEFINE node == [nodes[N] EXCEPT !.estates = Append(@, city)]
  <1>3. /\ node \in Node /\ node.d = nodes[N].d /\ node.estates = Append(nodes[N].estates, city)
        /\ node.next = nodes[N].next /\ node.back = nodes[N].back
    <2> DEFINE x == nodes[N]
               more == Append(x.estates, city)
    <2>1. x \in Node /\ more \in Seq(Cities)
      BY <1>2
    <2>2. x = [d |-> x.d, estates |-> x.estates, next |-> x.next, back |-> x.back]
      BY <2>1 DEF Node
    <2>3. node = [x EXCEPT !.estates = more]
      OBVIOUS
    <2> HIDE DEF x, more, node
    <2>4. node = [d |-> x.d, estates |-> more, next |-> x.next, back |-> x.back]
      BY <2>2, <2>3
    <2>5. node \in Node
      BY <2>1, <2>4 DEF Node
    <2> QED BY <2>4, <2>5 DEF x, more
  <1>4. nodes' = [nodes EXCEPT ![N] = node]
    BY <1>1
  <1> HIDE DEF node
  <1>5. /\ nodes' \in Seq(Node) /\ Len(nodes') = Len(nodes) /\ DOMAIN nodes' = DOMAIN nodes
        /\ \A n \in DOMAIN nodes : nodes'[n] = IF n = N THEN node ELSE nodes[n]
    BY <1>2, <1>3, <1>4
  <1>6. \A n \in DOMAIN nodes :
          /\ nodes'[n].d = nodes[n].d
          /\ nodes'[n].next = nodes[n].next /\ nodes'[n].back = nodes[n].back
          /\ nodes'[n].estates = IF n = N THEN Append(nodes[n].estates, city) ELSE nodes[n].estates
    BY <1>3, <1>5
  <1>7. ASSUME NEW k \in DOMAIN dataset
        PROVE  Chain(nodes', dataset'[k], DateList(k)) /\ DateList(k)' = DateList(k)
    <2> DEFINE w == DateList(k)
    <2>1. Chain(nodes, dataset[k], w) /\ ToSet(w) \subseteq DOMAIN nodes
      BY InvType DEF IInv, Linked
    <2>2. DateList(k)' = Forward(nodes', dataset'[k].front)
      BY DEF DateList
    <2> HIDE DEF w
    <2>3. Len(nodes) <= Len(nodes')
      BY <1>5, InvType
    <2>4. Chain(nodes', dataset[k], w)
      BY <1>2, <1>5, <1>6, <2>1, <2>3, ChainElsewhere
    <2>5. Forward(nodes', dataset[k].front) = w
      BY <1>5, <2>4, ChainForward
    <2> QED BY <1>1, <2>2, <2>4, <2>5 DEF w
  <1>8. Typed'
    BY <1>1, <1>5, LoadedGrows DEF IInv, Typed
  <1>9. Linked'
    BY <1>1, <1>7 DEF Linked
  <1>10. Apart'
    BY <1>1, <1>5, <1>7 DEF IInv, Apart
  <1>11. Stored'
    <2>1. ASSUME NEW k \in DOMAIN dataset, NEW n \in ToSet(DateList(k)), NEW q \in Cities \cup {NoCity}
          PROVE  EstateCount(nodes'[n].estates, q) =
                   Cardinality(Matching(loaded', dataset[k].type, nodes[n].d, q))
      <3>1. n \in DOMAIN nodes /\ nodes[n].estates \in Seq(Cities)
        BY InvType DEF Node
      <3>2. EstateCount(nodes[n].estates, q) =
              Cardinality(Matching(loaded, dataset[k].type, nodes[n].d, q))
        BY DEF IInv, Stored
      <3>3. type = dataset[k].type /\ d = nodes[n].d <=> n = N
        <4>1. ASSUME type = dataset[k].type, d = nodes[n].d PROVE n = N
          <5>1. k = K
            BY <1>1, <4>1, OneList
          <5> QED BY <1>1, <4>1, <5>1, OneNode
        <4>2. ASSUME n = N PROVE type = dataset[k].type /\ d = nodes[n].d
          <5>1. k = K
            BY <1>1, <4>2, OneList
          <5> QED BY <1>1, <4>2, <5>1
        <4> QED BY <4>1, <4>2
      <3>4. Cardinality(Matching(loaded', dataset[k].type, nodes[n].d, q)) =
              Cardinality(Matching(loaded, dataset[k].type, nodes[n].d, q))
              + (IF n = N /\ q \in {NoCity, city} THEN 1 ELSE 0)
        BY <3>3, LoadedGrows
      <3>5. CASE n = N
        <4>1. nodes'[n].estates = Append(nodes[n].estates, city)
          BY <1>6, <3>1, <3>5
        <4> QED BY <3>1, <3>2, <3>4, <3>5, <4>1, EstatesCounted
      <3>6. CASE n # N
        <4>1. nodes'[n].estates = nodes[n].estates
          BY <1>6, <3>1, <3>6
        <4>2. EstateCount(nodes[n].estates, q) \in Nat
          BY <3>1, EstatesCounted
        <4> QED BY <3>2, <3>4, <3>6, <4>1, <4>2
      <3> QED BY <3>5, <3>6
    <2>2. ASSUME NEW j \in DOMAIN loaded'
          PROVE  \E k \in DOMAIN dataset :
                   /\ dataset[k].type = loaded'[j].type
                   /\ \E n \in ToSet(DateList(k)) : nodes[n].d = loaded'[j].d
      <3>1. CASE j \in DOMAIN loaded
        BY <3>1, LoadedGrows DEF IInv, Stored
      <3>2. CASE j = Len(loaded) + 1
        BY <1>1, <3>2, LoadedGrows
      <3>3. j \in DOMAIN loaded \/ j = Len(loaded) + 1
        BY LoadedGrows
      <3> QED BY <3>1, <3>2, <3>3
    <2>3. ASSUME NEW n \in DOMAIN nodes PROVE nodes'[n].estates # <<>>
      <3>1. nodes[n].estates # <<>>
        BY DEF IInv, Stored
      <3>2. Append(nodes[N].estates, city) # <<>>
        BY <1>2, AppendProperties
      <3> QED BY <1>6, <3>1, <3>2
    <2>4. Len(nodes') <= Len(loaded')
      BY <1>5, LoadedGrows, InvType DEF IInv, Stored
    <2>5. \A k \in DOMAIN dataset : ToSet(DateList(k)) \subseteq DOMAIN nodes
      BY InvType
    <2>6. /\ DOMAIN dataset' = DOMAIN dataset /\ DOMAIN nodes' = DOMAIN nodes
          /\ \A k \in DOMAIN dataset : dataset'[k] = dataset[k] /\ DateList(k)' = DateList(k)
          /\ \A n \in DOMAIN nodes : nodes'[n].d = nodes[n].d
      BY <1>1, <1>5, <1>6, <1>7
    <2>7. \A k \in DOMAIN dataset' : \A n \in ToSet(DateList(k)') : \A q \in Cities \cup {NoCity} :
            EstateCount(nodes'[n].estates, q) =
              Cardinality(Matching(loaded', dataset'[k].type, nodes'[n].d, q))
      <3>1. SUFFICES ASSUME NEW k \in DOMAIN dataset, NEW n \in ToSet(DateList(k)),
                            NEW q \in Cities \cup {NoCity}
                     PROVE  EstateCount(nodes'[n].estates, q) =
                              Cardinality(Matching(loaded', dataset'[k].type, nodes'[n].d, q))
        BY <2>6
      <3>2. dataset'[k].type = dataset[k].type /\ nodes'[n].d = nodes[n].d
        BY <2>5, <2>6
      <3> QED BY <2>1, <3>2
    <2>8. \A j \in DOMAIN loaded' : \E k \in DOMAIN dataset' :
            /\ dataset'[k].type = loaded'[j].type
            /\ \E n \in ToSet(DateList(k)') : nodes'[n].d = loaded'[j].d
      BY <2>2, <2>5, <2>6
    <2>9. \A n \in DOMAIN nodes' : nodes'[n].estates # <<>>
      BY <2>3, <2>6
    <2> QED BY <2>4, <2>7, <2>8, <2>9 DEF Stored
  <1>12. Released'
    BY DEF Released
  <1> QED BY <1>8, <1>9, <1>10, <1>11, <1>12 DEF IInv

LEMMA NodeStep ==
  ASSUME IInv, NEW type \in Types, NEW d \in Dates, NEW city \in Cities,
         loaded' = Append(loaded, [type |-> type, d |-> d, city |-> city]), freed' = {},
         NEW K, NEW w, NEW v, NodeAdded(K, w, v, type, d, city)
  PROVE  IInv'
  <1> DEFINE e == Len(nodes) + 1
  <1>1. /\ dataset' \in Seq(DateLists) /\ DOMAIN dataset' = DOMAIN dataset \cup {K}
        /\ dataset'[K].type = type /\ \A k \in DOMAIN dataset \ {K} : dataset'[k] = dataset[k]
        /\ nodes' \in Seq(Node) /\ Len(nodes') = e
        /\ Chain(nodes', dataset'[K], v) /\ ToSet(v) = ToSet(w) \cup {e}
        /\ \A n \in DOMAIN nodes : nodes'[n].d = nodes[n].d /\ nodes'[n].estates = nodes[n].estates
        /\ \A n \in DOMAIN nodes \ ToSet(w) : nodes'[n] = nodes[n]
        /\ nodes'[e].d = d /\ nodes'[e].estates = <<city>>
        /\ \A n \in ToSet(w) : nodes[n].d # d
    BY DEF NodeAdded
  <1>2. IF K \in DOMAIN dataset THEN dataset[K].type = type /\ w = DateList(K)
        ELSE w = <<>> /\ \A k \in DOMAIN dataset : dataset[k].type # type
    BY DEF NodeAdded
  <1>3. /\ e \in Nat /\ e \notin DOMAIN nodes /\ DOMAIN nodes' = DOMAIN nodes \cup {e}
        /\ Len(nodes) \in Nat /\ Len(nodes) <= Len(nodes')
    BY <1>1, InvType
  <1>4. ToSet(w) \subseteq DOMAIN nodes
    <2>1. CASE K \in DOMAIN dataset
      BY <1>2, <2>1, InvType
    <2>2. CASE K \notin DOMAIN dataset
      BY <1>2, <2>2 DEF ToSet
    <2> QED BY <2>1, <2>2
  <1> HIDE DEF e
  <1>5. ASSUME NEW k \in DOMAIN dataset
        PROVE  dataset[k].type = type <=> k = K
    BY <1>2, OneList
  <1>6. ASSUME NEW k \in DOMAIN dataset, k # K
        PROVE  ToSet(DateList(k)) \cap ToSet(w) = {}
    <2>1. CASE K \in DOMAIN dataset
      BY <1>2, <1>6, <2>1, OneList
    <2>2. CASE K \notin DOMAIN dataset
      BY <1>2, <2>2 DEF ToSet
    <2> QED BY <2>1, <2>2
  <1>7. ASSUME NEW k \in DOMAIN dataset, k # K
        PROVE  Chain(nodes', dataset'[k], DateList(k)) /\ DateList(k)' = DateList(k)
    <2> DEFINE u == DateList(k)
    <2>1. Chain(nodes, dataset[k], u) /\ ToSet(u) \subseteq DOMAIN nodes /\ nodes \in Seq(Node)
      BY InvType DEF IInv, Linked, Typed
    <2>2. ToSet(u) \cap ToSet(w) = {}
      BY <1>6, <1>7
    <2>3. DateList(k)' = Forward(nodes', dataset'[k].front) /\ dataset'[k] = dataset[k]
      BY <1>1, <1>7 DEF DateList
    <2> HIDE DEF u
    <2>4. \A n \in ToSet(u) : nodes'[n] = nodes[n]
      BY <1>1, <2>1, <2>2
    <2>5. Chain(nodes', dataset[k], u)
      BY <1>1, <1>3, <2>1, <2>4, ChainElsewhere
    <2>6. Forward(nodes', dataset[k].front) = u
      BY <1>1, <2>5, ChainForward
    <2> QED BY <2>3, <2>5, <2>6 DEF u
  <1>8. DateList(K)' = v
    <2>1. DateList(K)' = Forward(nodes', dataset'[K].front)
      BY DEF DateList
    <2> QED BY <1>1, <2>1, ChainForward
  <1>9. \A k \in DOMAIN dataset : ToSet(DateList(k)) \subseteq DOMAIN nodes
    BY InvType
  <1>10. K \in DOMAIN dataset => w = DateList(K)
    BY <1>2
  <1>11. Typed'
    BY <1>1, LoadedGrows DEF Typed
  <1>12. Linked'
    BY <1>1, <1>7, <1>8 DEF Linked
  <1>13. Apart'
    <2>1. ASSUME NEW k \in DOMAIN dataset', NEW l \in DOMAIN dataset',
                 dataset'[k].type = dataset'[l].type
          PROVE  k = l
      <3>1. \A m \in DOMAIN dataset \ {K} : dataset'[m].type = dataset[m].type
        BY <1>1
      <3>2. \A m \in DOMAIN dataset' : m # K => dataset'[m].type # type
        BY <1>1, <1>5, <3>1
      <3>3. CASE k = K \/ l = K
        BY <1>1, <2>1, <3>2, <3>3
      <3>4. CASE k # K /\ l # K
        BY <1>1, <2>1, <3>1, <3>4, OneList
      <3> QED BY <3>3, <3>4
    <2>2. ASSUME NEW k \in DOMAIN dataset', NEW l \in DOMAIN dataset', k # l
          PROVE  ToSet(DateList(k)') \cap ToSet(DateList(l)') = {}
      <3>1. CASE k = K
        <4>1. l \in DOMAIN dataset /\ l # K
          BY <1>1, <2>2, <3>1
        <4> QED BY <1>1, <1>3, <1>6, <1>7, <1>8, <1>9, <3>1, <4>1
      <3>2. CASE l = K
        <4>1. k \in DOMAIN dataset /\ k # K
          BY <1>1, <2>2, <3>2
        <4> QED BY <1>1, <1>3, <1>6, <1>7, <1>8, <1>9, <3>2, <4>1
      <3>3. CASE k # K /\ l # K
        <4>1. k \in DOMAIN dataset /\ l \in DOMAIN dataset
          BY <1>1, <3>3
        <4>2. ToSet(DateList(k)) \cap ToSet(DateList(l)) = {}
          BY <2>2, <4>1, OneList
        <4> QED BY <1>7, <3>3, <4>1, <4>2
      <3> QED BY <3>1, <3>2, <3>3
    <2>3. ASSUME NEW n \in DOMAIN nodes'
          PROVE  \E k \in DOMAIN dataset' : n \in ToSet(DateList(k)')
      <3>1. CASE n = e
        BY <1>1, <1>8, <3>1
      <3>2. CASE n \in DOMAIN nodes
        <4>1. PICK k \in DOMAIN dataset : n \in ToSet(DateList(k))
          BY <3>2 DEF IInv, Apart
        <4>2. CASE k = K
          BY <1>1, <1>8, <1>10, <4>1, <4>2
        <4>3. CASE k # K
          BY <1>1, <1>7, <4>1, <4>3
        <4> QED BY <4>2, <4>3
      <3> QED BY <1>3, <3>1, <3>2
    <2> QED BY <2>1, <2>2, <2>3 DEF Apart
  <1>14. Stored'
    <2>1. ASSUME NEW k \in DOMAIN dataset', NEW n \in ToSet(DateList(k)'),
                 NEW q \in Cities \cup {NoCity}
          PROVE  EstateCount(nodes'[n].estates, q) =
                   Cardinality(Matching(loaded', dataset'[k].type, nodes'[n].d, q))
      <3>1. CASE n = e
        <4>1. k = K
          BY <1>1, <1>3, <1>7, <1>9, <3>1
        <4>2. dataset'[k].type = type /\ nodes'[n].d = d /\ nodes'[n].estates = <<city>>
          BY <1>1, <3>1, <4>1
        <4>3. Matching(loaded, type, d, q) = {}
          <5>1. ASSUME NEW j \in DOMAIN loaded, loaded[j].type = type, loaded[j].d = d
                PROVE  FALSE
            <6>1. PICK l \in DOMAIN dataset : /\ dataset[l].type = loaded[j].type
                                              /\ \E m \in ToSet(DateList(l)) : nodes[m].d = loaded[j].d
              BY DEF IInv, Stored
            <6>2. l = K
              BY <1>5, <5>1, <6>1
            <6> QED BY <1>1, <1>10, <5>1, <6>1, <6>2
          <5> QED BY <5>1 DEF Matching
        <4>4. Cardinality(Matching(loaded', type, d, q)) = IF q \in {NoCity, city} THEN 1 ELSE 0
          <5>1. Cardinality(Matching(loaded, type, d, q)) = 0
            BY <4>3, FS_EmptySet
          <5>2. Cardinality(Matching(loaded', type, d, q)) =
                  Cardinality(Matching(loaded, type, d, q))
                  + (IF type = type /\ d = d /\ q \in {NoCity, city} THEN 1 ELSE 0)
            BY LoadedGrows
          <5> QED BY <5>1, <5>2
        <4>5. EstateCount(<<city>>, q) = IF q \in {NoCity, city} THEN 1 ELSE 0
          <5>1. <<>> \in Seq(Cities) /\ Append(<<>>, city) = <<city>>
            OBVIOUS
          <5>2. EstateCount(<<>>, q) = 0
            BY <5>1, EstatesCounted
          <5>3. EstateCount(Append(<<>>, city), q) =
                  EstateCount(<<>>, q) + (IF q \in {NoCity, city} THEN 1 ELSE 0)
            BY <5>1, EstatesCounted
          <5> QED BY <5>1, <5>2, <5>3
        <4> QED BY <4>2, <4>4, <4>5
      <3>2. CASE n # e
        <4>1. k \in DOMAIN dataset /\ n \in ToSet(DateList(k)) /\ n \in DOMAIN nodes
          <5>1. CASE k = K
            <6>1. n \in ToSet(w)
              BY <1>1, <1>8, <3>2, <5>1
            <6>2. K \in DOMAIN dataset
              BY <1>2, <6>1 DEF ToSet
            <6> QED BY <1>9, <1>10, <5>1, <6>1, <6>2
          <5>2. CASE k # K
            BY <1>1, <1>7, <1>9, <5>2
          <5> QED BY <5>1, <5>2
        <4>2. nodes'[n].d = nodes[n].d /\ nodes'[n].estates = nodes[n].estates
          BY <1>1, <4>1
        <4>3. dataset'[k].type = dataset[k].type
          BY <1>1, <1>5, <4>1
        <4>4. ~(type = dataset[k].type /\ d = nodes[n].d)
          BY <1>1, <1>5, <1>10, <4>1
        <4>5. EstateCount(nodes[n].estates, q) =
                Cardinality(Matching(loaded, dataset[k].type, nodes[n].d, q))
          BY <4>1 DEF IInv, Stored
        <4>6. Cardinality(Matching(loaded', dataset[k].type, nodes[n].d, q)) =
                Cardinality(Matching(loaded, dataset[k].type, nodes[n].d, q))
          <5>1. Cardinality(Matching(loaded, dataset[k].type, nodes[n].d, q)) \in Nat
            BY LoadedGrows
          <5>2. Cardinality(Matching(loaded', dataset[k].type, nodes[n].d, q)) =
                  Cardinality(Matching(loaded, dataset[k].type, nodes[n].d, q))
                  + (IF type = dataset[k].type /\ d = nodes[n].d /\ q \in {NoCity, city} THEN 1 ELSE 0)
            BY LoadedGrows
          <5> QED BY <4>4, <5>1, <5>2
        <4> QED BY <4>2, <4>3, <4>5, <4>6
      <3> QED BY <3>1, <3>2
    <2>2. ASSUME NEW j \in DOMAIN loaded'
          PROVE  \E k \in DOMAIN dataset' :
                   /\ dataset'[k].type = loaded'[j].type
                   /\ \E n \in ToSet(DateList(k)') : nodes'[n].d = loaded'[j].d
      <3>1. CASE j \in DOMAIN loaded
        <4>1. PICK k \in DOMAIN dataset : /\ dataset[k].type = loaded[j].type
                                          /\ \E n \in ToSet(DateList(k)) : nodes[n].d = loaded[j].d
          BY <3>1 DEF IInv, Stored
        <4>2. PICK n \in ToSet(DateList(k)) : nodes[n].d = loaded[j].d
          BY <4>1
        <4>3. n \in ToSet(DateList(k)') /\ nodes'[n].d = nodes[n].d
          <5>1. n \in DOMAIN nodes
            BY <1>9, <4>2
          <5>2. n \in ToSet(DateList(k)')
            BY <1>1, <1>7, <1>8, <1>10, <4>2
          <5> QED BY <1>1, <5>1, <5>2
        <4>4. k \in DOMAIN dataset' /\ dataset'[k].type = dataset[k].type
          BY <1>1, <1>5
        <4>5. loaded'[j] = loaded[j]
          BY <3>1, LoadedGrows
        <4> QED BY <4>1, <4>2, <4>3, <4>4, <4>5
      <3>2. CASE j = Len(loaded) + 1
        <4>1. loaded'[j].type = type /\ loaded'[j].d = d
          BY <3>2, LoadedGrows
        <4>2. K \in DOMAIN dataset' /\ e \in ToSet(DateList(K)')
          BY <1>1, <1>8
        <4> QED BY <1>1, <4>1, <4>2
      <3>3. j \in DOMAIN loaded \/ j = Len(loaded) + 1
        BY LoadedGrows
      <3> QED BY <3>1, <3>2, <3>3
    <2>3. ASSUME NEW n \in DOMAIN nodes' PROVE nodes'[n].estates # <<>>
      <3>1. CASE n = e
        <4>1. <<city>> # <<>>
          OBVIOUS
        <4> QED BY <1>1, <3>1, <4>1
      <3>2. CASE n \in DOMAIN nodes
        BY <1>1, <3>2 DEF IInv, Stored
      <3> QED BY <1>3, <3>1, <3>2
    <2>4. Len(nodes') <= Len(loaded')
      BY <1>1, <1>3, LoadedGrows DEF IInv, Stored, e
    <2> QED BY <2>1, <2>2, <2>3, <2>4 DEF Stored
  <1>15. Released'
    BY DEF Released
  <1> QED BY <1>11, <1>12, <1>13, <1>14, <1>15 DEF IInv

-----------------------------------------------------------------------------
(* The invariant, and what follows from it.                                *)

LEMMA Start ==
  ASSUME Init
  PROVE  IInv
  <1>1. /\ dataset = <<>> /\ nodes = <<>> /\ loaded = <<>> /\ freed = {}
        /\ DOMAIN dataset = {} /\ DOMAIN nodes = {} /\ DOMAIN loaded = {}
    BY DEF Init
  <1>2. Len(nodes) <= Len(loaded)
    BY <1>1
  <1> QED BY <1>1, <1>2 DEF IInv, Typed, Linked, Apart, Stored, Released

LEMMA SameIndex ==
  ASSUME IInv, dataset' = dataset, nodes' = nodes, loaded' = loaded
  PROVE  Typed' /\ Linked' /\ Apart' /\ Stored'
  <1>1. \A k : DateList(k)' = DateList(k)
    BY DEF DateList
  <1>2. Typed'
    BY DEF IInv, Typed
  <1>3. Linked'
    BY <1>1 DEF IInv, Linked
  <1>4. Apart'
    BY <1>1 DEF IInv, Apart
  <1>5. Stored'
    BY <1>1 DEF IInv, Stored
  <1> QED BY <1>2, <1>3, <1>4, <1>5

LEMMA DeleteStep ==
  ASSUME IInv, DeleteTypeEstateLL
  PROVE  IInv'
  <1>1. /\ dataset' = dataset /\ nodes' = nodes /\ loaded' = loaded
        /\ freed' = {Null} \cup UNION {ToSet(DateList(k)) : k \in DOMAIN dataset}
    BY DEF DeleteTypeEstateLL
  <1>2. Typed' /\ Linked' /\ Apart' /\ Stored'
    BY <1>1, SameIndex
  <1>3. freed' \subseteq {Null} \cup DOMAIN nodes /\ DOMAIN nodes \subseteq freed'
    <2>1. \A k \in DOMAIN dataset : ToSet(DateList(k)) \subseteq DOMAIN nodes
      BY InvType
    <2>2. \A n \in DOMAIN nodes : \E k \in DOMAIN dataset : n \in ToSet(DateList(k))
      BY DEF IInv, Apart
    <2>3. freed' \subseteq {Null} \cup DOMAIN nodes
      <3> DEFINE lists == {ToSet(DateList(k)) : k \in DOMAIN dataset}
      <3>1. \A s \in lists : s \subseteq DOMAIN nodes
        BY <2>1
      <3>2. freed' = {Null} \cup UNION lists
        BY <1>1
      <3> HIDE DEF lists
      <3>3. UNION lists \subseteq DOMAIN nodes
        BY ONLY <3>1
      <3> QED BY ONLY <3>2, <3>3
    <2>4. ASSUME NEW n \in DOMAIN nodes PROVE n \in freed'
      BY <1>1, <2>2
    <2> QED BY <2>3, <2>4
  <1>4. Released'
    BY <1>1, <1>3 DEF Released
  <1> QED BY <1>2, <1>4 DEF IInv

LEMMA IndexInvariance == Spec => []IInv
  <1>1. Init => IInv
    BY Start
  <1>2. IInv /\ [Next]_vars => IInv'
    <2>1. SUFFICES ASSUME IInv, [Next]_vars PROVE IInv'
      OBVIOUS
    <2>2. CASE UNCHANGED vars
      <3>1. dataset' = dataset /\ nodes' = nodes /\ loaded' = loaded /\ freed' = freed
        BY <2>2 DEF vars
      <3>2. Released'
        BY <2>1, <3>1 DEF IInv, Released
      <3> QED BY <2>1, <3>1, <3>2, SameIndex DEF IInv
    <2>3. ASSUME NEW type \in Types, NEW d \in Dates, NEW city \in Cities,
                 AddEstateToTypeLL(type, d, city)
          PROVE  IInv'
      <3>1. /\ loaded' = Append(loaded, [type |-> type, d |-> d, city |-> city]) /\ freed' = {}
            /\ \/ \E k, n : EstateAdded(k, n, type, d, city)
               \/ \E K, w, v : NodeAdded(K, w, v, type, d, city)
        BY <2>1, <2>3, AddCases
      <3>2. CASE \E k, n : EstateAdded(k, n, type, d, city)
        BY <2>1, <3>1, <3>2, EstateStep
      <3>3. CASE \E K, w, v : NodeAdded(K, w, v, type, d, city)
        BY <2>1, <3>1, <3>3, NodeStep
      <3> QED BY <3>1, <3>2, <3>3
    <2>4. CASE DeleteTypeEstateLL
      BY <2>1, <2>4, DeleteStep
    <2> QED BY <2>1, <2>2, <2>3, <2>4 DEF Next
  <1> QED BY <1>1, <1>2, PTL DEF Spec

(* Each type has one list, whose front, rear and size are of nodes that are *)
(* there; a node holds transactions and points to nodes that are there.    *)
THEOREM TypeCorrect == Spec => []TypeOK
  <1>1. IInv => TypeOK
    <2>1. SUFFICES ASSUME IInv PROVE TypeOK
      OBVIOUS
    <2>2. nodes \in Seq(Node) /\ \A k \in DOMAIN dataset : Chain(nodes, dataset[k], DateList(k))
      BY <2>1 DEF IInv, Typed, Linked
    <2>3. ASSUME NEW k \in DOMAIN dataset
          PROVE  /\ dataset[k].type \in Types
                 /\ dataset[k].front \in DOMAIN nodes /\ dataset[k].rear \in DOMAIN nodes
                 /\ dataset[k].size \in 1..Len(nodes)
      <3> DEFINE w == DateList(k)
      <3>1. Chain(nodes, dataset[k], w) /\ dataset[k] \in DateLists
        BY <2>1, <2>2, InvType
      <3> HIDE DEF w
      <3>2. /\ Len(nodes) \in Nat /\ Len(w) \in Nat \ {0}
            /\ \A j \in 1..Len(w) : w[j] \in DOMAIN nodes
        BY <2>2, <3>1, ChainType
      <3>3. w[1] = dataset[k].front /\ w[Len(w)] = dataset[k].rear /\ Len(w) = dataset[k].size
        BY <3>1 DEF Chain
      <3>4. Len(w) <= Len(nodes)
        BY <2>2, <3>1, ChainForward
      <3>5. 1 \in 1..Len(w) /\ Len(w) \in 1..Len(w) /\ Len(w) \in 1..Len(nodes)
        BY <3>2, <3>4
      <3>6. dataset[k].type \in Types
        BY <3>1 DEF DateLists
      <3> QED BY <3>2, <3>3, <3>5, <3>6
    <2>4. ASSUME NEW n \in DOMAIN nodes
          PROVE  /\ nodes[n].d \in Dates /\ nodes[n].estates \in Seq(Cities) \ {<<>>}
                 /\ nodes[n].next \in {Null} \cup DOMAIN nodes
                 /\ nodes[n].back \in {Null} \cup DOMAIN nodes
      <3>1. nodes[n] \in Node /\ nodes[n].estates # <<>>
        BY <2>1, InvType DEF IInv, Stored
      <3>2. PICK k \in DOMAIN dataset : n \in ToSet(DateList(k))
        BY <2>1 DEF IInv, Apart
      <3> DEFINE w == DateList(k)
      <3>3. Chain(nodes, dataset[k], w) /\ n \in ToSet(w)
        BY <2>2, <3>2
      <3> HIDE DEF w
      <3>4. /\ Len(w) \in Nat \ {0} /\ ToSet(w) = {w[j] : j \in 1..Len(w)}
            /\ \A j \in 1..Len(w) : w[j] \in DOMAIN nodes
        BY <2>2, <3>3, ChainType
      <3>5. PICK j \in 1..Len(w) : w[j] = n
        BY <3>3, <3>4
      <3>6. nodes[n].next \in {Null} \cup DOMAIN nodes
        <4>1. j = Len(w) \/ (j \in 1..Len(w)-1 /\ j+1 \in 1..Len(w))
          BY <3>4
        <4> QED BY <3>3, <3>4, <3>5, <4>1 DEF Chain
      <3>7. nodes[n].back \in {Null} \cup DOMAIN nodes
        <4>1. CASE j = 1
          BY <3>3, <3>5, <4>1 DEF Chain
        <4>2. CASE j # 1
          <5>1. j-1 \in 1..Len(w)-1 /\ j-1 \in 1..Len(w) /\ (j-1)+1 = j
            BY <3>4, <4>2
          <5>2. nodes[w[(j-1)+1]].back = w[j-1]
            BY <3>3, <5>1 DEF Chain
          <5>3. nodes[n].back = w[j-1]
            BY <3>5, <5>1, <5>2
          <5> QED BY <3>4, <5>1, <5>3
        <4> QED BY <4>1, <4>2
      <3> QED BY <3>1, <3>6, <3>7 DEF Node
    <2>5. IsInjective([k \in DOMAIN dataset |-> dataset[k].type])
      BY <2>1, OneList DEF IsInjective
    <2>6. Len(nodes) <= Len(loaded) /\ freed \subseteq {Null} \cup DOMAIN nodes
      BY <2>1 DEF IInv, Stored, Released
    <2> QED BY <2>3, <2>4, <2>5, <2>6 DEF TypeOK
  <1> QED BY <1>1, IndexInvariance, PTL

(* Whatever the order transactions are loaded in, each date list holds the *)
(* dates of its type, each once and in calendar order, and can be walked   *)
(* through both ways (dateEstateLinkedList.c).                             *)
THEOREM ListsSorted == Spec => []DatesSorted
  <1>1. IInv => DatesSorted
    <2>1. SUFFICES ASSUME IInv, NEW k \in DOMAIN dataset
                   PROVE  LET list == DateList(k)
                              date(j) == nodes[list[j]].d
                          IN /\ \A j \in 1..Len(list)-1 :
                                  Before(date(j), date(j+1)) /\ nodes[list[j+1]].back = list[j]
                             /\ nodes[list[1]].back = Null /\ list[Len(list)] = dataset[k].rear
                             /\ dataset[k].size = Len(list)
                             /\ {date(j) : j \in DOMAIN list} =
                                  {e.d : e \in {e \in ToSet(loaded) : e.type = dataset[k].type}}
      BY Zenon DEF DatesSorted
    <2> DEFINE w == DateList(k)
               N == Len(w)
    <2>2. /\ nodes \in Seq(Node) /\ Chain(nodes, dataset[k], w)
          /\ ToSet(w) \subseteq DOMAIN nodes
      BY <2>1, InvType DEF IInv, Typed, Linked
    <2>3. \A n \in ToSet(w) : \A q \in Cities \cup {NoCity} :
            EstateCount(nodes[n].estates, q) =
              Cardinality(Matching(loaded, dataset[k].type, nodes[n].d, q))
      BY <2>1 DEF IInv, Stored
    <2>4. \A j \in DOMAIN loaded : loaded[j].type = dataset[k].type =>
            \E n \in ToSet(w) : nodes[n].d = loaded[j].d
      <3>1. SUFFICES ASSUME NEW j \in DOMAIN loaded, loaded[j].type = dataset[k].type
                     PROVE  \E n \in ToSet(w) : nodes[n].d = loaded[j].d
        OBVIOUS
      <3>2. PICK l \in DOMAIN dataset : /\ dataset[l].type = loaded[j].type
                                        /\ \E n \in ToSet(DateList(l)) : nodes[n].d = loaded[j].d
        BY <2>1 DEF IInv, Stored
      <3>3. l = k
        BY <2>1, <3>1, <3>2, OneList
      <3> QED BY <3>2, <3>3
    <2> HIDE DEF w
    <2>5. N \in Nat \ {0} /\ DOMAIN w = 1..N /\ ToSet(w) = {w[j] : j \in 1..N}
      BY <2>2, ChainType
    <2>6. ASSUME NEW j \in 1..N-1
          PROVE  Before(nodes[w[j]].d, nodes[w[j+1]].d) /\ nodes[w[j+1]].back = w[j]
      <3>1. j \in 1..N /\ j+1 \in 1..N /\ j < j+1
        BY <2>5
      <3> QED BY <2>2, <3>1 DEF Chain
    <2>7. nodes[w[1]].back = Null /\ w[N] = dataset[k].rear /\ dataset[k].size = N
      BY <2>2 DEF Chain
    <2>8. ASSUME NEW j \in DOMAIN w
          PROVE  \E e \in ToSet(loaded) : e.type = dataset[k].type /\ e.d = nodes[w[j]].d
      <3> DEFINE n == w[j]
                 M == Matching(loaded, dataset[k].type, nodes[n].d, NoCity)
      <3>1. n \in ToSet(w) /\ n \in DOMAIN nodes
        BY <2>2, <2>5
      <3>2. nodes[n].estates \in Seq(Cities) /\ nodes[n].estates # <<>>
        <4>1. nodes[n].estates # <<>>
          BY <2>1, <3>1 DEF IInv, Stored
        <4>2. nodes[n] \in Node
          BY <2>1, <3>1, InvType
        <4> QED BY <4>1, <4>2 DEF Node
      <3>3. Len(nodes[n].estates) # 0
        BY <3>2
      <3>4. Cardinality(M) = Len(nodes[n].estates)
        BY <2>3, <3>1 DEF EstateCount
      <3>5. M # {}
        BY <3>3, <3>4, FS_EmptySet
      <3>6. PICK i \in DOMAIN loaded : loaded[i].type = dataset[k].type /\ loaded[i].d = nodes[n].d
        BY <3>5 DEF Matching
      <3> QED BY <3>6 DEF ToSet
    <2>9. ASSUME NEW e \in ToSet(loaded), e.type = dataset[k].type
          PROVE  \E j \in DOMAIN w : nodes[w[j]].d = e.d
      <3>1. PICK i \in DOMAIN loaded : loaded[i] = e
        BY DEF ToSet
      <3>2. PICK n \in ToSet(w) : nodes[n].d = e.d
        BY <2>4, <2>9, <3>1
      <3> QED BY <2>5, <3>2
    <2>10. {nodes[w[j]].d : j \in DOMAIN w} =
             {e.d : e \in {e \in ToSet(loaded) : e.type = dataset[k].type}}
      BY <2>8, <2>9
    <2> QED BY <2>6, <2>7, <2>10 DEF w
  <1> QED BY <1>1, IndexInvariance, PTL

(* Deleting the dataset frees every node (deleteTypeEstateLL).             *)
THEOREM NodesFreed == Spec => []NothingLeaks
  <1>1. IInv => NothingLeaks
    BY DEF IInv, Released, NothingLeaks
  <1> QED BY <1>1, IndexInvariance, PTL

(* Whatever was loaded, a query counts the transactions of its type, city  *)
(* and dates, unless its type is the last of the list (typeEstateCount).   *)
THEOREM QueriesCount == Spec => []CountsMatch
  <1>1. IInv => CountsMatch
    <2>1. SUFFICES ASSUME IInv, NEW k \in 1..Len(dataset)-1, NEW d1 \in Dates, NEW d2 \in Dates,
                          NEW q \in Cities \cup {NoCity}
                   PROVE  TransactionCount(dataset[k].type, d1, d2, q) =
                            ReferenceCount(dataset[k].type, d1, d2, q)
      BY DEF CountsMatch, Queried
    <2> DEFINE type == dataset[k].type
               w == DateList(k)
               In(j) == InRange(nodes[w[j]].d, d1, d2)
               fun == [j \in DOMAIN w |-> IF In(j) THEN EstateCount(nodes[w[j]].estates, q) ELSE 0]
               A == [j \in DOMAIN w |->
                       IF In(j) THEN Matching(loaded, type, nodes[w[j]].d, q) ELSE {}]
               R == {j \in DOMAIN loaded :
                       /\ loaded[j].type = type /\ q \in {NoCity, loaded[j].city}
                       /\ ~Before(loaded[j].d, d1) /\ ~Before(d2, loaded[j].d)}
    <2>2. k \in DOMAIN dataset
      BY <2>1, InvType
    <2>3. /\ nodes \in Seq(Node) /\ Chain(nodes, dataset[k], w) /\ loaded \in Seq(Transaction)
          /\ \A n \in ToSet(w) :
               EstateCount(nodes[n].estates, q) = Cardinality(Matching(loaded, type, nodes[n].d, q))
      BY <2>1, <2>2 DEF IInv, Typed, Linked, Stored
    <2>4. TransactionCount(type, d1, d2, q) = SumFunctionOnSet(fun, DOMAIN w)
      <3> DEFINE found == {l \in 1..Len(dataset)-1 : dataset[l].type = type}
      <3>1. found = {k}
        <4>1. 1..Len(dataset)-1 \subseteq DOMAIN dataset
          BY <2>1, InvType
        <4> QED BY <2>1, <2>2, <4>1, OneList
      <3>2. (CHOOSE l \in found : TRUE) = k
        BY <3>1
      <3>3. TransactionCount(type, d1, d2, q) = DateEstateCount(w, d1, d2, q)
        <4>1. found # {}
          BY <3>1
        <4> HIDE DEF w
        <4> QED BY <3>1, <3>2, <4>1 DEF TransactionCount, w
      <3>4. DateEstateCount(w, d1, d2, q) = SumFunction(fun)
        BY DEF DateEstateCount
      <3> QED BY <3>3, <3>4 DEF SumFunction
    <2>5. ASSUME NEW j \in DOMAIN loaded, loaded[j].type = type
          PROVE  loaded[j] \in Transaction /\ \E n \in ToSet(w) : nodes[n].d = loaded[j].d
      <3>1. PICK l \in DOMAIN dataset : /\ dataset[l].type = loaded[j].type
                                        /\ \E n \in ToSet(DateList(l)) : nodes[n].d = loaded[j].d
        BY <2>1 DEF IInv, Stored
      <3>2. l = k
        BY <2>1, <2>2, <2>5, <3>1, OneList
      <3> QED BY <2>3, <3>1, <3>2
    <2> HIDE DEF w, type
    <2>6. /\ Len(w) \in Nat /\ DOMAIN w = 1..Len(w) /\ ToSet(w) = {w[j] : j \in DOMAIN w}
          /\ \A j \in DOMAIN w : nodes[w[j]].d \in Dates /\ w[j] \in ToSet(w)
      <3>1. Len(w) \in Nat /\ DOMAIN w = 1..Len(w) /\ ToSet(w) = {w[j] : j \in 1..Len(w)}
        BY <2>3, ChainType
      <3>2. \A j \in 1..Len(w) : nodes[w[j]].d \in Dates
        BY <2>3, ChainType
      <3>3. ToSet(w) = {w[j] : j \in DOMAIN w}
        BY ONLY <3>1
      <3>4. \A j \in DOMAIN w : w[j] \in ToSet(w)
        BY ONLY <3>3
      <3> QED BY ONLY <3>1, <3>2, <3>3, <3>4
    <2>7. \A i, j \in DOMAIN w : nodes[w[i]].d = nodes[w[j]].d => i = j
      BY <2>3, <2>6, ChainOnce
    <2>8. ASSUME NEW j \in DOMAIN w
          PROVE  IsFiniteSet(A[j]) /\ fun[j] = Cardinality(A[j])
      <3>1. IsFiniteSet(Matching(loaded, type, nodes[w[j]].d, q))
        <4>1. Matching(loaded, type, nodes[w[j]].d, q) \subseteq 1..Len(loaded)
              /\ Len(loaded) \in Nat
          BY <2>3 DEF Matching
        <4> QED BY <4>1, IntervalSize, FS_Subset
      <3>2. CASE In(j)
        BY <2>3, <2>6, <3>1, <3>2
      <3>3. CASE ~In(j)
        BY <3>3, FS_EmptySet
      <3> QED BY <3>2, <3>3
    <2>9. ASSUME NEW i \in DOMAIN w, NEW j \in DOMAIN w, i # j
          PROVE  A[i] \cap A[j] = {}
      <3>1. nodes[w[i]].d # nodes[w[j]].d
        BY <2>7, <2>9
      <3> QED BY <3>1 DEF Matching
    <2>10. UNION {A[j] : j \in DOMAIN w} = R
      <3>1. ASSUME NEW j \in DOMAIN w
            PROVE  In(j) <=> ~Before(nodes[w[j]].d, d1) /\ ~Before(d2, nodes[w[j]].d)
        BY <2>6, Calendar DEF InRange
      <3>2. ASSUME NEW j \in DOMAIN w, NEW i \in A[j] PROVE i \in R
        <4>1. In(j) /\ i \in Matching(loaded, type, nodes[w[j]].d, q)
          BY <3>2
        <4> HIDE DEF In
        <4> QED BY <3>1, <4>1 DEF Matching
      <3>3. ASSUME NEW i \in R PROVE \E j \in DOMAIN w : i \in A[j]
        <4>1. PICK n \in ToSet(w) : nodes[n].d = loaded[i].d
          BY <2>5, <3>3
        <4>2. PICK j \in DOMAIN w : w[j] = n
          BY <2>6, <4>1
        <4>3. In(j)
          BY <3>1, <3>3, <4>1, <4>2
        <4>4. i \in Matching(loaded, type, nodes[w[j]].d, q)
          BY <3>3, <4>1, <4>2 DEF Matching
        <4> HIDE DEF In
        <4> QED BY <4>3, <4>4
      <3> HIDE DEF A, R
      <3> QED BY <3>2, <3>3
    <2>11. IsFiniteSet(DOMAIN w)
      BY <2>6, IntervalSize
    <2> HIDE DEF fun, A, R
    <2>12. SumFunctionOnSet(fun, DOMAIN w) = Cardinality(R)
      BY <2>8, <2>9, <2>10, <2>11, SumOfSizes
    <2>13. ReferenceCount(type, d1, d2, q) = Cardinality(R)
      BY DEF ReferenceCount, R
    <2> QED BY <2>4, <2>12, <2>13 DEF type
  <1> QED BY <1>1, IndexInvariance, PTL


(* Whatever was loaded, the type that was loaded last has no transactions  *)
(* for a query (typeEstateCount): the finding of index_last_type is there  *)
(* in every dataset.                                                       *)
THEOREM LastTypeUncounted ==
  Spec => [](\A d1, d2 \in Dates, city \in Cities \cup {NoCity} :
               dataset # <<>> =>
                 TransactionCount(dataset[Len(dataset)].type, d1, d2, city) = 0)
  <1>1. ASSUME IInv, dataset # <<>>
        PROVE  {k \in 1..Len(dataset)-1 : dataset[k].type = dataset[Len(dataset)].type} = {}
    <2>1. dataset \in Seq(DateLists) /\ Len(dataset) \in Nat \ {0}
          /\ DOMAIN dataset = 1..Len(dataset)
      BY <1>1 DEF IInv, Typed
    <2>2. \A k, l \in 1..Len(dataset) : dataset[k].type = dataset[l].type => k = l
      BY <1>1, <2>1 DEF IInv, Apart
    <2>3. ASSUME NEW k \in 1..Len(dataset)-1
          PROVE  dataset[k].type # dataset[Len(dataset)].type
      <3>1. ASSUME NEW n \in Nat \ {0}, NEW j \in 1..n-1
            PROVE  j \in 1..n /\ n \in 1..n /\ j # n
        OBVIOUS
      <3>2. k \in 1..Len(dataset) /\ Len(dataset) \in 1..Len(dataset) /\ k # Len(dataset)
        BY ONLY <2>1, <2>3, <3>1
      <3> QED BY <2>2, <3>2
    <2> QED BY <2>3
  <1>2. ASSUME IInv
        PROVE  \A d1, d2 \in Dates, city \in Cities \cup {NoCity} :
                 dataset # <<>> =>
                   TransactionCount(dataset[Len(dataset)].type, d1, d2, city) = 0
    BY <1>1, <1>2 DEF TransactionCount
  <1> QED BY <1>2, IndexInvariance, PTL
=============================================================================
