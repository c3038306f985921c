------------------------- MODULE TextScannersProofs -------------------------
(***************************************************************************)
(* The scanners, for every request file and every dataset file: the array  *)
(* of requests is written within its bounds until it has been grown, a     *)
(* request that has been read from the file is read again by the server    *)
(* and by the servant as it was, regular lines are read as they are meant, *)
(* and a line that has made a request does no harm to the next.            *)
(***************************************************************************)
EXTENDS TextScanners, InductionLemmas, SequenceTheorems

-----------------------------------------------------------------------------
(* Numbers.                                                                *)

Value(b) == (CHOOSE k \in 1..10 : Digit[k] = b) - 1

LEMMA DigitValue ==
  ASSUME NEW k \in 1..10
  PROVE  Digit[k] \in Digits /\ Value(Digit[k]) = k - 1
  <1>1. Digit[k] \in Digits
    <2>1. k \in DOMAIN Digit
      BY DEF Digit
    <2> QED BY <2>1 DEF Digits, ToSet
  <1>2. ASSUME NEW j \in 1..10, Digit[j] = Digit[k] PROVE j = k
    BY <1>2 DEF Digit
  <1>3. (CHOOSE j \in 1..10 : Digit[j] = Digit[k]) = k
    BY <1>2
  <1> QED BY <1>1, <1>3 DEF Value

LEMMA ValueType ==
  ASSUME NEW b \in Digits
  PROVE  Value(b) \in 0..9
  <1>1. PICK k \in DOMAIN Digit : b = Digit[k]
    BY DEF Digits, ToSet
  <1>2. k \in 1..10
    BY <1>1 DEF Digit
  <1> QED BY <1>1, <1>2, DigitValue

(* A digit is none of the characters the scanners look for.                *)
LEMMA DigitsPlain == Digits \cap {" ", "-", "*", "\n"} = {}
  <1>1. ASSUME NEW b \in Digits PROVE b \notin {" ", "-", "*", "\n"}
    <2>1. PICK k \in DOMAIN Digit : b = Digit[k]
      BY DEF Digits, ToSet
    <2>2. k \in 1..10
      BY <2>1 DEF Digit
    <2>3. Digit[k] \in {"0", "1", "2", "3", "4", "5", "6", "7", "8", "9"}
      BY <2>2 DEF Digit
    <2> QED BY <2>1, <2>3
  <1> QED BY <1>1

(* A number is read digit by digit.                                        *)
LEMMA NumberSteps ==
  ASSUME NEW s \in Seq(Digits)
  PROVE  \E f \in [0..Len(s) -> Nat] :
           /\ f[0] = 0 /\ f[Len(s)] = Number(s)
           /\ \A k \in 1..Len(s) : f[k] = 10 * f[k-1] + Value(s[k])
  <1> DEFINE n == Len(s)
             Step(x, b) == 10 * x + (CHOOSE k \in 1..10 : Digit[k] = b) - 1
             step == [p \in Nat \X (1..n) |-> Step(p[1], s[p[2]])]
             Eq(it) == it = [t \in SUBSET (DOMAIN s) |->
                               IF t = {} THEN 0
                               ELSE Step(it[t \ {Max(t)}], s[Max(t)])]
             c == CHOOSE it : Eq(it)
  <1>1. Number(s) = c[DOMAIN s]
    BY Zenon DEF Number, FoldLeft, MapThenFoldSet
  <1>2. n \in Nat /\ DOMAIN s = 1..n /\ \A k \in 1..n : s[k] \in Digits
    OBVIOUS
  <1>3. ASSUME NEW x \in Nat, NEW b \in Digits
        PROVE  Step(x, b) = 10 * x + Value(b) /\ Step(x, b) \in Nat
    <2> DEFINE v == CHOOSE k \in 1..10 : Digit[k] = b
    <2>1. v - 1 \in 0..9
      BY ValueType DEF Value
    <2>2. v \in Int
      <3>1. PICK k \in DOMAIN Digit : b = Digit[k]
        BY DEF Digits, ToSet
      <3>2. k \in 1..10
        BY <3>1 DEF Digit
      <3> QED BY <3>1, <3>2
    <2>3. Step(x, b) = 10 * x + v - 1 /\ Value(b) = v - 1
      BY DEF Value
    <2> HIDE DEF v, Step
    <2> QED BY <2>1, <2>2, <2>3
  <1>4. step \in [Nat \X (1..n) -> Nat]
    <2> HIDE DEF Step, n
    <2> QED BY <1>2, <1>3
  <1> HIDE DEF n
  <1>5. \E it : Eq(it)
    <2> HIDE DEF step
    <2>1. PICK it : /\ it = [t \in SUBSET (1..n) |->
                               IF t = {} THEN 0 ELSE step[<<it[t \ {Max(t)}], Max(t)>>]]
                    /\ \A t \in SUBSET (1..n) :
                         it[t] \in Nat /\ (t # {} => Max(t) \in t)
      BY <1>2, <1>4, FoldInterval
    <2>2. ASSUME NEW t \in SUBSET (1..n)
          PROVE  it[t] = IF t = {} THEN 0 ELSE Step(it[t \ {Max(t)}], s[Max(t)])
      <3>1. CASE t = {}
        BY <2>1, <3>1
      <3>2. CASE t # {}
        <4>1. it[t \ {Max(t)}] \in Nat /\ Max(t) \in 1..n
          BY <2>1, <3>2
        <4>2. it[t] = step[<<it[t \ {Max(t)}], Max(t)>>]
          BY <2>1, <3>2
        <4> HIDE DEF Step
        <4> QED BY <3>2, <4>1, <4>2 DEF step
      <3> QED BY <3>1, <3>2
    <2> HIDE DEF Step
    <2>3. it = [t \in SUBSET (1..n) |-> it[t]]
      BY <2>1
    <2>4. Eq(it)
      BY <1>2, <2>2, <2>3
    <2> QED BY <2>4
  <1>6. Eq(c)
    <2> HIDE DEF Eq
    <2> QED BY <1>5
  <1> HIDE DEF c
  <1>7. FoldSteps(c, n, Nat, 0, step)
    <2>1. c[{}] = 0
      <3> HIDE DEF Step
      <3> QED BY <1>2, <1>6
    <2>2. ASSUME NEW t \in SUBSET (1..n), t # {}, c[t \ {Max(t)}] \in Nat, Max(t) \in 1..n
          PROVE  c[t] = step[<<c[t \ {Max(t)}], Max(t)>>]
      <3> HIDE DEF Step
      <3> QED BY <1>2, <1>6, <2>2
    <2> HIDE DEF step
    <2> QED BY <2>1, <2>2 DEF FoldSteps
  <1>8. PICK f : Trace(f, n, Nat, 0, step, c[1..n])
    <2> HIDE DEF step
    <2> QED BY <1>2, <1>4, <1>7, FoldTrace
  <1>9. ASSUME NEW k \in 1..n PROVE f[k] = 10 * f[k-1] + Value(s[k])
    <2>1. f[k-1] \in Nat /\ s[k] \in Digits
      BY <1>2, <1>8 DEF Trace
    <2>2. f[k] = Step(f[k-1], s[k])
      <3> HIDE DEF Step
      <3> QED BY <1>8, <2>1 DEF Trace
    <2> HIDE DEF Step
    <2> QED BY <1>3, <2>1, <2>2
  <1> QED BY <1>1, <1>2, <1>8, <1>9 DEF n, Trace

LEMMA NumberType ==
  ASSUME NEW s \in Seq(Digits)
  PROVE  Number(s) \in Nat
  <1>1. Len(s) \in 0..Len(s)
    OBVIOUS
  <1> QED BY <1>1, NumberSteps

LEMMA NumberAppend ==
  ASSUME NEW s \in Seq(Digits), NEW b \in Digits
  PROVE  Number(Append(s, b)) = 10 * Number(s) + Value(b)
  <1> DEFINE t == Append(s, b)
             n == Len(s)
  <1>1. /\ t \in Seq(Digits) /\ Len(t) = n + 1 /\ n \in Nat
        /\ t[n+1] = b /\ \A k \in 1..n : t[k] = s[k]
    OBVIOUS
  <1>2. PICK f \in [0..n -> Nat] :
           /\ f[0] = 0 /\ f[n] = Number(s)
           /\ \A k \in 1..n : f[k] = 10 * f[k-1] + Value(s[k])
    BY NumberSteps
  <1>3. PICK g \in [0..Len(t) -> Nat] :
           /\ g[0] = 0 /\ g[Len(t)] = Number(t)
           /\ \A k \in 1..Len(t) : g[k] = 10 * g[k-1] + Value(t[k])
    <2> HIDE DEF t
    <2> QED BY <1>1, NumberSteps
  <1> HIDE DEF t, n
  <1>4. f[n] = g[n]
    <2> DEFINE T == {k \in 0..n : f[k] = g[k]}
    <2>1. ASSUME NEW k \in 0..n-1, k \in T PROVE k+1 \in T
      <3>1. k+1 \in 1..n /\ k+1 \in 1..Len(t) /\ (k+1)-1 = k /\ k+1 \in 0..n
        BY <1>1
      <3>2. f[k+1] = 10 * f[k] + Value(s[k+1])
        BY <1>2, <3>1
      <3>3. g[k+1] = 10 * g[k] + Value(t[k+1])
        BY <1>3, <3>1
      <3>4. t[k+1] = s[k+1] /\ f[k] = g[k]
        BY <1>1, <2>1, <3>1
      <3> QED BY <3>1, <3>2, <3>3, <3>4
    <2>2. 0..n \subseteq T
      <3>1. 0 \in T
        BY <1>1, <1>2, <1>3
      <3> HIDE DEF T
      <3> QED BY <1>1, <2>1, <3>1, BoundedInduction
    <2> QED BY <1>1, <2>2
  <1>5. g[n+1] = 10 * g[n] + Value(t[n+1])
    <2>1. n+1 \in 1..Len(t) /\ (n+1)-1 = n
      BY <1>1
    <2> QED BY <1>3, <2>1
  <1>6. Number(t) = 10 * Number(s) + Value(b)
    BY <1>1, <1>2, <1>3, <1>4, <1>5
  <1> QED BY <1>6 DEF t

LEMMA NumberOfDigit ==
  ASSUME NEW b \in Digits
  PROVE  Number(<<b>>) = Value(b)
  <1>1. <<>> \in Seq(Digits) /\ Append(<<>>, b) = <<b>> /\ Len(<<>>) = 0
    OBVIOUS
  <1>2. Number(<<>>) = 0
    BY <1>1, NumberSteps
  <1>3. Number(Append(<<>>, b)) = 10 * Number(<<>>) + Value(b)
    BY <1>1, NumberAppend
  <1> QED BY <1>1, <1>2, <1>3, ValueType

(* atoi gives a natural number, whatever it reads.                         *)
LEMMA AtoIType ==
  ASSUME NEW S, NEW s \in Seq(S)
  PROVE  AtoI(s) \in Nat
  <1> DEFINE K == {k \in 0..Len(s) : \A j \in 1..k : s[j] \in Digits}
             d == Max(K)
  <1>1. Len(s) \in Nat
    OBVIOUS
  <1>2. d \in 0..Len(s) /\ \A j \in 1..d : s[j] \in Digits
    <2>1. K \subseteq Nat /\ 0 \in K
      BY <1>1
    <2>2. IsFiniteSet(K)
      <3>1. IsFiniteSet(0..Len(s)) /\ K \subseteq 0..Len(s)
        BY <1>1, FS_Interval
      <3> QED BY <3>1, FS_Subset
    <2>3. d \in K
      <3> HIDE DEF K
      <3> QED BY <2>1, <2>2, MaxInSet
    <2> QED BY <2>3
  <1> HIDE DEF d
  <1>3. SubSeq(s, 1, d) \in Seq(Digits)
    <2>1. SubSeq(s, 1, d) = [j \in 1..d |-> s[j]]
      BY <1>1, <1>2
    <2> QED BY <1>2, <2>1
  <1>4. AtoI(s) = Number(SubSeq(s, 1, d))
    BY DEF AtoI, d
  <1> QED BY <1>3, <1>4, NumberType

LEMMA AtoIDigits ==
  ASSUME NEW s \in Seq(Digits)
  PROVE  AtoI(s) = Number(s)
  <1> DEFINE K == {k \in 0..Len(s) : \A j \in 1..k : s[j] \in Digits}
  <1>1. Len(s) \in Nat /\ \A j \in 1..Len(s) : s[j] \in Digits
    OBVIOUS
  <1>2. K = 0..Len(s)
    BY <1>1
  <1>3. Max(K) = Len(s)
    <2>1. ASSUME NEW n \in Nat PROVE Max(0..n) = n
      <3>1. IsFiniteSet(0..n) /\ 0..n \subseteq Nat /\ n \in 0..n
        BY FS_Interval
      <3>2. Max(0..n) \in 0..n /\ n <= Max(0..n)
        BY <3>1, MaxInSet
      <3> QED BY <3>2
    <2> HIDE DEF K
    <2> QED BY <1>1, <1>2, <2>1
  <1>4. SubSeq(s, 1, Len(s)) = s
    OBVIOUS
  <1>5. AtoI(s) = Number(SubSeq(s, 1, Max(K)))
    BY DEF AtoI
  <1> HIDE DEF K
  <1> QED BY <1>3, <1>4, <1>5

(* What printf("%d") writes atoi reads.                                    *)
LEMMA DecimalRead ==
  ASSUME NEW n \in Nat
  PROVE  /\ Decimal(n) \in Seq(Digits) /\ AtoI(Decimal(n)) = n
  <1> DEFINE Next1(at, m) == IF m < 10 THEN <<Digit[m+1]>>
                             ELSE Append(at[m \div 10], Digit[(m % 10) + 1])
             Eq(at) == at = [m \in 0..(IF n < 0 THEN -n ELSE n) |-> Next1(at, m)]
             c == CHOOSE at : Eq(at)
  <1>1. Decimal(n) = IF n < 0 THEN <<"-">> \o c[-n] ELSE c[n]
    BY Zenon DEF Decimal
  <1>2. ~(n < 0) /\ (IF n < 0 THEN -n ELSE n) = n
    OBVIOUS
  <1>3. ASSUME NEW m \in Nat, m >= 10
        PROVE  /\ m \div 10 \in Nat /\ m \div 10 < m /\ m % 10 \in 0..9
               /\ 10 * (m \div 10) + (m % 10) = m
    BY <1>3
  <1>4. \E at : Eq(at)
    <2> DEFINE Good(k, at) == /\ at = [m \in 0..k |-> at[m]]
                              /\ \A m \in 0..k : at[m] = Next1(at, m)
               T == {k \in 0..n : \E at : Good(k, at)}
    <2>1. 0 \in T
      <3> DEFINE at == [m \in 0..0 |-> <<Digit[1]>>]
      <3>1. Good(0, at)
        OBVIOUS
      <3>2. 0 \in 0..n /\ \E f : Good(0, f)
        <4> HIDE DEF at, Good
        <4> QED BY <3>1
      <3> QED BY <3>2
    <2>2. ASSUME NEW k \in 0..n-1, k \in T PROVE k+1 \in T
      <3>1. PICK at : Good(k, at)
        BY <2>2
      <3> DEFINE v == Next1(at, k+1)
                 new == [m \in 0..k+1 |-> IF m <= k THEN at[m] ELSE v]
      <3>2. /\ new = [m \in 0..k+1 |-> new[m]] /\ new[k+1] = v
            /\ \A m \in 0..k : new[m] = at[m]
        OBVIOUS
      <3> HIDE DEF new
      <3>3. ASSUME NEW m \in 0..k+1 PROVE Next1(new, m) = Next1(at, m)
        <4>1. CASE m < 10
          BY <4>1
        <4>2. CASE m >= 10
          <5>1. m \div 10 \in 0..k
            <6>1. m \in Nat /\ k \in Nat /\ m <= k + 1
              OBVIOUS
            <6>2. m \div 10 \in Nat /\ m \div 10 < m
              BY <1>3, <4>2, <6>1
            <6> QED BY <6>1, <6>2
          <5> QED BY <3>2, <4>2, <5>1
        <4> QED BY <4>1, <4>2
      <3> HIDE DEF Next1
      <3>4. ASSUME NEW m \in 0..k+1 PROVE new[m] = Next1(new, m)
        <4>1. CASE m = k+1
          BY <3>2, <3>3, <4>1
        <4>2. CASE m \in 0..k
          BY <3>1, <3>2, <3>3, <4>2
        <4> QED BY <4>1, <4>2
      <3>5. Good(k+1, new)
        BY <3>2, <3>4
      <3> QED BY <3>5
    <2>3. PICK at : Good(n, at)
      <3> HIDE DEF T
      <3>1. 0..n \subseteq T
        BY <2>1, <2>2, BoundedInduction
      <3>2. n \in T
        BY <3>1
      <3> QED BY <3>2 DEF T
    <2> HIDE DEF Next1
    <2>4. at = [m \in 0..n |-> Next1(at, m)]
      <3>1. at = [m \in 0..n |-> at[m]] /\ \A m \in 0..n : at[m] = Next1(at, m)
        BY <2>3
      <3> QED BY <3>1
    <2> QED BY <1>2, <2>4
  <1>5. Eq(c)
    <2> HIDE DEF Eq
    <2> QED BY <1>4
  <1> HIDE DEF c
  <1>6. ASSUME NEW m \in 0..n PROVE c[m] = Next1(c, m)
    <2> HIDE DEF Next1
    <2> QED BY <1>2, <1>5
  <1> DEFINE Right(m) == c[m] \in Seq(Digits) /\ Number(c[m]) = m
             T == {k \in 0..n : \A m \in 0..k : Right(m)}
  <1>7. ASSUME NEW m \in 0..n, \A j \in 0..m-1 : Right(j) PROVE Right(m)
    <2>1. CASE m < 10
      <3>1. c[m] = <<Digit[m+1]>>
        BY <1>6, <2>1
      <3>2. m+1 \in 1..10 /\ (m+1)-1 = m
        BY <2>1
      <3>3. Digit[m+1] \in Digits /\ Value(Digit[m+1]) = m
        BY <3>2, DigitValue
      <3>4. Number(<<Digit[m+1]>>) = m
        BY <3>3, NumberOfDigit
      <3> QED BY <3>1, <3>3, <3>4
    <2>2. CASE m >= 10
      <3> DEFINE q == m \div 10
                 r == m % 10
      <3>1. /\ q \in Nat /\ q < m /\ r \in 0..9 /\ 10 * q + r = m
        BY <1>3, <2>2
      <3>2. c[m] = Append(c[q], Digit[r + 1])
        <4>1. ~(m < 10)
          BY <2>2
        <4>2. c[m] = Next1(c, m)
          BY <1>6
        <4> QED BY <4>1, <4>2
      <3> HIDE DEF q, r
      <3>3. q \in 0..m-1 /\ r + 1 \in 1..10 /\ (r + 1) - 1 = r
        BY <3>1
      <3>4. c[q] \in Seq(Digits) /\ Number(c[q]) = q
        BY <1>7, <3>3
      <3>5. Digit[r + 1] \in Digits /\ Value(Digit[r + 1]) = r
        BY <3>3, DigitValue
      <3>6. Number(c[m]) = 10 * q + r
        BY <3>2, <3>4, <3>5, NumberAppend
      <3> QED BY <3>1, <3>2, <3>4, <3>5, <3>6
    <2> QED BY <2>1, <2>2
  <1> HIDE DEF Right
  <1>8. 0 \in T
    <2>1. Right(0)
      BY <1>7
    <2> QED BY <2>1
  <1>9. ASSUME NEW k \in 0..n-1, k \in T PROVE k+1 \in T
    <2>1. \A m \in 0..k : Right(m)
      BY <1>9
    <2>2. k+1 \in 0..n /\ (k+1)-1 = k
      OBVIOUS
    <2>3. Right(k+1)
      BY <1>7, <2>1, <2>2
    <2>4. \A m \in 0..k+1 : m \in 0..k \/ m = k+1
      OBVIOUS
    <2> QED BY <2>1, <2>2, <2>3, <2>4
  <1>10. Right(n)
    <2> HIDE DEF T
    <2>1. 0..n \subseteq T
      BY <1>8, <1>9, BoundedInduction
    <2>2. n \in T
      BY <2>1
    <2> QED BY <2>2 DEF T
  <1>11. Decimal(n) = c[n]
    BY <1>1, <1>2
  <1> QED BY <1>10, <1>11, AtoIDigits DEF Right

-----------------------------------------------------------------------------
(* What the client has read.                                               *)

(* The tokens a word can be made of.                                       *)
Plain == (UNION {ToSet(l) : l \in RequestLines}) \ {" ", "-", "\n"}

(* A date that has been read in part; the first date is read first.        *)
PartDates == [day : Nat \cup {-1}, month : Nat \cup {-1}, year : Nat \cup {-1}]

InOrder(d1, d2) ==
  /\ d2.day # -1 => d1.day # -1
  /\ d2.month # -1 => d1.month # -1
  /\ d2.year # -1 => d1.year # -1

Scanner ==
  {s \in [line : Seq(Plain), count : Nat, dateCount : Nat, type : Seq(Plain),
          city : Seq(Plain), d1 : PartDates, d2 : PartDates] : InOrder(s.d1, s.d2)}

Made ==
  {q \in [type : Seq(Plain) \ {<<>>}, d1 : PartDates, d2 : PartDates,
          city : Seq(Plain)] : InOrder(q.d1, q.d2)}

(* The array is filled from the front, and grown when it is full.          *)
Filled(c) ==
  IF c.overflow THEN c.requestSize = 2 * requestCapacity
  ELSE /\ DOMAIN c.requests = 0..requestCapacity-1
       /\ c.requestSize \in 0..requestCapacity
       /\ \A k \in DOMAIN c.requests :
            IF k < c.requestSize THEN c.requests[k] \in Made ELSE c.requests[k] = Hole

Arrays ==
  [0..requestCapacity-1 -> Made \cup {Hole}] \cup [0..2*requestCapacity-1 -> Made \cup {Hole}]

Clients ==
  {c \in [requests : Arrays, requestSize : Nat, overflow : BOOLEAN, scan : Scanner] :
     Filled(c)}

(* The scanner, field by field; and what a byte makes of it.               *)
ScannerAt(line, count, dateCount, type, city, d1, d2) ==
  [line |-> line, count |-> count, dateCount |-> dateCount, type |-> type,
   city |-> city, d1 |-> d1, d2 |-> d2]

YearRead(d, line) == [d EXCEPT !.year = AtoI(line)]
DayRead(d, line) == [d EXCEPT !.day = AtoI(line)]
MonthRead(d, line) == [d EXCEPT !.month = AtoI(line)]

LEMMA YearAt ==
  ASSUME NEW line, NEW count, NEW dateCount, NEW type, NEW city, NEW d1, NEW d2, NEW s,
         s = ScannerAt(line, count, dateCount, type, city, d1, d2)
  PROVE  /\ d1.year = -1 =>
              SetYear(s) = ScannerAt(<<>>, count, 0, type, city, YearRead(d1, line), d2)
         /\ d1.year # -1 =>
              SetYear(s) = ScannerAt(<<>>, count, 0, type, city, d1, YearRead(d2, line))
  <1>1. s.d1 = d1 /\ s.d2 = d2 /\ s.line = line
    BY DEF ScannerAt
  <1> DEFINE done == [s EXCEPT !.line = <<>>, !.dateCount = 0]
  <1>2. done = ScannerAt(<<>>, count, 0, type, city, d1, d2)
    <2> DEFINE u == [s EXCEPT !.line = <<>>]
    <2>1. done = [u EXCEPT !.dateCount = 0]
      OBVIOUS
    <2>2. u = ScannerAt(<<>>, count, dateCount, type, city, d1, d2)
      BY DEF ScannerAt
    <2> HIDE DEF u, done
    <2> QED BY <2>1, <2>2 DEF ScannerAt
  <1>3. SetYear(s) = IF d1.year = -1 THEN [done EXCEPT !.d1.year = AtoI(line)]
                                     ELSE [done EXCEPT !.d2.year = AtoI(line)]
    BY <1>1 DEF SetYear
  <1> HIDE DEF done
  <1> DEFINE n == AtoI(line)
  <1> HIDE DEF n
  <1>4. [done EXCEPT !.d1.year = n] =
          ScannerAt(<<>>, count, 0, type, city, [d1 EXCEPT !.year = n], d2)
    BY <1>2 DEF ScannerAt
  <1>5. [done EXCEPT !.d2.year = n] =
          ScannerAt(<<>>, count, 0, type, city, d1, [d2 EXCEPT !.year = n])
    BY <1>2 DEF ScannerAt
  <1> QED BY <1>3, <1>4, <1>5 DEF n, YearRead

LEMMA BlankAt ==
  ASSUME NEW line, NEW count \in Nat, NEW dateCount, NEW type, NEW city, NEW d1, NEW d2,
         NEW s, s = ScannerAt(line, count, dateCount, type, city, d1, d2)
  PROVE  /\ count = 1 =>
              ReadBlank(s) = ScannerAt(<<>>, count + 1, dateCount, line, city, d1, d2)
         /\ count \in {2, 3} /\ d1.year = -1 =>
              ReadBlank(s) = ScannerAt(<<>>, count + 1, 0, type, city, YearRead(d1, line), d2)
         /\ count \in {2, 3} /\ d1.year # -1 =>
              ReadBlank(s) = ScannerAt(<<>>, count + 1, 0, type, city, d1, YearRead(d2, line))
         /\ count = 4 =>
              ReadBlank(s) = ScannerAt(<<>>, count + 1, dateCount, type, line, d1, d2)
         /\ count \notin {1, 2, 3, 4} =>
              ReadBlank(s) = ScannerAt(<<>>, count + 1, dateCount, type, city, d1, d2)
  <1> DEFINE A == [s EXCEPT !.type = s.line, !.line = <<>>]
             B == SetYear(s)
             C == [s EXCEPT !.city = s.line, !.line = <<>>]
             D == [s EXCEPT !.line = <<>>]
             t == CASE s.count = 1 -> A
                    [] s.count \in {2, 3} -> B
                    [] s.count = 4 -> C
                    [] OTHER -> D
  <1>1. ReadBlank(s) = [t EXCEPT !.count = @ + 1]
    BY DEF ReadBlank
  <1>2. s.count = count /\ s.line = line
    BY DEF ScannerAt
  <1>3. /\ A = ScannerAt(<<>>, count, dateCount, line, city, d1, d2)
        /\ C = ScannerAt(<<>>, count, dateCount, type, line, d1, d2)
        /\ D = ScannerAt(<<>>, count, dateCount, type, city, d1, d2)
    <2>1. ASSUME NEW a3, NEW a4, NEW u, u = ScannerAt(line, count, dateCount, a3, a4, d1, d2)
          PROVE  [u EXCEPT !.line = <<>>] = ScannerAt(<<>>, count, dateCount, a3, a4, d1, d2)
      BY <2>1 DEF ScannerAt
    <2> DEFINE a == [s EXCEPT !.type = line]
               b == [s EXCEPT !.city = line]
    <2>2. A = [a EXCEPT !.line = <<>>] /\ C = [b EXCEPT !.line = <<>>]
      BY <1>2
    <2>3. a = ScannerAt(line, count, dateCount, line, city, d1, d2)
      BY DEF ScannerAt
    <2>4. b = ScannerAt(line, count, dateCount, type, line, d1, d2)
      BY DEF ScannerAt
    <2>5. D = ScannerAt(<<>>, count, dateCount, type, city, d1, d2)
      BY <2>1
    <2> HIDE DEF a, b, A, C
    <2> QED BY <2>1, <2>2, <2>3, <2>4, <2>5
  <1>4. /\ d1.year = -1 => B = ScannerAt(<<>>, count, 0, type, city, YearRead(d1, line), d2)
        /\ d1.year # -1 => B = ScannerAt(<<>>, count, 0, type, city, d1, YearRead(d2, line))
    BY YearAt
  <1>5. ASSUME NEW a1, NEW a2, NEW a3, NEW a4, NEW a5, NEW a6, NEW u,
               u = ScannerAt(a1, count, a2, a3, a4, a5, a6)
        PROVE  [u EXCEPT !.count = @ + 1] = ScannerAt(a1, count + 1, a2, a3, a4, a5, a6)
    BY <1>5 DEF ScannerAt
  <1> HIDE DEF A, B, C, D
  <1>6. /\ count = 1 => t = A
        /\ count \in {2, 3} => t = B
        /\ count = 4 => t = C
        /\ count \notin {1, 2, 3, 4} => t = D
    BY <1>2
  <1> HIDE DEF t
  <1>7. CASE count = 1
    BY <1>1, <1>3, <1>5, <1>6, <1>7
  <1>8. CASE count \in {2, 3}
    <2>1. ReadBlank(s) = [B EXCEPT !.count = @ + 1] /\ count # 1 /\ count # 4
      BY <1>1, <1>6, <1>8
    <2> QED BY <1>4, <1>5, <1>8, <2>1
  <1>9. CASE count = 4
    BY <1>1, <1>3, <1>5, <1>6, <1>9
  <1>10. CASE count \notin {1, 2, 3, 4}
    BY <1>1, <1>3, <1>5, <1>6, <1>10
  <1> QED BY <1>7, <1>8, <1>9, <1>10

LEMMA DashAt ==
  ASSUME NEW line, NEW count, NEW dateCount \in Nat, NEW type, NEW city, NEW d1, NEW d2,
         NEW s, s = ScannerAt(line, count, dateCount, type, city, d1, d2)
  PROVE  /\ dateCount = 0 /\ d1.day = -1 =>
              ReadDash(s) = ScannerAt(<<>>, count, 1, type, city, DayRead(d1, line), d2)
         /\ dateCount = 0 /\ d1.day # -1 =>
              ReadDash(s) = ScannerAt(<<>>, count, 1, type, city, d1, DayRead(d2, line))
         /\ dateCount = 1 /\ d1.month = -1 =>
              ReadDash(s) = ScannerAt(<<>>, count, 2, type, city, MonthRead(d1, line), d2)
         /\ dateCount = 1 /\ d1.month # -1 =>
              ReadDash(s) = ScannerAt(<<>>, count, 2, type, city, d1, MonthRead(d2, line))
         /\ dateCount \notin {0, 1} =>
              ReadDash(s) = ScannerAt(<<>>, count, dateCount + 1, type, city, d1, d2)
  <1> DEFINE n == AtoI(s.line)
             A == [s EXCEPT !.d1.day = n]
             B == [s EXCEPT !.d2.day = n]
             C == [s EXCEPT !.d1.month = n]
             D == [s EXCEPT !.d2.month = n]
             t == CASE s.dateCount = 0 /\ s.d1.day = -1 -> A
                    [] s.dateCount = 0 /\ s.d1.day # -1 -> B
                    [] s.dateCount = 1 /\ s.d1.month = -1 -> C
                    [] s.dateCount = 1 /\ s.d1.month # -1 -> D
                    [] OTHER -> s
  <1>1. ReadDash(s) = [t EXCEPT !.dateCount = @ + 1, !.line = <<>>]
    BY DEF ReadDash
  <1>2. s.dateCount = dateCount /\ s.line = line /\ s.d1 = d1 /\ n = AtoI(line)
    BY DEF ScannerAt
  <1> HIDE DEF n
  <1>3. /\ A = ScannerAt(line, count, dateCount, type, city, [d1 EXCEPT !.day = n], d2)
        /\ B = ScannerAt(line, count, dateCount, type, city, d1, [d2 EXCEPT !.day = n])
        /\ C = ScannerAt(line, count, dateCount, type, city, [d1 EXCEPT !.month = n], d2)
        /\ D = ScannerAt(line, count, dateCount, type, city, d1, [d2 EXCEPT !.month = n])
    BY DEF ScannerAt
  <1>4. /\ A = ScannerAt(line, count, dateCount, type, city, DayRead(d1, line), d2)
        /\ B = ScannerAt(line, count, dateCount, type, city, d1, DayRead(d2, line))
        /\ C = ScannerAt(line, count, dateCount, type, city, MonthRead(d1, line), d2)
        /\ D = ScannerAt(line, count, dateCount, type, city, d1, MonthRead(d2, line))
    BY <1>2, <1>3 DEF DayRead, MonthRead
  <1>5. ASSUME NEW a1, NEW a2, NEW u,
               u = ScannerAt(line, count, dateCount, type, city, a1, a2)
        PROVE  [u EXCEPT !.dateCount = @ + 1, !.line = <<>>] =
                 ScannerAt(<<>>, count, dateCount + 1, type, city, a1, a2)
    <2> DEFINE v == [u EXCEPT !.dateCount = @ + 1]
    <2>1. v = ScannerAt(line, count, dateCount + 1, type, city, a1, a2)
      BY <1>5 DEF ScannerAt
    <2>2. [u EXCEPT !.dateCount = @ + 1, !.line = <<>>] = [v EXCEPT !.line = <<>>]
      OBVIOUS
    <2> HIDE DEF v
    <2>3. [v EXCEPT !.line = <<>>] = ScannerAt(<<>>, count, dateCount + 1, type, city, a1, a2)
      BY <2>1 DEF ScannerAt
    <2> QED BY <2>2, <2>3
  <1> HIDE DEF A, B, C, D
  <1>6. /\ dateCount = 0 /\ d1.day = -1 => t = A
        /\ dateCount = 0 /\ d1.day # -1 => t = B
        /\ dateCount = 1 /\ d1.month = -1 => t = C
        /\ dateCount = 1 /\ d1.month # -1 => t = D
        /\ dateCount \notin {0, 1} => t = s
    BY <1>2
  <1> HIDE DEF t
  <1>7. ASSUME NEW a1, NEW a2, t = ScannerAt(line, count, dateCount, type, city, a1, a2)
        PROVE  ReadDash(s) = ScannerAt(<<>>, count, dateCount + 1, type, city, a1, a2)
    BY <1>1, <1>5, <1>7
  <1>8. CASE dateCount = 0
    <2>1. dateCount + 1 = 1
      BY <1>8
    <2>2. /\ d1.day = -1 => t = A
          /\ d1.day # -1 => t = B
      BY <1>6, <1>8
    <2> QED BY <1>4, <1>7, <1>8, <2>1, <2>2
  <1>9. CASE dateCount = 1
    <2>1. dateCount + 1 = 2
      BY <1>9
    <2>2. /\ d1.month = -1 => t = C
          /\ d1.month # -1 => t = D
      BY <1>6, <1>9
    <2> QED BY <1>4, <1>7, <1>9, <2>1, <2>2
  <1>10. CASE dateCount \notin {0, 1}
    BY <1>6, <1>7, <1>10
  <1> QED BY <1>8, <1>9, <1>10

(* The scanner's types.                                                    *)
Sound(line, count, dateCount, type, city, d1, d2) ==
  /\ line \in Seq(Plain) /\ type \in Seq(Plain) /\ city \in Seq(Plain)
  /\ count \in Nat /\ dateCount \in Nat
  /\ d1 \in PartDates /\ d2 \in PartDates /\ InOrder(d1, d2)

LEMMA ScannerOf ==
  ASSUME NEW line, NEW count, NEW dateCount, NEW type, NEW city, NEW d1, NEW d2,
         Sound(line, count, dateCount, type, city, d1, d2)
  PROVE  ScannerAt(line, count, dateCount, type, city, d1, d2) \in Scanner
  BY DEF Scanner, ScannerAt, Sound

LEMMA ScannerFields ==
  ASSUME NEW s \in Scanner
  PROVE  /\ s = ScannerAt(s.line, s.count, s.dateCount, s.type, s.city, s.d1, s.d2)
         /\ Sound(s.line, s.count, s.dateCount, s.type, s.city, s.d1, s.d2)
  BY DEF Scanner, ScannerAt, Sound

LEMMA DatesRead ==
  ASSUME NEW d \in PartDates, NEW line \in Seq(Plain)
  PROVE  /\ YearRead(d, line) \in PartDates /\ YearRead(d, line).year # -1
         /\ YearRead(d, line).day = d.day /\ YearRead(d, line).month = d.month
         /\ MonthRead(d, line) \in PartDates /\ MonthRead(d, line).month # -1
         /\ MonthRead(d, line).day = d.day /\ MonthRead(d, line).year = d.year
         /\ DayRead(d, line) \in PartDates /\ DayRead(d, line).day # -1
         /\ DayRead(d, line).month = d.month /\ DayRead(d, line).year = d.year
  <1> DEFINE n == AtoI(line)
  <1>1. n \in Nat
    BY AtoIType
  <1>2. YearRead(d, line) = [d EXCEPT !.year = n] /\ MonthRead(d, line) = [d EXCEPT !.month = n]
        /\ DayRead(d, line) = [d EXCEPT !.day = n]
    BY DEF YearRead, MonthRead, DayRead
  <1> HIDE DEF n
  <1> QED BY <1>1, <1>2 DEF PartDates

(* The dates after a byte that completes a part of one.                    *)
LEMMA InOrderKept ==
  ASSUME NEW d1 \in PartDates, NEW d2 \in PartDates, InOrder(d1, d2), NEW line \in Seq(Plain)
  PROVE  /\ InOrder(YearRead(d1, line), d2) /\ InOrder(MonthRead(d1, line), d2)
         /\ InOrder(DayRead(d1, line), d2)
         /\ d1.year # -1 => InOrder(d1, YearRead(d2, line))
         /\ d1.month # -1 => InOrder(d1, MonthRead(d2, line))
         /\ d1.day # -1 => InOrder(d1, DayRead(d2, line))
  BY DatesRead DEF InOrder

LEMMA FreshScanner == Fresh \in Scanner
  BY DEF Fresh, Scanner, PartDates, InOrder, NoDate

LEMMA YearSet ==
  ASSUME NEW s \in Scanner
  PROVE  SetYear(s) \in Scanner /\ SetYear(s).type = s.type
  <1>1. PICK line, count, dateCount, type, city, d1, d2 :
           /\ s = ScannerAt(line, count, dateCount, type, city, d1, d2)
           /\ Sound(line, count, dateCount, type, city, d1, d2)
    BY ScannerFields
  <1>2. line \in Seq(Plain) /\ d1 \in PartDates /\ d2 \in PartDates /\ InOrder(d1, d2)
    BY <1>1 DEF Sound
  <1>3. CASE d1.year = -1
    <2>1. SetYear(s) = ScannerAt(<<>>, count, 0, type, city, YearRead(d1, line), d2)
      BY <1>1, <1>3, YearAt
    <2>2. Sound(<<>>, count, 0, type, city, YearRead(d1, line), d2)
      BY <1>1, <1>2, DatesRead, InOrderKept DEF Sound
    <2>3. SetYear(s).type = type /\ s.type = type
      BY <1>1, <2>1 DEF ScannerAt
    <2> QED BY <2>1, <2>2, <2>3, ScannerOf
  <1>4. CASE d1.year # -1
    <2>1. SetYear(s) = ScannerAt(<<>>, count, 0, type, city, d1, YearRead(d2, line))
      BY <1>1, <1>4, YearAt
    <2>2. Sound(<<>>, count, 0, type, city, d1, YearRead(d2, line))
      <3> DEFINE e == YearRead(d2, line)
      <3>1. e \in PartDates
        BY <1>2, DatesRead
      <3>2. InOrder(d1, e)
        BY <1>2, <1>4, InOrderKept
      <3>3. <<>> \in Seq(Plain)
        OBVIOUS
      <3> HIDE DEF e
      <3>4. Sound(<<>>, count, 0, type, city, d1, e)
        BY ONLY <1>1, <1>2, <3>1, <3>2, <3>3 DEF Sound
      <3> QED BY <3>4 DEF e
    <2>3. SetYear(s).type = type /\ s.type = type
      BY <1>1, <2>1 DEF ScannerAt
    <2> QED BY <2>1, <2>2, <2>3, ScannerOf
  <1> QED BY <1>3, <1>4

LEMMA BlankRead ==
  ASSUME NEW s \in Scanner
  PROVE  ReadBlank(s) \in Scanner
  <1>1. PICK line, count, dateCount, type, city, d1, d2 :
           /\ s = ScannerAt(line, count, dateCount, type, city, d1, d2)
           /\ Sound(line, count, dateCount, type, city, d1, d2)
    BY ScannerFields
  <1>2. /\ line \in Seq(Plain) /\ d1 \in PartDates /\ d2 \in PartDates /\ InOrder(d1, d2)
        /\ count \in Nat /\ count + 1 \in Nat /\ <<>> \in Seq(Plain)
    BY <1>1 DEF Sound
  <1>3. CASE count = 1
    <2>1. ReadBlank(s) = ScannerAt(<<>>, count + 1, dateCount, line, city, d1, d2)
      BY <1>1, <1>2, <1>3, BlankAt
    <2>2. Sound(<<>>, count + 1, dateCount, line, city, d1, d2)
      BY <1>1, <1>2 DEF Sound
    <2> QED BY <2>1, <2>2, ScannerOf
  <1>4. CASE count \in {2, 3} /\ d1.year = -1
    <2>1. ReadBlank(s) = ScannerAt(<<>>, count + 1, 0, type, city, YearRead(d1, line), d2)
      BY <1>1, <1>2, <1>4, BlankAt
    <2>2. Sound(<<>>, count + 1, 0, type, city, YearRead(d1, line), d2)
      BY <1>1, <1>2, DatesRead, InOrderKept DEF Sound
    <2> QED BY <2>1, <2>2, ScannerOf
  <1>5. CASE count \in {2, 3} /\ d1.year # -1
    <2>1. ReadBlank(s) = ScannerAt(<<>>, count + 1, 0, type, city, d1, YearRead(d2, line))
      BY <1>1, <1>2, <1>5, BlankAt
    <2>2. Sound(<<>>, count + 1, 0, type, city, d1, YearRead(d2, line))
      BY <1>1, <1>2, <1>5, DatesRead, InOrderKept DEF Sound
    <2> QED BY <2>1, <2>2, ScannerOf
  <1>6. CASE count = 4
    <2>1. ReadBlank(s) = ScannerAt(<<>>, count + 1, dateCount, type, line, d1, d2)
      BY <1>1, <1>2, <1>6, BlankAt
    <2>2. Sound(<<>>, count + 1, dateCount, type, line, d1, d2)
      BY <1>1, <1>2 DEF Sound
    <2> QED BY <2>1, <2>2, ScannerOf
  <1>7. CASE count \notin {1, 2, 3, 4}
    <2>1. ReadBlank(s) = ScannerAt(<<>>, count + 1, dateCount, type, city, d1, d2)
      BY <1>1, <1>2, <1>7, BlankAt
    <2>2. Sound(<<>>, count + 1, dateCount, type, city, d1, d2)
      BY <1>1, <1>2 DEF Sound
    <2> QED BY <2>1, <2>2, ScannerOf
  <1> QED BY <1>3, <1>4, <1>5, <1>6, <1>7

LEMMA DashRead ==
  ASSUME NEW s \in Scanner
  PROVE  ReadDash(s) \in Scanner
  <1>1. PICK line, count, dateCount, type, city, d1, d2 :
           /\ s = ScannerAt(line, count, dateCount, type, city, d1, d2)
           /\ Sound(line, count, dateCount, type, city, d1, d2)
    BY ScannerFields
  <1>2. /\ line \in Seq(Plain) /\ d1 \in PartDates /\ d2 \in PartDates /\ InOrder(d1, d2)
        /\ dateCount \in Nat /\ dateCount + 1 \in Nat /\ <<>> \in Seq(Plain)
    BY <1>1 DEF Sound
  <1>3. CASE dateCount = 0 /\ d1.day = -1
    <2>1. ReadDash(s) = ScannerAt(<<>>, count, 1, type, city, DayRead(d1, line), d2)
      BY <1>1, <1>2, <1>3, DashAt
    <2>2. Sound(<<>>, count, 1, type, city, DayRead(d1, line), d2)
      BY <1>1, <1>2, DatesRead, InOrderKept DEF Sound
    <2> QED BY <2>1, <2>2, ScannerOf
  <1>4. CASE dateCount = 0 /\ d1.day # -1
    <2>1. ReadDash(s) = ScannerAt(<<>>, count, 1, type, city, d1, DayRead(d2, line))
      BY <1>1, <1>2, <1>4, DashAt
    <2>2. Sound(<<>>, count, 1, type, city, d1, DayRead(d2, line))
      BY <1>1, <1>2, <1>4, DatesRead, InOrderKept DEF Sound
    <2> QED BY <2>1, <2>2, ScannerOf
  <1>5. CASE dateCount = 1 /\ d1.month = -1
    <2>1. ReadDash(s) = ScannerAt(<<>>, count, 2, type, city, MonthRead(d1, line), d2)
      BY <1>1, <1>2, <1>5, DashAt
    <2>2. Sound(<<>>, count, 2, type, city, MonthRead(d1, line), d2)
      BY <1>1, <1>2, DatesRead, InOrderKept DEF Sound
    <2> QED BY <2>1, <2>2, ScannerOf
  <1>6. CASE dateCount = 1 /\ d1.month # -1
    <2>1. ReadDash(s) = ScannerAt(<<>>, count, 2, type, city, d1, MonthRead(d2, line))
      BY <1>1, <1>2, <1>6, DashAt
    <2>2. Sound(<<>>, count, 2, type, city, d1, MonthRead(d2, line))
      BY <1>1, <1>2, <1>6, DatesRead, InOrderKept DEF Sound
    <2> QED BY <2>1, <2>2, ScannerOf
  <1>7. CASE dateCount \notin {0, 1}
    <2>1. ReadDash(s) = ScannerAt(<<>>, count, dateCount + 1, type, city, d1, d2)
      BY <1>1, <1>2, <1>7, DashAt
    <2>2. Sound(<<>>, count, dateCount + 1, type, city, d1, d2)
      BY <1>1, <1>2 DEF Sound
    <2> QED BY <2>1, <2>2, ScannerOf
  <1> QED BY <1>3, <1>4, <1>5, <1>6, <1>7

LEMMA LineScanned ==
  ASSUME NEW s, s \in Scanner, NEW b, b \in Plain \cup {" ", "-"}
  PROVE  ScanLine(s, b) \in Scanner
  <1>1. CASE b = " "
    BY <1>1, BlankRead DEF ScanLine
  <1>2. CASE b = "-"
    BY <1>2, DashRead DEF ScanLine
  <1>0. s \in Scanner
    OBVIOUS
  <1>3. CASE b \notin {" ", "-"}
    <2>1. PICK line, count, dateCount, type, city, d1, d2 :
             /\ s = ScannerAt(line, count, dateCount, type, city, d1, d2)
             /\ Sound(line, count, dateCount, type, city, d1, d2)
      BY ScannerFields
    <2>2. line \in Seq(Plain) /\ b \in Plain /\ b # " " /\ b # "-"
      BY <1>3, <2>1 DEF Sound
    <2> DEFINE e == Append(line, b)
    <2>3. e \in Seq(Plain)
      BY ONLY <2>2, AppendProperties
    <2>4. e = Append(line, b)
      OBVIOUS
    <2> HIDE DEF e
    <2>5. ScanLine(s, b) = ScannerAt(e, count, dateCount, type, city, d1, d2)
      <3>1. s.line = line
        BY <2>1 DEF ScannerAt
      <3> DEFINE u == [s EXCEPT !.line = e]
      <3>2. u = ScannerAt(e, count, dateCount, type, city, d1, d2)
        BY ONLY <2>1 DEF ScannerAt
      <3>3. ScanLine(s, b) = u
        BY <2>2, <2>4, <3>1 DEF ScanLine
      <3> HIDE DEF u
      <3> QED BY <3>2, <3>3
    <2>6. Sound(e, count, dateCount, type, city, d1, d2)
      BY <2>1, <2>3 DEF Sound
    <2> QED BY <2>5, <2>6, ScannerOf
  <1> QED BY <1>1, <1>2, <1>3

-----------------------------------------------------------------------------
(* The array of requests.                                                  *)
ClientAt(requests, size, overflow, scan) ==
  [requests |-> requests, requestSize |-> size, overflow |-> overflow, scan |-> scan]

LEMMA ClientFields ==
  ASSUME NEW c, c \in Clients
  PROVE  /\ c = ClientAt(c.requests, c.requestSize, c.overflow, c.scan)
         /\ c.requests \in Arrays /\ c.requestSize \in Nat /\ c.overflow \in BOOLEAN
         /\ c.scan \in Scanner /\ Filled(c)
  BY DEF Clients, ClientAt

LEMMA ClientOf ==
  ASSUME NEW requests, requests \in Arrays, NEW size, size \in Nat,
         NEW overflow, overflow \in BOOLEAN, NEW scan, scan \in Scanner,
         NEW c, c = ClientAt(requests, size, overflow, scan), Filled(c)
  PROVE  c \in Clients
  BY DEF Clients, ClientAt

LEMMA NoHole == Hole \notin Made
  <1>1. Plain \subseteq Token
    <2>1. ASSUME NEW l \in RequestLines PROVE ToSet(l) \subseteq Token
      <3>1. l \in Seq(Token \ {"\n"})
        BY ScannerAssumption
      <3> QED BY <3>1 DEF ToSet
    <2> QED BY <2>1 DEF Plain
  <1>2. Seq(Plain) \subseteq Seq(Token)
    BY <1>1, SeqMonotonic
  <1>3. PartDates \subseteq Dates
    <2>1. ASSUME NEW d \in PartDates PROVE d \in Dates
      <3>1. d = [day |-> d.day, month |-> d.month, year |-> d.year]
            /\ d.day \in Int /\ d.month \in Int /\ d.year \in Int
        BY DEF PartDates
      <3> QED BY <3>1 DEF Dates
    <2> QED BY <2>1
  <1>4. ASSUME NEW q, q \in Made PROVE q \in Request
    <2>1. q = [type |-> q.type, d1 |-> q.d1, d2 |-> q.d2, city |-> q.city]
          /\ q.type \in Seq(Plain) /\ q.d1 \in PartDates /\ q.d2 \in PartDates
          /\ q.city \in Seq(Plain)
      BY <1>4 DEF Made
    <2> QED BY <1>2, <1>3, <2>1 DEF Request
  <1> QED BY <1>4, ScannerAssumption

(* A request is written behind the others while there is room.             *)
LEMMA RequestAdded ==
  ASSUME NEW c, c \in Clients, ~c.overflow, c.requestSize < requestCapacity,
         NEW req, req \in Made
  PROVE  AddRequest(c, req) =
           ClientAt([c.requests EXCEPT ![c.requestSize] = req], c.requestSize + 1,
                    FALSE, c.scan)
  <1>1. /\ c = ClientAt(c.requests, c.requestSize, c.overflow, c.scan)
        /\ c.requestSize \in Nat /\ c.overflow \in BOOLEAN /\ Filled(c)
    BY ClientFields
  <1>2. requestCapacity \in Nat
    BY ScannerAssumption
  <1>3. DOMAIN c.requests = 0..requestCapacity-1
    BY <1>1 DEF Filled
  <1>4. ~Full(c) /\ c.requestSize \in DOMAIN c.requests
    BY <1>1, <1>2, <1>3 DEF Full
  <1> DEFINE u == [c EXCEPT !.requests[c.requestSize] = req]
             v == [u EXCEPT !.requestSize = c.requestSize + 1]
  <1>5. AddRequest(c, req) = v
    <2>1. AddRequest(c, req) =
            [c EXCEPT !.requests[c.requestSize] = req, !.requestSize = c.requestSize + 1]
      BY <1>4 DEF AddRequest
    <2> QED BY <2>1
  <1> DEFINE r == [c.requests EXCEPT ![c.requestSize] = req]
  <1>6. u = ClientAt(r, c.requestSize, c.overflow, c.scan)
    BY <1>1 DEF ClientAt
  <1> HIDE DEF u, r
  <1>7. v = ClientAt(r, c.requestSize + 1, c.overflow, c.scan)
    BY <1>6 DEF ClientAt
  <1>8. c.overflow = FALSE
    BY <1>1
  <1> HIDE DEF v
  <1> QED BY <1>5, <1>7, <1>8 DEF r

(* The request after those is lost, and the array with it.                 *)
LEMMA RequestLost ==
  ASSUME NEW c, c \in Clients, ~c.overflow, c.requestSize >= requestCapacity, NEW req
  PROVE  AddRequest(c, req) =
           ClientAt([i \in 0..2*c.requestSize-1 |->
                       IF i < c.requestSize THEN c.requests[i] ELSE Hole],
                    2 * c.requestSize, TRUE, c.scan)
  <1>1. /\ c = ClientAt(c.requests, c.requestSize, c.overflow, c.scan)
        /\ c.requestSize \in Nat /\ c.overflow \in BOOLEAN
    BY ClientFields
  <1> DEFINE r == [i \in 0..2*c.requestSize-1 |->
                     IF i < c.requestSize THEN c.requests[i] ELSE Hole]
             u == [c EXCEPT !.requests = r]
             v == [u EXCEPT !.requestSize = 2 * c.requestSize]
             true == TRUE
             w == [v EXCEPT !.overflow = true]
  <1>2. DOMAIN r = 0..2*c.requestSize-1
    OBVIOUS
  <1>3. ResizeRequests(c) = v
    <2>1. ResizeRequests(c) = [c EXCEPT !.requests = r, !.requestSize = 2 * @]
      BY DEF ResizeRequests
    <2> HIDE DEF r
    <2> QED BY <2>1
  <1>4. Full(c)
    BY DEF Full
  <1> HIDE DEF r
  <1>5. u = ClientAt(r, c.requestSize, c.overflow, c.scan)
    BY <1>1 DEF ClientAt
  <1> HIDE DEF u
  <1>6. v = ClientAt(r, 2 * c.requestSize, c.overflow, c.scan)
    BY <1>5 DEF ClientAt
  <1> HIDE DEF v
  <1> HIDE DEF true
  <1>7. w = ClientAt(r, 2 * c.requestSize, true, c.scan)
    BY <1>6 DEF ClientAt
  <1>8. v.requestSize = 2 * c.requestSize /\ v.requests = r
    BY <1>6 DEF ClientAt
  <1>9. v.requestSize \notin DOMAIN v.requests
    BY <1>1, <1>2, <1>8
  <1>10. AddRequest(c, req) = [v EXCEPT !.overflow = TRUE]
    BY <1>3, <1>4, <1>9 DEF AddRequest
  <1>11. AddRequest(c, req) = w
    BY <1>10 DEF true
  <1> HIDE DEF w
  <1> QED BY <1>7, <1>11 DEF r, true

(* What the array holds, taken apart.                                      *)
LEMMA FilledArray ==
  ASSUME NEW c, c \in Clients, ~c.overflow
  PROVE  /\ c.requests \in [0..requestCapacity-1 -> Made \cup {Hole}]
         /\ c.requestSize \in 0..requestCapacity
         /\ \A k \in 0..requestCapacity-1 :
              IF k < c.requestSize THEN c.requests[k] \in Made ELSE c.requests[k] = Hole
  <1>1. c.requests \in Arrays /\ Filled(c)
    BY ClientFields
  <1>2. /\ DOMAIN c.requests = 0..requestCapacity-1
        /\ c.requestSize \in 0..requestCapacity
        /\ \A k \in DOMAIN c.requests :
             IF k < c.requestSize THEN c.requests[k] \in Made ELSE c.requests[k] = Hole
    BY <1>1 DEF Filled
  <1>3. \A k \in DOMAIN c.requests : c.requests[k] \in Made \cup {Hole}
    BY <1>2
  <1>4. c.requests = [k \in DOMAIN c.requests |-> c.requests[k]]
    BY <1>1 DEF Arrays
  <1> QED BY <1>2, <1>3, <1>4

(* A line keeps the array in order, whatever the scanner is afterwards.    *)
LEMMA ArrayKept ==
  ASSUME NEW c, c \in Clients, ~c.overflow, NEW req, req \in Made,
         NEW scan, scan \in Scanner
  PROVE  [AddRequest(c, req) EXCEPT !.scan = scan] \in Clients
  <1>1. /\ c.requests \in [0..requestCapacity-1 -> Made \cup {Hole}]
        /\ c.requestSize \in 0..requestCapacity
        /\ \A k \in 0..requestCapacity-1 :
             IF k < c.requestSize THEN c.requests[k] \in Made ELSE c.requests[k] = Hole
    BY FilledArray
  <1>2. requestCapacity \in Nat \ {0}
    BY ScannerAssumption
  <1> DEFINE n == c.requestSize
  <1>3. CASE n < requestCapacity
    <2> DEFINE r == [c.requests EXCEPT ![n] = req]
               m == n + 1
               false == FALSE
               u == AddRequest(c, req)
               v == [u EXCEPT !.scan = scan]
    <2>1. u = ClientAt(r, m, false, c.scan)
      BY <1>3, RequestAdded
    <2>2. r \in [0..requestCapacity-1 -> Made \cup {Hole}]
      BY <1>1
    <2>3. m \in 0..requestCapacity /\ m \in Nat /\ n \in 0..requestCapacity-1
      BY <1>1, <1>2, <1>3
    <2>4. ASSUME NEW k \in 0..requestCapacity-1
          PROVE  IF k < m THEN r[k] \in Made ELSE r[k] = Hole
      <3>1. r[k] = IF k = n THEN req ELSE c.requests[k]
        BY <1>1
      <3> HIDE DEF r
      <3> QED BY <1>1, <3>1
    <2> HIDE DEF u, r, m, n, false
    <2>5. v = ClientAt(r, m, false, scan)
      BY <2>1 DEF ClientAt
    <2>6. v.requests = r /\ v.requestSize = m /\ v.overflow = false
      BY <2>5 DEF ClientAt
    <2>7. DOMAIN r = 0..requestCapacity-1 /\ r \in Arrays
      BY <2>2 DEF Arrays
    <2>8. Filled(v)
      <3> HIDE DEF v
      <3>1. ~v.overflow
        BY <2>6 DEF false
      <3> QED BY <2>3, <2>4, <2>6, <2>7, <3>1 DEF Filled
    <2>9. false \in BOOLEAN
      BY DEF false
    <2> HIDE DEF v
    <2>10. v \in Clients
      BY <2>3, <2>5, <2>7, <2>8, <2>9, ClientOf
    <2> QED BY <2>10 DEF v, u
  <1>4. CASE n >= requestCapacity
    <2> DEFINE r == [i \in 0..2*n-1 |-> IF i < n THEN c.requests[i] ELSE Hole]
               m == 2 * n
               true == TRUE
               u == AddRequest(c, req)
               v == [u EXCEPT !.scan = scan]
    <2>1. u = ClientAt(r, m, true, c.scan)
      BY <1>4, RequestLost
    <2>2. n = requestCapacity /\ m \in Nat /\ m = 2 * requestCapacity
      BY <1>1, <1>2, <1>4
    <2>3. r \in Arrays
      <3>1. \A i \in 0..2*n-1 : (IF i < n THEN c.requests[i] ELSE Hole) \in Made \cup {Hole}
        BY <1>1, <1>2, <2>2
      <3>2. r \in [0..2*requestCapacity-1 -> Made \cup {Hole}]
        BY <2>2, <3>1
      <3> QED BY <3>2 DEF Arrays
    <2> HIDE DEF u, r, m, n, true
    <2>4. v = ClientAt(r, m, true, scan)
      BY <2>1 DEF ClientAt
    <2>5. v.requestSize = m /\ v.overflow = true
      BY <2>4 DEF ClientAt
    <2>6. Filled(v)
      <3> HIDE DEF v
      <3>1. v.overflow
        BY <2>5 DEF true
      <3> QED BY <2>2, <2>5, <3>1 DEF Filled
    <2>7. true \in BOOLEAN
      BY DEF true
    <2> HIDE DEF v
    <2>8. v \in Clients
      BY <2>2, <2>3, <2>4, <2>6, <2>7, ClientOf
    <2> QED BY <2>8 DEF v, u
  <1>5. n \in Nat
    BY <1>1, <1>2
  <1> HIDE DEF n
  <1> QED BY <1>2, <1>3, <1>4, <1>5

LEMMA WordEnded ==
  ASSUME NEW s, s \in Scanner
  PROVE  EndWord(s) \in Scanner /\ EndWord(s).type = s.type
  <1>1. SetYear(s) \in Scanner /\ SetYear(s).type = s.type
    BY YearSet
  <1>2. [s EXCEPT !.city = s.line] \in Scanner /\ [s EXCEPT !.city = s.line].type = s.type
    <2> DEFINE l == s.line
               u == [s EXCEPT !.city = l]
    <2>1. /\ s = ScannerAt(l, s.count, s.dateCount, s.type, s.city, s.d1, s.d2)
          /\ Sound(l, s.count, s.dateCount, s.type, s.city, s.d1, s.d2)
      BY ScannerFields
    <2>2. Sound(l, s.count, s.dateCount, s.type, l, s.d1, s.d2)
      BY <2>1 DEF Sound
    <2> HIDE DEF l
    <2>3. u = ScannerAt(l, s.count, s.dateCount, s.type, l, s.d1, s.d2)
      BY <2>1 DEF ScannerAt
    <2> HIDE DEF u
    <2>4. u \in Scanner /\ u.type = s.type
      BY <2>2, <2>3, ScannerOf DEF ScannerAt
    <2> QED BY <2>4 DEF u, l
  <1> DEFINE A == SetYear(s)
             B == [s EXCEPT !.city = s.line]
  <1>3. EndWord(s) = CASE s.line = <<>> -> s
                       [] s.line # <<>> /\ s.count \in {2, 3} -> A
                       [] OTHER -> B
    BY DEF EndWord
  <1> HIDE DEF A, B
  <1>4. EndWord(s) \in {s, A, B}
    BY <1>3
  <1> QED BY <1>1, <1>2, <1>4 DEF A, B

LEMMA RequestMade ==
  ASSUME NEW s, s \in Scanner, s.type # <<>>
  PROVE  CreateReq(EndWord(s)) \in Made
  <1> DEFINE d == EndWord(s)
  <1>1. d \in Scanner /\ d.type # <<>>
    BY WordEnded
  <1> HIDE DEF d
  <1>2. Sound(d.line, d.count, d.dateCount, d.type, d.city, d.d1, d.d2)
    BY <1>1, ScannerFields
  <1>3. CreateReq(d) \in Made
    BY <1>1, <1>2 DEF CreateReq, Made, Sound
  <1> QED BY <1>3 DEF d

LEMMA NewlineScanned ==
  ASSUME NEW c, c \in Clients, ~c.overflow
  PROVE  /\ c.scan.type = <<>> => ReadNewline(c) = c
         /\ c.scan.type # <<>> =>
              ReadNewline(c) = [AddRequest(c, CreateReq(EndWord(c.scan))) EXCEPT !.scan = Fresh]
         /\ ReadNewline(c) \in Clients
  <1> DEFINE u == [AddRequest(c, CreateReq(EndWord(c.scan))) EXCEPT !.scan = Fresh]
  <1>1. ReadNewline(c) = IF c.scan.type = <<>> THEN c ELSE u
    BY DEF ReadNewline, EndLine
  <1>2. c.scan.type # <<>> => u \in Clients
    <2>1. c.scan \in Scanner
      BY ClientFields
    <2>2. c.scan.type # <<>> => CreateReq(EndWord(c.scan)) \in Made
      BY <2>1, RequestMade
    <2> QED BY <2>2, FreshScanner, ArrayKept
  <1> HIDE DEF u
  <1> QED BY <1>1, <1>2 DEF u

ClientBytes == Plain \cup {" ", "-", "\n"}

(* One byte of the request file.                                           *)
LEMMA ByteScanned ==
  ASSUME NEW c, c \in Clients, NEW b, b \in ClientBytes
  PROVE  ScanRequestFile(c, b) \in Clients
  <1> DEFINE u == [c EXCEPT !.scan = ScanLine(@, b)]
  <1>1. ScanRequestFile(c, b) = IF c.overflow THEN c
                                ELSE IF b = "\n" THEN ReadNewline(c) ELSE u
    BY DEF ScanRequestFile
  <1>2. b # "\n" => u \in Clients
    <2> SUFFICES ASSUME b # "\n" PROVE u \in Clients
      OBVIOUS
    <2> DEFINE scan == ScanLine(c.scan, b)
               r == c.requests
               m == c.requestSize
               o == c.overflow
    <2>1. /\ c = ClientAt(r, m, o, c.scan)
          /\ r \in Arrays /\ m \in Nat /\ o \in BOOLEAN
          /\ c.scan \in Scanner /\ Filled(c)
      BY ClientFields
    <2>2. scan \in Scanner
      BY <2>1, LineScanned DEF ClientBytes
    <2>3. u = [c EXCEPT !.scan = scan]
      OBVIOUS
    <2> HIDE DEF scan, r, m, o
    <2> DEFINE old == c.scan
    <2>4. c = ClientAt(r, m, o, old)
      BY <2>1
    <2> HIDE DEF old
    <2>5. u = ClientAt(r, m, o, scan)
      BY ONLY <2>3, <2>4 DEF ClientAt
    <2>6. u.requests = c.requests /\ u.requestSize = c.requestSize /\ u.overflow = c.overflow
      BY ONLY <2>5, <2>4 DEF ClientAt
    <2> HIDE DEF u
    <2>7. Filled(u)
      BY <2>1, <2>6 DEF Filled
    <2> QED BY <2>1, <2>2, <2>5, <2>7, ClientOf
  <1> HIDE DEF u
  <1> QED BY <1>1, <1>2, NewlineScanned

ClientRun(f, c, text) ==
  /\ f \in [0..Len(text) -> Clients]
  /\ f[0] = c /\ f[Len(text)] = FoldLeft(ScanRequestFile, c, text)
  /\ \A k \in 1..Len(text) : f[k] = ScanRequestFile(f[k-1], text[k])

(* The bytes of a text one by one.                                         *)
LEMMA TextScanned ==
  ASSUME NEW c, c \in Clients, NEW text \in Seq(ClientBytes)
  PROVE  \E f : ClientRun(f, c, text)
  <1> DEFINE n == Len(text)
             step == [p \in Clients \X (1..n) |-> ScanRequestFile(p[1], text[p[2]])]
             Eq(it) == it = [t \in SUBSET (DOMAIN text) |->
                               IF t = {} THEN c
                               ELSE ScanRequestFile(it[t \ {Max(t)}], text[Max(t)])]
             g == CHOOSE it : Eq(it)
  <1>1. FoldLeft(ScanRequestFile, c, text) = g[DOMAIN text]
    BY Zenon DEF FoldLeft, MapThenFoldSet
  <1>2. n \in Nat /\ DOMAIN text = 1..n
        /\ \A k \in 1..n : text[k] \in ClientBytes
    OBVIOUS
  <1> HIDE DEF n
  <1>3. step \in [Clients \X (1..n) -> Clients]
    BY <1>2, ByteScanned
  <1>4. \E it : Eq(it)
    <2> HIDE DEF step
    <2>1. PICK it : /\ it = [t \in SUBSET (1..n) |->
                               IF t = {} THEN c ELSE step[<<it[t \ {Max(t)}], Max(t)>>]]
                    /\ \A t \in SUBSET (1..n) :
                         it[t] \in Clients /\ (t # {} => Max(t) \in t)
      BY <1>2, <1>3, FoldInterval
    <2>2. ASSUME NEW t \in SUBSET (1..n)
          PROVE  it[t] = IF t = {} THEN c ELSE ScanRequestFile(it[t \ {Max(t)}], text[Max(t)])
      <3>1. CASE t = {}
        BY <2>1, <3>1
      <3>2. CASE t # {}
        <4>1. it[t \ {Max(t)}] \in Clients /\ Max(t) \in 1..n
          BY <2>1, <3>2
        <4>2. it[t] = step[<<it[t \ {Max(t)}], Max(t)>>]
          BY <2>1, <3>2
        <4> QED BY <3>2, <4>1, <4>2 DEF step
      <3> QED BY <3>1, <3>2
    <2>3. it = [t \in SUBSET (1..n) |-> it[t]]
      BY <2>1
    <2>4. Eq(it)
      BY <1>2, <2>2, <2>3
    <2> QED BY <2>4
  <1>5. Eq(g)
    <2> HIDE DEF Eq
    <2> QED BY <1>4
  <1> HIDE DEF g
  <1>6. FoldSteps(g, n, Clients, c, step)
    <2>1. g[{}] = c
      BY <1>2, <1>5
    <2>2. ASSUME NEW t \in SUBSET (1..n), t # {}, g[t \ {Max(t)}] \in Clients, Max(t) \in 1..n
          PROVE  g[t] = step[<<g[t \ {Max(t)}], Max(t)>>]
      BY <1>2, <1>5, <2>2
    <2> HIDE DEF step
    <2> QED BY <2>1, <2>2 DEF FoldSteps
  <1>7. PICK f : Trace(f, n, Clients, c, step, g[1..n])
    <2> HIDE DEF step
    <2> QED BY <1>2, <1>3, <1>6, FoldTrace
  <1>8. ASSUME NEW k \in 1..n PROVE f[k] = ScanRequestFile(f[k-1], text[k])
    <2>1. f[k-1] \in Clients /\ text[k] \in ClientBytes
      BY <1>2, <1>7 DEF Trace
    <2> QED BY <1>7, <2>1 DEF Trace
  <1>9. ClientRun(f, c, text)
    BY <1>1, <1>2, <1>7, <1>8 DEF n, Trace, ClientRun
  <1> QED BY <1>9

LEMMA TextRead ==
  ASSUME NEW c, c \in Clients, NEW text \in Seq(ClientBytes)
  PROVE  FoldLeft(ScanRequestFile, c, text) \in Clients
  <1>1. PICK f : ClientRun(f, c, text)
    BY TextScanned
  <1>2. Len(text) \in 0..Len(text)
    OBVIOUS
  <1> QED BY <1>1, <1>2 DEF ClientRun

-----------------------------------------------------------------------------
(* What a servant has read of the file of a date.                          *)
Estates ==
  [id : Nat \cup {-1}, type : Seq(Token), street : Seq(Token), surface : Nat, price : Nat]

Readers(d) ==
  [date : {d}, value : Seq(Token), count : Nat, transactionId : Nat \cup {-1},
   type : Seq(Token), street : Seq(Token), surface : Nat, live : SUBSET {"type", "street"},
   estates : Seq(Estates), fault : BOOLEAN]

LEMMA ReaderSet ==
  ASSUME NEW d, NEW s, s \in Readers(d)
  PROVE  /\ \A v \in Seq(Token) : /\ [s EXCEPT !.value = v] \in Readers(d)
                                  /\ [s EXCEPT !.type = v] \in Readers(d)
                                  /\ [s EXCEPT !.street = v] \in Readers(d)
         /\ \A n \in Nat : /\ [s EXCEPT !.count = n] \in Readers(d)
                           /\ [s EXCEPT !.transactionId = n] \in Readers(d)
                           /\ [s EXCEPT !.surface = n] \in Readers(d)
         /\ \A v \in SUBSET {"type", "street"} : [s EXCEPT !.live = v] \in Readers(d)
         /\ \A v \in Seq(Estates) : [s EXCEPT !.estates = v] \in Readers(d)
         /\ [s EXCEPT !.fault = TRUE] \in Readers(d)
  BY DEF Readers

LEMMA EstateAdded ==
  ASSUME NEW d, NEW s, s \in Readers(d)
  PROVE  EstateNewline(s) \in Readers(d)
  <1> DEFINE e == [id |-> s.transactionId, type |-> s.type, street |-> s.street,
                   surface |-> s.surface, price |-> AtoI(s.value)]
             es == Append(s.estates, e)
             A == [s EXCEPT !.fault = TRUE]
             b == [s EXCEPT !.estates = es]
             c == [b EXCEPT !.live = {}]
             r == [c EXCEPT !.value = <<>>]
             B == [r EXCEPT !.count = 0]
  <1>1. EstateNewline(s) = IF s.live # {"type", "street"} THEN A ELSE B
    BY DEF EstateNewline, AddEstate
  <1>2. A \in Readers(d)
    BY ReaderSet
  <1>3. s.live = {"type", "street"} => B \in Readers(d)
    <2> SUFFICES ASSUME s.live = {"type", "street"} PROVE B \in Readers(d)
      OBVIOUS
    <2>1. /\ s.transactionId \in Nat \cup {-1} /\ s.type \in Seq(Token)
          /\ s.street \in Seq(Token) /\ s.surface \in Nat /\ s.value \in Seq(Token)
          /\ s.estates \in Seq(Estates)
      BY DEF Readers
    <2>2. AtoI(s.value) \in Nat
      BY <2>1, AtoIType
    <2>3. e \in Estates
      BY <2>1, <2>2 DEF Estates
    <2> HIDE DEF e
    <2>4. es \in Seq(Estates)
      BY <2>1, <2>3, AppendProperties
    <2> HIDE DEF es
    <2>5. b \in Readers(d)
      BY <2>4, ReaderSet
    <2> HIDE DEF b
    <2>6. c \in Readers(d)
      BY <2>5, ReaderSet
    <2> HIDE DEF c
    <2>7. r \in Readers(d)
      <3>1. <<>> \in Seq(Token)
        OBVIOUS
      <3> QED BY <2>6, <3>1, ReaderSet
    <2> HIDE DEF r
    <2> QED BY <2>7, ReaderSet
  <1> HIDE DEF A, B
  <1> QED BY <1>1, <1>2, <1>3

LEMMA EstateWordRead ==
  ASSUME NEW d, NEW s, s \in Readers(d)
  PROVE  EstateBlank(s) \in Readers(d)
  <1> DEFINE n == AtoI(s.value)
             A == [s EXCEPT !.transactionId = n]
             b == [s EXCEPT !.type = s.value]
             B == [b EXCEPT !.live = s.live \cup {"type"}]
             c == [s EXCEPT !.street = s.value]
             C == [c EXCEPT !.live = s.live \cup {"street"}]
             D == [s EXCEPT !.surface = n]
             t == CASE s.count = 0 -> A
                    [] s.count = 1 -> B
                    [] s.count = 2 -> C
                    [] s.count = 3 -> D
                    [] OTHER -> s
             u == [t EXCEPT !.value = <<>>]
             v == [u EXCEPT !.count = t.count + 1]
  <1>1. EstateBlank(s) = v
    <2> DEFINE t0 == CASE s.count = 0 -> [s EXCEPT !.transactionId = AtoI(s.value)]
                       [] s.count = 1 -> [s EXCEPT !.type = s.value,
                                                   !.live = @ \cup {"type"}]
                       [] s.count = 2 -> [s EXCEPT !.street = s.value,
                                                   !.live = @ \cup {"street"}]
                       [] s.count = 3 -> [s EXCEPT !.surface = AtoI(s.value)]
                       [] OTHER -> s
    <2>1. EstateBlank(s) = [t0 EXCEPT !.value = <<>>, !.count = @ + 1]
      BY DEF EstateBlank
    <2>2. /\ [s EXCEPT !.type = s.value, !.live = @ \cup {"type"}] = B
          /\ [s EXCEPT !.street = s.value, !.live = @ \cup {"street"}] = C
      OBVIOUS
    <2>3. t0 = t
      <3> HIDE DEF B, C
      <3> QED BY <2>2
    <2> HIDE DEF t0, t
    <2>4. [t EXCEPT !.value = <<>>, !.count = @ + 1] = v
      OBVIOUS
    <2> QED BY <2>1, <2>3, <2>4
  <1>2. /\ s.value \in Seq(Token) /\ s.live \in SUBSET {"type", "street"} /\ n \in Nat
    <2>1. s.value \in Seq(Token) /\ s.live \in SUBSET {"type", "street"}
      BY DEF Readers
    <2> QED BY <2>1, AtoIType
  <1> HIDE DEF n
  <1>3. A \in Readers(d) /\ D \in Readers(d)
    BY <1>2, ReaderSet
  <1>4. B \in Readers(d)
    <2>1. b \in Readers(d)
      BY <1>2, ReaderSet
    <2> HIDE DEF b
    <2>2. s.live \cup {"type"} \in SUBSET {"type", "street"}
      BY <1>2
    <2> QED BY <2>1, <2>2, ReaderSet
  <1>5. C \in Readers(d)
    <2>1. c \in Readers(d)
      BY <1>2, ReaderSet
    <2> HIDE DEF c
    <2>2. s.live \cup {"street"} \in SUBSET {"type", "street"}
      BY <1>2
    <2> QED BY <2>1, <2>2, ReaderSet
  <1> HIDE DEF A, B, C, D
  <1>6. t \in Readers(d)
    <2>1. t \in {A, B, C, D, s}
      OBVIOUS
    <2> HIDE DEF t
    <2> QED BY <1>3, <1>4, <1>5, <2>1
  <1> HIDE DEF t
  <1>7. t.count + 1 \in Nat /\ <<>> \in Seq(Token)
    BY <1>6 DEF Readers
  <1>8. u \in Readers(d)
    BY <1>6, <1>7, ReaderSet
  <1> HIDE DEF u
  <1>9. v \in Readers(d)
    BY <1>7, <1>8, ReaderSet
  <1> QED BY <1>1, <1>9

LEMMA EstateByteRead ==
  ASSUME NEW d, NEW s, s \in Readers(d), NEW b, b \in Token
  PROVE  ScanEstateFile(s, b) \in Readers(d)
  <1> DEFINE A == [s EXCEPT !.value = Append(@, b)]
  <1>1. ScanEstateFile(s, b) \in {s, EstateNewline(s), EstateBlank(s), A}
    <2> HIDE DEF A
    <2> DEFINE B == EstateNewline(s)
               C == EstateBlank(s)
    <2>1. ScanEstateFile(s, b) = CASE s.fault -> s
                                   [] ~s.fault /\ b = "\n" -> B
                                   [] ~s.fault /\ b = " " -> C
                                   [] OTHER -> A
      BY DEF ScanEstateFile, A
    <2> HIDE DEF B, C
    <2>2. ScanEstateFile(s, b) \in {s, A, B, C}
      BY <2>1
    <2> QED BY <2>2 DEF B, C
  <1>2. A \in Readers(d)
    <2>1. s.value \in Seq(Token)
      BY DEF Readers
    <2>2. Append(s.value, b) \in Seq(Token)
      BY <2>1, AppendProperties
    <2> QED BY <2>2, ReaderSet
  <1> HIDE DEF A
  <1> QED BY <1>1, <1>2, EstateAdded, EstateWordRead

(* The bytes of a text of this file one by one.                            *)
ReaderRun(f, d, c, text) ==
  /\ f \in [0..Len(text) -> Readers(d)]
  /\ f[0] = c /\ f[Len(text)] = FoldLeft(ScanEstateFile, c, text)
  /\ \A k \in 1..Len(text) : f[k] = ScanEstateFile(f[k-1], text[k])

LEMMA EstatesScanned ==
  ASSUME NEW d, NEW c, c \in Readers(d), NEW text \in Seq(Token)
  PROVE  \E f : ReaderRun(f, d, c, text)
  <1> DEFINE n == Len(text)
             step == [p \in Readers(d) \X (1..n) |-> ScanEstateFile(p[1], text[p[2]])]
             Eq(it) == it = [t \in SUBSET (DOMAIN text) |->
                               IF t = {} THEN c
                               ELSE ScanEstateFile(it[t \ {Max(t)}], text[Max(t)])]
             g == CHOOSE it : Eq(it)
  <1>1. FoldLeft(ScanEstateFile, c, text) = g[DOMAIN text]
    BY Zenon DEF FoldLeft, MapThenFoldSet
  <1>2. n \in Nat /\ DOMAIN text = 1..n
        /\ \A k \in 1..n : text[k] \in Token
    OBVIOUS
  <1> HIDE DEF n
  <1>3. step \in [Readers(d) \X (1..n) -> Readers(d)]
    BY <1>2, EstateByteRead
  <1>4. \E it : Eq(it)
    <2> HIDE DEF step
    <2>1. PICK it : /\ it = [t \in SUBSET (1..n) |->
                               IF t = {} THEN c ELSE step[<<it[t \ {Max(t)}], Max(t)>>]]
                    /\ \A t \in SUBSET (1..n) :
                         it[t] \in Readers(d) /\ (t # {} => Max(t) \in t)
      BY <1>2, <1>3, FoldInterval
    <2>2. ASSUME NEW t \in SUBSET (1..n)
          PROVE  it[t] = IF t = {} THEN c ELSE ScanEstateFile(it[t \ {Max(t)}], text[Max(t)])
      <3>1. CASE t = {}
        BY <2>1, <3>1
      <3>2. CASE t # {}
        <4>1. it[t \ {Max(t)}] \in Readers(d) /\ Max(t) \in 1..n
          BY <2>1, <3>2
        <4>2. it[t] = step[<<it[t \ {Max(t)}], Max(t)>>]
          BY <2>1, <3>2
        <4> QED BY <3>2, <4>1, <4>2 DEF step
      <3> QED BY <3>1, <3>2
    <2>3. it = [t \in SUBSET (1..n) |-> it[t]]
      BY <2>1
    <2>4. Eq(it)
      BY <1>2, <2>2, <2>3
    <2> QED BY <2>4
  <1>5. Eq(g)
    <2> HIDE DEF Eq
    <2> QED BY <1>4
  <1> HIDE DEF g
  <1>6. FoldSteps(g, n, Readers(d), c, step)
    <2>1. g[{}] = c
      BY <1>2, <1>5
    <2>2. ASSUME NEW t \in SUBSET (1..n), t # {}, g[t \ {Max(t)}] \in Readers(d), Max(t) \in 1..n
          PROVE  g[t] = step[<<g[t \ {Max(t)}], Max(t)>>]
      BY <1>2, <1>5, <2>2
    <2> HIDE DEF step
    <2> QED BY <2>1, <2>2 DEF FoldSteps
  <1>7. PICK f : Trace(f, n, Readers(d), c, step, g[1..n])
    <2> HIDE DEF step
    <2> QED BY <1>2, <1>3, <1>6, FoldTrace
  <1>8. ASSUME NEW k \in 1..n PROVE f[k] = ScanEstateFile(f[k-1], text[k])
    <2>1. f[k-1] \in Readers(d) /\ text[k] \in Token
      BY <1>2, <1>7 DEF Trace
    <2> QED BY <1>7, <2>1 DEF Trace
  <1>9. ReaderRun(f, d, c, text)
    BY <1>1, <1>2, <1>7, <1>8 DEF n, Trace, ReaderRun
  <1> QED BY <1>9

LEMMA EstatesRead ==
  ASSUME NEW d, NEW c, c \in Readers(d), NEW text \in Seq(Token)
  PROVE  FoldLeft(ScanEstateFile, c, text) \in Readers(d)
  <1>1. PICK f : ReaderRun(f, d, c, text)
    BY EstatesScanned
  <1>2. Len(text) \in 0..Len(text)
    OBVIOUS
  <1> QED BY <1>1, <1>2 DEF ReaderRun

-----------------------------------------------------------------------------
(* The inductive invariant.                                                *)
IInv ==
  /\ requestFile \in Seq(RequestLines) /\ estateFile \in Seq(EstateLines)
  /\ eof \in BOOLEAN /\ made \in BOOLEAN
  /\ client \in Clients
  /\ \E d : servant \in Readers(d)

LEMMA LineBytes ==
  ASSUME NEW l \in RequestLines
  PROVE  l \in Seq(ClientBytes) /\ Append(l, "\n") \in Seq(ClientBytes)
  <1>1. l \in Seq(Token \ {"\n"})
    BY ScannerAssumption
  <1>2. ASSUME NEW k \in 1..Len(l) PROVE l[k] \in ClientBytes
    <2>1. l[k] \in ToSet(l)
      BY <1>1 DEF ToSet
    <2>2. l[k] \in UNION {ToSet(m) : m \in RequestLines}
      BY <2>1
    <2> QED BY <2>2 DEF ClientBytes, Plain
  <1>3. l \in Seq(ClientBytes)
    BY <1>1, <1>2
  <1>4. "\n" \in ClientBytes
    BY DEF ClientBytes
  <1> QED BY <1>3, <1>4, AppendProperties

LEMMA RestBytes ==
  ASSUME NEW text \in Seq(ClientBytes), text # <<>>
  PROVE  Rest(text) \in Seq(ClientBytes)
  BY DEF Rest

LEMMA IInvInit == Init => IInv
  <1> SUFFICES ASSUME Init PROVE IInv
    OBVIOUS
  <1> USE DEF Init
  <1>1. client \in Clients
    <2> DEFINE r == [k \in 0..requestCapacity-1 |-> Hole]
               false == FALSE
    <2>1. client = ClientAt(r, 0, false, Fresh)
      BY DEF ClientAt
    <2>2. r \in [0..requestCapacity-1 -> Made \cup {Hole}] /\ r \in Arrays
      BY DEF Arrays
    <2>3. DOMAIN r = 0..requestCapacity-1 /\ \A k \in 0..requestCapacity-1 : r[k] = Hole
      OBVIOUS
    <2>4. Filled(client)
      <3>1. client.requests = r /\ client.requestSize = 0 /\ ~client.overflow
        OBVIOUS
      <3> HIDE DEF r, Init
      <3> QED BY <2>3, <3>1, ScannerAssumption DEF Filled
    <2>5. false \in BOOLEAN
      OBVIOUS
    <2> HIDE DEF r, false
    <2> QED BY <2>1, <2>2, <2>4, <2>5, FreshScanner, ClientOf
  <1>2. servant \in Readers(NoDate)
    <2>1. <<>> \in Seq(Token) /\ <<>> \in Seq(Estates)
      OBVIOUS
    <2> QED BY <2>1 DEF NoEstates, Readers
  <1>3. requestFile \in Seq(RequestLines) /\ estateFile \in Seq(EstateLines)
    OBVIOUS
  <1>4. eof \in BOOLEAN /\ made \in BOOLEAN
    OBVIOUS
  <1> HIDE DEF Init
  <1>5. \E d : servant \in Readers(d)
    BY <1>2
  <1> QED BY <1>1, <1>3, <1>4, <1>5 DEF IInv

LEMMA IInvNext == IInv /\ [Next]_vars => IInv'
  <1> SUFFICES ASSUME IInv, [Next]_vars PROVE IInv'
    OBVIOUS
  <1>1. ASSUME NEW l \in RequestLines, ReadRequestLine(l) PROVE IInv'
    <2> DEFINE text == Rest(Append(l, "\n"))
    <2>1. /\ requestFile' = Append(requestFile, l)
          /\ client' = FoldLeft(ScanRequestFile, client, text)
          /\ made' \in BOOLEAN /\ eof' = eof /\ estateFile' = estateFile /\ servant' = servant
      BY <1>1 DEF ReadRequestLine, servantVars
    <2>2. text \in Seq(ClientBytes)
      <3>1. Append(l, "\n") \in Seq(ClientBytes) /\ Append(l, "\n") # <<>>
        BY LineBytes
      <3> QED BY <3>1, RestBytes
    <2> HIDE DEF text
    <2>3. client' \in Clients
      BY <2>1, <2>2, TextRead DEF IInv
    <2> QED BY <2>1, <2>3 DEF IInv
  <1>2. ASSUME NEW l \in RequestLines, ReadLastLine(l) PROVE IInv'
    <2> DEFINE text == Rest(l)
    <2>1. /\ eof' = TRUE /\ l # <<>>
          /\ client' = FoldLeft(ScanRequestFile, client, text)
          /\ UNCHANGED <<requestFile, made, estateFile, servant>>
      BY <1>2 DEF ReadLastLine, servantVars
    <2>2. text \in Seq(ClientBytes)
      BY <2>1, LineBytes, RestBytes
    <2> HIDE DEF text
    <2>3. client' \in Clients
      BY <2>1, <2>2, TextRead DEF IInv
    <2> QED BY <2>1, <2>3 DEF IInv
  <1>3. ASSUME NEW name \in FileNames, OpenFile(name) PROVE IInv'
    <2>1. PICK d : servant \in Readers(d)
      BY DEF IInv
    <2>2. [servant EXCEPT !.date = GetDate(name)] \in Readers(GetDate(name))
      <3> DEFINE e == GetDate(name)
      <3> HIDE DEF e
      <3>1. [servant EXCEPT !.date = e] \in Readers(e)
        BY <2>1 DEF Readers
      <3> QED BY <3>1 DEF e
    <2>3. [servant EXCEPT !.fault = TRUE] \in Readers(d)
      BY <2>1, ReaderSet
    <2>4. \E e : servant' \in Readers(e)
      BY <1>3, <2>2, <2>3 DEF OpenFile
    <2> QED BY <1>3, <2>4 DEF OpenFile, IInv, clientVars
  <1>4. ASSUME NEW l \in EstateLines, ReadEstateLine(l) PROVE IInv'
    <2>1. PICK d : servant \in Readers(d)
      BY DEF IInv
    <2>2. l \in Seq(Token) /\ "\n" \in Token
      <3>1. l \in Seq(Token \ {"\n"})
        BY ScannerAssumption
      <3>2. Token \ {"\n"} \subseteq Token /\ "\n" \in Token
        BY DEF Token
      <3> QED BY <3>1, <3>2, SeqMonotonic
    <2>3. Append(l, "\n") \in Seq(Token)
      BY <2>2, AppendProperties
    <2>4. servant' \in Readers(d)
      BY <1>4, <2>1, <2>3, EstatesRead DEF ReadEstateLine
    <2>5. estateFile' = Append(estateFile, l) /\ UNCHANGED clientVars
      BY <1>4 DEF ReadEstateLine
    <2> QED BY <2>4, <2>5 DEF IInv, clientVars
  <1>5. CASE UNCHANGED vars
    BY <1>5 DEF IInv, vars, clientVars, servantVars
  <1> QED BY <1>1, <1>2, <1>3, <1>4, <1>5 DEF Next

LEMMA Invariance == Spec => []IInv
  <1> QED BY IInvInit, IInvNext, PTL DEF Spec

(* The types; and the array of requests is written one request after the   *)
(* other within its bounds, until it has been grown.                       *)
THEOREM TypeCorrect == Spec => []TypeOK
  <1>1. IInv => TypeOK
    <2> SUFFICES ASSUME IInv PROVE TypeOK
      OBVIOUS
    <2>1. PICK d : servant \in Readers(d)
      BY DEF IInv
    <2>2. servant.live \subseteq {"type", "street"}
      BY <2>1 DEF Readers
    <2>3. client \in Clients /\ Filled(client) /\ client.requestSize \in Nat
      BY ClientFields DEF IInv
    <2>4. CASE client.overflow
      BY <2>2, <2>3, <2>4 DEF TypeOK, IInv, Filled
    <2>5. CASE ~client.overflow
      <3> DEFINE n == client.requestSize
                 r == client.requests
      <3>1. /\ DOMAIN r = 0..requestCapacity-1 /\ n \in 0..requestCapacity
            /\ \A k \in DOMAIN r : IF k < n THEN r[k] \in Made ELSE r[k] = Hole
        BY <2>3, <2>5 DEF Filled
      <3>2. requestCapacity \in Nat
        BY ScannerAssumption
      <3> HIDE DEF n, r
      <3>3. {k \in DOMAIN r : r[k] # Hole} = 0..n-1
        <4>1. ASSUME NEW k \in DOMAIN r PROVE r[k] # Hole <=> k < n
          BY <3>1, NoHole
        <4> QED BY <3>1, <3>2, <4>1
      <3>4. n <= requestCapacity
        BY <3>1, <3>2
      <3> QED BY <2>2, <2>5, <3>3, <3>4 DEF TypeOK, IInv, n, r
    <2> QED BY <2>4, <2>5
  <1> QED BY <1>1, Invariance, PTL

-----------------------------------------------------------------------------
(* A request is read.                                                      *)
Readings ==
  [line : Seq(Token), type : Seq(Token), city : Seq(Token), d1 : PartDates,
   d2 : PartDates, dateCount : Nat, done : BOOLEAN]

ReadingAt(line, type, city, d1, d2, dateCount, done) ==
  [line |-> line, type |-> type, city |-> city, d1 |-> d1, d2 |-> d2,
   dateCount |-> dateCount, done |-> done]

LEMMA ReadingSet ==
  ASSUME NEW q, q \in Readings
  PROVE  /\ \A v \in Seq(Token) : /\ [q EXCEPT !.line = v] \in Readings
                                  /\ [q EXCEPT !.type = v] \in Readings
                                  /\ [q EXCEPT !.city = v] \in Readings
         /\ \A n \in Nat : [q EXCEPT !.dateCount = n] \in Readings
         /\ \A d \in PartDates : /\ [q EXCEPT !.d1 = d] \in Readings
                                 /\ [q EXCEPT !.d2 = d] \in Readings
         /\ [q EXCEPT !.done = TRUE] \in Readings
  BY DEF Readings

LEMMA ReadingDates ==
  ASSUME NEW q, q \in Readings, NEW n, n \in Nat
  PROVE  /\ [q EXCEPT !.d1.day = n] \in Readings /\ [q EXCEPT !.d2.day = n] \in Readings
         /\ [q EXCEPT !.d1.month = n] \in Readings /\ [q EXCEPT !.d2.month = n] \in Readings
         /\ [q EXCEPT !.d1.year = n] \in Readings /\ [q EXCEPT !.d2.year = n] \in Readings
  <1>1. q.d1 \in PartDates /\ q.d2 \in PartDates
    BY DEF Readings
  <1>2. ASSUME NEW d, d \in PartDates
        PROVE  /\ [d EXCEPT !.day = n] \in PartDates /\ [d EXCEPT !.month = n] \in PartDates
               /\ [d EXCEPT !.year = n] \in PartDates
    BY <1>2 DEF PartDates
  <1> DEFINE A(d) == [d EXCEPT !.day = n]
             B(d) == [d EXCEPT !.month = n]
             C(d) == [d EXCEPT !.year = n]
  <1>3. /\ [q EXCEPT !.d1.day = n] = [q EXCEPT !.d1 = A(q.d1)]
        /\ [q EXCEPT !.d2.day = n] = [q EXCEPT !.d2 = A(q.d2)]
        /\ [q EXCEPT !.d1.month = n] = [q EXCEPT !.d1 = B(q.d1)]
        /\ [q EXCEPT !.d2.month = n] = [q EXCEPT !.d2 = B(q.d2)]
        /\ [q EXCEPT !.d1.year = n] = [q EXCEPT !.d1 = C(q.d1)]
        /\ [q EXCEPT !.d2.year = n] = [q EXCEPT !.d2 = C(q.d2)]
    OBVIOUS
  <1>4. /\ A(q.d1) \in PartDates /\ A(q.d2) \in PartDates
        /\ B(q.d1) \in PartDates /\ B(q.d2) \in PartDates
        /\ C(q.d1) \in PartDates /\ C(q.d2) \in PartDates
    BY <1>1, <1>2
  <1> HIDE DEF A, B, C
  <1>5. ASSUME NEW d \in PartDates
        PROVE [q EXCEPT !.d1 = d] \in Readings /\ [q EXCEPT !.d2 = d] \in Readings
    BY ReadingSet
  <1> QED BY <1>3, <1>4, <1>5

LEMMA RequestBlankRead ==
  ASSUME NEW q, q \in Readings
  PROVE  ReadRequestBlank(q) \in Readings
  <1> DEFINE n == AtoI(q.line)
             A == [q EXCEPT !.type = q.line]
             b == [q EXCEPT !.d1.year = n]
             B == [b EXCEPT !.dateCount = 0]
             c == [q EXCEPT !.d2.year = n]
             C == [c EXCEPT !.dateCount = 3]
             e == [q EXCEPT !.city = q.line]
             D == [e EXCEPT !.done = TRUE]
             d == CASE q.type = <<>> -> A
                    [] q.type # <<>> /\ q.dateCount = 2 /\ q.d1.year = -1 -> B
                    [] q.type # <<>> /\ q.dateCount = 2 /\ q.d1.year # -1 -> C
                    [] OTHER -> D
  <1>1. ReadRequestBlank(q) = [d EXCEPT !.line = <<>>]
    <2>1. /\ [q EXCEPT !.d1.year = n, !.dateCount = 0] = B
          /\ [q EXCEPT !.d2.year = n, !.dateCount = 3] = C
          /\ [q EXCEPT !.city = q.line, !.done = TRUE] = D
      OBVIOUS
    <2> DEFINE d0 == CASE q.type = <<>> -> A
                       [] q.type # <<>> /\ q.dateCount = 2 /\ q.d1.year = -1 ->
                            [q EXCEPT !.d1.year = n, !.dateCount = 0]
                       [] q.type # <<>> /\ q.dateCount = 2 /\ q.d1.year # -1 ->
                            [q EXCEPT !.d2.year = n, !.dateCount = 3]
                       [] OTHER -> [q EXCEPT !.city = q.line, !.done = TRUE]
    <2>2. ReadRequestBlank(q) = [d0 EXCEPT !.line = <<>>]
      BY DEF ReadRequestBlank, RequestBlank
    <2>3. d0 = d
      <3> HIDE DEF B, C, D
      <3> QED BY <2>1
    <2> HIDE DEF d0, d
    <2> QED BY <2>2, <2>3
  <1>2. q.line \in Seq(Token) /\ n \in Nat /\ <<>> \in Seq(Token)
    <2>1. q.line \in Seq(Token)
      BY DEF Readings
    <2> QED BY <2>1, AtoIType
  <1> HIDE DEF n
  <1>3. A \in Readings
    BY <1>2, ReadingSet
  <1>4. B \in Readings
    <2>1. b \in Readings
      BY <1>2, ReadingDates
    <2> HIDE DEF b
    <2> QED BY <2>1, ReadingSet
  <1>5. C \in Readings
    <2>1. c \in Readings
      BY <1>2, ReadingDates
    <2> HIDE DEF c
    <2> QED BY <2>1, ReadingSet
  <1>6. D \in Readings
    <2>1. e \in Readings
      BY <1>2, ReadingSet
    <2> HIDE DEF e
    <2> QED BY <2>1, ReadingSet
  <1> HIDE DEF A, B, C, D
  <1>7. d \in {A, B, C, D}
    OBVIOUS
  <1> HIDE DEF d
  <1>8. d \in Readings
    BY <1>3, <1>4, <1>5, <1>6, <1>7
  <1> DEFINE f == [d EXCEPT !.line = <<>>]
  <1>9. f \in Readings
    BY <1>2, <1>8, ReadingSet
  <1> HIDE DEF f
  <1> QED BY <1>1, <1>9 DEF f

LEMMA RequestDashRead ==
  ASSUME NEW q, q \in Readings
  PROVE  ReadRequestDash(q) \in Readings
  <1> DEFINE n == AtoI(q.line)
             A == [q EXCEPT !.d1.day = n]
             B == [q EXCEPT !.d2.day = n]
             C == [q EXCEPT !.d1.month = n]
             D == [q EXCEPT !.d2.month = n]
             d == CASE q.dateCount = 0 /\ q.d1.day = -1 -> A
                    [] q.dateCount = 0 /\ q.d1.day # -1 -> B
                    [] q.dateCount = 1 /\ q.d1.month = -1 -> C
                    [] OTHER -> D
             e == [d EXCEPT !.dateCount = d.dateCount + 1]
             f == [e EXCEPT !.line = <<>>]
  <1>1. ReadRequestDash(q) = IF q.dateCount \in {0, 1} THEN f ELSE q
    <2>1. ReadRequestDash(q) = IF q.dateCount \in {0, 1}
                               THEN [d EXCEPT !.dateCount = @ + 1, !.line = <<>>] ELSE q
      BY DEF ReadRequestDash
    <2> HIDE DEF d
    <2>2. [d EXCEPT !.dateCount = @ + 1, !.line = <<>>] = f
      OBVIOUS
    <2> HIDE DEF f
    <2> QED BY <2>1, <2>2
  <1>2. q.line \in Seq(Token) /\ n \in Nat /\ <<>> \in Seq(Token)
    <2>1. q.line \in Seq(Token)
      BY DEF Readings
    <2> QED BY <2>1, AtoIType
  <1> HIDE DEF n
  <1>3. A \in Readings /\ B \in Readings /\ C \in Readings /\ D \in Readings
    BY <1>2, ReadingDates
  <1> HIDE DEF A, B, C, D
  <1>4. d \in {A, B, C, D}
    OBVIOUS
  <1> HIDE DEF d
  <1>5. d \in Readings
    BY <1>3, <1>4
  <1>6. d.dateCount + 1 \in Nat
    BY <1>5 DEF Readings
  <1>7. e \in Readings
    BY <1>5, <1>6, ReadingSet
  <1> HIDE DEF e
  <1>8. f \in Readings
    BY <1>2, <1>7, ReadingSet
  <1> HIDE DEF f
  <1> QED BY <1>1, <1>8

LEMMA RequestByteRead ==
  ASSUME NEW q, q \in Readings, NEW b, b \in Token
  PROVE  ScanRequest(q, b) \in Readings
  <1> DEFINE A == ReadRequestBlank(q)
             B == ReadRequestDash(q)
             C == [q EXCEPT !.done = TRUE]
             D == [q EXCEPT !.line = Append(@, b)]
  <1>1. ScanRequest(q, b) = CASE q.done -> q
                              [] ~q.done /\ b = " " -> A
                              [] ~q.done /\ b = "-" -> B
                              [] ~q.done /\ b = "*" -> C
                              [] OTHER -> D
    BY DEF ScanRequest
  <1>2. A \in Readings /\ B \in Readings /\ C \in Readings
    BY RequestBlankRead, RequestDashRead, ReadingSet
  <1>3. D \in Readings
    <2>1. q.line \in Seq(Token)
      BY DEF Readings
    <2>2. Append(q.line, b) \in Seq(Token)
      BY <2>1, AppendProperties
    <2> QED BY <2>2, ReadingSet
  <1> HIDE DEF A, B, C, D
  <1>4. ScanRequest(q, b) \in {q, A, B, C, D}
    BY <1>1
  <1> QED BY <1>2, <1>3, <1>4

(* The steps from q to the end of the text.                                *)
Recurs(f, q, text) ==
  /\ f \in [0..Len(text) -> Readings] /\ f[0] = q
  /\ \A k \in 1..Len(text) : f[k] = ScanRequest(f[k-1], text[k])

RequestRun(f, q, text) ==
  Recurs(f, q, text) /\ f[Len(text)] = FoldLeft(ScanRequest, q, text)

LEMMA RequestScanned ==
  ASSUME NEW q, q \in Readings, NEW text \in Seq(Token)
  PROVE  \E f : RequestRun(f, q, text)
  <1> DEFINE n == Len(text)
             step == [p \in Readings \X (1..n) |-> ScanRequest(p[1], text[p[2]])]
             Eq(it) == it = [t \in SUBSET (DOMAIN text) |->
                               IF t = {} THEN q
                               ELSE ScanRequest(it[t \ {Max(t)}], text[Max(t)])]
             g == CHOOSE it : Eq(it)
  <1>1. FoldLeft(ScanRequest, q, text) = g[DOMAIN text]
    BY Zenon DEF FoldLeft, MapThenFoldSet
  <1>2. n \in Nat /\ DOMAIN text = 1..n
        /\ \A k \in 1..n : text[k] \in Token
    OBVIOUS
  <1> HIDE DEF n
  <1>3. step \in [Readings \X (1..n) -> Readings]
    BY <1>2, RequestByteRead
  <1>4. \E it : Eq(it)
    <2> HIDE DEF step
    <2>1. PICK it : /\ it = [t \in SUBSET (1..n) |->
                               IF t = {} THEN q ELSE step[<<it[t \ {Max(t)}], Max(t)>>]]
                    /\ \A t \in SUBSET (1..n) :
                         it[t] \in Readings /\ (t # {} => Max(t) \in t)
      BY <1>2, <1>3, FoldInterval
    <2>2. ASSUME NEW t \in SUBSET (1..n)
          PROVE  it[t] = IF t = {} THEN q ELSE ScanRequest(it[t \ {Max(t)}], text[Max(t)])
      <3>1. CASE t = {}
        BY <2>1, <3>1
      <3>2. CASE t # {}
        <4>1. it[t \ {Max(t)}] \in Readings /\ Max(t) \in 1..n
          BY <2>1, <3>2
        <4>2. it[t] = step[<<it[t \ {Max(t)}], Max(t)>>]
          BY <2>1, <3>2
        <4> QED BY <3>2, <4>1, <4>2 DEF step
      <3> QED BY <3>1, <3>2
    <2>3. it = [t \in SUBSET (1..n) |-> it[t]]
      BY <2>1
    <2>4. Eq(it)
      BY <1>2, <2>2, <2>3
    <2> QED BY <2>4
  <1>5. Eq(g)
    <2> HIDE DEF Eq
    <2> QED BY <1>4
  <1> HIDE DEF g
  <1>6. FoldSteps(g, n, Readings, q, step)
    <2>1. g[{}] = q
      BY <1>2, <1>5
    <2>2. ASSUME NEW t \in SUBSET (1..n), t # {}, g[t \ {Max(t)}] \in Readings, Max(t) \in 1..n
          PROVE  g[t] = step[<<g[t \ {Max(t)}], Max(t)>>]
      BY <1>2, <1>5, <2>2
    <2> HIDE DEF step
    <2> QED BY <2>1, <2>2 DEF FoldSteps
  <1>7. PICK f : Trace(f, n, Readings, q, step, g[1..n])
    <2> HIDE DEF step
    <2> QED BY <1>2, <1>3, <1>6, FoldTrace
  <1>8. ASSUME NEW k \in 1..n PROVE f[k] = ScanRequest(f[k-1], text[k])
    <2>1. f[k-1] \in Readings /\ text[k] \in Token
      BY <1>2, <1>7 DEF Trace
    <2> QED BY <1>7, <2>1 DEF Trace
  <1>9. RequestRun(f, q, text)
    BY <1>1, <1>2, <1>7, <1>8 DEF n, Trace, RequestRun, Recurs
  <1> QED BY <1>9

(* There is only one such run.                                             *)
LEMMA OneRun ==
  ASSUME NEW text \in Seq(Token), NEW f, NEW g, NEW q, NEW p, p = q,
         Recurs(f, q, text), Recurs(g, p, text)
  PROVE  \A k \in 0..Len(text) : f[k] = g[k]
  <1> DEFINE n == Len(text)
             T == {k \in 0..n : f[k] = g[k]}
  <1>1. n \in Nat
    OBVIOUS
  <1>2. f[0] = g[0] /\ \A k \in 1..n : /\ f[k] = ScanRequest(f[k-1], text[k])
                                       /\ g[k] = ScanRequest(g[k-1], text[k])
    BY DEF Recurs
  <1> HIDE DEF n
  <1>3. 0 \in T
    BY <1>1, <1>2
  <1>4. ASSUME NEW k \in 0..n-1, k \in T PROVE k + 1 \in T
    <2>1. k + 1 \in 1..n /\ (k + 1) - 1 = k /\ f[k] = g[k]
      BY <1>1, <1>4
    <2> QED BY <1>1, <1>2, <2>1
  <1> HIDE DEF T
  <1>5. 0..n \subseteq T
    BY <1>1, <1>3, <1>4, BoundedInduction
  <1> QED BY <1>5 DEF T, n

(* What q becomes when the text has been read.                             *)
Scan(q, text) == FoldLeft(ScanRequest, q, text)

LEMMA ScanRun ==
  ASSUME NEW q, q \in Readings, NEW text \in Seq(Token)
  PROVE  /\ \E f : Recurs(f, q, text) /\ f[Len(text)] = Scan(q, text)
         /\ Scan(q, text) \in Readings
  <1>1. PICK f : RequestRun(f, q, text)
    BY RequestScanned
  <1>2. Recurs(f, q, text) /\ f[Len(text)] = Scan(q, text)
    BY <1>1 DEF RequestRun, Scan
  <1>3. Len(text) \in 0..Len(text)
    OBVIOUS
  <1>4. f[Len(text)] \in Readings
    BY <1>2, <1>3 DEF Recurs
  <1> QED BY <1>2, <1>4

LEMMA ScanOf ==
  ASSUME NEW q, q \in Readings, NEW text \in Seq(Token), NEW f, Recurs(f, q, text)
  PROVE  Scan(q, text) = f[Len(text)]
  <1>1. PICK g : Recurs(g, q, text) /\ g[Len(text)] = Scan(q, text)
    BY ScanRun
  <1>2. Len(text) \in 0..Len(text)
    OBVIOUS
  <1>3. f[Len(text)] = g[Len(text)]
    BY <1>1, <1>2, OneRun
  <1> QED BY <1>1, <1>3

LEMMA ScanOne ==
  ASSUME NEW q, q \in Readings, NEW b, b \in Token
  PROVE  Scan(q, <<b>>) = ScanRequest(q, b)
  <1> DEFINE text == <<b>>
  <1>1. text \in Seq(Token) /\ Len(text) = 1 /\ text[1] = b
    OBVIOUS
  <1> HIDE DEF text
  <1>2. PICK f : Recurs(f, q, text) /\ f[Len(text)] = Scan(q, text)
    BY <1>1, ScanRun
  <1>3. f[0] = q /\ f[1] = ScanRequest(f[1-1], text[1])
    BY <1>1, <1>2 DEF Recurs
  <1>4. f[1-1] = q
    BY <1>3
  <1>5. Scan(q, text) = ScanRequest(q, b)
    BY <1>1, <1>2, <1>3, <1>4
  <1> QED BY <1>5 DEF text

(* A text in two parts.                                                    *)
LEMMA ScanConcat ==
  ASSUME NEW q, q \in Readings, NEW a \in Seq(Token), NEW b \in Seq(Token)
  PROVE  Scan(q, a \o b) = Scan(Scan(q, a), b)
  <1> DEFINE text == a \o b
             n == Len(a)
             m == Len(b)
  <1>1. /\ text \in Seq(Token) /\ Len(text) = n + m /\ n \in Nat /\ m \in Nat
        /\ \A k \in 1..n : text[k] = a[k]
        /\ \A k \in 1..m : text[n+k] = b[k]
    OBVIOUS
  <1> HIDE DEF text
  <1>2. PICK f : Recurs(f, q, text) /\ f[Len(text)] = Scan(q, text)
    BY <1>1, ScanRun
  <1>3. /\ f \in [0..n+m -> Readings] /\ f[0] = q
        /\ \A k \in 1..n+m : f[k] = ScanRequest(f[k-1], text[k])
    BY <1>1, <1>2 DEF Recurs
  <1> HIDE DEF n, m
  <1> DEFINE g == [k \in 0..n |-> f[k]]
             h == [k \in 0..m |-> f[n+k]]
  <1>4. g \in [0..n -> Readings] /\ h \in [0..m -> Readings]
    <2>1. \A k \in 0..n : k \in 0..n+m
      BY <1>1
    <2>2. \A k \in 0..m : n+k \in 0..n+m
      BY <1>1
    <2> QED BY ONLY <1>3, <2>1, <2>2
  <1>5. ASSUME NEW k \in 1..n PROVE g[k] = ScanRequest(g[k-1], a[k])
    <2>1. k \in 0..n /\ k-1 \in 0..n /\ k \in 1..n+m
      BY <1>1
    <2>2. g[k] = f[k] /\ g[k-1] = f[k-1]
      BY <2>1
    <2> HIDE DEF g
    <2> QED BY <1>1, <1>3, <2>1, <2>2
  <1>6. ASSUME NEW k \in 1..m PROVE h[k] = ScanRequest(h[k-1], b[k])
    <2>1. k \in 0..m /\ k-1 \in 0..m /\ n+k \in 1..n+m /\ n+(k-1) = (n+k)-1
      BY <1>1
    <2>2. h[k] = f[n+k] /\ h[k-1] = f[(n+k)-1]
      BY <2>1
    <2> HIDE DEF h
    <2>3. f[n+k] = ScanRequest(f[(n+k)-1], text[n+k])
      BY <1>3, <2>1
    <2> QED BY <1>1, <2>2, <2>3
  <1>7. g[0] = q /\ g[n] = f[n] /\ h[0] = f[n] /\ h[m] = f[n+m]
    <2>1. 0 \in 0..n /\ n \in 0..n /\ 0 \in 0..m /\ m \in 0..m /\ n + 0 = n
      BY <1>1
    <2>2. g[0] = f[0] /\ g[n] = f[n] /\ h[0] = f[n+0] /\ h[m] = f[n+m]
      BY <2>1
    <2> HIDE DEF g, h
    <2> QED BY <1>3, <2>1, <2>2
  <1> HIDE DEF g, h
  <1>8. Recurs(g, q, a)
    BY <1>4, <1>5, <1>7 DEF Recurs, n
  <1>9. Scan(q, a) = f[n]
    BY <1>7, <1>8, ScanOf DEF n
  <1>10. f[n] \in Readings
    BY <1>1, <1>3
  <1>11. Recurs(h, f[n], b)
    BY <1>4, <1>6, <1>7 DEF Recurs, m
  <1>12. Scan(f[n], b) = h[m]
    BY <1>10, <1>11, ScanOf DEF m
  <1>13. Scan(q, text) = f[n+m]
    BY <1>1, <1>2
  <1> QED BY <1>7, <1>9, <1>12, <1>13 DEF text

Letters == Token \ {" ", "-", "*"}

(* A message whose end has not been read.                                  *)
Open(line, type, city, d1, d2, n) == ReadingAt(line, type, city, d1, d2, n, FALSE)

LEMMA OpenType ==
  ASSUME NEW line \in Seq(Token), NEW type \in Seq(Token), NEW city \in Seq(Token),
         NEW d1, d1 \in PartDates, NEW d2, d2 \in PartDates, NEW n \in Nat
  PROVE  Open(line, type, city, d1, d2, n) \in Readings
  BY DEF Open, ReadingAt, Readings

(* A word.                                                                 *)
LEMMA ScanWord ==
  ASSUME NEW type, NEW city, NEW d1, NEW d2, NEW n,
         Open(<<>>, type, city, d1, d2, n) \in Readings, NEW w \in Seq(Letters)
  PROVE  Scan(Open(<<>>, type, city, d1, d2, n), w) = Open(w, type, city, d1, d2, n)
  <1> DEFINE q == Open(<<>>, type, city, d1, d2, n)
  <1>0. q = ReadingAt(<<>>, type, city, d1, d2, n, FALSE) /\ q \in Readings
    BY DEF Open
  <1> HIDE DEF q
  <1> DEFINE m == Len(w)
             At(k) == ReadingAt(SubSeq(w, 1, k), type, city, d1, d2, n, FALSE)
  <1>1. w \in Seq(Token) /\ m \in Nat
    <2>1. Letters \subseteq Token
      BY DEF Letters
    <2> QED BY <2>1, SeqMonotonic
  <1>2. PICK f : Recurs(f, q, w) /\ f[Len(w)] = Scan(q, w)
    BY <1>0, <1>1, ScanRun
  <1>3. f[0] = q /\ \A k \in 1..m : f[k] = ScanRequest(f[k-1], w[k])
    BY <1>2 DEF Recurs
  <1>4. ASSUME NEW k \in 0..m-1 PROVE w[k+1] \in Letters
                                       /\ Append(SubSeq(w, 1, k), w[k+1]) = SubSeq(w, 1, k+1)
    <2>1. k + 1 \in 1..m /\ w[k+1] \in Letters
      OBVIOUS
    <2>2. Append(SubSeq(w, 1, k), w[k+1]) = SubSeq(w, 1, k+1)
      OBVIOUS
    <2> QED BY <2>1, <2>2
  <1>5. SubSeq(w, 1, 0) = <<>> /\ SubSeq(w, 1, m) = w
    OBVIOUS
  <1> HIDE DEF m
  <1> DEFINE U == {k \in 0..m : f[k] = At(k)}
  <1>6. 0 \in U
    <2>1. At(0) = q
      BY <1>0, <1>5
    <2> HIDE DEF At
    <2>2. f[0] = At(0) /\ 0 \in 0..m
      BY ONLY <1>1, <1>3, <2>1
    <2> QED BY ONLY <2>2
  <1>7. ASSUME NEW k \in 0..m-1, k \in U PROVE k + 1 \in U
    <2>0. k + 1 \in 1..m /\ k + 1 \in 0..m /\ (k + 1) - 1 = k
      BY <1>1
    <2>1. k + 1 \in 1..m /\ (k + 1) - 1 = k /\ f[k] = At(k)
      <3> HIDE DEF At
      <3>1. f[k] = At(k)
        BY <1>7
      <3> QED BY <2>0, <3>1
    <2>2. f[k+1] = ScanRequest(At(k), w[k+1])
      BY <1>3, <2>1
    <2> DEFINE l == SubSeq(w, 1, k)
               b == w[k+1]
    <2>3. b \in Letters /\ Append(l, b) = SubSeq(w, 1, k+1)
      BY <1>4
    <2>4. ScanRequest(At(k), b) = ReadingAt(Append(l, b), type, city, d1, d2, n, FALSE)
      <3> DEFINE p == At(k)
      <3>1. p = ReadingAt(l, type, city, d1, d2, n, FALSE)
        OBVIOUS
      <3>2. ~p.done /\ p.line = l
        BY ONLY <3>1 DEF ReadingAt
      <3>3. b # " " /\ b # "-" /\ b # "*"
        BY <2>3 DEF Letters
      <3> DEFINE e == Append(l, b)
                 false == FALSE
                 u == [p EXCEPT !.line = e]
      <3> HIDE DEF p, l, b
      <3>4. ScanRequest(p, b) = u
        BY <3>2, <3>3 DEF ScanRequest
      <3>5. p = ReadingAt(l, type, city, d1, d2, n, false)
        BY <3>1
      <3> HIDE DEF e, false
      <3>6. u = ReadingAt(e, type, city, d1, d2, n, false)
        BY ONLY <3>5 DEF ReadingAt
      <3> QED BY <3>4, <3>6 DEF e, false, p
    <2>5. f[k+1] = At(k+1)
      BY <2>2, <2>3, <2>4
    <2> HIDE DEF At
    <2> QED BY <2>1, <2>5
  <1> HIDE DEF U, At
  <1>8. 0..m \subseteq U
    BY <1>1, <1>6, <1>7, BoundedInduction
  <1>9. f[m] = At(m)
    BY <1>1, <1>8 DEF U
  <1>10. Scan(q, w) = ReadingAt(w, type, city, d1, d2, n, FALSE)
    BY <1>2, <1>5, <1>9 DEF m, At
  <1> QED BY ONLY <1>10 DEF Open, q

(* The end of a message has been read.                                     *)
Closed(type, city, d1, d2) == ReadingAt(<<>>, type, city, d1, d2, 3, TRUE)

(* What the separators make of the word before them.                       *)
Space == " "
Missing(type) == type = <<>>
NoYear(d) == d.year = -1

LEMMA RequestBlankAt ==
  ASSUME NEW line, NEW type, NEW city, NEW d1, NEW d2, NEW n
  PROVE  /\ Missing(type) =>
              ScanRequest(Open(line, type, city, d1, d2, n), Space) = Open(<<>>, line, city, d1, d2, n)
         /\ ~Missing(type) /\ n = 2 /\ NoYear(d1) =>
              ScanRequest(Open(line, type, city, d1, d2, n), Space) =
                Open(<<>>, type, city, YearRead(d1, line), d2, 0)
         /\ ~Missing(type) /\ n = 2 /\ ~NoYear(d1) =>
              ScanRequest(Open(line, type, city, d1, d2, n), Space) =
                Open(<<>>, type, city, d1, YearRead(d2, line), 3)
         /\ ~Missing(type) /\ n = 3 =>
              ScanRequest(Open(line, type, city, d1, d2, n), Space) = Closed(type, line, d1, d2)
  <1> DEFINE q == Open(line, type, city, d1, d2, n)
  <1>16. q = ReadingAt(line, type, city, d1, d2, n, FALSE)
    BY DEF Open
  <1> HIDE DEF q
  <1> DEFINE false == FALSE
             true == TRUE
             y == AtoI(line)
  <1>0. q = ReadingAt(line, type, city, d1, d2, n, false)
    BY <1>16
  <1>1. /\ q.line = line /\ q.type = type /\ q.city = city /\ q.d1 = d1 /\ q.d2 = d2
        /\ q.dateCount = n /\ AtoI(q.line) = y
    BY <1>16 DEF ReadingAt
  <1>2. ~q.done
    BY <1>16 DEF ReadingAt
  <1>3. ScanRequest(q, " ") = ReadRequestBlank(q)
    BY <1>2 DEF ScanRequest
  <1> DEFINE A == [q EXCEPT !.type = line]
             b == [q EXCEPT !.d1.year = y]
             B == [b EXCEPT !.dateCount = 0]
             c == [q EXCEPT !.d2.year = y]
             C == [c EXCEPT !.dateCount = 3]
             e == [q EXCEPT !.city = line]
             D == [e EXCEPT !.done = true]
             d == CASE type = <<>> -> A
                    [] type # <<>> /\ n = 2 /\ d1.year = -1 -> B
                    [] type # <<>> /\ n = 2 /\ d1.year # -1 -> C
                    [] OTHER -> D
  <1>4. ReadRequestBlank(q) = [d EXCEPT !.line = <<>>]
    <2>1. /\ [q EXCEPT !.d1.year = y, !.dateCount = 0] = B
          /\ [q EXCEPT !.d2.year = y, !.dateCount = 3] = C
          /\ [q EXCEPT !.city = line, !.done = TRUE] = D
      OBVIOUS
    <2> DEFINE d0 == CASE type = <<>> -> A
                       [] type # <<>> /\ n = 2 /\ d1.year = -1 ->
                            [q EXCEPT !.d1.year = y, !.dateCount = 0]
                       [] type # <<>> /\ n = 2 /\ d1.year # -1 ->
                            [q EXCEPT !.d2.year = y, !.dateCount = 3]
                       [] OTHER -> [q EXCEPT !.city = line, !.done = TRUE]
    <2>2. ReadRequestBlank(q) = [d0 EXCEPT !.line = <<>>]
      <3> HIDE DEF y
      <3> QED BY <1>1 DEF ReadRequestBlank, RequestBlank
    <2>3. d0 = d
      <3> HIDE DEF B, C, D
      <3> QED BY <2>1
    <2> HIDE DEF d0, d
    <2> QED BY <2>2, <2>3
  <1> HIDE DEF y, false, true
  <1>5. A = ReadingAt(line, line, city, d1, d2, n, false)
    BY ONLY <1>0 DEF ReadingAt
  <1>6. B = ReadingAt(line, type, city, [d1 EXCEPT !.year = y], d2, 0, false)
    <2>1. b = ReadingAt(line, type, city, [d1 EXCEPT !.year = y], d2, n, false)
      BY ONLY <1>0 DEF ReadingAt
    <2> HIDE DEF b
    <2> QED BY ONLY <2>1 DEF ReadingAt
  <1>7. C = ReadingAt(line, type, city, d1, [d2 EXCEPT !.year = y], 3, false)
    <2>1. c = ReadingAt(line, type, city, d1, [d2 EXCEPT !.year = y], n, false)
      BY ONLY <1>0 DEF ReadingAt
    <2> HIDE DEF c
    <2> QED BY ONLY <2>1 DEF ReadingAt
  <1>8. D = ReadingAt(line, type, line, d1, d2, n, true)
    <2>1. e = ReadingAt(line, type, line, d1, d2, n, false)
      BY ONLY <1>0 DEF ReadingAt
    <2> HIDE DEF e
    <2> QED BY ONLY <2>1 DEF ReadingAt
  <1>9. /\ type = <<>> => d = A
        /\ type # <<>> /\ n = 2 /\ d1.year = -1 => d = B
        /\ type # <<>> /\ n = 2 /\ d1.year # -1 => d = C
        /\ type # <<>> /\ n = 3 => d = D
    <2> HIDE DEF A, B, C, D
    <2> QED OBVIOUS
  <1> HIDE DEF A, B, C, D, d
  <1>10. ASSUME NEW a1, NEW a2, NEW a3, NEW a4, NEW a5, NEW a6, NEW a7, NEW u,
                u = ReadingAt(a1, a2, a3, a4, a5, a6, a7)
         PROVE  [u EXCEPT !.line = <<>>] = ReadingAt(<<>>, a2, a3, a4, a5, a6, a7)
    BY ONLY <1>10 DEF ReadingAt
  <1>11. ASSUME type = <<>>
        PROVE  ScanRequest(q, " ") = ReadingAt(<<>>, line, city, d1, d2, n, FALSE)
    <2>1. ScanRequest(q, " ") = [A EXCEPT !.line = <<>>]
      BY <1>3, <1>4, <1>9, <1>11
    <2>2. [A EXCEPT !.line = <<>>] = ReadingAt(<<>>, line, city, d1, d2, n, false)
      BY <1>5, <1>10
    <2>3. ScanRequest(q, " ") = ReadingAt(<<>>, line, city, d1, d2, n, false)
      BY ONLY <2>1, <2>2
    <2> QED BY ONLY <2>3 DEF false
  <1>12. ASSUME type # <<>>, n = 2, d1.year = -1
        PROVE  ScanRequest(q, " ") = ReadingAt(<<>>, type, city, YearRead(d1, line), d2, 0, FALSE)
    <2>1. ScanRequest(q, " ") = [B EXCEPT !.line = <<>>]
      BY <1>3, <1>4, <1>9, <1>12
    <2>2. [B EXCEPT !.line = <<>>] = ReadingAt(<<>>, type, city, [d1 EXCEPT !.year = y], d2, 0, false)
      BY <1>6, <1>10
    <2>3. ScanRequest(q, " ") = ReadingAt(<<>>, type, city, [d1 EXCEPT !.year = y], d2, 0, false)
      BY ONLY <2>1, <2>2
    <2> QED BY ONLY <2>3 DEF false, YearRead, y
  <1>13. ASSUME type # <<>>, n = 2, d1.year # -1
        PROVE  ScanRequest(q, " ") = ReadingAt(<<>>, type, city, d1, YearRead(d2, line), 3, FALSE)
    <2>1. ScanRequest(q, " ") = [C EXCEPT !.line = <<>>]
      BY <1>3, <1>4, <1>9, <1>13
    <2>2. [C EXCEPT !.line = <<>>] = ReadingAt(<<>>, type, city, d1, [d2 EXCEPT !.year = y], 3, false)
      BY <1>7, <1>10
    <2>3. ScanRequest(q, " ") = ReadingAt(<<>>, type, city, d1, [d2 EXCEPT !.year = y], 3, false)
      BY ONLY <2>1, <2>2
    <2> QED BY ONLY <2>3 DEF false, YearRead, y
  <1>14. ASSUME type # <<>>, n = 3
        PROVE  ScanRequest(q, " ") = ReadingAt(<<>>, type, line, d1, d2, n, TRUE)
    <2>1. ScanRequest(q, " ") = [D EXCEPT !.line = <<>>]
      BY <1>3, <1>4, <1>9, <1>14
    <2>2. [D EXCEPT !.line = <<>>] = ReadingAt(<<>>, type, line, d1, d2, n, true)
      BY <1>8, <1>10
    <2>3. ScanRequest(q, " ") = ReadingAt(<<>>, type, line, d1, d2, n, true)
      BY ONLY <2>1, <2>2
    <2> QED BY ONLY <2>3 DEF true
  <1>15. type # <<>> /\ n = 3 =>
           ScanRequest(q, " ") = Closed(type, line, d1, d2)
    BY <1>14 DEF Closed
  <1> QED BY ONLY <1>11, <1>12, <1>13, <1>15 DEF Open, q, Space, Missing, NoYear

LEMMA TypeAt ==
  ASSUME NEW line, NEW type, Missing(type), NEW city, NEW d1, NEW d2, NEW n
  PROVE  ScanRequest(Open(line, type, city, d1, d2, n), Space) =
           Open(<<>>, line, city, d1, d2, n)
  BY RequestBlankAt

LEMMA FirstYearAt ==
  ASSUME NEW line, NEW type, ~Missing(type), NEW city, NEW d1, NoYear(d1), NEW d2
  PROVE  ScanRequest(Open(line, type, city, d1, d2, 2), Space) =
           Open(<<>>, type, city, YearRead(d1, line), d2, 0)
  BY RequestBlankAt

LEMMA SecondYearAt ==
  ASSUME NEW line, NEW type, ~Missing(type), NEW city, NEW d1, ~NoYear(d1), NEW d2
  PROVE  ScanRequest(Open(line, type, city, d1, d2, 2), Space) =
           Open(<<>>, type, city, d1, YearRead(d2, line), 3)
  BY RequestBlankAt

LEMMA RequestDashAt ==
  ASSUME NEW line, NEW type, NEW city, NEW d1, NEW d2, NEW n
  PROVE  /\ n = 0 /\ d1.day = -1 =>
              ScanRequest(Open(line, type, city, d1, d2, n), "-") =
                Open(<<>>, type, city, DayRead(d1, line), d2, 1)
         /\ n = 0 /\ d1.day # -1 =>
              ScanRequest(Open(line, type, city, d1, d2, n), "-") =
                Open(<<>>, type, city, d1, DayRead(d2, line), 1)
         /\ n = 1 /\ d1.month = -1 =>
              ScanRequest(Open(line, type, city, d1, d2, n), "-") =
                Open(<<>>, type, city, MonthRead(d1, line), d2, 2)
         /\ n = 1 /\ d1.month # -1 =>
              ScanRequest(Open(line, type, city, d1, d2, n), "-") =
                Open(<<>>, type, city, d1, MonthRead(d2, line), 2)
  <1> DEFINE q == Open(line, type, city, d1, d2, n)
  <1>16. q = ReadingAt(line, type, city, d1, d2, n, FALSE)
    BY DEF Open
  <1> HIDE DEF q
  <1> DEFINE false == FALSE
             y == AtoI(line)
  <1>0. q = ReadingAt(line, type, city, d1, d2, n, false)
    BY <1>16
  <1>1. /\ q.line = line /\ q.d1 = d1 /\ q.d2 = d2 /\ q.dateCount = n /\ AtoI(q.line) = y
    BY <1>16 DEF ReadingAt
  <1>2. ~q.done
    BY <1>16 DEF ReadingAt
  <1>3. ScanRequest(q, "-") = ReadRequestDash(q)
    BY <1>2 DEF ScanRequest
  <1> DEFINE A == [q EXCEPT !.d1.day = y]
             B == [q EXCEPT !.d2.day = y]
             C == [q EXCEPT !.d1.month = y]
             D == [q EXCEPT !.d2.month = y]
             d == CASE n = 0 /\ d1.day = -1 -> A
                    [] n = 0 /\ d1.day # -1 -> B
                    [] n = 1 /\ d1.month = -1 -> C
                    [] OTHER -> D
             Cleared(u, m) == [[u EXCEPT !.dateCount = m] EXCEPT !.line = <<>>]
  <1>5. /\ A = ReadingAt(line, type, city, [d1 EXCEPT !.day = y], d2, n, false)
        /\ B = ReadingAt(line, type, city, d1, [d2 EXCEPT !.day = y], n, false)
        /\ C = ReadingAt(line, type, city, [d1 EXCEPT !.month = y], d2, n, false)
        /\ D = ReadingAt(line, type, city, d1, [d2 EXCEPT !.month = y], n, false)
    <2> HIDE DEF y, false
    <2> QED BY ONLY <1>0 DEF ReadingAt
  <1>6. A.dateCount = n /\ B.dateCount = n /\ C.dateCount = n /\ D.dateCount = n
    BY <1>5 DEF ReadingAt
  <1>7. d.dateCount = n
    <2> HIDE DEF A, B, C, D
    <2>1. d \in {A, B, C, D}
      OBVIOUS
    <2> HIDE DEF d
    <2> QED BY <1>6, <2>1
  <1>4. n \in {0, 1} =>
          ReadRequestDash(q) = Cleared(d, n + 1)
    <2>1. n \in {0, 1} =>
            ReadRequestDash(q) = [d EXCEPT !.dateCount = @ + 1, !.line = <<>>]
      <3> HIDE DEF y
      <3> QED BY <1>1 DEF ReadRequestDash
    <2> HIDE DEF d
    <2>2. [d EXCEPT !.dateCount = @ + 1, !.line = <<>>] =
            [[d EXCEPT !.dateCount = d.dateCount + 1] EXCEPT !.line = <<>>]
      OBVIOUS
    <2> QED BY <1>7, <2>1, <2>2
  <1> HIDE DEF y, false
  <1>9. /\ n = 0 /\ d1.day = -1 => d = A
        /\ n = 0 /\ d1.day # -1 => d = B
        /\ n = 1 /\ d1.month = -1 => d = C
        /\ n = 1 /\ d1.month # -1 => d = D
    <2> HIDE DEF A, B, C, D
    <2> QED OBVIOUS
  <1> HIDE DEF A, B, C, D, d
  <1>10. ASSUME NEW a1, NEW a2, NEW a3, NEW a4, NEW a5, NEW a6, NEW a7, NEW u, NEW m,
                u = ReadingAt(a1, a2, a3, a4, a5, a6, a7)
         PROVE  Cleared(u, m) = ReadingAt(<<>>, a2, a3, a4, a5, m, a7)
    <2> DEFINE v == [u EXCEPT !.dateCount = m]
    <2>1. v = ReadingAt(a1, a2, a3, a4, a5, m, a7)
      BY ONLY <1>10 DEF ReadingAt
    <2> HIDE DEF v
    <2>2. [v EXCEPT !.line = <<>>] = ReadingAt(<<>>, a2, a3, a4, a5, m, a7)
      BY ONLY <2>1 DEF ReadingAt
    <2> QED BY <2>2 DEF v
  <1> HIDE DEF Cleared
  <1>11. ASSUME n = 0, d1.day = -1
        PROVE  ScanRequest(q, "-") = ReadingAt(<<>>, type, city, DayRead(d1, line), d2, 1, FALSE)
    <2>1. ScanRequest(q, "-") = Cleared(A, 1)
      <3>1. n + 1 = 1 /\ n \in {0, 1} /\ d = A
        BY <1>9, <1>11
      <3>2. ReadRequestDash(q) = Cleared(d, n + 1)
        BY <1>4, <3>1
      <3> DEFINE m == n + 1
      <3>3. ReadRequestDash(q) = Cleared(d, m) /\ m = 1
        BY <3>1, <3>2
      <3> HIDE DEF m
      <3> QED BY ONLY <1>3, <3>1, <3>3
    <2>2. Cleared(A, 1) = ReadingAt(<<>>, type, city, [d1 EXCEPT !.day = y], d2, 1, false)
      BY <1>5, <1>10
    <2>3. ScanRequest(q, "-") = ReadingAt(<<>>, type, city, [d1 EXCEPT !.day = y], d2, 1, false)
      BY ONLY <2>1, <2>2
    <2> QED BY ONLY <2>3 DEF false, y, DayRead, MonthRead
  <1>12. ASSUME n = 0, d1.day # -1
        PROVE  ScanRequest(q, "-") = ReadingAt(<<>>, type, city, d1, DayRead(d2, line), 1, FALSE)
    <2>1. ScanRequest(q, "-") = Cleared(B, 1)
      <3>1. n + 1 = 1 /\ n \in {0, 1} /\ d = B
        BY <1>9, <1>12
      <3>2. ReadRequestDash(q) = Cleared(d, n + 1)
        BY <1>4, <3>1
      <3> DEFINE m == n + 1
      <3>3. ReadRequestDash(q) = Cleared(d, m) /\ m = 1
        BY <3>1, <3>2
      <3> HIDE DEF m
      <3> QED BY ONLY <1>3, <3>1, <3>3
    <2>2. Cleared(B, 1) = ReadingAt(<<>>, type, city, d1, [d2 EXCEPT !.day = y], 1, false)
      BY <1>5, <1>10
    <2>3. ScanRequest(q, "-") = ReadingAt(<<>>, type, city, d1, [d2 EXCEPT !.day = y], 1, false)
      BY ONLY <2>1, <2>2
    <2> QED BY ONLY <2>3 DEF false, y, DayRead, MonthRead
  <1>13. ASSUME n = 1, d1.month = -1
        PROVE  ScanRequest(q, "-") = ReadingAt(<<>>, type, city, MonthRead(d1, line), d2, 2, FALSE)
    <2>1. ScanRequest(q, "-") = Cleared(C, 2)
      <3>1. n + 1 = 2 /\ n \in {0, 1} /\ d = C
        BY <1>9, <1>13
      <3>2. ReadRequestDash(q) = Cleared(d, n + 1)
        BY <1>4, <3>1
      <3> DEFINE m == n + 1
      <3>3. ReadRequestDash(q) = Cleared(d, m) /\ m = 2
        BY <3>1, <3>2
      <3> HIDE DEF m
      <3> QED BY ONLY <1>3, <3>1, <3>3
    <2>2. Cleared(C, 2) = ReadingAt(<<>>, type, city, [d1 EXCEPT !.month = y], d2, 2, false)
      BY <1>5, <1>10
    <2>3. ScanRequest(q, "-") = ReadingAt(<<>>, type, city, [d1 EXCEPT !.month = y], d2, 2, false)
      BY ONLY <2>1, <2>2
    <2> QED BY ONLY <2>3 DEF false, y, DayRead, MonthRead
  <1>14. ASSUME n = 1, d1.month # -1
        PROVE  ScanRequest(q, "-") = ReadingAt(<<>>, type, city, d1, MonthRead(d2, line), 2, FALSE)
    <2>1. ScanRequest(q, "-") = Cleared(D, 2)
      <3>1. n + 1 = 2 /\ n \in {0, 1} /\ d = D
        BY <1>9, <1>14
      <3>2. ReadRequestDash(q) = Cleared(d, n + 1)
        BY <1>4, <3>1
      <3> DEFINE m == n + 1
      <3>3. ReadRequestDash(q) = Cleared(d, m) /\ m = 2
        BY <3>1, <3>2
      <3> HIDE DEF m
      <3> QED BY ONLY <1>3, <3>1, <3>3
    <2>2. Cleared(D, 2) = ReadingAt(<<>>, type, city, d1, [d2 EXCEPT !.month = y], 2, false)
      BY <1>5, <1>10
    <2>3. ScanRequest(q, "-") = ReadingAt(<<>>, type, city, d1, [d2 EXCEPT !.month = y], 2, false)
      BY ONLY <2>1, <2>2
    <2> QED BY ONLY <2>3 DEF false, y, DayRead, MonthRead
  <1> QED BY ONLY <1>11, <1>12, <1>13, <1>14 DEF Open, q

(* The city ends the message; or "*" does, where there is none.            *)
LEMMA StarAt ==
  ASSUME NEW line, NEW type, NEW city, NEW d1, NEW d2, NEW n
  PROVE  /\ ScanRequest(ReadingAt(line, type, city, d1, d2, n, FALSE), "*") =
              ReadingAt(line, type, city, d1, d2, n, TRUE)
         /\ ScanRequest(ReadingAt(line, type, city, d1, d2, n, TRUE), "*") =
              ReadingAt(line, type, city, d1, d2, n, TRUE)
  <1> DEFINE false == FALSE
             true == TRUE
             q == ReadingAt(line, type, city, d1, d2, n, false)
             p == ReadingAt(line, type, city, d1, d2, n, true)
             u == [q EXCEPT !.done = true]
  <1>1. ~q.done /\ p.done
    BY DEF ReadingAt
  <1>2. ScanRequest(p, "*") = p
    <2> HIDE DEF p
    <2> QED BY <1>1 DEF ScanRequest
  <1>3. ScanRequest(q, "*") = u
    <2> HIDE DEF q
    <2> QED BY <1>1 DEF ScanRequest
  <1>4. u = p
    <2> HIDE DEF true, false
    <2> QED BY DEF ReadingAt
  <1> QED BY <1>2, <1>3, <1>4

(* A text in five parts.                                                   *)
LEMMA ScanFive ==
  ASSUME NEW q, q \in Readings, NEW a \in Seq(Token), NEW b \in Seq(Token),
         NEW c \in Seq(Token), NEW d \in Seq(Token), NEW e \in Seq(Token)
  PROVE  /\ a \o b \o c \o d \o e \in Seq(Token)
         /\ Scan(q, a \o b \o c \o d \o e) = Scan(Scan(Scan(Scan(Scan(q, a), b), c), d), e)
  <1> DEFINE ab == a \o b
             abc == ab \o c
             abcd == abc \o d
  <1>1. ab \in Seq(Token)
    OBVIOUS
  <1>2. Scan(q, ab) = Scan(Scan(q, a), b)
    BY ScanConcat
  <1> HIDE DEF ab
  <1>3. abc \in Seq(Token)
    BY <1>1
  <1>4. Scan(q, abc) = Scan(Scan(q, ab), c)
    BY <1>1, ScanConcat
  <1> HIDE DEF abc
  <1>5. abcd \in Seq(Token)
    BY <1>3
  <1>6. Scan(q, abcd) = Scan(Scan(q, abc), d)
    BY <1>3, ScanConcat
  <1> HIDE DEF abcd
  <1>7. abcd \o e \in Seq(Token)
    BY <1>5
  <1>8. Scan(q, abcd \o e) = Scan(Scan(q, abcd), e)
    BY <1>5, ScanConcat
  <1> QED BY <1>2, <1>4, <1>6, <1>7, <1>8 DEF ab, abc, abcd

Separators == {" ", "-", "*"}

LEMMA ScanSeparator ==
  ASSUME NEW q, q \in Readings, NEW b, b \in Separators
  PROVE  <<b>> \in Seq(Token) /\ Scan(q, <<b>>) = ScanRequest(q, b)
  <1>1. b \in Token
    BY DEF Separators, Token
  <1>2. <<b>> \in Seq(Token)
    BY <1>1
  <1> QED BY <1>1, <1>2, ScanOne

DateAt(a, b, c) == [day |-> a, month |-> b, year |-> c]

WholeDates == [day : Nat, month : Nat, year : Nat]

LEMMA DecimalLetters ==
  ASSUME NEW n \in Nat
  PROVE  /\ Decimal(n) \in Seq(Letters) /\ Decimal(n) \in Seq(Token) /\ AtoI(Decimal(n)) = n
  <1>1. Decimal(n) \in Seq(Digits) /\ AtoI(Decimal(n)) = n
    BY DecimalRead
  <1>2. Digits \subseteq Letters /\ Letters \subseteq Token
    BY DigitsPlain DEF Letters, Token
  <1>3. Decimal(n) \in Seq(Letters)
    BY <1>1, <1>2, SeqMonotonic
  <1>4. Decimal(n) \in Seq(Token)
    BY <1>2, <1>3, SeqMonotonic
  <1> QED BY <1>1, <1>3, <1>4

(* The first date of a message, and the second.                            *)
LEMMA FirstDateScanned ==
  ASSUME NEW type \in Seq(Token), NEW city \in Seq(Token), NEW d2, d2 \in PartDates,
         NEW d, d \in WholeDates
  PROVE  /\ Date(d) \in Seq(Token)
         /\ Scan(Open(<<>>, type, city, NoDate, d2, 0), Date(d)) =
              Open(Decimal(d.year), type, city, DateAt(d.day, d.month, -1), d2, 2)
  <1> DEFINE a == Decimal(d.day)
             b == Decimal(d.month)
             c == Decimal(d.year)
             dash == <<"-">>
             e1 == DateAt(d.day, -1, -1)
             e2 == DateAt(d.day, d.month, -1)
             q == Open(<<>>, type, city, NoDate, d2, 0)
             q1 == Open(a, type, city, NoDate, d2, 0)
             q2 == Open(<<>>, type, city, e1, d2, 1)
             q3 == Open(b, type, city, e1, d2, 1)
             q4 == Open(<<>>, type, city, e2, d2, 2)
             q5 == Open(c, type, city, e2, d2, 2)
  <1>1. /\ d.day \in Nat /\ d.month \in Nat /\ d.year \in Nat
    BY DEF WholeDates
  <1>2. /\ a \in Seq(Letters) /\ b \in Seq(Letters) /\ c \in Seq(Letters)
        /\ a \in Seq(Token) /\ b \in Seq(Token) /\ c \in Seq(Token)
        /\ AtoI(a) = d.day /\ AtoI(b) = d.month
    BY <1>1, DecimalLetters
  <1>3. dash \in Seq(Token) /\ "-" \in Separators /\ <<>> \in Seq(Token)
    <2>1. "-" \in Token
      BY DEF Token
    <2>2. "-" \in Separators
      BY DEF Separators
    <2> QED BY <2>1, <2>2
  <1>4. NoDate \in PartDates /\ e1 \in PartDates /\ e2 \in PartDates
    BY <1>1 DEF NoDate, PartDates, DateAt
  <1> HIDE DEF a, b, c
  <1>5. /\ DayRead(NoDate, a) = e1 /\ NoDate.day = -1
        /\ MonthRead(e1, b) = e2 /\ e1.month = -1
    <2>1. DayRead(NoDate, a) = e1 /\ NoDate.day = -1
      BY <1>2 DEF DayRead, NoDate, DateAt
    <2>2. MonthRead(e1, b) = e2 /\ e1.month = -1
      BY <1>2 DEF MonthRead, DateAt
    <2> QED BY <2>1, <2>2
  <1> HIDE DEF e1, e2
  <1>6. /\ q \in Readings /\ q1 \in Readings /\ q2 \in Readings /\ q3 \in Readings
        /\ q4 \in Readings
    BY <1>2, <1>3, <1>4, OpenType
  <1>7. Scan(q, a) = q1
    BY <1>2, <1>6, ScanWord
  <1>8. Scan(q1, dash) = q2
    <2>1. Scan(q1, dash) = ScanRequest(q1, "-")
      BY <1>3, <1>6, ScanSeparator
    <2>2. ScanRequest(q1, "-") = Open(<<>>, type, city, DayRead(NoDate, a), d2, 1)
      BY <1>5, RequestDashAt
    <2> QED BY <1>5, <2>1, <2>2
  <1>9. Scan(q2, b) = q3
    BY <1>2, <1>6, ScanWord
  <1>10. Scan(q3, dash) = q4
    <2>1. Scan(q3, dash) = ScanRequest(q3, "-")
      BY <1>3, <1>6, ScanSeparator
    <2>2. ScanRequest(q3, "-") = Open(<<>>, type, city, MonthRead(e1, b), d2, 2)
      BY <1>5, RequestDashAt
    <2> QED BY <1>5, <2>1, <2>2
  <1>11. Scan(q4, c) = q5
    BY <1>2, <1>6, ScanWord
  <1> HIDE DEF q, q1, q2, q3, q4, q5, dash
  <1>12. Scan(q, a \o dash \o b \o dash \o c) = q5 /\ a \o dash \o b \o dash \o c \in Seq(Token)
    <2>1. /\ a \o dash \o b \o dash \o c \in Seq(Token)
          /\ Scan(q, a \o dash \o b \o dash \o c) =
               Scan(Scan(Scan(Scan(Scan(q, a), dash), b), dash), c)
      BY <1>2, <1>3, <1>6, ScanFive
    <2> QED BY <1>7, <1>8, <1>9, <1>10, <1>11, <2>1
  <1>13. Date(d) = a \o dash \o b \o dash \o c
    BY DEF Date, a, b, c, dash
  <1> QED BY <1>12, <1>13 DEF q, q5, c, e2

PartsRead(d) == d.day # -1 /\ d.month # -1

LEMMA SecondDateScanned ==
  ASSUME NEW type \in Seq(Token), NEW city \in Seq(Token), NEW d1, d1 \in PartDates,
         PartsRead(d1), NEW d, d \in WholeDates
  PROVE  /\ Date(d) \in Seq(Token)
         /\ Scan(Open(<<>>, type, city, d1, NoDate, 0), Date(d)) =
              Open(Decimal(d.year), type, city, d1, DateAt(d.day, d.month, -1), 2)
  <1> DEFINE a == Decimal(d.day)
             b == Decimal(d.month)
             c == Decimal(d.year)
             dash == <<"-">>
             e1 == DateAt(d.day, -1, -1)
             e2 == DateAt(d.day, d.month, -1)
             q == Open(<<>>, type, city, d1, NoDate, 0)
             q1 == Open(a, type, city, d1, NoDate, 0)
             q2 == Open(<<>>, type, city, d1, e1, 1)
             q3 == Open(b, type, city, d1, e1, 1)
             q4 == Open(<<>>, type, city, d1, e2, 2)
             q5 == Open(c, type, city, d1, e2, 2)
  <1>1. /\ d.day \in Nat /\ d.month \in Nat /\ d.year \in Nat
    BY DEF WholeDates
  <1>2. /\ a \in Seq(Letters) /\ b \in Seq(Letters) /\ c \in Seq(Letters)
        /\ a \in Seq(Token) /\ b \in Seq(Token) /\ c \in Seq(Token)
        /\ AtoI(a) = d.day /\ AtoI(b) = d.month
    BY <1>1, DecimalLetters
  <1>3. dash \in Seq(Token) /\ "-" \in Separators /\ <<>> \in Seq(Token)
    <2>1. "-" \in Token
      BY DEF Token
    <2>2. "-" \in Separators
      BY DEF Separators
    <2> QED BY <2>1, <2>2
  <1>4. NoDate \in PartDates /\ e1 \in PartDates /\ e2 \in PartDates
    BY <1>1 DEF NoDate, PartDates, DateAt
  <1> HIDE DEF a, b, c
  <1>5. /\ DayRead(NoDate, a) = e1 /\ NoDate.day = -1
        /\ MonthRead(e1, b) = e2 /\ e1.month = -1
        /\ d1.day # -1 /\ d1.month # -1
    <2>3. d1.day # -1 /\ d1.month # -1
      BY DEF PartsRead
    <2>1. DayRead(NoDate, a) = e1 /\ NoDate.day = -1
      BY <1>2 DEF DayRead, NoDate, DateAt
    <2>2. MonthRead(e1, b) = e2 /\ e1.month = -1
      BY <1>2 DEF MonthRead, DateAt
    <2> QED BY <2>1, <2>2, <2>3
  <1> HIDE DEF e1, e2
  <1>6. /\ q \in Readings /\ q1 \in Readings /\ q2 \in Readings /\ q3 \in Readings
        /\ q4 \in Readings
    BY <1>2, <1>3, <1>4, OpenType
  <1>7. Scan(q, a) = q1
    BY <1>2, <1>6, ScanWord
  <1>8. Scan(q1, dash) = q2
    <2>1. Scan(q1, dash) = ScanRequest(q1, "-")
      BY <1>3, <1>6, ScanSeparator
    <2>2. ScanRequest(q1, "-") = Open(<<>>, type, city, d1, DayRead(NoDate, a), 1)
      BY <1>5, RequestDashAt
    <2> QED BY <1>5, <2>1, <2>2
  <1>9. Scan(q2, b) = q3
    BY <1>2, <1>6, ScanWord
  <1>10. Scan(q3, dash) = q4
    <2>1. Scan(q3, dash) = ScanRequest(q3, "-")
      BY <1>3, <1>6, ScanSeparator
    <2>2. ScanRequest(q3, "-") = Open(<<>>, type, city, d1, MonthRead(e1, b), 2)
      BY <1>5, RequestDashAt
    <2> QED BY <1>5, <2>1, <2>2
  <1>11. Scan(q4, c) = q5
    BY <1>2, <1>6, ScanWord
  <1> HIDE DEF q, q1, q2, q3, q4, q5, dash
  <1>12. Scan(q, a \o dash \o b \o dash \o c) = q5 /\ a \o dash \o b \o dash \o c \in Seq(Token)
    <2>1. /\ a \o dash \o b \o dash \o c \in Seq(Token)
          /\ Scan(q, a \o dash \o b \o dash \o c) =
               Scan(Scan(Scan(Scan(Scan(q, a), dash), b), dash), c)
      BY <1>2, <1>3, <1>6, ScanFive
    <2> QED BY <1>7, <1>8, <1>9, <1>10, <1>11, <2>1
  <1>13. Date(d) = a \o dash \o b \o dash \o c
    BY DEF Date, a, b, c, dash
  <1> QED BY <1>12, <1>13 DEF q, q5, c, e2

LEMMA PairOf ==
  ASSUME NEW S, NEW x \in S, NEW y \in S
  PROVE  <<x, y>> = <<x>> \o <<y>>
  <1>1. <<x>> \in Seq(S) /\ <<y>> \in Seq(S) /\ <<x, y>> \in Seq(S)
    OBVIOUS
  <1>2. Len(<<x>> \o <<y>>) = 2
    BY <1>1
  <1>3. (<<x>> \o <<y>>)[1] = x /\ (<<x>> \o <<y>>)[2] = y
    BY <1>1, ConcatProperties
  <1>4. /\ Len(<<x, y>>) = 2 /\ <<x, y>>[1] = x /\ <<x, y>>[2] = y
    OBVIOUS
  <1> DEFINE a == <<x, y>>
             b == <<x>> \o <<y>>
  <1>5. a \in Seq(S) /\ b \in Seq(S)
    BY <1>1
  <1>6. Len(a) = Len(b) /\ \A k \in 1..Len(a) : a[k] = b[k]
    <2>1. /\ Len(a) = 2 /\ Len(b) = 2 /\ a[1] = x /\ a[2] = y /\ b[1] = x /\ b[2] = y
      BY <1>2, <1>3, <1>4
    <2> HIDE DEF a, b
    <2> QED BY <2>1
  <1> HIDE DEF a, b
  <1>7. a = b
    BY <1>5, <1>6, SeqEqual
  <1> QED BY <1>7 DEF a, b

CityOf(city) == IF city = <<>> THEN <<"*">> ELSE city \o <<" ", "*">>

LEMMA CityParts ==
  ASSUME NEW city \in Seq(Token)
  PROVE  /\ city = <<>> => CityOf(city) = <<"*">>
         /\ city # <<>> => CityOf(city) = (city \o <<" ">>) \o <<"*">>
  <1>1. city \o <<" ", "*">> = (city \o <<" ">>) \o <<"*">>
    <2>1. ASSUME NEW x \in Token, NEW y \in Token
          PROVE  city \o <<x, y>> = (city \o <<x>>) \o <<y>>
      <3>1. <<x>> \in Seq(Token) /\ <<y>> \in Seq(Token) /\ <<x, y>> = <<x>> \o <<y>>
        BY PairOf
      <3> DEFINE a == <<x>>
                 b == <<y>>
      <3> HIDE DEF a, b
      <3>2. (city \o a) \o b = city \o (a \o b)
        BY <3>1, ConcatAssociative DEF a, b
      <3> QED BY <3>1, <3>2 DEF a, b
    <2>2. " " \in Token /\ "*" \in Token
      BY DEF Token
    <2> QED BY ONLY <2>1, <2>2
  <1> QED BY <1>1 DEF CityOf

LEMMA MessageEnd ==
  ASSUME NEW type, type \in Seq(Token), type # <<>>, NEW city \in Seq(Letters),
         NEW d1, d1 \in PartDates, NEW d2, d2 \in PartDates
  PROVE  /\ CityOf(city) \in Seq(Token)
         /\ Scan(Open(<<>>, type, <<>>, d1, d2, 3), CityOf(city)) = Closed(type, city, d1, d2)
  <1> DEFINE q == Open(<<>>, type, <<>>, d1, d2, 3)
             q1 == Open(city, type, <<>>, d1, d2, 3)
             done == Closed(type, city, d1, d2)
             star == <<"*">>
             blank == <<" ">>
  <1>1. /\ <<>> \in Seq(Token) /\ city \in Seq(Token)
        /\ "*" \in Separators /\ " " \in Separators
    <2>1. Letters \subseteq Token
      BY DEF Letters
    <2>2. city \in Seq(Token)
      BY <2>1, SeqMonotonic
    <2>3. "*" \in Separators /\ " " \in Separators
      BY DEF Separators
    <2>4. <<>> \in Seq(Token)
      OBVIOUS
    <2> QED BY <2>2, <2>3, <2>4
  <1>2. q \in Readings /\ q1 \in Readings
    BY <1>1, OpenType
  <1>3. done \in Readings
    BY <1>1 DEF Closed, ReadingAt, Readings
  <1>4. blank \in Seq(Token) /\ star \in Seq(Token)
    BY <1>1, <1>2, ScanSeparator
  <1>5. Scan(done, star) = done
    <2>1. ScanRequest(done, "*") = done
      BY StarAt DEF Closed
    <2> HIDE DEF done
    <2> QED BY <1>1, <1>3, <2>1, ScanSeparator
  <1>6. CASE city = <<>>
    <2>1. ScanRequest(q, "*") = done
      BY <1>6, StarAt DEF Closed, Open
    <2> HIDE DEF q, done
    <2>2. Scan(q, star) = done
      BY <1>1, <1>2, <2>1, ScanSeparator
    <2>3. CityOf(city) = star
      BY <1>1, <1>6, CityParts
    <2> HIDE DEF star
    <2> QED BY <1>4, <2>2, <2>3 DEF q, done
  <1>7. CASE city # <<>>
    <2>1. Scan(q, city) = q1
      BY <1>2, ScanWord
    <2>2. ScanRequest(q1, " ") = done
      <3>0. ~Missing(type)
        BY DEF Missing
      <3>1. ScanRequest(q1, Space) = done
        BY <3>0, RequestBlankAt
      <3> QED BY <3>1 DEF Space
    <2> HIDE DEF q, q1, done
    <2>3. Scan(q1, blank) = done
      BY <1>1, <1>2, <2>2, ScanSeparator
    <2>4. Scan(q, city \o blank) = done
      BY <1>1, <1>2, <1>4, <2>1, <2>3, ScanConcat
    <2>5. city \o blank \in Seq(Token) /\ city \o blank \o star \in Seq(Token)
      <3> HIDE DEF blank, star
      <3>1. city \o blank \in Seq(Token)
        BY ONLY <1>1, <1>4, ConcatProperties
      <3> QED BY <1>4, <3>1
    <2>6. Scan(q, city \o blank \o star) = done
      <3> DEFINE a == city \o blank
      <3>1. a \in Seq(Token) /\ Scan(q, a) = done
        BY <2>4, <2>5
      <3> HIDE DEF a, star
      <3>2. Scan(q, a \o star) = done
        BY <1>2, <1>4, <1>5, <3>1, ScanConcat
      <3> QED BY <3>2 DEF a
    <2>7. CityOf(city) = city \o blank \o star
      BY <1>1, <1>7, CityParts
    <2> HIDE DEF star, blank
    <2> QED BY <2>5, <2>6, <2>7 DEF q, done
  <1> QED BY <1>6, <1>7

(* Nothing has been read.                                                  *)
Begin == Open(<<>>, <<>>, <<>>, NoDate, NoDate, 0)

LEMMA WholeDate ==
  ASSUME NEW d, d \in WholeDates
  PROVE  /\ d \in PartDates /\ d.year # -1 /\ d.month # -1 /\ d.day # -1
         /\ DateAt(d.day, d.month, -1) \in PartDates
         /\ NoYear(DateAt(d.day, d.month, -1)) /\ ~NoYear(d)
         /\ YearRead(DateAt(d.day, d.month, -1), Decimal(d.year)) = d
         /\ Decimal(d.year) \in Seq(Token)
  <1>1. /\ d = [day |-> d.day, month |-> d.month, year |-> d.year]
        /\ d.day \in Nat /\ d.month \in Nat /\ d.year \in Nat
    BY DEF WholeDates
  <1>2. /\ d \in PartDates /\ d.year # -1 /\ d.month # -1 /\ d.day # -1 /\ ~NoYear(d)
    BY <1>1 DEF PartDates, NoYear
  <1>3. DateAt(d.day, d.month, -1) \in PartDates /\ NoYear(DateAt(d.day, d.month, -1))
    BY <1>1 DEF DateAt, PartDates, NoYear
  <1>4. AtoI(Decimal(d.year)) = d.year /\ Decimal(d.year) \in Seq(Token)
    BY <1>1, DecimalLetters
  <1>5. YearRead(DateAt(d.day, d.month, -1), Decimal(d.year)) = d
    <2> DEFINE a == d.day
               b == d.month
               c == d.year
    <2>1. d = [day |-> a, month |-> b, year |-> c]
      BY <1>1
    <2>2. YearRead(DateAt(a, b, -1), Decimal(c)) = [DateAt(a, b, -1) EXCEPT !.year = c]
      BY <1>4 DEF YearRead
    <2> HIDE DEF a, b, c
    <2>3. [DateAt(a, b, -1) EXCEPT !.year = c] = [day |-> a, month |-> b, year |-> c]
      BY DEF DateAt
    <2> QED BY <2>1, <2>2, <2>3 DEF a, b, c
  <1> QED BY <1>2, <1>3, <1>4, <1>5

LEMMA MessageScanned ==
  ASSUME NEW type, type \in Seq(Letters), type # <<>>, NEW city \in Seq(Letters),
         NEW d1, d1 \in WholeDates, NEW d2, d2 \in WholeDates, NEW r,
         r.type = type, r.city = city, r.d1 = d1, r.d2 = d2
  PROVE  /\ Message(r) \in Seq(Token)
         /\ Scan(Begin, Message(r)) = Closed(type, city, d1, d2)
  <1> DEFINE e1 == DateAt(d1.day, d1.month, -1)
             e2 == DateAt(d2.day, d2.month, -1)
             y1 == Decimal(d1.year)
             y2 == Decimal(d2.year)
             D1 == Date(d1)
             D2 == Date(d2)
             blank == <<" ">>
             q1 == Open(type, <<>>, <<>>, NoDate, NoDate, 0)
             q2 == Open(<<>>, type, <<>>, NoDate, NoDate, 0)
             q3 == Open(y1, type, <<>>, e1, NoDate, 2)
             q4 == Open(<<>>, type, <<>>, d1, NoDate, 0)
             q5 == Open(y2, type, <<>>, d1, e2, 2)
             q6 == Open(<<>>, type, <<>>, d1, d2, 3)
             done == Closed(type, city, d1, d2)
             end == CityOf(city)
  <1>0. d1 \in WholeDates /\ d2 \in WholeDates
    OBVIOUS
  <1>1. /\ type \in Seq(Token) /\ <<>> \in Seq(Token)
    <2>1. Letters \subseteq Token
      BY DEF Letters
    <2>2. type \in Seq(Token)
      BY <2>1, SeqMonotonic
    <2>3. <<>> \in Seq(Token)
      OBVIOUS
    <2> QED BY <2>2, <2>3
  <1>2. /\ d1 \in PartDates /\ e1 \in PartDates /\ y1 \in Seq(Token)
        /\ d2 \in PartDates /\ e2 \in PartDates /\ y2 \in Seq(Token)
        /\ NoDate \in PartDates
    <2>1. NoDate \in PartDates
      BY DEF NoDate, PartDates
    <2> QED BY <2>1, WholeDate
  <1>3. /\ Missing(<<>>) /\ ~Missing(type) /\ " " \in Separators
    BY DEF Missing, Separators
  <1>4. /\ NoYear(e1) /\ YearRead(e1, y1) = d1 /\ ~NoYear(d1)
        /\ YearRead(e2, y2) = d2 /\ PartsRead(d1)
    BY WholeDate DEF PartsRead
  <1> HIDE DEF y1, y2, e1, e2
  <1>5. /\ Begin \in Readings /\ q1 \in Readings /\ q2 \in Readings /\ q3 \in Readings
        /\ q4 \in Readings /\ q5 \in Readings /\ q6 \in Readings
    BY <1>1, <1>2, OpenType DEF Begin
  <1>6. ASSUME NEW q, q \in Readings
        PROVE  blank \in Seq(Token) /\ Scan(q, blank) = ScanRequest(q, Space)
    BY <1>3, <1>6, ScanSeparator DEF Space
  <1> HIDE DEF blank
  <1>7. Scan(Begin, type) = q1
    BY <1>5, ScanWord DEF Begin
  <1>8. Scan(q1, blank) = q2
    <2>1. ScanRequest(q1, Space) = q2
      <3> DEFINE none == <<>>
      <3>1. Missing(none)
        BY <1>3
      <3> HIDE DEF none
      <3>2. ScanRequest(Open(type, none, none, NoDate, NoDate, 0), Space) =
              Open(<<>>, type, none, NoDate, NoDate, 0)
        BY ONLY <3>1, TypeAt
      <3> QED BY ONLY <3>2 DEF none, q1, q2
    <2> QED BY <1>5, <1>6, <2>1
  <1>9. D1 \in Seq(Token) /\ Scan(q2, D1) = q3
    <2>1. Scan(q2, D1) = Open(Decimal(d1.year), type, <<>>,
                               DateAt(d1.day, d1.month, -1), NoDate, 2)
          /\ D1 \in Seq(Token)
      <3> DEFINE none == <<>>
      <3>1. none \in Seq(Token) /\ NoDate \in PartDates
        BY <1>1, <1>2
      <3> HIDE DEF none
      <3>2. Scan(Open(<<>>, type, none, NoDate, NoDate, 0), Date(d1)) =
              Open(Decimal(d1.year), type, none, DateAt(d1.day, d1.month, -1), NoDate, 2)
        BY ONLY <1>0, <1>1, <3>1, FirstDateScanned
      <3>3. D1 \in Seq(Token)
        BY ONLY <1>0, <1>1, <3>1, FirstDateScanned
      <3> QED BY ONLY <3>2, <3>3 DEF none, q2, D1
    <2> QED BY ONLY <2>1 DEF y1, e1
  <1>10. Scan(q3, blank) = q4
    <2>1. ScanRequest(q3, Space) = q4
      BY ONLY <1>3, <1>4, FirstYearAt
    <2> QED BY <1>5, <1>6, <2>1
  <1>11. D2 \in Seq(Token) /\ Scan(q4, D2) = q5
    <2>1. Scan(q4, D2) = Open(Decimal(d2.year), type, <<>>, d1,
                               DateAt(d2.day, d2.month, -1), 2)
          /\ D2 \in Seq(Token)
      <3> DEFINE none == <<>>
      <3>1. none \in Seq(Token) /\ d1 \in PartDates /\ PartsRead(d1)
        BY <1>1, <1>2, <1>4
      <3> HIDE DEF none
      <3>2. Scan(Open(<<>>, type, none, d1, NoDate, 0), Date(d2)) =
              Open(Decimal(d2.year), type, none, d1, DateAt(d2.day, d2.month, -1), 2)
        BY ONLY <1>0, <1>1, <3>1, SecondDateScanned
      <3>3. D2 \in Seq(Token)
        BY ONLY <1>0, <1>1, <3>1, SecondDateScanned
      <3> QED BY ONLY <3>2, <3>3 DEF none, q4, D2
    <2> QED BY ONLY <2>1 DEF y2, e2
  <1>12. Scan(q5, blank) = q6
    <2>1. ScanRequest(q5, Space) = q6
      BY ONLY <1>3, <1>4, SecondYearAt
    <2> QED BY <1>5, <1>6, <2>1
  <1>13. end \in Seq(Token) /\ Scan(q6, end) = done
    BY <1>1, <1>2, MessageEnd
  <1>14. Message(r) = type \o blank \o D1 \o blank \o D2 \o blank \o end
    BY DEF Message, CityOf, blank
  <1> HIDE DEF q1, q2, q3, q4, q5, q6, done, D1, D2, end
  <1> DEFINE m == type \o blank \o D1 \o blank \o D2
             mb == m \o blank
  <1>15. m \in Seq(Token) /\ Scan(Begin, m) = q5
    <2>1. /\ m \in Seq(Token)
          /\ Scan(Begin, m) = Scan(Scan(Scan(Scan(Scan(Begin, type), blank), D1), blank), D2)
      BY <1>1, <1>5, <1>6, <1>9, <1>11, ScanFive
    <2> QED BY <1>7, <1>8, <1>9, <1>10, <1>11, <2>1
  <1>16. Message(r) = mb \o end
    BY <1>14
  <1> HIDE DEF m
  <1>17. mb \in Seq(Token) /\ Scan(Begin, mb) = q6
    <2>1. blank \in Seq(Token)
      BY <1>5, <1>6
    <2> QED BY <1>5, <1>12, <1>15, <2>1, ScanConcat
  <1> HIDE DEF mb
  <1>18. mb \o end \in Seq(Token) /\ Scan(Begin, mb \o end) = done
    BY <1>5, <1>13, <1>17, ScanConcat
  <1> QED BY <1>16, <1>18 DEF done

-----------------------------------------------------------------------------
(* What a request says is read back from its message, with or without the  *)
(* blank that is left behind the kind of a request.                        *)
LEMMA MessageRead ==
  ASSUME NEW type, type \in Seq(Letters), type # <<>>, NEW city \in Seq(Letters),
         NEW d1, d1 \in WholeDates, NEW d2, d2 \in WholeDates, NEW r,
         r = [type |-> type, d1 |-> d1, d2 |-> d2, city |-> city]
  PROVE  ReadRequest(Message(r)) = r /\ ReadRequest(<<" ">> \o Message(r)) = r
  <1> DEFINE m == Message(r)
             blank == <<" ">>
  <1>1. m \in Seq(Token) /\ Scan(Begin, m) = Closed(type, city, d1, d2)
    <2>1. r.type = type /\ r.city = city /\ r.d1 = d1 /\ r.d2 = d2
      OBVIOUS
    <2> QED BY <2>1, MessageScanned
  <1> HIDE DEF m, blank
  <1>2. Begin \in Readings
    <2>1. NoDate \in PartDates
      BY DEF NoDate, PartDates
    <2>2. <<>> \in Seq(Token)
      OBVIOUS
    <2> QED BY <2>1, <2>2, OpenType DEF Begin
  <1>3. blank \in Seq(Token) /\ Scan(Begin, blank) = Begin
    <2>1. ScanRequest(Begin, Space) = Begin
      <3> DEFINE none == <<>>
      <3>1. Missing(none)
        BY DEF Missing
      <3> HIDE DEF none
      <3>2. ScanRequest(Open(none, none, none, NoDate, NoDate, 0), Space) =
              Open(<<>>, none, none, NoDate, NoDate, 0)
        BY ONLY <3>1, TypeAt
      <3> QED BY ONLY <3>2 DEF none, Begin
    <2>2. " " \in Separators
      BY DEF Separators
    <2>3. blank \in Seq(Token) /\ Scan(Begin, blank) = ScanRequest(Begin, " ")
      BY <1>2, <2>2, ScanSeparator DEF blank
    <2> QED BY <2>1, <2>3 DEF Space
  <1>4. Scan(Begin, blank \o m) = Scan(Begin, m)
    BY <1>1, <1>2, <1>3, ScanConcat
  <1>5. ASSUME NEW text PROVE ReadRequest(text) = CreateReq(Scan(Begin, text))
    BY DEF ReadRequest, Scan, Begin, Open, ReadingAt
  <1>6. CreateReq(Closed(type, city, d1, d2)) = r
    BY DEF CreateReq, Closed, ReadingAt
  <1>7. ReadRequest(m) = r /\ ReadRequest(blank \o m) = r
    BY <1>1, <1>4, <1>5, <1>6
  <1> QED BY <1>7 DEF m, blank

(* A "*" that is written in the request file ends a message before its     *)
(* time.                                                                   *)
NoStar == \A l \in RequestLines : "*" \notin ToSet(l)

LEMMA PlainLetters == NoStar => Plain \subseteq Letters
  <1> SUFFICES ASSUME NoStar PROVE Plain \subseteq Letters
    OBVIOUS
  <1>1. ASSUME NEW l \in RequestLines PROVE ToSet(l) \subseteq Token
    <2>1. l \in Seq(Token \ {"\n"})
      BY ScannerAssumption
    <2> QED BY <2>1 DEF ToSet
  <1> QED BY <1>1 DEF Plain, Letters, NoStar

(* A request whose second date is complete has the first one too.          *)
LEMMA DatesComplete ==
  ASSUME NEW d1, d1 \in PartDates, NEW d2, d2 \in PartDates, InOrder(d1, d2),
         d2.day >= 0, d2.month >= 0, d2.year >= 0
  PROVE  d1 \in WholeDates /\ d2 \in WholeDates
  <1>1. /\ d1 = [day |-> d1.day, month |-> d1.month, year |-> d1.year]
        /\ d2 = [day |-> d2.day, month |-> d2.month, year |-> d2.year]
    BY DEF PartDates
  <1>2. /\ d1.day \in Nat \cup {-1} /\ d1.month \in Nat \cup {-1} /\ d1.year \in Nat \cup {-1}
        /\ d2.day \in Nat \cup {-1} /\ d2.month \in Nat \cup {-1} /\ d2.year \in Nat \cup {-1}
    BY DEF PartDates
  <1>3. d1.day # -1 /\ d1.month # -1 /\ d1.year # -1
    BY <1>2 DEF InOrder
  <1>4. /\ d1.day \in Nat /\ d1.month \in Nat /\ d1.year \in Nat
        /\ d2.day \in Nat /\ d2.month \in Nat /\ d2.year \in Nat
    BY <1>2, <1>3
  <1> QED BY <1>1, <1>4 DEF WholeDates

(* What the client has read from its file, when it has a type and both     *)
(* dates, is what the server reads and what the servant searches for.      *)
THEOREM RequestsArrive == NoStar => (Spec => []RequestArrives)
  <1> SUFFICES ASSUME NoStar PROVE Spec => []RequestArrives
    OBVIOUS
  <1>1. IInv => RequestArrives
    <2> SUFFICES ASSUME IInv, ~client.overflow, NEW k \in 0..client.requestSize-1,
                        client.requests[k].d2.day >= 0, client.requests[k].d2.month >= 0,
                        client.requests[k].d2.year >= 0
                 PROVE  LET q == client.requests[k]
                            atServer == ReadRequest(<<" ">> \o Message(q))
                        IN atServer = q /\ ReadRequest(Message(atServer)) = q
      BY DEF RequestArrives
    <2> DEFINE q == client.requests[k]
    <2>1. q \in Made
      <3>1. client \in Clients
        BY DEF IInv
      <3>2. /\ client.requestSize \in 0..requestCapacity
            /\ \A j \in 0..requestCapacity-1 :
                 IF j < client.requestSize THEN client.requests[j] \in Made
                 ELSE client.requests[j] = Hole
        BY <3>1, FilledArray
      <3>3. k \in 0..requestCapacity-1 /\ k < client.requestSize
        BY <3>2, ScannerAssumption
      <3> QED BY <3>2, <3>3
    <2>2. q.d2.day >= 0 /\ q.d2.month >= 0 /\ q.d2.year >= 0
      OBVIOUS
    <2> HIDE DEF q
    <2>3. /\ q = [type |-> q.type, d1 |-> q.d1, d2 |-> q.d2, city |-> q.city]
          /\ q.type \in Seq(Plain) /\ q.type # <<>> /\ q.city \in Seq(Plain)
          /\ q.d1 \in PartDates /\ q.d2 \in PartDates /\ InOrder(q.d1, q.d2)
      BY <2>1 DEF Made
    <2>4. q.type \in Seq(Letters) /\ q.city \in Seq(Letters)
      BY <2>3, PlainLetters, SeqMonotonic
    <2>5. q.d1 \in WholeDates /\ q.d2 \in WholeDates
      BY <2>2, <2>3, DatesComplete
    <2>6. ReadRequest(Message(q)) = q /\ ReadRequest(<<" ">> \o Message(q)) = q
      BY ONLY <2>3, <2>4, <2>5, MessageRead
    <2> QED BY <2>6 DEF q
  <1> QED BY <1>1, Invariance, PTL

-----------------------------------------------------------------------------
(* The pieces of a text between separators.                                *)

(* A text has finitely many beginnings of pieces.                          *)
LEMMA StartsFinite ==
  ASSUME NEW s \in Seq(Token), NEW sep
  PROVE  /\ Starts(s, sep) \subseteq 1..Len(s) /\ Starts(s, sep) \subseteq Nat
         /\ IsFiniteSet(Starts(s, sep)) /\ Cardinality(Starts(s, sep)) \in Nat
  <1>1. Starts(s, sep) \in SUBSET (1..Len(s)) /\ Len(s) \in Nat
    BY DEF Starts
  <1>2. IsFiniteSet(1..Len(s))
    BY <1>1, FS_Interval
  <1>3. IsFiniteSet(Starts(s, sep))
    BY <1>1, <1>2, FS_Subset
  <1> QED BY <1>1, <1>3, FS_CardinalityType

(* The starts in their order.                                              *)
LEMMA StartAt ==
  ASSUME NEW s \in Seq(Token), NEW sep, NEW k \in 1..Cardinality(Starts(s, sep))
  PROVE  /\ Start(s, sep, k) \in Starts(s, sep) /\ Start(s, sep, k) \in 1..Len(s)
         /\ Rank(Starts(s, sep), Start(s, sep, k)) = k
  <1> DEFINE S == Starts(s, sep)
  <1>1. \E a \in S : Rank(S, a) = k
    BY StartsFinite, RankReached
  <1>2. Start(s, sep, k) = CHOOSE a \in S : Rank(S, a) = k
    BY DEF Start, Rank
  <1> HIDE DEF S
  <1>3. Start(s, sep, k) \in S /\ Rank(S, Start(s, sep, k)) = k
    BY <1>1, <1>2
  <1> QED BY <1>3, StartsFinite DEF S

(* The pieces begin one behind the other.                                  *)
LEMMA StartsInOrder ==
  ASSUME NEW s \in Seq(Token), NEW sep, NEW j \in 1..Cardinality(Starts(s, sep)),
         NEW k \in 1..Cardinality(Starts(s, sep)), j < k
  PROVE  Start(s, sep, j) < Start(s, sep, k)
  <1> DEFINE S == Starts(s, sep)
             a == Start(s, sep, j)
             b == Start(s, sep, k)
  <1>1. a \in S /\ b \in S /\ Rank(S, a) = j /\ Rank(S, b) = k
    BY StartAt
  <1>2. S \subseteq Nat /\ IsFiniteSet(S)
    BY StartsFinite
  <1> HIDE DEF S, a, b
  <1>3. a < b
    BY <1>1, <1>2, RankOnce
  <1> QED BY <1>3 DEF a, b

(* No piece begins before the first, after the last, or between two that   *)
(* follow one another.                                                     *)
LEMMA NoStartBetween ==
  ASSUME NEW s \in Seq(Token), NEW sep, NEW c \in Starts(s, sep)
  PROVE  LET n == Cardinality(Starts(s, sep))
         IN /\ n > 0 /\ Start(s, sep, 1) <= c /\ c <= Start(s, sep, n)
            /\ \A k \in 1..n-1 : c <= Start(s, sep, k) \/ Start(s, sep, k+1) <= c
  <1> DEFINE S == Starts(s, sep)
             n == Cardinality(S)
             r == Rank(S, c)
  <1>1. S \subseteq Nat /\ IsFiniteSet(S) /\ n \in Nat /\ c \in S
    BY StartsFinite
  <1>2. r \in 1..n /\ n > 0
    <2>1. r \in 1..n
      BY <1>1, RankType
    <2> QED BY <1>1, <2>1
  <1>3. ASSUME NEW k \in 1..n
        PROVE  /\ Start(s, sep, k) \in S /\ Start(s, sep, k) \in Nat
               /\ r <= k => c <= Start(s, sep, k)
               /\ k <= r => Start(s, sep, k) <= c
    <2> DEFINE a == Start(s, sep, k)
    <2>1. a \in S /\ Rank(S, a) = k
      BY StartAt
    <2> HIDE DEF a, S
    <2>2. a \in Nat /\ c \in Nat
      BY <1>1, <2>1
    <2>3. r = k => c = a
      BY <1>1, <2>1, RankOnce
    <2>4. r < k => c < a
      BY <1>1, <2>1, RankOnce
    <2>5. k < r => a < c
      BY <1>1, <2>1, RankOnce
    <2>6. r \in Int /\ k \in Int
      BY <1>1, <1>2
    <2> HIDE DEF r
    <2> QED BY <2>1, <2>2, <2>3, <2>4, <2>5, <2>6 DEF a
  <1> HIDE DEF S, n, r
  <1>4. Start(s, sep, 1) <= c /\ c <= Start(s, sep, n)
    <2>1. 1 \in 1..n /\ n \in 1..n /\ 1 <= r /\ r <= n
      BY <1>1, <1>2
    <2> QED BY <1>3, <2>1
  <1>5. ASSUME NEW k \in 1..n-1
        PROVE  c <= Start(s, sep, k) \/ Start(s, sep, k+1) <= c
    <2>1. k \in 1..n /\ k+1 \in 1..n /\ (r <= k \/ k+1 <= r)
      BY <1>1, <1>2
    <2> QED BY <1>3, <2>1
  <1> QED BY <1>2, <1>4, <1>5 DEF n, S

(* From a separator, or from the beginning of the text, on there are only  *)
(* separators up to the next start.                                        *)
LEMMA OnlySeparators ==
  ASSUME NEW s \in Seq(Token), NEW sep, NEW i \in 1..Len(s), NEW j \in 0..Len(s),
         i = 1 \/ s[i] = sep, \A m \in i..j : m \notin Starts(s, sep)
  PROVE  \A m \in i..j : s[m] = sep
  <1> DEFINE U == {m \in i..j : s[m] # sep}
  <1>0. Len(s) \in Nat /\ DOMAIN s = 1..Len(s)
    OBVIOUS
  <1> SUFFICES ASSUME U # {} PROVE FALSE
    OBVIOUS
  <1>1. U \subseteq Nat
    BY <1>0
  <1>2. PICK m \in U : \A k \in U : m <= k
    BY <1>1, Smallest
  <1>3. m \in DOMAIN s /\ s[m] # sep /\ m \in i..j /\ m \in Nat
    BY <1>0, <1>2
  <1>4. CASE m = i
    BY <1>3, <1>4 DEF Starts
  <1>5. CASE m # i
    <2>1. m - 1 \in i..j /\ m - 1 < m
      BY <1>0, <1>3, <1>5
    <2>2. m - 1 \notin U
      BY <1>2, <1>3, <2>1
    <2>3. s[m-1] = sep
      BY <2>1, <2>2
    <2> QED BY <1>3, <2>3 DEF Starts
  <1> QED BY <1>4, <1>5

(* The end of a piece.                                                     *)
LEMMA EndAt ==
  ASSUME NEW s \in Seq(Token), NEW sep, NEW a \in Starts(s, sep)
  PROVE  /\ End(s, sep, a) \in a..Len(s) /\ a \in 1..Len(s)
         /\ \A m \in a..End(s, sep, a) : s[m] # sep
         /\ End(s, sep, a) # Len(s) => s[End(s, sep, a) + 1] = sep
         /\ \A b \in Starts(s, sep) : a < b => End(s, sep, a) + 1 < b
  <1> DEFINE T == {j \in a..Len(s) : \A m \in a..j : s[m] # sep}
             e == End(s, sep, a)
  <1>1. Len(s) \in Nat /\ a \in 1..Len(s) /\ s[a] # sep
    BY DEF Starts
  <1>2. a \in T
    BY <1>1
  <1>3. IsFiniteSet(T) /\ T \subseteq Nat
    <2>1. T \in SUBSET (a..Len(s)) /\ a..Len(s) \subseteq Nat /\ a \in Int /\ Len(s) \in Int
      BY <1>1
    <2>2. IsFiniteSet(a..Len(s))
      BY <2>1, FS_Interval
    <2> HIDE DEF T
    <2> QED BY <2>1, <2>2, FS_Subset
  <1>4. e = Max(T)
    BY DEF End
  <1> HIDE DEF e
  <1>5. e \in T /\ \A x \in T : x <= e
    <2> HIDE DEF T
    <2> QED BY <1>2, <1>3, <1>4, MaxInSet
  <1>6. e \in a..Len(s) /\ \A m \in a..e : s[m] # sep
    BY <1>5
  <1>7. e # Len(s) => s[e+1] = sep
    <2> SUFFICES ASSUME e # Len(s), s[e+1] # sep PROVE FALSE
      OBVIOUS
    <2>1. e + 1 \in a..Len(s) /\ e \in Int
      BY <1>1, <1>6
    <2>2. \A m \in a..e+1 : m \in a..e \/ m = e+1
      BY <1>1, <2>1
    <2>3. e + 1 \in T
      BY <1>6, <2>1, <2>2
    <2> QED BY <1>5, <2>1, <2>3
  <1>8. ASSUME NEW b \in Starts(s, sep), a < b
        PROVE  e + 1 < b
    <2>1. b \in 1..Len(s) /\ s[b] # sep /\ (b = 1 \/ s[b-1] = sep)
      BY DEF Starts
    <2>2. b # 1 /\ s[b-1] = sep
      BY <1>1, <1>8, <2>1
    <2>3. b-1 \notin a..e
      BY <1>6, <2>2
    <2>4. b-1 > e
      BY <1>1, <1>6, <1>8, <2>1, <2>3
    <2> QED BY <1>1, <1>6, <2>1, <2>4
  <1> QED BY <1>1, <1>6, <1>7, <1>8 DEF e

Stop(s, sep, k) == End(s, sep, Start(s, sep, k))

(* The k-th piece and what is around it.                                   *)
LEMMA PieceAt ==
  ASSUME NEW s \in Seq(Token), NEW sep, NEW k \in 1..Cardinality(Starts(s, sep))
  PROVE  LET a == Start(s, sep, k)
             e == Stop(s, sep, k)
         IN /\ a \in 1..Len(s) /\ e \in 1..Len(s) /\ a <= e
            /\ \A m \in a..e : s[m] # sep
            /\ e # Len(s) => s[e+1] = sep
            /\ Pieces(s, sep)[k] = SubSeq(s, a, e)
            /\ k + 1 <= Cardinality(Starts(s, sep)) =>
                 /\ Start(s, sep, k+1) \in 1..Len(s) /\ e + 1 < Start(s, sep, k+1)
                 /\ \A m \in e+1..Start(s, sep, k+1)-1 : s[m] = sep
            /\ k = Cardinality(Starts(s, sep)) => \A m \in e+1..Len(s) : s[m] = sep
            /\ k = 1 => \A m \in 1..a-1 : s[m] = sep
  <1> DEFINE S == Starts(s, sep)
             n == Cardinality(S)
             a == Start(s, sep, k)
             e == Stop(s, sep, k)
             b == Start(s, sep, k+1)
  <1>0. Len(s) \in Nat /\ n \in Nat
    BY StartsFinite
  <1>1. a \in S /\ a \in 1..Len(s)
    BY StartAt
  <1>2. /\ e \in a..Len(s) /\ \A m \in a..e : s[m] # sep
        /\ e # Len(s) => s[e+1] = sep
        /\ \A c \in S : a < c => e + 1 < c
    BY <1>1, EndAt DEF Stop
  <1>3. Pieces(s, sep)[k] = SubSeq(s, a, e)
    BY DEF Pieces, Stop
  <1>4. ASSUME NEW c \in S
        PROVE  Start(s, sep, 1) <= c /\ c <= Start(s, sep, n)
               /\ (k + 1 <= n => c <= a \/ b <= c)
    <2>1. k + 1 <= n => k \in 1..n-1
      BY <1>0
    <2> QED BY <2>1, NoStartBetween
  <1>5. k + 1 <= n => b \in S /\ b \in 1..Len(s) /\ a < b
    <2>1. k + 1 <= n => k + 1 \in 1..n /\ k < k + 1
      BY <1>0
    <2> QED BY <2>1, StartAt, StartsInOrder
  <1>6. \A c \in S : c \in 1..Len(s)
    BY StartsFinite
  <1> HIDE DEF S, n, a, e, b
  <1>7. ASSUME k + 1 <= n
        PROVE  b \in 1..Len(s) /\ e + 1 < b /\ \A m \in e+1..b-1 : s[m] = sep
    <2>1. b \in S /\ b \in 1..Len(s) /\ a < b /\ e + 1 < b
      BY <1>2, <1>5, <1>7
    <2>2. e # Len(s) /\ e + 1 \in 1..Len(s) /\ b-1 \in 0..Len(s)
      BY <1>0, <1>1, <1>2, <2>1
    <2>3. \A m \in e+1..b-1 : m \notin S
      <3>1. \A m \in e+1..b-1 : ~(m <= a) /\ ~(b <= m)
        BY <1>0, <1>1, <1>2, <2>1
      <3> QED BY <1>4, <1>7, <3>1
    <2>4. \A m \in e+1..b-1 : s[m] = sep
      BY <1>2, <2>2, <2>3, OnlySeparators DEF S
    <2> QED BY <2>1, <2>4
  <1>8. ASSUME k = n
        PROVE  \A m \in e+1..Len(s) : s[m] = sep
    <2>1. CASE e = Len(s)
      BY <1>0, <2>1
    <2>2. CASE e # Len(s)
      <3>1. e + 1 \in 1..Len(s) /\ Len(s) \in 0..Len(s) /\ s[e+1] = sep
        BY <1>0, <1>1, <1>2, <2>2
      <3>2. \A m \in e+1..Len(s) : m \notin S
        <4>1. a = Start(s, sep, n)
          BY <1>8 DEF a
        <4>2. \A m \in e+1..Len(s) : ~(m <= a)
          BY <1>0, <1>1, <1>2
        <4> QED BY <1>4, <4>1, <4>2
      <3> QED BY <3>1, <3>2, OnlySeparators DEF S
    <2> QED BY <2>1, <2>2
  <1>9. ASSUME k = 1
        PROVE  \A m \in 1..a-1 : s[m] = sep
    <2>1. 1 \in 1..Len(s) /\ a-1 \in 0..Len(s)
      BY <1>0, <1>1
    <2>2. \A m \in 1..a-1 : m \notin S
      <3>1. a = Start(s, sep, 1)
        BY <1>9 DEF a
      <3>2. \A m \in 1..a-1 : ~(a <= m)
        BY <1>0, <1>1
      <3> QED BY <1>4, <3>1, <3>2
    <2> QED BY <2>1, <2>2, OnlySeparators DEF S
  <1>10. e \in 1..Len(s) /\ a <= e
    BY <1>0, <1>1, <1>2
  <1> QED BY <1>1, <1>2, <1>3, <1>7, <1>8, <1>9, <1>10 DEF a, e, b, n, S

(* As many separators as there are gaps between the pieces: they are one   *)
(* between each two.                                                       *)
Tight(s, sep, n) ==
  /\ Cardinality(Starts(s, sep)) = n
  /\ Start(s, sep, 1) = 1 /\ Stop(s, sep, n) = Len(s)
  /\ \A k \in 1..n-1 : Start(s, sep, k+1) = Stop(s, sep, k) + 2

(* One separator less than there are pieces: no two are side by side and   *)
(* none is at an end.                                                      *)
LEMMA FewSeparators ==
  ASSUME NEW s \in Seq(Token), NEW sep, NEW n \in Nat \ {0},
         Cardinality(Starts(s, sep)) = n,
         Cardinality({m \in DOMAIN s : s[m] = sep}) = n - 1
  PROVE  Tight(s, sep, n)
  <1> DEFINE T == {m \in DOMAIN s : s[m] = sep}
             a(k) == Start(s, sep, k)
             e(k) == Stop(s, sep, k)
             g == [k \in 1..n-1 |-> Stop(s, sep, k) + 1]
  <1>0. Len(s) \in Nat /\ DOMAIN s = 1..Len(s)
    OBVIOUS
  <1>1. ASSUME NEW k \in 1..n
        PROVE  /\ a(k) \in 1..Len(s) /\ e(k) \in 1..Len(s) /\ a(k) <= e(k)
               /\ s[e(k)] # sep /\ (e(k) # Len(s) => s[e(k)+1] = sep)
               /\ k + 1 <= n => /\ a(k+1) \in 1..Len(s) /\ e(k) + 1 < a(k+1)
                                /\ \A m \in e(k)+1..a(k+1)-1 : s[m] = sep
               /\ k = n => \A m \in e(k)+1..Len(s) : s[m] = sep
               /\ k = 1 => \A m \in 1..a(k)-1 : s[m] = sep
    <2>1. /\ a(k) \in 1..Len(s) /\ e(k) \in 1..Len(s) /\ a(k) <= e(k)
          /\ \A m \in a(k)..e(k) : s[m] # sep
          /\ (e(k) # Len(s) => s[e(k)+1] = sep)
          /\ k + 1 <= n => /\ a(k+1) \in 1..Len(s) /\ e(k) + 1 < a(k+1)
                                /\ \A m \in e(k)+1..a(k+1)-1 : s[m] = sep
          /\ k = n => \A m \in e(k)+1..Len(s) : s[m] = sep
          /\ k = 1 => \A m \in 1..a(k)-1 : s[m] = sep
      BY PieceAt
    <2> HIDE DEF a, e
    <2>2. e(k) \in a(k)..e(k)
      BY <1>0, <2>1
    <2> QED BY <2>1, <2>2
  <1>2. ASSUME NEW j \in 1..n, NEW k \in 1..n, j < k
        PROVE  e(j) + 1 < a(k) /\ e(j) < e(k)
    <2>1. a(j+1) <= a(k)
      <3>1. j + 1 \in 1..n /\ (j + 1 = k \/ j + 1 < k)
        BY <1>2
      <3>2. j + 1 < k => a(j+1) < a(k)
        BY <3>1, StartsInOrder
      <3>3. a(j+1) \in Int
        BY <1>1, <3>1
      <3>4. CASE j + 1 = k
        BY <3>3, <3>4
      <3>5. CASE j + 1 < k
        <4> HIDE DEF a
        <4>1. a(k) \in Int
          BY <1>1
        <4> QED BY <3>2, <3>3, <3>5, <4>1
      <3> QED BY <3>1, <3>4, <3>5
    <2> HIDE DEF a, e
    <2>2. j + 1 <= n /\ j + 1 \in 1..n
      BY <1>2
    <2>3. a(j+1) \in Int /\ a(k) \in Int /\ e(j) \in Int /\ e(k) \in Int /\ a(k) <= e(k)
          /\ e(j) + 1 < a(j+1)
      BY <1>1, <2>2
    <2> QED BY <2>1, <2>3
  <1> HIDE DEF a, e
  <1>3. /\ IsFiniteSet(T) /\ Cardinality(1..n-1) = n - 1 /\ IsFiniteSet(1..n-1)
    <2>1. T \in SUBSET (1..Len(s)) /\ IsFiniteSet(1..Len(s))
      BY <1>0, FS_Interval
    <2>2. IsFiniteSet(T)
      BY <2>1, FS_Subset
    <2>3. n - 1 \in Nat
      OBVIOUS
    <2>4. Cardinality(1..n-1) = n - 1 /\ IsFiniteSet(1..n-1)
      BY <2>3, IntervalSize
    <2> QED BY <2>2, <2>4
  <1>4. g \in Injection(1..n-1, T)
    <2>1. ASSUME NEW k \in 1..n-1
          PROVE  e(k) + 1 \in T
      <3>1. k \in 1..n /\ k + 1 <= n
        OBVIOUS
      <3>2. /\ a(k+1) \in 1..Len(s) /\ e(k) + 1 < a(k+1) /\ e(k) \in 1..Len(s)
            /\ e(k) # Len(s) => s[e(k)+1] = sep
        BY <1>1, <3>1
      <3>3. e(k) + 1 \in DOMAIN s /\ e(k) # Len(s)
        BY <1>0, <3>2
      <3> QED BY <3>2, <3>3
    <2>2. g \in [1..n-1 -> T]
      BY <2>1 DEF e
    <2>3. ASSUME NEW j \in 1..n-1, NEW k \in 1..n-1, g[j] = g[k]
          PROVE  j = k
      <3>1. j \in 1..n /\ k \in 1..n
        OBVIOUS
      <3>2. e(j) + 1 = e(k) + 1 /\ e(j) \in Int /\ e(k) \in Int
        BY <1>1, <2>3, <3>1 DEF e
      <3>3. ~(e(j) < e(k)) /\ ~(e(k) < e(j))
        BY <3>2
      <3>4. ~(j < k) /\ ~(k < j)
        BY <1>2, <3>1, <3>3
      <3> QED BY <3>4
    <2> HIDE DEF g, T
    <2> QED BY <2>2, <2>3, Fun_IsInj
  <1>5. g \in Surjection(1..n-1, T)
    <2> HIDE DEF g
    <2>1. Cardinality(T) = n - 1
      OBVIOUS
    <2> HIDE DEF T
    <2> QED BY <1>3, <1>4, <2>1, FS_Injection
  <1>6. ASSUME NEW m \in T
        PROVE  /\ m-1 \in 1..Len(s) /\ s[m-1] # sep /\ m < Len(s)
    <2>1. PICK k \in 1..n-1 : g[k] = m
      BY <1>5 DEF Surjection
    <2>2. k \in 1..n /\ k + 1 <= n
      OBVIOUS
    <2>3. m = e(k) + 1
      BY <2>1 DEF e
    <2>4. e(k) \in 1..Len(s) /\ s[e(k)] # sep /\ e(k) + 1 < Len(s)
      <3>1. /\ a(k+1) \in 1..Len(s) /\ e(k) + 1 < a(k+1) /\ e(k) \in 1..Len(s)
            /\ s[e(k)] # sep
        BY <1>1, <2>2
      <3> QED BY <1>0, <3>1
    <2> QED BY <2>3, <2>4
  <1>7. a(1) = 1
    <2>1. 1 \in 1..n
      OBVIOUS
    <2>2. a(1) \in 1..Len(s) /\ \A m \in 1..a(1)-1 : s[m] = sep
      BY <1>1, <2>1
    <2>3. a(1) # 1 => 1 \in 1..a(1)-1
      BY <2>2
    <2>4. 1 \notin T
      <3> HIDE DEF T
      <3>1. ~(1 - 1 \in 1..Len(s))
        BY <1>0
      <3> QED BY <1>6, <3>1
    <2>5. a(1) # 1 => 1 \in T
      <3>1. 1 \in DOMAIN s
        BY <1>0, <2>2
      <3> QED BY <2>2, <2>3, <3>1
    <2> QED BY <2>4, <2>5
  <1>8. e(n) = Len(s)
    <2>1. n \in 1..n
      OBVIOUS
    <2>2. e(n) \in 1..Len(s) /\ \A m \in e(n)+1..Len(s) : s[m] = sep
      BY <1>1, <2>1
    <2>3. e(n) # Len(s) => Len(s) \in e(n)+1..Len(s)
      BY <2>2
    <2>4. e(n) # Len(s) => Len(s) \in T
      BY <1>0, <2>2, <2>3
    <2>5. Len(s) \notin T
      <3> HIDE DEF T
      <3>1. ~(Len(s) < Len(s))
        BY <1>0
      <3> QED BY <1>6, <3>1
    <2> QED BY <2>4, <2>5
  <1>9. ASSUME NEW k \in 1..n-1
        PROVE  a(k+1) = e(k) + 2
    <2>1. k \in 1..n /\ k + 1 <= n
      OBVIOUS
    <2>2. /\ a(k+1) \in 1..Len(s) /\ e(k) + 1 < a(k+1) /\ e(k) \in 1..Len(s)
          /\ \A m \in e(k)+1..a(k+1)-1 : s[m] = sep
      BY <1>1, <2>1
    <2>3. a(k+1) # e(k) + 2 =>
            /\ e(k)+1 \in e(k)+1..a(k+1)-1 /\ e(k)+2 \in e(k)+1..a(k+1)-1
            /\ e(k)+2 \in 1..Len(s) /\ (e(k)+2) - 1 = e(k)+1
      BY <1>0, <2>2
    <2>4. a(k+1) # e(k) + 2 => e(k)+2 \in T /\ s[(e(k)+2)-1] = sep
      BY <1>0, <2>2, <2>3
    <2> QED BY <1>6, <2>4
  <1> QED BY <1>7, <1>8, <1>9 DEF Tight, a, e

(* How many separators come before a piece says how many are between it    *)
(* and the one before.                                                     *)
Before(s, sep, k) == Cardinality({j \in 1..Start(s, sep, k)-1 : s[j] = sep})

(* Without a separator before it the first piece begins at once.           *)
LEMMA FirstAtOnce ==
  ASSUME NEW s \in Seq(Token), NEW sep, 1 <= Cardinality(Starts(s, sep)),
         Before(s, sep, 1) = 0
  PROVE  Start(s, sep, 1) = 1
  <1> DEFINE a == Start(s, sep, 1)
             U == {j \in 1..a-1 : s[j] = sep}
  <1>1. 1 \in 1..Cardinality(Starts(s, sep))
    BY StartsFinite
  <1>2. a \in 1..Len(s) /\ \A m \in 1..a-1 : s[m] = sep
    BY <1>1, PieceAt
  <1>3. Len(s) \in Nat
    OBVIOUS
  <1>4. Cardinality(U) = 0
    BY DEF Before
  <1> HIDE DEF a
  <1>5. IsFiniteSet(U)
    <2>1. U \in SUBSET (1..a-1) /\ 1 \in Int /\ a-1 \in Int
      BY <1>2, <1>3
    <2>2. IsFiniteSet(1..a-1)
      BY <2>1, FS_Interval
    <2> HIDE DEF U
    <2> QED BY <2>1, <2>2, FS_Subset
  <1>6. U = {}
    <2> HIDE DEF U
    <2> QED BY <1>4, <1>5, FS_EmptySet
  <1>7. a # 1 => 1 \in U
    BY <1>2, <1>3
  <1> QED BY <1>6, <1>7 DEF a

(* With one separator more before it a piece begins right behind the       *)
(* separator that ends the one before it.                                  *)
LEMMA NextAtOnce ==
  ASSUME NEW s \in Seq(Token), NEW sep, NEW k \in 1..Cardinality(Starts(s, sep)),
         k + 1 <= Cardinality(Starts(s, sep)),
         Before(s, sep, k+1) = Before(s, sep, k) + 1
  PROVE  Start(s, sep, k+1) = Stop(s, sep, k) + 2
  <1> DEFINE a == Start(s, sep, k)
             e == Stop(s, sep, k)
             b == Start(s, sep, k+1)
             A == {j \in 1..a-1 : s[j] = sep}
             B == {j \in 1..b-1 : s[j] = sep}
             C == A \cup {e+1}
             D == C \cup {e+2}
  <1>1. /\ a \in 1..Len(s) /\ e \in 1..Len(s) /\ a <= e
        /\ b \in 1..Len(s) /\ e + 1 < b
        /\ \A m \in e+1..b-1 : s[m] = sep
    BY PieceAt
  <1>2. Len(s) \in Nat
    OBVIOUS
  <1>3. Cardinality(B) = Cardinality(A) + 1
    BY DEF Before
  <1> HIDE DEF a, b, e
  <1> SUFFICES ASSUME b # e + 2 PROVE FALSE
    BY DEF a, b, e
  <1>4. /\ A \in SUBSET (1..b-1) /\ e+1 \in 1..b-1 /\ e+2 \in 1..b-1
        /\ e+1 \notin A /\ e+2 \notin C /\ D \in SUBSET B /\ B \in SUBSET (1..b-1)
    <2>1. e+1 \in e+1..b-1 /\ e+2 \in e+1..b-1
      BY <1>1, <1>2
    <2>2. s[e+1] = sep /\ s[e+2] = sep
      BY <1>1, <2>1
    <2>3. e+1 \in 1..b-1 /\ e+2 \in 1..b-1 /\ e+1 \notin 1..a-1 /\ e+2 \notin 1..a-1
          /\ \A m \in 1..a-1 : m \in 1..b-1
      BY <1>1, <1>2, <2>1
    <2>4. e+1 # e+2
      BY <1>1, <1>2
    <2> QED BY <2>2, <2>3, <2>4
  <1> HIDE DEF A, B
  <1>5. IsFiniteSet(1..b-1) /\ IsFiniteSet(A) /\ IsFiniteSet(B)
    <2>1. 1 \in Int /\ b-1 \in Int
      BY <1>1, <1>2
    <2>2. IsFiniteSet(1..b-1)
      BY <2>1, FS_Interval
    <2> QED BY <1>4, <2>2, FS_Subset
  <1>6. IsFiniteSet(C) /\ Cardinality(C) = Cardinality(A) + 1
    BY <1>4, <1>5, FS_AddElement
  <1> HIDE DEF C
  <1>7. IsFiniteSet(D) /\ Cardinality(D) = Cardinality(C) + 1
    BY <1>4, <1>6, FS_AddElement
  <1> HIDE DEF D
  <1>8. Cardinality(D) <= Cardinality(B)
    BY <1>4, <1>5, FS_Subset
  <1>9. Cardinality(A) \in Nat
    BY <1>5, FS_CardinalityType
  <1> QED BY <1>3, <1>6, <1>7, <1>8, <1>9

(* A date in words: three numbers with a "-" between each two.             *)
LEMMA DatePieces ==
  ASSUME NEW w \in Seq(Token), IsDate(w)
  PROVE  Tight(w, "-", 3) /\ \A k \in 1..Len(w) : w[k] # "-" => w[k] \in Digits
  <1> DEFINE dash == "-"
  <1>1. /\ ToSet(w) \subseteq Digits \cup {dash}
        /\ Cardinality({k \in DOMAIN w : w[k] = dash}) = 2
        /\ Len(Pieces(w, dash)) = 3
    BY DEF IsDate, IsValidDate
  <1> HIDE DEF dash
  <1>2. Cardinality(Starts(w, dash)) = 3
    <2>1. Cardinality(Starts(w, dash)) \in Nat
      BY StartsFinite
    <2>2. Len(Pieces(w, dash)) = Cardinality(Starts(w, dash))
      BY <2>1 DEF Pieces
    <2> QED BY <1>1, <2>2
  <1>3. Tight(w, dash, 3)
    <2>1. 3 \in Nat \ {0} /\ 3 - 1 = 2
      OBVIOUS
    <2> QED BY <1>1, <1>2, <2>1, FewSeparators
  <1>4. \A k \in 1..Len(w) : w[k] # dash => w[k] \in Digits
    BY <1>1 DEF ToSet
  <1> QED BY <1>3, <1>4 DEF dash

-----------------------------------------------------------------------------
(* A line of the request file, byte after byte, from its i-th or the next  *)
(* on.                                                                     *)
Separated == {" ", "-"}

LineRun(g, l, i, scan) ==
  /\ g \in [i..Len(l) -> Scanner] /\ g[i] = scan
  /\ \A k \in i+1..Len(l) : g[k] = ScanLine(g[k-1], l[k])

OneWord(l, x, y) == \A k \in x..y : l[k] \notin Separated

(* A piece of a line without separators is added to what has been read.    *)
LEMMA WordRun ==
  ASSUME NEW l \in Seq(Token), NEW i \in Nat, NEW g, NEW scan, LineRun(g, l, i, scan),
         NEW j \in i..Len(l), NEW m \in j..Len(l),
         OneWord(l, j+1, m),
         NEW count, NEW dateCount, NEW type, NEW city, NEW d1, NEW d2,
         g[j] = ScannerAt(<<>>, count, dateCount, type, city, d1, d2)
  PROVE  g[m] = ScannerAt(SubSeq(l, j+1, m), count, dateCount, type, city, d1, d2)
  <1> DEFINE At(k) == ScannerAt(SubSeq(l, j+1, j+k), count, dateCount, type, city, d1, d2)
             n == m - j
             U == {k \in 0..n : g[j+k] = At(k)}
  <1>1. Len(l) \in Nat /\ n \in Nat /\ j \in Nat /\ j + n = m
    OBVIOUS
  <1>2. 0 \in U
    <2>1. SubSeq(l, j+1, j+0) = <<>> /\ j + 0 = j
      OBVIOUS
    <2>2. At(0) = g[j+0]
      BY <2>1
    <2> HIDE DEF At
    <2> QED BY <1>1, <2>2
  <1> HIDE DEF n
  <1>3. ASSUME NEW k \in 0..n-1, k \in U PROVE k + 1 \in U
    <2> DEFINE w == SubSeq(l, j+1, j+k)
               b == l[j+k+1]
               v == Append(w, b)
    <2>1. j+k+1 \in i+1..Len(l) /\ (j+k+1) - 1 = j+k /\ j+k+1 \in j+1..m /\ j+(k+1) = j+k+1
      BY <1>1
    <2>2. v = SubSeq(l, j+1, j+(k+1))
      BY <1>1, <2>1
    <2>3. g[j+k+1] = ScanLine(g[j+k], b) /\ b \notin Separated
      BY <2>1 DEF LineRun, OneWord
    <2>4. g[j+k] = At(k)
      <3> HIDE DEF At
      <3> QED BY <1>3
    <2>5. ScanLine(g[j+k], b) = ScannerAt(v, count, dateCount, type, city, d1, d2)
      <3> DEFINE s == g[j+k]
      <3>1. s = ScannerAt(w, count, dateCount, type, city, d1, d2)
        BY <2>4
      <3>2. b # " " /\ b # "-"
        BY <2>3 DEF Separated
      <3> HIDE DEF s, w, b
      <3>3. s.line = w
        BY ONLY <3>1 DEF ScannerAt
      <3>4. ScanLine(s, b) = [s EXCEPT !.line = v]
        BY <3>2, <3>3 DEF ScanLine
      <3> HIDE DEF v
      <3>5. [s EXCEPT !.line = v] = ScannerAt(v, count, dateCount, type, city, d1, d2)
        BY ONLY <3>1 DEF ScannerAt
      <3> QED BY <3>4, <3>5 DEF s
    <2>6. g[j+(k+1)] = At(k+1)
      BY <2>1, <2>2, <2>3, <2>5
    <2>7. k + 1 \in 0..n
      BY <1>1
    <2> HIDE DEF At
    <2> QED BY <2>6, <2>7
  <1> HIDE DEF U, At
  <1>4. n \in U
    <2>1. 0..n \subseteq U
      BY <1>1, <1>2, <1>3, BoundedInduction
    <2> QED BY <1>1, <2>1
  <1>5. g[m] = At(n)
    BY <1>1, <1>4 DEF U
  <1> QED BY <1>1, <1>5 DEF At

(* The separators.                                                         *)
LEMMA BlankRun ==
  ASSUME NEW l \in Seq(Token), NEW i \in Nat, NEW g, NEW scan, LineRun(g, l, i, scan),
         NEW j \in i..Len(l), j + 1 <= Len(l), l[j+1] = Space
  PROVE  g[j+1] = ReadBlank(g[j])
  <1>0. Len(l) \in Nat
    OBVIOUS
  <1>1. j + 1 \in i+1..Len(l) /\ (j+1) - 1 = j
    BY <1>0
  <1>2. g[j+1] = ScanLine(g[j], l[j+1])
    BY <1>1 DEF LineRun
  <1> QED BY <1>2 DEF ScanLine, Space

(* What a "-" of a line makes of the scanner.                              *)
LEMMA DashRun ==
  ASSUME NEW l \in Seq(Token), NEW i \in Nat, NEW g, NEW scan, LineRun(g, l, i, scan),
         NEW j \in i..Len(l), j + 1 <= Len(l), l[j+1] = "-"
  PROVE  g[j+1] = ReadDash(g[j])
  <1>0. Len(l) \in Nat
    OBVIOUS
  <1>1. j + 1 \in i+1..Len(l) /\ (j+1) - 1 = j
    BY <1>0
  <1>2. g[j+1] = ScanLine(g[j], l[j+1])
    BY <1>1 DEF LineRun
  <1> QED BY <1>2 DEF ScanLine

(* A part of a part.                                                       *)
LEMMA PartOfPart ==
  ASSUME NEW l \in Seq(Token), NEW a \in 1..Len(l), NEW e \in a..Len(l),
         NEW w, w = SubSeq(l, a, e), NEW x \in 1..Len(w), NEW y \in x..Len(w)
  PROVE  SubSeq(w, x, y) = SubSeq(l, a-1+x, a-1+y)
  <1>1. Len(l) \in Nat /\ w \in Seq(Token) /\ Len(w) = e - a + 1
        /\ \A k \in 1..Len(w) : w[k] = l[a-1+k]
    OBVIOUS
  <1>2. a-1+x \in 1..Len(l) /\ a-1+y \in 1..Len(l)
    BY <1>1
  <1> DEFINE u == SubSeq(w, x, y)
             v == SubSeq(l, a-1+x, a-1+y)
  <1>3. /\ u \in Seq(Token) /\ Len(u) = y-x+1
        /\ \A k \in 1..y-x+1 : u[k] = w[x-1+k]
    BY <1>1
  <1>4. /\ v \in Seq(Token) /\ Len(v) = y-x+1
        /\ \A k \in 1..y-x+1 : v[k] = l[a-1+x-1+k]
    BY <1>1, <1>2
  <1>5. \A k \in 1..y-x+1 : x-1+k \in 1..Len(w) /\ a-1+(x-1+k) = a-1+x-1+k
    BY <1>1
  <1>6. \A k \in 1..y-x+1 : u[k] = v[k]
    BY <1>1, <1>3, <1>4, <1>5
  <1> HIDE DEF u, v
  <1> QED BY <1>3, <1>4, <1>6, SeqEqual DEF u, v

DashesAt(w, p, q) ==
  /\ 1 < p /\ p + 1 < q /\ q < Len(w) /\ w[p] = "-" /\ w[q] = "-"
  /\ \A k \in 1..Len(w) : k \notin {p, q} => w[k] \in Digits
  /\ GetDate(w) = DateAt(AtoI(SubSeq(w, 1, p-1)), AtoI(SubSeq(w, p+1, q-1)),
                         AtoI(SubSeq(w, q+1, Len(w))))

(* Where the two "-" of a date are, and its three numbers.                 *)
LEMMA DateParts ==
  ASSUME NEW w \in Seq(Token), IsDate(w)
  PROVE  \E p, q \in 1..Len(w) : DashesAt(w, p, q)
  <1> DEFINE dash == "-"
             a(k) == Start(w, dash, k)
             e(k) == Stop(w, dash, k)
             p == e(1) + 1
             q == e(2) + 1
  <1>1. Tight(w, dash, 3) /\ \A k \in 1..Len(w) : w[k] # dash => w[k] \in Digits
    BY DatePieces
  <1> HIDE DEF dash
  <1>2. Len(w) \in Nat
    OBVIOUS
  <1>3. /\ Cardinality(Starts(w, dash)) = 3
        /\ a(1) = 1 /\ e(3) = Len(w) /\ a(2) = e(1) + 2 /\ a(3) = e(2) + 2
    BY <1>1 DEF Tight
  <1>4. ASSUME NEW k \in 1..3
        PROVE  /\ a(k) \in 1..Len(w) /\ e(k) \in 1..Len(w) /\ a(k) <= e(k)
               /\ \A m \in a(k)..e(k) : w[m] # dash
               /\ e(k) # Len(w) => w[e(k)+1] = dash
               /\ Pieces(w, dash)[k] = SubSeq(w, a(k), e(k))
    <2>1. k \in 1..Cardinality(Starts(w, dash))
      BY <1>3
    <2> QED BY <2>1, PieceAt
  <1> HIDE DEF a, e
  <1>5. 1 \in 1..3 /\ 2 \in 1..3 /\ 3 \in 1..3
    OBVIOUS
  <1>6. /\ 1 < p /\ p + 1 < q /\ q < Len(w) /\ p \in 1..Len(w) /\ q \in 1..Len(w)
        /\ e(1) # Len(w) /\ e(2) # Len(w)
        /\ p - 1 = e(1) /\ p + 1 = a(2) /\ q - 1 = e(2) /\ q + 1 = a(3)
    <2>1. /\ e(1) \in 1..Len(w) /\ a(2) \in 1..Len(w) /\ e(2) \in 1..Len(w)
          /\ a(3) \in 1..Len(w) /\ e(3) \in 1..Len(w)
          /\ a(2) <= e(2) /\ a(3) <= e(3)
      BY <1>4, <1>5
    <2> QED BY <1>2, <1>3, <2>1
  <1>7. w[p] = dash /\ w[q] = dash
    BY <1>4, <1>5, <1>6
  <1>8. \A k \in 1..Len(w) : k \notin {p, q} => w[k] \in Digits
    <2> SUFFICES ASSUME NEW k \in 1..Len(w), k \notin {p, q}
                 PROVE  w[k] # dash
      BY <1>1
    <2>1. \/ k \in a(1)..e(1) \/ k \in a(2)..e(2) \/ k \in a(3)..e(3)
      <3>1. e(1) \in Int /\ e(2) \in Int
        BY <1>4, <1>5
      <3> QED BY <1>2, <1>3, <1>6, <3>1
    <2> QED BY <1>4, <1>5, <2>1
  <1>9. GetDate(w) = DateAt(AtoI(SubSeq(w, 1, p-1)), AtoI(SubSeq(w, p+1, q-1)),
                            AtoI(SubSeq(w, q+1, Len(w))))
    <2>1. /\ Pieces(w, dash)[1] = SubSeq(w, 1, p-1)
          /\ Pieces(w, dash)[2] = SubSeq(w, p+1, q-1)
          /\ Pieces(w, dash)[3] = SubSeq(w, q+1, Len(w))
      BY <1>3, <1>4, <1>5, <1>6
    <2> HIDE DEF p, q
    <2> QED BY <2>1 DEF GetDate, DateAt, dash
  <1> HIDE DEF p, q
  <1>10. DashesAt(w, p, q)
    BY <1>6, <1>7, <1>8, <1>9 DEF DashesAt, dash
  <1> QED BY <1>6, <1>10

DashesIn(l, a, b, c, e, whole) ==
  /\ a < b /\ b + 1 < c /\ c < e /\ l[b] = "-" /\ l[c] = "-"
  /\ OneWord(l, a, b-1) /\ OneWord(l, b+1, c-1) /\ OneWord(l, c+1, e)
  /\ whole = DateAt(AtoI(SubSeq(l, a, b-1)), AtoI(SubSeq(l, b+1, c-1)),
                    AtoI(SubSeq(l, c+1, e)))

(* The same of a date that is a piece of a line.                           *)
LEMMA DateInLine ==
  ASSUME NEW l \in Seq(Token), NEW a \in 1..Len(l), NEW e \in a..Len(l),
         NEW w, w = SubSeq(l, a, e), IsDate(w)
  PROVE  \E b, c \in a..e : DashesIn(l, a, b, c, e, GetDate(w))
  <1>1. /\ Len(l) \in Nat /\ w \in Seq(Token) /\ Len(w) = e - a + 1
        /\ \A k \in 1..Len(w) : w[k] = l[a-1+k]
    OBVIOUS
  <1>2. PICK p, q \in 1..Len(w) : DashesAt(w, p, q)
    BY <1>1, DateParts
  <1>3. /\ 1 < p /\ p + 1 < q /\ q < Len(w) /\ w[p] = "-" /\ w[q] = "-"
        /\ \A k \in 1..Len(w) : k \notin {p, q} => w[k] \in Digits
    BY <1>2 DEF DashesAt
  <1> DEFINE b == a-1+p
             c == a-1+q
  <1>4. /\ b \in a..e /\ c \in a..e /\ a < b /\ b + 1 < c /\ c < e
        /\ b - 1 = a-1+(p-1) /\ b + 1 = a-1+(p+1) /\ c - 1 = a-1+(q-1)
        /\ c + 1 = a-1+(q+1) /\ e = a-1+Len(w) /\ a = a-1+1
    BY <1>1, <1>3
  <1>5. l[b] = "-" /\ l[c] = "-"
    BY <1>1, <1>3
  <1>6. ASSUME NEW k \in a..e, k \notin {b, c} PROVE l[k] \notin Separated
    <2>1. k-a+1 \in 1..Len(w) /\ k-a+1 \notin {p, q} /\ a-1+(k-a+1) = k
      <3>1. k-a+1 \in 1..Len(w) /\ a-1+(k-a+1) = k
        BY <1>1
      <3>2. k # b /\ k # c
        BY <1>6
      <3> QED BY <1>1, <3>1, <3>2
    <2>2. l[k] \in Digits
      BY <1>1, <1>3, <2>1
    <2> QED BY <2>2, DigitsPlain DEF Separated
  <1>7. GetDate(w) = DateAt(AtoI(SubSeq(l, a, b-1)), AtoI(SubSeq(l, b+1, c-1)),
                    AtoI(SubSeq(l, c+1, e)))
    <2>1. /\ SubSeq(w, 1, p-1) = SubSeq(l, a-1+1, a-1+(p-1))
          /\ SubSeq(w, p+1, q-1) = SubSeq(l, a-1+(p+1), a-1+(q-1))
          /\ SubSeq(w, q+1, Len(w)) = SubSeq(l, a-1+(q+1), a-1+Len(w))
      <3>1. /\ 1 \in 1..Len(w) /\ p-1 \in 1..Len(w) /\ p+1 \in 1..Len(w)
            /\ q-1 \in p+1..Len(w) /\ q+1 \in 1..Len(w) /\ Len(w) \in q+1..Len(w)
            /\ a \in 1..Len(l)
        BY <1>1, <1>3
      <3> QED BY <3>1, PartOfPart
    <2>2. GetDate(w) = DateAt(AtoI(SubSeq(w, 1, p-1)), AtoI(SubSeq(w, p+1, q-1)),
                         AtoI(SubSeq(w, q+1, Len(w))))
      BY <1>2 DEF DashesAt
    <2> HIDE DEF b, c
    <2> QED BY <1>4, <2>1, <2>2
  <1> HIDE DEF b, c
  <1>8. OneWord(l, a, b-1) /\ OneWord(l, b+1, c-1) /\ OneWord(l, c+1, e)
    <2>1. /\ \A k \in a..b-1 : k \in a..e /\ k \notin {b, c}
          /\ \A k \in b+1..c-1 : k \in a..e /\ k \notin {b, c}
          /\ \A k \in c+1..e : k \in a..e /\ k \notin {b, c}
      BY <1>1, <1>4
    <2> QED BY <1>6, <2>1 DEF OneWord
  <1>9. DashesIn(l, a, b, c, e, GetDate(w))
    BY <1>4, <1>5, <1>7, <1>8 DEF DashesIn
  <1> QED BY <1>4, <1>9

(* The scanner at the end of a date, when the year has not been read.      *)
PartOfDate(d, y, whole) == ~Missing(y) /\ NoYear(d) /\ YearRead(d, y) = whole

(* A number replaces one part of a date.                                   *)
LEMMA DateChanged ==
  ASSUME NEW a, NEW b, NEW c, NEW line
  PROVE  /\ DayRead(DateAt(a, b, c), line) = DateAt(AtoI(line), b, c)
         /\ MonthRead(DateAt(a, b, c), line) = DateAt(a, AtoI(line), c)
         /\ YearRead(DateAt(a, b, c), line) = DateAt(a, b, AtoI(line))
  <1>1. DayRead(DateAt(a, b, c), line) = DateAt(AtoI(line), b, c)
    BY DEF DateAt, DayRead
  <1>2. MonthRead(DateAt(a, b, c), line) = DateAt(a, AtoI(line), c)
    BY DEF DateAt, MonthRead
  <1>3. YearRead(DateAt(a, b, c), line) = DateAt(a, b, AtoI(line))
    BY DEF DateAt, YearRead
  <1> QED BY <1>1, <1>2, <1>3

(* Day and month read: the year is all that is missing.                    *)
LEMMA PartRead ==
  ASSUME NEW P, NEW Q, NEW R, ~Missing(R)
  PROVE  PartOfDate(MonthRead(DayRead(NoDate, P), Q), R, DateAt(AtoI(P), AtoI(Q), AtoI(R)))
  <1> DEFINE n == -1
             e1 == DayRead(NoDate, P)
             e2 == MonthRead(e1, Q)
  <1>1. NoDate = DateAt(n, n, n)
    BY DEF NoDate, DateAt
  <1> HIDE DEF n
  <1>2. e1 = DateAt(AtoI(P), n, n)
    BY <1>1, DateChanged
  <1>3. e2 = DateAt(AtoI(P), AtoI(Q), n)
    BY <1>2, DateChanged
  <1> HIDE DEF e1, e2
  <1>4. YearRead(e2, R) = DateAt(AtoI(P), AtoI(Q), AtoI(R))
    BY <1>3, DateChanged
  <1>5. e2.year = -1
    BY <1>3 DEF DateAt, n
  <1> QED BY <1>4, <1>5 DEF PartOfDate, NoYear, e1, e2

InFirstDate(s, count, type, city, d2, whole) ==
  \E d, y : s = ScannerAt(y, count, 2, type, city, d, d2) /\ PartOfDate(d, y, whole)

InSecondDate(s, count, type, city, d1, whole) ==
  \E d, y : s = ScannerAt(y, count, 2, type, city, d1, d) /\ PartOfDate(d, y, whole)

(* A date of a line is read as the first date.                             *)
LEMMA FirstDateRun ==
  ASSUME NEW l \in Seq(Token), NEW i \in Nat, NEW g, NEW scan, LineRun(g, l, i, scan),
         NEW a \in i+1..Len(l), NEW e \in a..Len(l), NEW w, w = SubSeq(l, a, e), IsDate(w),
         NEW count, NEW type, NEW city, NEW d2,
         g[a-1] = ScannerAt(<<>>, count, 0, type, city, NoDate, d2)
  PROVE  InFirstDate(g[e], count, type, city, d2, GetDate(w))
  <1>1. Len(l) \in Nat /\ a \in 1..Len(l)
    OBVIOUS
  <1>2. PICK b, c \in a..e : DashesIn(l, a, b, c, e, GetDate(w))
    BY <1>1, DateInLine
  <1>3. /\ a < b /\ b + 1 < c /\ c < e /\ l[b] = "-" /\ l[c] = "-"
        /\ OneWord(l, a, b-1) /\ OneWord(l, b+1, c-1) /\ OneWord(l, c+1, e)
    BY <1>2 DEF DashesIn
  <1> DEFINE P == SubSeq(l, a, b-1)
             Q == SubSeq(l, b+1, c-1)
             R == SubSeq(l, c+1, e)
             e1 == DayRead(NoDate, P)
             e2 == MonthRead(e1, Q)
  <1>4. /\ a-1 \in i..Len(l) /\ b-1 \in a-1..Len(l) /\ (a-1)+1 = a /\ b-1 \in i..Len(l)
        /\ (b-1)+1 = b /\ b <= Len(l) /\ b \in i..Len(l) /\ c-1 \in b..Len(l)
        /\ c-1 \in i..Len(l) /\ (c-1)+1 = c /\ c <= Len(l) /\ c \in i..Len(l)
        /\ e \in c..Len(l)
    <2> DEFINE n == Len(l)
    <2>1. /\ n \in Nat /\ i \in Nat /\ a \in i+1..n /\ e \in a..n /\ b \in a..e /\ c \in a..e
          /\ a < b /\ b + 1 < c /\ c < e
      BY <1>1, <1>3
    <2> HIDE DEF n
    <2>2. a \in Int /\ b \in Int /\ c \in Int /\ e \in Int
      BY ONLY <2>1
    <2>3. i <= a - 1 /\ a <= b - 1 /\ b <= c - 1 /\ e <= n
      BY ONLY <2>1, <2>2
    <2>4. /\ a-1 \in i..n /\ b-1 \in a-1..n /\ (a-1)+1 = a /\ b-1 \in i..n
          /\ (b-1)+1 = b /\ b <= n /\ b \in i..n /\ c-1 \in b..n
      BY ONLY <2>1, <2>2, <2>3
    <2>5. c-1 \in i..n /\ (c-1)+1 = c /\ c <= n /\ c \in i..n /\ e \in c..n
      BY ONLY <2>1, <2>2, <2>3
    <2> QED BY <2>4, <2>5 DEF n
  <1>5. PartOfDate(e2, R, GetDate(w))
    <2>1. GetDate(w) = DateAt(AtoI(P), AtoI(Q), AtoI(R))
      BY <1>2 DEF DashesIn
    <2>2. ~Missing(R)
      <3>1. Len(R) = e - c /\ e - c # 0
        BY <1>1, <1>3
      <3> QED BY <3>1 DEF Missing
    <2> QED BY <2>1, <2>2, PartRead
  <1>6. NoDate.day = -1 /\ e1.month = -1
    BY DEF NoDate, DayRead
  <1> HIDE DEF e1, e2
  <1>7. g[b-1] = ScannerAt(P, count, 0, type, city, NoDate, d2)
    <2> DEFINE j == a-1
               m == b-1
    <2>1. OneWord(l, j+1, m) /\ j \in i..Len(l) /\ m \in j..Len(l) /\ j+1 = a
      BY <1>3, <1>4
    <2> DEFINE zero == 0
               d1 == NoDate
    <2>3. g[j] = ScannerAt(<<>>, count, zero, type, city, d1, d2)
      OBVIOUS
    <2> HIDE DEF zero, d1, j, m
    <2>2. g[m] = ScannerAt(SubSeq(l, j+1, m), count, zero, type, city, d1, d2)
      BY <2>1, <2>3, WordRun
    <2> USE DEF zero, d1, j, m
    <2> QED BY <2>1, <2>2
  <1>8. g[b] = ScannerAt(<<>>, count, 1, type, city, e1, d2)
    <2>1. (b-1)+1 <= Len(l) /\ l[(b-1)+1] = "-"
      BY <1>3, <1>4
    <2>2. g[(b-1)+1] = ReadDash(g[b-1])
      BY <1>4, <2>1, DashRun
    <2>3. g[b] = ReadDash(g[b-1])
      BY <1>4, <2>2
    <2> HIDE DEF P
    <2> QED BY <1>6, <1>7, <2>3, DashAt DEF e1
  <1>9. g[c-1] = ScannerAt(Q, count, 1, type, city, e1, d2)
    <2> DEFINE one == 1
               m == c-1
    <2>1. g[b] = ScannerAt(<<>>, count, one, type, city, e1, d2)
      BY <1>8
    <2>3. OneWord(l, b+1, m) /\ m \in b..Len(l)
      BY <1>3, <1>4
    <2> HIDE DEF one, m
    <2>2. g[m] = ScannerAt(SubSeq(l, b+1, m), count, one, type, city, e1, d2)
      BY <1>4, <2>1, <2>3, WordRun
    <2> QED BY <2>2 DEF one, m
  <1>10. g[c] = ScannerAt(<<>>, count, 2, type, city, e2, d2)
    <2>1. (c-1)+1 <= Len(l) /\ l[(c-1)+1] = "-"
      BY <1>3, <1>4
    <2>2. g[(c-1)+1] = ReadDash(g[c-1])
      BY <1>4, <2>1, DashRun
    <2>3. g[c] = ReadDash(g[c-1])
      BY <1>4, <2>2
    <2> HIDE DEF Q
    <2> QED BY <1>6, <1>9, <2>3, DashAt DEF e2
  <1>11. g[e] = ScannerAt(R, count, 2, type, city, e2, d2)
    <2> DEFINE two == 2
    <2>1. g[c] = ScannerAt(<<>>, count, two, type, city, e2, d2)
      BY <1>10
    <2>2. OneWord(l, c+1, e) /\ c \in i..Len(l) /\ e \in c..Len(l)
      BY <1>3, <1>4
    <2> HIDE DEF two, e1, e2
    <2>3. g[e] = ScannerAt(SubSeq(l, c+1, e), count, two, type, city, e2, d2)
      BY <2>1, <2>2, WordRun
    <2> QED BY <2>3 DEF two
  <1> QED BY <1>5, <1>11 DEF InFirstDate

(* A date in words stands for a date without a missing part.               *)
LEMMA DateType ==
  ASSUME NEW w \in Seq(Token), IsDate(w)
  PROVE  GetDate(w) \in WholeDates
  <1>1. PICK p, q \in 1..Len(w) : DashesAt(w, p, q)
    BY DateParts
  <1> DEFINE P == SubSeq(w, 1, p-1)
             Q == SubSeq(w, p+1, q-1)
             R == SubSeq(w, q+1, Len(w))
  <1>2. Len(w) \in Nat /\ 1 < p /\ p + 1 < q /\ q < Len(w)
    BY <1>1 DEF DashesAt
  <1>3. P \in Seq(Token) /\ Q \in Seq(Token) /\ R \in Seq(Token)
    BY <1>2
  <1>4. GetDate(w) = DateAt(AtoI(P), AtoI(Q), AtoI(R))
    BY <1>1 DEF DashesAt
  <1> HIDE DEF P, Q, R
  <1>5. AtoI(P) \in Nat /\ AtoI(Q) \in Nat /\ AtoI(R) \in Nat
    BY <1>3, AtoIType
  <1> QED BY <1>4, <1>5 DEF DateAt, WholeDates

(* A date of a line is read as the second date.                            *)
LEMMA SecondDateRun ==
  ASSUME NEW l \in Seq(Token), NEW i \in Nat, NEW g, NEW scan, LineRun(g, l, i, scan),
         NEW a \in i+1..Len(l), NEW e \in a..Len(l), NEW w, w = SubSeq(l, a, e), IsDate(w),
         NEW count, NEW type, NEW city, NEW d1, d1 \in WholeDates,
         g[a-1] = ScannerAt(<<>>, count, 0, type, city, d1, NoDate)
  PROVE  InSecondDate(g[e], count, type, city, d1, GetDate(w))
  <1>1. Len(l) \in Nat /\ a \in 1..Len(l)
    OBVIOUS
  <1>2. PICK b, c \in a..e : DashesIn(l, a, b, c, e, GetDate(w))
    BY <1>1, DateInLine
  <1>3. /\ a < b /\ b + 1 < c /\ c < e /\ l[b] = "-" /\ l[c] = "-"
        /\ OneWord(l, a, b-1) /\ OneWord(l, b+1, c-1) /\ OneWord(l, c+1, e)
    BY <1>2 DEF DashesIn
  <1> DEFINE P == SubSeq(l, a, b-1)
             Q == SubSeq(l, b+1, c-1)
             R == SubSeq(l, c+1, e)
             e1 == DayRead(NoDate, P)
             e2 == MonthRead(e1, Q)
  <1>4. /\ a-1 \in i..Len(l) /\ b-1 \in a-1..Len(l) /\ (a-1)+1 = a /\ b-1 \in i..Len(l)
        /\ (b-1)+1 = b /\ b <= Len(l) /\ b \in i..Len(l) /\ c-1 \in b..Len(l)
        /\ c-1 \in i..Len(l) /\ (c-1)+1 = c /\ c <= Len(l) /\ c \in i..Len(l)
        /\ e \in c..Len(l)
    <2> DEFINE n == Len(l)
    <2>1. /\ n \in Nat /\ i \in Nat /\ a \in i+1..n /\ e \in a..n /\ b \in a..e /\ c \in a..e
          /\ a < b /\ b + 1 < c /\ c < e
      BY <1>1, <1>3
    <2> HIDE DEF n
    <2>2. a \in Int /\ b \in Int /\ c \in Int /\ e \in Int
      BY ONLY <2>1
    <2>3. i <= a - 1 /\ a <= b - 1 /\ b <= c - 1 /\ e <= n
      BY ONLY <2>1, <2>2
    <2>4. /\ a-1 \in i..n /\ b-1 \in a-1..n /\ (a-1)+1 = a /\ b-1 \in i..n
          /\ (b-1)+1 = b /\ b <= n /\ b \in i..n /\ c-1 \in b..n
      BY ONLY <2>1, <2>2, <2>3
    <2>5. c-1 \in i..n /\ (c-1)+1 = c /\ c <= n /\ c \in i..n /\ e \in c..n
      BY ONLY <2>1, <2>2, <2>3
    <2> QED BY <2>4, <2>5 DEF n
  <1>5. PartOfDate(e2, R, GetDate(w))
    <2>1. GetDate(w) = DateAt(AtoI(P), AtoI(Q), AtoI(R))
      BY <1>2 DEF DashesIn
    <2>2. ~Missing(R)
      <3>1. Len(R) = e - c /\ e - c # 0
        BY <1>1, <1>3
      <3> QED BY <3>1 DEF Missing
    <2> QED BY <2>1, <2>2, PartRead
  <1>6. NoDate.day = -1 /\ e1.month = -1 /\ d1.day # -1 /\ d1.month # -1
    BY DEF NoDate, DayRead, WholeDates
  <1> HIDE DEF e1, e2
  <1>7. g[b-1] = ScannerAt(P, count, 0, type, city, d1, NoDate)
    <2> DEFINE j == a-1
               m == b-1
    <2>1. OneWord(l, j+1, m) /\ j \in i..Len(l) /\ m \in j..Len(l) /\ j+1 = a
      BY <1>3, <1>4
    <2> DEFINE zero == 0
               d2 == NoDate
    <2>3. g[j] = ScannerAt(<<>>, count, zero, type, city, d1, d2)
      OBVIOUS
    <2> HIDE DEF zero, d2, j, m
    <2>2. g[m] = ScannerAt(SubSeq(l, j+1, m), count, zero, type, city, d1, d2)
      BY <2>1, <2>3, WordRun
    <2> USE DEF zero, d2, j, m
    <2> QED BY <2>1, <2>2
  <1>8. g[b] = ScannerAt(<<>>, count, 1, type, city, d1, e1)
    <2>1. (b-1)+1 <= Len(l) /\ l[(b-1)+1] = "-"
      BY <1>3, <1>4
    <2>2. g[(b-1)+1] = ReadDash(g[b-1])
      BY <1>4, <2>1, DashRun
    <2>3. g[b] = ReadDash(g[b-1])
      BY <1>4, <2>2
    <2> HIDE DEF P
    <2> QED BY <1>6, <1>7, <2>3, DashAt DEF e1
  <1>9. g[c-1] = ScannerAt(Q, count, 1, type, city, d1, e1)
    <2> DEFINE one == 1
               m == c-1
    <2>1. g[b] = ScannerAt(<<>>, count, one, type, city, d1, e1)
      BY <1>8
    <2>3. OneWord(l, b+1, m) /\ m \in b..Len(l)
      BY <1>3, <1>4
    <2> HIDE DEF one, m
    <2>2. g[m] = ScannerAt(SubSeq(l, b+1, m), count, one, type, city, d1, e1)
      BY <1>4, <2>1, <2>3, WordRun
    <2> QED BY <2>2 DEF one, m
  <1>10. g[c] = ScannerAt(<<>>, count, 2, type, city, d1, e2)
    <2>1. (c-1)+1 <= Len(l) /\ l[(c-1)+1] = "-"
      BY <1>3, <1>4
    <2>2. g[(c-1)+1] = ReadDash(g[c-1])
      BY <1>4, <2>1, DashRun
    <2>3. g[c] = ReadDash(g[c-1])
      BY <1>4, <2>2
    <2> HIDE DEF Q
    <2> QED BY <1>6, <1>9, <2>3, DashAt DEF e2
  <1>11. g[e] = ScannerAt(R, count, 2, type, city, d1, e2)
    <2> DEFINE two == 2
    <2>1. g[c] = ScannerAt(<<>>, count, two, type, city, d1, e2)
      BY <1>10
    <2>2. OneWord(l, c+1, e) /\ c \in i..Len(l) /\ e \in c..Len(l)
      BY <1>3, <1>4
    <2> HIDE DEF two, e1, e2
    <2>3. g[e] = ScannerAt(SubSeq(l, c+1, e), count, two, type, city, d1, e2)
      BY <2>1, <2>2, WordRun
    <2> QED BY <2>3 DEF two
  <1> QED BY <1>5, <1>11 DEF InSecondDate

(* Blanks behind the second date or the city.                              *)
OnlyBlanks(l, x, y) == \A k \in x..y : l[k] = Space

Behind(s, count, dateCount, type, city, d1, d2) ==
  \E n \in Nat : n >= count /\ s = ScannerAt(<<>>, n, dateCount, type, city, d1, d2)

(* A blank behind the last word changes nothing that is asked for.         *)
LEMMA BlankBehind ==
  ASSUME NEW count \in Nat, count >= 4, NEW dateCount, NEW type, NEW city, NEW d1, NEW d2,
         count = 4 => Missing(city), NEW s, Behind(s, count, dateCount, type, city, d1, d2)
  PROVE  Behind(ReadBlank(s), count, dateCount, type, city, d1, d2)
  <1>1. PICK n \in Nat : n >= count /\ s = ScannerAt(<<>>, n, dateCount, type, city, d1, d2)
    BY DEF Behind
  <1> DEFINE none == <<>>
             At(k) == ScannerAt(none, k, dateCount, type, city, d1, d2)
  <1>2. n = 4 => city = none
    <2>1. n = 4 => count = 4
      BY <1>1
    <2> QED BY <2>1 DEF Missing
  <1>3. ReadBlank(s) = At(n + 1)
    <2>1. CASE n = 4
      <3>1. ReadBlank(s) = ScannerAt(none, n + 1, dateCount, type, none, d1, d2)
        BY <1>1, <2>1, BlankAt
      <3> QED BY <1>2, <2>1, <3>1
    <2>2. CASE n # 4
      <3>1. n \notin {1, 2, 3, 4}
        BY <1>1, <2>2
      <3> QED BY <1>1, <3>1, BlankAt
    <2> QED BY <2>1, <2>2
  <1>4. n + 1 \in Nat /\ n + 1 >= count
    BY <1>1
  <1> HIDE DEF At
  <1>5. \E m \in Nat : m >= count /\ ReadBlank(s) = At(m)
    BY <1>3, <1>4
  <1> QED BY <1>5 DEF At, Behind

(* The same of any number of blanks.                                       *)
LEMMA BlanksRun ==
  ASSUME NEW l \in Seq(Token), NEW i \in Nat, NEW g, NEW scan, LineRun(g, l, i, scan),
         NEW j \in i..Len(l), NEW m \in j..Len(l), OnlyBlanks(l, j+1, m),
         NEW count \in Nat, count >= 4, NEW dateCount, NEW type, NEW city, NEW d1, NEW d2,
         count = 4 => Missing(city), Behind(g[j], count, dateCount, type, city, d1, d2)
  PROVE  Behind(g[m], count, dateCount, type, city, d1, d2)
  <1> DEFINE n == m - j
             In(k) == Behind(g[j+k], count, dateCount, type, city, d1, d2)
             U == {k \in 0..n : In(k)}
  <1>1. Len(l) \in Nat /\ n \in Nat /\ j \in Nat /\ j + n = m /\ j + 0 = j
    OBVIOUS
  <1>2. 0 \in U
    BY <1>1
  <1> HIDE DEF n
  <1>3. ASSUME NEW k \in 0..n-1, k \in U PROVE k + 1 \in U
    <2>1. /\ j+k \in i..Len(l) /\ (j+k) + 1 <= Len(l) /\ (j+k) + 1 \in j+1..m
          /\ j + (k+1) = (j+k) + 1 /\ k + 1 \in 0..n
      BY <1>1
    <2>2. l[(j+k)+1] = Space
      BY <2>1 DEF OnlyBlanks
    <2>3. g[(j+k)+1] = ReadBlank(g[j+k])
      BY <2>1, <2>2, BlankRun
    <2>4. In(k)
      BY <1>3
    <2>5. Behind(ReadBlank(g[j+k]), count, dateCount, type, city, d1, d2)
      BY <2>4, BlankBehind
    <2>6. In(k+1)
      BY <2>1, <2>3, <2>5
    <2> HIDE DEF In
    <2> QED BY <2>1, <2>6
  <1> HIDE DEF U, In
  <1>4. 0..n \subseteq U
    BY <1>1, <1>2, <1>3, BoundedInduction
  <1>5. In(n)
    BY <1>1, <1>4 DEF U
  <1> QED BY <1>1, <1>5 DEF In

(* The tokens of a word are those of its line.                             *)
LEMMA WordOfLine ==
  ASSUME NEW l \in Seq(Token), NEW x \in 1..Len(l), NEW y \in 1..Len(l), x <= y,
         NEW w, w = SubSeq(l, x, y)
  PROVE  /\ w \in Seq(Token) /\ Len(w) = y-x+1
         /\ \A m \in 1..Len(w) : w[m] = l[x-1+m]
  <1>1. Len(l) \in Nat
    OBVIOUS
  <1>2. x \in Int /\ y \in Int /\ \A m \in x..y : l[m] \in Token
    BY <1>1
  <1>3. /\ w \in Seq(Token) /\ Len(w) = IF x <= y THEN y-x+1 ELSE 0
        /\ \A m \in 1..y-x+1 : w[m] = l[x+m-1]
    BY <1>2, SubSeqProperties
  <1>4. Len(w) = y-x+1
    BY <1>3
  <1>5. ASSUME NEW m \in 1..y-x+1 PROVE x+m-1 = x-1+m
    BY <1>2
  <1> QED BY <1>3, <1>4, <1>5

(* Where the words of a regular line are.                                  *)
Places(l, a, e, n) ==
  /\ n \in {4, 5} /\ n = Len(Words(l))
  /\ \A k \in 1..n : /\ a[k] \in 1..Len(l) /\ e[k] \in 1..Len(l) /\ a[k] <= e[k]
                     /\ Words(l)[k] = SubSeq(l, a[k], e[k])
  /\ \A k \in 1..n : k \notin {3, 4} => OneWord(l, a[k], e[k])
  /\ a[1] = 1 /\ 1 < e[1]
  /\ \A k \in 1..3 : a[k+1] = e[k] + 2 /\ l[e[k]+1] = Space
  /\ IsDate(Words(l)[3]) /\ IsDate(Words(l)[4])
  /\ n = 5 => /\ e[4] + 1 < a[5] /\ OnlyBlanks(l, e[4]+1, a[5]-1)
              /\ a[5] = e[4] + 2 \/ e[5] = Len(l)
  /\ OnlyBlanks(l, e[n]+1, Len(l))

(* Where the words of a regular line are.                                  *)
LEMMA RegularPlaces ==
  ASSUME NEW l \in Seq(Token), Regular(l)
  PROVE  \E a, e : Places(l, a, e, Len(Words(l)))
  <1> DEFINE n == Cardinality(Starts(l, Space))
             a == [k \in 1..n |-> Start(l, Space, k)]
             e == [k \in 1..n |-> Stop(l, Space, k)]
  <1>1. /\ Words(l) = Pieces(l, Space) /\ Len(Words(l)) \in {4, 5}
        /\ IsDate(Words(l)[3]) /\ IsDate(Words(l)[4]) /\ Len(Words(l)[1]) > 1
        /\ \A k \in DOMAIN Words(l) \ {3, 4} : "-" \notin ToSet(Words(l)[k])
    BY DEF Regular, IsRequest, Words, Space
  <1>2. /\ \A k \in 1..4 : Before(l, Space, k) = k - 1
        /\ Len(Words(l)) = 5 => Before(l, Space, 5) = 4 \/ l[Len(l)] # Space
    BY DEF Regular, BlanksBefore, Before, Space
  <1>3. Len(l) \in Nat
    OBVIOUS
  <1>4. n \in Nat /\ n = Len(Words(l)) /\ n \in {4, 5} /\ DOMAIN Words(l) = 1..n
    <2>1. n \in Nat
      BY StartsFinite
    <2>2. Words(l) = [k \in 1..n |-> SubSeq(l, Start(l, Space, k), Stop(l, Space, k))]
      BY <1>1 DEF Pieces, Stop
    <2> HIDE DEF n
    <2>3. DOMAIN Words(l) = 1..n
      BY <2>2
    <2>4. Words(l) \in Seq(Seq(Token))
      <3>1. \A k \in 1..n : SubSeq(l, Start(l, Space, k), Stop(l, Space, k)) \in Seq(Token)
        <4> SUFFICES ASSUME NEW k \in 1..n
                     PROVE  SubSeq(l, Start(l, Space, k), Stop(l, Space, k)) \in Seq(Token)
          OBVIOUS
        <4>1. Start(l, Space, k) \in 1..Len(l) /\ Stop(l, Space, k) \in 1..Len(l)
          BY PieceAt DEF n
        <4> QED BY <4>1
      <3> QED BY <2>1, <2>2, <3>1
    <2>5. Len(Words(l)) = n
      BY <2>1, <2>3, <2>4
    <2> QED BY <1>1, <2>1, <2>3, <2>5
  <1> HIDE DEF n
  <1>5. ASSUME NEW k \in 1..n
        PROVE  /\ a[k] = Start(l, Space, k) /\ e[k] = Stop(l, Space, k)
               /\ a[k] \in 1..Len(l) /\ e[k] \in 1..Len(l) /\ a[k] <= e[k]
               /\ \A m \in a[k]..e[k] : l[m] # Space
               /\ e[k] # Len(l) => l[e[k]+1] = Space
               /\ Words(l)[k] = SubSeq(l, a[k], e[k])
               /\ k + 1 <= n => /\ a[k+1] \in 1..Len(l) /\ e[k] + 1 < a[k+1]
                                /\ OnlyBlanks(l, e[k]+1, a[k+1]-1)
               /\ k = n => OnlyBlanks(l, e[k]+1, Len(l))
    <2>1. a[k] = Start(l, Space, k) /\ e[k] = Stop(l, Space, k)
      OBVIOUS
    <2>2. k + 1 <= n => a[k+1] = Start(l, Space, k+1)
      BY <1>4
    <2> HIDE DEF a, e
    <2> DEFINE x == Start(l, Space, k)
               y == Stop(l, Space, k)
               z == Start(l, Space, k+1)
    <2>3. k \in 1..Cardinality(Starts(l, Space))
      BY DEF n
    <2>4. /\ x \in 1..Len(l) /\ y \in 1..Len(l) /\ x <= y
          /\ \A m \in x..y : l[m] # Space
          /\ y # Len(l) => l[y+1] = Space
          /\ Pieces(l, Space)[k] = SubSeq(l, x, y)
      BY <2>3, PieceAt
    <2>5. k + 1 <= n => z \in 1..Len(l) /\ y + 1 < z
      BY <2>3, PieceAt DEF n
    <2>6. k + 1 <= n => OnlyBlanks(l, y+1, z-1)
      BY <2>3, PieceAt DEF n, OnlyBlanks
    <2>7. k = n => OnlyBlanks(l, y+1, Len(l))
      BY <2>3, PieceAt DEF n, OnlyBlanks
    <2> HIDE DEF x, y, z
    <2>8. k + 1 <= n => a[k+1] \in 1..Len(l) /\ e[k] + 1 < a[k+1]
      BY <2>1, <2>2, <2>5 DEF x, y, z
    <2>9. k + 1 <= n => OnlyBlanks(l, e[k]+1, a[k+1]-1)
      BY <2>1, <2>2, <2>6 DEF x, y, z
    <2>10. k = n => OnlyBlanks(l, e[k]+1, Len(l))
      BY <2>1, <2>7 DEF x, y, z
    <2> QED BY <1>1, <2>1, <2>4, <2>8, <2>9, <2>10 DEF x, y
  <1>6. a[1] = 1
    <2>1. 1 \in 1..n /\ 1 \in 1..4 /\ 1 - 1 = 0
      BY <1>4
    <2>2. Before(l, Space, 1) = 0
      BY <1>2, <2>1
    <2>3. Start(l, Space, 1) = 1
      BY <1>4, <2>2, FirstAtOnce DEF n
    <2> QED BY <1>5, <2>1, <2>3
  <1>7. ASSUME NEW k \in 1..n, k + 1 <= n, Before(l, Space, k+1) = k, k \in 1..4
        PROVE  a[k+1] = e[k] + 2
    <2>1. Before(l, Space, k) + 1 = k
      BY <1>2, <1>7
    <2>2. Start(l, Space, k+1) = Stop(l, Space, k) + 2
      BY <1>7, <2>1, NextAtOnce DEF n
    <2>3. a[k+1] = Start(l, Space, k+1)
      BY <1>4, <1>7
    <2> HIDE DEF a
    <2> QED BY <1>5, <2>2, <2>3
  <1> HIDE DEF a, e
  <1>8. \A k \in 1..3 : a[k+1] = e[k] + 2 /\ l[e[k]+1] = Space
    <2> SUFFICES ASSUME NEW k \in 1..3 PROVE a[k+1] = e[k] + 2 /\ l[e[k]+1] = Space
      OBVIOUS
    <2>1. k \in 1..n /\ k + 1 <= n /\ k \in 1..4 /\ k + 1 \in 1..4 /\ (k+1) - 1 = k
      BY <1>4
    <2>2. Before(l, Space, k+1) = k
      BY <1>2, <2>1
    <2>3. a[k+1] = e[k] + 2
      BY <1>7, <2>1, <2>2
    <2>4. e[k] # Len(l) /\ e[k] \in Int
      BY <1>3, <1>5, <2>1
    <2> QED BY <1>5, <2>1, <2>3, <2>4
  <1>9. 1 < e[1]
    <2>1. 1 \in 1..n
      BY <1>4
    <2>2. Words(l)[1] = SubSeq(l, 1, e[1]) /\ e[1] \in 1..Len(l)
      BY <1>5, <1>6, <2>1
    <2>3. Len(SubSeq(l, 1, e[1])) = e[1]
      BY <1>3, <2>2
    <2> QED BY <1>1, <2>2, <2>3
  <1>10. ASSUME NEW k \in 1..n, k \notin {3, 4} PROVE OneWord(l, a[k], e[k])
    <2> DEFINE w == Words(l)[k]
    <2>1. w = SubSeq(l, a[k], e[k]) /\ a[k] \in 1..Len(l) /\ e[k] \in 1..Len(l) /\ a[k] <= e[k]
      BY <1>5
    <2>2. "-" \notin ToSet(w)
      BY <1>1, <1>4, <1>10
    <2>3. /\ w \in Seq(Token) /\ Len(w) = e[k] - a[k] + 1
          /\ \A m \in 1..Len(w) : w[m] = l[a[k]-1+m]
      <3> DEFINE x == a[k]
                 y == e[k]
      <3> HIDE DEF a, e, w
      <3>1. w = SubSeq(l, x, y) /\ x \in 1..Len(l) /\ y \in 1..Len(l) /\ x <= y
        BY <2>1
      <3> HIDE DEF x, y
      <3>2. w \in Seq(Token) /\ Len(w) = y-x+1 /\ \A m \in 1..Len(w) : w[m] = l[x-1+m]
        BY <3>1, WordOfLine
      <3> QED BY <3>2 DEF x, y
    <2>4. ASSUME NEW m \in a[k]..e[k] PROVE l[m] # "-"
      <3>1. m-a[k]+1 \in 1..Len(w) /\ a[k]-1+(m-a[k]+1) = m
        BY <2>1, <2>3
      <3>2. w[m-a[k]+1] = l[m]
        BY <2>3, <3>1
      <3>3. w[m-a[k]+1] \in ToSet(w)
        BY <2>3, <3>1 DEF ToSet
      <3> QED BY <2>2, <3>2, <3>3
    <2>5. \A m \in a[k]..e[k] : l[m] # Space
      BY <1>5
    <2> QED BY <2>4, <2>5 DEF OneWord, Separated, Space
  <1>11. n = 5 => /\ e[4] + 1 < a[5] /\ OnlyBlanks(l, e[4]+1, a[5]-1)
                  /\ a[5] = e[4] + 2 \/ e[5] = Len(l)
    <2> SUFFICES ASSUME n = 5
                 PROVE  /\ e[4] + 1 < a[5] /\ OnlyBlanks(l, e[4]+1, a[5]-1)
                        /\ a[5] = e[4] + 2 \/ e[5] = Len(l)
      OBVIOUS
    <2>1. 4 \in 1..n /\ 5 \in 1..n /\ 4 + 1 = 5 /\ 4 + 1 <= n /\ 4 \in 1..4
      BY <1>4
    <2>2. e[4] + 1 < a[5] /\ OnlyBlanks(l, e[4]+1, a[5]-1)
      <3>1. e[4] + 1 < a[4+1] /\ OnlyBlanks(l, e[4]+1, a[4+1]-1)
        BY <1>5, <2>1
      <3> QED BY <2>1, <3>1
    <2>3. CASE Before(l, Space, 5) = 4
      <3>1. a[4+1] = e[4] + 2
        BY <1>7, <2>1, <2>3
      <3> QED BY <2>1, <2>2, <3>1
    <2>4. CASE l[Len(l)] # Space
      <3>1. OnlyBlanks(l, e[5]+1, Len(l)) /\ e[5] \in 1..Len(l)
        BY <1>5, <2>1
      <3>2. e[5] # Len(l) => Len(l) \in e[5]+1..Len(l)
        BY <1>3, <3>1
      <3>3. e[5] = Len(l)
        BY <2>4, <3>1, <3>2 DEF OnlyBlanks
      <3> QED BY <2>2, <3>3
    <2> QED BY <1>2, <1>4, <2>3, <2>4
  <1>12. OnlyBlanks(l, e[n]+1, Len(l))
    <2>1. n \in 1..n
      BY <1>4
    <2> QED BY <1>5, <2>1
  <1>13. \A k \in 1..n : /\ a[k] \in 1..Len(l) /\ e[k] \in 1..Len(l) /\ a[k] <= e[k]
                         /\ Words(l)[k] = SubSeq(l, a[k], e[k])
    BY <1>5
  <1>14. Places(l, a, e, n)
    BY <1>1, <1>4, <1>6, <1>8, <1>9, <1>10, <1>11, <1>12, <1>13 DEF Places
  <1>15. \E a1, e1 : Places(l, a1, e1, n)
    BY <1>14
  <1> QED BY <1>4, <1>15

(* A regular line, word after word.                                        *)
LEMMA FirstWords ==
  ASSUME NEW l \in Seq(Token), NEW i \in Nat, i <= 1, NEW g, LineRun(g, l, i, Fresh),
         NEW a, NEW e, NEW n, Places(l, a, e, n)
  PROVE  /\ g[a[3]-1] = ScannerAt(<<>>, 2, 0, Words(l)[2], <<>>, NoDate, NoDate)
         /\ a[3] \in i+1..Len(l)
  <1> DEFINE none == <<>>
             nd == NoDate
             zero == 0
             one == 1
             w == Words(l)[2]
  <1>1. /\ Len(l) \in Nat /\ 1 \in 1..n /\ 2 \in 1..n /\ 3 \in 1..n
        /\ 1 \in 1..3 /\ 2 \in 1..3 /\ 1 + 1 = 2 /\ 2 + 1 = 3
    BY DEF Places
  <1>2. /\ a[1] = 1 /\ 1 < e[1] /\ e[1] \in 1..Len(l)
        /\ a[2] = e[1] + 2 /\ a[2] \in 1..Len(l) /\ e[2] \in 1..Len(l) /\ a[2] <= e[2]
        /\ a[3] = e[2] + 2 /\ a[3] \in 1..Len(l)
        /\ l[e[1]+1] = Space /\ l[e[2]+1] = Space
        /\ Words(l)[2] = SubSeq(l, a[2], e[2])
    <2>1. a[1+1] = e[1] + 2 /\ a[2+1] = e[2] + 2 /\ l[e[1]+1] = Space /\ l[e[2]+1] = Space
      BY <1>1 DEF Places
    <2>2. /\ e[1] \in 1..Len(l) /\ a[2] \in 1..Len(l) /\ e[2] \in 1..Len(l)
          /\ a[2] <= e[2] /\ a[3] \in 1..Len(l) /\ Words(l)[2] = SubSeq(l, a[2], e[2])
      BY <1>1 DEF Places
    <2>3. a[1] = 1 /\ 1 < e[1]
      BY DEF Places
    <2> QED BY <1>1, <2>1, <2>2, <2>3
  <1>3. OneWord(l, a[1], e[1]) /\ OneWord(l, a[2], e[2])
    BY <1>1 DEF Places
  <1>4. /\ i \in i..Len(l) /\ e[1] \in i..Len(l) /\ e[1] + 1 <= Len(l)
        /\ e[1] + 1 \in i..Len(l) /\ e[2] \in e[1]+1..Len(l) /\ (e[1]+1)+1 = a[2]
        /\ e[2] \in i..Len(l) /\ e[2] + 1 <= Len(l) /\ a[3] - 1 = e[2] + 1
        /\ a[3] \in i+1..Len(l)
    <2> DEFINE x == e[1]
               y == e[2]
               p == a[2]
               q == a[3]
               m == Len(l)
    <2>1. /\ m \in Nat /\ 1 < x /\ x \in 1..m /\ p = x + 2 /\ p \in 1..m /\ y \in 1..m
          /\ p <= y /\ q = y + 2 /\ q \in 1..m
      BY <1>1, <1>2
    <2> HIDE DEF x, y, p, q, m
    <2>2. /\ i \in i..m /\ x \in i..m /\ x + 1 <= m /\ x + 1 \in i..m /\ y \in x+1..m
          /\ (x+1)+1 = p /\ y \in i..m /\ y + 1 <= m /\ q - 1 = y + 1 /\ q \in i+1..m
      BY <2>1
    <2> QED BY <2>2 DEF x, y, p, q, m
  <1>5. g[i] = ScannerAt(none, zero, zero, none, none, nd, nd)
    BY DEF LineRun, Fresh, ScannerAt
  <1>6. OneWord(l, i+1, e[1])
    <2>1. \A k \in i+1..e[1] : k \in a[1]..e[1]
      BY <1>2
    <2> QED BY <1>3, <2>1 DEF OneWord
  <1> DEFINE v == SubSeq(l, i+1, e[1])
  <1> HIDE DEF none, nd, zero
  <1>7. g[e[1]] = ScannerAt(v, zero, zero, none, none, nd, nd)
    <2> DEFINE m == e[1]
    <2>1. m \in i..Len(l) /\ OneWord(l, i+1, m)
      BY <1>4, <1>6
    <2> HIDE DEF m
    <2>2. g[i] = ScannerAt(<<>>, zero, zero, none, none, nd, nd)
      BY <1>5 DEF none
    <2>3. g[m] = ScannerAt(SubSeq(l, i+1, m), zero, zero, none, none, nd, nd)
      BY <1>4, <2>1, <2>2, WordRun
    <2> QED BY <2>3 DEF m
  <1> HIDE DEF v
  <1>8. g[e[1]+1] = ScannerAt(none, one, zero, none, none, nd, nd)
    <2>1. g[e[1]+1] = ReadBlank(g[e[1]])
      BY <1>2, <1>4, BlankRun
    <2>2. zero \in Nat /\ zero \notin {1, 2, 3, 4} /\ zero + 1 = one
      BY DEF zero
    <2>3. ReadBlank(g[e[1]]) = ScannerAt(<<>>, zero + 1, zero, none, none, nd, nd)
      BY <1>7, <2>2, BlankAt
    <2> QED BY <2>1, <2>2, <2>3 DEF none
  <1> HIDE DEF one
  <1>9. g[e[2]] = ScannerAt(w, one, zero, none, none, nd, nd)
    <2> DEFINE j == e[1] + 1
               m == e[2]
    <2>1. j \in i..Len(l) /\ m \in j..Len(l) /\ OneWord(l, j+1, m) /\ w = SubSeq(l, j+1, m)
      BY <1>2, <1>3, <1>4
    <2>2. g[j] = ScannerAt(<<>>, one, zero, none, none, nd, nd)
      BY <1>8 DEF none
    <2> HIDE DEF j, m, w
    <2>3. g[m] = ScannerAt(SubSeq(l, j+1, m), one, zero, none, none, nd, nd)
      BY <2>1, <2>2, WordRun
    <2> QED BY <2>1, <2>3 DEF m
  <1> HIDE DEF w
  <1>10. g[e[2]+1] = ScannerAt(<<>>, 2, zero, w, none, nd, nd)
    <2>1. g[e[2]+1] = ReadBlank(g[e[2]])
      BY <1>2, <1>4, BlankRun
    <2>2. one \in Nat /\ one = 1 /\ one + 1 = 2
      BY DEF one
    <2>3. ReadBlank(g[e[2]]) = ScannerAt(<<>>, one + 1, zero, w, none, nd, nd)
      BY <1>9, <2>2, BlankAt
    <2> QED BY <2>1, <2>2, <2>3
  <1> QED BY <1>4, <1>10 DEF none, nd, zero, w

(* At the end of its fourth word a regular line has given its type and     *)
(* both dates.                                                             *)
LEMMA DatesRun ==
  ASSUME NEW l \in Seq(Token), NEW i \in Nat, i <= 1, NEW g, LineRun(g, l, i, Fresh),
         NEW a, NEW e, NEW n, Places(l, a, e, n)
  PROVE  InSecondDate(g[e[4]], 3, Words(l)[2], <<>>, GetDate(Words(l)[3]), GetDate(Words(l)[4]))
  <1> DEFINE none == <<>>
             nd == NoDate
             two == 2
             three == 3
             type == Words(l)[2]
             w3 == Words(l)[3]
             w4 == Words(l)[4]
             D1 == GetDate(w3)
             D2 == GetDate(w4)
  <1>1. Len(l) \in Nat /\ 3 \in 1..n /\ 4 \in 1..n /\ 3 \in 1..3 /\ 3 + 1 = 4
    BY DEF Places
  <1>2. /\ a[3] \in 1..Len(l) /\ e[3] \in a[3]..Len(l) /\ l[e[3]+1] = Space
        /\ a[4] = e[3] + 2 /\ a[4] \in 1..Len(l) /\ e[4] \in a[4]..Len(l)
        /\ w3 = SubSeq(l, a[3], e[3]) /\ w4 = SubSeq(l, a[4], e[4])
        /\ IsDate(w3) /\ IsDate(w4)
    <2>1. a[3+1] = e[3] + 2 /\ l[e[3]+1] = Space
      BY <1>1 DEF Places
    <2>2. /\ a[3] \in 1..Len(l) /\ e[3] \in 1..Len(l) /\ a[3] <= e[3]
          /\ a[4] \in 1..Len(l) /\ e[4] \in 1..Len(l) /\ a[4] <= e[4]
          /\ w3 = SubSeq(l, a[3], e[3]) /\ w4 = SubSeq(l, a[4], e[4])
      BY <1>1 DEF Places
    <2>3. IsDate(w3) /\ IsDate(w4)
      BY DEF Places
    <2> QED BY <1>1, <2>1, <2>2, <2>3
  <1>3. g[a[3]-1] = ScannerAt(<<>>, 2, 0, type, none, nd, nd) /\ a[3] \in i+1..Len(l)
    BY FirstWords
  <1>4. /\ e[3] \in i..Len(l) /\ e[3] + 1 <= Len(l) /\ a[4] - 1 = e[3] + 1
        /\ a[4] \in i+1..Len(l)
    <2> DEFINE m == Len(l)
               a3 == a[3]
               e3 == e[3]
               a4 == a[4]
    <2>1. /\ m \in Nat /\ i \in Nat /\ i <= 1 /\ a3 \in 1..m /\ e3 \in a3..m /\ a4 = e3 + 2
          /\ a4 \in 1..m /\ a3 \in i+1..m
      BY <1>1, <1>2, <1>3
    <2> HIDE DEF m, a3, e3, a4
    <2>2. e3 \in i..m /\ e3 + 1 <= m /\ a4 - 1 = e3 + 1 /\ a4 \in i+1..m
      BY ONLY <2>1
    <2> QED BY <2>2 DEF m, a3, e3, a4
  <1>5. w3 \in Seq(Token)
    <2>1. a[3] \in 1..Len(l) /\ e[3] \in 1..Len(l) /\ a[3] <= e[3]
      BY <1>1, <1>2
    <2> QED BY <1>2, <2>1, WordOfLine
  <1>6. D1 \in WholeDates
    BY <1>2, <1>5, DateType
  <1> HIDE DEF w3, w4, type, none
  <1>7. PICK d, y : /\ g[e[3]] = ScannerAt(y, two, 2, type, none, d, nd)
                    /\ PartOfDate(d, y, D1)
    <2> DEFINE j == a[3]
               m == e[3]
    <2>1. j \in i+1..Len(l) /\ m \in j..Len(l) /\ w3 = SubSeq(l, j, m)
      BY <1>2, <1>3
    <2>2. g[j-1] = ScannerAt(<<>>, two, 0, type, none, NoDate, nd)
      BY <1>3
    <2> HIDE DEF j, m, D1, nd, two
    <2>3. InFirstDate(g[m], two, type, none, nd, GetDate(w3))
      BY <1>2, <2>1, <2>2, FirstDateRun
    <2> QED BY <2>3 DEF D1, m, InFirstDate
  <1> HIDE DEF D1, D2
  <1>8. g[a[4]-1] = ScannerAt(<<>>, three, 0, type, none, D1, nd)
    <2>1. g[e[3]+1] = ReadBlank(g[e[3]])
      BY <1>2, <1>4, BlankRun
    <2>2. d.year = -1 /\ YearRead(d, y) = D1
      BY <1>7 DEF PartOfDate, NoYear
    <2>3. two \in Nat /\ two \in {2, 3} /\ two + 1 = three
      OBVIOUS
    <2> HIDE DEF two, three, nd
    <2>4. ReadBlank(g[e[3]]) = ScannerAt(<<>>, two + 1, 0, type, none, YearRead(d, y), nd)
      BY <1>7, <2>2, <2>3, BlankAt
    <2> QED BY <1>4, <2>1, <2>2, <2>3, <2>4
  <1>9. InSecondDate(g[e[4]], three, type, none, D1, D2)
    <2> DEFINE j == a[4]
               m == e[4]
    <2>1. j \in i+1..Len(l) /\ m \in j..Len(l) /\ w4 = SubSeq(l, j, m)
      BY <1>2, <1>4
    <2>2. g[j-1] = ScannerAt(<<>>, three, 0, type, none, D1, NoDate)
      BY <1>8
    <2> HIDE DEF j, m, nd, three
    <2>3. InSecondDate(g[m], three, type, none, D1, GetDate(w4))
      BY <1>2, <1>6, <2>1, <2>2, SecondDateRun
    <2> QED BY <2>3 DEF D2, m
  <1> HIDE DEF nd, two, three
  <1> QED BY <1>9 DEF D1, D2, w3, w4, type, none, three

(* The request of a line whose last byte has been read.                    *)
Ended(s, type, city, d1, d2) ==
  /\ CreateReq(EndWord(s)) = [type |-> type, d1 |-> d1, d2 |-> d2, city |-> city]
  /\ s.type = type

(* The newline behind the second date ends it.                             *)
LEMMA EndInDate ==
  ASSUME NEW type, NEW d1, d1 \in WholeDates, NEW d2, NEW s,
         InSecondDate(s, 3, type, <<>>, d1, d2)
  PROVE  Ended(s, type, <<>>, d1, d2)
  <1> DEFINE none == <<>>
             three == 3
             two == 2
             zero == 0
  <1>1. PICK d, y : s = ScannerAt(y, three, two, type, none, d1, d) /\ PartOfDate(d, y, d2)
    BY DEF InSecondDate
  <1>2. s.line = y /\ s.count = three /\ s.type = type
    BY <1>1 DEF ScannerAt
  <1>3. y # <<>> /\ YearRead(d, y) = d2 /\ d1.year # -1
    BY <1>1 DEF PartOfDate, Missing, WholeDates
  <1>4. EndWord(s) = SetYear(s)
    BY <1>2, <1>3 DEF EndWord
  <1> HIDE DEF none, three, two
  <1>5. SetYear(s) = ScannerAt(<<>>, three, 0, type, none, d1, YearRead(d, y))
    BY <1>1, <1>3, YearAt
  <1>6. EndWord(s) = ScannerAt(none, three, zero, type, none, d1, d2)
    BY <1>3, <1>4, <1>5 DEF none
  <1> HIDE DEF zero
  <1>7. CreateReq(EndWord(s)) = [type |-> type, d1 |-> d1, d2 |-> d2, city |-> none]
    BY <1>6 DEF CreateReq, ScannerAt
  <1> QED BY <1>2, <1>7 DEF Ended, none

(* The newline behind blanks changes nothing.                              *)
LEMMA EndBehind ==
  ASSUME NEW count, NEW dateCount, NEW type, NEW city, NEW d1, NEW d2, NEW s,
         Behind(s, count, dateCount, type, city, d1, d2)
  PROVE  Ended(s, type, city, d1, d2)
  <1> DEFINE none == <<>>
  <1>1. PICK n \in Nat : s = ScannerAt(none, n, dateCount, type, city, d1, d2)
    BY DEF Behind
  <1>2. s.line = none /\ s.type = type
    BY <1>1 DEF ScannerAt
  <1>3. EndWord(s) = s
    BY <1>2 DEF EndWord
  <1> HIDE DEF none
  <1>4. CreateReq(s) = [type |-> type, d1 |-> d1, d2 |-> d2, city |-> city]
    BY <1>1 DEF CreateReq, ScannerAt
  <1> QED BY <1>2, <1>3, <1>4 DEF Ended

(* The newline behind the city ends it.                                    *)
LEMMA EndInCity ==
  ASSUME NEW w, ~Missing(w), NEW n \in Nat, n >= 4, NEW dateCount, NEW type, NEW city,
         NEW d1, NEW d2, NEW s, s = ScannerAt(w, n, dateCount, type, city, d1, d2)
  PROVE  Ended(s, type, w, d1, d2)
  <1>1. s.line = w /\ s.type = type /\ s.count = n
    BY DEF ScannerAt
  <1>2. w # <<>> /\ n \notin {2, 3}
    BY DEF Missing
  <1>3. EndWord(s) = [s EXCEPT !.city = w]
    BY <1>1, <1>2 DEF EndWord
  <1>4. [s EXCEPT !.city = w] = ScannerAt(w, n, dateCount, type, w, d1, d2)
    BY DEF ScannerAt
  <1> DEFINE u == EndWord(s)
  <1>5. u = ScannerAt(w, n, dateCount, type, w, d1, d2)
    BY <1>3, <1>4
  <1> HIDE DEF u
  <1>6. CreateReq(u) = [type |-> type, d1 |-> d1, d2 |-> d2, city |-> w]
    BY <1>5 DEF CreateReq, ScannerAt
  <1> QED BY <1>1, <1>6 DEF Ended, u

(* The blank behind the second date.                                       *)
LEMMA YearEnded ==
  ASSUME NEW type, NEW d1, d1 \in WholeDates, NEW d2, NEW s,
         InSecondDate(s, 3, type, <<>>, d1, d2)
  PROVE  ReadBlank(s) = ScannerAt(<<>>, 4, 0, type, <<>>, d1, d2)
  <1> DEFINE none == <<>>
             three == 3
             two == 2
  <1>1. PICK d, y : s = ScannerAt(y, three, two, type, none, d1, d) /\ PartOfDate(d, y, d2)
    BY DEF InSecondDate
  <1>2. YearRead(d, y) = d2 /\ d1.year # -1
    BY <1>1 DEF PartOfDate, WholeDates
  <1>3. three \in Nat /\ three \in {2, 3} /\ three + 1 = 4
    OBVIOUS
  <1> HIDE DEF none, three, two
  <1>4. ReadBlank(s) = ScannerAt(<<>>, three + 1, 0, type, none, d1, YearRead(d, y))
    BY <1>1, <1>2, <1>3, BlankAt
  <1> QED BY <1>2, <1>3, <1>4 DEF none

(* The line from the end of the second date on.                            *)
LEMMA LastWords ==
  ASSUME NEW l \in Seq(Token), NEW i \in Nat, NEW g, NEW scan, LineRun(g, l, i, scan),
         NEW a, NEW e, NEW n, Places(l, a, e, n), NEW type, NEW d1, d1 \in WholeDates, NEW d2,
         i <= 1, InSecondDate(g[e[4]], 3, type, <<>>, d1, d2)
  PROVE  Ended(g[Len(l)], type, IF n = 5 THEN Words(l)[5] ELSE <<>>, d1, d2)
  <1> DEFINE m == Len(l)
             x == e[4]
             none == <<>>
             zero == 0
             four == 4
  <1>1. /\ m \in Nat /\ n \in {4, 5} /\ x \in 1..m /\ i <= x /\ x \in i..m
        /\ OnlyBlanks(l, e[n]+1, m)
    <2>1. n \in {4, 5} /\ 4 \in 1..n
      BY DEF Places
    <2>2. x \in 1..m
      BY <2>1 DEF Places
    <2>3. OnlyBlanks(l, e[n]+1, m)
      BY DEF Places
    <2>4. m \in Nat
      OBVIOUS
    <2> HIDE DEF x, m
    <2> QED BY <2>1, <2>2, <2>3, <2>4
  <1>2. ASSUME x + 1 <= m, l[x+1] = Space
        PROVE  g[x+1] = ScannerAt(none, four, zero, type, none, d1, d2)
    <2>1. g[x+1] = ReadBlank(g[x])
      BY <1>1, <1>2, BlankRun
    <2>2. ReadBlank(g[x]) = ScannerAt(<<>>, 4, 0, type, <<>>, d1, d2)
      BY YearEnded
    <2> QED BY <2>1, <2>2
  <1>3. four \in Nat /\ four >= 4 /\ four + 1 = 5 /\ Missing(none)
    BY DEF Missing
  <1> HIDE DEF m, zero
  <1>4. CASE n = 4
    <2>1. CASE x = m
      BY <1>4, <2>1, EndInDate DEF m
    <2>2. CASE x # m
      <3>1. x + 1 <= m /\ x + 1 \in x+1..m /\ x + 1 \in i..m /\ m \in x+1..m
        BY <1>1, <2>2
      <3>2. l[x+1] = Space
        BY <1>1, <1>4, <3>1 DEF OnlyBlanks
      <3> DEFINE j == x + 1
      <3>3. g[j] = ScannerAt(none, four, zero, type, none, d1, d2)
        BY <1>2, <3>1, <3>2
      <3>4. OnlyBlanks(l, j+1, m)
        <4>1. \A k \in j+1..m : k \in x+1..m
          BY <1>1
        <4> QED BY <1>1, <1>4, <4>1 DEF OnlyBlanks
      <3>5. j \in i..Len(l) /\ m \in j..Len(l)
        BY <3>1 DEF m
      <3> HIDE DEF j, four
      <3>6. Behind(g[j], four, zero, type, none, d1, d2)
        BY <1>3, <3>3 DEF Behind, none
      <3> HIDE DEF none
      <3>7. Behind(g[m], four, zero, type, none, d1, d2)
        BY <1>3, <3>4, <3>5, <3>6, BlanksRun
      <3>8. Ended(g[m], type, none, d1, d2)
        BY <3>7, EndBehind
      <3> QED BY <1>4, <3>8 DEF none, m
    <2> QED BY <2>1, <2>2
  <1>5. CASE n = 5
    <2> DEFINE w == Words(l)[5]
               b == a[5]
               y == e[5]
               p == b - 1
    <2>1. /\ x + 1 < b /\ OnlyBlanks(l, x+1, p)
          /\ (b = x + 2 \/ y = m)
          /\ b \in 1..m /\ y \in 1..m /\ b <= y /\ w = SubSeq(l, b, y) /\ OneWord(l, b, y)
          /\ OnlyBlanks(l, y+1, m)
      <3>1. 5 \in 1..n /\ 5 \notin {3, 4}
        BY <1>5
      <3>2. /\ b \in 1..m /\ y \in 1..m /\ b <= y /\ w = SubSeq(l, b, y)
        BY <3>1 DEF Places, m
      <3>3. OneWord(l, b, y)
        BY <3>1 DEF Places
      <3>4. x + 1 < b /\ OnlyBlanks(l, x+1, p)
        BY <1>5 DEF Places
      <3>5. b = x + 2 \/ y = m
        BY <1>5 DEF Places, m
      <3>6. OnlyBlanks(l, y+1, m)
        BY <1>1, <1>5
      <3> QED BY <3>2, <3>3, <3>4, <3>5, <3>6
    <2> HIDE DEF w, b, y, p
    <2>2. /\ p \in x+1..m /\ x + 1 <= m /\ x + 1 \in i..m /\ p \in i..m /\ p + 1 = b
          /\ y \in p..m /\ x + 1 \in x+1..p /\ y \in i..m
      <3>1. m \in Nat /\ b \in Int /\ y \in Int /\ p = b - 1
        BY <1>1, <2>1 DEF p
      <3>2. x + 1 < b /\ b <= y /\ y <= m
        BY <2>1, <3>1
      <3> QED BY <1>1, <3>1, <3>2
    <2>3. g[x+1] = ScannerAt(none, four, zero, type, none, d1, d2)
      BY <1>2, <2>1, <2>2 DEF OnlyBlanks
    <2>4. ~Missing(w)
      <3>1. Len(w) # 0
        BY <1>1, <2>1 DEF m
      <3> QED BY <3>1 DEF Missing
    <2>5. ASSUME NEW k \in Nat, g[p] = ScannerAt(none, k, zero, type, none, d1, d2)
          PROVE  g[y] = ScannerAt(w, k, zero, type, none, d1, d2)
      <3>1. OneWord(l, p+1, y) /\ w = SubSeq(l, p+1, y)
        BY <2>1, <2>2
      <3>2. p \in i..Len(l) /\ y \in p..Len(l)
        BY <2>2 DEF m
      <3>3. g[p] = ScannerAt(<<>>, k, zero, type, none, d1, d2)
        BY <2>5
      <3> HIDE DEF none
      <3>4. g[y] = ScannerAt(SubSeq(l, p+1, y), k, zero, type, none, d1, d2)
        BY <3>1, <3>2, <3>3, WordRun
      <3> QED BY <3>1, <3>4
    <2>6. CASE y = m
      <3> DEFINE j == x + 1
      <3>1. OnlyBlanks(l, j+1, p)
        <4>1. \A k \in j+1..p : k \in x+1..p
          BY <1>1
        <4> QED BY <2>1, <4>1 DEF OnlyBlanks
      <3>2. j \in i..Len(l) /\ p \in j..Len(l)
        BY <2>2 DEF m
      <3>3. g[j] = ScannerAt(none, four, zero, type, none, d1, d2)
        BY <2>3
      <3> HIDE DEF j, four
      <3>4. Behind(g[j], four, zero, type, none, d1, d2)
        BY <1>3, <3>3 DEF Behind, none
      <3> HIDE DEF none
      <3>5. Behind(g[p], four, zero, type, none, d1, d2)
        BY <1>3, <3>1, <3>2, <3>4, BlanksRun
      <3>6. PICK k \in Nat : k >= four /\ g[p] = ScannerAt(none, k, zero, type, none, d1, d2)
        BY <3>5 DEF Behind, none
      <3>7. g[y] = ScannerAt(w, k, zero, type, none, d1, d2)
        BY <2>5, <3>6
      <3>8. k >= 4
        BY <3>6 DEF four
      <3>9. Ended(g[y], type, w, d1, d2)
        BY <2>4, <3>7, <3>8, EndInCity
      <3> QED BY <1>5, <2>6, <3>9 DEF m, w
    <2>7. CASE y # m /\ b = x + 2
      <3> DEFINE j == y + 1
                 five == 5
      <3>1. p = x + 1
        BY <1>1, <2>7 DEF p
      <3>2. g[y] = ScannerAt(w, four, zero, type, none, d1, d2)
        BY <1>3, <2>3, <2>5, <3>1
      <3>3. /\ j <= m /\ j \in y+1..m /\ j \in i..m /\ m \in j..m
            /\ \A k \in j+1..m : k \in y+1..m
        BY <1>1, <2>2, <2>7
      <3>4. l[j] = Space /\ OnlyBlanks(l, j+1, m)
        BY <2>1, <3>3 DEF OnlyBlanks
      <3>5. g[j] = ReadBlank(g[y])
        BY <2>2, <3>3, <3>4, BlankRun DEF m
      <3> HIDE DEF j, none
      <3>6. ReadBlank(g[y]) = ScannerAt(<<>>, four + 1, zero, type, w, d1, d2)
        BY <1>3, <3>2, BlankAt
      <3>7. g[j] = ScannerAt(<<>>, five, zero, type, w, d1, d2)
        BY <3>5, <3>6
      <3>8. five \in Nat /\ five >= 4 /\ five # 4
        OBVIOUS
      <3> HIDE DEF five
      <3>9. Behind(g[j], five, zero, type, w, d1, d2)
        BY <3>7, <3>8 DEF Behind
      <3>10. j \in i..Len(l) /\ m \in j..Len(l)
        BY <3>3 DEF m
      <3>11. Behind(g[m], five, zero, type, w, d1, d2)
        BY <3>4, <3>8, <3>9, <3>10, BlanksRun
      <3>12. Ended(g[m], type, w, d1, d2)
        BY <3>11, EndBehind
      <3> QED BY <1>5, <3>12 DEF m, w
    <2> QED BY <2>1, <2>6, <2>7
  <1> QED BY <1>1, <1>4, <1>5

(* A regular line gives the scanner, once its newline has ended the last   *)
(* word, the request it names.                                             *)
LEMMA RegularScanned ==
  ASSUME NEW l \in Seq(Token), Regular(l), NEW i \in Nat, i <= 1, NEW g,
         LineRun(g, l, i, Fresh)
  PROVE  CreateReq(EndWord(g[Len(l)])) = RequestOf(l) /\ g[Len(l)].type # <<>>
  <1> DEFINE n == Len(Words(l))
             w == Words(l)
             city == IF n = 5 THEN w[5] ELSE <<>>
  <1>1. PICK a, e : Places(l, a, e, n)
    BY RegularPlaces
  <1>2. InSecondDate(g[e[4]], 3, w[2], <<>>, GetDate(w[3]), GetDate(w[4]))
    BY <1>1, DatesRun
  <1>3. GetDate(w[3]) \in WholeDates
    <2>1. 3 \in 1..n
      BY <1>1 DEF Places
    <2>2. /\ w[3] = SubSeq(l, a[3], e[3]) /\ IsDate(w[3])
          /\ a[3] \in 1..Len(l) /\ e[3] \in 1..Len(l)
      BY <1>1, <2>1 DEF Places
    <2>3. w[3] \in Seq(Token)
      BY <2>2
    <2> QED BY <2>2, <2>3, DateType
  <1>4. Ended(g[Len(l)], w[2], city, GetDate(w[3]), GetDate(w[4]))
    BY <1>1, <1>2, <1>3, LastWords
  <1>5. w[2] # <<>>
    <2>1. 2 \in 1..n
      BY <1>1 DEF Places
    <2>2. /\ w[2] = SubSeq(l, a[2], e[2]) /\ a[2] <= e[2]
          /\ a[2] \in 1..Len(l) /\ e[2] \in 1..Len(l) /\ Len(l) \in Nat
      BY <1>1, <2>1 DEF Places
    <2>3. Len(w[2]) # 0
      BY <2>2
    <2> QED BY <2>3
  <1>6. RequestOf(l) = [type |-> w[2], d1 |-> GetDate(w[3]), d2 |-> GetDate(w[4]),
                        city |-> city]
    BY DEF RequestOf
  <1> HIDE DEF w, city, n
  <1> QED BY <1>4, <1>5, <1>6 DEF Ended

(* A line in the request file.                                             *)
BeginsWith(text, l, i) ==
  /\ Len(l) - i <= Len(text) /\ \A k \in 1..Len(l)-i : text[k] = l[k+i] /\ text[k] # "\n"

(* The bytes of a line change nothing of the client but the scanner.       *)
LEMMA RunOfLine ==
  ASSUME NEW c, c \in Clients, ~c.overflow, NEW l \in Seq(Token), NEW i \in 0..Len(l),
         NEW text \in Seq(ClientBytes), BeginsWith(text, l, i), NEW f, ClientRun(f, c, text)
  PROVE  \E g : /\ LineRun(g, l, i, c.scan)
                /\ f[Len(l)-i] = ClientAt(c.requests, c.requestSize, c.overflow, g[Len(l)])
  <1> DEFINE n == Len(l) - i
             At(k) == ClientAt(c.requests, c.requestSize, c.overflow, f[k].scan)
             U == {k \in 0..n : f[k] = At(k)}
             g == [k \in i..Len(l) |-> f[k-i].scan]
  <1>1. /\ Len(l) \in Nat /\ i \in Nat /\ n \in Nat /\ Len(text) \in Nat /\ n <= Len(text)
        /\ n + i = Len(l) /\ Len(l) - i = n
    BY DEF BeginsWith
  <1>2. ASSUME NEW k \in 0..n PROVE f[k] \in Clients
    <2>1. k \in 0..Len(text)
      BY <1>1
    <2> QED BY <2>1 DEF ClientRun
  <1>3. f[0] = c
    BY DEF ClientRun
  <1>4. 0 \in U
    <2>1. c = ClientAt(c.requests, c.requestSize, c.overflow, c.scan)
      BY ClientFields
    <2> QED BY <1>1, <1>3, <2>1
  <1> HIDE DEF n
  <1>5. ASSUME NEW k \in 0..n-1, f[k] = At(k)
        PROVE  /\ f[k+1].scan = ScanLine(f[k].scan, l[k+1+i])
               /\ f[k+1] = At(k+1)
    <2> DEFINE r == c.requests
               m == c.requestSize
               o == c.overflow
               s == f[k].scan
               b == text[k+1]
               t == ScanLine(s, b)
    <2>1. k + 1 \in 1..Len(text) /\ (k+1) - 1 = k /\ k + 1 \in 1..n /\ k + 1 \in 1..Len(l)-i
      BY <1>1
    <2>2. f[k+1] = ScanRequestFile(f[k], b)
      BY <2>1 DEF ClientRun
    <2>3. b = l[k+1+i] /\ b # "\n"
      BY <2>1 DEF BeginsWith
    <2>4. f[k] = ClientAt(r, m, o, s)
      BY <1>5
    <2> HIDE DEF r, m, o, b, At
    <2>5. ~f[k].overflow
      <3>1. f[k].overflow = o
        BY ONLY <2>4 DEF ClientAt
      <3> QED BY <3>1 DEF o
    <2>6. f[k+1] = [f[k] EXCEPT !.scan = t]
      BY <2>2, <2>3, <2>5 DEF ScanRequestFile
    <2> HIDE DEF t
    <2> DEFINE u == f[k]
               v == f[k+1]
    <2>7. u = ClientAt(r, m, o, s) /\ v = [u EXCEPT !.scan = t]
      BY <2>4, <2>6
    <2> HIDE DEF u, v, s
    <2>8. v = ClientAt(r, m, o, t)
      BY ONLY <2>7 DEF ClientAt
    <2>9. v.scan = t
      BY ONLY <2>8 DEF ClientAt
    <2>10. v = ClientAt(r, m, o, v.scan)
      BY ONLY <2>8, <2>9
    <2> QED BY <2>3, <2>9, <2>10 DEF At, r, m, o, s, t, v
  <1>6. ASSUME NEW k \in 0..n-1, k \in U PROVE k + 1 \in U
    <2>1. f[k] = At(k)
      BY <1>6
    <2> HIDE DEF At
    <2>2. f[k+1] = At(k+1) /\ k + 1 \in 0..n
      BY <1>1, <1>5, <2>1
    <2> QED BY <2>2
  <1> HIDE DEF U, At
  <1>7. 0..n \subseteq U
    BY <1>1, <1>4, <1>6, BoundedInduction
  <1>8. \A k \in 0..n : f[k] = At(k)
    BY <1>7 DEF U
  <1>9. LineRun(g, l, i, c.scan)
    <2>1. ASSUME NEW k \in i..Len(l) PROVE f[k-i].scan \in Scanner
      <3>1. k - i \in 0..n
        BY <1>1
      <3>2. f[k-i] \in Clients
        BY <1>2, <3>1
      <3> QED BY <3>2, ClientFields
    <2>2. g \in [i..Len(l) -> Scanner]
      BY <2>1
    <2>3. g[i] = c.scan
      <3>1. i \in i..Len(l) /\ i - i = 0
        BY <1>1
      <3> QED BY <1>3, <3>1
    <2>4. ASSUME NEW k \in i+1..Len(l) PROVE g[k] = ScanLine(g[k-1], l[k])
      <3>1. /\ k \in i..Len(l) /\ k-1 \in i..Len(l) /\ (k-1)-i \in 0..n-1
            /\ ((k-1)-i) + 1 = k-i /\ ((k-1)-i)+1+i = k /\ (k-1)-i \in 0..n
        BY <1>1
      <3>2. f[((k-1)-i)+1].scan = ScanLine(f[(k-1)-i].scan, l[((k-1)-i)+1+i])
        BY <1>5, <1>8, <3>1
      <3>3. f[k-i].scan = ScanLine(f[(k-1)-i].scan, l[k])
        BY <3>1, <3>2
      <3> QED BY <3>1, <3>3
    <2> HIDE DEF g
    <2> QED BY <2>2, <2>3, <2>4 DEF LineRun
  <1>10. f[n] = ClientAt(c.requests, c.requestSize, c.overflow, g[Len(l)])
    <2>1. n \in 0..n /\ Len(l) \in i..Len(l)
      BY <1>1
    <2>2. g[Len(l)] = f[n].scan
      BY <1>1, <2>1
    <2> HIDE DEF g
    <2> QED BY <1>8, <2>1, <2>2 DEF At
  <1> HIDE DEF g
  <1> QED BY <1>9, <1>10 DEF n

(* A whole line, and the last one.                                         *)
LEMMA WholeLineRead ==
  ASSUME NEW c, c \in Clients, ~c.overflow, NEW l \in RequestLines, NEW i \in 0..Len(l),
         NEW text \in Seq(ClientBytes), BeginsWith(text, l, i),
         Len(text) = Len(l) - i + 1, text[Len(text)] = "\n"
  PROVE  \E g : /\ LineRun(g, l, i, c.scan)
                /\ ClientAt(c.requests, c.requestSize, c.overflow, g[Len(l)]) \in Clients
                /\ FoldLeft(ScanRequestFile, c, text) =
                     ReadNewline(ClientAt(c.requests, c.requestSize, c.overflow, g[Len(l)]))
  <1>1. PICK f : ClientRun(f, c, text)
    BY TextScanned
  <1>2. l \in Seq(Token)
    BY ScannerAssumption
  <1>3. PICK g : /\ LineRun(g, l, i, c.scan)
                 /\ f[Len(l)-i] = ClientAt(c.requests, c.requestSize, c.overflow, g[Len(l)])
    BY <1>1, <1>2, RunOfLine
  <1> DEFINE u == f[Len(l)-i]
             n == Len(text)
  <1>4. n \in 1..Len(text) /\ n - 1 = Len(l) - i
    BY <1>2
  <1>5. FoldLeft(ScanRequestFile, c, text) = ScanRequestFile(u, "\n")
    BY <1>1, <1>4 DEF ClientRun
  <1>8. u \in Clients
    <2>1. Len(l) - i \in 0..Len(text)
      BY <1>2
    <2> QED BY <1>1, <2>1 DEF ClientRun
  <1>6. ~u.overflow
    <2> DEFINE o == c.overflow
    <2> HIDE DEF u, o
    <2>1. u = ClientAt(c.requests, c.requestSize, o, g[Len(l)])
      BY <1>3 DEF u, o
    <2>2. u.overflow = o
      BY ONLY <2>1 DEF ClientAt
    <2> QED BY <2>2 DEF o
  <1> HIDE DEF u, n
  <1>7. ScanRequestFile(u, "\n") = ReadNewline(u)
    BY <1>6 DEF ScanRequestFile
  <1> QED BY <1>3, <1>5, <1>7, <1>8 DEF u

(* A line without a newline changes nothing of the client but the scanner. *)
LEMMA LastLineRead ==
  ASSUME NEW c, c \in Clients, ~c.overflow, NEW l \in RequestLines, NEW i \in 0..Len(l),
         NEW text \in Seq(ClientBytes), BeginsWith(text, l, i), Len(text) = Len(l) - i
  PROVE  \E scan : FoldLeft(ScanRequestFile, c, text) =
                     ClientAt(c.requests, c.requestSize, c.overflow, scan)
  <1>1. PICK f : ClientRun(f, c, text)
    BY TextScanned
  <1>2. l \in Seq(Token)
    BY ScannerAssumption
  <1>3. PICK g : f[Len(l)-i] = ClientAt(c.requests, c.requestSize, c.overflow, g[Len(l)])
    BY <1>1, <1>2, RunOfLine
  <1> QED BY <1>1, <1>3 DEF ClientRun

(* The byte the test for an empty file loses.                              *)
Skipped == IF requestFile = <<>> THEN 1 ELSE 0

(* What is read of a line, of the first of the file all but its first      *)
(* byte.                                                                   *)
LEMMA RestRead ==
  ASSUME NEW l \in RequestLines, l # <<>>
  PROVE  /\ Skipped \in 0..Len(l) /\ Skipped <= 1
         /\ Rest(l) \in Seq(ClientBytes) /\ BeginsWith(Rest(l), l, Skipped)
         /\ Len(Rest(l)) = Len(l) - Skipped
         /\ Rest(Append(l, "\n")) \in Seq(ClientBytes)
         /\ BeginsWith(Rest(Append(l, "\n")), l, Skipped)
         /\ Len(Rest(Append(l, "\n"))) = Len(l) - Skipped + 1
         /\ Rest(Append(l, "\n"))[Len(Rest(Append(l, "\n")))] = "\n"
  <1> DEFINE nl == "\n"
             t == Append(l, nl)
  <1>1. l \in Seq(ClientBytes) /\ t \in Seq(ClientBytes) /\ l \in Seq(Token \ {nl})
    BY LineBytes, ScannerAssumption
  <1>2. /\ Len(l) \in Nat /\ Len(l) # 0
        /\ \A k \in 1..Len(l) : l[k] # nl
    BY <1>1
  <1> HIDE DEF nl
  <1>3. /\ Len(t) = Len(l) + 1 /\ t[Len(l)+1] = nl
        /\ \A k \in 1..Len(l) : t[k] = l[k]
    BY <1>1
  <1>4. l # <<>> /\ t # <<>>
    BY <1>2, <1>3
  <1>5. /\ Tail(l) \in Seq(ClientBytes) /\ Len(Tail(l)) = Len(l) - 1
        /\ \A k \in 1..Len(l)-1 : Tail(l)[k] = l[k+1]
    BY <1>1, <1>2, <1>4
  <1> HIDE DEF t
  <1>6. /\ Tail(t) \in Seq(ClientBytes) /\ Len(Tail(t)) = Len(l)
        /\ \A k \in 1..Len(l) : Tail(t)[k] = t[k+1]
    BY <1>1, <1>2, <1>3, <1>4
  <1>7. CASE requestFile = <<>>
    <2>1. Skipped = 1 /\ Rest(l) = Tail(l) /\ Rest(t) = Tail(t)
      BY <1>7 DEF Skipped, Rest
    <2>2. Skipped \in 0..Len(l) /\ Skipped <= 1
      BY <1>2, <2>1
    <2>3. BeginsWith(Tail(l), l, 1)
      BY <1>2, <1>5 DEF BeginsWith, nl
    <2>4. BeginsWith(Tail(t), l, 1)
      <3>1. Len(l) - 1 <= Len(Tail(t))
        BY <1>2, <1>6
      <3>2. ASSUME NEW k \in 1..Len(l)-1 PROVE Tail(t)[k] = l[k+1] /\ l[k+1] # nl
        <4>1. k \in 1..Len(l) /\ k + 1 \in 1..Len(l)
          BY <1>2
        <4> QED BY <1>2, <1>3, <1>6, <4>1
      <3> QED BY <3>1, <3>2 DEF BeginsWith, nl
    <2>5. Len(l) - 1 + 1 = Len(l) /\ Tail(t)[Len(l)] = nl
      <3>1. Len(l) \in 1..Len(l)
        BY <1>2
      <3> QED BY <1>2, <1>3, <1>6, <3>1
    <2> QED BY <1>5, <1>6, <2>1, <2>2, <2>3, <2>4, <2>5 DEF t, nl
  <1>8. CASE requestFile # <<>>
    <2>1. Skipped = 0 /\ Rest(l) = l /\ Rest(t) = t
      BY <1>8 DEF Skipped, Rest
    <2>2. Skipped \in 0..Len(l) /\ Skipped <= 1
      BY <1>2, <2>1
    <2>3. BeginsWith(l, l, 0)
      BY <1>2 DEF BeginsWith, nl
    <2>4. BeginsWith(t, l, 0)
      <3>1. Len(l) - 0 <= Len(t)
        BY <1>2, <1>3
      <3>2. ASSUME NEW k \in 1..Len(l)-0 PROVE t[k] = l[k+0] /\ t[k] # nl
        <4>1. k \in 1..Len(l) /\ k + 0 = k
          BY <1>2
        <4> QED BY <1>2, <1>3, <4>1
      <3> QED BY <3>1, <3>2 DEF BeginsWith, nl
    <2>5. Len(l) - 0 = Len(l) /\ Len(l) - 0 + 1 = Len(t) /\ t[Len(t)] = nl
      BY <1>2, <1>3
    <2> QED BY <1>1, <2>1, <2>2, <2>3, <2>4, <2>5 DEF t, nl
  <1> QED BY <1>7, <1>8

(* A line is read: its bytes, then its newline.                            *)
LEMMA NewlineRead ==
  ASSUME IInv, NEW l \in RequestLines, l # <<>>, ReadRequestLine(l)
  PROVE  \E g : LET u == ClientAt(client.requests, client.requestSize, client.overflow, g[Len(l)])
                IN /\ LineRun(g, l, Skipped, client.scan) /\ u \in Clients
                   /\ client' = ReadNewline(u)
  <1> DEFINE text == Rest(Append(l, "\n"))
  <1>1. client \in Clients /\ ~client.overflow
        /\ client' = FoldLeft(ScanRequestFile, client, text)
    BY DEF IInv, ReadRequestLine
  <1>2. /\ text \in Seq(ClientBytes) /\ BeginsWith(text, l, Skipped) /\ Skipped \in 0..Len(l)
        /\ Len(text) = Len(l) - Skipped + 1 /\ text[Len(text)] = "\n"
    BY RestRead
  <1> HIDE DEF text
  <1>3. \E g : /\ LineRun(g, l, Skipped, client.scan)
               /\ ClientAt(client.requests, client.requestSize, client.overflow, g[Len(l)]) \in Clients
               /\ FoldLeft(ScanRequestFile, client, text) =
                    ReadNewline(ClientAt(client.requests, client.requestSize, client.overflow, g[Len(l)]))
    BY <1>1, <1>2, WholeLineRead
  <1> QED BY <1>1, <1>3

(* A line that makes a request leaves nothing behind.                      *)
LEMMA NewlineLeaves ==
  ASSUME NEW u, u \in Clients, ~u.overflow
  PROVE  ReadNewline(u).requestSize > u.requestSize => ReadNewline(u).scan = Fresh
  <1>1. u.scan.type = <<>> => ReadNewline(u) = u
    BY NewlineScanned
  <1>2. u.scan.type # <<>> =>
          ReadNewline(u) = [AddRequest(u, CreateReq(EndWord(u.scan))) EXCEPT !.scan = Fresh]
    BY NewlineScanned
  <1>3. u.requestSize \in Nat
    BY ClientFields
  <1>4. CASE u.scan.type = <<>>
    BY <1>1, <1>3, <1>4
  <1>5. CASE u.scan.type # <<>>
    <2> DEFINE q == CreateReq(EndWord(u.scan))
               v == AddRequest(u, q)
    <2>1. q \in Made
      BY <1>5, RequestMade, ClientFields
    <2>2. ReadNewline(u) \in Clients /\ ReadNewline(u) = [v EXCEPT !.scan = Fresh]
      BY <1>2, <1>5, NewlineScanned
    <2> HIDE DEF v
    <2>3. ReadNewline(u).scan = Fresh
      BY <2>2 DEF Clients
    <2> QED BY <2>3
  <1> QED BY <1>4, <1>5

(* An empty line.                                                          *)
LEMMA EmptyLineRead ==
  ASSUME IInv, NEW l \in RequestLines, l = <<>>, ReadRequestLine(l)
  PROVE  client' = client \/ client' = ReadNewline(client)
  <1> DEFINE nl == "\n"
             text == Rest(Append(l, nl))
  <1>1. client \in Clients /\ ~client.overflow
        /\ client' = FoldLeft(ScanRequestFile, client, text)
    BY DEF IInv, ReadRequestLine
  <1>2. text = IF requestFile = <<>> THEN <<>> ELSE <<nl>>
    <2> HIDE DEF nl
    <2>1. Append(l, nl) = <<nl>> /\ Tail(<<nl>>) = <<>>
      OBVIOUS
    <2> QED BY <2>1 DEF Rest
  <1>3. text \in Seq(ClientBytes)
    <2>1. nl \in ClientBytes
      BY DEF ClientBytes
    <2>2. <<>> \in Seq(ClientBytes)
      OBVIOUS
    <2> HIDE DEF nl, text
    <2>3. <<nl>> \in Seq(ClientBytes)
      BY <2>1
    <2> QED BY <1>2, <2>2, <2>3
  <1>4. PICK f : ClientRun(f, client, text)
    <2> HIDE DEF text
    <2> QED BY <1>1, <1>3, TextScanned
  <1> HIDE DEF text
  <1>5. CASE text = <<>>
    <2>1. Len(text) = 0
      BY <1>5
    <2> QED BY <1>1, <1>4, <2>1 DEF ClientRun
  <1>6. CASE text = <<nl>>
    <2>1. Len(text) = 1 /\ text[1] = nl /\ 1 \in 1..1 /\ 1 - 1 = 0
      BY <1>6
    <2>2. f[1] = ScanRequestFile(f[1-1], text[1]) /\ f[0] = client /\ f[1] = client'
      BY <1>1, <1>4, <2>1 DEF ClientRun
    <2>3. client' = ScanRequestFile(client, nl)
      BY <2>1, <2>2
    <2>4. ScanRequestFile(client, nl) = ReadNewline(client)
      BY <1>1 DEF ScanRequestFile
    <2> QED BY <2>3, <2>4
  <1> QED BY <1>2, <1>5, <1>6

(* A line that makes a request leaves nothing in the scanner.              *)
LEMMA MadeFresh ==
  ASSUME IInv, NEW l \in RequestLines, ReadRequestLine(l), made'
  PROVE  client'.scan = Fresh
  <1>1. client \in Clients /\ ~client.overflow /\ client.requestSize \in Nat
        /\ client'.requestSize > client.requestSize
    BY ClientFields DEF IInv, ReadRequestLine
  <1>2. CASE l = <<>>
    <2>1. client' = client \/ client' = ReadNewline(client)
      BY <1>2, EmptyLineRead
    <2>2. client' # client
      BY <1>1
    <2> QED BY <1>1, <2>1, <2>2, NewlineLeaves
  <1>3. CASE l # <<>>
    <2>1. PICK g : LET u == ClientAt(client.requests, client.requestSize, client.overflow, g[Len(l)])
                   IN u \in Clients /\ client' = ReadNewline(u)
      BY <1>3, NewlineRead
    <2> DEFINE r == client.requests
               m == client.requestSize
               o == client.overflow
               s == g[Len(l)]
               u == ClientAt(r, m, o, s)
    <2>2. u \in Clients /\ client' = ReadNewline(u)
      BY <2>1
    <2> HIDE DEF r, m, o, s
    <2>3. u.requestSize = m /\ u.overflow = o
      BY DEF ClientAt
    <2> HIDE DEF u
    <2>4. ~u.overflow /\ client'.requestSize > u.requestSize
      BY <1>1, <2>3 DEF m, o
    <2> QED BY <2>2, <2>4, NewlineLeaves
  <1> QED BY <1>2, <1>3

(* An empty line changes nothing when nothing is in the scanner.           *)
LEMMA EmptyLineSkipped ==
  ASSUME IInv, NEW l \in RequestLines, l = <<>>, ReadRequestLine(l), client.scan = Fresh
  PROVE  client' = client
  <1>1. client \in Clients /\ ~client.overflow
    BY DEF IInv, ReadRequestLine
  <1>2. client.scan.type = <<>>
    BY DEF Fresh
  <1> QED BY <1>1, <1>2, EmptyLineRead, NewlineScanned

(* A regular line, read by a scanner that has nothing left of another.     *)
LEMMA RegularRead ==
  ASSUME IInv, NEW l \in RequestLines, Regular(l), ReadRequestLine(l),
         client.scan = Fresh, client.requestSize < requestCapacity
  PROVE  client' = ClientAt([client.requests EXCEPT ![client.requestSize] = RequestOf(l)],
                            client.requestSize + 1, FALSE, Fresh)
  <1> DEFINE r == client.requests
             m == client.requestSize
             o == client.overflow
             q == RequestOf(l)
  <1>1. l \in Seq(Token)
    BY ScannerAssumption
  <1>2. l # <<>>
    <2>1. PICK a, e : Places(l, a, e, Len(Words(l)))
      BY <1>1, RegularPlaces
    <2>2. 1 \in 1..Len(Words(l)) /\ e[1] \in 1..Len(l)
      BY <2>1 DEF Places
    <2> QED BY <1>1, <2>2
  <1>3. PICK g : LET u == ClientAt(r, m, o, g[Len(l)])
                 IN LineRun(g, l, Skipped, Fresh) /\ u \in Clients /\ client' = ReadNewline(u)
    BY <1>2, NewlineRead
  <1> DEFINE s == g[Len(l)]
             u == ClientAt(r, m, o, s)
  <1>4. u \in Clients /\ client' = ReadNewline(u)
    BY <1>3
  <1>5. CreateReq(EndWord(s)) = q /\ s.type # <<>>
    <2>1. Skipped \in Nat /\ Skipped <= 1
      BY DEF Skipped
    <2>2. LineRun(g, l, Skipped, Fresh)
      BY <1>3
    <2> HIDE DEF u
    <2> QED BY <1>1, <2>1, <2>2, RegularScanned
  <1>6. ~o
    BY DEF ReadRequestLine
  <1>7. m < requestCapacity
    OBVIOUS
  <1> HIDE DEF r, m, o, s, q
  <1>8. u.requests = r /\ u.requestSize = m /\ u.overflow = o /\ u.scan = s
    BY DEF ClientAt
  <1> HIDE DEF u
  <1>9. client' = [AddRequest(u, q) EXCEPT !.scan = Fresh]
    <2>1. u.scan.type # <<>> /\ ~u.overflow
      BY <1>5, <1>6, <1>8
    <2>2. ReadNewline(u) = [AddRequest(u, CreateReq(EndWord(u.scan))) EXCEPT !.scan = Fresh]
      BY <1>4, <2>1, NewlineScanned
    <2> QED BY <1>4, <1>5, <1>8, <2>2
  <1>10. q \in Made
    <2>1. s \in Scanner
      BY <1>4, <1>8, ClientFields
    <2> QED BY <1>5, <2>1, RequestMade
  <1> DEFINE new == [r EXCEPT ![m] = q]
             n == m + 1
             false == FALSE
             v == AddRequest(u, q)
             w == [v EXCEPT !.scan = Fresh]
  <1>11. v = ClientAt([u.requests EXCEPT ![u.requestSize] = q], u.requestSize + 1, FALSE, u.scan)
    <2>1. ~u.overflow /\ u.requestSize < requestCapacity
      BY <1>6, <1>7, <1>8
    <2> QED BY <1>4, <1>10, <2>1, RequestAdded
  <1>12. v = ClientAt(new, n, false, s)
    BY <1>8, <1>11
  <1> HIDE DEF v, new, n, false
  <1>13. w = ClientAt(new, n, false, Fresh)
    BY <1>12 DEF ClientAt
  <1>14. client' = w
    BY <1>9 DEF v
  <1> HIDE DEF w
  <1> QED BY <1>13, <1>14 DEF new, n, false, r, m, q

(* The last line without a newline makes no request.                       *)
LEMMA LastLineKeeps ==
  ASSUME IInv, NEW l \in RequestLines, ReadLastLine(l)
  PROVE  /\ client'.requests = client.requests /\ client'.requestSize = client.requestSize
         /\ client'.overflow = client.overflow
  <1>1. client \in Clients /\ ~client.overflow /\ l # <<>>
        /\ client' = FoldLeft(ScanRequestFile, client, Rest(l))
    BY DEF IInv, ReadLastLine
  <1>2. /\ Rest(l) \in Seq(ClientBytes) /\ BeginsWith(Rest(l), l, Skipped)
        /\ Skipped \in 0..Len(l) /\ Len(Rest(l)) = Len(l) - Skipped
    BY <1>1, RestRead
  <1> DEFINE text == Rest(l)
  <1> HIDE DEF text
  <1>3. PICK scan : FoldLeft(ScanRequestFile, client, text) =
                      ClientAt(client.requests, client.requestSize, client.overflow, scan)
    BY <1>1, <1>2, LastLineRead DEF text
  <1> DEFINE r == client.requests
             m == client.requestSize
             o == client.overflow
             u == client'
  <1>4. u = ClientAt(r, m, o, scan)
    BY <1>1, <1>3 DEF text
  <1> HIDE DEF r, m, o, u
  <1>5. u.requests = r /\ u.requestSize = m /\ u.overflow = o
    BY ONLY <1>4 DEF ClientAt
  <1> QED BY <1>5 DEF r, m, o, u

-----------------------------------------------------------------------------
(* A request leaves the scanner as it found it.                            *)
NothingLeft == ~eof /\ made => client.scan = Fresh

(* Every step keeps it.                                                    *)
LEMMA NothingLeftNext ==
  IInv /\ NothingLeft /\ [Next]_vars => NothingLeft'
  <1> SUFFICES ASSUME IInv, NothingLeft, [Next]_vars PROVE NothingLeft'
    OBVIOUS
  <1>1. ASSUME NEW l \in RequestLines, ReadRequestLine(l) PROVE NothingLeft'
    BY <1>1, MadeFresh DEF NothingLeft
  <1>2. ASSUME NEW l \in RequestLines, ReadLastLine(l) PROVE NothingLeft'
    BY <1>2 DEF ReadLastLine, NothingLeft
  <1>3. CASE UNCHANGED clientVars
    BY <1>3 DEF clientVars, NothingLeft
  <1> QED BY <1>1, <1>2, <1>3 DEF Next, OpenFile, ReadEstateLine, vars

(* A line that has made a request, right or wrong, does no harm to the     *)
(* regular line behind it.                                                 *)
THEOREM DamageStaysLocal == Spec => DamageIsLocal
  <1>1. Init => NothingLeft
    BY DEF Init, NothingLeft
  <1>2. IInv /\ NothingLeft /\ [Next]_vars =>
          [\A l \in RequestLines :
             requestFile' = Append(requestFile, l) /\ made /\ Regular(l)
               /\ client.requestSize < requestCapacity =>
                 /\ client'.requestSize = client.requestSize + 1
                 /\ client'.requests[client.requestSize] = RequestOf(l)]_vars
    <2> SUFFICES ASSUME IInv, NothingLeft, [Next]_vars, NEW l \in RequestLines,
                        requestFile' = Append(requestFile, l), made, Regular(l),
                        client.requestSize < requestCapacity
                 PROVE  /\ client'.requestSize = client.requestSize + 1
                        /\ client'.requests[client.requestSize] = RequestOf(l)
      OBVIOUS
    <2>1. requestFile \in Seq(RequestLines)
      BY DEF IInv
    <2>2. requestFile' # requestFile
      <3>1. Len(Append(requestFile, l)) = Len(requestFile) + 1 /\ Len(requestFile) \in Nat
        BY <2>1
      <3> QED BY <3>1
    <2>3. PICK m \in RequestLines : ReadRequestLine(m)
      <3>1. ~UNCHANGED vars /\ ~UNCHANGED clientVars
        BY <2>2 DEF vars, clientVars
      <3> QED BY <2>2, <3>1 DEF Next, ReadLastLine, OpenFile, ReadEstateLine
    <2>4. m = l
      <3>1. Append(requestFile, m) = Append(requestFile, l)
        BY <2>3 DEF ReadRequestLine
      <3> QED BY <2>1, <3>1
    <2>5. client.scan = Fresh
      BY <2>3 DEF ReadRequestLine, NothingLeft
    <2> DEFINE n == client.requestSize
               q == RequestOf(l)
               r == [client.requests EXCEPT ![n] = q]
               k == n + 1
               false == FALSE
               u == client'
    <2>6. u = ClientAt(r, k, false, Fresh)
      BY <2>3, <2>4, <2>5, RegularRead
    <2>7. n \in DOMAIN client.requests
      <3>1. client \in Clients /\ ~client.overflow
        BY <2>3 DEF IInv, ReadRequestLine
      <3>2. DOMAIN client.requests = 0..requestCapacity-1 /\ n \in 0..requestCapacity
        BY <3>1, FilledArray
      <3>3. requestCapacity \in Nat
        BY ScannerAssumption
      <3> QED BY <3>2, <3>3
    <2>8. r[n] = q
      BY <2>7
    <2> HIDE DEF r, k, false, u
    <2>9. u.requestSize = k /\ u.requests = r
      BY <2>6 DEF ClientAt
    <2> QED BY <2>8, <2>9 DEF k, u
  <1> QED BY <1>1, <1>2, IInvInit, IInvNext, NothingLeftNext, PTL DEF Spec, DamageIsLocal

-----------------------------------------------------------------------------
(* The request file.                                                       *)
Lines == {j \in DOMAIN requestFile : requestFile[j] # <<>>}

AllRegular ==
  (\A j \in Lines : Regular(requestFile[j])) /\ Cardinality(Lines) <= requestCapacity

Placed(j) ==
  client.requests[Cardinality({i \in Lines : i < j})] = RequestOf(requestFile[j])

RequestsRead ==
  AllRegular =>
    /\ ~client.overflow /\ (~eof => client.scan = Fresh)
    /\ client.requestSize = Cardinality(Lines)
    /\ \A j \in Lines : Placed(j)

(* The lines that are not empty are finitely many.                         *)
LEMMA LinesFinite ==
  ASSUME IInv
  PROVE  /\ Len(requestFile) \in Nat /\ Lines \subseteq 1..Len(requestFile)
         /\ IsFiniteSet(Lines) /\ Cardinality(Lines) \in Nat
  <1>1. requestFile \in Seq(RequestLines)
    BY DEF IInv
  <1>2. Len(requestFile) \in Nat /\ Lines \in SUBSET (1..Len(requestFile))
    BY <1>1 DEF Lines
  <1>3. IsFiniteSet(1..Len(requestFile))
    BY <1>2, FS_Interval
  <1>4. IsFiniteSet(Lines)
    BY <1>2, <1>3, FS_Subset
  <1> QED BY <1>2, <1>4, FS_CardinalityType

(* One line more.                                                          *)
LEMMA LineAdded ==
  ASSUME IInv, NEW l \in RequestLines, requestFile' = Append(requestFile, l)
  PROVE  /\ \A j \in Lines : requestFile'[j] = requestFile[j]
         /\ \A j \in Lines : {i \in Lines' : i < j} = {i \in Lines : i < j}
         /\ l = <<>> => Lines' = Lines
         /\ l # <<>> => LET n == Len(requestFile) + 1
                        IN /\ Lines' = Lines \cup {n} /\ n \notin Lines
                           /\ requestFile'[n] = l /\ {i \in Lines' : i < n} = Lines
                           /\ Cardinality(Lines') = Cardinality(Lines) + 1
  <1> DEFINE n == Len(requestFile) + 1
  <1>1. requestFile \in Seq(RequestLines)
    BY DEF IInv
  <1>2. /\ Len(requestFile) \in Nat /\ Lines \subseteq 1..Len(requestFile)
        /\ IsFiniteSet(Lines) /\ Cardinality(Lines) \in Nat
    BY LinesFinite
  <1>3. /\ DOMAIN requestFile' = 1..n /\ requestFile'[n] = l
        /\ \A j \in 1..Len(requestFile) : requestFile'[j] = requestFile[j]
    BY <1>1
  <1>4. n \notin 1..Len(requestFile) /\ 1..n = (1..Len(requestFile)) \cup {n}
    BY <1>2
  <1>5. Lines' = {j \in 1..n : requestFile'[j] # <<>>}
    BY <1>3 DEF Lines
  <1>6. Lines = {j \in 1..Len(requestFile) : requestFile[j] # <<>>}
    BY <1>1 DEF Lines
  <1>7. \A j \in Lines : requestFile'[j] = requestFile[j]
    BY <1>2, <1>3
  <1>8. l = <<>> => Lines' = Lines
    BY <1>3, <1>4, <1>5, <1>6
  <1>9. l # <<>> => Lines' = Lines \cup {n}
    BY <1>3, <1>4, <1>5, <1>6
  <1>10. n \notin Lines
    BY <1>2, <1>4
  <1>11. \A j \in Lines : j < n /\ ~(n < j) /\ j \in Nat
    BY <1>2
  <1> HIDE DEF n
  <1>12. \A j \in Lines : {i \in Lines' : i < j} = {i \in Lines : i < j}
    BY <1>8, <1>9, <1>11
  <1>13. l # <<>> => {i \in Lines' : i < n} = Lines
    <2>1. ~(n < n)
      BY <1>2 DEF n
    <2> QED BY <1>9, <1>11, <2>1
  <1>14. l # <<>> => Cardinality(Lines') = Cardinality(Lines) + 1
    BY <1>2, <1>9, <1>10, FS_AddElement
  <1> QED BY <1>3, <1>7, <1>8, <1>9, <1>10, <1>12, <1>13, <1>14 DEF n

(* If all lines are regular with one more, they were without it.           *)
LEMMA RegularBefore ==
  ASSUME IInv, NEW l \in RequestLines, requestFile' = Append(requestFile, l), AllRegular'
  PROVE  /\ AllRegular
         /\ l # <<>> => Regular(l) /\ Cardinality(Lines) < requestCapacity
  <1>1. /\ \A j \in Lines : requestFile'[j] = requestFile[j]
        /\ l = <<>> => Lines' = Lines
        /\ l # <<>> => LET n == Len(requestFile) + 1
                       IN /\ Lines' = Lines \cup {n} /\ requestFile'[n] = l
                          /\ Cardinality(Lines') = Cardinality(Lines) + 1
    BY LineAdded
  <1>2. /\ Cardinality(Lines) \in Nat /\ requestCapacity \in Nat
    BY LinesFinite, ScannerAssumption
  <1>3. /\ \A j \in Lines' : Regular(requestFile'[j])
        /\ Cardinality(Lines') <= requestCapacity
    BY DEF AllRegular
  <1>4. \A j \in Lines : Regular(requestFile[j])
    <2> SUFFICES ASSUME NEW j \in Lines PROVE Regular(requestFile[j])
      OBVIOUS
    <2>1. j \in Lines' /\ requestFile'[j] = requestFile[j]
      BY <1>1
    <2>2. Regular(requestFile'[j])
      BY <1>3, <2>1
    <2> QED BY <2>1, <2>2
  <1>5. Cardinality(Lines) <= requestCapacity
    BY <1>1, <1>2, <1>3
  <1>6. ASSUME l # <<>> PROVE Regular(l) /\ Cardinality(Lines) < requestCapacity
    <2> DEFINE n == Len(requestFile) + 1
    <2>1. n \in Lines' /\ requestFile'[n] = l /\ Cardinality(Lines') = Cardinality(Lines) + 1
      BY <1>1, <1>6
    <2>2. Regular(requestFile'[n])
      BY <1>3, <2>1
    <2> HIDE DEF n
    <2> QED BY <1>2, <1>3, <2>1, <2>2
  <1> QED BY <1>4, <1>5, <1>6 DEF AllRegular

(* Every step keeps it: a regular line adds its request behind the others, *)
(* an empty one and the last one without a newline add nothing.            *)
LEMMA RequestsReadNext == IInv /\ RequestsRead /\ [Next]_vars => RequestsRead'
  <1> SUFFICES ASSUME IInv, RequestsRead, [Next]_vars, AllRegular'
               PROVE  /\ ~client'.overflow /\ (~eof' => client'.scan = Fresh)
                      /\ client'.requestSize = Cardinality(Lines')
                      /\ \A j \in Lines' : Placed(j)'
    BY DEF RequestsRead
  <1>1. ASSUME NEW l \in RequestLines, ReadRequestLine(l)
        PROVE  /\ ~client'.overflow /\ client'.scan = Fresh
               /\ client'.requestSize = Cardinality(Lines')
               /\ \A j \in Lines' : Placed(j)'
    <2>1. requestFile' = Append(requestFile, l) /\ ~eof
      BY <1>1 DEF ReadRequestLine
    <2>2. /\ AllRegular
          /\ l # <<>> => Regular(l) /\ Cardinality(Lines) < requestCapacity
      BY <2>1, RegularBefore
    <2>3. /\ ~client.overflow /\ client.scan = Fresh
          /\ client.requestSize = Cardinality(Lines)
          /\ \A j \in Lines : Placed(j)
      BY <2>1, <2>2 DEF RequestsRead
    <2>4. /\ \A j \in Lines : requestFile'[j] = requestFile[j]
          /\ \A j \in Lines : {i \in Lines' : i < j} = {i \in Lines : i < j}
          /\ l = <<>> => Lines' = Lines
      BY <2>1, LineAdded
    <2>5. CASE l = <<>>
      <3>1. client' = client
        BY <1>1, <2>3, <2>5, EmptyLineSkipped
      <3>2. Lines' = Lines
        BY <2>4, <2>5
      <3>3. ASSUME NEW j \in Lines PROVE Placed(j)'
        <4>1. client.requests[Cardinality({i \in Lines : i < j})] = RequestOf(requestFile[j])
          BY <2>3 DEF Placed
        <4>2. {i \in Lines' : i < j} = {i \in Lines : i < j} /\ requestFile'[j] = requestFile[j]
          BY <2>4
        <4> DEFINE c == Cardinality({i \in Lines : i < j})
        <4>3. Cardinality({i \in Lines' : i < j}) = c
          BY <4>2
        <4> HIDE DEF c
        <4>4. client'.requests[Cardinality({i \in Lines' : i < j})] = RequestOf(requestFile'[j])
          BY <3>1, <4>1, <4>2, <4>3 DEF c
        <4> QED BY <4>4 DEF Placed
      <3> QED BY <2>3, <3>1, <3>2, <3>3
    <2>6. CASE l # <<>>
      <3>9. PICK n : n = Len(requestFile) + 1
        OBVIOUS
      <3> DEFINE m == client.requestSize
                 q == RequestOf(l)
                 r == [client.requests EXCEPT ![m] = q]
                 k == m + 1
                 false == FALSE
                 u == client'
      <3>1. u = ClientAt(r, k, false, Fresh)
        BY <1>1, <2>2, <2>3, <2>6, RegularRead
      <3>2. /\ Lines' = Lines \cup {n} /\ n \notin Lines
            /\ requestFile'[n] = l /\ {i \in Lines' : i < n} = Lines
            /\ Cardinality(Lines') = Cardinality(Lines) + 1
        BY <2>1, <2>6, <3>9, LineAdded
      <3>3. /\ DOMAIN client.requests = 0..requestCapacity-1
            /\ m \in 0..requestCapacity-1 /\ requestCapacity \in Nat
        <4>1. client \in Clients
          BY DEF IInv
        <4>2. DOMAIN client.requests = 0..requestCapacity-1 /\ m \in 0..requestCapacity
          BY <2>3, <4>1, FilledArray
        <4>3. requestCapacity \in Nat /\ m < requestCapacity
          BY <2>2, <2>3, <2>6, ScannerAssumption
        <4> QED BY <4>2, <4>3
      <3>4. r[m] = q /\ \A x \in 0..requestCapacity-1 : x # m => r[x] = client.requests[x]
        BY <3>3
      <3> HIDE DEF r, k, false, u
      <3>5. u.requestSize = k /\ u.requests = r /\ u.overflow = false /\ u.scan = Fresh
        BY <3>1 DEF ClientAt
      <3>6. client'.requestSize = Cardinality(Lines')
        BY <2>3, <3>2, <3>5 DEF k, u
      <3>7. Placed(n)'
        <4>1. client'.requests[Cardinality({i \in Lines' : i < n})] = RequestOf(requestFile'[n])
          BY <2>3, <3>2, <3>4, <3>5 DEF u
        <4> QED BY <4>1 DEF Placed
      <3>8. ASSUME NEW j \in Lines PROVE Placed(j)'
        <4> DEFINE S == {i \in Lines : i < j}
                   c == Cardinality(S)
        <4>1. client.requests[c] = RequestOf(requestFile[j])
          BY <2>3 DEF Placed
        <4>2. {i \in Lines' : i < j} = S /\ requestFile'[j] = requestFile[j]
          BY <2>4
        <4>3. c \in 0..requestCapacity-1 /\ c # m
          <5>1. IsFiniteSet(Lines) /\ Lines \subseteq 1..Len(requestFile)
                /\ Len(requestFile) \in Nat /\ Cardinality(Lines) \in Nat
            BY LinesFinite
          <5>2. S \in SUBSET Lines /\ j \notin S
            <6>1. j \in Nat
              BY <5>1
            <6>2. ~(j < j)
              BY <6>1
            <6> QED BY <6>2
          <5> HIDE DEF S
          <5>3. IsFiniteSet(S) /\ Cardinality(S) <= Cardinality(Lines)
                /\ (Cardinality(S) = Cardinality(Lines) => S = Lines)
            BY <5>1, <5>2, FS_Subset
          <5>4. Cardinality(S) \in Nat /\ S # Lines
            BY <5>2, <5>3, FS_CardinalityType
          <5> QED BY <2>3, <3>3, <5>1, <5>3, <5>4
        <4>4. Cardinality({i \in Lines' : i < j}) = c
          BY <4>2
        <4> HIDE DEF c, S
        <4>5. client'.requests[Cardinality({i \in Lines' : i < j})] = RequestOf(requestFile'[j])
          BY <3>4, <3>5, <4>1, <4>2, <4>3, <4>4 DEF u
        <4> QED BY <4>5 DEF Placed
      <3> QED BY <3>2, <3>5, <3>6, <3>7, <3>8 DEF false, u
    <2> QED BY <2>5, <2>6
  <1>2. ASSUME NEW l \in RequestLines, ReadLastLine(l)
        PROVE  /\ ~client'.overflow /\ (~eof' => client'.scan = Fresh)
               /\ client'.requestSize = Cardinality(Lines')
               /\ \A j \in Lines' : Placed(j)'
    <2>1. requestFile' = requestFile /\ eof'
      BY <1>2 DEF ReadLastLine
    <2>2. /\ client'.requests = client.requests /\ client'.requestSize = client.requestSize
          /\ client'.overflow = client.overflow
      BY <1>2, LastLineKeeps
    <2>3. Lines' = Lines
      BY <2>1 DEF Lines
    <2>4. AllRegular
      BY <2>1, <2>3 DEF AllRegular
    <2> QED BY <2>1, <2>2, <2>3, <2>4 DEF RequestsRead, Placed
  <1>3. CASE UNCHANGED clientVars
    <2>1. requestFile' = requestFile /\ client' = client /\ eof' = eof
      BY <1>3 DEF clientVars
    <2>2. Lines' = Lines
      BY <2>1 DEF Lines
    <2>3. AllRegular
      BY <2>1, <2>2 DEF AllRegular
    <2> QED BY <2>1, <2>2, <2>3 DEF RequestsRead, Placed
  <1> QED BY <1>1, <1>2, <1>3 DEF Next, OpenFile, ReadEstateLine, vars

-----------------------------------------------------------------------------
(* The reader, field by field; and what a byte makes of it.                *)
ReaderAt(d, es, value, count, id, type, street, surface, live, fault) ==
  [date |-> d, value |-> value, count |-> count, transactionId |-> id, type |-> type,
   street |-> street, surface |-> surface, live |-> live, estates |-> es, fault |-> fault]

EstateBytes == Token \ {" ", "\n"}

(* A byte of a word.                                                       *)
LEMMA EstateByteAt ==
  ASSUME NEW d, NEW es, NEW value, NEW count, NEW id, NEW type, NEW street, NEW surface,
         NEW live, NEW fault, ~fault, NEW s,
         s = ReaderAt(d, es, value, count, id, type, street, surface, live, fault),
         NEW b, b \in EstateBytes
  PROVE  ScanEstateFile(s, b) =
           ReaderAt(d, es, Append(value, b), count, id, type, street, surface, live, fault)
  <1> DEFINE v == Append(value, b)
  <1>0. s = ReaderAt(d, es, value, count, id, type, street, surface, live, fault)
    OBVIOUS
  <1>1. ~s.fault /\ s.value = value
    <2>1. s.fault = fault /\ s.value = value
      BY ONLY <1>0 DEF ReaderAt
    <2> QED BY <2>1
  <1>2. b # " " /\ b # "\n"
    BY DEF EstateBytes
  <1>3. ScanEstateFile(s, b) = [s EXCEPT !.value = v]
    BY <1>1, <1>2 DEF ScanEstateFile
  <1> HIDE DEF v
  <1>4. [s EXCEPT !.value = v] =
          ReaderAt(d, es, v, count, id, type, street, surface, live, fault)
    BY ONLY <1>0 DEF ReaderAt
  <1> QED BY <1>3, <1>4 DEF v

WordDone(s) == [s EXCEPT !.value = <<>>, !.count = @ + 1]

BlankMeaning(s, d, es, value, count, id, type, street, surface, live, fault) ==
  LET t == ScanEstateFile(s, Space)
      lt == live \cup {"type"}
      ls == live \cup {"street"}
  IN /\ count = 0 =>
          t = ReaderAt(d, es, <<>>, count + 1, AtoI(value), type, street, surface, live, fault)
     /\ count = 1 =>
          t = ReaderAt(d, es, <<>>, count + 1, id, value, street, surface, lt, fault)
     /\ count = 2 =>
          t = ReaderAt(d, es, <<>>, count + 1, id, type, value, surface, ls, fault)
     /\ count = 3 =>
          t = ReaderAt(d, es, <<>>, count + 1, id, type, street, AtoI(value), live, fault)

(* A blank puts the word where the number of blanks so far says.           *)
LEMMA EstateBlankAt ==
  ASSUME NEW d, NEW es, NEW value, NEW count \in Nat, NEW id, NEW type, NEW street,
         NEW surface, NEW live, NEW fault, ~fault,
         NEW s, s = ReaderAt(d, es, value, count, id, type, street, surface, live, fault)
  PROVE  BlankMeaning(s, d, es, value, count, id, type, street, surface, live, fault)
  <1> DEFINE n == AtoI(value)
             l1 == live \cup {"type"}
             l2 == live \cup {"street"}
             none == <<>>
             A == [s EXCEPT !.transactionId = n]
             b == [s EXCEPT !.type = value]
             B == [b EXCEPT !.live = l1]
             c == [s EXCEPT !.street = value]
             C == [c EXCEPT !.live = l2]
             D == [s EXCEPT !.surface = n]
  <1>0. s = ReaderAt(d, es, value, count, id, type, street, surface, live, fault)
    OBVIOUS
  <1>1. ~s.fault /\ s.value = value /\ s.count = count /\ s.live = live
    <2>1. s.fault = fault /\ s.value = value /\ s.count = count /\ s.live = live
      BY ONLY <1>0 DEF ReaderAt
    <2> QED BY <2>1
  <1>2. ScanEstateFile(s, Space) = EstateBlank(s)
    BY <1>1 DEF ScanEstateFile, Space
  <1> DEFINE B2 == [s EXCEPT !.type = s.value, !.live = @ \cup {"type"}]
             C2 == [s EXCEPT !.street = s.value, !.live = @ \cup {"street"}]
             A2 == [s EXCEPT !.transactionId = AtoI(s.value)]
             D2 == [s EXCEPT !.surface = AtoI(s.value)]
             t == CASE s.count = 0 -> A2
                    [] s.count = 1 -> B2
                    [] s.count = 2 -> C2
                    [] s.count = 3 -> D2
                    [] OTHER -> s
  <1>3. EstateBlank(s) = WordDone(t)
    BY DEF EstateBlank, WordDone
  <1>13. /\ A2 = A /\ D2 = D
         /\ B2 = [s EXCEPT !.type = value, !.live = l1]
         /\ C2 = [s EXCEPT !.street = value, !.live = l2]
    BY <1>1
  <1> HIDE DEF n, l1, l2
  <1>4. /\ [s EXCEPT !.type = value, !.live = l1] = B
        /\ [s EXCEPT !.street = value, !.live = l2] = C
    OBVIOUS
  <1>5. /\ A = ReaderAt(d, es, value, count, n, type, street, surface, live, fault)
        /\ b = ReaderAt(d, es, value, count, id, value, street, surface, live, fault)
        /\ c = ReaderAt(d, es, value, count, id, type, value, surface, live, fault)
        /\ D = ReaderAt(d, es, value, count, id, type, street, n, live, fault)
    <2>1. A = ReaderAt(d, es, value, count, n, type, street, surface, live, fault)
      BY ONLY <1>0 DEF ReaderAt
    <2>2. b = ReaderAt(d, es, value, count, id, value, street, surface, live, fault)
      BY ONLY <1>0 DEF ReaderAt
    <2>3. c = ReaderAt(d, es, value, count, id, type, value, surface, live, fault)
      BY ONLY <1>0 DEF ReaderAt
    <2>4. D = ReaderAt(d, es, value, count, id, type, street, n, live, fault)
      BY ONLY <1>0 DEF ReaderAt
    <2> QED BY <2>1, <2>2, <2>3, <2>4
  <1>6. /\ B = ReaderAt(d, es, value, count, id, value, street, surface, l1, fault)
        /\ C = ReaderAt(d, es, value, count, id, type, value, surface, l2, fault)
    <2> HIDE DEF b, c
    <2>1. B = ReaderAt(d, es, value, count, id, value, street, surface, l1, fault)
      BY ONLY <1>5 DEF ReaderAt
    <2>2. C = ReaderAt(d, es, value, count, id, type, value, surface, l2, fault)
      BY ONLY <1>5 DEF ReaderAt
    <2> QED BY <2>1, <2>2
  <1> HIDE DEF A, B, C, D
  <1>7. ASSUME NEW r, NEW x1, NEW x2, NEW x3, NEW x4, NEW x5,
               r = ReaderAt(d, es, value, count, x1, x2, x3, x4, x5, fault)
        PROVE  WordDone(r) = ReaderAt(d, es, none, count + 1, x1, x2, x3, x4, x5, fault)
    <2> DEFINE u == [r EXCEPT !.value = none]
    <2>1. u = ReaderAt(d, es, none, count, x1, x2, x3, x4, x5, fault)
      BY ONLY <1>7 DEF ReaderAt
    <2>2. WordDone(r) = [u EXCEPT !.count = @ + 1]
      BY DEF WordDone
    <2> HIDE DEF u
    <2>3. [u EXCEPT !.count = @ + 1] = ReaderAt(d, es, none, count + 1, x1, x2, x3, x4, x5, fault)
      BY ONLY <2>1 DEF ReaderAt
    <2> QED BY <2>2, <2>3
  <1> HIDE DEF A2, B2, C2, D2
  <1>8. /\ count = 0 => t = A
        /\ count = 1 => t = B
        /\ count = 2 => t = C
        /\ count = 3 => t = D
    <2>1. /\ count = 0 => t = A2
          /\ count = 1 => t = B2
          /\ count = 2 => t = C2
          /\ count = 3 => t = D2
      BY <1>1
    <2> HIDE DEF t
    <2> QED BY <1>4, <1>13, <2>1
  <1> HIDE DEF t
  <1> DEFINE E == ScanEstateFile(s, Space)
  <1>14. E = WordDone(t)
    BY <1>2, <1>3
  <1>15. ASSUME NEW x1, NEW x2, NEW x3, NEW x4, NEW x5,
                t = ReaderAt(d, es, value, count, x1, x2, x3, x4, x5, fault)
         PROVE  E = ReaderAt(d, es, none, count + 1, x1, x2, x3, x4, x5, fault)
    BY <1>7, <1>14, <1>15
  <1> HIDE DEF E, none
  <1>9. count = 0 => E = ReaderAt(d, es, none, count + 1, n, type, street, surface, live, fault)
    BY <1>5, <1>8, <1>15
  <1>10. count = 1 => E = ReaderAt(d, es, none, count + 1, id, value, street, surface, l1, fault)
    BY <1>6, <1>8, <1>15
  <1>11. count = 2 => E = ReaderAt(d, es, none, count + 1, id, type, value, surface, l2, fault)
    BY <1>6, <1>8, <1>15
  <1>12. count = 3 => E = ReaderAt(d, es, none, count + 1, id, type, street, n, live, fault)
    BY <1>5, <1>8, <1>15
  <1> QED BY <1>9, <1>10, <1>11, <1>12 DEF E, none, n, l1, l2, BlankMeaning

(* A newline adds the estate, when type and street are alive.              *)
LEMMA EstateNewlineAt ==
  ASSUME NEW d, NEW es, NEW value, NEW count, NEW id, NEW type, NEW street, NEW surface,
         NEW fault, ~fault, NEW s,
         s = ReaderAt(d, es, value, count, id, type, street, surface, {"type", "street"}, fault)
  PROVE  ScanEstateFile(s, "\n") =
           ReaderAt(d, Append(es, [id |-> id, type |-> type, street |-> street,
                                   surface |-> surface, price |-> AtoI(value)]),
                    <<>>, 0, id, type, street, surface, {}, fault)
  <1> DEFINE both == {"type", "street"}
             e == [id |-> id, type |-> type, street |-> street, surface |-> surface,
                   price |-> AtoI(value)]
             new == Append(es, e)
             none == <<>>
             empty == {}
             zero == 0
             t == [s EXCEPT !.estates = new]
             u == [t EXCEPT !.live = empty]
             v == [u EXCEPT !.value = none]
             w == [v EXCEPT !.count = zero]
  <1>1. /\ ~s.fault /\ s.value = value /\ s.live = both /\ s.estates = es
        /\ s.transactionId = id /\ s.type = type /\ s.street = street /\ s.surface = surface
    BY DEF ReaderAt
  <1>2. ScanEstateFile(s, "\n") = EstateNewline(s)
    BY <1>1 DEF ScanEstateFile
  <1>3. EstateNewline(s) = [s EXCEPT !.estates = new, !.live = empty, !.value = none, !.count = zero]
    BY <1>1 DEF EstateNewline, AddEstate
  <1> HIDE DEF new, both, none, empty, zero
  <1>4. [s EXCEPT !.estates = new, !.live = empty, !.value = none, !.count = zero] = w
    OBVIOUS
  <1>5. s = ReaderAt(d, es, value, count, id, type, street, surface, both, fault)
    BY DEF both
  <1>6. t = ReaderAt(d, new, value, count, id, type, street, surface, both, fault)
    BY ONLY <1>5 DEF ReaderAt
  <1> HIDE DEF t
  <1>7. u = ReaderAt(d, new, value, count, id, type, street, surface, empty, fault)
    BY ONLY <1>6 DEF ReaderAt
  <1> HIDE DEF u
  <1>8. v = ReaderAt(d, new, none, count, id, type, street, surface, empty, fault)
    BY ONLY <1>7 DEF ReaderAt
  <1> HIDE DEF v
  <1>9. w = ReaderAt(d, new, none, zero, id, type, street, surface, empty, fault)
    BY ONLY <1>8 DEF ReaderAt
  <1> HIDE DEF w
  <1> QED BY <1>2, <1>3, <1>4, <1>9 DEF new, e, none, empty, zero

(* There are as many pieces as beginnings.                                 *)
LEMMA PiecesCount ==
  ASSUME NEW s \in Seq(Token), NEW sep
  PROVE  Len(Pieces(s, sep)) = Cardinality(Starts(s, sep))
  <1>1. Cardinality(Starts(s, sep)) \in Nat
    BY StartsFinite
  <1> QED BY <1>1 DEF Pieces

(* A line of the file, byte after byte.                                    *)
EstateRun(g, l) == \A k \in 1..Len(l) : g[k] = ScanEstateFile(g[k-1], l[k])

EstateWord(l, x, y) == \A k \in x..y : l[k] \in EstateBytes

(* The bytes of a word are gathered one after another.                     *)
LEMMA EstateWordRun ==
  ASSUME NEW l \in Seq(Token), NEW g, EstateRun(g, l),
         NEW j \in 0..Len(l), NEW m \in j..Len(l), EstateWord(l, j+1, m),
         NEW d, NEW es, NEW count, NEW id, NEW type, NEW street, NEW surface,
         NEW live, NEW fault, ~fault,
         g[j] = ReaderAt(d, es, <<>>, count, id, type, street, surface, live, fault)
  PROVE  g[m] =
           ReaderAt(d, es, SubSeq(l, j+1, m), count, id, type, street, surface, live, fault)
  <1> DEFINE At(k) == ReaderAt(d, es, SubSeq(l, j+1, j+k), count, id, type, street, surface,
                               live, fault)
             n == m - j
             U == {k \in 0..n : g[j+k] = At(k)}
  <1>1. Len(l) \in Nat /\ n \in Nat /\ j \in Nat /\ j + n = m
    OBVIOUS
  <1>2. 0 \in U
    <2>1. SubSeq(l, j+1, j+0) = <<>> /\ j + 0 = j
      OBVIOUS
    <2>2. At(0) = g[j+0]
      BY <2>1
    <2> HIDE DEF At
    <2> QED BY <1>1, <2>2
  <1> HIDE DEF n
  <1>3. ASSUME NEW k \in 0..n-1, k \in U PROVE k + 1 \in U
    <2> DEFINE w == SubSeq(l, j+1, j+k)
               b == l[j+k+1]
               v == Append(w, b)
    <2>1. j+k+1 \in 1..Len(l) /\ (j+k+1) - 1 = j+k /\ j+k+1 \in j+1..m /\ j+(k+1) = j+k+1
      BY <1>1
    <2>2. v = SubSeq(l, j+1, j+(k+1))
      BY <1>1, <2>1
    <2>3. g[j+k+1] = ScanEstateFile(g[j+k], b) /\ b \in EstateBytes
      BY <2>1 DEF EstateRun, EstateWord
    <2>4. g[j+k] = At(k)
      <3> HIDE DEF At
      <3> QED BY <1>3
    <2>5. ScanEstateFile(g[j+k], b) =
            ReaderAt(d, es, v, count, id, type, street, surface, live, fault)
      <3> DEFINE s == g[j+k]
      <3>1. s = ReaderAt(d, es, w, count, id, type, street, surface, live, fault)
        BY <2>4
      <3> HIDE DEF s, w, b
      <3>2. ScanEstateFile(s, b) =
              ReaderAt(d, es, Append(w, b), count, id, type, street, surface, live, fault)
        BY <2>3, <3>1, EstateByteAt
      <3> QED BY <3>2 DEF s
    <2>6. g[j+(k+1)] = At(k+1)
      BY <2>1, <2>2, <2>3, <2>5
    <2>7. k + 1 \in 0..n
      BY <1>1
    <2> HIDE DEF At
    <2> QED BY <2>6, <2>7
  <1> HIDE DEF U, At
  <1>4. n \in U
    <2>1. 0..n \subseteq U
      BY <1>1, <1>2, <1>3, BoundedInduction
    <2> QED BY <1>1, <2>1
  <1>5. g[m] = At(n)
    BY <1>1, <1>4 DEF U
  <1> QED BY <1>1, <1>5 DEF At

(* Where the words of a regular line of this file are.                     *)
EstatePlaces(l, a, e) ==
  /\ \A k \in 1..5 : /\ a[k] \in 1..Len(l) /\ e[k] \in 1..Len(l) /\ a[k] <= e[k]
                     /\ Words(l)[k] = SubSeq(l, a[k], e[k]) /\ EstateWord(l, a[k], e[k])
  /\ a[1] = 1 /\ e[5] = Len(l)
  /\ \A k \in 1..4 : a[k+1] = e[k] + 2 /\ l[e[k]+1] = Space

(* Where the words of a regular line of a dataset file are.                *)
LEMMA RegularEstatePlaces ==
  ASSUME NEW l \in Seq(Token \ {"\n"}), RegularEstate(l)
  PROVE  \E a, e : EstatePlaces(l, a, e)
  <1> DEFINE nl == "\n"
             a == [k \in 1..5 |-> Start(l, Space, k)]
             e == [k \in 1..5 |-> Stop(l, Space, k)]
  <1>1. l \in Seq(Token) /\ Len(l) \in Nat /\ \A k \in 1..Len(l) : l[k] \in Token \ {nl}
    <2> HIDE DEF nl
    <2>1. Token \ {nl} \subseteq Token
      OBVIOUS
    <2> QED BY <2>1, SeqMonotonic DEF nl
  <1>2. /\ Words(l) = Pieces(l, Space) /\ Len(Words(l)) = 5
        /\ Cardinality({k \in DOMAIN l : l[k] = Space}) = 4
    BY DEF RegularEstate, Words, Space
  <1>3. Cardinality(Starts(l, Space)) = 5
    <2>1. Cardinality(Starts(l, Space)) \in Nat
      BY <1>1, StartsFinite
    <2>2. Len(Pieces(l, Space)) = Cardinality(Starts(l, Space))
      BY <1>1, <2>1, PiecesCount
    <2> QED BY <1>2, <2>2
  <1>4. Tight(l, Space, 5)
    <2>1. 5 \in Nat \ {0} /\ 5 - 1 = 4
      OBVIOUS
    <2> QED BY <1>1, <1>2, <1>3, <2>1, FewSeparators
  <1>5. ASSUME NEW k \in 1..5
        PROVE  /\ a[k] = Start(l, Space, k) /\ e[k] = Stop(l, Space, k)
               /\ a[k] \in 1..Len(l) /\ e[k] \in 1..Len(l) /\ a[k] <= e[k]
               /\ Words(l)[k] = SubSeq(l, a[k], e[k]) /\ EstateWord(l, a[k], e[k])
               /\ e[k] # Len(l) => l[e[k]+1] = Space
    <2> DEFINE x == Start(l, Space, k)
               y == Stop(l, Space, k)
    <2>1. a[k] = x /\ e[k] = y
      OBVIOUS
    <2>2. k \in 1..Cardinality(Starts(l, Space))
      BY <1>3
    <2>3. /\ x \in 1..Len(l) /\ y \in 1..Len(l) /\ x <= y
          /\ \A m \in x..y : l[m] # Space
          /\ y # Len(l) => l[y+1] = Space
          /\ Pieces(l, Space)[k] = SubSeq(l, x, y)
      BY <1>1, <2>2, PieceAt
    <2> HIDE DEF x, y, a, e
    <2>4. EstateWord(l, x, y)
      <3>1. \A m \in x..y : m \in 1..Len(l)
        BY <1>1, <2>3
      <3> QED BY <1>1, <2>3, <3>1 DEF EstateWord, EstateBytes, Space, nl
    <2> QED BY <1>2, <2>1, <2>3, <2>4 DEF x, y
  <1>6. a[1] = 1 /\ e[5] = Len(l) /\ \A k \in 1..4 : a[k+1] = e[k] + 2
    <2>1. /\ Start(l, Space, 1) = 1 /\ Stop(l, Space, 5) = Len(l)
          /\ \A k \in 1..4 : Start(l, Space, k+1) = Stop(l, Space, k) + 2
      BY <1>4 DEF Tight
    <2>2. \A k \in 1..4 : k \in 1..5 /\ k + 1 \in 1..5
      OBVIOUS
    <2> QED BY <2>1, <2>2
  <1> HIDE DEF a, e
  <1>7. \A k \in 1..4 : l[e[k]+1] = Space
    <2> SUFFICES ASSUME NEW k \in 1..4 PROVE l[e[k]+1] = Space
      OBVIOUS
    <2>1. k \in 1..5 /\ k + 1 \in 1..5
      OBVIOUS
    <2>2. e[k] \in 1..Len(l) /\ a[k+1] \in 1..Len(l) /\ a[k+1] = e[k] + 2
      BY <1>5, <1>6, <2>1
    <2>3. e[k] # Len(l)
      BY <1>1, <2>2
    <2> QED BY <1>5, <2>1, <2>3
  <1>8. \A k \in 1..5 : /\ a[k] \in 1..Len(l) /\ e[k] \in 1..Len(l) /\ a[k] <= e[k]
                        /\ Words(l)[k] = SubSeq(l, a[k], e[k]) /\ EstateWord(l, a[k], e[k])
    BY <1>5
  <1>9. EstatePlaces(l, a, e)
    BY <1>6, <1>7, <1>8 DEF EstatePlaces
  <1> QED BY <1>9

(* One word and the blank behind it.                                       *)
LEMMA EstateWordAt ==
  ASSUME NEW l \in Seq(Token \ {"\n"}), NEW g, EstateRun(g, l), NEW a, NEW e,
         EstatePlaces(l, a, e), NEW k \in 1..5,
         NEW d, NEW es, NEW count, NEW id, NEW type, NEW street, NEW surface,
         NEW live, NEW fault, ~fault,
         g[a[k]-1] = ReaderAt(d, es, <<>>, count, id, type, street, surface, live, fault)
  PROVE  /\ g[e[k]] =
              ReaderAt(d, es, Words(l)[k], count, id, type, street, surface, live, fault)
         /\ k # 5 => g[a[k+1]-1] = ScanEstateFile(g[e[k]], Space)
  <1> DEFINE nl == "\n"
             j == a[k] - 1
             m == e[k]
             n == Len(l)
  <1>1. l \in Seq(Token) /\ n \in Nat
    <2> HIDE DEF nl
    <2>1. Token \ {nl} \subseteq Token
      OBVIOUS
    <2> QED BY <2>1, SeqMonotonic DEF nl
  <1>2. /\ a[k] \in 1..n /\ m \in 1..n /\ a[k] <= m
        /\ Words(l)[k] = SubSeq(l, a[k], m) /\ EstateWord(l, a[k], m)
    BY DEF EstatePlaces
  <1> HIDE DEF m, n
  <1>3. j \in 0..n /\ m \in j..n /\ j + 1 = a[k]
    BY <1>1, <1>2
  <1> HIDE DEF j
  <1>4. g[j] = ReaderAt(d, es, <<>>, count, id, type, street, surface, live, fault)
    BY DEF j
  <1>5. EstateWord(l, j+1, m) /\ Words(l)[k] = SubSeq(l, j+1, m)
    BY <1>2, <1>3
  <1>6. g[m] = ReaderAt(d, es, SubSeq(l, j+1, m), count, id, type, street, surface, live, fault)
    BY <1>1, <1>3, <1>4, <1>5, EstateWordRun DEF n
  <1>7. k # 5 => g[a[k+1]-1] = ScanEstateFile(g[m], Space)
    <2> SUFFICES ASSUME k # 5 PROVE g[a[k+1]-1] = ScanEstateFile(g[m], Space)
      OBVIOUS
    <2>1. k \in 1..4 /\ k + 1 \in 1..5
      OBVIOUS
    <2>2. a[k+1] = m + 2 /\ l[m+1] = Space /\ a[k+1] \in 1..n
      BY <2>1 DEF EstatePlaces, m, n
    <2>3. m + 1 \in 1..n /\ (m+1) - 1 = m /\ a[k+1] - 1 = m + 1
      BY <1>1, <1>2, <2>2
    <2>4. g[m+1] = ScanEstateFile(g[(m+1)-1], l[m+1])
      BY <2>3 DEF EstateRun, n
    <2> QED BY <2>2, <2>3, <2>4
  <1> QED BY <1>5, <1>6, <1>7 DEF m

(* A regular line with its newline adds its estate.                        *)
LEMMA RegularEstateRun ==
  ASSUME NEW l \in Seq(Token \ {"\n"}), RegularEstate(l), NEW g, EstateRun(g, l),
         NEW d, NEW es, NEW id, NEW type, NEW street, NEW surface, NEW fault, ~fault,
         g[0] = ReaderAt(d, es, <<>>, 0, id, type, street, surface, {}, fault)
  PROVE  LET w == Words(l)
         IN ScanEstateFile(g[Len(l)], "\n") =
              ReaderAt(d, Append(es, EstateOf(l)), <<>>, 0, AtoI(w[1]), w[2], w[3],
                       AtoI(w[4]), {}, fault)
  <1>0. ~fault
    OBVIOUS
  <1>18. l \in Seq(Token \ {"\n"}) /\ EstateRun(g, l)
    OBVIOUS
  <1>1. PICK a, e : EstatePlaces(l, a, e)
    BY RegularEstatePlaces
  <1> DEFINE w == Words(l)
             empty == {}
             lt == empty \cup {"type"}
             ls == lt \cup {"street"}
             n1 == AtoI(w[1])
             n4 == AtoI(w[4])
  <1>2. a[1] - 1 = 0 /\ e[5] = Len(l)
    BY <1>1 DEF EstatePlaces
  <1>3. 1 \in 1..5 /\ 2 \in 1..5 /\ 3 \in 1..5 /\ 4 \in 1..5 /\ 5 \in 1..5
        /\ 1 + 1 = 2 /\ 2 + 1 = 3 /\ 3 + 1 = 4 /\ 4 + 1 = 5
        /\ 1 # 5 /\ 2 # 5 /\ 3 # 5 /\ 4 # 5
    OBVIOUS
  <1>20. ls = {"type", "street"}
    OBVIOUS
  <1> DEFINE c0 == 0
             c1 == 1
             c2 == 2
             c3 == 3
             c4 == 4
  <1>4. c0 = 0 /\ c1 = 1 /\ c2 = 2 /\ c3 = 3 /\ c0 + 1 = c1 /\ c1 + 1 = c2 /\ c2 + 1 = c3
        /\ c3 + 1 = c4 /\ c0 \in Nat /\ c1 \in Nat /\ c2 \in Nat /\ c3 \in Nat
    OBVIOUS
  <1>5. g[a[1]-1] = ReaderAt(d, es, <<>>, c0, id, type, street, surface, empty, fault)
    BY <1>2
  <1> HIDE DEF w, empty, lt, ls, n1, n4, c0, c1, c2, c3, c4
  <1>6. /\ g[e[1]] = ReaderAt(d, es, w[1], c0, id, type, street, surface, empty, fault)
        /\ g[a[2]-1] = ScanEstateFile(g[e[1]], Space)
    <2> DEFINE one == 1
               id0 == id
               type0 == type
               live == empty
    <2>1. g[a[one]-1] = ReaderAt(d, es, <<>>, c0, id0, type0, street, surface, live, fault)
      BY <1>5
    <2>5. one \in 1..5
      OBVIOUS
    <2>2. one # 5 /\ one + 1 = 2
      OBVIOUS
    <2> HIDE DEF one, id0, type0, live
    <2>6. g[e[one]] = ReaderAt(d, es, Words(l)[one], c0, id0, type0, street, surface, live, fault)
      <3> DEFINE j == 0
                 m == e[one]
      <3>1. l \in Seq(Token)
        <4> DEFINE nl == "\n"
        <4> HIDE DEF nl
        <4>1. Token \ {nl} \subseteq Token
          OBVIOUS
        <4> QED BY <4>1, SeqMonotonic DEF nl
      <3>2. /\ a[one] = 1 /\ m \in 1..Len(l)
            /\ Words(l)[one] = SubSeq(l, a[one], m) /\ EstateWord(l, a[one], m)
        BY <1>1, <2>5 DEF EstatePlaces, one
      <3>3. j \in 0..Len(l) /\ j + 1 = a[one] /\ m \in j..Len(l) /\ a[one] - 1 = j
        <4> HIDE DEF m
        <4>1. Len(l) \in Nat
          BY <3>1
        <4> QED BY <3>2, <4>1
      <3> HIDE DEF j, m
      <3>4. g[j] = ReaderAt(d, es, <<>>, c0, id0, type0, street, surface, live, fault)
        BY <2>1, <3>3
      <3>5. EstateWord(l, j+1, m)
        BY <3>2, <3>3
      <3>6. EstateRun(g, l)
        BY <1>18
      <3>7. g[m] = ReaderAt(d, es, SubSeq(l, j+1, m), c0, id0, type0, street, surface, live, fault)
        BY ONLY <1>0, <3>1, <3>3, <3>4, <3>5, <3>6, EstateWordRun
      <3> QED BY <3>2, <3>3, <3>7 DEF m
    <2>7. one # 5 => g[a[one+1]-1] = ScanEstateFile(g[e[one]], Space)
      <3> DEFINE m == e[one]
      <3>1. Len(l) \in Nat
        BY <1>18
      <3>2. m \in 1..Len(l) /\ a[one+1] \in 1..Len(l) /\ a[one+1] = m + 2 /\ l[m+1] = Space
        BY <1>1, <1>3, <2>2, <2>5 DEF EstatePlaces, one
      <3> HIDE DEF m
      <3>3. m + 1 \in 1..Len(l) /\ (m+1) - 1 = m /\ a[one+1] - 1 = m + 1
        BY <3>1, <3>2
      <3>4. g[m+1] = ScanEstateFile(g[(m+1)-1], l[m+1])
        BY <1>18, <3>3 DEF EstateRun
      <3> QED BY <3>2, <3>3, <3>4 DEF m
    <2>3. /\ g[e[one]] = ReaderAt(d, es, w[one], c0, id0, type0, street, surface, live, fault)
          /\ one # 5 => g[a[one+1]-1] = ScanEstateFile(g[e[one]], Space)
      BY <2>6, <2>7 DEF w
    <2>4. g[a[one+1]-1] = ScanEstateFile(g[e[one]], Space)
      BY <2>2, <2>3
    <2> QED BY <2>2, <2>3, <2>4 DEF one, id0, type0, live
  <1>7. g[a[2]-1] = ReaderAt(d, es, <<>>, c1, n1, type, street, surface, empty, fault)
    <2> DEFINE s == g[e[1]]
               v == w[1]
    <2>1. s = ReaderAt(d, es, v, c0, id, type, street, surface, empty, fault)
      BY <1>6
    <2> HIDE DEF s, v
    <2>3. BlankMeaning(s, d, es, v, c0, id, type, street, surface, empty, fault)
      BY <1>4, <2>1, EstateBlankAt
    <2>2. ScanEstateFile(s, Space) = ReaderAt(d, es, <<>>, c0 + 1, AtoI(v), type, street, surface, empty, fault)
      BY <1>4, <2>3 DEF BlankMeaning
    <2> QED BY <1>4, <1>6, <2>2 DEF s, v, n1
  <1>8. /\ g[e[2]] = ReaderAt(d, es, w[2], c1, n1, type, street, surface, empty, fault)
        /\ g[a[3]-1] = ScanEstateFile(g[e[2]], Space)
    BY <1>1, <1>3, <1>7, EstateWordAt DEF w
  <1>9. g[a[3]-1] = ReaderAt(d, es, <<>>, c2, n1, w[2], street, surface, lt, fault)
    <2> DEFINE s == g[e[2]]
               v == w[2]
    <2>1. s = ReaderAt(d, es, v, c1, n1, type, street, surface, empty, fault)
      BY <1>8
    <2> HIDE DEF s, v
    <2>3. BlankMeaning(s, d, es, v, c1, n1, type, street, surface, empty, fault)
      BY <1>4, <2>1, EstateBlankAt
    <2>2. ScanEstateFile(s, Space) = ReaderAt(d, es, <<>>, c1 + 1, n1, v, street, surface, empty \cup {"type"}, fault)
      BY <1>4, <2>3 DEF BlankMeaning
    <2> QED BY <1>4, <1>8, <2>2 DEF s, v, lt
  <1>10. /\ g[e[3]] = ReaderAt(d, es, w[3], c2, n1, w[2], street, surface, lt, fault)
         /\ g[a[4]-1] = ScanEstateFile(g[e[3]], Space)
    BY <1>1, <1>3, <1>9, EstateWordAt DEF w
  <1>11. g[a[4]-1] = ReaderAt(d, es, <<>>, c3, n1, w[2], w[3], surface, ls, fault)
    <2> DEFINE s == g[e[3]]
               v == w[3]
    <2>1. s = ReaderAt(d, es, v, c2, n1, w[2], street, surface, lt, fault)
      BY <1>10
    <2> HIDE DEF s, v
    <2>3. BlankMeaning(s, d, es, v, c2, n1, w[2], street, surface, lt, fault)
      BY <1>4, <2>1, EstateBlankAt
    <2>2. ScanEstateFile(s, Space) = ReaderAt(d, es, <<>>, c2 + 1, n1, w[2], v, surface, lt \cup {"street"}, fault)
      BY <1>4, <2>3 DEF BlankMeaning
    <2> QED BY <1>4, <1>10, <2>2 DEF s, v, ls
  <1>12. /\ g[e[4]] = ReaderAt(d, es, w[4], c3, n1, w[2], w[3], surface, ls, fault)
         /\ g[a[5]-1] = ScanEstateFile(g[e[4]], Space)
    BY <1>1, <1>3, <1>11, EstateWordAt DEF w
  <1>13. g[a[5]-1] = ReaderAt(d, es, <<>>, c4, n1, w[2], w[3], n4, ls, fault)
    <2> DEFINE s == g[e[4]]
               v == w[4]
    <2>1. s = ReaderAt(d, es, v, c3, n1, w[2], w[3], surface, ls, fault)
      BY <1>12
    <2> HIDE DEF s, v
    <2>3. BlankMeaning(s, d, es, v, c3, n1, w[2], w[3], surface, ls, fault)
      BY <1>4, <2>1, EstateBlankAt
    <2>2. ScanEstateFile(s, Space) = ReaderAt(d, es, <<>>, c3 + 1, n1, w[2], w[3], AtoI(v), ls, fault)
      BY <1>4, <2>3 DEF BlankMeaning
    <2> QED BY <1>4, <1>12, <2>2 DEF s, v, n4
  <1>14. g[e[5]] = ReaderAt(d, es, w[5], c4, n1, w[2], w[3], n4, ls, fault)
    BY <1>1, <1>3, <1>13, EstateWordAt DEF w
  <1>15. g[e[5]] = ReaderAt(d, es, w[5], c4, n1, w[2], w[3], n4, {"type", "street"}, fault)
    BY <1>14, <1>20
  <1>16. ScanEstateFile(g[e[5]], "\n") =
           ReaderAt(d, Append(es, [id |-> n1, type |-> w[2], street |-> w[3],
                                   surface |-> n4, price |-> AtoI(w[5])]),
                    <<>>, 0, n1, w[2], w[3], n4, {}, fault)
    BY <1>15, EstateNewlineAt
  <1>17. EstateOf(l) = [id |-> n1, type |-> w[2], street |-> w[3], surface |-> n4,
                        price |-> AtoI(w[5])]
    BY DEF EstateOf, n1, n4, w
  <1> QED BY <1>2, <1>16, <1>17 DEF n1, n4, w

-----------------------------------------------------------------------------
(* A reader between two lines.                                             *)
Resting(s, d, es) ==
  \E id, type, street, surface, fault :
    ~fault /\ s = ReaderAt(d, es, <<>>, 0, id, type, street, surface, {}, fault)

(* What FilesRead asks of the reader.                                      *)
LEMMA RestingReader ==
  ASSUME NEW s, NEW d, NEW es, Resting(s, d, es)
  PROVE  ~s.fault /\ s.date = d /\ s.estates = es
  <1>1. PICK id, type, street, surface, fault :
          ~fault /\ s = ReaderAt(d, es, <<>>, 0, id, type, street, surface, {}, fault)
    BY DEF Resting
  <1> DEFINE none == <<>>
             zero == 0
             empty == {}
  <1>2. s = ReaderAt(d, es, none, zero, id, type, street, surface, empty, fault)
    BY <1>1
  <1> HIDE DEF none, zero, empty
  <1>3. s.fault = fault /\ s.date = d /\ s.estates = es
    BY ONLY <1>2 DEF ReaderAt
  <1> QED BY <1>1, <1>3

(* A regular line adds its estate and leaves the reader between two lines. *)
LEMMA EstateLineRead ==
  ASSUME NEW l \in Seq(Token \ {"\n"}), RegularEstate(l), NEW e, NEW s, s \in Readers(e),
         NEW d, NEW es, Resting(s, d, es)
  PROVE  Resting(FoldLeft(ScanEstateFile, s, Append(l, "\n")), d, Append(es, EstateOf(l)))
  <1> DEFINE nl == "\n"
             n == Len(l)
             text == Append(l, nl)
             w == Words(l)
             end == FoldLeft(ScanEstateFile, s, text)
  <1>1. l \in Seq(Token) /\ n \in Nat /\ nl \in Token
    <2>1. nl \in Token
      BY DEF Token
    <2> HIDE DEF nl
    <2>2. Token \ {nl} \subseteq Token
      OBVIOUS
    <2> QED BY <2>1, <2>2, SeqMonotonic DEF nl
  <1>2. PICK id, type, street, surface, fault :
          ~fault /\ s = ReaderAt(d, es, <<>>, 0, id, type, street, surface, {}, fault)
    BY DEF Resting
  <1> HIDE DEF nl
  <1>3. /\ text \in Seq(Token) /\ Len(text) = n + 1 /\ text[n+1] = nl
        /\ \A k \in 1..n : text[k] = l[k]
    BY <1>1, AppendProperties
  <1> HIDE DEF text
  <1>4. PICK g : ReaderRun(g, e, s, text)
    BY <1>3, EstatesScanned
  <1> HIDE DEF n
  <1>5. /\ g[0] = s /\ g[n+1] = end
        /\ \A k \in 1..n+1 : g[k] = ScanEstateFile(g[k-1], text[k])
    BY <1>3, <1>4 DEF ReaderRun
  <1> HIDE DEF end
  <1>6. EstateRun(g, l)
    <2> SUFFICES ASSUME NEW k \in 1..n PROVE g[k] = ScanEstateFile(g[k-1], l[k])
      BY DEF EstateRun, n
    <2>1. k \in 1..n+1
      BY <1>1
    <2> QED BY <1>3, <1>5, <2>1
  <1>7. end = ScanEstateFile(g[n], nl)
    <2>1. n + 1 \in 1..n+1 /\ (n+1) - 1 = n
      BY <1>1
    <2> QED BY <1>3, <1>5, <2>1
  <1>8. g[0] = ReaderAt(d, es, <<>>, 0, id, type, street, surface, {}, fault)
    BY <1>2, <1>5
  <1>9. ScanEstateFile(g[n], nl) =
          ReaderAt(d, Append(es, EstateOf(l)), <<>>, 0, AtoI(w[1]), w[2], w[3], AtoI(w[4]),
                   {}, fault)
    BY <1>2, <1>6, <1>8, RegularEstateRun DEF n, nl
  <1>10. Resting(end, d, Append(es, EstateOf(l)))
    BY <1>2, <1>7, <1>9 DEF Resting
  <1> QED BY <1>10 DEF end, text, nl

-----------------------------------------------------------------------------
(* The files of a dataset: a servant waits with nothing, then reads the    *)
(* file of a date.                                                         *)
EstatesOf(lines) == [k \in DOMAIN lines |-> EstateOf(lines[k])]

AllEstates == IsDate(fileName) /\ \A l \in ToSet(estateFile) : RegularEstate(l)

DatasetRead ==
  /\ fileName = <<>> => servant = NoEstates /\ estateFile = <<>>
  /\ AllEstates => Resting(servant, GetDate(fileName), EstatesOf(estateFile))

(* A servant begins with nothing.                                          *)
LEMMA DatasetInit == Init => DatasetRead
  BY DEF Init, DatasetRead, AllEstates, IsDate, IsValidDate

(* One line more.                                                          *)
LEMMA EstateLineAdded ==
  ASSUME NEW file \in Seq(EstateLines), NEW l \in EstateLines
  PROVE  /\ ToSet(Append(file, l)) = ToSet(file) \cup {l}
         /\ EstatesOf(Append(file, l)) = Append(EstatesOf(file), EstateOf(l))
  <1> DEFINE n == Len(file)
             new == Append(file, l)
             es == EstatesOf(file)
             v == EstateOf(l)
  <1>1. /\ n \in Nat /\ DOMAIN file = 1..n /\ DOMAIN new = 1..n+1 /\ new[n+1] = l
        /\ \A k \in 1..n : new[k] = file[k]
    BY AppendProperties
  <1> HIDE DEF new
  <1>2. n + 1 \notin 1..n /\ 1..n+1 = (1..n) \cup {n+1}
    BY <1>1
  <1>3. ToSet(new) = ToSet(file) \cup {l}
    <2> HIDE DEF n
    <2> QED BY <1>1, <1>2 DEF ToSet
  <1>4. es = [k \in 1..n |-> EstateOf(file[k])]
    BY <1>1 DEF EstatesOf
  <1>5. EstatesOf(new) = [k \in 1..n+1 |-> EstateOf(new[k])]
    BY <1>1 DEF EstatesOf
  <1> HIDE DEF n
  <1>6. es \in Seq({EstateOf(file[k]) : k \in 1..n}) /\ Len(es) = n /\ \A k \in 1..n : es[k] = EstateOf(file[k])
    <2> DEFINE S == {EstateOf(file[k]) : k \in 1..n}
    <2>1. es \in [1..n -> S]
      BY <1>4
    <2> HIDE DEF es, S
    <2>2. es \in Seq(S) /\ Len(es) = n
      BY <1>1, <2>1
    <2> QED BY <1>4, <2>2 DEF S
  <1> HIDE DEF es, v
  <1>7. Append(es, v) = [k \in 1..n+1 |-> IF k = n+1 THEN v ELSE es[k]]
    <2> DEFINE S == {EstateOf(file[k]) : k \in 1..n} \cup {v}
               a == Append(es, v)
    <2>1. es \in Seq(S) /\ v \in S
      <3> DEFINE T == {EstateOf(file[k]) : k \in 1..n}
      <3>1. es \in Seq(T) /\ T \subseteq S
        BY <1>6
      <3> HIDE DEF T, S
      <3>2. es \in Seq(S)
        BY <3>1, SeqMonotonic
      <3> QED BY <3>2 DEF S
    <2> HIDE DEF S
    <2>2. /\ a \in Seq(S) /\ Len(a) = n + 1 /\ a[n+1] = v
          /\ \A k \in 1..n : a[k] = es[k]
      BY <1>6, <2>1, AppendProperties
    <2> HIDE DEF a
    <2>3. a = [k \in 1..n+1 |-> a[k]]
      BY <2>2
    <2>4. \A k \in 1..n+1 : a[k] = IF k = n+1 THEN v ELSE es[k]
      BY <1>1, <1>2, <2>2
    <2>5. a = [k \in 1..n+1 |-> IF k = n+1 THEN v ELSE es[k]]
      BY <2>3, <2>4
    <2> QED BY <2>5 DEF a
  <1>8. \A k \in 1..n+1 : EstateOf(new[k]) = IF k = n+1 THEN v ELSE es[k]
    BY <1>1, <1>2, <1>6 DEF v
  <1>9. EstatesOf(new) = Append(es, v)
    BY <1>5, <1>7, <1>8
  <1> QED BY <1>3, <1>9 DEF new, es, v

(* Every step keeps it: a regular line adds its estate behind the others.  *)
LEMMA DatasetNext == IInv /\ DatasetRead /\ [Next]_vars => DatasetRead'
  <1> SUFFICES ASSUME IInv, DatasetRead, [Next]_vars PROVE DatasetRead'
    OBVIOUS
  <1>1. ASSUME NEW l \in RequestLines, ReadRequestLine(l) \/ ReadLastLine(l)
        PROVE  DatasetRead'
    BY <1>1 DEF ReadRequestLine, ReadLastLine, servantVars, DatasetRead, AllEstates
  <1>2. ASSUME NEW name \in FileNames, OpenFile(name) PROVE DatasetRead'
    <2>1. /\ fileName = <<>> /\ fileName' = name /\ name # <<>> /\ estateFile' = estateFile
          /\ servant = NoEstates /\ estateFile = <<>>
      BY <1>2 DEF OpenFile, IsValidDate, DatasetRead
    <2>2. ASSUME IsDate(name)
          PROVE  Resting(servant', GetDate(name), EstatesOf(estateFile))
      <3> DEFINE d == GetDate(name)
                 none == <<>>
                 id == -1
                 zero == 0
                 false == FALSE
                 empty == {}
                 date == NoDate
      <3>1. servant' = [servant EXCEPT !.date = d]
        BY <1>2, <2>2 DEF OpenFile, IsDate
      <3>2. servant = ReaderAt(date, none, none, zero, id, none, none, zero, empty, false)
        BY <2>1 DEF NoEstates, ReaderAt
      <3>3. EstatesOf(estateFile) = none
        BY <2>1 DEF EstatesOf
      <3>4. ~false /\ none = <<>> /\ zero = 0 /\ empty = {}
        OBVIOUS
      <3> HIDE DEF d, none, id, zero, false, empty, date
      <3>5. [servant EXCEPT !.date = d] = ReaderAt(d, none, none, zero, id, none, none, zero, empty, false)
        BY ONLY <3>2 DEF ReaderAt
      <3>6. Resting(servant', d, none)
        BY <3>1, <3>4, <3>5 DEF Resting
      <3> QED BY <3>3, <3>6 DEF d
    <2> QED BY <2>1, <2>2 DEF DatasetRead, AllEstates
  <1>3. ASSUME NEW l \in EstateLines, ReadEstateLine(l) PROVE DatasetRead'
    <2>1. /\ fileName # <<>> /\ fileName' = fileName /\ estateFile' = Append(estateFile, l)
          /\ servant' = FoldLeft(ScanEstateFile, servant, Append(l, "\n"))
      BY <1>3 DEF ReadEstateLine
    <2>2. /\ ToSet(estateFile') = ToSet(estateFile) \cup {l}
          /\ EstatesOf(estateFile') = Append(EstatesOf(estateFile), EstateOf(l))
      BY <2>1, EstateLineAdded DEF IInv
    <2>3. ASSUME AllEstates'
          PROVE  Resting(servant', GetDate(fileName), EstatesOf(estateFile'))
      <3>1. AllEstates /\ RegularEstate(l)
        BY <2>1, <2>2, <2>3 DEF AllEstates
      <3>2. Resting(servant, GetDate(fileName), EstatesOf(estateFile))
        BY <3>1 DEF DatasetRead
      <3>3. PICK e : servant \in Readers(e)
        BY DEF IInv
      <3>4. l \in Seq(Token \ {"\n"})
        BY ScannerAssumption
      <3>5. Resting(FoldLeft(ScanEstateFile, servant, Append(l, "\n")), GetDate(fileName),
                    Append(EstatesOf(estateFile), EstateOf(l)))
        BY <3>1, <3>2, <3>3, <3>4, EstateLineRead
      <3> QED BY <2>1, <2>2, <3>5
    <2> QED BY <2>1, <2>3 DEF DatasetRead
  <1>4. CASE UNCHANGED vars
    BY <1>4 DEF vars, servantVars, DatasetRead, AllEstates
  <1> QED BY <1>1, <1>2, <1>3, <1>4 DEF Next

(* Both files are read as they are meant.                                  *)
THEOREM FilesAreRead == Spec => []FilesRead
  <1>1. Init => RequestsRead
    <2> SUFFICES ASSUME Init PROVE RequestsRead
      OBVIOUS
    <2>1. requestFile = <<>> /\ ~client.overflow /\ client.scan = Fresh /\ client.requestSize = 0
      BY DEF Init
    <2>2. Lines = {}
      BY <2>1 DEF Lines
    <2>3. Cardinality(Lines) = 0
      BY <2>2, FS_EmptySet
    <2> QED BY <2>1, <2>2, <2>3 DEF RequestsRead
  <1>2. RequestsRead /\ DatasetRead => FilesRead
    <2> SUFFICES ASSUME RequestsRead, DatasetRead PROVE FilesRead
      OBVIOUS
    <2>1. AllRegular => /\ client.requestSize = Cardinality(Lines)
                        /\ \A j \in Lines : Placed(j)
      BY DEF RequestsRead
    <2>2. AllEstates => /\ ~servant.fault /\ servant.date = GetDate(fileName)
                        /\ servant.estates = EstatesOf(estateFile)
      BY RestingReader DEF DatasetRead
    <2> QED BY <2>1, <2>2 DEF FilesRead, Lines, AllRegular, Placed, AllEstates, EstatesOf
  <1> QED BY <1>1, <1>2, IInvInit, IInvNext, RequestsReadNext, DatasetInit, DatasetNext, PTL DEF Spec
=============================================================================
