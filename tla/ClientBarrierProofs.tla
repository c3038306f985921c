------------------------- MODULE ClientBarrierProofs -------------------------
(***************************************************************************)
(* Safety of the client for every number of requests, of spurious wake-ups *)
(* and of SIGINTs.                                                         *)
(*                                                                         *)
(* That `arrived' never exceeds the number of threads rests on what it     *)
(* counts (ArrivedCounts), and that on each thread being created once      *)
(* (MainInv).  MainInv also carries what main has learned by joining.      *)
(***************************************************************************)
EXTENDS ClientBarrier, FiniteSetTheorems, TLAPS

(* What main knows of the threads at each of its program points.           *)
MainInv ==
  /\ mainPc = "create" => \A t \in Threads : t >= i => tpc[t] = "none"
  /\ mainPc = "join" => \A t \in Threads : t < i => tpc[t] = "done"
  /\ mainPc \in {"clear", "exited"} => \A t \in Threads : tpc[t] = "done"
  /\ ~requestsLive => mainPc = "exited"

ResultInv == \A t \in Threads : tpc[t] = "done" => result[t] # "none"

(* `arrived' is the number of threads that have come to the barrier.       *)
Arrived == {t \in Threads : tpc[t] \notin {"none", "lock", "arrive"}}
ArrivedCounts == arrived = Cardinality(Arrived)

Woken == Past \cup {t \in Threads : tpc[t] \in {"rewait", "unlock"}}

IInv == TypeOK /\ ArrivedCounts /\ EarlyOnlyBySpuriousWake /\ MainInv /\ ResultInv

-----------------------------------------------------------------------------
LEMMA FiniteThreads ==
  ASSUME NEW S, S \subseteq Threads
  PROVE  IsFiniteSet(S) /\ Cardinality(S) \in 0..requestSize
  <1>1. IsFiniteSet(Threads) /\ Cardinality(Threads) = requestSize
    BY FS_Interval, ClientAssumption DEF Threads
  <1>2. IsFiniteSet(S) /\ Cardinality(S) <= requestSize
    BY <1>1, FS_Subset
  <1> QED BY <1>2, FS_CardinalityType, ClientAssumption

LEMMA AddThread ==
  ASSUME NEW S, S \subseteq Threads, NEW t \in Threads, t \notin S
  PROVE  /\ Cardinality(S \cup {t}) = Cardinality(S) + 1
         /\ Cardinality(S) + 1 <= requestSize
  <1>1. IsFiniteSet(S)
    BY FiniteThreads
  <1>2. Cardinality(S \cup {t}) = Cardinality(S) + 1
    BY <1>1, FS_AddElement
  <1>3. Cardinality(S \cup {t}) \in 0..requestSize
    BY FiniteThreads
  <1> QED BY <1>2, <1>3, ClientAssumption

(* The case split shared by the induction steps.                           *)
LEMMA NextCases ==
  ASSUME [Next]_vars
  PROVE  \/ CreateThread \/ AllCreated \/ JoinThread \/ AllJoined \/ ClearRequests
         \/ \E t \in Threads :
              \/ Lock(t) \/ Arrive(t) \/ Unlock(t) \/ SocketFails(t) \/ Connect(t)
              \/ Send(t) \/ ReadAnswer(t) \/ ReadFails(t) \/ SpuriousWake(t)
              \/ Interrupt(t)
         \/ UNCHANGED vars
  BY DEF Next, Main, RequestHandlerThread

LEMMA InitIInv == Init => IInv
  <1> SUFFICES ASSUME Init PROVE IInv
    OBVIOUS
  <1> USE ClientAssumption DEF Init, Threads
  <1>1. TypeOK
    BY DEF TypeOK, ThreadPcs, AtBarrier
  <1>2. Arrived = {} /\ Woken = {}
    BY DEF Arrived, Woken, Past, AtBarrier
  <1>3. Cardinality(Arrived) = 0 /\ Cardinality(Woken) = 0
    BY <1>2, FS_EmptySet
  <1>4. ArrivedCounts /\ EarlyOnlyBySpuriousWake
    BY <1>3 DEF ArrivedCounts, EarlyOnlyBySpuriousWake, Arrived, Woken
  <1>5. MainInv /\ ResultInv
    BY DEF MainInv, ResultInv
  <1> QED BY <1>1, <1>4, <1>5 DEF IInv

-----------------------------------------------------------------------------
LEMMA TypeStep ==
  ASSUME TypeOK, ArrivedCounts, MainInv, [Next]_vars
  PROVE  TypeOK'
  <1> USE ClientAssumption DEF TypeOK, Threads, ThreadPcs, AtBarrier, mainVars,
          barrierVars, boundVars
  <1>1. CASE CreateThread
    BY <1>1 DEF CreateThread, MainInv
  <1>2. ASSUME NEW t \in Threads, Lock(t) \/ Unlock(t) \/ Send(t) \/ SpuriousWake(t)
        PROVE  TypeOK'
    <2>1. CASE Lock(t)
      BY <2>1 DEF Lock, ThreadGoes
    <2>2. CASE Unlock(t)
      BY <2>2 DEF Unlock, ThreadGoes
    <2>3. CASE Send(t)
      BY <2>3 DEF Send, ThreadGoes
    <2>4. CASE SpuriousWake(t)
      BY <2>4 DEF SpuriousWake, ThreadGoes
    <2> QED BY <1>2, <2>1, <2>2, <2>3, <2>4
  <1>3. ASSUME NEW t \in Threads, Connect(t) \/ ReadAnswer(t)
        PROVE  TypeOK'
    <2>1. CASE Connect(t)
      BY <2>1 DEF Connect, ThreadGoes
    <2>2. CASE ReadAnswer(t)
      BY <2>2 DEF ReadAnswer, ThreadGoes
    <2> QED BY <1>3, <2>1, <2>2
  <1>4. ASSUME NEW t \in Threads, SocketFails(t) \/ ReadFails(t) \/ Interrupt(t)
        PROVE  TypeOK'
    BY <1>4 DEF SocketFails, ReadFails, Interrupt
  <1>5. ASSUME NEW t \in Threads, Arrive(t)
        PROVE  TypeOK'
    <2>1. arrived < requestSize
      <3>1. Arrived \subseteq Threads /\ t \notin Arrived
        BY <1>5 DEF Arrived, Arrive, ArriveAndWake
      <3>2. Cardinality(Arrived) + 1 <= requestSize
        BY <3>1, AddThread
      <3> QED BY <3>2 DEF ArrivedCounts, Arrived
    <2> QED BY <1>5, <2>1 DEF Arrive, ArriveAndWake, Waiting
  <1>6. CASE UNCHANGED vars
    BY <1>6 DEF vars
  <1>7. CASE AllCreated \/ JoinThread
    BY <1>7 DEF AllCreated, JoinThread
  <1>8. CASE AllJoined \/ ClearRequests
    BY <1>8 DEF AllJoined, ClearRequests
  <1> QED BY <1>1, <1>2, <1>3, <1>4, <1>5, <1>6, <1>7, <1>8, NextCases

-----------------------------------------------------------------------------
(* Only Arrive adds to the threads that have arrived; only Arrive and      *)
(* SpuriousWake let a thread go on.                                        *)
LEMMA SetsStep ==
  ASSUME TypeOK, MainInv, [Next]_vars
  PROVE  \/ arrived' = arrived /\ Arrived' = Arrived /\ Woken' = Woken
            /\ spurious' = spurious
         \/ \E t \in Threads :
              /\ arrived' = arrived + 1 /\ t \notin Arrived /\ Arrived' = Arrived \cup {t}
              /\ Woken' = Woken \/ arrived' >= requestSize
              /\ spurious' = spurious
         \/ \E t \in Threads :
              /\ arrived' = arrived /\ Arrived' = Arrived
              /\ t \notin Woken /\ Woken' = Woken \cup {t}
              /\ spurious' = spurious + 1
  <1> USE ClientAssumption DEF TypeOK, Threads, ThreadPcs, AtBarrier, mainVars,
          barrierVars, boundVars, Arrived, Woken, Past
  <1>1. CASE CreateThread
    BY <1>1 DEF CreateThread, MainInv
  <1>2. CASE AllCreated \/ JoinThread \/ AllJoined \/ ClearRequests \/ UNCHANGED vars
    BY <1>2 DEF AllCreated, JoinThread, AllJoined, ClearRequests, vars
  <1>3. ASSUME NEW t \in Threads, Lock(t) \/ Unlock(t) \/ Connect(t) \/ Send(t)
        PROVE  arrived' = arrived /\ Arrived' = Arrived /\ Woken' = Woken
                 /\ spurious' = spurious
    BY <1>3 DEF Lock, Unlock, Connect, Send, ThreadGoes
  <1>4. ASSUME NEW t \in Threads,
               SocketFails(t) \/ ReadAnswer(t) \/ ReadFails(t) \/ Interrupt(t)
        PROVE  arrived' = arrived /\ Arrived' = Arrived /\ Woken' = Woken
                 /\ spurious' = spurious
    BY <1>4 DEF SocketFails, ReadAnswer, ReadFails, Interrupt, ThreadGoes
  <1>5. ASSUME NEW t \in Threads, Arrive(t)
        PROVE  /\ arrived' = arrived + 1 /\ t \notin Arrived /\ Arrived' = Arrived \cup {t}
               /\ Woken' = Woken \/ arrived' >= requestSize
               /\ spurious' = spurious
    BY <1>5 DEF Arrive, ArriveAndWake, Waiting
  <1>6. ASSUME NEW t \in Threads, SpuriousWake(t)
        PROVE  /\ arrived' = arrived /\ Arrived' = Arrived
               /\ t \notin Woken /\ Woken' = Woken \cup {t}
               /\ spurious' = spurious + 1
    BY <1>6 DEF SpuriousWake, ThreadGoes
  <1> QED BY <1>1, <1>2, <1>3, <1>4, <1>5, <1>6, NextCases

LEMMA CountStep ==
  ASSUME TypeOK, ArrivedCounts, EarlyOnlyBySpuriousWake, MainInv, [Next]_vars, TypeOK'
  PROVE  ArrivedCounts' /\ EarlyOnlyBySpuriousWake'
  <1>1. arrived = Cardinality(Arrived)
    BY DEF ArrivedCounts, Arrived
  <1>2. arrived < requestSize => Cardinality(Woken) <= spurious
    BY DEF EarlyOnlyBySpuriousWake, Woken
  <1>3. Arrived \subseteq Threads /\ Woken \subseteq Threads
    BY DEF Arrived, Woken, Past
  <1>4. SUFFICES /\ arrived' = Cardinality(Arrived')
                 /\ arrived' < requestSize => Cardinality(Woken') <= spurious'
    BY DEF ArrivedCounts, Arrived, EarlyOnlyBySpuriousWake, Woken
  <1>5. CASE arrived' = arrived /\ Arrived' = Arrived /\ Woken' = Woken
               /\ spurious' = spurious
    BY <1>1, <1>2, <1>5
  <1>6. ASSUME NEW t \in Threads,
               arrived' = arrived + 1, t \notin Arrived, Arrived' = Arrived \cup {t},
               Woken' = Woken \/ arrived' >= requestSize, spurious' = spurious
        PROVE  /\ arrived' = Cardinality(Arrived')
               /\ arrived' < requestSize => Cardinality(Woken') <= spurious'
    <2>1. arrived' = Cardinality(Arrived')
      BY <1>1, <1>3, <1>6, AddThread
    <2>2. ASSUME arrived' < requestSize PROVE Woken' = Woken /\ arrived < requestSize
      BY <1>6, <2>2, ClientAssumption DEF TypeOK
    <2> QED BY <1>2, <1>6, <2>1, <2>2
  <1>7. ASSUME NEW t \in Threads,
               arrived' = arrived, Arrived' = Arrived, t \notin Woken,
               Woken' = Woken \cup {t}, spurious' = spurious + 1
        PROVE  /\ arrived' = Cardinality(Arrived')
               /\ arrived' < requestSize => Cardinality(Woken') <= spurious'
    <2>1. Cardinality(Woken') = Cardinality(Woken) + 1
      BY <1>3, <1>7, AddThread
    <2>2. Cardinality(Woken) \in Nat /\ spurious \in Nat
      BY <1>3, FiniteThreads, ClientAssumption DEF TypeOK
    <2> QED BY <1>1, <1>2, <1>7, <2>1, <2>2
  <1> QED BY <1>5, <1>6, <1>7, SetsStep

LEMMA MainStep ==
  ASSUME TypeOK, MainInv, ResultInv, [Next]_vars
  PROVE  MainInv' /\ ResultInv'
  <1> USE ClientAssumption DEF TypeOK, Threads, ThreadPcs, AtBarrier, mainVars,
          barrierVars, boundVars, MainInv, ResultInv
  <1>1. CASE CreateThread \/ AllCreated
    BY <1>1 DEF CreateThread, AllCreated
  <1>2. CASE JoinThread \/ AllJoined \/ ClearRequests \/ UNCHANGED vars
    BY <1>2 DEF JoinThread, AllJoined, ClearRequests, vars, Running
  <1>3. ASSUME NEW t \in Threads, Lock(t) \/ Unlock(t) \/ Send(t) \/ SpuriousWake(t)
        PROVE  MainInv' /\ ResultInv'
    BY <1>3 DEF Lock, Unlock, Send, SpuriousWake, ThreadGoes
  <1>4. ASSUME NEW t \in Threads, Connect(t) \/ ReadAnswer(t)
        PROVE  MainInv' /\ ResultInv'
    <2>1. CASE Connect(t)
      BY <2>1 DEF Connect, ThreadGoes
    <2>2. CASE ReadAnswer(t)
      BY <2>2 DEF ReadAnswer, ThreadGoes
    <2> QED BY <1>4, <2>1, <2>2
  <1>5. ASSUME NEW t \in Threads, SocketFails(t) \/ ReadFails(t) \/ Interrupt(t)
        PROVE  MainInv' /\ ResultInv'
    BY <1>5 DEF SocketFails, ReadFails, Interrupt, Running
  <1>6. ASSUME NEW t \in Threads, Arrive(t)
        PROVE  MainInv' /\ ResultInv'
    BY <1>6 DEF Arrive, ArriveAndWake, Waiting
  <1> QED BY <1>1, <1>2, <1>3, <1>4, <1>5, <1>6, NextCases

LEMMA NextIInv == IInv /\ [Next]_vars => IInv'
  BY TypeStep, CountStep, MainStep DEF IInv

LEMMA Invariance == Spec => []IInv
  BY InitIInv, NextIInv, PTL DEF Spec

-----------------------------------------------------------------------------
(* Every reachable state is well typed, `arrived' stays within the number  *)
(* of threads, and thread_m excludes threads from its sections.            *)
THEOREM TypeCorrect == Spec => []TypeOK
  <1>1. IInv => TypeOK
    BY DEF IInv
  <1> QED BY <1>1, Invariance, PTL

(* Before all have arrived no more threads go on than there were spurious  *)
(* wake-ups.                                                               *)
THEOREM EarlyPassesAreSpurious == Spec => []EarlyOnlyBySpuriousWake
  <1>1. IInv => EarlyOnlyBySpuriousWake
    BY DEF IInv
  <1> QED BY <1>1, Invariance, PTL

(* The requests are freed, and the client exits with success, only when    *)
(* every thread has ended with a result.                                   *)
THEOREM RequestsLast == Spec => []RequestsOutliveThreads
  <1>1. IInv => RequestsOutliveThreads
    BY DEF IInv, MainInv, ResultInv, RequestsOutliveThreads
  <1> QED BY <1>1, Invariance, PTL

(* What the README promises holds where no wake-up is spurious: no thread  *)
(* connects before all have arrived at the barrier.                        *)
THEOREM TogetherUnlessSpurious ==
  ASSUME MaxSpurious = 0
  PROVE  Spec => []SendTogether
  <1>1. IInv => SendTogether
    <2> SUFFICES ASSUME IInv, Past # {} PROVE arrived = requestSize
      BY DEF SendTogether
    <2>1. CASE arrived < requestSize
      <3>1. Woken \subseteq Threads /\ Woken # {}
        BY DEF Woken, Past
      <3>2. Cardinality(Woken) <= spurious /\ spurious = 0
        BY <2>1 DEF IInv, EarlyOnlyBySpuriousWake, Woken, TypeOK
      <3>3. IsFiniteSet(Woken) /\ Cardinality(Woken) \in 0..requestSize
        BY <3>1, FiniteThreads
      <3>4. Cardinality(Woken) = 0
        BY <3>2, <3>3
      <3> QED BY <3>1, <3>3, <3>4, FS_EmptySet
    <2>2. CASE ~(arrived < requestSize)
      BY <2>2, ClientAssumption DEF IInv, TypeOK
    <2> QED BY <2>1, <2>2
  <1> QED BY <1>1, Invariance, PTL
=============================================================================
