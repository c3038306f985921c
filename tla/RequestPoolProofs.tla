------------------------- MODULE RequestPoolProofs -------------------------
(***************************************************************************)
(* Safety of the server's request pool, for every set of peers, every      *)
(* pool of workers, every descriptor limit and any number of spurious      *)
(* wake-ups.                                                               *)
(*                                                                         *)
(* None of the invariants of RequestPool is inductive by itself: that the  *)
(* counter stays in step with the queue rests on mutual exclusion; that a  *)
(* dequeued request is not NULL rests on the counter; that no connection   *)
(* is handled twice rests on both.  IInv is their conjunction with what    *)
(* each program point knows.                                               *)
(***************************************************************************)
EXTENDS RequestPool, TLAPS

(* What each program point under req_m knows of the counter and the list.  *)
CountInv ==
  mainPc # "exited" =>
    /\ req_m = Nobody => requestCount = Len(requestQueue)
    /\ mainPc \in {"enqueue", "signal", "unlock", "flag", "sigunlock"}
         => requestCount = Len(requestQueue)
    /\ mainPc = "count" => Len(requestQueue) = requestCount + 1
    /\ \A w \in Workers :
         /\ wpc[w] \in {"top", "woken", "dequeue", "release", "grow"}
              => requestCount = Len(requestQueue)
         /\ wpc[w] = "uncount" => requestCount = Len(requestQueue) + 1
         /\ wpc[w] = "dequeue" => requestCount > 0

(* A worker owns a connection exactly between reqDequeue and free(r); the  *)
(* main thread between accept and reqEnqueue.                              *)
OwningPcs == {"uncount", "release"} \cup ServingPcs

HandInv ==
  /\ \A w \in Workers : r[w] # Nobody <=> wpc[w] \in OwningPcs
  /\ mainPc \in {"lock", "enqueue"} => conn_fd # Nobody
  /\ mainPc \in {"accept", "count", "signal", "unlock"} => conn_fd = Nobody

(* A peer that has not been accepted is nowhere in the process.            *)
PendingInv ==
  pending \cap (Queued \cup InHand \cup served \cup {conn_fd}) = {}

(* A queued request has an awake worker, a signal about to be sent, or the *)
(* main thread has been interrupted inside its own section.                *)
WakeInv ==
  /\ requestCount > 0 =>
       \/ \E w \in Workers : wpc[w] # "wait"
       \/ mainPc = "signal"
       \/ mainPc \in {"report", "free", "siglock", "failed"} /\ req_m = Main
  /\ sigintFlag > 0 => Waiting = {}

(* After the flag is up the main thread never queues again and no worker   *)
(* stands before reqDequeue; from there on the handler knows it is up.     *)
FlagInv ==
  /\ sigintFlag > 0 =>
       /\ mainPc \in {"sigunlock", "join", "drain", "exited", "failed"}
       /\ \A w \in Workers : wpc[w] # "dequeue"
  /\ mainPc \in {"sigunlock", "join", "drain", "exited"} => sigintFlag > 0

IInv ==
  /\ TypeOK /\ MutexOK /\ CountInv /\ HandInv
  /\ ExactlyOnce /\ PendingInv /\ WakeInv /\ FlagInv /\ JoinBeforeFree

-----------------------------------------------------------------------------
(* The case split shared by every induction step below.                    *)
LEMMA NextCases ==
  ASSUME [Next]_vars
  PROVE  \/ \E c \in Conns : Accept(c)
         \/ AcceptFails \/ MainLock \/ Enqueue \/ CountRequest \/ Signal
         \/ MainUnlock \/ Interrupt \/ Report \/ FreeServants \/ SigLock
         \/ RaiseFlag \/ SigUnlock \/ JoinWorkers \/ Drain
         \/ \E w \in Workers :
              \/ WorkerLock(w) \/ Quit(w) \/ CondWait(w) \/ SpuriousWake(w)
              \/ GoRound(w) \/ FindRequest(w) \/ Dequeue(w) \/ Uncount(w)
              \/ Release(w) \/ ReadKind(w) \/ ReadFails(w) \/ Register(w)
              \/ GrowLock(w) \/ GrowUnlock(w) \/ CountHandled(w)
              \/ Answer(w) \/ AskFails(w) \/ Close(w)
         \/ UNCHANGED vars
  BY DEF Next, AcceptLoop, SigintHandler, RequestHandlerThread

LEMMA InitIInv == Init => IInv
  <1> SUFFICES ASSUME Init PROVE IInv
    OBVIOUS
  <1> USE PoolAssumption DEF Init, Conns, Threads
  <1>1. TypeOK
    BY DEF TypeOK, MainPcs, LoopPcs, WorkerPcs
  <1>2. MutexOK /\ CountInv /\ FlagInv /\ JoinBeforeFree
    BY DEF MutexOK, MainLockedPcs, LockedPcs, CountInv, FlagInv, JoinBeforeFree
  <1>3. HandInv
    BY DEF HandInv, OwningPcs, ServingPcs
  <1>4. Queued = {} /\ InHand = {}
    BY DEF Queued, InHand
  <1>5. ExactlyOnce /\ PendingInv
    BY <1>4 DEF ExactlyOnce, PendingInv
  <1>6. WakeInv
    BY DEF WakeInv, Waiting
  <1>7. QED
    BY <1>1, <1>2, <1>3, <1>5, <1>6 DEF IInv

-----------------------------------------------------------------------------
(* What the two operations on the linked list do to the connections in it. *)
LEMMA AppendQueued ==
  ASSUME NEW S, NEW q \in Seq(S), NEW c \in S
  PROVE  /\ Append(q, c) \in Seq(S)
         /\ Len(Append(q, c)) = Len(q) + 1
         /\ \A i \in 1..Len(q) : Append(q, c)[i] = q[i]
         /\ Append(q, c)[Len(q) + 1] = c
  OBVIOUS

LEMMA TailQueued ==
  ASSUME NEW S, NEW q \in Seq(S), q # <<>>
  PROVE  /\ Head(q) = q[1] /\ Head(q) \in S
         /\ Tail(q) \in Seq(S)
         /\ Len(Tail(q)) = Len(q) - 1
         /\ \A i \in 1..Len(Tail(q)) : Tail(q)[i] = q[i + 1]
  OBVIOUS

-----------------------------------------------------------------------------
LEMMA TypeStep ==
  ASSUME TypeOK, CountInv, HandInv, [Next]_vars
  PROVE  TypeOK'
  <1> USE PoolAssumption DEF TypeOK, Conns, Threads, MainPcs, LoopPcs, HandlerPcs,
          WorkerPcs, LockedPcs, ServingPcs, mainVars, queueVars, workVars, fdVars
  <1>1. CASE \E c \in Conns : Accept(c)
    BY <1>1 DEF Accept, MainGoes
  <1>2. CASE AcceptFails \/ MainLock \/ CountRequest \/ MainUnlock \/ Interrupt
    BY <1>2 DEF AcceptFails, MainLock, CountRequest, MainUnlock, Interrupt,
                MainGoes
  <1>3. CASE Enqueue
    BY <1>3, AppendQueued DEF Enqueue, MainGoes, HandInv
  <1>4. CASE Signal
    BY <1>4 DEF Signal, Waiting, MainGoes
  <1>5. CASE Report \/ FreeServants \/ SigLock \/ SigUnlock \/ JoinWorkers
    BY <1>5 DEF Report, FreeServants, SigLock, SigUnlock, JoinWorkers, MainGoes
  <1>6. CASE RaiseFlag
    BY <1>6 DEF RaiseFlag, Waiting, MainGoes
  <1>7. CASE Drain
    BY <1>7 DEF Drain, MainGoes
  <1>8. ASSUME NEW w \in Workers,
               WorkerLock(w) \/ Quit(w) \/ CondWait(w) \/ SpuriousWake(w)
                 \/ GoRound(w) \/ FindRequest(w)
        PROVE  TypeOK'
    BY <1>8 DEF WorkerLock, Quit, CondWait, SpuriousWake, GoRound, FindRequest,
                WorkerGoes
  <1>9. ASSUME NEW w \in Workers, Dequeue(w)
        PROVE  TypeOK'
    BY <1>9, TailQueued DEF Dequeue, WorkerGoes
  <1>10. ASSUME NEW w \in Workers, Uncount(w)
         PROVE  TypeOK'
    BY <1>10 DEF Uncount, WorkerGoes, CountInv, Running
  <1>11. ASSUME NEW w \in Workers,
                Release(w) \/ ReadKind(w) \/ ReadFails(w) \/ Register(w)
                  \/ GrowLock(w) \/ GrowUnlock(w)
         PROVE  TypeOK'
    BY <1>11 DEF Release, ReadKind, ReadFails, Register, GrowLock, GrowUnlock,
                 WorkerGoes
  <1>12. ASSUME NEW w \in Workers, CountHandled(w) \/ Answer(w) \/ AskFails(w)
                                     \/ Close(w)
         PROVE  TypeOK'
    <2>1. r[w] \in Conns
      BY <1>12 DEF CountHandled, Answer, AskFails, Close, WorkerGoes, HandInv,
                   OwningPcs
    <2>2. CASE CountHandled(w)
      BY <2>2 DEF CountHandled, WorkerGoes
    <2>3. CASE Answer(w) \/ AskFails(w)
      BY <2>1, <2>3 DEF Answer, AskFails, WorkerGoes
    <2>4. CASE Close(w)
      BY <2>1, <2>4 DEF Close, WorkerGoes
    <2>5. QED
      BY <1>12, <2>2, <2>3, <2>4
  <1>13. CASE UNCHANGED vars
    BY <1>13 DEF vars
  <1>14. QED
    BY NextCases, <1>1, <1>2, <1>3, <1>4, <1>5, <1>6, <1>7, <1>8, <1>9, <1>10,
       <1>11, <1>12, <1>13

LEMMA MutexStep ==
  ASSUME TypeOK, MutexOK, [Next]_vars
  PROVE  MutexOK'
  <1> USE PoolAssumption DEF TypeOK, MutexOK, MainLockedPcs, LockedPcs, Threads,
          mainVars, queueVars, workVars, fdVars
  <1>1. CASE \E c \in Conns : Accept(c)
    BY <1>1 DEF Accept, MainGoes
  <1>2. CASE AcceptFails \/ MainLock \/ Enqueue \/ CountRequest \/ MainUnlock
               \/ Interrupt
    BY <1>2 DEF AcceptFails, MainLock, Enqueue, CountRequest, MainUnlock,
                Interrupt, MainGoes
  <1>3. CASE Signal
    BY <1>3 DEF Signal, Waiting, MainGoes
  <1>4. CASE Report \/ FreeServants \/ SigLock \/ SigUnlock \/ JoinWorkers
               \/ Drain
    BY <1>4 DEF Report, FreeServants, SigLock, SigUnlock, JoinWorkers, Drain,
                MainGoes
  <1>5. CASE RaiseFlag
    BY <1>5 DEF RaiseFlag, Waiting, MainGoes
  <1>6. ASSUME NEW w \in Workers,
               WorkerLock(w) \/ Quit(w) \/ CondWait(w) \/ SpuriousWake(w)
                 \/ GoRound(w) \/ FindRequest(w)
        PROVE  MutexOK'
    BY <1>6 DEF WorkerLock, Quit, CondWait, SpuriousWake, GoRound, FindRequest,
                WorkerGoes
  <1>7. ASSUME NEW w \in Workers, Dequeue(w) \/ Uncount(w) \/ Release(w)
        PROVE  MutexOK'
    BY <1>7 DEF Dequeue, Uncount, Release, WorkerGoes
  <1>8. ASSUME NEW w \in Workers,
               ReadKind(w) \/ ReadFails(w) \/ Register(w) \/ GrowLock(w)
                 \/ GrowUnlock(w) \/ CountHandled(w)
                 \/ Answer(w) \/ AskFails(w) \/ Close(w)
        PROVE  MutexOK'
    BY <1>8 DEF ReadKind, ReadFails, Register, GrowLock, GrowUnlock,
                CountHandled, Answer, AskFails, Close, WorkerGoes
  <1>9. CASE UNCHANGED vars
    BY <1>9 DEF vars
  <1>10. QED
    BY NextCases, <1>1, <1>2, <1>3, <1>4, <1>5, <1>6, <1>7, <1>8, <1>9

LEMMA CountStep ==
  ASSUME TypeOK, MutexOK, CountInv, [Next]_vars
  PROVE  CountInv'
  <1> USE PoolAssumption DEF TypeOK, MutexOK, MainLockedPcs, LockedPcs, Threads,
          LoopPcs, CountInv, mainVars, queueVars, workVars, fdVars, Running
  <1>1. CASE \E c \in Conns : Accept(c)
    BY <1>1 DEF Accept, MainGoes
  <1>2. CASE AcceptFails \/ MainLock \/ CountRequest \/ MainUnlock \/ Interrupt
    BY <1>2 DEF AcceptFails, MainLock, CountRequest, MainUnlock, Interrupt,
                MainGoes
  <1>3. CASE Enqueue
    BY <1>3, AppendQueued DEF Enqueue, MainGoes
  <1>4. CASE Signal
    BY <1>4 DEF Signal, Waiting, MainGoes
  <1>5. CASE Report \/ FreeServants \/ SigLock \/ SigUnlock \/ JoinWorkers
               \/ Drain
    BY <1>5 DEF Report, FreeServants, SigLock, SigUnlock, JoinWorkers, Drain,
                MainGoes
  <1>6. CASE RaiseFlag
    BY <1>6 DEF RaiseFlag, Waiting, MainGoes
  <1>7. ASSUME NEW w \in Workers,
               WorkerLock(w) \/ Quit(w) \/ CondWait(w) \/ SpuriousWake(w)
                 \/ GoRound(w) \/ FindRequest(w)
        PROVE  CountInv'
    BY <1>7 DEF WorkerLock, Quit, CondWait, SpuriousWake, GoRound, FindRequest,
                WorkerGoes
  <1>8. ASSUME NEW w \in Workers, Dequeue(w)
        PROVE  CountInv'
    <2>1. requestQueue # <<>>
      BY <1>8 DEF Dequeue, WorkerGoes
    <2>2. Len(requestQueue') = Len(requestQueue) - 1
      BY <1>8, <2>1, TailQueued DEF Dequeue
    <2>3. QED
      BY <1>8, <2>2 DEF Dequeue, WorkerGoes
  <1>9. ASSUME NEW w \in Workers, Uncount(w) \/ Release(w)
        PROVE  CountInv'
    BY <1>9 DEF Uncount, Release, WorkerGoes
  <1>10. ASSUME NEW w \in Workers,
                ReadKind(w) \/ ReadFails(w) \/ Register(w) \/ GrowLock(w)
                  \/ GrowUnlock(w) \/ CountHandled(w)
                  \/ Answer(w) \/ AskFails(w) \/ Close(w)
         PROVE  CountInv'
    BY <1>10 DEF ReadKind, ReadFails, Register, GrowLock, GrowUnlock,
                 CountHandled, Answer, AskFails, Close, WorkerGoes
  <1>11. CASE UNCHANGED vars
    BY <1>11 DEF vars
  <1>12. QED
    BY NextCases, <1>1, <1>2, <1>3, <1>4, <1>5, <1>6, <1>7, <1>8, <1>9, <1>10,
       <1>11

(* The counter tells the caller of reqDequeue that there is a request.     *)
LEMMA DequeuePrecondition ==
  ASSUME TypeOK, CountInv, NEW w \in Workers, wpc[w] = "dequeue", Running
  PROVE  requestQueue # <<>>
  BY DEF TypeOK, CountInv, Running

LEMMA HandStep ==
  ASSUME TypeOK, CountInv, HandInv, [Next]_vars
  PROVE  HandInv'
  <1> USE PoolAssumption DEF TypeOK, HandInv, OwningPcs, ServingPcs, Threads,
          LoopPcs, Conns, mainVars, queueVars, workVars, fdVars
  <1>1. CASE \E c \in Conns : Accept(c)
    BY <1>1 DEF Accept, MainGoes
  <1>2. CASE AcceptFails \/ MainLock \/ Enqueue \/ CountRequest \/ MainUnlock
               \/ Interrupt
    BY <1>2 DEF AcceptFails, MainLock, Enqueue, CountRequest, MainUnlock,
                Interrupt, MainGoes
  <1>3. CASE Signal
    BY <1>3 DEF Signal, Waiting, MainGoes
  <1>4. CASE Report \/ FreeServants \/ SigLock \/ SigUnlock \/ JoinWorkers
               \/ Drain
    BY <1>4 DEF Report, FreeServants, SigLock, SigUnlock, JoinWorkers, Drain,
                MainGoes
  <1>5. CASE RaiseFlag
    BY <1>5 DEF RaiseFlag, Waiting, MainGoes
  <1>6. ASSUME NEW w \in Workers,
               WorkerLock(w) \/ Quit(w) \/ CondWait(w) \/ SpuriousWake(w)
                 \/ GoRound(w) \/ FindRequest(w)
        PROVE  HandInv'
    BY <1>6 DEF WorkerLock, Quit, CondWait, SpuriousWake, GoRound, FindRequest,
                WorkerGoes
  <1>7. ASSUME NEW w \in Workers, Dequeue(w)
        PROVE  HandInv'
    <2>1. r'[w] \in Conns
      BY <1>7, DequeuePrecondition, TailQueued DEF Dequeue, WorkerGoes
    <2>2. QED
      BY <1>7, <2>1 DEF Dequeue, WorkerGoes
  <1>8. ASSUME NEW w \in Workers,
               Uncount(w) \/ Release(w) \/ ReadKind(w) \/ ReadFails(w)
                 \/ Register(w) \/ GrowLock(w) \/ GrowUnlock(w) \/ CountHandled(w)
        PROVE  HandInv'
    BY <1>8 DEF Uncount, Release, ReadKind, ReadFails, Register, GrowLock,
                GrowUnlock, CountHandled, WorkerGoes
  <1>9. ASSUME NEW w \in Workers, Answer(w) \/ AskFails(w) \/ Close(w)
        PROVE  HandInv'
    BY <1>9 DEF Answer, AskFails, Close, WorkerGoes
  <1>10. CASE UNCHANGED vars
    BY <1>10 DEF vars
  <1>11. QED
    BY NextCases, <1>1, <1>2, <1>3, <1>4, <1>5, <1>6, <1>7, <1>8, <1>9, <1>10

LEMMA FlagStep ==
  ASSUME TypeOK, MutexOK, FlagInv, [Next]_vars
  PROVE  FlagInv'
  <1> USE PoolAssumption DEF TypeOK, FlagInv, MutexOK, MainLockedPcs, LockedPcs,
          Threads, LoopPcs, mainVars, queueVars, workVars, fdVars
  <1>1. CASE (\E c \in Conns : Accept(c)) \/ AcceptFails \/ MainLock \/ Enqueue
               \/ CountRequest \/ MainUnlock \/ Interrupt
    BY <1>1 DEF Accept, AcceptFails, MainLock, Enqueue, CountRequest, MainUnlock,
                Interrupt, MainGoes
  <1>2. CASE Signal
    BY <1>2 DEF Signal, Waiting, MainGoes
  <1>3. CASE Report \/ FreeServants \/ SigLock \/ SigUnlock \/ JoinWorkers
               \/ Drain
    BY <1>3 DEF Report, FreeServants, SigLock, SigUnlock, JoinWorkers, Drain,
                MainGoes
  <1>4. CASE RaiseFlag
    <2>1. req_m = Main /\ \A w \in Workers : wpc[w] # "dequeue"
      BY <1>4 DEF RaiseFlag, MainGoes
    <2>2. QED
      BY <1>4, <2>1 DEF RaiseFlag, Waiting, MainGoes
  <1>5. ASSUME NEW w \in Workers,
               WorkerLock(w) \/ Quit(w) \/ CondWait(w) \/ SpuriousWake(w)
                 \/ GoRound(w) \/ FindRequest(w)
        PROVE  FlagInv'
    BY <1>5 DEF WorkerLock, Quit, CondWait, SpuriousWake, GoRound, FindRequest,
                WorkerGoes
  <1>6. ASSUME NEW w \in Workers,
               Dequeue(w) \/ Uncount(w) \/ Release(w) \/ ReadKind(w)
                 \/ ReadFails(w) \/ Register(w) \/ GrowLock(w)
                 \/ GrowUnlock(w) \/ CountHandled(w)
                 \/ Answer(w) \/ AskFails(w) \/ Close(w)
        PROVE  FlagInv'
    BY <1>6 DEF Dequeue, Uncount, Release, ReadKind, ReadFails, Register,
                GrowLock, GrowUnlock, CountHandled, Answer, AskFails, Close,
                WorkerGoes
  <1>7. CASE UNCHANGED vars
    BY <1>7 DEF vars
  <1>8. QED
    BY NextCases, <1>1, <1>2, <1>3, <1>4, <1>5, <1>6, <1>7

LEMMA JoinStep ==
  ASSUME TypeOK, HandInv, JoinBeforeFree, [Next]_vars
  PROVE  JoinBeforeFree'
  <1> USE PoolAssumption DEF TypeOK, JoinBeforeFree, LoopPcs, mainVars, queueVars,
          workVars, fdVars
  <1>1. CASE (\E c \in Conns : Accept(c)) \/ AcceptFails \/ MainLock \/ Enqueue
               \/ CountRequest \/ MainUnlock \/ Interrupt \/ Signal
    BY <1>1 DEF Accept, AcceptFails, MainLock, Enqueue, CountRequest, MainUnlock,
                Interrupt, Signal, MainGoes
  <1>2. CASE Report \/ FreeServants \/ SigLock \/ RaiseFlag \/ SigUnlock
    BY <1>2 DEF Report, FreeServants, SigLock, RaiseFlag, SigUnlock, MainGoes
  <1>3. CASE JoinWorkers
    BY <1>3 DEF JoinWorkers, MainGoes, HandInv, OwningPcs, ServingPcs
  <1>4. CASE Drain
    BY <1>4 DEF Drain, MainGoes
  <1>5. ASSUME NEW w \in Workers,
               WorkerLock(w) \/ Quit(w) \/ CondWait(w) \/ SpuriousWake(w)
                 \/ GoRound(w) \/ FindRequest(w) \/ Dequeue(w) \/ Uncount(w)
        PROVE  JoinBeforeFree'
    BY <1>5 DEF WorkerLock, Quit, CondWait, SpuriousWake, GoRound, FindRequest,
                Dequeue, Uncount, WorkerGoes
  <1>6. ASSUME NEW w \in Workers,
               Release(w) \/ ReadKind(w) \/ ReadFails(w) \/ Register(w)
                 \/ GrowLock(w)
                 \/ GrowUnlock(w) \/ CountHandled(w) \/ Answer(w)
                 \/ AskFails(w) \/ Close(w)
        PROVE  JoinBeforeFree'
    BY <1>6 DEF Release, ReadKind, ReadFails, Register, GrowLock, GrowUnlock,
                CountHandled, Answer, AskFails, Close, WorkerGoes
  <1>7. CASE UNCHANGED vars
    BY <1>7 DEF vars
  <1>8. QED
    BY NextCases, <1>1, <1>2, <1>3, <1>4, <1>5, <1>6, <1>7

LEMMA WakeStep ==
  ASSUME TypeOK, MutexOK, WakeInv, [Next]_vars
  PROVE  WakeInv'
  <1> USE PoolAssumption DEF TypeOK, MutexOK, MainLockedPcs, WakeInv, Waiting,
          Threads, LoopPcs, mainVars, queueVars, workVars, fdVars
  <1>1. CASE (\E c \in Conns : Accept(c)) \/ AcceptFails \/ MainLock \/ Enqueue
               \/ CountRequest \/ MainUnlock \/ Interrupt
    BY <1>1 DEF Accept, AcceptFails, MainLock, Enqueue, CountRequest, MainUnlock,
                Interrupt, MainGoes
  <1>2. CASE Signal
    <2>1. PICK w \in Workers : wpc'[w] # "wait"
      BY <1>2 DEF Signal
    <2>2. QED
      BY <1>2, <2>1 DEF Signal, MainGoes
  <1>3. CASE Report \/ FreeServants \/ SigLock \/ SigUnlock \/ JoinWorkers
               \/ Drain
    BY <1>3 DEF Report, FreeServants, SigLock, SigUnlock, JoinWorkers, Drain,
                MainGoes
  <1>4. CASE RaiseFlag
    <2>1. \A w \in Workers : wpc'[w] # "wait"
      BY <1>4 DEF RaiseFlag
    <2>2. QED
      BY <2>1
  <1>5. ASSUME NEW w \in Workers, CondWait(w)
        PROVE  WakeInv'
    BY <1>5 DEF CondWait, WorkerGoes
  <1>6. ASSUME NEW w \in Workers,
               WorkerLock(w) \/ Quit(w) \/ SpuriousWake(w) \/ GoRound(w)
                 \/ FindRequest(w) \/ Dequeue(w) \/ Uncount(w) \/ Release(w)
                 \/ ReadKind(w) \/ ReadFails(w) \/ Register(w) \/ GrowLock(w)
                 \/ GrowUnlock(w) \/ CountHandled(w) \/ Answer(w)
                 \/ AskFails(w) \/ Close(w)
        PROVE  WakeInv'
    <2>1. wpc'[w] # "wait"
      BY <1>6 DEF WorkerLock, Quit, SpuriousWake, GoRound, FindRequest, Dequeue,
           Uncount, Release, ReadKind, ReadFails, Register, GrowLock, GrowUnlock,
           CountHandled, Answer, AskFails, Close, WorkerGoes
    <2>2. sigintFlag' = sigintFlag
      BY <1>6 DEF WorkerLock, Quit, SpuriousWake, GoRound, FindRequest, Dequeue,
           Uncount, Release, ReadKind, ReadFails, Register, GrowLock, GrowUnlock,
           CountHandled, Answer, AskFails, Close
    <2>3. \A v \in Workers : v # w => wpc'[v] = wpc[v]
      BY <1>6 DEF WorkerLock, Quit, SpuriousWake, GoRound, FindRequest, Dequeue,
           Uncount, Release, ReadKind, ReadFails, Register, GrowLock, GrowUnlock,
           CountHandled, Answer, AskFails, Close, WorkerGoes
    <2>4. QED
      BY <2>1, <2>2, <2>3
  <1>7. CASE UNCHANGED vars
    BY <1>7 DEF vars
  <1>8. QED
    BY NextCases, <1>1, <1>2, <1>3, <1>4, <1>5, <1>6, <1>7

-----------------------------------------------------------------------------
(* The places a connection can be in.  ExactlyOnce and PendingInv say that  *)
(* the queue and the workers' hands hold no connection twice (Singly) and   *)
(* that the places are disjoint (Apart); Apart is set algebra over Queued   *)
(* and InHand, which the steps below never have to expand.                  *)
Entries(q) == {q[i] : i \in 1..Len(q)}
NoDuplicates(q) == \A i, j \in 1..Len(q) : q[i] = q[j] => i = j

Singly ==
  /\ NoDuplicates(requestQueue)
  /\ \A v, w \in Workers : r[v] = r[w] /\ r[v] # Nobody => v = w

Apart ==
  /\ Queued \cap InHand = {}
  /\ served \cap (Queued \cup InHand) = {}
  /\ conn_fd \notin Queued \cup InHand \cup served
  /\ Running =>
       connFds = Queued \cup InHand \cup served \cup ({conn_fd} \ {Nobody})
  /\ PendingInv

LEMMA PlaceDef == ExactlyOnce /\ PendingInv <=> Singly /\ Apart
  BY DEF ExactlyOnce, Singly, Apart, NoDuplicates

LEMMA AppendEntries ==
  ASSUME NEW S, NEW q \in Seq(S), NEW c \in S, NoDuplicates(q),
         c \notin Entries(q)
  PROVE  /\ Entries(Append(q, c)) = Entries(q) \cup {c}
         /\ NoDuplicates(Append(q, c))
  BY AppendQueued DEF Entries, NoDuplicates

LEMMA TailEntries ==
  ASSUME NEW S, NEW q \in Seq(S), q # <<>>, NoDuplicates(q)
  PROVE  /\ Head(q) \in Entries(q)
         /\ Entries(Tail(q)) = Entries(q) \ {Head(q)}
         /\ NoDuplicates(Tail(q))
  <1>1. Head(q) = q[1] /\ 1 \in 1..Len(q)
    BY TailQueued
  <1>2. \A i \in 1..Len(Tail(q)) : i + 1 \in 1..Len(q) /\ Tail(q)[i] = q[i + 1]
    BY TailQueued
  <1>3. \A i \in 1..Len(q) : i # 1 =>
           i - 1 \in 1..Len(Tail(q)) /\ q[i] = Tail(q)[i - 1]
    BY TailQueued
  <1>4. Entries(Tail(q)) \subseteq Entries(q) \ {Head(q)}
    BY <1>1, <1>2 DEF Entries, NoDuplicates
  <1>5. Entries(q) \ {Head(q)} \subseteq Entries(Tail(q))
    BY <1>1, <1>3 DEF Entries
  <1>6. NoDuplicates(Tail(q))
    BY <1>2 DEF NoDuplicates
  <1>7. QED
    BY <1>1, <1>4, <1>5, <1>6 DEF Entries

(* A step that moves no connection through the queue or a worker's hands.  *)
LEMMA Unmoved ==
  ASSUME UNCHANGED <<requestQueue, r>>
  PROVE  Queued' = Queued /\ InHand' = InHand /\ (Singly => Singly')
  BY DEF Queued, InHand, Singly, NoDuplicates

LEMMA PlaceStep ==
  ASSUME TypeOK, CountInv, HandInv, Singly, Apart, [Next]_vars
  PROVE  Singly' /\ Apart'
  <1> USE DEF mainVars, queueVars, workVars, fdVars
  <1> DEFINE Idle == UNCHANGED <<pending, conn_fd, requestQueue, r, served,
                            connFds>>
  <1>1. ASSUME Idle, Running' => Running
        PROVE  Singly' /\ Apart'
    BY <1>1, Unmoved DEF Apart, PendingInv
  <1>2. ASSUME NEW c \in Conns, Accept(c)
        PROVE  Singly' /\ Apart'
    <2>1. /\ conn_fd = Nobody /\ conn_fd' = c /\ c # Nobody /\ c \in pending
          /\ connFds' = connFds \cup {c} /\ pending' = pending \ {c}
          /\ Running
      BY <1>2, PoolAssumption DEF Accept, MainGoes, HandInv, Running
    <2>2. Queued' = Queued /\ InHand' = InHand /\ served' = served /\ Singly'
      BY <1>2, Unmoved DEF Accept
    <2>3. QED
      BY <2>1, <2>2 DEF Apart, PendingInv
  <1>3. CASE AcceptFails \/ MainLock \/ CountRequest \/ Signal \/ MainUnlock
               \/ Interrupt
    BY <1>1, <1>3 DEF AcceptFails, MainLock, CountRequest, Signal, MainUnlock,
                      Interrupt, MainGoes, Running, LoopPcs
  <1>4. CASE Enqueue
    <2>1. /\ conn_fd \in Conns /\ conn_fd # Nobody /\ conn_fd' = Nobody
          /\ requestQueue' = Append(requestQueue, conn_fd)
          /\ UNCHANGED <<pending, r, served, connFds>> /\ Running
      BY <1>4 DEF Enqueue, MainGoes, HandInv, TypeOK, Running
    <2>2. /\ Entries(requestQueue') = Entries(requestQueue) \cup {conn_fd}
          /\ NoDuplicates(requestQueue')
      BY <2>1, AppendEntries DEF Singly, Apart, Queued, Entries, TypeOK
    <2>3. Queued' = Queued \cup {conn_fd} /\ InHand' = InHand
      BY <2>1, <2>2 DEF Queued, Entries, InHand
    <2>4. Nobody \notin Queued' \cup InHand' \cup served' \cup pending'
      BY <2>1, <2>3, PoolAssumption DEF TypeOK, Queued, InHand
    <2>5. Singly'
      BY <2>1, <2>2 DEF Singly
    <2>6. QED
      BY <2>1, <2>3, <2>4, <2>5 DEF Apart, PendingInv
  <1>5. CASE Report \/ FreeServants \/ SigLock \/ RaiseFlag \/ SigUnlock
               \/ JoinWorkers
    BY <1>1, <1>5 DEF Report, FreeServants, SigLock, RaiseFlag, SigUnlock,
                      JoinWorkers, MainGoes, Running
  <1>6. CASE Drain
    <2>1. /\ Queued' = {} /\ InHand' = InHand /\ ~Running'
          /\ UNCHANGED <<pending, conn_fd, served>>
      BY <1>6 DEF Drain, MainGoes, Running, Queued, InHand
    <2>2. Singly'
      BY <1>6 DEF Drain, Singly, NoDuplicates
    <2>3. QED
      BY <2>1, <2>2 DEF Apart, PendingInv
  <1>7. ASSUME NEW w \in Workers,
               WorkerLock(w) \/ Quit(w) \/ CondWait(w) \/ SpuriousWake(w)
                 \/ GoRound(w) \/ FindRequest(w) \/ Uncount(w) \/ Release(w)
        PROVE  Singly' /\ Apart'
    BY <1>1, <1>7 DEF WorkerLock, Quit, CondWait, SpuriousWake, GoRound,
                      FindRequest, Uncount, Release, WorkerGoes
  <1>8. ASSUME NEW w \in Workers, Dequeue(w)
        PROVE  Singly' /\ Apart'
    <2> DEFINE c == Head(requestQueue)
    <2>1. requestQueue # <<>>
      BY <1>8, DequeuePrecondition DEF Dequeue, WorkerGoes
    <2>2. /\ requestQueue' = Tail(requestQueue)
          /\ r' = [r EXCEPT ![w] = c] /\ r[w] = Nobody
          /\ UNCHANGED <<pending, conn_fd, served, connFds, mainPc>>
      BY <1>8, <2>1 DEF Dequeue, WorkerGoes, HandInv, OwningPcs, ServingPcs
    <2>3. c \in Queued /\ Queued' = Queued \ {c} /\ NoDuplicates(requestQueue')
      <3>1. requestQueue \in Seq(Conns) /\ NoDuplicates(requestQueue)
        BY DEF TypeOK, Singly
      <3>2. Queued = Entries(requestQueue) /\ Queued' = Entries(requestQueue')
        BY DEF Queued, Entries
      <3>3. QED
        BY <2>1, <2>2, <3>1, <3>2, TailEntries
    <2>4. c # Nobody /\ \A v \in Workers : r[v] # c
      BY <2>3, PoolAssumption DEF Apart, InHand, Queued, TypeOK
    <2>5. /\ r'[w] = c /\ \A v \in Workers \ {w} : r'[v] = r[v]
          /\ InHand' = InHand \cup {c}
      <3>1. r'[w] = c /\ \A v \in Workers \ {w} : r'[v] = r[v]
        BY <2>2 DEF TypeOK
      <3>2. QED
        BY <3>1, <2>2, <2>4 DEF InHand
    <2>6. Singly'
      BY <2>3, <2>4, <2>5 DEF Singly
    <2>7. QED
      BY <2>2, <2>3, <2>5, <2>6 DEF Apart, PendingInv, Running
  <1>9. ASSUME NEW w \in Workers,
               ReadKind(w) \/ ReadFails(w) \/ Register(w) \/ GrowLock(w)
                 \/ GrowUnlock(w) \/ CountHandled(w)
                 \/ Answer(w) \/ AskFails(w)
        PROVE  Singly' /\ Apart'
    BY <1>1, <1>9 DEF ReadKind, ReadFails, Register, GrowLock, GrowUnlock,
                      CountHandled, Answer, AskFails, WorkerGoes, Running
  <1>10. ASSUME NEW w \in Workers, Close(w)
         PROVE  Singly' /\ Apart'
    <2>1. /\ r[w] # Nobody /\ r[w] \in InHand
          /\ r'[w] = Nobody /\ \A v \in Workers \ {w} : r'[v] = r[v]
          /\ served' = served \cup {r[w]}
          /\ UNCHANGED <<pending, conn_fd, requestQueue, connFds, mainPc>>
      BY <1>10 DEF Close, WorkerGoes, HandInv, OwningPcs, ServingPcs, InHand,
                   TypeOK
    <2>2. InHand' = InHand \ {r[w]} /\ Queued' = Queued /\ Singly'
      BY <2>1 DEF InHand, Queued, Singly, NoDuplicates
    <2>3. QED
      BY <2>1, <2>2 DEF Apart, PendingInv, Running
  <1>11. CASE UNCHANGED vars
    BY <1>1, <1>11 DEF vars, Running
  <1>12. QED
    BY NextCases, <1>2, <1>3, <1>4, <1>5, <1>6, <1>7, <1>8, <1>9, <1>10, <1>11

-----------------------------------------------------------------------------
(* IInv is inductive, and so an invariant of the request pool.             *)
LEMMA NextIInv == IInv /\ [Next]_vars => IInv'
  <1> SUFFICES ASSUME IInv, [Next]_vars
               PROVE  IInv'
    OBVIOUS
  <1>1. TypeOK' /\ MutexOK' /\ CountInv' /\ HandInv'
    BY TypeStep, MutexStep, CountStep, HandStep DEF IInv
  <1>2. ExactlyOnce' /\ PendingInv'
    <2>1. Singly' /\ Apart'
      BY PlaceDef, PlaceStep DEF IInv
    <2>2. QED
      BY <2>1 DEF ExactlyOnce, Singly, Apart, NoDuplicates
  <1>3. WakeInv' /\ FlagInv' /\ JoinBeforeFree'
    BY WakeStep, FlagStep, JoinStep DEF IInv
  <1>4. QED
    BY <1>1, <1>2, <1>3 DEF IInv

LEMMA Invariance == Spec => []IInv
  BY InitIInv, NextIInv, PTL DEF Spec

(* The types of every variable, and that requestCount never drops below    *)
(* zero (server.c:252).                                                    *)
THEOREM TypeCorrect == Spec => []TypeOK
  <1>1. IInv => TypeOK
    BY DEF IInv
  <1>2. QED
    BY <1>1, Invariance, PTL

(* Mutual exclusion of the main thread, the SIGINT handler and every worker *)
(* under req_m (server.c:176-193, 209-259, 442-464, 560-569): of the three  *)
(* that change the queue and of the growth of the servants table.           *)
THEOREM MutualExclusion == Spec => []MutexOK
  <1>1. IInv => MutexOK
    BY DEF IInv
  <1>2. QED
    BY <1>1, Invariance, PTL

(* reqDequeue never returns NULL to a caller that dereferences its result   *)
(* untested (server.c:251).                                                 *)
THEOREM NoNullRequest == Spec => [](DequeueFindsRequest)
  <1>1. IInv => DequeueFindsRequest
    <2> SUFFICES ASSUME IInv, NEW w \in Workers, wpc[w] = "dequeue"
                 PROVE  requestQueue # <<>>
      BY DEF DequeueFindsRequest
    <2>1. mainPc # "exited"
      BY DEF IInv, JoinBeforeFree
    <2>2. QED
      BY <2>1 DEF IInv, CountInv, TypeOK
  <1>2. QED
    BY <1>1, Invariance, PTL

(* No accepted connection is lost, duplicated or handled by two workers.    *)
THEOREM EachConnectionOnce == Spec => []ExactlyOnce
  <1>1. IInv => ExactlyOnce
    BY DEF IInv
  <1>2. QED
    BY <1>1, Invariance, PTL

(* No wake-up is lost, neither a request's nor the SIGINT flag's, whatever  *)
(* wake-ups are spurious.                                                   *)
THEOREM WakeupsReachWorkers == Spec => []NoLostWakeup
  <1>1. IInv => NoLostWakeup
    BY DEF IInv, WakeInv, NoLostWakeup, Waiting, MutexOK, MainLockedPcs
  <1>2. QED
    BY <1>1, Invariance, PTL

(* The handler frees the queue and leaves only after every worker returned. *)
THEOREM JoinedBeforeFree == Spec => []JoinBeforeFree
  <1>1. IInv => JoinBeforeFree
    BY DEF IInv
  <1>2. QED
    BY <1>1, Invariance, PTL

(* Once the SIGINT flag is up the queue only changes when it is freed.      *)
THEOREM QueueFrozenAfterSigint == Spec => NoWorkAfterSigint
  <1> DEFINE Frozen == sigintFlag > 0 =>
                         requestQueue' = requestQueue \/ mainPc' = "exited"
  <1>1. IInv /\ [Next]_vars => [Frozen]_vars
    <2> SUFFICES ASSUME IInv, [Next]_vars, sigintFlag > 0
                 PROVE  requestQueue' = requestQueue \/ mainPc' = "exited"
      OBVIOUS
    <2>1. mainPc # "enqueue" /\ \A w \in Workers : wpc[w] # "dequeue"
      BY DEF IInv, FlagInv
    <2>2. \A w \in Workers : ~Dequeue(w)
      BY <2>1 DEF Dequeue, WorkerGoes
    <2>3. ~Enqueue
      BY <2>1 DEF Enqueue, MainGoes
    <2>4. QED
      BY NextCases, <2>2, <2>3
         DEF Accept, AcceptFails, MainLock, CountRequest, Signal, MainUnlock,
             Interrupt, Report, FreeServants, SigLock, RaiseFlag, SigUnlock,
             JoinWorkers, Drain, WorkerLock, Quit, CondWait, SpuriousWake,
             GoRound, FindRequest, Uncount, Release, ReadKind, ReadFails,
             Register, GrowLock, GrowUnlock, CountHandled, Answer, AskFails,
             Close, MainGoes, vars, mainVars, queueVars, workVars, fdVars
  <1>2. QED
    BY <1>1, Invariance, PTL DEF Spec, NoWorkAfterSigint

-----------------------------------------------------------------------------
(* RequestPool implements Dispatcher, for every set of peers and workers:  *)
(* under the mapping of RequestPool!Promise the first state is an initial  *)
(* one, and each step is one of the Dispatcher's or a stutter.             *)

Arriving == pending \cup ({conn_fd} \ {Nobody})

Phase == IF mainPc = "exited" THEN "closed"
         ELSE IF sigintFlag > 0 THEN "closing" ELSE "open"

(* Everything the Dispatcher sees: Promise!vars, under names to cite.      *)
seen == <<Arriving, requestQueue, InHand, served, Phase>>

LEMMA InitMaps == Init => Promise!Init
  BY PoolAssumption DEF Init, Promise!Init, InHand

(* Steps that change neither the queue nor a worker's hand are seen only   *)
(* by what they do to main's connection and to the phase.                  *)
LEMMA HiddenStep ==
  ASSUME UNCHANGED <<requestQueue, r, served>>, Arriving' = Arriving,
         Phase' = Phase
  PROVE  UNCHANGED seen
  BY DEF seen, InHand

LEMMA AcceptHidden ==
  ASSUME IInv, NEW c \in Conns, Accept(c)
  PROVE  UNCHANGED seen
  <1>1. conn_fd = Nobody /\ conn_fd' = c /\ c \in pending /\ c # Nobody
    BY PoolAssumption DEF IInv, HandInv, Accept, MainGoes
  <1>2. Arriving' = Arriving
    BY <1>1 DEF Accept, Arriving
  <1>3. Phase' = Phase
    BY DEF Accept, MainGoes, Phase, queueVars
  <1>4. UNCHANGED <<requestQueue, r, served>>
    BY DEF Accept, queueVars, workVars
  <1>5. QED
    BY <1>2, <1>3, <1>4, HiddenStep

LEMMA EnqueueSubmits ==
  ASSUME IInv, Enqueue
  PROVE  Promise!Submit(conn_fd) /\ conn_fd \in Conns
  <1>1. conn_fd \in Conns /\ conn_fd # Nobody /\ conn_fd' = Nobody
    BY DEF IInv, HandInv, TypeOK, Enqueue, MainGoes
  <1>2. conn_fd \notin pending /\ Nobody \notin pending
    BY PoolAssumption DEF IInv, PendingInv, TypeOK
  <1>3. Arriving' = Arriving \ {conn_fd} /\ conn_fd \in Arriving
    BY <1>1, <1>2 DEF Enqueue, Arriving
  <1>4. Phase = "open" /\ Phase' = Phase
    BY DEF IInv, FlagInv, TypeOK, Enqueue, MainGoes, Phase
  <1>5. requestQueue' = Append(requestQueue, conn_fd)
    BY DEF Enqueue
  <1>6. InHand' = InHand /\ served' = served
    BY DEF Enqueue, workVars, InHand
  <1>7. QED
    BY <1>1, <1>3, <1>4, <1>5, <1>6 DEF Promise!Submit, Arriving, Phase

LEMMA DequeueTakes ==
  ASSUME IInv, NEW w \in Workers, Dequeue(w)
  PROVE  Promise!Take
  <1>1. wpc[w] = "dequeue" /\ mainPc # "exited"
    BY DEF Dequeue, WorkerGoes, Running
  <1>2. requestQueue # <<>>
    BY <1>1 DEF IInv, CountInv, TypeOK
  <1>3. sigintFlag = 0
    BY <1>1 DEF IInv, FlagInv, TypeOK
  <1>4. /\ requestQueue' = Tail(requestQueue)
        /\ r' = [r EXCEPT ![w] = Head(requestQueue)]
    BY <1>2 DEF Dequeue
  <1>5. Head(requestQueue) \in Conns /\ Head(requestQueue) # Nobody
    BY <1>2, TailQueued, PoolAssumption DEF IInv, TypeOK
  <1>6. r[w] = Nobody
    BY <1>1 DEF IInv, HandInv, OwningPcs, ServingPcs
  <1>7. InHand' = InHand \cup {Head(requestQueue)}
    <2>1. r'[w] = Head(requestQueue) /\ \A v \in Workers \ {w} : r'[v] = r[v]
      BY <1>4 DEF IInv, TypeOK
    <2>2. QED
      BY <2>1, <1>5, <1>6 DEF InHand
  <1>8. Phase = "open" /\ Phase' = Phase
    BY <1>1, <1>3 DEF Phase, Dequeue, mainVars
  <1>9. UNCHANGED <<Arriving, served>>
    BY DEF Dequeue, mainVars, Arriving
  <1>10. QED
    BY <1>2, <1>4, <1>7, <1>8, <1>9 DEF Promise!Take, Arriving, Phase

LEMMA CloseFinishes ==
  ASSUME IInv, NEW w \in Workers, Close(w)
  PROVE  Promise!Finish(r[w]) /\ r[w] \in Conns
  <1>1. r[w] \in Conns /\ r[w] # Nobody /\ r[w] \in InHand
    BY DEF IInv, HandInv, OwningPcs, ServingPcs, TypeOK, Close, WorkerGoes, InHand
  <1>2. InHand' = InHand \ {r[w]}
    <2>1. r'[w] = Nobody /\ \A v \in Workers \ {w} : r'[v] = r[v] /\ r[v] # r[w]
      BY <1>1 DEF Close, IInv, TypeOK, ExactlyOnce
    <2>2. QED
      BY <2>1 DEF InHand
  <1>3. Phase # "closed" /\ Phase' = Phase
    BY DEF Close, WorkerGoes, Running, mainVars, queueVars, Phase
  <1>4. served' = served \cup {r[w]} /\ UNCHANGED <<Arriving, requestQueue>>
    BY DEF Close, mainVars, queueVars, Arriving
  <1>5. QED
    BY <1>1, <1>2, <1>3, <1>4 DEF Promise!Finish, Arriving, Phase

LEMMA RaiseFlagShuts ==
  ASSUME IInv, RaiseFlag
  PROVE  Promise!Shut
  <1>1. sigintFlag = 0 /\ sigintFlag' > 0 /\ mainPc # "exited" /\ mainPc' # "exited"
    BY DEF IInv, FlagInv, TypeOK, RaiseFlag, MainGoes
  <1>2. Phase = "open" /\ Phase' = "closing"
    BY <1>1 DEF Phase
  <1>3. UNCHANGED <<Arriving, requestQueue, InHand, served>>
    BY DEF RaiseFlag, workVars, Arriving, InHand
  <1>4. QED
    BY <1>2, <1>3 DEF Promise!Shut, Arriving, Phase

LEMMA DrainDiscards ==
  ASSUME IInv, Drain
  PROVE  Promise!Discard
  <1>1. mainPc = "drain" /\ mainPc' = "exited" /\ sigintFlag > 0
    BY DEF IInv, FlagInv, Drain, MainGoes
  <1>2. Phase = "closing" /\ Phase' = "closed"
    BY <1>1 DEF Phase
  <1>3. InHand = {}
    BY <1>1 DEF IInv, JoinBeforeFree, InHand
  <1>4. requestQueue' = <<>> /\ UNCHANGED <<Arriving, InHand, served>>
    BY DEF Drain, workVars, Arriving, InHand
  <1>5. QED
    BY <1>2, <1>3, <1>4 DEF Promise!Discard, Arriving, Phase

(* Each step of the pool is a step of the Dispatcher or is not seen by it. *)
LEMMA StepMaps == IInv /\ [Next]_vars => [Promise!Next]_(Promise!vars)
  <1> SUFFICES ASSUME IInv, [Next]_vars
               PROVE  Promise!Next \/ UNCHANGED seen
    BY DEF Promise!vars, seen, Arriving, Phase
  <1> USE DEF mainVars, queueVars, workVars
  <1>1. ASSUME NEW c \in Conns, Accept(c)
        PROVE  UNCHANGED seen
    BY <1>1, AcceptHidden
  <1>2. CASE AcceptFails \/ MainLock \/ CountRequest \/ Signal \/ MainUnlock
               \/ Interrupt \/ Report \/ FreeServants \/ SigLock \/ SigUnlock
               \/ JoinWorkers
    <2>1. mainPc # "exited" /\ mainPc' # "exited"
      BY <1>2 DEF AcceptFails, MainLock, CountRequest, Signal, MainUnlock,
                  Interrupt, LoopPcs, Report, FreeServants, SigLock, SigUnlock,
                  JoinWorkers, MainGoes
    <2>2. UNCHANGED <<pending, conn_fd, requestQueue, sigintFlag, r, served>>
      BY <1>2 DEF AcceptFails, MainLock, CountRequest, Signal, MainUnlock,
                  Interrupt, Report, FreeServants, SigLock, SigUnlock, JoinWorkers
    <2>3. QED
      BY <2>1, <2>2, HiddenStep DEF Arriving, Phase
  <1>3. CASE Enqueue
    BY <1>3, EnqueueSubmits DEF Promise!Next
  <1>4. CASE RaiseFlag
    BY <1>4, RaiseFlagShuts DEF Promise!Next
  <1>5. CASE Drain
    BY <1>5, DrainDiscards DEF Promise!Next
  <1>6. ASSUME NEW w \in Workers,
               WorkerLock(w) \/ Quit(w) \/ CondWait(w) \/ SpuriousWake(w)
                 \/ GoRound(w) \/ FindRequest(w) \/ Uncount(w) \/ Release(w)
                 \/ ReadKind(w) \/ ReadFails(w) \/ Register(w) \/ GrowLock(w)
                 \/ GrowUnlock(w) \/ CountHandled(w)
                 \/ Answer(w) \/ AskFails(w)
        PROVE  UNCHANGED seen
    <2>1. /\ mainPc # "exited" /\ mainPc' # "exited"
          /\ UNCHANGED <<pending, conn_fd, requestQueue, sigintFlag, r, served>>
      BY <1>6 DEF WorkerLock, Quit, CondWait, SpuriousWake, GoRound, FindRequest,
                  Uncount, Release, ReadKind, ReadFails, Register, GrowLock,
                  GrowUnlock, CountHandled, Answer, AskFails, WorkerGoes, Running
    <2>2. QED
      BY <2>1, HiddenStep DEF Arriving, Phase
  <1>7. ASSUME NEW w \in Workers, Dequeue(w)
        PROVE  Promise!Next
    BY <1>7, DequeueTakes DEF Promise!Next
  <1>8. ASSUME NEW w \in Workers, Close(w)
        PROVE  Promise!Next
    BY <1>8, CloseFinishes DEF Promise!Next
  <1>9. CASE UNCHANGED vars
    BY <1>9, HiddenStep DEF vars, Arriving, Phase
  <1>10. QED
    BY NextCases, <1>1, <1>2, <1>3, <1>4, <1>5, <1>6, <1>7, <1>8, <1>9

(* First come first served, each connection once, nothing taken after the  *)
(* SIGINT flag, and the queue discarded only when no worker serves any     *)
(* more: the pool with its threads keeps the Dispatcher's promise.         *)
THEOREM PoolImplementsDispatcher == Spec => ImplementsDispatcher
  BY InitMaps, StepMaps, Invariance, PTL DEF Spec, ImplementsDispatcher,
                                             Promise!Spec
=============================================================================
