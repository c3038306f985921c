--------------------------- MODULE ClientBarrier ---------------------------
(***************************************************************************)
(* The client process (client.c): main starts one thread for each request  *)
(* of the file; the threads meet at a barrier made of thread_m, thCondVar  *)
(* and the counter `arrived', ask the server each on a connection of its   *)
(* own, and end; main joins them all and frees the requests.               *)
(***************************************************************************)
EXTENDS Integers, FiniteSets

CONSTANTS
  requestSize,  (* requests read from the file, and threads->count         *)
  Nobody,
  MaxSpurious,  (* bound: spurious wake-ups of pthread_cond_wait           *)
  MaxSignals    (* bound: SIGINTs that are delivered to a reading thread   *)

ASSUME ClientAssumption ==
  /\ requestSize \in Nat /\ MaxSpurious \in Nat /\ MaxSignals \in Nat
  /\ Nobody \notin 0..requestSize-1

Threads == 0..requestSize-1

VARIABLES
  mainPc,       (* "create", "join", "clear", "exited" or "failed"         *)
  i,            (* main's loop index                                       *)
  tpc,          (* what each thread does next                              *)
  thread_m,     (* owner of the mutex, or Nobody                           *)
  arrived,
  result,       (* what each thread found out: the answer, or why none     *)
  requestsLive, (* the requests have not been freed                        *)
  spurious, signals

mainVars == <<mainPc, i, requestsLive>>
barrierVars == <<thread_m, arrived>>
boundVars == <<spurious, signals>>
vars == <<mainVars, tpc, barrierVars, result, boundVars>>

AtBarrier == {"none", "lock", "arrive", "wait", "rewait", "unlock"}
ThreadPcs == AtBarrier \cup {"connect", "send", "read", "done"}

Running == mainPc \notin {"exited", "failed"}

Init ==
  /\ mainPc = "create" /\ i = 0 /\ requestsLive = TRUE
  /\ tpc = [t \in Threads |-> "none"]
  /\ thread_m = Nobody /\ arrived = 0
  /\ result = [t \in Threads |-> "none"]
  /\ spurious = 0 /\ signals = 0

-----------------------------------------------------------------------------
(* main                                                                    *)

CreateThread ==
  /\ Running /\ mainPc = "create" /\ i < requestSize
  /\ tpc' = [tpc EXCEPT ![i] = "lock"]
  /\ i' = i + 1
  /\ UNCHANGED <<mainPc, requestsLive, barrierVars, result, boundVars>>

AllCreated ==
  /\ Running /\ mainPc = "create" /\ i = requestSize
  /\ mainPc' = "join" /\ i' = 0
  /\ UNCHANGED <<requestsLive, tpc, barrierVars, result, boundVars>>

(* Mutant: pthread_tryjoin in place of pthread_join.                       *)
JoinThread_NoWait ==
  /\ Running /\ mainPc = "join" /\ i < requestSize
  /\ i' = i + 1
  /\ UNCHANGED <<mainPc, requestsLive, tpc, barrierVars, result, boundVars>>

JoinThread ==
  /\ Running /\ mainPc = "join" /\ i < requestSize
  /\ tpc[i] = "done"
  /\ i' = i + 1
  /\ UNCHANGED <<mainPc, requestsLive, tpc, barrierVars, result, boundVars>>

AllJoined ==
  /\ Running /\ mainPc = "join" /\ i = requestSize
  /\ mainPc' = "clear"
  /\ UNCHANGED <<i, requestsLive, tpc, barrierVars, result, boundVars>>

ClearRequests ==
  /\ Running /\ mainPc = "clear"
  /\ requestsLive' = FALSE /\ mainPc' = "exited"
  /\ UNCHANGED <<i, tpc, barrierVars, result, boundVars>>

-----------------------------------------------------------------------------
(* requestHandlerThread                                                    *)

ThreadGoes(t, from, to) ==
  Running /\ tpc[t] = from /\ tpc' = [tpc EXCEPT ![t] = to]

Lock(t) ==
  /\ thread_m = Nobody /\ thread_m' = t
  /\ \/ ThreadGoes(t, "lock", "arrive")
     \/ ThreadGoes(t, "rewait", "unlock")
  /\ UNCHANGED <<mainVars, arrived, result, boundVars>>

Waiting == {t \in Threads : tpc[t] = "wait"}

ArriveAndWake(t, last, woken) ==
  /\ Running /\ tpc[t] = "arrive"
  /\ arrived' = arrived + 1
  /\ \/ /\ arrived' < last
        /\ tpc' = [tpc EXCEPT ![t] = "wait"] /\ thread_m' = Nobody
     \/ /\ arrived' >= last
        /\ tpc' = [u \in Threads |-> IF u = t THEN "unlock"
                                     ELSE IF u \in woken THEN "rewait" ELSE tpc[u]]
        /\ UNCHANGED thread_m
  /\ UNCHANGED <<mainVars, result, boundVars>>

(* Mutants: the last thread but one already opens the barrier ...          *)
Arrive_OffByOne(t) == ArriveAndWake(t, requestSize - 1, Waiting)

(* ... or pthread_cond_signal is used in place of pthread_cond_broadcast.  *)
Arrive_SignalOne(t) ==
  \E woken \in SUBSET Waiting :
    /\ IF Waiting = {} THEN woken = {} ELSE Cardinality(woken) = 1
    /\ ArriveAndWake(t, requestSize, woken)

(* All but the last to arrive wait, once, and do not look at `arrived'     *)
(* again when they wake up.                                                *)
Arrive(t) == ArriveAndWake(t, requestSize, Waiting)

SpuriousWake(t) ==
  /\ spurious < MaxSpurious /\ spurious' = spurious + 1
  /\ ThreadGoes(t, "wait", "rewait")
  /\ UNCHANGED <<mainVars, barrierVars, result, signals>>

(* Mutant: a woken thread forgets to unlock.                               *)
Unlock_Not(t) ==
  /\ ThreadGoes(t, "unlock", "connect")
  /\ UNCHANGED <<mainVars, barrierVars, result, boundVars>>

Unlock(t) ==
  /\ ThreadGoes(t, "unlock", "connect")
  /\ thread_m' = Nobody
  /\ UNCHANGED <<mainVars, arrived, result, boundVars>>

(* Without a descriptor for the socket, or when the ip of the command line *)
(* is none, the whole process exits.                                       *)
SocketFails(t) ==
  /\ Running /\ tpc[t] = "connect"
  /\ mainPc' = "failed"
  /\ UNCHANGED <<i, requestsLive, tpc, barrierVars, result, boundVars>>

(* Connecting fails when no server listens: the thread ends silently.      *)
Connect(t) ==
  /\ \/ ThreadGoes(t, "connect", "send") /\ UNCHANGED result
     \/ ThreadGoes(t, "connect", "done")
        /\ result' = [result EXCEPT ![t] = "refused"]
  /\ UNCHANGED <<mainVars, barrierVars, boundVars>>

(* A failing write is reported and the answer is waited for all the same.  *)
Send(t) ==
  /\ ThreadGoes(t, "send", "read")
  /\ UNCHANGED <<mainVars, barrierVars, result, boundVars>>

(* The answer ends with '*'; when the server closes without one, what was  *)
(* read so far is taken for the answer, and nothing is the number 0.       *)
ReadAnswer(t) ==
  /\ ThreadGoes(t, "read", "done")
  /\ \E res \in {"answer", "zero"} : result' = [result EXCEPT ![t] = res]
  /\ UNCHANGED <<mainVars, barrierVars, boundVars>>

(* A connection that is reset fails the read, and the whole process exits. *)
ReadFails(t) ==
  /\ Running /\ tpc[t] = "read"
  /\ mainPc' = "failed"
  /\ UNCHANGED <<i, requestsLive, tpc, barrierVars, result, boundVars>>

(* The handler of SIGINT is empty and installed without SA_RESTART: a read *)
(* that it interrupts fails in the same way.                               *)
Interrupt(t) ==
  /\ signals < MaxSignals /\ signals' = signals + 1
  /\ Running /\ tpc[t] = "read"
  /\ mainPc' = "failed"
  /\ UNCHANGED <<i, requestsLive, tpc, barrierVars, result, spurious>>

-----------------------------------------------------------------------------
Main == CreateThread \/ AllCreated \/ JoinThread \/ AllJoined \/ ClearRequests

RequestHandlerThread(t) ==
  \/ Lock(t) \/ Arrive(t) \/ Unlock(t) \/ SocketFails(t) \/ Connect(t) \/ Send(t)
  \/ ReadAnswer(t) \/ ReadFails(t)

Next ==
  \/ Main
  \/ \E t \in Threads : RequestHandlerThread(t) \/ SpuriousWake(t) \/ Interrupt(t)

Spec == Init /\ [][Next]_vars

(* Threads are scheduled fairly and the server answers or closes.          *)
FairSpec ==
  Spec /\ WF_vars(Main) /\ \A t \in Threads : WF_vars(RequestHandlerThread(t))

-----------------------------------------------------------------------------
(* The types, and mutual exclusion: a thread is in its section under       *)
(* thread_m exactly when it owns the mutex.                                *)
TypeOK ==
  /\ mainPc \in {"create", "join", "clear", "exited", "failed"}
  /\ i \in 0..requestSize /\ requestsLive \in BOOLEAN
  /\ tpc \in [Threads -> ThreadPcs]
  /\ thread_m \in Threads \cup {Nobody}
  /\ \A t \in Threads : tpc[t] \in {"arrive", "unlock"} <=> thread_m = t
  /\ arrived \in 0..requestSize
  /\ result \in [Threads -> {"none", "answer", "zero", "refused"}]
  /\ spurious \in 0..MaxSpurious /\ signals \in 0..MaxSignals

(* Who is past the barrier before everybody has arrived was woken          *)
(* spuriously.                                                             *)
Past == {t \in Threads : tpc[t] \notin AtBarrier}

EarlyOnlyBySpuriousWake ==
  arrived < requestSize =>
    Cardinality(Past \cup {t \in Threads : tpc[t] \in {"rewait", "unlock"}}) <= spurious

(* No thread uses its request after main has freed it, and the process     *)
(* only exits successfully when every request has met its end.             *)
RequestsOutliveThreads ==
  mainPc = "exited" \/ ~requestsLive =>
    \A t \in Threads : tpc[t] = "done" /\ result[t] # "none"

(* The client terminates, whatever wake-ups are spurious.                  *)
ClientTerminates == <>~Running

(* README: the threads send their requests simultaneously.  Not before     *)
(* all of them have arrived, that is; but a spurious wake-up passes.       *)
SendTogether == Past # {} => arrived = requestSize
=============================================================================
