---------------------------- MODULE RequestPool ----------------------------
(***************************************************************************)
(* The server process of server.c: the main thread that accepts            *)
(* connections and queues them, the pool of worker threads that take them  *)
(* off the queue under the mutex req_m and the condition variable          *)
(* reqCondVar, and the SIGINT handler, which runs on the main thread (the  *)
(* only one that does not block SIGINT) and tears the process down.        *)
(*                                                                         *)
(* A connection is named by its peer: every servant process connects once  *)
(* to register, every client thread connects once to ask its query.  What  *)
(* a worker does with the servants table (readServant, the queries it      *)
(* forwards) is the subject of ServantTable; here a registration is        *)
(* Register, which may have filled the table, and then the growth of the   *)
(* table, which is the third section under req_m.                          *)
(***************************************************************************)
EXTENDS Integers, Sequences, FiniteSets

CONSTANTS
  Servants,     (* peers whose first byte is 's'                           *)
  Clients,      (* peers whose first byte is 'c'                           *)
  Workers,      (* the nThreads threads of the pool                        *)
  Main,         (* the main thread, which also runs the SIGINT handler     *)
  Nobody,       (* "no thread" and "no connection"                         *)
  FdLimit,      (* descriptors the process may use for its connections     *)
  MaxSpurious   (* bound: spurious wake-ups of pthread_cond_wait           *)

Conns == Servants \cup Clients
Threads == Workers \cup {Main}

ASSUME PoolAssumption ==
  /\ Servants \cap Clients = {}
  /\ Main \notin Workers
  /\ Nobody \notin Threads
  /\ Nobody \notin Conns
  /\ IsFiniteSet(Conns) /\ IsFiniteSet(Workers)
  /\ Workers # {}
  /\ FdLimit \in Nat
  /\ MaxSpurious \in Nat

VARIABLES
  pending,          (* peers that have not been accepted yet               *)
  mainPc,           (* what the main thread does next                      *)
  conn_fd,          (* the connection the main thread is queueing          *)
  req_m,            (* owner of the mutex req_m, or Nobody                 *)
  requestQueue,     (* the linked list of struct req, front first          *)
  requestCount,
  sigintFlag,
  wpc,              (* what each worker does next                          *)
  r,                (* the connection each worker has dequeued             *)
  handledRequests,
  reported,         (* the total the SIGINT handler prints                 *)
  connFds,          (* connections whose accepted descriptor is open       *)
  dupFds,           (* connections whose dup'ed descriptor is open         *)
  answered,         (* clients whose answer has been written               *)
  served,           (* connections a worker is done with                   *)
  spurious          (* spurious wake-ups so far                            *)

mainVars == <<pending, mainPc, conn_fd, reported>>
queueVars == <<requestQueue, requestCount, sigintFlag>>
workVars == <<r, handledRequests, answered, served>>
fdVars == <<connFds, dupFds>>
vars == <<mainVars, req_m, queueVars, wpc, workVars, fdVars, spurious>>

LoopPcs == {"accept", "lock", "enqueue", "count", "signal", "unlock"}
HandlerPcs == {"report", "free", "siglock", "flag", "sigunlock", "join", "drain"}
MainPcs == LoopPcs \cup HandlerPcs \cup {"exited", "failed"}

(* Where a worker holds req_m, and where it owns a dequeued connection.    *)
LockedPcs == {"top", "woken", "dequeue", "uncount", "release", "grow"}
ServingPcs == {"read", "register", "growlock", "grow", "parse", "answer", "close"}
WorkerPcs == {"lock", "wait", "rewait", "done"} \cup LockedPcs \cup ServingPcs

Running == mainPc \notin {"exited", "failed"}

-----------------------------------------------------------------------------
(* The worker threads exist before the first accept; the queue is empty.   *)
Init ==
  /\ pending = Conns
  /\ mainPc = "accept" /\ conn_fd = Nobody
  /\ req_m = Nobody
  /\ requestQueue = <<>> /\ requestCount = 0 /\ sigintFlag = 0
  /\ wpc = [w \in Workers |-> "lock"] /\ r = [w \in Workers |-> Nobody]
  /\ handledRequests = 0 /\ reported = 0
  /\ connFds = {} /\ dupFds = {}
  /\ answered = {} /\ served = {}
  /\ spurious = 0

-----------------------------------------------------------------------------
(* The main thread's loop.                                                 *)

MainGoes(from, to) == mainPc = from /\ mainPc' = to

FreeFds == FdLimit - (Cardinality(connFds) + Cardinality(dupFds))

Accept(c) ==
  /\ c \in pending
  /\ FreeFds > 0
  /\ MainGoes("accept", "lock")
  /\ pending' = pending \ {c}
  /\ conn_fd' = c
  /\ connFds' = connFds \cup {c}
  /\ UNCHANGED <<reported, req_m, queueVars, wpc, workVars, dupFds, spurious>>

(* accept fails with EMFILE and the process exits.                         *)
AcceptFails ==
  /\ pending # {}
  /\ ~(FreeFds > 0)
  /\ MainGoes("accept", "failed")
  /\ UNCHANGED <<pending, conn_fd, reported, req_m, queueVars, wpc, workVars,
                 fdVars, spurious>>

MainLock ==
  /\ req_m = Nobody
  /\ MainGoes("lock", "enqueue")
  /\ req_m' = Main
  /\ UNCHANGED <<pending, conn_fd, reported, queueVars, wpc, workVars, fdVars,
                 spurious>>

(* Mutant: the new request is linked in but never counted.                 *)
Enqueue_Uncounted ==
  /\ MainGoes("enqueue", "signal")
  /\ dupFds' = IF FreeFds > 0 THEN dupFds \cup {conn_fd} ELSE dupFds
  /\ requestQueue' = Append(requestQueue, conn_fd)
  /\ conn_fd' = Nobody
  /\ UNCHANGED <<pending, reported, req_m, requestCount, sigintFlag, wpc,
                 workVars, connFds, spurious>>

(* createReqArg dups the descriptor (a failing dup leaves -1 in the        *)
(* request); the accepted one stays open for the life of the process.      *)
Enqueue ==
  /\ MainGoes("enqueue", "count")
  /\ dupFds' = IF FreeFds > 0 THEN dupFds \cup {conn_fd} ELSE dupFds
  /\ requestQueue' = Append(requestQueue, conn_fd)
  /\ conn_fd' = Nobody
  /\ UNCHANGED <<pending, reported, req_m, requestCount, sigintFlag, wpc,
                 workVars, connFds, spurious>>

CountRequest ==
  /\ MainGoes("count", "signal")
  /\ requestCount' = requestCount + 1
  /\ UNCHANGED <<pending, conn_fd, reported, req_m, requestQueue, sigintFlag,
                 wpc, workVars, fdVars, spurious>>

Waiting == {w \in Workers : wpc[w] = "wait"}

(* Mutant: the request is queued without pthread_cond_signal.              *)
Signal_None ==
  /\ MainGoes("signal", "unlock")
  /\ UNCHANGED <<pending, conn_fd, reported, req_m, queueVars, wpc, workVars,
                 fdVars, spurious>>

Signal ==
  /\ MainGoes("signal", "unlock")
  /\ IF Waiting = {} THEN UNCHANGED wpc
     ELSE \E w \in Waiting : wpc' = [wpc EXCEPT ![w] = "rewait"]
  /\ UNCHANGED <<pending, conn_fd, reported, req_m, queueVars, workVars,
                 fdVars, spurious>>

MainUnlock ==
  /\ MainGoes("unlock", "accept")
  /\ req_m' = Nobody
  /\ UNCHANGED <<pending, conn_fd, reported, queueVars, wpc, workVars, fdVars,
                 spurious>>

-----------------------------------------------------------------------------
(* The SIGINT handler, on the main thread; it never returns to the loop.   *)

Interrupt ==
  /\ mainPc \in LoopPcs
  /\ mainPc' = "report"
  /\ UNCHANGED <<pending, conn_fd, reported, req_m, queueVars, wpc, workVars,
                 fdVars, spurious>>

Report ==
  /\ MainGoes("report", "free")
  /\ reported' = handledRequests
  /\ UNCHANGED <<pending, conn_fd, req_m, queueVars, wpc, workVars, fdVars,
                 spurious>>

(* clearAllMemory frees the servants table (see ServantTable) ...          *)
FreeServants ==
  /\ MainGoes("free", "siglock")
  /\ UNCHANGED <<pending, conn_fd, reported, req_m, queueVars, wpc, workVars,
                 fdVars, spurious>>

(* ... then locks req_m, a mutex that is not recursive.                    *)
SigLock ==
  /\ req_m = Nobody
  /\ MainGoes("siglock", "flag")
  /\ req_m' = Main
  /\ UNCHANGED <<pending, conn_fd, reported, queueVars, wpc, workVars, fdVars,
                 spurious>>

(* Mutant: pthread_cond_signal in place of pthread_cond_broadcast.         *)
RaiseFlag_SignalOne ==
  /\ MainGoes("flag", "sigunlock")
  /\ sigintFlag' = sigintFlag + 1
  /\ IF Waiting = {} THEN UNCHANGED wpc
     ELSE \E w \in Waiting : wpc' = [wpc EXCEPT ![w] = "rewait"]
  /\ UNCHANGED <<pending, conn_fd, reported, req_m, requestQueue, requestCount,
                 workVars, fdVars, spurious>>

RaiseFlag ==
  /\ MainGoes("flag", "sigunlock")
  /\ sigintFlag' = sigintFlag + 1
  /\ wpc' = [w \in Workers |-> IF w \in Waiting THEN "rewait" ELSE wpc[w]]
  /\ UNCHANGED <<pending, conn_fd, reported, req_m, requestQueue, requestCount,
                 workVars, fdVars, spurious>>

SigUnlock ==
  /\ MainGoes("sigunlock", "join")
  /\ req_m' = Nobody
  /\ UNCHANGED <<pending, conn_fd, reported, queueVars, wpc, workVars, fdVars,
                 spurious>>

(* Mutant: the handler goes on after joining the first worker.             *)
JoinWorkers_One ==
  /\ \E w \in Workers : wpc[w] = "done"
  /\ MainGoes("join", "drain")
  /\ UNCHANGED <<pending, conn_fd, reported, req_m, queueVars, wpc, workVars,
                 fdVars, spurious>>

JoinWorkers ==
  /\ \A w \in Workers : wpc[w] = "done"
  /\ MainGoes("join", "drain")
  /\ UNCHANGED <<pending, conn_fd, reported, req_m, queueVars, wpc, workVars,
                 fdVars, spurious>>

(* The requests still queued are freed unserved and the process exits,     *)
(* which closes every descriptor.                                          *)
Drain ==
  /\ MainGoes("drain", "exited")
  /\ requestQueue' = <<>>
  /\ connFds' = {} /\ dupFds' = {}
  /\ UNCHANGED <<pending, conn_fd, reported, req_m, requestCount, sigintFlag,
                 wpc, workVars, spurious>>

-----------------------------------------------------------------------------
(* A worker thread.                                                        *)

WorkerGoes(w, from, to) ==
  /\ Running
  /\ wpc[w] = from
  /\ wpc' = [wpc EXCEPT ![w] = to]

WorkerLock(w) ==
  /\ req_m = Nobody
  /\ \/ WorkerGoes(w, "lock", "top")
     \/ WorkerGoes(w, "rewait", "woken")
  /\ req_m' = w
  /\ UNCHANGED <<mainVars, queueVars, workVars, fdVars, spurious>>

Quit(w) ==
  /\ sigintFlag > 0
  /\ \/ WorkerGoes(w, "top", "done")
     \/ WorkerGoes(w, "woken", "done")
  /\ req_m' = Nobody
  /\ UNCHANGED <<mainVars, queueVars, workVars, fdVars, spurious>>

CondWait(w) ==
  /\ sigintFlag = 0 /\ requestCount = 0
  /\ WorkerGoes(w, "top", "wait")
  /\ req_m' = Nobody
  /\ UNCHANGED <<mainVars, queueVars, workVars, fdVars, spurious>>

SpuriousWake(w) ==
  /\ spurious < MaxSpurious
  /\ WorkerGoes(w, "wait", "rewait")
  /\ spurious' = spurious + 1
  /\ UNCHANGED <<mainVars, req_m, queueVars, workVars, fdVars>>

(* Mutant: the early continue of server.c:241-249 keeps the mutex.         *)
GoRound_Holding(w) ==
  /\ sigintFlag = 0 /\ requestCount = 0
  /\ WorkerGoes(w, "woken", "lock")
  /\ UNCHANGED <<mainVars, req_m, queueVars, workVars, fdVars, spurious>>

(* Woken, and another worker has taken the request meanwhile.              *)
GoRound(w) ==
  /\ sigintFlag = 0 /\ requestCount = 0
  /\ WorkerGoes(w, "woken", "lock")
  /\ req_m' = Nobody
  /\ UNCHANGED <<mainVars, queueVars, workVars, fdVars, spurious>>

(* Mutants: a woken worker does not look at requestCount again ...         *)
FindRequest_NoRecheck(w) ==
  /\ sigintFlag = 0
  /\ \/ requestCount > 0 /\ WorkerGoes(w, "top", "dequeue")
     \/ WorkerGoes(w, "woken", "dequeue")
  /\ UNCHANGED <<mainVars, req_m, queueVars, workVars, fdVars, spurious>>

(* ... or at sigintFlag.                                                   *)
FindRequest_NoFlag(w) ==
  /\ requestCount > 0
  /\ \/ sigintFlag = 0 /\ WorkerGoes(w, "top", "dequeue")
     \/ WorkerGoes(w, "woken", "dequeue")
  /\ UNCHANGED <<mainVars, req_m, queueVars, workVars, fdVars, spurious>>

FindRequest(w) ==
  /\ sigintFlag = 0 /\ requestCount > 0
  /\ \/ WorkerGoes(w, "top", "dequeue")
     \/ WorkerGoes(w, "woken", "dequeue")
  /\ UNCHANGED <<mainVars, req_m, queueVars, workVars, fdVars, spurious>>

(* Mutant: q->front is returned but not advanced.                          *)
Dequeue_Peek(w) ==
  /\ WorkerGoes(w, "dequeue", "uncount")
  /\ r' = [r EXCEPT ![w] = IF requestQueue = <<>> THEN Nobody
                           ELSE Head(requestQueue)]
  /\ UNCHANGED <<mainVars, req_m, queueVars, handledRequests, answered, served,
                 fdVars, spurious>>

(* Mutant: the newest request is returned.                                 *)
Dequeue_Newest(w) ==
  /\ WorkerGoes(w, "dequeue", "uncount")
  /\ r' = [r EXCEPT ![w] = IF requestQueue = <<>> THEN Nobody
                           ELSE requestQueue[Len(requestQueue)]]
  /\ requestQueue' = SubSeq(requestQueue, 1, Len(requestQueue) - 1)
  /\ UNCHANGED <<mainVars, req_m, requestCount, sigintFlag, handledRequests,
                 answered, served, fdVars, spurious>>

(* reqDequeue; the caller does not test its result for NULL.               *)
Dequeue(w) ==
  /\ WorkerGoes(w, "dequeue", "uncount")
  /\ r' = [r EXCEPT ![w] = IF requestQueue = <<>> THEN Nobody
                           ELSE Head(requestQueue)]
  /\ requestQueue' = IF requestQueue = <<>> THEN <<>> ELSE Tail(requestQueue)
  /\ UNCHANGED <<mainVars, req_m, requestCount, sigintFlag, handledRequests,
                 answered, served, fdVars, spurious>>

(* Mutant: requestCount-- moved before the recheck of a woken worker.      *)
Uncount_WithoutRequest(w) ==
  /\ \/ WorkerGoes(w, "uncount", "release")
     \/ sigintFlag = 0 /\ requestCount = 0 /\ WorkerGoes(w, "woken", "lock")
  /\ req_m' = IF wpc[w] = "woken" THEN Nobody ELSE req_m
  /\ requestCount' = requestCount - 1
  /\ UNCHANGED <<mainVars, requestQueue, sigintFlag, workVars, fdVars, spurious>>

Uncount(w) ==
  /\ WorkerGoes(w, "uncount", "release")
  /\ requestCount' = requestCount - 1
  /\ UNCHANGED <<mainVars, req_m, requestQueue, sigintFlag, workVars, fdVars,
                 spurious>>

Release(w) ==
  /\ WorkerGoes(w, "release", "read")
  /\ req_m' = Nobody
  /\ UNCHANGED <<mainVars, queueVars, workVars, fdVars, spurious>>

(* The first byte tells a servant from a client.                           *)
ReadKind(w) ==
  /\ r[w] \in dupFds
  /\ \/ r[w] \in Servants /\ WorkerGoes(w, "read", "register")
     \/ r[w] \in Clients /\ WorkerGoes(w, "read", "parse")
  /\ UNCHANGED <<mainVars, req_m, queueVars, workVars, fdVars, spurious>>

(* read on descriptor -1 fails and the worker exits the process.           *)
ReadFails(w) ==
  /\ Running
  /\ wpc[w] = "read" /\ r[w] \notin dupFds
  /\ mainPc' = "failed"
  /\ UNCHANGED <<pending, conn_fd, reported, req_m, queueVars, wpc, workVars,
                 fdVars, spurious>>

(* The record is stored; it may have been the one that fills the table.    *)
Register(w) ==
  /\ \/ WorkerGoes(w, "register", "close")
     \/ WorkerGoes(w, "register", "growlock")
  /\ UNCHANGED <<mainVars, req_m, queueVars, workVars, fdVars, spurious>>

(* increaseServantCacheSize replaces the full table under req_m.           *)
GrowLock(w) ==
  /\ req_m = Nobody
  /\ WorkerGoes(w, "growlock", "grow")
  /\ req_m' = w
  /\ UNCHANGED <<mainVars, queueVars, workVars, fdVars, spurious>>

GrowUnlock(w) ==
  /\ WorkerGoes(w, "grow", "close")
  /\ req_m' = Nobody
  /\ UNCHANGED <<mainVars, queueVars, workVars, fdVars, spurious>>

(* handleClientRequest counts the query when it has been read ...          *)
CountHandled(w) ==
  /\ WorkerGoes(w, "parse", "answer")
  /\ handledRequests' = handledRequests + 1
  /\ UNCHANGED <<mainVars, req_m, queueVars, r, answered, served, fdVars,
                 spurious>>

(* ... and later writes the answer ...                                     *)
Answer(w) ==
  /\ WorkerGoes(w, "answer", "close")
  /\ answered' = answered \cup {r[w]}
  /\ UNCHANGED <<mainVars, req_m, queueVars, r, handledRequests, served, fdVars,
                 spurious>>

(* ... or exits the process: no descriptor is left for the socket to a     *)
(* servant, its address is damaged, or it resets the connection.           *)
AskFails(w) ==
  /\ Running
  /\ wpc[w] = "answer"
  /\ mainPc' = "failed"
  /\ UNCHANGED <<pending, conn_fd, reported, req_m, queueVars, wpc, workVars,
                 fdVars, spurious>>

(* close(r->fd); free(r); and back to the top of the loop.                 *)
Close(w) ==
  /\ WorkerGoes(w, "close", "lock")
  /\ dupFds' = dupFds \ {r[w]}
  /\ served' = served \cup {r[w]}
  /\ r' = [r EXCEPT ![w] = Nobody]
  /\ UNCHANGED <<mainVars, req_m, queueVars, handledRequests, answered, connFds,
                 spurious>>

-----------------------------------------------------------------------------
AcceptLoop ==
  \/ \E c \in Conns : Accept(c)
  \/ AcceptFails \/ MainLock \/ Enqueue \/ CountRequest \/ Signal \/ MainUnlock

SigintHandler ==
  \/ Report \/ FreeServants \/ SigLock \/ RaiseFlag \/ SigUnlock
  \/ JoinWorkers \/ Drain

RequestHandlerThread(w) ==
  \/ WorkerLock(w) \/ Quit(w) \/ CondWait(w) \/ GoRound(w) \/ FindRequest(w)
  \/ Dequeue(w) \/ Uncount(w) \/ Release(w) \/ ReadKind(w) \/ ReadFails(w)
  \/ Register(w) \/ GrowLock(w) \/ GrowUnlock(w) \/ CountHandled(w)
  \/ Answer(w) \/ AskFails(w) \/ Close(w)

Next ==
  \/ AcceptLoop
  \/ Interrupt
  \/ SigintHandler
  \/ \E w \in Workers : RequestHandlerThread(w) \/ SpuriousWake(w)

Spec == Init /\ [][Next]_vars

(* Threads are scheduled fairly, peers and servants answer (a servant that *)
(* two workers ask at once may leave one of them without an answer: that   *)
(* is in ServantTable and Cluster); nobody has to connect or to press      *)
(* Ctrl-C, and no wake-up has to be spurious.                              *)
Fairness ==
  /\ WF_vars(MainLock \/ Enqueue \/ CountRequest \/ Signal \/ MainUnlock)
  /\ WF_vars(SigintHandler)
  /\ \A w \in Workers : WF_vars(RequestHandlerThread(w))

FairSpec == Spec /\ Fairness

-----------------------------------------------------------------------------
(* Every variable keeps its type; requestCount never goes below zero.      *)
TypeOK ==
  /\ pending \subseteq Conns
  /\ mainPc \in MainPcs
  /\ conn_fd \in Conns \cup {Nobody}
  /\ req_m \in Threads \cup {Nobody}
  /\ requestQueue \in Seq(Conns)
  /\ requestCount \in Nat /\ sigintFlag \in Nat
  /\ wpc \in [Workers -> WorkerPcs]
  /\ r \in [Workers -> Conns \cup {Nobody}]
  /\ handledRequests \in Nat /\ reported \in Nat /\ spurious \in Nat
  /\ connFds \subseteq Conns /\ dupFds \subseteq Conns
  /\ answered \subseteq Conns /\ served \subseteq Conns

(* Mutual exclusion of all sections under req_m, the growth of the servants *)
(* table included: a worker is in one exactly when it owns the mutex, so it *)
(* gives it back on every way out; and the main thread owns it in its own.  *)
(* (The converse fails for the main thread: a SIGINT handler that starts    *)
(* inside a section keeps the mutex.)                                       *)
MainLockedPcs == {"enqueue", "count", "signal", "unlock", "flag", "sigunlock"}

MutexOK ==
  /\ \A w \in Workers : wpc[w] \in LockedPcs <=> req_m = w
  /\ mainPc \in MainLockedPcs => req_m = Main

(* The counter and the list are kept in step across main's and the workers' *)
(* sections, so that reqDequeue never returns the NULL its caller does not  *)
(* test for.                                                                *)
DequeueFindsRequest ==
  \A w \in Workers : wpc[w] = "dequeue" => requestQueue # <<>>

(* No accepted connection is lost or handled twice: it is in exactly one of *)
(* the main thread's hand, one place of the queue, one worker's hand, or    *)
(* the set of connections that have been closed.                            *)
Queued == {requestQueue[i] : i \in 1..Len(requestQueue)}
InHand == {r[w] : w \in Workers} \ {Nobody}

ExactlyOnce ==
  /\ \A i, j \in 1..Len(requestQueue) :
        requestQueue[i] = requestQueue[j] => i = j
  /\ \A v, w \in Workers : r[v] = r[w] /\ r[v] # Nobody => v = w
  /\ Queued \cap InHand = {}
  /\ served \cap (Queued \cup InHand) = {}
  /\ conn_fd \notin Queued \cup InHand \cup served
  /\ Running =>
       connFds = Queued \cup InHand \cup served \cup ({conn_fd} \ {Nobody})

(* No wake-up is lost.  Outside main's own section, a queued request means  *)
(* that some worker is not asleep; and once the SIGINT flag is up no worker *)
(* sleeps, or the handler would wait for it in pthread_join for ever.       *)
NoLostWakeup ==
  /\ requestCount > 0 /\ req_m # Main => \E w \in Workers : wpc[w] # "wait"
  /\ sigintFlag > 0 => Waiting = {}

(* Once the SIGINT flag is up no worker takes another request: the queue    *)
(* only changes when the handler frees it.                                  *)
NoWorkAfterSigint ==
  [][sigintFlag > 0 => requestQueue' = requestQueue \/ mainPc' = "exited"]_vars

(* The queue is freed, and the process exits successfully, only after every *)
(* worker has returned and every dequeued connection has been closed.       *)
JoinBeforeFree ==
  mainPc \in {"drain", "exited"} =>
    \A w \in Workers : wpc[w] = "done" /\ r[w] = Nobody

(* The pool implements the Dispatcher: the main thread submits at           *)
(* reqEnqueue, a worker takes at reqDequeue and finishes at free(r), and    *)
(* the SIGINT handler shuts at sigintFlag++ and discards when it exits.     *)
Promise == INSTANCE Dispatcher WITH
  arriving <- pending \cup ({conn_fd} \ {Nobody}),
  queue <- requestQueue,
  serving <- InHand,
  finished <- served,
  phase <- IF mainPc = "exited" THEN "closed"
           ELSE IF sigintFlag > 0 THEN "closing" ELSE "open"

ImplementsDispatcher == Promise!Spec

(* A queued connection is served, unless SIGINT arrives or the process runs *)
(* out of descriptors.                                                      *)
QueuedIsServed ==
  \A c \in Conns : c \in Queued ~> c \in served \/ mainPc \notin LoopPcs

(* A SIGINT that does not interrupt the main thread's own section under     *)
(* req_m ends the process.                                                  *)
ShutdownCompletes == mainPc = "report" /\ req_m # Main ~> ~Running

(* What the README says of SIGINT: the server terminates.  Not so when the  *)
(* signal arrives between server.c:176 and server.c:193.                    *)
GracefulTermination == mainPc = "report" ~> ~Running
=============================================================================
