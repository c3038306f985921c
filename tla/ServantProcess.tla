--------------------------- MODULE ServantProcess ---------------------------
(***************************************************************************)
(* A servant process once it has registered (servant.c): the main thread   *)
(* accepts the server's connections and starts a thread for each           *)
(* (handleIncomingRequests), the threads answer (handleServerRequests),    *)
(* and the SIGINT handler runs on the main thread.                         *)
(*                                                                         *)
(* The answer is formatted in `line', one global buffer of the process.    *)
(* The sections under param_m only touch handledRequestCount and are one   *)
(* step each.  The answer to connection c is written as c itself.          *)
(***************************************************************************)
EXTENDS Integers, FiniteSets

CONSTANTS
  Conns,        (* the connections the server opens, one per question      *)
  MaxOpen,      (* how many questions the server asks at a time            *)
  Capacity,     (* initial capacity of the thread table (256 in the code)  *)
  FdLimit,      (* descriptors the process may use for its connections     *)
  Empty, Text   (* contents of line: nothing, and a message to the user    *)

ASSUME ServantAssumption ==
  /\ IsFiniteSet(Conns) /\ {Empty, Text} \cap Conns = {} /\ Empty # Text
  /\ MaxOpen \in Nat \ {0} /\ Capacity \in Nat \ {0} /\ FdLimit \in Nat

VARIABLES
  connecting,           (* opened by the server, not yet accepted          *)
  replied,              (* what each connection's peer has been sent       *)
  mainPc,
  conn_fd,              (* the connection main is starting a thread for    *)
  t,                    (* threads->t : the thread at each index           *)
  tLive,                (* threads->t points to memory that is not freed   *)
  count, capacity,      (* threads->count and threads->capacity            *)
  tpc,                  (* what the thread of each connection does next    *)
  connFds, dupFds,      (* connections with an accepted, a dup'ed fd open  *)
  line,
  handledRequestCount,
  reported,             (* the total the SIGINT handler prints             *)
  datasetLive,
  fault

peerVars == <<connecting, replied>>
threadsVars == <<t, tLive, count, capacity>>
fdVars == <<connFds, dupFds>>
countVars == <<handledRequestCount, reported>>
dataVars == <<datasetLive, fault>>
vars == <<peerVars, mainPc, conn_fd, threadsVars, tpc, fdVars, line, countVars,
          dataVars>>

LoopPcs == {"accept", "create", "count", "room", "copy", "install"}
HandlerPcs == {"report", "free", "close", "join"}
ThreadPcs == {"none", "count", "read", "search", "clear", "format", "write",
              "close", "done"}

Running == mainPc \notin {"exited", "failed"} /\ fault = "none"
Interrupted == mainPc \in HandlerPcs \cup {"exited"}
Started == {c \in Conns : tpc[c] # "none"}
Recorded == {t[i] : i \in 0..count-1}
FreeFds == FdLimit - (Cardinality(connFds) + Cardinality(dupFds))

Init ==
  /\ connecting = {} /\ replied = [c \in Conns |-> Empty]
  /\ mainPc = "accept" /\ conn_fd = Empty
  /\ t = [i \in 0..Capacity-1 |-> Empty] /\ tLive = TRUE
  /\ count = 0 /\ capacity = Capacity
  /\ tpc = [c \in Conns |-> "none"]
  /\ connFds = {} /\ dupFds = {}
  /\ line = Text
  /\ handledRequestCount = 0 /\ reported = 0
  /\ datasetLive = TRUE /\ fault = "none"

MainGoes(from, to) == Running /\ mainPc = from /\ mainPc' = to

ThreadGoes(c, from, to) ==
  Running /\ tpc[c] = from /\ tpc' = [tpc EXCEPT ![c] = to]

-----------------------------------------------------------------------------
(* The server connects, within the number of questions it asks at a time.  *)
Unanswered == {c \in Started \cup connecting \cup ({conn_fd} \ {Empty}) :
                 replied[c] = Empty}

Connect(c) ==
  /\ Running
  /\ c \notin Started \cup connecting \cup connFds
  /\ Cardinality(Unanswered) < MaxOpen
  /\ connecting' = connecting \cup {c}
  /\ UNCHANGED <<replied, mainPc, conn_fd, threadsVars, tpc, fdVars, line,
                 countVars, dataVars>>

-----------------------------------------------------------------------------
(* The main thread.                                                        *)

Accept(c) ==
  /\ c \in connecting /\ connecting' = connecting \ {c}
  /\ FreeFds > 0
  /\ MainGoes("accept", "create")
  /\ conn_fd' = c /\ connFds' = connFds \cup {c}
  /\ UNCHANGED <<replied, threadsVars, tpc, dupFds, line, countVars, dataVars>>

AcceptFails ==
  /\ connecting # {} /\ ~(FreeFds > 0)
  /\ MainGoes("accept", "failed")
  /\ UNCHANGED <<peerVars, conn_fd, threadsVars, tpc, fdVars, line, countVars,
                 dataVars>>

(* The descriptor is dup'ed and the accepted one never closed; the thread  *)
(* runs from here on, before it is counted.                                *)
CreateThread ==
  /\ MainGoes("create", "count")
  /\ t' = [t EXCEPT ![count] = conn_fd]
  /\ tpc' = [tpc EXCEPT ![conn_fd] = "count"]
  /\ dupFds' = IF FreeFds > 0 THEN dupFds \cup {conn_fd} ELSE dupFds
  /\ conn_fd' = Empty
  /\ UNCHANGED <<peerVars, tLive, count, capacity, connFds, line, countVars,
                 dataVars>>

CountThread ==
  /\ MainGoes("count", "room")
  /\ count' = count + 1
  /\ UNCHANGED <<peerVars, conn_fd, t, tLive, capacity, tpc, fdVars, line,
                 countVars, dataVars>>

ResizeIf(full) ==
  /\ \/ full /\ MainGoes("room", "copy")
     \/ ~full /\ MainGoes("room", "accept")
  /\ UNCHANGED <<peerVars, conn_fd, threadsVars, tpc, fdVars, line, countVars,
                 dataVars>>

(* Mutant: > in place of >=.                                               *)
Room_OffByOne == ResizeIf(count > capacity)

Room == ResizeIf(count >= capacity)

(* resizeServantThreads frees the old array before it sets the new one.    *)
ResizeFree ==
  /\ MainGoes("copy", "install")
  /\ tLive' = FALSE
  /\ UNCHANGED <<peerVars, conn_fd, t, count, capacity, tpc, fdVars, line,
                 countVars, dataVars>>

(* Mutant: threads->t is left pointing to the array that was freed.        *)
ResizeInstall_Not ==
  /\ MainGoes("install", "accept")
  /\ capacity' = 2 * capacity
  /\ t' = [i \in 0..2*capacity-1 |-> IF i < count THEN t[i] ELSE Empty]
  /\ UNCHANGED <<peerVars, conn_fd, tLive, count, tpc, fdVars, line, countVars,
                 dataVars>>

ResizeInstall ==
  /\ MainGoes("install", "accept")
  /\ tLive' = TRUE /\ capacity' = 2 * capacity
  /\ t' = [i \in 0..2*capacity-1 |-> IF i < count THEN t[i] ELSE Empty]
  /\ UNCHANGED <<peerVars, conn_fd, count, tpc, fdVars, line, countVars,
                 dataVars>>

-----------------------------------------------------------------------------
(* The SIGINT handler.                                                     *)

Interrupt ==
  /\ Running /\ mainPc \in LoopPcs
  /\ mainPc' = "report"
  /\ line' = Empty
  /\ UNCHANGED <<peerVars, conn_fd, threadsVars, tpc, fdVars, countVars,
                 dataVars>>

Report ==
  /\ MainGoes("report", "free")
  /\ reported' = handledRequestCount /\ line' = Text
  /\ UNCHANGED <<peerVars, conn_fd, threadsVars, tpc, fdVars,
                 handledRequestCount, dataVars>>

FreeDataset ==
  /\ MainGoes("free", "close")
  /\ datasetLive' = FALSE
  /\ UNCHANGED <<peerVars, conn_fd, threadsVars, tpc, fdVars, line, countVars,
                 fault>>

(* close(servantFd): the descriptor it was dup'ed from stays open, so the  *)
(* socket goes on listening and nothing is refused.                        *)
CloseSocket ==
  /\ MainGoes("close", "join")
  /\ UNCHANGED <<peerVars, conn_fd, threadsVars, tpc, fdVars, line, countVars,
                 dataVars>>

JoinThreads ==
  /\ Running /\ mainPc = "join"
  /\ \/ /\ tLive /\ \A c \in Recorded : tpc[c] = "done"
        /\ mainPc' = "exited" /\ UNCHANGED fault
     \/ ~tLive /\ fault' = "threads freed" /\ UNCHANGED mainPc
  /\ UNCHANGED <<peerVars, conn_fd, threadsVars, tpc, fdVars, line, countVars,
                 datasetLive>>

-----------------------------------------------------------------------------
(* The thread of connection c.                                             *)

(* Mutant: handledRequestCount++ is not reached.                           *)
CountRequest_Not(c) ==
  /\ ThreadGoes(c, "count", "read")
  /\ UNCHANGED <<peerVars, mainPc, conn_fd, threadsVars, fdVars, line,
                 countVars, dataVars>>

CountRequest(c) ==
  /\ ThreadGoes(c, "count", "read")
  /\ handledRequestCount' = handledRequestCount + 1
  /\ UNCHANGED <<peerVars, mainPc, conn_fd, threadsVars, fdVars, line,
                 reported, dataVars>>

(* Mutant: '*' does not end the request, and the server sends nothing more. *)
ReadRequest_ToEof(c) ==
  /\ c \notin dupFds
  /\ ThreadGoes(c, "read", "search")
  /\ mainPc' = "failed"
  /\ UNCHANGED <<peerVars, conn_fd, threadsVars, fdVars, line, countVars,
                 dataVars>>

(* readRequest; on the descriptor of a failed dup it exits the process.    *)
ReadRequest(c) ==
  /\ ThreadGoes(c, "read", "search")
  /\ mainPc' = IF c \in dupFds THEN mainPc ELSE "failed"
  /\ UNCHANGED <<peerVars, conn_fd, threadsVars, fdVars, line, countVars,
                 dataVars>>

(* transactionCount(WithCity) walks the dataset.                           *)
Search(c) ==
  /\ ThreadGoes(c, "search", "clear")
  /\ fault' = IF datasetLive THEN "none" ELSE "dataset freed"
  /\ UNCHANGED <<peerVars, mainPc, conn_fd, threadsVars, fdVars, line,
                 countVars, datasetLive>>

ClearLine(c) ==
  /\ ThreadGoes(c, "clear", "format")
  /\ line' = Empty
  /\ UNCHANGED <<peerVars, mainPc, conn_fd, threadsVars, fdVars, countVars,
                 dataVars>>

Format(c) ==
  /\ ThreadGoes(c, "format", "write")
  /\ line' = c
  /\ UNCHANGED <<peerVars, mainPc, conn_fd, threadsVars, fdVars, countVars,
                 dataVars>>

(* An empty line writes nothing.                                           *)
Write(c) ==
  /\ ThreadGoes(c, "write", "close")
  /\ replied' = [replied EXCEPT ![c] = line]
  /\ UNCHANGED <<connecting, mainPc, conn_fd, threadsVars, fdVars, line,
                 countVars, dataVars>>

Close(c) ==
  /\ ThreadGoes(c, "close", "done")
  /\ dupFds' = dupFds \ {c}
  /\ UNCHANGED <<peerVars, mainPc, conn_fd, threadsVars, connFds, line,
                 countVars, dataVars>>

-----------------------------------------------------------------------------
HandleIncomingRequests ==
  \/ \E c \in Conns : Accept(c)
  \/ AcceptFails \/ CreateThread \/ CountThread \/ Room \/ ResizeFree
  \/ ResizeInstall

SigintHandler == Report \/ FreeDataset \/ CloseSocket \/ JoinThreads

HandleServerRequests(c) ==
  \/ CountRequest(c) \/ ReadRequest(c) \/ Search(c) \/ ClearLine(c) \/ Format(c)
  \/ Write(c) \/ Close(c)

Next ==
  \/ \E c \in Conns : Connect(c) \/ HandleServerRequests(c)
  \/ HandleIncomingRequests \/ Interrupt \/ SigintHandler

Spec == Init /\ [][Next]_vars

(* Threads are scheduled fairly, and the server sends what it connected    *)
(* for; nobody has to connect or to press Ctrl-C.                          *)
FairSpec ==
  /\ Spec
  /\ WF_vars(HandleIncomingRequests) /\ WF_vars(SigintHandler)
  /\ \A c \in Conns : WF_vars(HandleServerRequests(c))

-----------------------------------------------------------------------------
(* The types; the descriptors stay within the limit, also while every      *)
(* accepted one leaks.                                                     *)
TypeOK ==
  /\ connecting \subseteq Conns /\ replied \in [Conns -> Conns \cup {Empty, Text}]
  /\ mainPc \in LoopPcs \cup HandlerPcs \cup {"exited", "failed"}
  /\ conn_fd \in Conns \cup {Empty}
  /\ t \in [0..capacity-1 -> Conns \cup {Empty}]
  /\ tLive \in BOOLEAN /\ count \in 0..capacity /\ capacity \in Nat
  /\ tpc \in [Conns -> ThreadPcs]
  /\ connFds \subseteq Conns /\ dupFds \subseteq Conns /\ FreeFds >= 0
  /\ line \in Conns \cup {Empty, Text}
  /\ handledRequestCount \in Nat /\ reported \in 0..handledRequestCount
  /\ datasetLive \in BOOLEAN
  /\ fault \in {"none", "dataset freed", "threads freed"}

(* Every thread that runs is in the table once, where the SIGINT handler   *)
(* will join it, except one that main has started but not counted yet; and *)
(* there is room for the next.                                             *)
ThreadsRecorded ==
  /\ Recorded \subseteq Started
  /\ Cardinality(Recorded) = count
  /\ Cardinality(Started \ Recorded) <= 1
  /\ mainPc \in {"room", "copy", "install", "accept", "create"} => Recorded = Started
  /\ mainPc \in {"accept", "create"} => count < capacity

(* Every answer is counted before it is sent; the report leaves no answer  *)
(* out that had been sent by then.                                         *)
CountedBeforeAnswered ==
  Cardinality({c \in Conns : tpc[c] \in {"close", "done"}}) <= handledRequestCount

(* Memory is misused only in the SIGINT handler's wake: the dataset is     *)
(* freed before the threads are joined, and the handler may have            *)
(* interrupted resizeServantThreads.                                       *)
FaultsExplained ==
  /\ fault # "none" => Interrupted
  /\ fault = "dataset freed" => ~datasetLive
  /\ fault = "threads freed" => count >= capacity

(* README: the process terminates when it receives SIGINT.  It does, in    *)
(* the handler or through the memory the handler has freed.                *)
SigintTerminates == mainPc = "report" ~> ~Running

(* A question whose connection was accepted gets its answer unless SIGINT   *)
(* arrives or the descriptors run out.                                     *)
QuestionAnswered ==
  \A c \in Conns : c \in connFds ~> replied[c] # Empty \/ mainPc \notin LoopPcs

(* What the server relies on, for any number of questions at a time.       *)
RepliesAreOwn == \A c \in Conns : replied[c] \in {Empty, c} \/ Interrupted
=============================================================================
