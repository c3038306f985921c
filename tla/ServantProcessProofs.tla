------------------------ MODULE ServantProcessProofs ------------------------
(***************************************************************************)
(* Safety of a servant for every number of questions, at once or one after *)
(* another, every initial size of the thread table and every number of     *)
(* descriptors.                                                            *)
(*                                                                         *)
(* That the table has room when a thread is started rests on where main    *)
(* stands (TableInv); that a thread is recorded once rests on a connection *)
(* being in one place (PeerInv).  A SIGINT leaves everything as it was     *)
(* between two steps of main, so that what is promised of the handler has  *)
(* to hold at each of them (MemoryInv).                                    *)
(***************************************************************************)
EXTENDS ServantProcess, FiniteSetTheorems, TLAPS

(* The table: main records a thread by the step after it has started it.   *)
TableInv ==
  /\ capacity > 0
  /\ \A k \in 0..count-1 : t[k] \in Started
  /\ \A j, k \in 0..count-1 : t[j] = t[k] => j = k
  /\ mainPc \in {"accept", "create", "count"} => count < capacity
  /\ mainPc \in LoopPcs \ {"count"} => Started = Recorded
  /\ mainPc = "count" =>
       t[count] \in Started \ Recorded /\ Started = Recorded \cup {t[count]}
  /\ \E c \in Conns \cup {Empty} : Started \ Recorded \subseteq {c}

(* A connection waits to be accepted, is in main's hand, or has a thread.  *)
PeerInv ==
  /\ connecting \cap Started = {}
  /\ mainPc = "create" => conn_fd \in connFds \ (Started \cup connecting)

Counted == {c \in Conns : tpc[c] \notin {"none", "count"}}

CountInv == handledRequestCount = Cardinality(Counted)

(* When memory is gone, and that the process stops where it misses it.     *)
MemoryInv ==
  /\ ~datasetLive => mainPc \notin LoopPcs \cup {"report", "free"}
  /\ mainPc \in {"copy", "install"} => count >= capacity
  /\ mainPc \in LoopPcs \ {"install"} => tLive
  /\ ~tLive => count >= capacity
  /\ fault # "none" => Interrupted
  /\ fault = "dataset freed" => ~datasetLive
  /\ fault = "threads freed" => ~tLive

IInv == TypeOK /\ TableInv /\ PeerInv /\ CountInv /\ MemoryInv

-----------------------------------------------------------------------------
LEMMA FiniteConns ==
  ASSUME NEW S, S \subseteq Conns
  PROVE  /\ IsFiniteSet(S) /\ Cardinality(S) \in Nat
         /\ \A c : c \notin S => Cardinality(S \cup {c}) = Cardinality(S) + 1
         /\ \A c : /\ Cardinality(S \cup {c}) \in Nat
                   /\ Cardinality(S \cup {c}) <= Cardinality(S) + 1
                   /\ Cardinality(S \ {c}) \in Nat
                   /\ Cardinality(S \ {c}) <= Cardinality(S)
  <1>1. IsFiniteSet(S)
    BY ServantAssumption, FS_Subset
  <1>2. Cardinality(S) \in Nat
    BY <1>1, FS_CardinalityType
  <1>3. ASSUME NEW c
        PROVE  /\ Cardinality(S \cup {c}) = IF c \in S THEN Cardinality(S)
                                            ELSE Cardinality(S) + 1
               /\ Cardinality(S \ {c}) = IF c \in S THEN Cardinality(S) - 1
                                         ELSE Cardinality(S)
               /\ Cardinality(S \ {c}) \in Nat
    <2>1. IsFiniteSet(S \ {c})
      BY <1>1, FS_RemoveElement
    <2> QED BY <1>1, <2>1, FS_AddElement, FS_RemoveElement, FS_CardinalityType
  <1> QED BY <1>1, <1>2, <1>3

(* The case split shared by the induction steps.                           *)
LEMMA NextCases ==
  ASSUME [Next]_vars
  PROVE  \/ \E c \in Conns : Connect(c) \/ Accept(c)
         \/ AcceptFails \/ CreateThread \/ CountThread \/ Room \/ ResizeFree
         \/ ResizeInstall \/ Interrupt \/ Report \/ FreeDataset \/ CloseSocket
         \/ JoinThreads
         \/ \E c \in Conns :
              \/ CountRequest(c) \/ ReadRequest(c) \/ Search(c) \/ ClearLine(c)
              \/ Format(c) \/ Write(c) \/ Close(c)
         \/ UNCHANGED vars
  BY DEF Next, HandleIncomingRequests, SigintHandler, HandleServerRequests

LEMMA InitIInv == Init => IInv
  <1> SUFFICES ASSUME Init PROVE IInv
    OBVIOUS
  <1> USE ServantAssumption DEF Init
  <1>1. Started = {} /\ Recorded = {} /\ Counted = {}
    BY DEF Started, Recorded, Counted
  <1>2. Cardinality({}) = 0
    BY FS_EmptySet
  <1>3. TypeOK
    BY <1>2 DEF TypeOK, LoopPcs, HandlerPcs, ThreadPcs, FreeFds
  <1>4. TableInv /\ PeerInv
    BY <1>1 DEF TableInv, PeerInv, LoopPcs
  <1>5. CountInv /\ MemoryInv
    BY <1>1, <1>2 DEF CountInv, MemoryInv
  <1> QED BY <1>3, <1>4, <1>5 DEF IInv

-----------------------------------------------------------------------------
(* A step that opens a descriptor does it while one is left.               *)
LEMMA FdArith ==
  ASSUME NEW m \in Nat, NEW n \in Nat, NEW m2 \in Nat, NEW n2 \in Nat,
         FdLimit - (m + n) >= 0,
         \/ m2 + n2 <= m + n
         \/ FdLimit - (m + n) > 0 /\ m2 + n2 <= m + n + 1
  PROVE  FdLimit - (m2 + n2) >= 0
  BY ServantAssumption

(* The descriptors: each step opens one at most, and only when one is left.*)
LEMMA FdStep ==
  ASSUME TypeOK, PeerInv, [Next]_vars
  PROVE  connFds' \subseteq Conns /\ dupFds' \subseteq Conns /\ FreeFds' >= 0
  <1> DEFINE FdsOK == connFds \subseteq Conns /\ dupFds \subseteq Conns /\ FreeFds >= 0
  <1>1. FdsOK /\ Cardinality(connFds) \in Nat /\ Cardinality(dupFds) \in Nat
    BY FiniteConns, ServantAssumption DEF TypeOK, FreeFds
  <1>2. ASSUME UNCHANGED fdVars
        PROVE  FdsOK'
    BY <1>1, <1>2 DEF fdVars, FreeFds
  <1>3. ASSUME NEW c \in Conns, Accept(c)
        PROVE  FdsOK'
    <2>1. connFds' = connFds \cup {c} /\ dupFds' = dupFds /\ FreeFds > 0
      BY <1>3 DEF Accept
    <2>2. PICK m2 \in Nat : m2 = Cardinality(connFds') /\ m2 <= Cardinality(connFds) + 1
      BY <1>1, <2>1, FiniteConns
    <2> QED BY <1>1, <2>1, <2>2, FdArith DEF FreeFds
  <1>4. CASE CreateThread
    <2>1. conn_fd \in Conns /\ connFds' = connFds
      BY <1>1, <1>4 DEF CreateThread, MainGoes, PeerInv
    <2>2. CASE FreeFds > 0 /\ dupFds' = dupFds \cup {conn_fd}
      <3>1. PICK n2 \in Nat : n2 = Cardinality(dupFds') /\ n2 <= Cardinality(dupFds) + 1
        BY <1>1, <2>2, FiniteConns
      <3> QED BY <1>1, <2>1, <2>2, <3>1, FdArith DEF FreeFds
    <2>3. CASE dupFds' = dupFds
      BY <1>1, <2>1, <2>3 DEF FreeFds
    <2> QED BY <1>4, <2>2, <2>3 DEF CreateThread
  <1>5. ASSUME NEW c \in Conns, Close(c)
        PROVE  FdsOK'
    <2>1. connFds' = connFds /\ dupFds' = dupFds \ {c}
      BY <1>5 DEF Close
    <2>2. PICK n2 \in Nat : n2 = Cardinality(dupFds') /\ n2 <= Cardinality(dupFds)
      BY <1>1, <2>1, FiniteConns
    <2> QED BY <1>1, <2>1, <2>2, FdArith DEF FreeFds
  <1>6. CASE \/ AcceptFails \/ CountThread \/ Room \/ ResizeFree \/ ResizeInstall
             \/ Interrupt \/ Report \/ FreeDataset \/ CloseSocket \/ JoinThreads
             \/ UNCHANGED vars
    BY <1>2, <1>6 DEF AcceptFails, CountThread, Room, ResizeIf, ResizeFree,
       ResizeInstall, Interrupt, Report, FreeDataset, CloseSocket, JoinThreads, vars
  <1>7. ASSUME NEW c \in Conns,
               \/ Connect(c) \/ CountRequest(c) \/ ReadRequest(c) \/ Search(c)
               \/ ClearLine(c) \/ Format(c) \/ Write(c)
        PROVE  UNCHANGED fdVars
    BY <1>7 DEF Connect, CountRequest, ReadRequest, Search, ClearLine, Format, Write
  <1> QED BY <1>2, <1>3, <1>4, <1>5, <1>6, <1>7, NextCases

(* The types of the table and the rest of them, without the descriptors.   *)
TableTypes ==
  /\ t \in [0..capacity-1 -> Conns \cup {Empty}]
  /\ tLive \in BOOLEAN /\ count \in 0..capacity /\ capacity \in Nat

MainTypes ==
  /\ connecting \subseteq Conns
  /\ mainPc \in LoopPcs \cup HandlerPcs \cup {"exited", "failed"}
  /\ conn_fd \in Conns \cup {Empty}
  /\ datasetLive \in BOOLEAN

ThreadTypes ==
  /\ tpc \in [Conns -> ThreadPcs]
  /\ replied \in [Conns -> Conns \cup {Empty, Text}]
  /\ line \in Conns \cup {Empty, Text}
  /\ handledRequestCount \in Nat /\ reported \in 0..handledRequestCount
  /\ fault \in {"none", "dataset freed", "threads freed"}

LEMMA TableTypeStep ==
  ASSUME TypeOK, TableInv, PeerInv, [Next]_vars
  PROVE  TableTypes'
  <1>1. TableTypes
    BY DEF TypeOK, TableTypes
  <1>2. ASSUME UNCHANGED threadsVars
        PROVE  TableTypes'
    BY <1>1, <1>2 DEF TableTypes, threadsVars
  <1>3. CASE CreateThread
    <2>1. conn_fd \in Conns /\ count \in 0..capacity-1
      <3>1. mainPc = "create" /\ conn_fd \in Conns
        BY <1>3 DEF CreateThread, MainGoes, PeerInv, TypeOK
      <3>2. count < capacity
        BY <3>1 DEF TableInv
      <3> QED BY <1>1, <3>1, <3>2 DEF TableTypes
    <2>2. t' = [t EXCEPT ![count] = conn_fd] /\ UNCHANGED <<tLive, count, capacity>>
      BY <1>3 DEF CreateThread
    <2>3. t' \in [0..capacity-1 -> Conns \cup {Empty}]
      BY <1>1, <2>1, <2>2 DEF TableTypes
    <2> QED BY <1>1, <2>2, <2>3 DEF TableTypes
  <1>4. CASE CountThread
    <2>1. count < capacity /\ count' = count + 1 /\ t' = t /\ tLive' = tLive
          /\ capacity' = capacity
      BY <1>4 DEF CountThread, MainGoes, TableInv
    <2> QED BY <1>1, <2>1 DEF TableTypes
  <1>5. CASE ResizeFree
    BY <1>1, <1>5 DEF ResizeFree, TableTypes
  <1>6. CASE ResizeInstall
    BY <1>1, <1>6 DEF ResizeInstall, TableTypes
  <1>7. CASE \/ AcceptFails \/ Room \/ Interrupt \/ Report \/ FreeDataset
             \/ CloseSocket \/ JoinThreads \/ UNCHANGED vars
    BY <1>2, <1>7 DEF AcceptFails, Room, ResizeIf, Interrupt, Report, FreeDataset,
       CloseSocket, JoinThreads, vars
  <1>8. ASSUME NEW c \in Conns,
               \/ Connect(c) \/ Accept(c) \/ CountRequest(c) \/ ReadRequest(c)
               \/ Search(c) \/ ClearLine(c) \/ Format(c) \/ Write(c) \/ Close(c)
        PROVE  UNCHANGED threadsVars
    BY <1>8 DEF Connect, Accept, CountRequest, ReadRequest, Search, ClearLine,
       Format, Write, Close
  <1> QED BY <1>2, <1>3, <1>4, <1>5, <1>6, <1>7, <1>8, NextCases

LEMMA MainTypeStep ==
  ASSUME TypeOK, [Next]_vars
  PROVE  MainTypes'
  <1>1. MainTypes
    BY DEF TypeOK, MainTypes
  <1> USE <1>1 DEF MainTypes, LoopPcs, HandlerPcs
  <1>2. ASSUME NEW c \in Conns, Connect(c) \/ Accept(c)
        PROVE  MainTypes'
    BY <1>2 DEF Connect, Accept, MainGoes, dataVars
  <1>3. CASE \/ AcceptFails \/ CreateThread \/ CountThread \/ Room \/ ResizeFree
             \/ ResizeInstall
    BY <1>3 DEF AcceptFails, CreateThread, CountThread, Room, ResizeIf,
       ResizeFree, ResizeInstall, MainGoes, peerVars, dataVars
  <1>4. CASE \/ Interrupt \/ Report \/ FreeDataset \/ CloseSocket \/ JoinThreads
             \/ UNCHANGED vars
    BY <1>4 DEF Interrupt, Report, FreeDataset, CloseSocket, JoinThreads,
       MainGoes, peerVars, dataVars, vars
  <1>5. ASSUME NEW c \in Conns,
               \/ CountRequest(c) \/ ReadRequest(c) \/ Search(c) \/ ClearLine(c)
               \/ Format(c) \/ Write(c) \/ Close(c)
        PROVE  MainTypes'
    BY <1>5 DEF CountRequest, ReadRequest, Search, ClearLine, Format, Write,
       Close, peerVars, dataVars
  <1> QED BY <1>2, <1>3, <1>4, <1>5, NextCases

LEMMA ThreadTypeStep ==
  ASSUME TypeOK, PeerInv, [Next]_vars
  PROVE  ThreadTypes'
  <1>1. ThreadTypes
    BY DEF TypeOK, ThreadTypes
  <1> USE <1>1 DEF ThreadTypes
  <1>2. CASE CreateThread
    BY <1>2 DEF CreateThread, MainGoes, PeerInv, TypeOK, ThreadPcs, peerVars,
       countVars, dataVars
  <1>3. ASSUME NEW c \in Conns, Connect(c) \/ Accept(c)
        PROVE  ThreadTypes'
    BY <1>3 DEF Connect, Accept, countVars, dataVars
  <1>4. CASE \/ AcceptFails \/ CountThread \/ Room \/ ResizeFree \/ ResizeInstall
             \/ CloseSocket \/ UNCHANGED vars
    BY <1>4 DEF AcceptFails, CountThread, Room, ResizeIf, ResizeFree,
       ResizeInstall, CloseSocket, peerVars, countVars, dataVars, vars
  <1>5. CASE Interrupt \/ Report \/ FreeDataset \/ JoinThreads
    <2>1. UNCHANGED <<tpc, replied, handledRequestCount>>
      BY <1>5 DEF Interrupt, Report, FreeDataset, JoinThreads, peerVars, countVars
    <2>2. line' \in Conns \cup {Empty, Text} /\ reported' \in {reported, handledRequestCount}
      BY <1>5 DEF Interrupt, Report, FreeDataset, JoinThreads, countVars
    <2>3. fault' \in {"none", "dataset freed", "threads freed"}
      BY <1>5 DEF Interrupt, Report, FreeDataset, JoinThreads, dataVars
    <2>4. reported' \in 0..handledRequestCount'
      <3>1. reported \in 0..handledRequestCount /\ handledRequestCount \in Nat
        OBVIOUS
      <3> HIDE <1>1 DEF ThreadTypes
      <3> QED BY <2>1, <2>2, <3>1
    <2> QED BY <2>1, <2>2, <2>3, <2>4
  <1>6. ASSUME NEW c \in Conns,
               \/ CountRequest(c) \/ ReadRequest(c) \/ Search(c) \/ ClearLine(c)
               \/ Format(c) \/ Write(c) \/ Close(c)
        PROVE  ThreadTypes'
    <2>1. tpc' \in [Conns -> ThreadPcs]
      BY <1>6 DEF CountRequest, ReadRequest, Search, ClearLine, Format, Write,
         Close, ThreadGoes, ThreadPcs
    <2>2. replied' \in [Conns -> Conns \cup {Empty, Text}]
      BY <1>6 DEF CountRequest, ReadRequest, Search, ClearLine, Format, Write,
         Close, peerVars
    <2>3. line' \in Conns \cup {Empty, Text}
      BY <1>6 DEF CountRequest, ReadRequest, Search, ClearLine, Format, Write, Close
    <2>4. reported' = reported
          /\ handledRequestCount' \in {handledRequestCount, handledRequestCount + 1}
      BY <1>6 DEF CountRequest, ReadRequest, Search, ClearLine, Format, Write,
         Close, countVars
    <2>5. fault' \in {"none", "dataset freed", "threads freed"}
      BY <1>6 DEF CountRequest, ReadRequest, Search, ClearLine, Format, Write,
         Close, dataVars
    <2>6. handledRequestCount' \in Nat /\ reported' \in 0..handledRequestCount'
      <3> HIDE DEF ThreadTypes
      <3>1. handledRequestCount \in Nat /\ reported \in 0..handledRequestCount
        BY <1>1 DEF ThreadTypes
      <3> QED BY <2>4, <3>1
    <2> QED BY <2>1, <2>2, <2>3, <2>5, <2>6
  <1> QED BY <1>2, <1>3, <1>4, <1>5, <1>6, NextCases

LEMMA TypeStep ==
  ASSUME TypeOK, TableInv, PeerInv, [Next]_vars
  PROVE  TypeOK'
  BY FdStep, TableTypeStep, MainTypeStep, ThreadTypeStep
  DEF TypeOK, TableTypes, MainTypes, ThreadTypes

-----------------------------------------------------------------------------
(* Which connections have a thread, and which threads are past their count. *)
LEMMA ThreadsStep ==
  ASSUME TypeOK, PeerInv, [Next]_vars
  PROVE  \/ CreateThread /\ Started' = Started \cup {conn_fd} /\ Counted' = Counted
         \/ /\ Started' = Started
            /\ \E c \in Conns : CountRequest(c) /\ c \notin Counted /\ Counted' = Counted \cup {c}
         \/ /\ ~CreateThread /\ Started' = Started /\ Counted' = Counted
            /\ handledRequestCount' = handledRequestCount
  <1> USE DEF Started, Counted
  <1>1. tpc \in [Conns -> ThreadPcs]
    BY DEF TypeOK
  <1>2. CASE CreateThread
    <2>1. conn_fd \in Conns /\ tpc[conn_fd] = "none"
      BY <1>2 DEF CreateThread, MainGoes, PeerInv, TypeOK
    <2>2. tpc' = [tpc EXCEPT ![conn_fd] = "count"]
      BY <1>2 DEF CreateThread
    <2> QED BY <1>1, <1>2, <2>1, <2>2
  <1>3. ASSUME NEW c \in Conns, CountRequest(c)
        PROVE  Started' = Started /\ c \notin Counted /\ Counted' = Counted \cup {c}
    BY <1>1, <1>3 DEF CountRequest, ThreadGoes
  <1>4. ASSUME NEW c \in Conns,
               \/ ReadRequest(c) \/ Search(c) \/ ClearLine(c) \/ Format(c)
               \/ Write(c) \/ Close(c)
        PROVE  /\ ~CreateThread /\ Started' = Started /\ Counted' = Counted
               /\ handledRequestCount' = handledRequestCount
    <2>1. Started' = Started /\ Counted' = Counted
      BY <1>1, <1>4 DEF ReadRequest, Search, ClearLine, Format, Write, Close, ThreadGoes
    <2>2. conn_fd' = conn_fd /\ handledRequestCount' = handledRequestCount
      BY <1>4 DEF ReadRequest, Search, ClearLine, Format, Write, Close, countVars
    <2>3. ~CreateThread
      BY <2>1, <2>2, <1>2, <1>1 DEF CreateThread, PeerInv, MainGoes, TypeOK
    <2> QED BY <2>1, <2>2, <2>3
  <1>5. CASE \/ AcceptFails \/ CountThread \/ Room \/ ResizeFree \/ ResizeInstall
             \/ Interrupt \/ Report \/ FreeDataset \/ CloseSocket \/ JoinThreads
             \/ UNCHANGED vars
    <2>1. tpc' = tpc /\ handledRequestCount' = handledRequestCount
      BY <1>5 DEF AcceptFails, CountThread, Room, ResizeIf, ResizeFree, ResizeInstall,
         Interrupt, Report, FreeDataset, CloseSocket, JoinThreads, countVars, vars
    <2> QED BY <1>2, <2>1
  <1>6. ASSUME NEW c \in Conns, Connect(c) \/ Accept(c)
        PROVE  tpc' = tpc /\ handledRequestCount' = handledRequestCount
    BY <1>6 DEF Connect, Accept, countVars
  <1> QED BY <1>2, <1>3, <1>4, <1>5, <1>6, NextCases

LEMMA PeerStep ==
  ASSUME TypeOK, PeerInv, [Next]_vars
  PROVE  PeerInv'
  <1> USE DEF PeerInv
  <1>1. CASE CreateThread
    BY <1>1, ThreadsStep DEF CreateThread, MainGoes, peerVars
  <1>2. ASSUME ~CreateThread
        PROVE  Started' = Started
    BY <1>2, ThreadsStep
  <1>3. ASSUME NEW c \in Conns, Connect(c)
        PROVE  PeerInv'
    <2>1. Started' = Started /\ UNCHANGED <<mainPc, conn_fd, connFds>>
      BY <1>3 DEF Connect, fdVars, Started
    <2> QED BY <1>3, <2>1 DEF Connect
  <1>4. ASSUME NEW c \in Conns, Accept(c)
        PROVE  PeerInv'
    <2>1. Started' = Started
      BY <1>4 DEF Accept, Started
    <2> QED BY <1>4, <2>1 DEF Accept
  <1>5. ASSUME Started' = Started, connecting' = connecting, mainPc' # "create"
        PROVE  PeerInv'
    BY <1>5
  <1>6. CASE \/ AcceptFails \/ CountThread \/ Room \/ ResizeFree \/ ResizeInstall
             \/ Interrupt \/ Report \/ FreeDataset \/ CloseSocket
    BY <1>5, <1>6 DEF AcceptFails, CountThread, Room, ResizeIf, ResizeFree,
       ResizeInstall, Interrupt, Report, FreeDataset, CloseSocket, MainGoes,
       peerVars, Started
  <1>7. ASSUME UNCHANGED <<connecting, conn_fd, connFds>>, Started' = Started,
               mainPc' \in {mainPc, "exited", "failed"}
        PROVE  PeerInv'
    BY <1>7
  <1>8. CASE JoinThreads \/ UNCHANGED vars
    BY <1>7, <1>8 DEF JoinThreads, vars, peerVars, fdVars, Started
  <1>9. ASSUME NEW c \in Conns,
               \/ CountRequest(c) \/ ReadRequest(c) \/ Search(c) \/ ClearLine(c)
               \/ Format(c) \/ Write(c) \/ Close(c)
        PROVE  PeerInv'
    <2>1. /\ UNCHANGED <<connecting, conn_fd, connFds>>
          /\ mainPc' \in {mainPc, "exited", "failed"}
      BY <1>9 DEF CountRequest, ReadRequest, Search, ClearLine, Format, Write,
         Close, peerVars, fdVars
    <2> QED BY <1>1, <1>2, <1>7, <2>1
  <1> QED BY <1>1, <1>3, <1>4, <1>6, <1>8, <1>9, NextCases

LEMMA TableStep ==
  ASSUME TypeOK, TableInv, PeerInv, [Next]_vars
  PROVE  TableInv'
  <1>1. /\ capacity \in Nat /\ count \in 0..capacity
        /\ t \in [0..capacity-1 -> Conns \cup {Empty}]
    BY DEF TypeOK
  <1>2. ASSUME Started' = Started, UNCHANGED <<t, count, capacity>>,
               mainPc' \in {"accept", "create", "count"} => count < capacity,
               mainPc' \in LoopPcs \ {"count"} => Started = Recorded,
               mainPc' = "count" => mainPc = "count"
        PROVE  TableInv'
    BY <1>2 DEF TableInv, Recorded
  <1>3. CASE CreateThread
    <2>1. /\ mainPc = "create" /\ mainPc' = "count" /\ count' = count /\ capacity' = capacity
          /\ t' = [t EXCEPT ![count] = conn_fd] /\ conn_fd \in Conns
      BY <1>3 DEF CreateThread, MainGoes, PeerInv, TypeOK
    <2>2. Started = Recorded /\ count < capacity /\ conn_fd \notin Started
      BY <2>1 DEF TableInv, LoopPcs, PeerInv
    <2>3. Started' = Started \cup {conn_fd}
      BY <1>3, ThreadsStep DEF CountRequest, CreateThread, MainGoes, ThreadGoes
    <2>4. t'[count] = conn_fd /\ \A k \in 0..count-1 : t'[k] = t[k]
      BY <1>1, <2>1, <2>2
    <2>5. Recorded' = Recorded
      BY <2>1, <2>4 DEF Recorded
    <2> QED BY <1>1, <2>1, <2>2, <2>3, <2>4, <2>5 DEF TableInv
  <1>4. CASE CountThread
    <2>1. /\ mainPc = "count" /\ mainPc' = "room" /\ count' = count + 1
          /\ t' = t /\ capacity' = capacity /\ Started' = Started
      BY <1>4 DEF CountThread, MainGoes, Started
    <2>2. Recorded' = Recorded \cup {t[count]}
      BY <1>1, <2>1 DEF Recorded
    <2>3. /\ t[count] \in Started \ Recorded /\ Started = Recorded \cup {t[count]}
          /\ t[count] \in Conns
      BY <2>1 DEF TableInv, Started
    <2>4. \A k \in 0..count'-1 : t[k] \in Started
      BY <1>1, <2>1, <2>3 DEF TableInv
    <2>5. \A j, k \in 0..count'-1 : t[j] = t[k] => j = k
      BY <1>1, <2>1, <2>3 DEF TableInv, Recorded
    <2> QED BY <2>1, <2>2, <2>3, <2>4, <2>5 DEF TableInv
  <1>5. CASE ResizeInstall
    <2>1. /\ mainPc = "install" /\ mainPc' = "accept" /\ count' = count
          /\ capacity' = 2 * capacity /\ Started' = Started
          /\ t' = [i \in 0..2*capacity-1 |-> IF i < count THEN t[i] ELSE Empty]
      BY <1>5 DEF ResizeInstall, MainGoes, Started
    <2>2. capacity > 0 /\ Started = Recorded
      BY <2>1 DEF TableInv, LoopPcs
    <2>3. \A k \in 0..count-1 : t'[k] = t[k]
      BY <1>1, <2>1
    <2>4. Recorded' = Recorded
      BY <2>1, <2>3 DEF Recorded
    <2> QED BY <1>1, <2>1, <2>2, <2>3, <2>4 DEF TableInv
  <1>6. CASE AcceptFails \/ Room \/ ResizeFree
    <2>1. Started' = Started /\ UNCHANGED <<t, count, capacity>>
      BY <1>6 DEF AcceptFails, Room, ResizeIf, ResizeFree, threadsVars, Started
    <2>2. mainPc' = "accept" => count < capacity
      BY <1>1, <1>6 DEF AcceptFails, Room, ResizeIf, ResizeFree, MainGoes
    <2>3. mainPc \in {"accept", "room", "copy"}
          /\ mainPc' \in {"failed", "accept", "copy", "install"}
      BY <1>6 DEF AcceptFails, Room, ResizeIf, ResizeFree, MainGoes
    <2>4. Started = Recorded
      BY <2>3 DEF TableInv, LoopPcs
    <2> QED BY <1>2, <2>1, <2>2, <2>3, <2>4
  <1>7. CASE \/ Interrupt \/ Report \/ FreeDataset \/ CloseSocket \/ JoinThreads
             \/ UNCHANGED vars
    <2>1. Started' = Started /\ UNCHANGED <<t, count, capacity>>
      BY <1>7 DEF Interrupt, Report, FreeDataset, CloseSocket, JoinThreads, vars,
         threadsVars, Started
    <2>2. mainPc' = mainPc \/ mainPc' \notin LoopPcs
      BY <1>7 DEF Interrupt, Report, FreeDataset, CloseSocket, JoinThreads, vars,
         MainGoes, LoopPcs
    <2> QED BY <1>2, <2>1, <2>2 DEF TableInv, LoopPcs
  <1>8. ASSUME NEW c \in Conns, Connect(c) \/ Accept(c)
        PROVE  TableInv'
    <2>1. Started' = Started /\ UNCHANGED <<t, count, capacity>>
      BY <1>8 DEF Connect, Accept, threadsVars, Started
    <2>2. mainPc' = mainPc \/ (mainPc = "accept" /\ mainPc' = "create")
      BY <1>8 DEF Connect, Accept, MainGoes
    <2> QED BY <1>2, <2>1, <2>2 DEF TableInv, LoopPcs
  <1>9. ASSUME NEW c \in Conns,
               \/ CountRequest(c) \/ ReadRequest(c) \/ Search(c) \/ ClearLine(c)
               \/ Format(c) \/ Write(c) \/ Close(c)
        PROVE  TableInv'
    <2>1. UNCHANGED <<t, count, capacity>> /\ mainPc' \in {mainPc, "failed"}
      BY <1>9 DEF CountRequest, ReadRequest, Search, ClearLine, Format, Write,
         Close, threadsVars
    <2>2. Started' = Started \/ CreateThread
      BY ThreadsStep
    <2>3. CASE Started' = Started
      <3>1. /\ mainPc' \in {"accept", "create", "count"} => count < capacity
            /\ mainPc' \in LoopPcs \ {"count"} => Started = Recorded
            /\ mainPc' = "count" => mainPc = "count"
        BY <2>1 DEF TableInv, LoopPcs
      <3>2. UNCHANGED <<t, count, capacity>>
        BY <2>1
      <3> QED BY <1>2, <2>3, <3>1, <3>2
    <2> QED BY <1>3, <2>2, <2>3
  <1> QED BY <1>3, <1>4, <1>5, <1>6, <1>7, <1>8, <1>9, NextCases

LEMMA CountStep ==
  ASSUME TypeOK, PeerInv, CountInv, [Next]_vars
  PROVE  CountInv'
  <1>1. CASE /\ Counted' = Counted /\ handledRequestCount' = handledRequestCount
    BY <1>1 DEF CountInv
  <1>2. ASSUME NEW c \in Conns, CountRequest(c), c \notin Counted,
               Counted' = Counted \cup {c}
        PROVE  CountInv'
    <2>1. Cardinality(Counted') = Cardinality(Counted) + 1
      BY <1>2, FiniteConns DEF Counted
    <2> QED BY <1>2, <2>1 DEF CountInv, CountRequest
  <1>3. CreateThread => handledRequestCount' = handledRequestCount
    BY DEF CreateThread, countVars
  <1> QED BY <1>1, <1>2, <1>3, ThreadsStep

LEMMA MemoryStep ==
  ASSUME TypeOK, MemoryInv, [Next]_vars
  PROVE  MemoryInv'
  <1> USE DEF MemoryInv, LoopPcs, HandlerPcs, Interrupted
  <1>1. capacity \in Nat /\ count \in 0..capacity /\ tLive \in BOOLEAN /\ datasetLive \in BOOLEAN
    BY DEF TypeOK
  <1>2. CASE AcceptFails \/ CreateThread \/ CountThread
    BY <1>1, <1>2 DEF AcceptFails, CreateThread, CountThread, MainGoes, Running,
       dataVars, threadsVars
  <1>3. CASE Room
    BY <1>1, <1>3 DEF Room, ResizeIf, MainGoes, Running, dataVars, threadsVars
  <1>4. CASE ResizeFree \/ ResizeInstall
    BY <1>1, <1>4 DEF ResizeFree, ResizeInstall, MainGoes, Running, dataVars
  <1>5. CASE Interrupt \/ Report \/ CloseSocket
    BY <1>1, <1>5 DEF Interrupt, Report, CloseSocket, MainGoes, Running, dataVars,
       threadsVars
  <1>6. CASE FreeDataset
    BY <1>1, <1>6 DEF FreeDataset, MainGoes, Running, threadsVars
  <1>7. ASSUME NEW c \in Conns, Connect(c) \/ Accept(c)
        PROVE  MemoryInv'
    BY <1>1, <1>7 DEF Connect, Accept, MainGoes, Running, dataVars, threadsVars
  <1>8. ASSUME NEW c \in Conns, Search(c)
        PROVE  MemoryInv'
    BY <1>1, <1>8 DEF Search, ThreadGoes, Running, threadsVars, TypeOK
  <1>9. ASSUME NEW c \in Conns,
               \/ CountRequest(c) \/ ReadRequest(c) \/ ClearLine(c) \/ Format(c)
               \/ Write(c) \/ Close(c)
        PROVE  MemoryInv'
    <2>1. /\ UNCHANGED <<tLive, count, capacity, datasetLive, fault>>
          /\ mainPc' \in {mainPc, "failed"} /\ fault = "none"
      BY <1>9 DEF CountRequest, ReadRequest, ClearLine, Format, Write, Close,
         ThreadGoes, Running, threadsVars, dataVars
    <2> QED BY <2>1
  <1>10. CASE JoinThreads
    <2>1. mainPc = "join" /\ UNCHANGED <<tLive, count, capacity, datasetLive>>
      BY <1>10 DEF JoinThreads, threadsVars
    <2>2. \/ mainPc' = "exited" /\ fault' = fault
          \/ ~tLive /\ fault' = "threads freed" /\ mainPc' = mainPc
      BY <1>10 DEF JoinThreads
    <2> QED BY <2>1, <2>2
  <1>11. CASE UNCHANGED vars
    BY <1>11 DEF vars, threadsVars, dataVars
  <1> QED BY <1>2, <1>3, <1>4, <1>5, <1>6, <1>7, <1>8, <1>9, <1>10,
            <1>11, NextCases

LEMMA Invariance == Spec => []IInv
  <1>1. IInv /\ [Next]_vars => IInv'
    BY TypeStep, TableStep, PeerStep, CountStep, MemoryStep DEF IInv
  <1> QED BY InitIInv, <1>1, PTL DEF Spec

-----------------------------------------------------------------------------
(* Every reachable state is well typed: the thread table is written within *)
(* its bounds and the descriptors stay within their limit.                 *)
THEOREM TypeCorrect == Spec => []TypeOK
  <1>1. IInv => TypeOK
    BY DEF IInv
  <1> QED BY <1>1, Invariance, PTL

LEMMA RecordedCardinality ==
  ASSUME TypeOK, TableInv
  PROVE  Cardinality(Recorded) = count
  <1>1. capacity \in Nat /\ count \in 0..capacity
    BY DEF TypeOK
  <1> DEFINE thread == [k \in 0..count-1 |-> t[k]]
  <1>2. IsFiniteSet(0..count-1) /\ Cardinality(0..count-1) = count
    BY <1>1, FS_Interval
  <1>3. \A j, k \in 0..count-1 : thread[j] = thread[k] => j = k
    BY DEF TableInv
  <1>4. thread \in [0..count-1 -> Recorded]
    BY DEF Recorded
  <1>5. \A c \in Recorded : \E k \in 0..count-1 : thread[k] = c
    BY DEF Recorded
  <1> HIDE DEF thread
  <1>6. thread \in Bijection(0..count-1, Recorded)
    BY <1>3, <1>4, <1>5 DEF Bijection, Injection, IsInjective, Surjection
  <1> QED BY <1>2, <1>6, FS_Bijection DEF ExistsBijection

(* Every thread that runs is in the table once, where the SIGINT handler   *)
(* joins it, except at most the one main has just started; there is room   *)
(* for the next one when main starts it.                                   *)
THEOREM ThreadsAreRecorded == Spec => []ThreadsRecorded
  <1>1. IInv => ThreadsRecorded
    <2> SUFFICES ASSUME TypeOK, TableInv
                 PROVE  ThreadsRecorded
      BY DEF IInv
    <2>1. Recorded \subseteq Started
      BY DEF TableInv, Recorded
    <2>2. Cardinality(Started \ Recorded) <= 1
      <3>1. PICK c : Started \ Recorded \subseteq {c}
        BY DEF TableInv
      <3>2. IsFiniteSet({c}) /\ Cardinality({c}) = 1
        BY FS_Singleton
      <3> QED BY <3>1, <3>2, FS_Subset
    <2> QED BY <2>1, <2>2, RecordedCardinality DEF ThreadsRecorded, TableInv, LoopPcs
  <1> QED BY <1>1, Invariance, PTL

(* A thread adds its question to the total before it answers: the total    *)
(* reported on SIGINT leaves out no answer sent by then.                   *)
THEOREM AnswersCounted == Spec => []CountedBeforeAnswered
  <1>1. IInv => CountedBeforeAnswered
    <2> SUFFICES ASSUME CountInv
                 PROVE  CountedBeforeAnswered
      BY DEF IInv
    <2>1. {c \in Conns : tpc[c] \in {"close", "done"}} \subseteq Counted
      BY DEF Counted
    <2>2. IsFiniteSet(Counted)
      BY FiniteConns DEF Counted
    <2> QED BY <2>1, <2>2, FS_Subset DEF CountInv, CountedBeforeAnswered
  <1> QED BY <1>1, Invariance, PTL

(* Freed memory is used only after a SIGINT, the freed table only when the *)
(* handler has interrupted resizeServantThreads.                           *)
THEOREM FaultsOnlyAfterSigint == Spec => []FaultsExplained
  <1>1. IInv => FaultsExplained
    BY DEF IInv, MemoryInv, FaultsExplained
  <1> QED BY <1>1, Invariance, PTL
=============================================================================
