------------------------- MODULE ServantTableProofs -------------------------
(***************************************************************************)
(* The server's table of servants when they are started one after another  *)
(* (Serialised), for any number of servants, cities, queries and workers   *)
(* and every initial size of the table.                                    *)
(*                                                                         *)
(* One worker at most reads a registration then.  What it has read so far  *)
(* is the beginning of the servant's record (ReadingInv), and where the    *)
(* table stands follows from where that worker stands (TableInv), until    *)
(* the process comes down.  The first slots of the table never change, so  *)
(* a query that walks them has asked exactly the servants in charge that   *)
(* stand there (QueriesInv), or the array it walks has been freed          *)
(* (MemoryInv).                                                            *)
(***************************************************************************)
EXTENDS ServantTable, FiniteSetTheorems, SequenceTheorems, TLAPS

Ports == Servants \cup {Garbled}
Array == UNION {[0..n-1 -> Record \cup {Hole}] : n \in Nat \ {0}}
Local == [peer : Servants \cup Queries \cup {Garbled}, array : Nat, index : Nat,
          rec : Record, field : Nat, n : Nat, sent : Replies,
          got : Seq(Ports \X Outcomes), before : SUBSET Servants]

ArrayTypes ==
  /\ heap \in Seq(Array) /\ servants \in 1..Len(heap) /\ freed \subseteq 1..Len(heap)
  /\ servantCacheSize \in Nat \ {0} /\ currentServantCount \in Nat

WorkerTypes ==
  /\ at \in [Workers -> {"idle"} \cup RegisterPcs \cup QueryPcs]
  /\ my \in [Workers -> Local]
  /\ \A w \in Workers : my[w].array \in 1..Len(heap)

(* A query that is being answered, and what it may have seen.              *)
DoneTypes ==
  /\ joining \subseteq Servants /\ registered \subseteq Servants
  /\ joining \cap registered = {}
  /\ asked \subseteq Queries
  /\ \A w \in Workers : at[w] \in QueryPcs =>
        my[w].peer \in asked /\ my[w].before \subseteq registered
  /\ \A v, w \in Workers :
        at[v] \in QueryPcs /\ at[w] \in QueryPcs /\ my[v].peer = my[w].peer => v = w
  /\ \A rep \in replies :
        /\ rep.query \in asked /\ rep.before \subseteq registered
        /\ rep.got \in Seq(Ports \X Outcomes)

RestTypes ==
  /\ alive \subseteq Servants /\ interrupted \in BOOLEAN
  /\ fault \in {"none", "stale", "overflow", "hole", "exit"}

(* The record when k fields of it have been read.                          *)
Begun(s, k) ==
  IF k = 0 THEN Blank ELSE [port |-> s, cities |-> SubSeq(CitiesOf[s], 1, k-1)]

ReadingInv(w) ==
  /\ at[w] \in RegisterPcs => my[w].peer \in Servants \ (joining \cup registered)
  /\ at[w] = "reset" => my[w].field = 0 /\ my[w].rec = Blank
  /\ at[w] \in {"append", "field"} =>
       /\ my[w].field <= Len(CitiesOf[my[w].peer]) + 1
       /\ my[w].rec = Begun(my[w].peer, my[w].field)
  /\ at[w] = "append" => line = <<>>
  /\ at[w] = "field" => /\ my[w].field <= Len(CitiesOf[my[w].peer])
                        /\ line = << <<my[w].peer, my[w].field>> >>
  /\ at[w] = "slot" => my[w].rec = Whole(my[w].peer)

LineInv ==
  /\ line \in Seq(Ports \X Int) /\ Len(line) <= 1
  /\ \A v, w \in Workers : at[v] \in RegisterPcs /\ at[w] \in RegisterPcs => v = w
  /\ \A w \in Workers : ReadingInv(w)

(* The servants the table holds: a worker counts its own before it is done. *)
CountedPcs == {"check", "grow", "free", "install"}
Joined == registered \cup {my[w].peer : w \in {v \in Workers : at[v] \in CountedPcs}}

SlotInv(w) ==
  /\ at[w] \in {"reset", "append", "field", "slot"} =>
       my[w].array = servants /\ my[w].index = currentServantCount
  /\ at[w] \in {"announce", "count", "recount"} =>
       Slot(currentServantCount) = Whole(my[w].peer)
  /\ at[w] = "recount" => my[w].n = currentServantCount
  /\ at[w] = "install" => servants \in freed
  /\ at[w] \in {"free", "install"} =>
       /\ Len(heap) > 1
       /\ DOMAIN heap[Len(heap)] = 0..servantCacheSize-1
       /\ \A i \in 0..currentServantCount-1 : heap[Len(heap)][i] = Slot(i)

Counted == IsFiniteSet(Joined) /\ currentServantCount = Cardinality(Joined)

Listed ==
  /\ {Slot(i) : i \in 0..currentServantCount-1} = {Whole(s) : s \in Joined}
  /\ \A i, j \in 0..currentServantCount-1 : Slot(i) = Slot(j) => i = j

RoomInv ==
  /\ currentServantCount <= servantCacheSize
  /\ (\A w \in Workers : at[w] \notin {"check", "grow"}) =>
        currentServantCount < servantCacheSize
  /\ (\A w \in Workers : at[w] \notin {"free", "install"}) =>
        DOMAIN heap[servants] = 0..servantCacheSize-1
  /\ 0..currentServantCount-1 \subseteq DOMAIN heap[servants]

TableInv == Up => Counted /\ Listed /\ RoomInv /\ \A w \in Workers : SlotInv(w)

(* A query has asked the servants in charge among the first slots, each once. *)
Seen(q, i) ==
  {s \in Servants : Handles(Whole(s), q) /\ \E j \in 0..i-1 : Slot(j) = Whole(s)}
Answerers(w) == {my[w].got[k][1] : k \in DOMAIN my[w].got}

(* Why a servant in the sum has not sent the number of this query.         *)
Sums(w) ==
  \A k \in DOMAIN my[w].got :
    /\ my[w].got[k][2] \in {"refused", "cut"} => my[w].got[k][1] \notin alive
    /\ my[w].got[k][2] = "mixed" => Rivalled(my[w].got[k][1], my[w].peer)

QueryInv(w) ==
  at[w] \in QueryPcs =>
    /\ my[w].index <= my[w].n /\ my[w].n <= currentServantCount
    /\ my[w].array \notin freed => my[w].array = servants
    /\ Answerers(w) = Seen(my[w].peer, my[w].index)
    /\ IsFiniteSet(Answerers(w)) /\ Cardinality(Answerers(w)) = Len(my[w].got)
    /\ \A s \in my[w].before : \E j \in 0..my[w].n-1 : Slot(j) = Whole(s)
    /\ Sums(w)
    /\ at[w] \in {"contact", "await"} =>
          my[w].index < my[w].n /\ Handles(Slot(my[w].index), my[w].peer)
    /\ at[w] = "await" =>
         /\ my[w].rec.port = Slot(my[w].index).port
         /\ my[w].sent # "answered" => Rivalled(my[w].rec.port, my[w].peer)

QueriesInv == Up => \A w \in Workers : QueryInv(w)

(* Until SIGINT only arrays that growth has replaced have been freed, or    *)
(* the one it is about to replace.                                         *)
FreedInv ==
  ~interrupted =>
    /\ freed \subseteq 1..servants
    /\ servants \in freed => \E v \in Workers : at[v] = "install"
    /\ \A v \in Workers : at[v] \in {"free", "install"} => servants < Len(heap)

MemoryInv == FaultsExplained /\ StaleOnlyByGrowth /\ FreedInv

Types == ArrayTypes /\ WorkerTypes /\ DoneTypes /\ RestTypes

IInv == Types /\ LineInv /\ TableInv /\ QueriesInv /\ RepliesComplete /\ MemoryInv

-----------------------------------------------------------------------------
LEMMA Records ==
  /\ \A s \in Servants : Whole(s) \in Record
  /\ Blank \in Record
  /\ \A s \in Servants : CitiesOf[s] \in Seq(Cities)
  <1>1. ASSUME NEW s \in Servants
        PROVE  CitiesOf[s] \in Seq(Cities) /\ CitiesOf[s] \in Seq(Cities \cup {Garbled})
    <2>1. CitiesOf[s] \in Seq(Cities)
      BY TableAssumption
    <2>2. Cities \subseteq Cities \cup {Garbled}
      OBVIOUS
    <2> QED BY <2>1, <2>2, SeqMonotonic
  <1>2. Blank \in Record
    <2>1. <<>> \in Seq(Cities \cup {Garbled})
      BY EmptySeq
    <2> QED BY <2>1 DEF Blank, Record
  <1> QED BY <1>1, <1>2 DEF Whole, Record

LEMMA ArrayOf ==
  ASSUME NEW n \in Nat \ {0}, NEW f \in [0..n-1 -> Record \cup {Hole}]
  PROVE  f \in Array
  BY DEF Array

LEMMA InitTable == Init => Types /\ LineInv /\ TableInv
  <1> SUFFICES ASSUME Init PROVE Types /\ LineInv /\ TableInv
    OBVIOUS
  <1> USE TableAssumption DEF Init
  <1> DEFINE a == [i \in 0..CacheSize-1 |-> Hole]
  <1>1. a \in Array /\ heap = <<a>> /\ Len(heap) = 1 /\ heap[1] = a
    <2>1. a \in [0..CacheSize-1 -> Record \cup {Hole}]
      OBVIOUS
    <2>2. a \in Array
      BY <2>1, ArrayOf
    <2> QED BY <2>2
  <1>2. ArrayTypes
    BY <1>1 DEF ArrayTypes
  <1>3. Idle \in Local
    BY Records DEF Idle, Local, Replies
  <1>4. WorkerTypes
    BY <1>1, <1>3 DEF WorkerTypes, Idle
  <1>5. DoneTypes /\ RestTypes
    BY DEF DoneTypes, RestTypes, QueryPcs
  <1>6. LineInv
    BY DEF LineInv, ReadingInv, RegisterPcs
  <1>7. Joined = {}
    BY DEF Joined, CountedPcs
  <1>8. TableInv
    <2>1. Counted
      BY <1>7, FS_EmptySet DEF Counted
    <2>2. 0..currentServantCount-1 = {}
      OBVIOUS
    <2>3. Listed
      BY <1>7, <2>2 DEF Listed
    <2>4. DOMAIN heap[servants] = 0..servantCacheSize-1
      BY <1>1
    <2>5. RoomInv
      BY <2>2, <2>4 DEF RoomInv
    <2>6. \A w \in Workers : SlotInv(w)
      BY DEF SlotInv
    <2> QED BY <2>1, <2>3, <2>5, <2>6 DEF TableInv
  <1> QED BY <1>2, <1>4, <1>5, <1>6, <1>8 DEF Types

(* A step with which a worker stops the process.                           *)
Stops(w) == Fault(w) \/ CannotAsk(w) \/ Reset(w)

LEMMA Stopped ==
  ASSUME NEW w \in Workers, Stops(w)
  PROVE  /\ Up /\ ~Up'
         /\ UNCHANGED <<line, heap, freed, servants, servantCacheSize,
                        currentServantCount, joining, registered, asked, replies, at,
                        my, alive, interrupted>>
         /\ fault' \in {"stale", "overflow", "hole", "exit"}
  <1>1. /\ Up
        /\ UNCHANGED <<line, arrayVars, currentServantCount, joining, doneVars, at, my,
                       worldVars>>
        /\ fault' \in {"stale", "overflow", "hole", "exit"}
    BY DEF Stops, Fault, CannotAsk, Reset, Problem, Sound
  <1>2. ~Up'
    BY <1>1 DEF Up
  <1> QED BY <1>1, <1>2 DEF arrayVars, doneVars, worldVars

(* The case split shared by the induction steps.                           *)
LEMMA NextCases ==
  ASSUME [Next]_vars
  PROVE  \/ \E w \in Workers : \E s \in Servants : EvalSlot(w, s)
         \/ \E w \in Workers :
              \/ ResetLine(w) \/ AppendToken(w) \/ StoreField(w) \/ EndOfRegistration(w)
              \/ StoreSlot(w) \/ Announce(w) \/ ReadCount(w) \/ WriteCount(w)
              \/ CheckRoom(w) \/ GrowCopy(w) \/ GrowFree(w) \/ GrowInstall(w)
         \/ \E w \in Workers : \E q \in Queries : BeginQuery(w, q)
         \/ \E w \in Workers :
              \/ Visit(w) \/ Contact(w) \/ Reply(w) \/ CutOff(w) \/ Answer(w)
              \/ Clash(w) \/ Stops(w)
         \/ FreeServants \/ \E s \in Servants : ServantTerminates(s)
         \/ UNCHANGED vars
  BY DEF Next, HandleServant, HandleClientRequest, Stops

-----------------------------------------------------------------------------
(* The arrays.                                                             *)
LEMMA HeapElement ==
  ASSUME ArrayTypes, NEW a \in 1..Len(heap)
  PROVE  /\ \E n \in Nat \ {0} : heap[a] \in [0..n-1 -> Record \cup {Hole}]
         /\ DOMAIN heap = 1..Len(heap) /\ Len(heap) \in Nat
  <1>1. heap \in Seq(Array)
    BY DEF ArrayTypes
  <1>2. heap[a] \in Array /\ DOMAIN heap = 1..Len(heap) /\ Len(heap) \in Nat
    BY <1>1, ElementOfSeq, LenProperties
  <1> QED BY <1>2 DEF Array

LEMMA StoreInHeap ==
  ASSUME ArrayTypes, NEW a \in 1..Len(heap), NEW i \in DOMAIN heap[a],
         NEW r \in Record, heap' = [heap EXCEPT ![a][i] = r]
  PROVE  /\ heap' \in Seq(Array) /\ Len(heap') = Len(heap)
         /\ \A b \in 1..Len(heap) : DOMAIN heap'[b] = DOMAIN heap[b]
         /\ heap'[a][i] = r
         /\ \A b \in 1..Len(heap) : \A j \in DOMAIN heap[b] :
               b # a \/ j # i => heap'[b][j] = heap[b][j]
  <1> DEFINE f == [heap[a] EXCEPT ![i] = r]
  <1>1. PICK n \in Nat \ {0} : heap[a] \in [0..n-1 -> Record \cup {Hole}]
    BY HeapElement
  <1>2. f \in [0..n-1 -> Record \cup {Hole}]
    BY <1>1
  <1>3. f \in Array
    BY <1>2, ArrayOf
  <1>4. heap \in Seq(Array) /\ DOMAIN heap = 1..Len(heap)
    BY HeapElement DEF ArrayTypes
  <1>5. heap' = [heap EXCEPT ![a] = f]
    BY <1>4
  <1>6. DOMAIN f = DOMAIN heap[a] /\ f[i] = r
        /\ \A j \in DOMAIN heap[a] : j # i => f[j] = heap[a][j]
    BY <1>1
  <1> HIDE DEF f
  <1>7. heap' \in Seq(Array) /\ Len(heap') = Len(heap)
    <2>1. /\ [heap EXCEPT ![a] = f] \in Seq(Array)
          /\ Len([heap EXCEPT ![a] = f]) = Len(heap)
      BY <1>3, <1>4, ExceptSeq
    <2> QED BY <1>5, <2>1
  <1>8. heap'[a] = f /\ \A b \in 1..Len(heap) : b # a => heap'[b] = heap[b]
    BY <1>4, <1>5
  <1> QED BY <1>6, <1>7, <1>8

LEMMA Grown ==
  ASSUME ArrayTypes, NEW k, NEW w, CopyFirst(w, k)
  PROVE  /\ heap' \in Seq(Array) /\ Len(heap') = Len(heap) + 1
         /\ \A b \in 1..Len(heap) : heap'[b] = heap[b]
         /\ heap'[Len(heap) + 1] = [i \in 0..2*servantCacheSize-1 |->
                IF i < k /\ i \in DOMAIN heap[servants] THEN Slot(i) ELSE Hole]
  <1> DEFINE f == [i \in 0..2*servantCacheSize-1 |->
                     IF i < k /\ i \in DOMAIN heap[servants] THEN Slot(i) ELSE Hole]
  <1>1. PICK n \in Nat \ {0} : heap[servants] \in [0..n-1 -> Record \cup {Hole}]
    BY HeapElement DEF ArrayTypes
  <1>2. f \in [0..2*servantCacheSize-1 -> Record \cup {Hole}]
    BY <1>1 DEF Slot
  <1>3. 2*servantCacheSize \in Nat \ {0}
    BY DEF ArrayTypes
  <1>4. f \in Array
    BY <1>2, <1>3, ArrayOf
  <1>5. heap' = Append(heap, f) /\ heap \in Seq(Array)
    BY DEF CopyFirst, ArrayTypes
  <1> HIDE DEF f
  <1>6. /\ heap' \in Seq(Array) /\ Len(heap') = Len(heap) + 1
        /\ \A b \in 1..Len(heap) : heap'[b] = heap[b]
        /\ heap'[Len(heap) + 1] = f
    BY <1>4, <1>5, AppendProperties
  <1> QED BY <1>6 DEF f

LEMMA ArrayStep ==
  ASSUME ArrayTypes, WorkerTypes, [Next]_vars
  PROVE  ArrayTypes' /\ Len(heap') >= Len(heap)
  <1>1. /\ ArrayTypes /\ Len(heap) \in Nat /\ DOMAIN heap = 1..Len(heap)
        /\ servants \in 1..Len(heap)
    BY HeapElement DEF ArrayTypes
  <1>2. ASSUME UNCHANGED <<arrayVars, currentServantCount>>
        PROVE  ArrayTypes' /\ Len(heap') >= Len(heap)
    BY <1>1, <1>2 DEF ArrayTypes, arrayVars
  <1>3. ASSUME NEW w \in Workers, StoreSlot(w)
        PROVE  ArrayTypes' /\ Len(heap') >= Len(heap)
    <2>1. my[w].array \in 1..Len(heap) /\ my[w].rec \in Record
      BY DEF WorkerTypes, Local
    <2>2. my[w].index \in DOMAIN heap[my[w].array]
      BY <1>3, <2>1 DEF StoreSlot, Sound, Problem, Element, WorkerGoes
    <2>3. heap' \in Seq(Array) /\ Len(heap') = Len(heap)
      BY <1>3, <2>1, <2>2, StoreInHeap DEF StoreSlot
    <2> QED BY <1>1, <1>3, <2>3 DEF StoreSlot, ArrayTypes
  <1>4. ASSUME NEW w \in Workers, GrowCopy(w)
        PROVE  ArrayTypes' /\ Len(heap') >= Len(heap)
    <2>1. heap' \in Seq(Array) /\ Len(heap') = Len(heap) + 1
      BY <1>4, Grown DEF GrowCopy
    <2> QED BY <1>1, <1>4, <2>1 DEF GrowCopy, CopyFirst, ArrayTypes
  <1>5. ASSUME NEW w \in Workers, GrowFree(w) \/ GrowInstall(w)
        PROVE  ArrayTypes' /\ Len(heap') >= Len(heap)
    <2>1. CASE GrowFree(w)
      BY <1>1, <2>1 DEF GrowFree, ArrayTypes
    <2>2. CASE GrowInstall(w)
      BY <1>1, <2>2 DEF GrowInstall, ArrayTypes
    <2> QED BY <1>5, <2>1, <2>2
  <1>6. ASSUME NEW w \in Workers, WriteCount(w)
        PROVE  ArrayTypes' /\ Len(heap') >= Len(heap)
    BY <1>1, <1>6 DEF WriteCount, ArrayTypes, WorkerTypes, Local, arrayVars
  <1>7. CASE FreeServants
    BY <1>1, <1>7 DEF FreeServants, ArrayTypes
  <1>8. ASSUME NEW w \in Workers,
               \/ \E s \in Servants : EvalSlot(w, s)
               \/ ResetLine(w) \/ AppendToken(w) \/ StoreField(w) \/ EndOfRegistration(w)
               \/ Announce(w) \/ ReadCount(w) \/ CheckRoom(w)
        PROVE  UNCHANGED <<arrayVars, currentServantCount>>
    BY <1>8 DEF EvalSlot, AssignTo, ResetLine, AppendToken, StoreField, ReadField,
       EndOfRegistration, Announce, ReadCount, CheckRoom, GrowIf
  <1>9. ASSUME NEW w \in Workers,
               \/ \E q \in Queries : BeginQuery(w, q)
               \/ Visit(w) \/ Contact(w) \/ Reply(w) \/ CutOff(w) \/ Answer(w)
               \/ Clash(w) \/ Stops(w)
        PROVE  UNCHANGED <<arrayVars, currentServantCount>>
    <2>1. CASE Stops(w)
      BY <2>1, Stopped DEF arrayVars
    <2> QED BY <1>9, <2>1 DEF BeginQuery, Visit, Contact, Reply, CutOff, Answer,
            AnswerAfter, Clash
  <1>10. ASSUME UNCHANGED vars \/ \E s \in Servants : ServantTerminates(s)
         PROVE  UNCHANGED <<arrayVars, currentServantCount>>
    BY <1>10 DEF ServantTerminates, vars
  <1> QED BY <1>2, <1>3, <1>4, <1>5, <1>6, <1>7, <1>8, <1>9, <1>10, NextCases

-----------------------------------------------------------------------------
(* The workers' locals.                                                    *)
Pcs == {"idle"} \cup RegisterPcs \cup QueryPcs

LEMMA OneWorkerMoves ==
  ASSUME ArrayTypes, WorkerTypes, ArrayTypes', Len(heap') >= Len(heap), NEW w \in Workers,
         NEW to \in Pcs, at' = [at EXCEPT ![w] = to],
         NEW l \in Local, l.array \in 1..Len(heap), my' = [my EXCEPT ![w] = l]
  PROVE  WorkerTypes'
  <1>1. Len(heap) \in Nat /\ Len(heap') \in Nat
    BY HeapElement DEF ArrayTypes
  <1>2. at' \in [Workers -> Pcs] /\ my' \in [Workers -> Local]
    BY DEF WorkerTypes, Pcs
  <1>3. \A v \in Workers : my'[v].array \in 1..Len(heap)
    BY DEF WorkerTypes
  <1> QED BY <1>1, <1>2, <1>3 DEF WorkerTypes, Pcs

LEMMA OneWorkerGoes ==
  ASSUME ArrayTypes, WorkerTypes, ArrayTypes', Len(heap') >= Len(heap), NEW w \in Workers,
         NEW from, NEW to \in Pcs, WorkerGoes(w, from, to), my' = my
  PROVE  WorkerTypes'
  <1>1. my' = [my EXCEPT ![w] = my[w]] /\ my[w] \in Local /\ my[w].array \in 1..Len(heap)
    BY DEF WorkerTypes
  <1> QED BY <1>1, OneWorkerMoves DEF WorkerGoes

LEMMA LocalUpdates ==
  ASSUME NEW l \in Local
  PROVE  /\ \A x \in Nat : [l EXCEPT !.n = x] \in Local
         /\ \A x \in Nat : [l EXCEPT !.index = x] \in Local
         /\ \A r \in Record : [l EXCEPT !.rec = r] \in Local
         /\ \A x \in Replies : [l EXCEPT !.sent = x] \in Local
         /\ \A x \in Ports : [l EXCEPT !.rec.port = x] \in Local
         /\ \A r \in Record : \A x \in Nat : [l EXCEPT !.rec = r, !.field = x] \in Local
         /\ \A g \in Seq(Ports \X Outcomes) : \A x \in Nat :
               [l EXCEPT !.got = g, !.index = x] \in Local
  <1>1. \A x \in Nat : [l EXCEPT !.n = x] \in Local /\ [l EXCEPT !.index = x] \in Local
    BY DEF Local
  <1>2. /\ \A r \in Record : [l EXCEPT !.rec = r] \in Local
        /\ \A x \in Replies : [l EXCEPT !.sent = x] \in Local
    BY DEF Local
  <1>3. \A x \in Ports : [l EXCEPT !.rec.port = x] \in Local
    <2>1. \A x \in Ports : [l.rec EXCEPT !.port = x] \in Record
      BY DEF Local, Record, Ports
    <2> QED BY <2>1 DEF Local
  <1>4. \A r \in Record : \A x \in Nat : [l EXCEPT !.rec = r, !.field = x] \in Local
    BY DEF Local
  <1>5. \A g \in Seq(Ports \X Outcomes) : \A x \in Nat :
          [l EXCEPT !.got = g, !.index = x] \in Local
    BY DEF Local
  <1> QED BY <1>1, <1>2, <1>3, <1>4, <1>5

LEMMA IdleLocal ==
  ASSUME ArrayTypes
  PROVE  Idle \in Local /\ Idle.array \in 1..Len(heap)
  <1>1. Idle \in Local
    BY Records DEF Idle, Local, Replies
  <1>2. Len(heap) \in Nat /\ servants \in 1..Len(heap)
    BY HeapElement DEF ArrayTypes
  <1> QED BY <1>1, <1>2 DEF Idle

(* What a worker reads of a field is what its servant has sent.            *)
LEMMA FieldRead ==
  ASSUME WorkerTypes, LineInv, NEW w \in Workers, at[w] = "field"
  PROVE  /\ my[w].peer \in Servants /\ my[w].field \in Nat
         /\ my[w].field = 0 => LineAsPort = my[w].peer
         /\ my[w].field > 0 => /\ my[w].field \in 1..Len(CitiesOf[my[w].peer])
                               /\ LineAsCity = CitiesOf[my[w].peer][my[w].field]
                               /\ LineAsCity \in Cities
  <1> DEFINE s == my[w].peer   k == my[w].field
  <1>1. s \in Servants /\ k \in Nat /\ k <= Len(CitiesOf[s]) /\ line = << <<s, k>> >>
    BY DEF WorkerTypes, Local, LineInv, ReadingInv, RegisterPcs
  <1>2. CitiesOf[s] \in Seq(Cities)
    BY <1>1, Records
  <1>3. Len(line) = 1 /\ line[1][1] = s /\ line[1][2] = k
    BY <1>1
  <1> HIDE DEF s, k
  <1>4. k > 0 => k \in 1..Len(CitiesOf[s]) /\ CitiesOf[s][k] \in Cities
    BY <1>1, <1>2
  <1>5. (k = 0 => LineAsPort = s) /\ (k > 0 => LineAsCity = CitiesOf[s][k])
    BY <1>1, <1>3 DEF LineAsPort, LineAsCity
  <1> QED BY <1>1, <1>4, <1>5 DEF s, k

LEMMA FieldStored ==
  ASSUME WorkerTypes, LineInv, NEW w \in Workers, StoreField(w)
  PROVE  \E r \in Record :
           /\ my' = [my EXCEPT ![w] = [my[w] EXCEPT !.rec = r, !.field = my[w].field + 1]]
           /\ my[w].field = 0 => r = [my[w].rec EXCEPT !.port = my[w].peer]
           /\ my[w].field > 0 =>
                r = [my[w].rec EXCEPT !.cities =
                       Append(my[w].rec.cities, CitiesOf[my[w].peer][my[w].field])]
  <1> DEFINE r == IF my[w].field = 0
                  THEN [my[w].rec EXCEPT !.port = LineAsPort]
                  ELSE [my[w].rec EXCEPT !.cities = Append(my[w].rec.cities, LineAsCity)]
  <1>1. at[w] = "field" /\ my[w] \in Local /\ my \in [Workers -> Local]
    BY DEF StoreField, ReadField, WorkerGoes, WorkerTypes
  <1>2. my' = [my EXCEPT ![w] = [my[w] EXCEPT !.rec = r, !.field = my[w].field + 1]]
    BY <1>1 DEF StoreField, ReadField, Local
  <1>3. my[w].rec \in Record /\ my[w].field \in Nat
    BY <1>1 DEF Local
  <1>4. ASSUME my[w].field = 0
        PROVE  r \in Record /\ r = [my[w].rec EXCEPT !.port = my[w].peer]
    <2>1. r = [my[w].rec EXCEPT !.port = my[w].peer] /\ my[w].peer \in Servants
      BY <1>1, <1>4, FieldRead
    <2> QED BY <1>3, <2>1 DEF Record
  <1>5. ASSUME my[w].field > 0
        PROVE  /\ r \in Record
               /\ r = [my[w].rec EXCEPT !.cities =
                        Append(my[w].rec.cities, CitiesOf[my[w].peer][my[w].field])]
    <2>1. LineAsCity = CitiesOf[my[w].peer][my[w].field] /\ LineAsCity \in Cities
      BY <1>1, <1>5, FieldRead
    <2>2. Append(my[w].rec.cities, LineAsCity) \in Seq(Cities \cup {Garbled})
      BY <1>3, <2>1, AppendProperties DEF Record
    <2>3. r = [my[w].rec EXCEPT !.cities = Append(my[w].rec.cities, LineAsCity)]
      BY <1>3, <1>5
    <2> QED BY <1>3, <2>1, <2>2, <2>3 DEF Record
  <1>6. r \in Record
    <2> HIDE DEF r
    <2> QED BY <1>3, <1>4, <1>5
  <1> HIDE DEF r
  <1> WITNESS r \in Record
  <1> QED BY <1>2, <1>4, <1>5

(* A slot that a query reads holds a record.                               *)
LEMMA SlotRead ==
  ASSUME ArrayTypes, WorkerTypes, NEW w \in Workers, at[w] \in {"visit", "contact"},
         Sound(w)
  PROVE  heap[my[w].array][my[w].index] \in Record
  <1>1. my[w].array \in 1..Len(heap)
    BY DEF WorkerTypes
  <1>2. PICK n \in Nat \ {0} : heap[my[w].array] \in [0..n-1 -> Record \cup {Hole}]
    BY <1>1, HeapElement
  <1>3. /\ my[w].index \in DOMAIN heap[my[w].array]
        /\ heap[my[w].array][my[w].index] # Hole
    BY DEF Sound, Problem, Element, Reads
  <1> QED BY <1>2, <1>3

LEMMA WorkerStep ==
  ASSUME ArrayTypes, WorkerTypes, DoneTypes, LineInv, [Next]_vars
  PROVE  WorkerTypes'
  <1>1. ArrayTypes' /\ Len(heap') >= Len(heap)
    BY ArrayStep
  <1>2. my \in [Workers -> Local] /\ Len(heap) \in Nat /\ Len(heap') \in Nat
        /\ servants \in 1..Len(heap)
    BY <1>1, HeapElement DEF WorkerTypes, ArrayTypes
  <1>3. \A w \in Workers : my[w] \in Local /\ my[w].array \in 1..Len(heap)
    BY DEF WorkerTypes
  <1> USE DEF Pcs, RegisterPcs, QueryPcs
  <1>4. ASSUME NEW w \in Workers, NEW s \in Servants, EvalSlot(w, s)
        PROVE  WorkerTypes'
    <2> DEFINE l == [Idle EXCEPT !.peer = s, !.array = servants, !.index = currentServantCount]
    <2>0. Idle \in Local /\ servants \in Nat /\ currentServantCount \in Nat
      BY <1>2, IdleLocal DEF ArrayTypes
    <2>1. l \in Local /\ l.array = servants
      BY <2>0 DEF Local
    <2>2. at' = [at EXCEPT ![w] = "reset"] /\ my' = [my EXCEPT ![w] = l]
      BY <1>4 DEF EvalSlot, AssignTo, WorkerGoes
    <2> HIDE DEF l
    <2> QED BY <1>1, <1>2, <2>1, <2>2, OneWorkerMoves
  <1>5. ASSUME NEW w \in Workers,
               \/ ResetLine(w) \/ AppendToken(w) \/ EndOfRegistration(w)
               \/ StoreSlot(w) \/ Announce(w) \/ WriteCount(w)
               \/ GrowCopy(w) \/ GrowFree(w)
        PROVE  WorkerTypes'
    <2>1. my' = my
      BY <1>5 DEF ResetLine, AppendToken, EndOfRegistration, StoreSlot, Announce,
         WriteCount, GrowCopy, CopyFirst, GrowFree
    <2>2. PICK from \in Pcs, to \in Pcs : WorkerGoes(w, from, to)
      BY <1>5 DEF ResetLine, AppendToken, EndOfRegistration, StoreSlot, Announce,
         WriteCount, GrowCopy, CopyFirst, GrowFree
    <2> QED BY <1>1, <2>1, <2>2, OneWorkerGoes
  <1>6. ASSUME NEW w \in Workers, StoreField(w)
        PROVE  WorkerTypes'
    <2>1. PICK r \in Record :
            my' = [my EXCEPT ![w] = [my[w] EXCEPT !.rec = r, !.field = my[w].field + 1]]
      BY <1>6, FieldStored
    <2> DEFINE l == [my[w] EXCEPT !.rec = r, !.field = my[w].field + 1]
    <2>2. my[w].field + 1 \in Nat
      BY <1>3 DEF Local
    <2>3. l \in Local
      BY <1>3, <2>2, LocalUpdates
    <2>4. l.array = my[w].array
      BY <1>3 DEF Local
    <2>5. at' = [at EXCEPT ![w] = "append"] /\ my' = [my EXCEPT ![w] = l]
      BY <1>6, <2>1 DEF StoreField, ReadField, WorkerGoes
    <2> HIDE DEF l
    <2> QED BY <1>1, <1>3, <2>3, <2>4, <2>5, OneWorkerMoves
  <1>7. ASSUME NEW w \in Workers, ReadCount(w)
        PROVE  WorkerTypes'
    <2> DEFINE l == [my[w] EXCEPT !.n = currentServantCount]
    <2>1. l \in Local
      BY <1>3, LocalUpdates DEF ArrayTypes
    <2>2. l.array = my[w].array
      BY <1>3 DEF Local
    <2>3. at' = [at EXCEPT ![w] = "recount"] /\ my' = [my EXCEPT ![w] = l]
      BY <1>2, <1>7 DEF ReadCount, WorkerGoes
    <2> HIDE DEF l
    <2> QED BY <1>1, <1>3, <2>1, <2>2, <2>3, OneWorkerMoves
  <1>8. ASSUME NEW w \in Workers, NEW from, WorkerGoes(w, from, "idle"),
               my' = [my EXCEPT ![w] = Idle]
        PROVE  WorkerTypes'
    BY <1>1, <1>8, IdleLocal, OneWorkerMoves DEF WorkerGoes
  <1>9. ASSUME NEW w \in Workers, CheckRoom(w)
        PROVE  WorkerTypes'
    <2>1. CASE WorkerGoes(w, "check", "grow") /\ my' = my
      BY <1>1, <2>1, OneWorkerGoes
    <2>2. CASE WorkerGoes(w, "check", "idle") /\ Registered(w)
      BY <1>8, <2>2 DEF Registered
    <2> QED BY <1>9, <2>1, <2>2 DEF CheckRoom, GrowIf
  <1>10. ASSUME NEW w \in Workers, GrowInstall(w) \/ Answer(w)
         PROVE  WorkerTypes'
    BY <1>8, <1>10 DEF GrowInstall, Registered, Answer, AnswerAfter
  <1>11. ASSUME NEW w \in Workers, NEW q \in Queries, BeginQuery(w, q)
         PROVE  WorkerTypes'
    <2> DEFINE l == [Idle EXCEPT !.peer = q, !.array = servants,
                       !.n = currentServantCount, !.before = registered]
    <2>0. /\ Idle \in Local /\ servants \in Nat /\ currentServantCount \in Nat
          /\ registered \in SUBSET Servants
      BY <1>2, IdleLocal DEF ArrayTypes, DoneTypes
    <2>1. l \in Local /\ l.array = servants
      BY <2>0 DEF Local
    <2>2. at' = [at EXCEPT ![w] = "visit"] /\ my' = [my EXCEPT ![w] = l]
      BY <1>11 DEF BeginQuery, WorkerGoes
    <2> HIDE DEF l
    <2> QED BY <1>1, <1>2, <2>1, <2>2, OneWorkerMoves
  <1>12. ASSUME NEW w \in Workers, Visit(w)
         PROVE  WorkerTypes'
    <2>1. CASE WorkerGoes(w, "visit", "contact") /\ my' = my
      BY <1>1, <2>1, OneWorkerGoes
    <2>2. CASE WorkerGoes(w, "visit", "visit") /\ my' = [my EXCEPT ![w].index = @ + 1]
      <3> DEFINE l == [my[w] EXCEPT !.index = my[w].index + 1]
      <3>1. my[w].index + 1 \in Nat /\ l.array = my[w].array
        BY <1>3 DEF Local
      <3>2. l \in Local
        BY <1>3, <3>1, LocalUpdates
      <3>3. at' = [at EXCEPT ![w] = "visit"] /\ my' = [my EXCEPT ![w] = l]
        BY <1>2, <2>2 DEF WorkerGoes
      <3> HIDE DEF l
      <3> QED BY <1>1, <1>3, <3>1, <3>2, <3>3, OneWorkerMoves
    <2> QED BY <1>12, <2>1, <2>2 DEF Visit
  <1>13. ASSUME NEW w \in Workers, NEW port \in Ports, NEW outcome \in Outcomes,
                NEW from, WorkerGoes(w, from, "visit"), Gather(w, port, outcome)
         PROVE  WorkerTypes'
    <2> DEFINE l == [my[w] EXCEPT !.got = Append(my[w].got, <<port, outcome>>),
                                  !.index = my[w].index + 1]
    <2>1. my[w].got \in Seq(Ports \X Outcomes) /\ my[w].index + 1 \in Nat
      BY <1>3 DEF Local
    <2>2. Append(my[w].got, <<port, outcome>>) \in Seq(Ports \X Outcomes)
      BY <2>1, AppendProperties
    <2>3. l \in Local
      BY <1>3, <2>1, <2>2, LocalUpdates
    <2>4. l.array = my[w].array
      BY <1>3 DEF Local
    <2>5. at' = [at EXCEPT ![w] = "visit"]
      BY <1>13 DEF WorkerGoes
    <2>6. my' = [my EXCEPT ![w] = l]
      BY <1>2, <1>3, <1>13 DEF Gather, Local
    <2> HIDE DEF l
    <2> QED BY <1>1, <1>3, <2>3, <2>4, <2>5, <2>6, OneWorkerMoves
  <1>14. ASSUME NEW w \in Workers, Contact(w)
         PROVE  WorkerTypes'
    <2> DEFINE port == heap[my[w].array][my[w].index].port
    <2>1. port \in Ports
      BY <1>14, SlotRead DEF Contact, Record, Ports
    <2>2. CASE /\ WorkerGoes(w, "contact", "await")
               /\ my' = [my EXCEPT ![w].rec.port = port, ![w].sent = "answered"]
      <3> DEFINE k == [my[w] EXCEPT !.rec.port = port]
                 l == [k EXCEPT !.sent = "answered"]
      <3>1. k \in Local
        BY <1>3, <2>1, LocalUpdates
      <3>2. l \in Local
        BY <3>1, LocalUpdates DEF Replies
      <3>3. l.array = my[w].array
        BY <1>3 DEF Local
      <3>4. at' = [at EXCEPT ![w] = "await"] /\ my' = [my EXCEPT ![w] = l]
        BY <1>2, <2>2 DEF WorkerGoes
      <3> HIDE DEF k, l
      <3> QED BY <1>1, <1>3, <3>2, <3>3, <3>4, OneWorkerMoves
    <2>3. CASE WorkerGoes(w, "contact", "visit") /\ Gather(w, port, "refused")
      BY <1>13, <2>1, <2>3 DEF Outcomes
    <2> QED BY <1>14, <2>2, <2>3 DEF Contact
  <1>15. ASSUME NEW w \in Workers, Reply(w) \/ CutOff(w)
         PROVE  WorkerTypes'
    <2>1. my[w].rec.port \in Ports
      BY <1>3 DEF Local, Record, Ports
    <2>2. \E outcome \in Outcomes :
            WorkerGoes(w, "await", "visit") /\ Gather(w, my[w].rec.port, outcome)
      <3>1. my[w].sent # "nothing" => my[w].sent \in Outcomes
        BY <1>3 DEF Local, Replies, Outcomes
      <3> QED BY <1>15, <3>1 DEF Reply, CutOff, Outcomes
    <2> QED BY <1>1, <1>13, <2>1, <2>2
  <1>16. ASSUME at' = at, my' = my
         PROVE  WorkerTypes'
    BY <1>1, <1>2, <1>16 DEF WorkerTypes
  <1>17. ASSUME \/ UNCHANGED vars \/ FreeServants
                \/ \E s \in Servants : ServantTerminates(s)
                \/ \E w \in Workers : Stops(w)
         PROVE  WorkerTypes'
    BY <1>16, <1>17, Stopped DEF vars, FreeServants, ServantTerminates
  <1>18. ASSUME NEW w \in Workers, Clash(w)
         PROVE  WorkerTypes'
    <2>1. PICK what \in {"mixed", "nothing"} : my' = [my EXCEPT ![w].sent = what]
      BY <1>18 DEF Clash
    <2> DEFINE l == [my[w] EXCEPT !.sent = what]
    <2>2. l \in Local
      BY <1>3, LocalUpdates DEF Replies
    <2>3. l.array = my[w].array
      BY <1>3 DEF Local
    <2>4. at \in [Workers -> Pcs]
      BY DEF WorkerTypes
    <2>5. at[w] \in Pcs /\ at' = [at EXCEPT ![w] = at[w]]
      BY <1>18, <2>4 DEF Clash
    <2>6. my' = [my EXCEPT ![w] = l]
      BY <1>2, <2>1
    <2> HIDE DEF l
    <2> QED BY <1>1, <1>3, <2>2, <2>3, <2>5, <2>6, OneWorkerMoves
  <1> QED BY <1>4, <1>5, <1>6, <1>7, <1>9, <1>10, <1>11, <1>12, <1>14, <1>15, <1>17,
             <1>18, NextCases

(* One worker steps, and the others stay where they are.                   *)
LEMMA Others ==
  ASSUME WorkerTypes, NEW w \in Workers,
         HandleServant(w) \/ HandleClientRequest(w) \/ Clash(w) \/ Stops(w)
  PROVE  \A v \in Workers : v # w => at'[v] = at[v] /\ my'[v] = my[v]
  <1>1. at \in [Workers -> Pcs] /\ my \in [Workers -> Local]
    BY DEF WorkerTypes, Pcs
  <1>2. CASE HandleServant(w)
    BY <1>1, <1>2 DEF HandleServant, EvalSlot, AssignTo, ResetLine, AppendToken,
       StoreField, ReadField, EndOfRegistration, StoreSlot, Announce, ReadCount,
       WriteCount, CheckRoom, GrowIf, GrowCopy, CopyFirst, GrowFree, GrowInstall,
       Registered, WorkerGoes
  <1>3. CASE HandleClientRequest(w)
    BY <1>1, <1>3 DEF HandleClientRequest, BeginQuery, Visit, CannotAsk, Contact, Reply,
       CutOff, Answer, AnswerAfter, Gather, WorkerGoes
  <1>4. CASE Clash(w)
    BY <1>1, <1>4 DEF Clash
  <1>5. CASE Stops(w)
    BY <1>5, Stopped
  <1> QED BY <1>2, <1>3, <1>4, <1>5

(* A step of a registration, from its second action on, is of the worker   *)
(* that reads it, and no other worker reads one afterwards.                *)
Registering(w) ==
  \/ ResetLine(w) \/ AppendToken(w) \/ StoreField(w) \/ EndOfRegistration(w)
  \/ StoreSlot(w) \/ Announce(w) \/ ReadCount(w) \/ WriteCount(w)
  \/ CheckRoom(w) \/ GrowCopy(w) \/ GrowFree(w) \/ GrowInstall(w)

LEMMA RegistrarAlone ==
  ASSUME Serialised, WorkerTypes, LineInv, NEW w \in Workers,
         Registering(w) \/ \E s \in Servants : EvalSlot(w, s)
  PROVE  \A v \in Workers : v # w =>
            /\ at'[v] = at[v] /\ my'[v] = my[v]
            /\ at[v] \notin RegisterPcs
  <1>1. HandleServant(w)
    BY DEF Registering, HandleServant
  <1>2. ASSUME NEW s \in Servants, EvalSlot(w, s)
        PROVE  \A v \in Workers : at[v] \notin RegisterPcs
    BY <1>2 DEF EvalSlot, AssignTo
  <1>3. CASE Registering(w)
    <2>1. at[w] \in RegisterPcs
      BY <1>3 DEF Registering, ResetLine, AppendToken, StoreField, ReadField,
         EndOfRegistration, StoreSlot, Announce, ReadCount, WriteCount, CheckRoom, GrowIf,
         GrowCopy, CopyFirst, GrowFree, GrowInstall, WorkerGoes, RegisterPcs
    <2> QED BY <1>1, <2>1, Others DEF LineInv
  <1> QED BY <1>1, <1>2, <1>3, Others

(* A step of a query, or of nobody: what a registration depends on stays.  *)
LEMMA QueryStep ==
  ASSUME WorkerTypes, NEW w \in Workers,
         HandleClientRequest(w) \/ Clash(w) \/ Stops(w)
  PROVE  /\ UNCHANGED <<line, arrayVars, currentServantCount, joining, registered, alive,
                        interrupted>>
         /\ \A v \in Workers : at[v] \in RegisterPcs \/ at'[v] \in RegisterPcs =>
               at'[v] = at[v] /\ my'[v] = my[v]
  <1>1. at \in [Workers -> Pcs]
    BY DEF WorkerTypes, Pcs
  <1>2. CASE Stops(w)
    BY <1>2, Stopped DEF arrayVars
  <1>3. CASE HandleClientRequest(w)
    <2>1. UNCHANGED <<line, arrayVars, currentServantCount, joining, registered, alive,
                      interrupted>>
      BY <1>3 DEF HandleClientRequest, BeginQuery, Visit, CannotAsk, Contact, Reply,
         CutOff, Answer, AnswerAfter, doneVars, worldVars
    <2>2. at[w] \notin RegisterPcs /\ at'[w] \notin RegisterPcs
      BY <1>1, <1>3 DEF HandleClientRequest, BeginQuery, Visit, CannotAsk, Contact, Reply,
         CutOff, Answer, AnswerAfter, WorkerGoes, RegisterPcs
    <2> QED BY <1>3, <2>1, <2>2, Others
  <1>4. CASE Clash(w)
    <2>1. UNCHANGED <<line, arrayVars, currentServantCount, joining, registered, alive,
                      interrupted>>
      BY <1>4 DEF Clash, doneVars, worldVars
    <2>2. at' = at /\ at[w] \notin RegisterPcs
      BY <1>4 DEF Clash, RegisterPcs
    <2> QED BY <1>4, <2>1, <2>2, Others
  <1> QED BY <1>2, <1>3, <1>4

-----------------------------------------------------------------------------
LEMMA DoneStep ==
  ASSUME Types, LineInv, [Next]_vars
  PROVE  DoneTypes'
  <1>0. /\ WorkerTypes /\ DoneTypes
        /\ \A w \in Workers : my[w] \in Local
        /\ my \in [Workers -> Local]
        /\ at \in [Workers -> Pcs]
    BY DEF Types, WorkerTypes, Pcs
  <1>1. ASSUME NEW w \in Workers, NEW s \in Servants, EvalSlot(w, s)
        PROVE  DoneTypes'
    <2>1. joining' = joining \ {s} /\ UNCHANGED <<registered, asked, replies>>
      BY <1>1 DEF EvalSlot, AssignTo, doneVars
    <2>2. at'[w] = "reset"
      BY <1>0, <1>1 DEF EvalSlot, AssignTo, WorkerGoes
    <2>3. \A v \in Workers : v # w => at'[v] = at[v] /\ my'[v] = my[v]
      BY <1>0, <1>1, Others DEF HandleServant
    <2>4. /\ \A v \in Workers : at'[v] \in QueryPcs =>
                at[v] \in QueryPcs /\ my'[v] = my[v]
          /\ joining' \subseteq joining
      BY <2>1, <2>2, <2>3 DEF QueryPcs
    <2> QED BY <1>0, <2>1, <2>4 DEF DoneTypes
  <1>2. ASSUME NEW w \in Workers, Registering(w)
        PROVE  DoneTypes'
    <2>1. \A v \in Workers : v # w => at'[v] = at[v] /\ my'[v] = my[v]
      BY <1>0, <1>2, Others DEF HandleServant, Registering
    <2>2. /\ at[w] \in RegisterPcs /\ at'[w] \notin QueryPcs
          /\ UNCHANGED <<joining, asked, replies>>
      BY <1>0, <1>2 DEF Registering, ResetLine, AppendToken, StoreField, ReadField,
         EndOfRegistration, StoreSlot, Announce, ReadCount, WriteCount, CheckRoom, GrowIf,
         GrowCopy, CopyFirst, GrowFree, GrowInstall, WorkerGoes, RegisterPcs, QueryPcs,
         doneVars
    <2>3. registered' = registered \/ registered' = registered \cup {my[w].peer}
      BY <1>2 DEF Registering, ResetLine, AppendToken, StoreField, ReadField,
         EndOfRegistration, StoreSlot, Announce, ReadCount, WriteCount, CheckRoom, GrowIf,
         GrowCopy, CopyFirst, GrowFree, GrowInstall, Registered, doneVars
    <2>4. my[w].peer \in Servants \ joining
      BY <2>2 DEF LineInv, ReadingInv
    <2>5. registered \subseteq registered' /\ registered' \subseteq Servants
          /\ joining \cap registered' = {}
      BY <1>0, <2>3, <2>4 DEF DoneTypes
    <2>6. \A v \in Workers : at'[v] \in QueryPcs => at[v] \in QueryPcs /\ my'[v] = my[v]
      BY <2>1, <2>2
    <2> QED BY <1>0, <2>2, <2>5, <2>6 DEF DoneTypes
  <1>3. ASSUME NEW w \in Workers, NEW q \in Queries, BeginQuery(w, q)
        PROVE  DoneTypes'
    <2>1. \A v \in Workers : v # w => at'[v] = at[v] /\ my'[v] = my[v]
      BY <1>0, <1>3, Others DEF HandleClientRequest
    <2>2. /\ asked' = asked \cup {q} /\ q \notin asked
          /\ UNCHANGED <<joining, registered, replies>>
      BY <1>3 DEF BeginQuery
    <2>3. my'[w].peer = q /\ my'[w].before = registered
      BY <1>0, <1>3 DEF BeginQuery, Idle
    <2>4. \A v \in Workers : v # w /\ at'[v] \in QueryPcs => my'[v].peer # q
      BY <1>0, <2>1, <2>2 DEF DoneTypes
    <2>5. \A u, v \in Workers :
            at'[u] \in QueryPcs /\ at'[v] \in QueryPcs /\ my'[u].peer = my'[v].peer
              => u = v
      BY <1>0, <2>1, <2>3, <2>4 DEF DoneTypes
    <2>6. \A v \in Workers : at'[v] \in QueryPcs =>
             my'[v].peer \in asked' /\ my'[v].before \subseteq registered'
      BY <1>0, <2>1, <2>2, <2>3 DEF DoneTypes
    <2> QED BY <1>0, <2>2, <2>5, <2>6 DEF DoneTypes
  <1>4. ASSUME NEW w \in Workers,
               Visit(w) \/ Contact(w) \/ Reply(w) \/ CutOff(w) \/ Clash(w)
        PROVE  DoneTypes'
    <2>1. \A v \in Workers : v # w => at'[v] = at[v] /\ my'[v] = my[v]
      BY <1>0, <1>4, Others DEF HandleClientRequest
    <2>2. UNCHANGED <<joining, registered, asked, replies>>
      BY <1>4 DEF Visit, Contact, Reply, CutOff, Clash, doneVars
    <2>3. my'[w].peer = my[w].peer /\ my'[w].before = my[w].before
      <3>1. CASE Visit(w)
        BY <1>0, <3>1 DEF Visit, Local
      <3>2. ASSUME NEW port, NEW outcome, Gather(w, port, outcome)
            PROVE  my'[w].peer = my[w].peer /\ my'[w].before = my[w].before
        BY <1>0, <3>2 DEF Gather, Local
      <3>3. ASSUME NEW port, NEW what,
                   my' = [my EXCEPT ![w].rec.port = port, ![w].sent = what]
            PROVE  my'[w].peer = my[w].peer /\ my'[w].before = my[w].before
        BY <1>0, <3>3 DEF Local
      <3>4. CASE Contact(w)
        BY <3>2, <3>3, <3>4 DEF Contact
      <3>5. CASE Reply(w) \/ CutOff(w)
        BY <3>2, <3>5 DEF Reply, CutOff
      <3>6. CASE Clash(w)
        BY <1>0, <3>6 DEF Clash, Local
      <3> QED BY <1>4, <3>1, <3>4, <3>5, <3>6
    <2>4. at[w] \in QueryPcs
      BY <1>4 DEF Visit, Contact, Reply, CutOff, Clash, WorkerGoes, QueryPcs
    <2>5. \A v \in Workers : at'[v] \in QueryPcs =>
             at[v] \in QueryPcs /\ my'[v].peer = my[v].peer /\ my'[v].before = my[v].before
      BY <2>1, <2>3, <2>4
    <2> QED BY <1>0, <2>2, <2>5 DEF DoneTypes
  <1>5. ASSUME NEW w \in Workers, Answer(w)
        PROVE  DoneTypes'
    <2> DEFINE rep == [query |-> my[w].peer, got |-> my[w].got, before |-> my[w].before]
    <2>1. \A v \in Workers : v # w => at'[v] = at[v] /\ my'[v] = my[v]
      BY <1>0, <1>5, Others DEF HandleClientRequest
    <2>2. replies' = replies \cup {rep} /\ UNCHANGED <<joining, registered, asked>>
      BY <1>5 DEF Answer, AnswerAfter
    <2>3. at[w] = "visit" /\ at'[w] = "idle"
      BY <1>0, <1>5 DEF Answer, AnswerAfter, WorkerGoes
    <2>4. /\ my[w].peer \in asked /\ my[w].before \subseteq registered
          /\ my[w].got \in Seq(Ports \X Outcomes)
      BY <1>0, <2>3 DEF DoneTypes, Local, QueryPcs
    <2>5. \A v \in Workers : at'[v] \in QueryPcs => at[v] \in QueryPcs /\ my'[v] = my[v]
      BY <2>1, <2>3 DEF QueryPcs
    <2> QED BY <1>0, <2>2, <2>4, <2>5 DEF DoneTypes
  <1>6. ASSUME \/ UNCHANGED vars \/ FreeServants
               \/ \E s \in Servants : ServantTerminates(s)
               \/ \E w \in Workers : Stops(w)
        PROVE  DoneTypes'
    <2>1. UNCHANGED <<joining, registered, asked, replies, at, my>>
      BY <1>6, Stopped DEF vars, FreeServants, ServantTerminates, doneVars
    <2> QED BY <1>0, <2>1 DEF DoneTypes
  <1> QED BY <1>1, <1>2, <1>3, <1>4, <1>5, <1>6, NextCases DEF Registering

LEMMA RestStep ==
  ASSUME RestTypes, [Next]_vars
  PROVE  RestTypes'
  <1>1. ASSUME NEW w \in Workers, HandleServant(w)
        PROVE  UNCHANGED <<alive, interrupted, fault>>
    BY <1>1 DEF HandleServant, EvalSlot, AssignTo, ResetLine, AppendToken, StoreField,
       ReadField, EndOfRegistration, StoreSlot, Announce, ReadCount, WriteCount,
       CheckRoom, GrowIf, GrowCopy, CopyFirst, GrowFree, GrowInstall, worldVars
  <1>2. ASSUME NEW w \in Workers, HandleClientRequest(w) \/ Clash(w) \/ Stops(w)
        PROVE  /\ UNCHANGED <<alive, interrupted>>
               /\ fault' \in {fault, "stale", "overflow", "hole", "exit"}
    <2>1. CASE Stops(w)
      BY <2>1, Stopped
    <2> QED BY <1>2, <2>1 DEF HandleClientRequest, BeginQuery, Visit, CannotAsk, Contact,
            Reply, CutOff, Answer, AnswerAfter, Clash, worldVars
  <1>3. CASE FreeServants
    BY <1>3 DEF FreeServants, RestTypes
  <1>4. ASSUME NEW s \in Servants, ServantTerminates(s)
        PROVE  RestTypes'
    BY <1>4 DEF ServantTerminates, RestTypes
  <1>5. CASE UNCHANGED vars
    BY <1>5 DEF vars, worldVars, RestTypes
  <1> QED BY <1>1, <1>2, <1>3, <1>4, <1>5 DEF Next, RestTypes, Stops

-----------------------------------------------------------------------------
(* The registration being read.                                            *)
LEMMA BegunGrows ==
  ASSUME NEW s \in Servants, NEW k \in Nat, k <= Len(CitiesOf[s])
  PROVE  /\ k = 0 => Begun(s, k+1) = [Begun(s, k) EXCEPT !.port = s]
         /\ k > 0 => Begun(s, k+1) = [Begun(s, k) EXCEPT !.cities =
                                        Append(Begun(s, k).cities, CitiesOf[s][k])]
         /\ k = Len(CitiesOf[s]) => Begun(s, k+1) = Whole(s)
  <1>1. CitiesOf[s] \in Seq(Cities) /\ Len(CitiesOf[s]) \in Nat
    BY Records, LenProperties
  <1> DEFINE c == CitiesOf[s]
  <1>2. SubSeq(c, 1, 0) = <<>>
    BY <1>1, SubSeqEmpty
  <1>3. ASSUME k = 0
        PROVE  Begun(s, k+1) = [Begun(s, k) EXCEPT !.port = s]
    BY <1>2, <1>3 DEF Begun, Blank
  <1>4. ASSUME k > 0
        PROVE  Append(SubSeq(c, 1, k-1), c[k]) = SubSeq(c, 1, k)
    BY <1>1, <1>4, SubSeqRecursiveSecond
  <1>5. k > 0 => Begun(s, k+1) = [Begun(s, k) EXCEPT !.cities =
                                     Append(Begun(s, k).cities, CitiesOf[s][k])]
    <2>1. k + 1 # 0 /\ (k+1) - 1 = k
      OBVIOUS
    <2>2. Begun(s, k+1) = [port |-> s, cities |-> SubSeq(c, 1, k)]
      BY <2>1 DEF Begun
    <2>3. ASSUME k > 0
          PROVE  Begun(s, k) = [port |-> s, cities |-> SubSeq(c, 1, k-1)]
      BY <2>3 DEF Begun
    <2>4. ASSUME k > 0
          PROVE  [Begun(s, k) EXCEPT !.cities = Append(Begun(s, k).cities, c[k])]
                   = [port |-> s, cities |-> SubSeq(c, 1, k)]
      <3>1. Begun(s, k).cities = SubSeq(c, 1, k-1)
        BY <2>3, <2>4
      <3>2. \A x : [Begun(s, k) EXCEPT !.cities = x] = [port |-> s, cities |-> x]
        BY <2>3, <2>4
      <3>3. Append(Begun(s, k).cities, c[k]) = SubSeq(c, 1, k)
        BY <1>4, <2>4, <3>1
      <3> QED BY <3>2, <3>3
    <2> HIDE DEF c
    <2> QED BY <2>2, <2>4 DEF c
  <1>6. SubSeq(c, 1, Len(c)) = c
    BY <1>1, SubSeqFull
  <1>7. k = Len(c) => Begun(s, k+1) = Whole(s)
    BY <1>1, <1>6 DEF Begun, Whole
  <1> QED BY <1>3, <1>5, <1>7

LEMMA LineStep ==
  ASSUME Serialised, Types, LineInv, [Next]_vars
  PROVE  LineInv'
  <1>0. /\ WorkerTypes /\ DoneTypes
        /\ \A w \in Workers : my[w] \in Local
        /\ my \in [Workers -> Local]
        /\ at \in [Workers -> Pcs]
    BY DEF Types, WorkerTypes, Pcs
  <1>1. ASSUME NEW w \in Workers,
               Registering(w) \/ \E s \in Servants : EvalSlot(w, s),
               line' \in Seq(Ports \X Int) /\ Len(line') <= 1,
               ReadingInv(w)'
        PROVE  LineInv'
    <2>1. \A v \in Workers : v # w => at'[v] \notin RegisterPcs
      BY <1>0, <1>1, RegistrarAlone
    <2>2. \A v \in Workers : v # w => ReadingInv(v)'
      BY <2>1 DEF ReadingInv, RegisterPcs
    <2> QED BY <1>1, <2>1, <2>2 DEF LineInv
  <1>2. ASSUME NEW w \in Workers, NEW s \in Servants, EvalSlot(w, s)
        PROVE  LineInv'
    <2>1. at'[w] = "reset" /\ my'[w].peer = s /\ my'[w].field = 0 /\ my'[w].rec = Blank
      BY <1>0, <1>2 DEF EvalSlot, AssignTo, WorkerGoes, Idle
    <2>2. s \in Servants \ (joining' \cup registered')
      BY <1>0, <1>2 DEF EvalSlot, AssignTo, DoneTypes, doneVars
    <2>3. ReadingInv(w)'
      BY <2>1, <2>2 DEF ReadingInv
    <2>4. line' = line
      BY <1>2 DEF EvalSlot, AssignTo
    <2> QED BY <1>1, <1>2, <2>3, <2>4 DEF LineInv
  <1>3. ASSUME NEW w \in Workers, ResetLine(w)
        PROVE  LineInv'
    <2>1. at[w] = "reset" /\ at'[w] = "append" /\ line' = <<>>
          /\ UNCHANGED <<my, joining, registered>>
      BY <1>0, <1>3 DEF ResetLine, WorkerGoes, doneVars
    <2>2. /\ my[w].peer \in Servants \ (joining \cup registered)
          /\ my[w].field = 0 /\ my[w].rec = Blank
      BY <2>1 DEF LineInv, ReadingInv, RegisterPcs
    <2>3. Len(CitiesOf[my[w].peer]) \in Nat
      BY <2>2, Records, LenProperties
    <2>4. ReadingInv(w)'
      BY <2>1, <2>2, <2>3 DEF ReadingInv, Begun
    <2> QED BY <1>1, <1>3, <2>1, <2>4, EmptySeq DEF Registering
  <1>4. ASSUME NEW w \in Workers, AppendToken(w)
        PROVE  LineInv'
    <2>1. at[w] = "append" /\ at'[w] = "field"
          /\ my[w].field <= Len(CitiesOf[my[w].peer])
          /\ line' = Append(line, <<my[w].peer, my[w].field>>)
          /\ UNCHANGED <<my, joining, registered>>
      BY <1>0, <1>4 DEF AppendToken, WorkerGoes, doneVars
    <2>2. /\ my[w].peer \in Servants \ (joining \cup registered)
          /\ line = <<>> /\ my[w].rec = Begun(my[w].peer, my[w].field)
          /\ my[w].field <= Len(CitiesOf[my[w].peer]) + 1
      BY <2>1 DEF LineInv, ReadingInv, RegisterPcs
    <2>3. my[w].field \in Int /\ my[w].peer \in Ports
      BY <1>0, <2>2 DEF Local, Ports
    <2>4. line' = << <<my[w].peer, my[w].field>> >>
      BY <2>1, <2>2
    <2>5. ReadingInv(w)'
      BY <2>1, <2>2, <2>4 DEF ReadingInv
    <2>6. line' \in Seq(Ports \X Int) /\ Len(line') <= 1
      BY <2>3, <2>4
    <2> QED BY <1>1, <1>4, <2>5, <2>6 DEF Registering
  <1>5. ASSUME NEW w \in Workers, StoreField(w)
        PROVE  LineInv'
    <2> DEFINE s == my[w].peer   k == my[w].field
    <2>1. at[w] = "field" /\ at'[w] = "append" /\ line' = <<>>
          /\ UNCHANGED <<joining, registered>>
      BY <1>0, <1>5 DEF StoreField, ReadField, WorkerGoes, doneVars
    <2>2. /\ s \in Servants \ (joining \cup registered) /\ k \in Nat
          /\ k <= Len(CitiesOf[s]) /\ my[w].rec = Begun(s, k)
      BY <1>0, <2>1 DEF LineInv, ReadingInv, RegisterPcs, Local
    <2>3. PICK r \in Record :
            /\ my' = [my EXCEPT ![w] = [my[w] EXCEPT !.rec = r, !.field = k + 1]]
            /\ k = 0 => r = [my[w].rec EXCEPT !.port = s]
            /\ k > 0 => r = [my[w].rec EXCEPT !.cities =
                               Append(my[w].rec.cities, CitiesOf[s][k])]
      BY <1>0, <1>5, FieldStored
    <2>4. my'[w].rec = r /\ my'[w].field = k + 1 /\ my'[w].peer = s
      BY <1>0, <2>3 DEF Local
    <2> HIDE DEF s, k
    <2>5. r = Begun(s, k+1)
      <3>1. /\ k = 0 => Begun(s, k+1) = [Begun(s, k) EXCEPT !.port = s]
            /\ k > 0 => Begun(s, k+1) = [Begun(s, k) EXCEPT !.cities =
                                           Append(Begun(s, k).cities, CitiesOf[s][k])]
        BY <2>2, BegunGrows
      <3>2. CASE k = 0
        BY <2>2, <2>3, <3>1, <3>2
      <3>3. CASE k > 0
        BY <2>2, <2>3, <3>1, <3>3
      <3> QED BY <2>2, <3>2, <3>3
    <2>6. Len(CitiesOf[s]) \in Nat
      BY <2>2, Records, LenProperties
    <2>7. k + 1 <= Len(CitiesOf[s]) + 1
      BY <2>2, <2>6
    <2>8. ReadingInv(w)'
      BY <2>1, <2>2, <2>4, <2>5, <2>7 DEF ReadingInv
    <2> QED BY <1>1, <1>5, <2>1, <2>8, EmptySeq DEF Registering
  <1>6. ASSUME NEW w \in Workers, EndOfRegistration(w)
        PROVE  LineInv'
    <2>1. at[w] = "append" /\ at'[w] = "slot"
          /\ my[w].field > Len(CitiesOf[my[w].peer])
          /\ UNCHANGED <<line, my, joining, registered>>
      BY <1>0, <1>6 DEF EndOfRegistration, WorkerGoes, doneVars
    <2>2. /\ my[w].peer \in Servants \ (joining \cup registered)
          /\ my[w].rec = Begun(my[w].peer, my[w].field)
          /\ my[w].field <= Len(CitiesOf[my[w].peer]) + 1
      BY <2>1 DEF LineInv, ReadingInv, RegisterPcs
    <2>3. Len(CitiesOf[my[w].peer]) \in Nat /\ my[w].field \in Nat
      BY <1>0, <2>2, Records, LenProperties DEF Local
    <2>4. my[w].field = Len(CitiesOf[my[w].peer]) + 1
      BY <2>1, <2>2, <2>3
    <2>5. my[w].rec = Whole(my[w].peer)
      <3>1. my[w].peer \in Servants
        BY <2>2
      <3>2. \A k \in Nat : k <= Len(CitiesOf[my[w].peer]) =>
              (k = Len(CitiesOf[my[w].peer]) => Begun(my[w].peer, k+1) = Whole(my[w].peer))
        BY <3>1, BegunGrows
      <3>3. Begun(my[w].peer, Len(CitiesOf[my[w].peer]) + 1) = Whole(my[w].peer)
        BY <2>3, <3>2
      <3> QED BY <2>2, <2>4, <3>3
    <2>6. ReadingInv(w)'
      BY <2>1, <2>2, <2>5 DEF ReadingInv
    <2> QED BY <1>1, <1>6, <2>1, <2>6 DEF Registering, LineInv
  <1>7. ASSUME NEW w \in Workers,
               \/ StoreSlot(w) \/ Announce(w) \/ ReadCount(w) \/ WriteCount(w)
               \/ GrowCopy(w) \/ GrowFree(w)
        PROVE  LineInv'
    <2>1. line' = line \/ line' = << <<Garbled, -1>> >>
      BY <1>7 DEF StoreSlot, Announce, ReadCount, WriteCount, GrowCopy, CopyFirst, GrowFree
    <2>2. /\ at[w] \in RegisterPcs
          /\ at'[w] \in {"announce", "count", "recount", "check", "free", "install"}
          /\ UNCHANGED <<joining, registered>>
      BY <1>0, <1>7 DEF StoreSlot, Announce, ReadCount, WriteCount, GrowCopy, CopyFirst,
         GrowFree, WorkerGoes, RegisterPcs, doneVars
    <2>3. my'[w].peer = my[w].peer
      BY <1>0, <1>7 DEF StoreSlot, Announce, ReadCount, WriteCount, GrowCopy, CopyFirst,
         GrowFree, Local
    <2>4. my[w].peer \in Servants \ (joining \cup registered)
      BY <2>2 DEF LineInv, ReadingInv
    <2>5. ReadingInv(w)'
      BY <2>2, <2>3, <2>4 DEF ReadingInv
    <2>6. line' \in Seq(Ports \X Int) /\ Len(line') <= 1
      BY <2>1 DEF LineInv, Ports
    <2> QED BY <1>1, <1>7, <2>5, <2>6 DEF Registering
  <1>8. ASSUME NEW w \in Workers, CheckRoom(w) \/ GrowInstall(w)
        PROVE  LineInv'
    <2>1. line' = line
      BY <1>8 DEF CheckRoom, GrowIf, GrowInstall
    <2>2. \/ at'[w] = "idle"
          \/ at[w] = "check" /\ at'[w] = "grow" /\ UNCHANGED <<my, joining, registered>>
      BY <1>0, <1>8 DEF CheckRoom, GrowIf, GrowInstall, WorkerGoes
    <2>3. ReadingInv(w)'
      BY <2>2 DEF LineInv, ReadingInv, RegisterPcs
    <2> QED BY <1>1, <1>8, <2>1, <2>3 DEF Registering, LineInv
  <1>9. ASSUME UNCHANGED <<line, joining, registered>>,
               \A v \in Workers : at[v] \in RegisterPcs \/ at'[v] \in RegisterPcs =>
                  at'[v] = at[v] /\ my'[v] = my[v]
        PROVE  LineInv'
    <2>1. \A v \in Workers : ReadingInv(v)'
      BY <1>9 DEF LineInv, ReadingInv, RegisterPcs
    <2> QED BY <1>9, <2>1 DEF LineInv
  <1>10. ASSUME \/ UNCHANGED vars \/ FreeServants
                \/ \E s \in Servants : ServantTerminates(s)
         PROVE  LineInv'
    <2>1. UNCHANGED <<line, joining, registered, at, my>>
      BY <1>10 DEF vars, FreeServants, ServantTerminates, doneVars
    <2> QED BY <1>9, <2>1
  <1>11. ASSUME NEW w \in Workers, HandleClientRequest(w) \/ Clash(w) \/ Stops(w)
         PROVE  LineInv'
    BY <1>0, <1>9, <1>11, QueryStep
  <1> QED BY <1>2, <1>3, <1>4, <1>5, <1>6, <1>7, <1>8, <1>10, <1>11, NextCases
          DEF HandleClientRequest

-----------------------------------------------------------------------------
(* The table.                                                              *)
(* A process that has come down takes no step.                             *)
LEMMA NextUp ==
  ASSUME Next
  PROVE  Up
  <1>1. ASSUME NEW w \in Workers, HandleServant(w)
        PROVE  Up
    BY <1>1 DEF HandleServant, EvalSlot, AssignTo, ResetLine, AppendToken, StoreField,
       ReadField, EndOfRegistration, StoreSlot, Announce, ReadCount, WriteCount,
       CheckRoom, GrowIf, GrowCopy, CopyFirst, GrowFree, GrowInstall, WorkerGoes
  <1>2. ASSUME NEW w \in Workers, HandleClientRequest(w) \/ Clash(w) \/ Stops(w)
        PROVE  Up
    <2>1. CASE Stops(w)
      BY <2>1, Stopped
    <2> QED BY <1>2, <2>1 DEF HandleClientRequest, BeginQuery, Visit, CannotAsk, Contact,
            Reply, CutOff, Answer, AnswerAfter, Clash, WorkerGoes
  <1>3. ASSUME FreeServants \/ \E s \in Servants : ServantTerminates(s)
        PROVE  Up
    BY <1>3 DEF FreeServants, ServantTerminates
  <1> QED BY <1>1, <1>2, <1>3 DEF Next, Stops

LEMMA UpBefore ==
  ASSUME [Next]_vars, Up'
  PROVE  Up
  <1>1. CASE UNCHANGED vars
    BY <1>1 DEF vars, Up
  <1> QED BY <1>1, NextUp

(* While w is the only worker that reads a registration, the table follows *)
(* from where w stands.                                                    *)
LEMMA Alone ==
  ASSUME WorkerTypes, NEW w \in Workers,
         \A v \in Workers : v # w => /\ at'[v] = at[v] /\ my'[v] = my[v]
                                     /\ at[v] \notin RegisterPcs
  PROVE  /\ \A v \in Workers : v # w => SlotInv(v)'
         /\ at[w] \in CountedPcs => Joined = registered \cup {my[w].peer}
         /\ at[w] \notin CountedPcs => Joined = registered
         /\ at'[w] \in CountedPcs => Joined' = registered' \cup {my'[w].peer}
         /\ at'[w] \notin CountedPcs => Joined' = registered'
         /\ \A v \in Workers : v # w => at[v] \notin CountedPcs /\ at'[v] \notin CountedPcs
  <1>1. \A v \in Workers : v # w => SlotInv(v)'
    BY DEF SlotInv, RegisterPcs
  <1>2. \A v \in Workers : v # w => at[v] \notin CountedPcs /\ at'[v] \notin CountedPcs
    BY DEF CountedPcs, RegisterPcs
  <1> HIDE DEF CountedPcs
  <1>3. /\ at[w] \in CountedPcs => Joined = registered \cup {my[w].peer}
        /\ at[w] \notin CountedPcs => Joined = registered
    BY <1>2 DEF Joined
  <1>4. /\ at'[w] \in CountedPcs => Joined' = registered' \cup {my'[w].peer}
        /\ at'[w] \notin CountedPcs => Joined' = registered'
    BY <1>2 DEF Joined
  <1> QED BY <1>1, <1>2, <1>3, <1>4

LEMMA StillListed ==
  ASSUME Counted, Listed, UNCHANGED <<currentServantCount, Joined>>,
         \A i \in 0..currentServantCount-1 : Slot(i)' = Slot(i)
  PROVE  Counted' /\ Listed'
  <1>1. Counted'
    BY DEF Counted
  <1>2. {Slot(i)' : i \in 0..currentServantCount'-1}
           = {Slot(i) : i \in 0..currentServantCount-1}
    OBVIOUS
  <1>3. \A i, j \in 0..currentServantCount'-1 : Slot(i)' = Slot(j)' => i = j
    BY DEF Listed
  <1> QED BY <1>1, <1>2, <1>3 DEF Listed

(* Steps that leave the table and the worker that registers alone.         *)
LEMMA TableKept ==
  ASSUME TableInv, Up,
         UNCHANGED <<heap, servants, servantCacheSize, currentServantCount, registered>>,
         freed \subseteq freed',
         \A v \in Workers : at[v] \in RegisterPcs \/ at'[v] \in RegisterPcs =>
            at'[v] = at[v] /\ my'[v] = my[v]
  PROVE  TableInv'
  <1>1. Joined' = Joined
    BY DEF Joined, CountedPcs, RegisterPcs
  <1>2. \A i : Slot(i)' = Slot(i)
    BY DEF Slot
  <1>3. Counted' /\ Listed'
    BY <1>1, <1>2, StillListed DEF TableInv
  <1>4. RoomInv'
    BY DEF TableInv, RoomInv, RegisterPcs
  <1>5. \A v \in Workers : SlotInv(v)'
    BY <1>2 DEF TableInv, SlotInv, RegisterPcs
  <1> QED BY <1>3, <1>4, <1>5 DEF TableInv

(* Steps of the worker that registers which leave the table as it is.      *)
LEMMA TableSame ==
  ASSUME WorkerTypes, TableInv, Up, NEW w \in Workers,
         \A v \in Workers : v # w => /\ at'[v] = at[v] /\ my'[v] = my[v]
                                     /\ at[v] \notin RegisterPcs,
         UNCHANGED <<arrayVars, currentServantCount>>, Joined' = Joined,
         at[w] \notin {"free", "install"}, at'[w] \notin {"free", "install"},
         at'[w] \in {"check", "grow"} \/ at[w] \notin {"check", "grow"},
         SlotInv(w)'
  PROVE  TableInv'
  <1>1. \A i : Slot(i)' = Slot(i)
    BY DEF Slot, arrayVars
  <1>2. Counted' /\ Listed'
    BY <1>1, StillListed DEF TableInv
  <1>3. \A v \in Workers : v # w => at[v] \notin {"check", "grow", "free", "install"}
    BY DEF RegisterPcs
  <1>4. RoomInv'
    BY <1>3 DEF TableInv, RoomInv, arrayVars
  <1>5. \A v \in Workers : SlotInv(v)'
    BY Alone
  <1> QED BY <1>2, <1>4, <1>5 DEF TableInv

LEMMA RegisterStep ==
  ASSUME Serialised, Types, LineInv, TableInv, Up, NEW w \in Workers,
         \/ \E s \in Servants : EvalSlot(w, s)
         \/ ResetLine(w) \/ AppendToken(w) \/ StoreField(w) \/ EndOfRegistration(w)
         \/ Announce(w) \/ ReadCount(w)
  PROVE  TableInv'
  <1>0. /\ WorkerTypes /\ ArrayTypes
        /\ my[w] \in Local /\ my \in [Workers -> Local]
        /\ at \in [Workers -> Pcs]
        /\ SlotInv(w) /\ ReadingInv(w)
    BY DEF Types, WorkerTypes, Pcs, TableInv, LineInv
  <1>1. \A v \in Workers : v # w => /\ at'[v] = at[v] /\ my'[v] = my[v]
                                    /\ at[v] \notin RegisterPcs
    BY <1>0, RegistrarAlone DEF Registering
  <1>2. UNCHANGED <<arrayVars, currentServantCount, registered>>
    BY DEF EvalSlot, AssignTo, ResetLine, AppendToken, StoreField, ReadField,
       EndOfRegistration, Announce, ReadCount, doneVars
  <1>3. /\ at[w] \in {"idle", "reset", "append", "field", "announce", "count"}
        /\ at'[w] \in {"reset", "append", "field", "slot", "count", "recount"}
    BY <1>0 DEF EvalSlot, AssignTo, ResetLine, AppendToken, StoreField, ReadField,
       EndOfRegistration, Announce, ReadCount, WorkerGoes
  <1>4. Joined' = Joined
    BY <1>0, <1>1, <1>2, <1>3, Alone DEF CountedPcs
  <1>5. Slot(currentServantCount)' = Slot(currentServantCount)
        /\ servants' = servants /\ currentServantCount' = currentServantCount
    BY <1>2 DEF Slot, arrayVars
  <1>6. ASSUME NEW s \in Servants, EvalSlot(w, s)
        PROVE  SlotInv(w)'
    <2>1. at'[w] = "reset" /\ my'[w].array = servants
          /\ my'[w].index = currentServantCount
      BY <1>0, <1>6 DEF EvalSlot, AssignTo, WorkerGoes, Idle
    <2> QED BY <1>5, <2>1 DEF SlotInv
  <1>7. ASSUME ResetLine(w) \/ AppendToken(w) \/ StoreField(w) \/ EndOfRegistration(w)
        PROVE  SlotInv(w)'
    <2>1. /\ at[w] \in {"reset", "append", "field"}
          /\ at'[w] \in {"append", "field", "slot"}
      BY <1>0, <1>7 DEF ResetLine, AppendToken, StoreField, ReadField, EndOfRegistration,
         WorkerGoes
    <2>2. my'[w].array = my[w].array /\ my'[w].index = my[w].index
      <3>1. CASE StoreField(w)
        BY <1>0, <3>1 DEF StoreField, ReadField, Local
      <3>2. CASE ResetLine(w) \/ AppendToken(w) \/ EndOfRegistration(w)
        BY <3>2 DEF ResetLine, AppendToken, EndOfRegistration
      <3> QED BY <1>7, <3>1, <3>2
    <2> QED BY <1>0, <1>5, <2>1, <2>2 DEF SlotInv
  <1>8. ASSUME Announce(w) \/ ReadCount(w)
        PROVE  SlotInv(w)'
    <2>1. /\ at[w] \in {"announce", "count"} /\ at'[w] \in {"count", "recount"}
          /\ at'[w] = "recount" => ReadCount(w)
      BY <1>0, <1>8 DEF Announce, ReadCount, WorkerGoes
    <2>2. my'[w].peer = my[w].peer
      BY <1>0, <1>8 DEF Announce, ReadCount, Local
    <2>3. at'[w] = "recount" => my'[w].n = currentServantCount
      BY <1>0, <2>1 DEF ReadCount, Local
    <2> QED BY <1>0, <1>5, <2>1, <2>2, <2>3 DEF SlotInv
  <1>9. SlotInv(w)'
    BY <1>6, <1>7, <1>8
  <1> QED BY <1>0, <1>1, <1>2, <1>3, <1>4, <1>9, TableSame

LEMMA StoreSlotStep ==
  ASSUME Serialised, Types, LineInv, TableInv, Up, NEW w \in Workers, StoreSlot(w)
  PROVE  TableInv'
  <1>0. /\ WorkerTypes /\ ArrayTypes
        /\ my[w] \in Local /\ at \in [Workers -> Pcs]
        /\ Counted /\ Listed /\ RoomInv /\ SlotInv(w) /\ ReadingInv(w)
        /\ servants \in 1..Len(heap) /\ currentServantCount \in Nat
    BY DEF Types, WorkerTypes, ArrayTypes, Pcs, TableInv, LineInv
  <1>1. \A v \in Workers : v # w => /\ at'[v] = at[v] /\ my'[v] = my[v]
                                    /\ at[v] \notin RegisterPcs
    BY <1>0, RegistrarAlone DEF Registering
  <1>2. /\ at[w] = "slot" /\ at'[w] = "announce"
        /\ UNCHANGED <<servants, servantCacheSize, currentServantCount, registered, my>>
    BY <1>0 DEF StoreSlot, WorkerGoes, doneVars
  <1>3. /\ my[w].array = servants /\ my[w].index = currentServantCount
        /\ my[w].rec = Whole(my[w].peer) /\ my[w].rec \in Record
    BY <1>0, <1>2 DEF SlotInv, ReadingInv, Local
  <1>4. my[w].index \in DOMAIN heap[my[w].array]
    BY <1>0, <1>2, <1>3 DEF StoreSlot, Sound, Problem, Element
  <1>5. /\ \A b \in 1..Len(heap) : DOMAIN heap'[b] = DOMAIN heap[b]
        /\ heap'[servants][currentServantCount] = Whole(my[w].peer)
        /\ \A b \in 1..Len(heap) : \A j \in DOMAIN heap[b] :
              b # servants \/ j # currentServantCount => heap'[b][j] = heap[b][j]
    BY <1>0, <1>3, <1>4, StoreInHeap DEF StoreSlot
  <1>6. Joined' = Joined
    BY <1>0, <1>1, <1>2, Alone DEF CountedPcs
  <1>7. \A i \in 0..currentServantCount-1 : Slot(i)' = Slot(i)
    BY <1>0, <1>2, <1>5 DEF RoomInv, Slot
  <1>8. Counted' /\ Listed'
    BY <1>0, <1>2, <1>6, <1>7, StillListed
  <1>9. \A v \in Workers : v # w => at[v] \notin {"check", "grow", "free", "install"}
    BY <1>1 DEF RegisterPcs
  <1>10. RoomInv'
    BY <1>0, <1>2, <1>5, <1>9 DEF RoomInv
  <1>11. SlotInv(w)'
    BY <1>2, <1>5 DEF SlotInv, Slot
  <1>12. \A v \in Workers : SlotInv(v)'
    BY <1>0, <1>1, <1>11, Alone
  <1> QED BY <1>8, <1>10, <1>12 DEF TableInv

LEMMA WriteCountStep ==
  ASSUME Serialised, Types, LineInv, TableInv, Up, NEW w \in Workers, WriteCount(w)
  PROVE  TableInv'
  <1>0. /\ WorkerTypes /\ ArrayTypes
        /\ my[w] \in Local /\ at \in [Workers -> Pcs]
        /\ Counted /\ Listed /\ RoomInv /\ SlotInv(w) /\ ReadingInv(w)
        /\ servants \in 1..Len(heap)
        /\ currentServantCount \in Nat /\ servantCacheSize \in Nat
    BY DEF Types, WorkerTypes, ArrayTypes, Pcs, TableInv, LineInv
  <1>1. \A v \in Workers : v # w => /\ at'[v] = at[v] /\ my'[v] = my[v]
                                    /\ at[v] \notin RegisterPcs
    BY <1>0, RegistrarAlone DEF Registering
  <1>2. /\ at[w] = "recount" /\ at'[w] = "check"
        /\ UNCHANGED <<arrayVars, registered, my>>
        /\ currentServantCount' = my[w].n + 1
    BY <1>0 DEF WriteCount, WorkerGoes, doneVars
  <1>3. /\ my[w].n = currentServantCount
        /\ Slot(currentServantCount) = Whole(my[w].peer)
        /\ my[w].peer \notin registered
    BY <1>0, <1>2 DEF SlotInv, ReadingInv, RegisterPcs
  <1>4. Joined = registered /\ Joined' = registered \cup {my[w].peer}
    BY <1>0, <1>1, <1>2, Alone DEF CountedPcs
  <1>5. currentServantCount' = currentServantCount + 1
    BY <1>2, <1>3
  <1>6. \A i : Slot(i)' = Slot(i)
    BY <1>2 DEF Slot, arrayVars
  <1>7. Counted'
    <2>1. /\ IsFiniteSet(registered \cup {my[w].peer})
          /\ Cardinality(registered \cup {my[w].peer}) = Cardinality(registered) + 1
      BY <1>0, <1>3, <1>4, FS_AddElement DEF Counted
    <2> QED BY <1>0, <1>4, <1>5, <2>1 DEF Counted
  <1>8. Listed'
    <2>1. 0..currentServantCount'-1 = (0..currentServantCount-1) \cup {currentServantCount}
      BY <1>0, <1>5
    <2>2. {Slot(i)' : i \in 0..currentServantCount'-1}
            = {Slot(i) : i \in 0..currentServantCount-1} \cup {Slot(currentServantCount)}
      BY <1>6, <2>1
    <2>3. {Whole(s) : s \in Joined'} = {Whole(s) : s \in Joined} \cup {Whole(my[w].peer)}
      BY <1>4
    <2>4. \A i \in 0..currentServantCount-1 : Slot(i) # Slot(currentServantCount)
      <3> SUFFICES ASSUME NEW i \in 0..currentServantCount-1
                   PROVE  Slot(i) # Whole(my[w].peer)
        BY <1>3
      <3>1. PICK s \in Joined : Slot(i) = Whole(s)
        BY <1>0 DEF Listed
      <3> QED BY <1>3, <1>4, <3>1 DEF Whole
    <2>5. \A i, j \in 0..currentServantCount'-1 : Slot(i) = Slot(j) => i = j
      BY <1>0, <2>1, <2>4 DEF Listed
    <2>6. \A i, j \in 0..currentServantCount'-1 : Slot(i)' = Slot(j)' => i = j
      BY <1>6, <2>5
    <2> QED BY <1>0, <1>3, <2>2, <2>3, <2>6 DEF Listed
  <1>9. \A v \in Workers : v # w => at[v] \notin {"check", "grow", "free", "install"}
    BY <1>1 DEF RegisterPcs
  <1>10. RoomInv'
    <2>1. /\ currentServantCount < servantCacheSize
          /\ DOMAIN heap[servants] = 0..servantCacheSize-1
      BY <1>0, <1>2, <1>9 DEF RoomInv
    <2>2. currentServantCount' <= servantCacheSize
          /\ 0..currentServantCount'-1 \subseteq DOMAIN heap[servants]
      BY <1>0, <1>5, <2>1
    <2> QED BY <1>2, <2>1, <2>2 DEF RoomInv, arrayVars
  <1>11. SlotInv(w)'
    BY <1>2 DEF SlotInv
  <1>12. \A v \in Workers : SlotInv(v)'
    BY <1>0, <1>1, <1>11, Alone
  <1> QED BY <1>7, <1>8, <1>10, <1>12 DEF TableInv

LEMMA CheckRoomStep ==
  ASSUME Serialised, Types, LineInv, TableInv, Up, NEW w \in Workers, CheckRoom(w)
  PROVE  TableInv'
  <1>0. /\ WorkerTypes /\ ArrayTypes
        /\ my[w] \in Local /\ at \in [Workers -> Pcs]
        /\ Counted /\ Listed /\ RoomInv
        /\ currentServantCount \in Nat /\ servantCacheSize \in Nat
    BY DEF Types, WorkerTypes, ArrayTypes, Pcs, TableInv, LineInv
  <1>1. \A v \in Workers : v # w => /\ at'[v] = at[v] /\ my'[v] = my[v]
                                    /\ at[v] \notin RegisterPcs
    BY <1>0, RegistrarAlone DEF Registering
  <1>2. /\ at[w] = "check" /\ UNCHANGED <<arrayVars, currentServantCount>>
        /\ \/ /\ currentServantCount >= servantCacheSize
              /\ at'[w] = "grow" /\ UNCHANGED <<registered, my>>
           \/ /\ currentServantCount < servantCacheSize
              /\ at'[w] = "idle" /\ registered' = registered \cup {my[w].peer}
    BY <1>0 DEF CheckRoom, GrowIf, WorkerGoes, Registered
  <1>3. Joined' = Joined
    <2>1. Joined = registered \cup {my[w].peer}
      BY <1>0, <1>1, <1>2, Alone DEF CountedPcs
    <2>2. Joined' = registered \cup {my[w].peer}
      BY <1>0, <1>1, <1>2, Alone DEF CountedPcs
    <2> QED BY <2>1, <2>2
  <1>4. \A i : Slot(i)' = Slot(i)
    BY <1>2 DEF Slot, arrayVars
  <1>5. Counted' /\ Listed'
    BY <1>0, <1>2, <1>3, <1>4, StillListed
  <1>6. \A v \in Workers : v # w => at[v] \notin {"check", "grow", "free", "install"}
    BY <1>1 DEF RegisterPcs
  <1>7. RoomInv'
    BY <1>0, <1>2, <1>6 DEF RoomInv, arrayVars
  <1>8. SlotInv(w)'
    BY <1>2 DEF SlotInv
  <1>9. \A v \in Workers : SlotInv(v)'
    BY <1>0, <1>1, <1>8, Alone
  <1> QED BY <1>5, <1>7, <1>9 DEF TableInv

LEMMA GrowCopyStep ==
  ASSUME Serialised, Types, LineInv, TableInv, Up, NEW w \in Workers, GrowCopy(w)
  PROVE  TableInv'
  <1>0. /\ WorkerTypes /\ ArrayTypes
        /\ my[w] \in Local /\ at \in [Workers -> Pcs]
        /\ Counted /\ Listed /\ RoomInv
        /\ servants \in 1..Len(heap) /\ Len(heap) \in Nat
        /\ currentServantCount \in Nat /\ servantCacheSize \in Nat \ {0}
    BY HeapElement DEF Types, WorkerTypes, ArrayTypes, Pcs, TableInv
  <1>1. \A v \in Workers : v # w => /\ at'[v] = at[v] /\ my'[v] = my[v]
                                    /\ at[v] \notin RegisterPcs
    BY <1>0, RegistrarAlone DEF Registering
  <1>2. /\ at[w] = "grow" /\ at'[w] = "free"
        /\ UNCHANGED <<servants, currentServantCount, registered, my>>
        /\ servantCacheSize' = 2 * servantCacheSize
    BY <1>0 DEF GrowCopy, CopyFirst, WorkerGoes, doneVars
  <1>3. /\ Len(heap') = Len(heap) + 1
        /\ heap'[servants] = heap[servants]
        /\ heap'[Len(heap')] = [i \in 0..2*servantCacheSize-1 |->
             IF i < servantCacheSize /\ i \in DOMAIN heap[servants] THEN Slot(i) ELSE Hole]
    BY <1>0, Grown DEF GrowCopy
  <1>4. Joined' = Joined
    <2>1. Joined = registered \cup {my[w].peer}
      BY <1>0, <1>1, <1>2, Alone DEF CountedPcs
    <2>2. Joined' = registered \cup {my[w].peer}
      BY <1>0, <1>1, <1>2, Alone DEF CountedPcs
    <2> QED BY <2>1, <2>2
  <1>5. \A i : Slot(i)' = Slot(i)
    BY <1>2, <1>3 DEF Slot
  <1>6. Counted' /\ Listed'
    BY <1>0, <1>2, <1>4, <1>5, StillListed
  <1>7. RoomInv'
    <2>1. currentServantCount < 2 * servantCacheSize
      BY <1>0 DEF RoomInv
    <2>2. 0..currentServantCount-1 \subseteq DOMAIN heap[servants]
      BY <1>0 DEF RoomInv
    <2> QED BY <1>0, <1>2, <1>3, <2>1, <2>2 DEF RoomInv
  <1>8. \A i \in 0..currentServantCount-1 : heap'[Len(heap')][i] = Slot(i)
    <2>1. /\ currentServantCount <= servantCacheSize
          /\ 0..currentServantCount-1 \subseteq DOMAIN heap[servants]
      BY <1>0 DEF RoomInv
    <2>2. \A i \in 0..currentServantCount-1 : i \in 0..2*servantCacheSize-1
                                              /\ i < servantCacheSize
      BY <1>0, <2>1
    <2> QED BY <1>3, <2>1, <2>2
  <1>9. SlotInv(w)'
    <2>1. DOMAIN heap'[Len(heap')] = 0..servantCacheSize'-1
      BY <1>2, <1>3
    <2>2. Len(heap') > 1
      BY <1>0, <1>3
    <2>3. \A i \in 0..currentServantCount'-1 : heap'[Len(heap')][i] = Slot(i)'
      BY <1>2, <1>5, <1>8
    <2> QED BY <1>2, <2>1, <2>2, <2>3 DEF SlotInv
  <1>10. \A v \in Workers : SlotInv(v)'
    BY <1>0, <1>1, <1>9, Alone
  <1> QED BY <1>6, <1>7, <1>10 DEF TableInv

LEMMA GrowFreeStep ==
  ASSUME Serialised, Types, LineInv, TableInv, Up, NEW w \in Workers, GrowFree(w)
  PROVE  TableInv'
  <1>0. /\ WorkerTypes /\ my[w] \in Local /\ at \in [Workers -> Pcs]
        /\ Counted /\ Listed /\ RoomInv /\ SlotInv(w)
    BY DEF Types, WorkerTypes, Pcs, TableInv
  <1>1. \A v \in Workers : v # w => /\ at'[v] = at[v] /\ my'[v] = my[v]
                                    /\ at[v] \notin RegisterPcs
    BY <1>0, RegistrarAlone DEF Registering
  <1>2. /\ at[w] = "free" /\ at'[w] = "install"
        /\ UNCHANGED <<heap, servants, servantCacheSize, currentServantCount, registered, my>>
        /\ freed' = freed \cup {servants}
    BY <1>0 DEF GrowFree, WorkerGoes, doneVars
  <1>3. Joined' = Joined
    <2>1. Joined = registered \cup {my[w].peer}
      BY <1>0, <1>1, <1>2, Alone DEF CountedPcs
    <2>2. Joined' = registered \cup {my[w].peer}
      BY <1>0, <1>1, <1>2, Alone DEF CountedPcs
    <2> QED BY <2>1, <2>2
  <1>4. \A i : Slot(i)' = Slot(i)
    BY <1>2 DEF Slot
  <1>5. Counted' /\ Listed'
    BY <1>0, <1>2, <1>3, <1>4, StillListed
  <1>6. \A v \in Workers : v # w => at[v] \notin {"check", "grow", "free", "install"}
    BY <1>1 DEF RegisterPcs
  <1>7. RoomInv'
    BY <1>0, <1>2, <1>6 DEF RoomInv
  <1>8. SlotInv(w)'
    <2>1. /\ Len(heap) > 1 /\ DOMAIN heap[Len(heap)] = 0..servantCacheSize-1
          /\ \A i \in 0..currentServantCount-1 : heap[Len(heap)][i] = Slot(i)
      BY <1>0, <1>2 DEF SlotInv
    <2>2. \A i \in 0..currentServantCount'-1 : heap'[Len(heap')][i] = Slot(i)'
      BY <1>2, <1>4, <2>1
    <2> QED BY <1>2, <2>1, <2>2 DEF SlotInv
  <1>9. \A v \in Workers : SlotInv(v)'
    BY <1>0, <1>1, <1>8, Alone
  <1> QED BY <1>5, <1>7, <1>9 DEF TableInv

LEMMA GrowInstallStep ==
  ASSUME Serialised, Types, LineInv, TableInv, Up, NEW w \in Workers, GrowInstall(w)
  PROVE  /\ TableInv'
         /\ \A i \in 0..currentServantCount-1 : Slot(i)' = Slot(i)
  <1>0. /\ WorkerTypes /\ my[w] \in Local /\ at \in [Workers -> Pcs]
        /\ currentServantCount \in Nat /\ servantCacheSize \in Nat
        /\ Counted /\ Listed /\ RoomInv /\ SlotInv(w)
    BY DEF Types, WorkerTypes, ArrayTypes, Pcs, TableInv
  <1>1. \A v \in Workers : v # w => /\ at'[v] = at[v] /\ my'[v] = my[v]
                                    /\ at[v] \notin RegisterPcs
    BY <1>0, RegistrarAlone DEF Registering
  <1>2. /\ at[w] = "install" /\ at'[w] = "idle" /\ servants' = Len(heap)
        /\ registered' = registered \cup {my[w].peer}
        /\ UNCHANGED <<heap, servantCacheSize, currentServantCount>>
    BY <1>0 DEF GrowInstall, WorkerGoes, Registered
  <1>3. /\ DOMAIN heap[Len(heap)] = 0..servantCacheSize-1
        /\ \A i \in 0..currentServantCount-1 : heap[Len(heap)][i] = Slot(i)
    BY <1>0, <1>2 DEF SlotInv
  <1>4. \A i \in 0..currentServantCount-1 : Slot(i)' = Slot(i)
    BY <1>2, <1>3 DEF Slot
  <1>5. Joined' = Joined
    <2>1. Joined = registered \cup {my[w].peer}
      BY <1>0, <1>1, <1>2, Alone DEF CountedPcs
    <2>2. Joined' = registered \cup {my[w].peer}
      BY <1>0, <1>1, <1>2, Alone DEF CountedPcs
    <2> QED BY <2>1, <2>2
  <1>6. Counted' /\ Listed'
    BY <1>0, <1>2, <1>4, <1>5, StillListed
  <1>7. \A v \in Workers : at[v] \notin {"check", "grow"}
    BY <1>1, <1>2 DEF RegisterPcs
  <1>8. RoomInv'
    <2>1. currentServantCount < servantCacheSize
      BY <1>0, <1>7 DEF RoomInv
    <2>2. 0..currentServantCount-1 \subseteq 0..servantCacheSize-1
      BY <1>0, <2>1
    <2>3. DOMAIN heap'[servants'] = 0..servantCacheSize'-1
      BY <1>2, <1>3
    <2>4. currentServantCount' < servantCacheSize' /\ currentServantCount' <= servantCacheSize'
      BY <1>0, <1>2, <2>1
    <2>5. 0..currentServantCount'-1 \subseteq DOMAIN heap'[servants']
      BY <1>2, <2>2, <2>3
    <2> HIDE <1>2
    <2> QED BY <2>3, <2>4, <2>5 DEF RoomInv
  <1>9. SlotInv(w)'
    BY <1>2 DEF SlotInv
  <1>10. \A v \in Workers : SlotInv(v)'
    BY <1>0, <1>1, <1>9, Alone
  <1> QED BY <1>4, <1>6, <1>8, <1>10 DEF TableInv

(* What is in the table stays where it is.                                 *)
LEMMA SlotsKept ==
  ASSUME Serialised, Types, LineInv, TableInv, [Next]_vars, Up'
  PROVE  \A i \in 0..currentServantCount-1 : Slot(i)' = Slot(i)
  <1>1. ArrayTypes /\ WorkerTypes /\ Up
    BY UpBefore DEF Types
  <1>2. RoomInv /\ servants \in 1..Len(heap) /\ currentServantCount \in Nat
    BY <1>1 DEF TableInv, ArrayTypes
  <1>3. ASSUME UNCHANGED arrayVars
        PROVE  \A i : Slot(i)' = Slot(i)
    BY <1>3 DEF Slot, arrayVars
  <1>4. ASSUME NEW w \in Workers, StoreSlot(w)
        PROVE  \A i \in 0..currentServantCount-1 : Slot(i)' = Slot(i)
    <2>1. at[w] = "slot" /\ servants' = servants
      BY <1>4 DEF StoreSlot, WorkerGoes
    <2>2. my[w].array = servants /\ my[w].index = currentServantCount
          /\ my[w].rec \in Record
      BY <1>1, <2>1 DEF TableInv, SlotInv, WorkerTypes, Local
    <2>3. my[w].index \in DOMAIN heap[my[w].array]
      BY <1>2, <1>4, <2>1, <2>2 DEF StoreSlot, Sound, Problem, Element
    <2>4. \A b \in 1..Len(heap) : \A j \in DOMAIN heap[b] :
            b # servants \/ j # currentServantCount => heap'[b][j] = heap[b][j]
      BY <1>1, <1>2, <1>4, <2>2, <2>3, StoreInHeap DEF StoreSlot
    <2>5. \A i \in 0..currentServantCount-1 : i \in DOMAIN heap[servants]
                                              /\ i # currentServantCount
      BY <1>2 DEF RoomInv
    <2> QED BY <1>2, <2>1, <2>4, <2>5 DEF Slot
  <1>5. ASSUME NEW w \in Workers, GrowCopy(w)
        PROVE  \A i : Slot(i)' = Slot(i)
    BY <1>1, <1>2, <1>5, Grown DEF GrowCopy, CopyFirst, Slot
  <1>6. ASSUME NEW w \in Workers, GrowFree(w)
        PROVE  \A i : Slot(i)' = Slot(i)
    BY <1>6 DEF GrowFree, Slot
  <1>7. ASSUME NEW w \in Workers, GrowInstall(w)
        PROVE  \A i \in 0..currentServantCount-1 : Slot(i)' = Slot(i)
    BY <1>1, <1>7, GrowInstallStep
  <1>8. ASSUME NEW w \in Workers,
               \/ \E s \in Servants : EvalSlot(w, s)
               \/ ResetLine(w) \/ AppendToken(w) \/ StoreField(w)
               \/ EndOfRegistration(w) \/ Announce(w) \/ ReadCount(w)
               \/ WriteCount(w) \/ CheckRoom(w)
        PROVE  UNCHANGED arrayVars
    BY <1>8 DEF EvalSlot, AssignTo, ResetLine, AppendToken, StoreField, ReadField,
       EndOfRegistration, Announce, ReadCount, WriteCount, CheckRoom, GrowIf
  <1>9. ASSUME NEW w \in Workers, HandleClientRequest(w) \/ Clash(w) \/ Stops(w)
        PROVE  UNCHANGED arrayVars
    BY <1>1, <1>9, QueryStep
  <1>10. ASSUME UNCHANGED vars \/ \E s \in Servants : ServantTerminates(s)
         PROVE  UNCHANGED arrayVars
    BY <1>10 DEF vars, ServantTerminates
  <1>11. ASSUME FreeServants
         PROVE  \A i : Slot(i)' = Slot(i)
    BY <1>11 DEF FreeServants, Slot
  <1> QED BY <1>3, <1>4, <1>5, <1>6, <1>7, <1>8, <1>9, <1>10, <1>11, NextCases
          DEF HandleClientRequest

LEMMA TableStep ==
  ASSUME Serialised, Types, LineInv, TableInv, [Next]_vars
  PROVE  TableInv'
  <1> SUFFICES ASSUME Up' PROVE TableInv'
    BY DEF TableInv
  <1>0. Up /\ WorkerTypes
    BY UpBefore DEF Types
  <1>1. ASSUME NEW w \in Workers, HandleClientRequest(w) \/ Clash(w) \/ Stops(w)
        PROVE  TableInv'
    <2>1. UNCHANGED arrayVars
      BY <1>0, <1>1, QueryStep
    <2>2. UNCHANGED <<heap, servants, servantCacheSize>> /\ freed \subseteq freed'
      BY <2>1 DEF arrayVars
    <2> QED BY <1>0, <1>1, <2>2, QueryStep, TableKept
  <1>2. ASSUME UNCHANGED vars \/ \E s \in Servants : ServantTerminates(s)
        PROVE  TableInv'
    <2>1. UNCHANGED <<arrayVars, currentServantCount, registered, at, my>>
      BY <1>2 DEF vars, ServantTerminates, doneVars
    <2>2. UNCHANGED <<heap, servants, servantCacheSize>> /\ freed \subseteq freed'
      BY <2>1 DEF arrayVars
    <2> QED BY <1>0, <2>1, <2>2, TableKept
  <1>3. CASE FreeServants
    <2>1. freed \subseteq DOMAIN heap
      BY DEF Types, ArrayTypes
    <2>2. /\ UNCHANGED <<heap, servants, servantCacheSize, currentServantCount, registered,
                         at, my>>
          /\ freed \subseteq freed'
      BY <1>3, <2>1 DEF FreeServants, doneVars
    <2> QED BY <1>0, <2>2, TableKept
  <1> QED BY <1>0, <1>1, <1>2, <1>3, NextCases, RegisterStep, StoreSlotStep, WriteCountStep,
          CheckRoomStep, GrowCopyStep, GrowFreeStep, GrowInstallStep DEF HandleClientRequest

-----------------------------------------------------------------------------
(* The queries.                                                            *)
LEMMA InitQueries == Init => QueriesInv /\ RepliesComplete /\ MemoryInv
  <1> SUFFICES ASSUME Init PROVE QueriesInv /\ RepliesComplete /\ MemoryInv
    OBVIOUS
  <1>1. QueriesInv
    BY DEF Init, QueriesInv, QueryInv, QueryPcs
  <1>2. RepliesComplete
    BY DEF Init, RepliesComplete
  <1>3. MemoryInv
    BY DEF Init, MemoryInv, FaultsExplained, StaleOnlyByGrowth, FreedInv
  <1> QED BY <1>1, <1>2, <1>3

(* What a query has found out stays true while others step.                *)
LEMMA QueryKept ==
  ASSUME ArrayTypes, ArrayTypes', WorkerTypes, NEW w \in Workers, QueryInv(w),
         at'[w] = at[w], my'[w] = my[w],
         \A i \in 0..currentServantCount-1 : Slot(i)' = Slot(i),
         currentServantCount' >= currentServantCount, freed \subseteq freed',
         my[w].array \notin freed' => servants' = servants,
         alive' \subseteq alive, asked \subseteq asked'
  PROVE  QueryInv(w)'
  <1> SUFFICES ASSUME at[w] \in QueryPcs
               PROVE  QueryInv(w)'
    BY DEF QueryInv
  <1>1. /\ my[w].index <= my[w].n /\ my[w].n <= currentServantCount
        /\ my[w].index \in Nat /\ my[w].n \in Nat
        /\ currentServantCount \in Nat /\ currentServantCount' \in Nat
    BY DEF QueryInv, WorkerTypes, Local, ArrayTypes
  <1>2. \A i \in 0..my[w].n-1 : Slot(i)' = Slot(i)
    BY <1>1
  <1>3. \A i \in 0..my[w].index-1 : Slot(i)' = Slot(i)
    BY <1>1
  <1>4. Seen(my[w].peer, my[w].index)' = Seen(my[w].peer, my[w].index)
    BY <1>3 DEF Seen
  <1>5. Answerers(w)' = Answerers(w)
    BY DEF Answerers
  <1>6. /\ my'[w].n <= currentServantCount'
        /\ my'[w].array \notin freed' => my'[w].array = servants'
    BY <1>1 DEF QueryInv
  <1>7. \A s \in my'[w].before : \E j \in 0..my'[w].n-1 : Slot(j)' = Whole(s)
    BY <1>2 DEF QueryInv
  <1>8. my[w].index < my[w].n => Slot(my[w].index)' = Slot(my[w].index)
    BY <1>1, <1>2
  <1>9. /\ at'[w] \in {"contact", "await"} =>
             my'[w].index < my'[w].n /\ Handles(Slot(my[w].index)', my'[w].peer)
        /\ at'[w] = "await" => my'[w].rec.port = (Slot(my[w].index)').port
    BY <1>8 DEF QueryInv
  <1>10. \A s, q : Rivalled(s, q) => Rivalled(s, q)'
    BY DEF Rivalled
  <1>11. Sums(w)'
    BY <1>10 DEF QueryInv, Sums
  <1>12. at'[w] = "await" /\ my'[w].sent # "answered" =>
           Rivalled(my[w].rec.port, my[w].peer)'
    BY <1>10 DEF QueryInv
  <1> QED BY <1>1, <1>4, <1>5, <1>6, <1>7, <1>9, <1>11, <1>12 DEF QueryInv

LEMMA ListedServant ==
  ASSUME Types, LineInv, Listed, NEW i \in 0..currentServantCount-1
  PROVE  \E s \in Servants : Slot(i) = Whole(s)
  <1>1. Joined \subseteq Servants
    BY DEF Types, DoneTypes, LineInv, ReadingInv, Joined, CountedPcs, RegisterPcs
  <1> QED BY <1>1 DEF Listed

(* One more servant's part of the sum is in.                               *)
LEMMA QueryGathers ==
  ASSUME Types, LineInv, Listed, NEW w \in Workers, QueryInv(w), at[w] \in QueryPcs,
         at'[w] = "visit", my[w].index < my[w].n,
         Handles(Slot(my[w].index), my[w].peer),
         NEW outcome, Gather(w, Slot(my[w].index).port, outcome),
         outcome \in {"refused", "cut"} => Slot(my[w].index).port \notin alive,
         outcome = "mixed" => Rivalled(Slot(my[w].index).port, my[w].peer),
         UNCHANGED <<arrayVars, currentServantCount, alive, asked>>
  PROVE  QueryInv(w)'
  <1> DEFINE i == my[w].index   q == my[w].peer   got == my[w].got
  <1>1. /\ my \in [Workers -> Local] /\ my[w] \in Local
        /\ i \in Nat /\ my[w].n \in Nat /\ currentServantCount \in Nat
        /\ got \in Seq(Ports \X Outcomes)
    BY DEF Types, WorkerTypes, Local, ArrayTypes
  <1>2. my[w].n <= currentServantCount /\ i \in 0..currentServantCount-1
    BY <1>1 DEF QueryInv
  <1>3. PICK s \in Servants : Slot(i) = Whole(s)
    BY <1>2, ListedServant
  <1>4. Slot(i).port = s
    BY <1>3 DEF Whole
  <1>5. /\ my'[w].got = Append(got, <<s, outcome>>) /\ my'[w].index = i + 1
        /\ my'[w].peer = q /\ my'[w].n = my[w].n /\ my'[w].array = my[w].array
        /\ my'[w].before = my[w].before
    BY <1>1, <1>4 DEF Gather, Local
  <1>6. \A j : Slot(j)' = Slot(j)
    BY DEF Slot, arrayVars
  <1>7. s \notin Seen(q, i)
    <2>1. \A j \in 0..i-1 : j \in 0..currentServantCount-1 /\ j # i
      BY <1>1, <1>2
    <2> QED BY <1>2, <1>3, <2>1 DEF Seen, Listed
  <1>8. Seen(q, i+1) = Seen(q, i) \cup {s}
    <2>1. 0..(i+1)-1 = (0..i-1) \cup {i}
      BY <1>1
    <2>2. \A t \in Servants : Whole(t) = Whole(s) => t = s
      BY DEF Whole
    <2> QED BY <1>3, <2>1, <2>2 DEF Seen
  <1>9. Seen(my[w].peer, my[w].index)' = Seen(q, i+1)
    BY <1>5, <1>6 DEF Seen
  <1>10. /\ Len(Append(got, <<s, outcome>>)) = Len(got) + 1
         /\ Append(got, <<s, outcome>>)[Len(got) + 1] = <<s, outcome>>
         /\ \A k \in 1..Len(got) : Append(got, <<s, outcome>>)[k] = got[k]
         /\ DOMAIN Append(got, <<s, outcome>>) = 1..(Len(got) + 1)
         /\ DOMAIN got = 1..Len(got) /\ Len(got) \in Nat
    BY <1>1
  <1> HIDE DEF i, q, got
  <1>11. 1..(Len(got) + 1) = (1..Len(got)) \cup {Len(got) + 1}
    BY <1>10
  <1>12. Answerers(w) = {got[k][1] : k \in 1..Len(got)}
    BY <1>10 DEF Answerers, got
  <1>13. Answerers(w)' = Answerers(w) \cup {s}
    <2>1. Answerers(w)' = {Append(got, <<s, outcome>>)[k][1] : k \in 1..(Len(got) + 1)}
      BY <1>5, <1>10 DEF Answerers
    <2> QED BY <1>10, <1>11, <1>12, <2>1
  <1>14. /\ Answerers(w) = Seen(q, i) /\ IsFiniteSet(Answerers(w))
         /\ Cardinality(Answerers(w)) = Len(got)
    BY DEF QueryInv, q, i, got
  <1>15. /\ IsFiniteSet(Answerers(w)') /\ Cardinality(Answerers(w)') = Len(got) + 1
         /\ Answerers(w)' = Seen(my[w].peer, my[w].index)'
    <2>1. s \notin Answerers(w)
      BY <1>7, <1>14
    <2>2. /\ IsFiniteSet(Answerers(w) \cup {s})
          /\ Cardinality(Answerers(w) \cup {s}) = Cardinality(Answerers(w)) + 1
      BY <1>14, <2>1, FS_AddElement
    <2> QED BY <1>8, <1>9, <1>13, <1>14, <2>2
  <1>16. Sums(w)'
    <2> DEFINE Why(c, o) == /\ o \in {"refused", "cut"} => c \notin alive
                            /\ o = "mixed" => Rivalled(c, q)
    <2>1. \A k \in 1..Len(got) : Why(got[k][1], got[k][2])
      BY <1>10 DEF QueryInv, Sums, got, q
    <2>2. Why(s, outcome)
      BY <1>4 DEF i, q
    <2> HIDE DEF Why
    <2>3. \A k \in DOMAIN my'[w].got : Why(my'[w].got[k][1], my'[w].got[k][2])
      BY <1>5, <1>10, <1>11, <2>1, <2>2
    <2>4. \A k \in DOMAIN my'[w].got :
            /\ my'[w].got[k][2] \in {"refused", "cut"} => my'[w].got[k][1] \notin alive
            /\ my'[w].got[k][2] = "mixed" => Rivalled(my'[w].got[k][1], q)
      BY <2>3 DEF Why
    <2>5. \A c : Rivalled(c, q) => Rivalled(c, my[w].peer)'
      BY <1>5 DEF Rivalled
    <2> QED BY <2>4, <2>5 DEF Sums
  <1>17. /\ my'[w].index <= my'[w].n /\ my'[w].n <= currentServantCount'
         /\ my'[w].array \notin freed' => my'[w].array = servants'
    BY <1>1, <1>2, <1>5 DEF QueryInv, arrayVars, i
  <1>18. \A t \in my'[w].before : \E j \in 0..my'[w].n-1 : Slot(j)' = Whole(t)
    BY <1>5, <1>6 DEF QueryInv
  <1>19. Cardinality(Answerers(w)') = Len(my'[w].got)
    BY <1>5, <1>10, <1>15
  <1> QED BY <1>15, <1>16, <1>17, <1>18, <1>19 DEF QueryInv


(* Where a query that is walked can be in the table.                       *)
LEMMA QueryReads ==
  ASSUME Types, NEW w \in Workers, QueryInv(w), at[w] \in {"visit", "contact"}, Sound(w)
  PROVE  heap[my[w].array][my[w].index] = Slot(my[w].index)
  <1>1. my[w].array \notin freed
    BY DEF Sound, Problem, Element
  <1> QED BY <1>1 DEF QueryInv, QueryPcs, Slot

LEMMA CountKept ==
  ASSUME Serialised, Types, LineInv, TableInv, [Next]_vars, Up'
  PROVE  /\ currentServantCount' >= currentServantCount
         /\ freed \subseteq freed' /\ alive' \subseteq alive /\ asked \subseteq asked'
         /\ \/ servants' = servants
            \/ \E w \in Workers : GrowInstall(w) /\ servants \in freed'
  <1>1. Up /\ currentServantCount \in Nat /\ freed \subseteq DOMAIN heap
    BY UpBefore DEF Types, ArrayTypes
  <1>2. ASSUME NEW w \in Workers, WriteCount(w)
        PROVE  currentServantCount' >= currentServantCount
    <2>1. at[w] = "recount" /\ currentServantCount' = my[w].n + 1
      BY <1>2 DEF WriteCount, WorkerGoes
    <2>2. my[w].n = currentServantCount
      BY <1>1, <2>1 DEF TableInv, SlotInv
    <2> QED BY <1>1, <2>1, <2>2
  <1>3. ASSUME NEW w \in Workers, WriteCount(w)
        PROVE  UNCHANGED <<freed, servants, alive, asked>>
    BY <1>3 DEF WriteCount, arrayVars, doneVars, worldVars
  <1>4. ASSUME NEW w \in Workers, GrowInstall(w)
        PROVE  /\ UNCHANGED <<currentServantCount, freed, alive, asked>>
               /\ servants \in freed'
    <2>1. at[w] = "install" /\ UNCHANGED <<currentServantCount, freed, alive, asked>>
      BY <1>4 DEF GrowInstall, WorkerGoes, worldVars
    <2> QED BY <1>1, <2>1 DEF TableInv, SlotInv
  <1>5. ASSUME NEW w \in Workers,
               \/ \E s \in Servants : EvalSlot(w, s)
               \/ ResetLine(w) \/ AppendToken(w) \/ StoreField(w) \/ EndOfRegistration(w)
               \/ StoreSlot(w) \/ Announce(w) \/ ReadCount(w) \/ CheckRoom(w)
               \/ GrowCopy(w) \/ GrowFree(w)
        PROVE  /\ UNCHANGED <<currentServantCount, servants, alive, asked>>
               /\ freed \subseteq freed'
    BY <1>5 DEF EvalSlot, AssignTo, ResetLine, AppendToken, StoreField, ReadField,
       EndOfRegistration, StoreSlot, Announce, ReadCount, CheckRoom, GrowIf, GrowCopy,
       CopyFirst, GrowFree, arrayVars, doneVars, worldVars
  <1>6. ASSUME NEW w \in Workers, HandleClientRequest(w) \/ Clash(w) \/ Stops(w)
        PROVE  UNCHANGED <<currentServantCount, servants, freed, alive>>
    BY <1>6, QueryStep DEF Types, arrayVars
  <1>7. ASSUME NEW w \in Workers, HandleClientRequest(w) \/ Clash(w)
        PROVE  asked \subseteq asked'
    BY <1>7 DEF HandleClientRequest, BeginQuery, Visit, CannotAsk, Contact, Reply, CutOff,
       Answer, AnswerAfter, Clash, doneVars
  <1>8. ASSUME NEW w \in Workers, Stops(w)
        PROVE  asked' = asked
    BY <1>8, Stopped
  <1>9. ASSUME FreeServants
        PROVE  /\ UNCHANGED <<currentServantCount, servants, alive, asked>>
               /\ freed \subseteq freed'
    BY <1>1, <1>9 DEF FreeServants, doneVars
  <1>10. ASSUME UNCHANGED vars \/ \E s \in Servants : ServantTerminates(s)
         PROVE  /\ UNCHANGED <<currentServantCount, servants, freed, asked>>
                /\ alive' \subseteq alive
    BY <1>10 DEF vars, ServantTerminates, arrayVars, doneVars, worldVars
  <1> QED BY <1>1, <1>2, <1>3, <1>4, <1>5, <1>6, <1>7, <1>8, <1>9, <1>10, NextCases
          DEF HandleClientRequest

LEMMA QueriesStep ==
  ASSUME Serialised, Types, Types', LineInv, TableInv, QueriesInv, [Next]_vars
  PROVE  QueriesInv'
  <1> SUFFICES ASSUME Up' PROVE QueriesInv'
    BY DEF QueriesInv
  <1>0. /\ Up /\ WorkerTypes /\ ArrayTypes /\ ArrayTypes' /\ Listed
        /\ \A w \in Workers : my[w] \in Local
        /\ my \in [Workers -> Local] /\ at \in [Workers -> Pcs]
        /\ \A w \in Workers : QueryInv(w)
    BY UpBefore DEF Types, WorkerTypes, Pcs, TableInv, QueriesInv
  <1>1. ASSUME NEW v \in Workers, at'[v] = at[v], my'[v] = my[v]
        PROVE  QueryInv(v)'
    <2>1. CASE servants' = servants
      BY <1>0, <1>1, <2>1, SlotsKept, CountKept, QueryKept DEF QueryInv
    <2>2. CASE at[v] \in QueryPcs /\ servants \in freed'
      <3>1. my[v].array \in freed'
        BY <1>0, <2>2, CountKept DEF QueryInv
      <3> QED BY <1>0, <1>1, <3>1, SlotsKept, CountKept, QueryKept
    <2>3. CASE at[v] \notin QueryPcs
      BY <1>1, <2>3 DEF QueryInv
    <2> QED BY <2>1, <2>2, <2>3, CountKept
  <1>2. ASSUME NEW w \in Workers, Registering(w) \/ \E s \in Servants : EvalSlot(w, s)
        PROVE  QueriesInv'
    <2>1. at'[w] \notin QueryPcs
      BY <1>0, <1>2 DEF Registering, EvalSlot, AssignTo, ResetLine, AppendToken,
         StoreField, ReadField, EndOfRegistration, StoreSlot, Announce, ReadCount,
         WriteCount, CheckRoom, GrowIf, GrowCopy, CopyFirst, GrowFree, GrowInstall,
         WorkerGoes, QueryPcs
    <2>2. QueryInv(w)'
      BY <2>1 DEF QueryInv
    <2>3. \A v \in Workers : v # w => at'[v] = at[v] /\ my'[v] = my[v]
      BY <1>0, <1>2, RegistrarAlone
    <2> QED BY <1>1, <2>2, <2>3 DEF QueriesInv
  <1>3. ASSUME NEW w \in Workers, HandleClientRequest(w) \/ Clash(w), QueryInv(w)'
        PROVE  QueriesInv'
    BY <1>0, <1>1, <1>3, Others DEF QueriesInv
  <1>4. ASSUME NEW w \in Workers, NEW q \in Queries, BeginQuery(w, q)
        PROVE  QueryInv(w)'
    <2>1. /\ at'[w] = "visit" /\ UNCHANGED <<arrayVars, currentServantCount>>
          /\ my'[w].peer = q /\ my'[w].array = servants /\ my'[w].index = 0
          /\ my'[w].n = currentServantCount /\ my'[w].got = <<>>
          /\ my'[w].before = registered
      BY <1>0, <1>4 DEF BeginQuery, WorkerGoes, Idle
    <2>2. \A j : Slot(j)' = Slot(j)
      BY <2>1 DEF Slot, arrayVars
    <2>3. Answerers(w)' = {}
      BY <2>1 DEF Answerers
    <2>4. Seen(my[w].peer, my[w].index)' = {}
      BY <2>1 DEF Seen
    <2>5. \A s \in my'[w].before : \E j \in 0..my'[w].n-1 : Slot(j)' = Whole(s)
      BY <1>0, <2>1, <2>2 DEF Listed, Joined
    <2>6. IsFiniteSet({}) /\ Cardinality({}) = Len(<<>>)
      BY FS_EmptySet
    <2>7. Sums(w)'
      BY <2>1 DEF Sums
    <2> QED BY <1>0, <2>1, <2>3, <2>4, <2>5, <2>6, <2>7 DEF QueryInv, ArrayTypes, arrayVars
  <1>5. ASSUME NEW w \in Workers, Visit(w)
        PROVE  QueryInv(w)'
    <2>1. /\ at[w] = "visit" /\ my[w].index < my[w].n /\ Sound(w)
          /\ UNCHANGED <<arrayVars, currentServantCount, alive, asked>>
      BY <1>5 DEF Visit, doneVars, worldVars
    <2>2. heap[my[w].array][my[w].index] = Slot(my[w].index)
      BY <1>0, <2>1, QueryReads
    <2>3. \A j : Slot(j)' = Slot(j)
      BY <2>1 DEF Slot, arrayVars
    <2>4. ASSUME Handles(Slot(my[w].index), my[w].peer), at'[w] = "contact", my' = my
          PROVE  QueryInv(w)'
      <3>1. Seen(my[w].peer, my[w].index)' = Seen(my[w].peer, my[w].index)
        BY <2>3, <2>4 DEF Seen
      <3>2. Answerers(w)' = Answerers(w)
        BY <2>4 DEF Answerers
      <3>3. Handles(Slot(my[w].index)', my[w].peer)
        BY <2>3, <2>4
      <3>4. Sums(w)'
        BY <1>0, <2>1, <2>4 DEF QueryInv, QueryPcs, Sums, Rivalled
      <3> QED BY <1>0, <2>1, <2>3, <2>4, <3>1, <3>2, <3>3, <3>4
              DEF QueryInv, QueryPcs, arrayVars
    <2>5. ASSUME ~Handles(Slot(my[w].index), my[w].peer), at'[w] = "visit",
                 my' = [my EXCEPT ![w].index = @ + 1]
          PROVE  QueryInv(w)'
      <3>1. /\ my'[w].index = my[w].index + 1 /\ my'[w].peer = my[w].peer
            /\ my'[w].n = my[w].n /\ my'[w].array = my[w].array /\ my'[w].got = my[w].got
            /\ my'[w].before = my[w].before
            /\ my[w].index \in Nat /\ my[w].n \in Nat
        BY <1>0, <2>5 DEF Local
      <3>2. 0..(my[w].index+1)-1 = (0..my[w].index-1) \cup {my[w].index}
        BY <3>1
      <3>3. Seen(my[w].peer, my[w].index + 1) = Seen(my[w].peer, my[w].index)
        BY <2>5, <3>2 DEF Seen
      <3>4. Seen(my[w].peer, my[w].index)' = Seen(my[w].peer, my[w].index + 1)
        BY <2>3, <3>1 DEF Seen
      <3>5. Answerers(w)' = Answerers(w)
        BY <3>1 DEF Answerers
      <3>6. my'[w].index <= my'[w].n
        BY <2>1, <3>1
      <3>7. \A s \in my'[w].before : \E j \in 0..my'[w].n-1 : Slot(j)' = Whole(s)
        BY <1>0, <2>1, <2>3, <3>1 DEF QueryInv, QueryPcs
      <3>8. Sums(w)'
        BY <1>0, <2>1, <3>1 DEF QueryInv, QueryPcs, Sums, Rivalled
      <3> QED BY <1>0, <2>1, <2>5, <3>1, <3>3, <3>4, <3>5, <3>6, <3>7, <3>8
              DEF QueryInv, QueryPcs, arrayVars
    <2>6. \/ Handles(Slot(my[w].index), my[w].peer) /\ at'[w] = "contact" /\ my' = my
          \/ /\ ~Handles(Slot(my[w].index), my[w].peer) /\ at'[w] = "visit"
             /\ my' = [my EXCEPT ![w].index = @ + 1]
      BY <1>0, <1>5, <2>2 DEF Visit, WorkerGoes
    <2> QED BY <2>4, <2>5, <2>6
  <1>6. ASSUME NEW w \in Workers, Contact(w)
        PROVE  QueryInv(w)'
    <2>1. /\ at[w] = "contact" /\ Sound(w)
          /\ UNCHANGED <<arrayVars, currentServantCount, alive, asked>>
      BY <1>6 DEF Contact, doneVars, worldVars
    <2>2. heap[my[w].array][my[w].index] = Slot(my[w].index)
      BY <1>0, <2>1, QueryReads
    <2>3. my[w].index < my[w].n /\ Handles(Slot(my[w].index), my[w].peer)
      BY <1>0, <2>1 DEF QueryInv, QueryPcs
    <2>4. ASSUME at'[w] = "await",
                 my' = [my EXCEPT ![w].rec.port = Slot(my[w].index).port,
                                  ![w].sent = "answered"]
          PROVE  QueryInv(w)'
      <3>1. \A j : Slot(j)' = Slot(j)
        BY <2>1 DEF Slot, arrayVars
      <3>2. /\ my'[w].index = my[w].index /\ my'[w].peer = my[w].peer
            /\ my'[w].n = my[w].n /\ my'[w].array = my[w].array /\ my'[w].got = my[w].got
            /\ my'[w].before = my[w].before
            /\ my'[w].rec.port = Slot(my[w].index).port /\ my'[w].sent = "answered"
        BY <1>0, <2>4 DEF Local, Record
      <3>3. Seen(my[w].peer, my[w].index)' = Seen(my[w].peer, my[w].index)
        BY <3>1, <3>2 DEF Seen
      <3>4. Answerers(w)' = Answerers(w)
        BY <3>2 DEF Answerers
      <3>5. \A s \in my'[w].before : \E j \in 0..my'[w].n-1 : Slot(j)' = Whole(s)
        BY <1>0, <2>1, <3>1, <3>2 DEF QueryInv, QueryPcs
      <3>6. Slot(my[w].index)' = Slot(my[w].index)
        BY <3>1, <3>2
      <3>7. Sums(w)'
        BY <1>0, <2>1, <3>2 DEF QueryInv, QueryPcs, Sums, Rivalled
      <3>8. /\ my[w].index <= my[w].n /\ my[w].n <= currentServantCount
            /\ my[w].array \notin freed => my[w].array = servants
            /\ Answerers(w) = Seen(my[w].peer, my[w].index)
            /\ IsFiniteSet(Answerers(w)) /\ Cardinality(Answerers(w)) = Len(my[w].got)
        BY <1>0, <2>1 DEF QueryInv, QueryPcs
      <3>9. /\ my'[w].array \notin freed' => my'[w].array = servants'
            /\ Answerers(w)' = Seen(my[w].peer, my[w].index)'
            /\ IsFiniteSet(Answerers(w)') /\ Cardinality(Answerers(w)') = Len(my'[w].got)
        BY <2>1, <3>2, <3>3, <3>4, <3>8 DEF arrayVars
      <3>10. /\ my'[w].rec.port = (Slot(my[w].index).port)'
             /\ Handles(Slot(my[w].index)', my'[w].peer)
        BY <2>3, <3>2, <3>6
      <3> QED BY <2>1, <2>3, <2>4, <3>2, <3>5, <3>6, <3>7, <3>8, <3>9, <3>10
              DEF QueryInv
    <2>5. ASSUME at'[w] = "visit", Slot(my[w].index).port \notin alive,
                 Gather(w, Slot(my[w].index).port, "refused")
          PROVE  QueryInv(w)'
      BY <1>0, <2>1, <2>3, <2>5, QueryGathers DEF QueryPcs
    <2>6. \/ /\ at'[w] = "await"
             /\ my' = [my EXCEPT ![w].rec.port = Slot(my[w].index).port,
                                 ![w].sent = "answered"]
          \/ /\ at'[w] = "visit" /\ Slot(my[w].index).port \notin alive
             /\ Gather(w, Slot(my[w].index).port, "refused")
      BY <1>0, <1>6, <2>2 DEF Contact, WorkerGoes
    <2> QED BY <2>4, <2>5, <2>6
  <1>7. ASSUME NEW w \in Workers, Reply(w) \/ CutOff(w)
        PROVE  QueryInv(w)'
    <2>1. /\ at[w] = "await" /\ at'[w] = "visit"
          /\ UNCHANGED <<arrayVars, currentServantCount, alive, asked>>
      BY <1>0, <1>7 DEF Reply, CutOff, WorkerGoes, doneVars, worldVars
    <2>2. /\ my[w].index < my[w].n /\ Handles(Slot(my[w].index), my[w].peer)
          /\ my[w].rec.port = Slot(my[w].index).port
          /\ my[w].sent # "answered" => Rivalled(Slot(my[w].index).port, my[w].peer)
      BY <1>0, <2>1 DEF QueryInv, QueryPcs
    <2>3. CASE CutOff(w)
      <3>1. /\ Gather(w, Slot(my[w].index).port, "cut")
            /\ Slot(my[w].index).port \notin alive
        BY <2>2, <2>3 DEF CutOff
      <3> QED BY <1>0, <2>1, <2>2, <3>1, QueryGathers DEF QueryPcs
    <2>4. CASE Reply(w)
      <3>1. PICK what \in Replies : what = my[w].sent
        BY <1>0 DEF Local
      <3>2. /\ Gather(w, Slot(my[w].index).port, what)
            /\ what \notin {"refused", "cut"}
            /\ what = "mixed" => Rivalled(Slot(my[w].index).port, my[w].peer)
        BY <2>2, <2>4, <3>1 DEF Reply, Replies
      <3> QED BY <1>0, <2>1, <2>2, <3>2, QueryGathers DEF QueryPcs
    <2> QED BY <1>7, <2>3, <2>4
  <1>8. ASSUME NEW w \in Workers, Answer(w)
        PROVE  QueryInv(w)'
    BY <1>0, <1>8 DEF Answer, AnswerAfter, WorkerGoes, QueryInv, QueryPcs
  <1>9. ASSUME NEW w \in Workers, Stops(w)
        PROVE  FALSE
    BY <1>9, Stopped
  <1>10. ASSUME \/ UNCHANGED vars \/ FreeServants
                \/ \E s \in Servants : ServantTerminates(s)
         PROVE  QueriesInv'
    <2>1. UNCHANGED <<at, my>>
      BY <1>10 DEF vars, FreeServants, ServantTerminates
    <2> QED BY <1>1, <2>1 DEF QueriesInv
  <1>11. ASSUME NEW w \in Workers, Clash(w)
         PROVE  QueryInv(w)'
    <2>1. PICK what : my' = [my EXCEPT ![w].sent = what]
      BY <1>11 DEF Clash
    <2>2. /\ my'[w].index = my[w].index /\ my'[w].peer = my[w].peer
          /\ my'[w].n = my[w].n /\ my'[w].array = my[w].array /\ my'[w].got = my[w].got
          /\ my'[w].before = my[w].before /\ my'[w].rec = my[w].rec
      BY <1>0, <2>1 DEF Local
    <2>3. /\ at[w] = "await" /\ at' = at
          /\ UNCHANGED <<arrayVars, currentServantCount, alive, asked>>
      BY <1>11 DEF Clash, doneVars, worldVars
    <2>4. \A j : Slot(j)' = Slot(j)
      BY <2>3 DEF Slot, arrayVars
    <2>5. PICK v \in Workers \ {w} : at[v] = "await" /\ my[v].rec.port = my[w].rec.port
      BY <1>11 DEF Clash
    <2>6. /\ my[v].peer \in asked /\ my[v].peer # my[w].peer
      BY <2>3, <2>5 DEF Types, DoneTypes, QueryPcs
    <2>7. Handles(Whole(my[v].rec.port), my[v].peer)
      <3>1. /\ my[v].index < my[v].n /\ my[v].n <= currentServantCount
            /\ Handles(Slot(my[v].index), my[v].peer)
            /\ my[v].rec.port = Slot(my[v].index).port
        BY <1>0, <2>5 DEF QueryInv, QueryPcs
      <3>2. my[v].index \in Nat /\ my[v].n \in Nat
        BY <1>0 DEF Local
      <3>3. currentServantCount \in Nat
        BY <1>0 DEF ArrayTypes
      <3>4. my[v].index \in 0..currentServantCount-1
        BY <3>1, <3>2, <3>3
      <3>5. PICK s \in Servants : Slot(my[v].index) = Whole(s)
        BY <1>0, <3>4, ListedServant
      <3>6. Whole(s).port = s
        BY DEF Whole
      <3> QED BY <3>1, <3>5, <3>6
    <2>8. Rivalled(my[w].rec.port, my[w].peer)'
      BY <2>2, <2>3, <2>5, <2>6, <2>7 DEF Rivalled
    <2>9. Seen(my[w].peer, my[w].index)' = Seen(my[w].peer, my[w].index)
      BY <2>2, <2>4 DEF Seen
    <2>10. Answerers(w)' = Answerers(w)
      BY <2>2 DEF Answerers
    <2>11. Sums(w)'
      BY <1>0, <2>2, <2>3 DEF QueryInv, QueryPcs, Sums, Rivalled
    <2>12. \A s \in my'[w].before : \E j \in 0..my'[w].n-1 : Slot(j)' = Whole(s)
      BY <1>0, <2>2, <2>3, <2>4 DEF QueryInv, QueryPcs
    <2>13. Slot(my[w].index)' = Slot(my[w].index)
      BY <2>2, <2>4
    <2> QED BY <1>0, <2>2, <2>3, <2>8, <2>9, <2>10, <2>11, <2>12, <2>13
            DEF QueryInv, QueryPcs, arrayVars
  <1> QED BY <1>2, <1>3, <1>4, <1>5, <1>6, <1>7, <1>8, <1>9, <1>10, <1>11, NextCases
          DEF Registering, HandleClientRequest

LEMMA RepliesStep ==
  ASSUME Types, QueriesInv, RepliesComplete, [Next]_vars
  PROVE  RepliesComplete'
  <1>1. ASSUME replies' = replies, alive' \subseteq alive, asked \subseteq asked'
        PROVE  RepliesComplete'
    <2>1. \A s, q : Rivalled(s, q) => Rivalled(s, q)'
      BY <1>1 DEF Rivalled
    <2> QED BY <1>1, <2>1 DEF RepliesComplete
  <1>2. ASSUME NEW w \in Workers, Answer(w)
        PROVE  RepliesComplete'
    <2> DEFINE rep == [query |-> my[w].peer, got |-> my[w].got, before |-> my[w].before]
    <2>1. /\ replies' = replies \cup {rep} /\ UNCHANGED <<alive, asked>>
          /\ at[w] = "visit" /\ Up /\ my[w].index >= my[w].n
      BY <1>2 DEF Answer, AnswerAfter, WorkerGoes, worldVars
    <2>2. QueryInv(w)
      BY <2>1 DEF QueriesInv
    <2>3. my[w].index \in Nat /\ my[w].n \in Nat /\ my[w].before \subseteq Servants
      BY DEF Types, WorkerTypes, Local
    <2>4. my[w].index = my[w].n
      BY <2>1, <2>2, <2>3 DEF QueryInv, QueryPcs
    <2>5. /\ Answerers(w) = Seen(my[w].peer, my[w].n)
          /\ Cardinality(Answerers(w)) = Len(my[w].got)
          /\ \A s \in my[w].before : \E j \in 0..my[w].n-1 : Slot(j) = Whole(s)
          /\ Sums(w)
      BY <2>1, <2>2, <2>4 DEF QueryInv, QueryPcs
    <2>6. Answerers(w) = {rep.got[k][1] : k \in DOMAIN rep.got}
      BY DEF Answerers
    <2>7. /\ Cardinality(Answerers(w)) = Len(rep.got)
          /\ \A s \in Answerers(w) : s \in Servants /\ Handles(Whole(s), rep.query)
          /\ {s \in rep.before : Handles(Whole(s), rep.query)} \subseteq Answerers(w)
          /\ \A k \in DOMAIN rep.got :
               /\ rep.got[k][2] \in {"refused", "cut"} => rep.got[k][1] \notin alive
               /\ rep.got[k][2] = "mixed" => Rivalled(rep.got[k][1], rep.query)
      BY <2>3, <2>5 DEF Seen, Sums
    <2> HIDE DEF rep
    <2> DEFINE Complete(r) ==
          LET who == {r.got[k][1] : k \in DOMAIN r.got}
          IN /\ Cardinality(who) = Len(r.got)
             /\ \A s \in who : s \in Servants /\ Handles(Whole(s), r.query)
             /\ {s \in r.before : Handles(Whole(s), r.query)} \subseteq who
             /\ \A k \in DOMAIN r.got :
                   /\ r.got[k][2] \in {"refused", "cut"} => r.got[k][1] \notin alive
                   /\ r.got[k][2] = "mixed" => Rivalled(r.got[k][1], r.query)
    <2>8. Complete(rep)
      BY <2>6, <2>7
    <2>9. \A r \in replies : Complete(r)
      BY DEF RepliesComplete
    <2> HIDE DEF Complete
    <2>10. \A r \in replies' : Complete(r)
      BY <2>1, <2>8, <2>9
    <2>11. \A r \in replies' : Complete(r)'
      BY <2>1, <2>10 DEF Complete, Rivalled
    <2> USE DEF Complete
    <2> QED BY <2>11 DEF RepliesComplete
  <1>3. ASSUME NEW w \in Workers, HandleServant(w)
        PROVE  UNCHANGED <<replies, alive, asked>>
    BY <1>3 DEF HandleServant, EvalSlot, AssignTo, ResetLine, AppendToken, StoreField,
       ReadField, EndOfRegistration, StoreSlot, Announce, ReadCount, WriteCount,
       CheckRoom, GrowIf, GrowCopy, CopyFirst, GrowFree, GrowInstall, doneVars, worldVars
  <1>4. ASSUME NEW w \in Workers,
               \/ \E q \in Queries : BeginQuery(w, q)
               \/ Visit(w) \/ Contact(w) \/ Reply(w) \/ CutOff(w) \/ Clash(w) \/ Stops(w)
        PROVE  UNCHANGED <<replies, alive>> /\ asked \subseteq asked'
    <2>1. CASE Stops(w)
      BY <2>1, Stopped
    <2> QED BY <1>4, <2>1 DEF BeginQuery, Visit, Contact, Reply, CutOff, Clash, doneVars,
            worldVars
  <1>5. ASSUME \/ UNCHANGED vars \/ FreeServants
               \/ \E s \in Servants : ServantTerminates(s)
        PROVE  replies' = replies /\ alive' \subseteq alive /\ asked' = asked
    BY <1>5 DEF vars, FreeServants, ServantTerminates, doneVars, worldVars
  <1> QED BY <1>1, <1>2, <1>3, <1>4, <1>5 DEF Next, HandleClientRequest, Stops

-----------------------------------------------------------------------------
(* The memory: no worker is about to use an element that is not there.     *)
LEMMA NoOverflow ==
  ASSUME Serialised, Types, LineInv, TableInv, QueriesInv, Up, NEW w \in Workers,
         at[w] \in AccessPcs, at[w] = "visit" => my[w].index < my[w].n
  PROVE  Problem(w) \in {"none", "stale"}
  <1>0. /\ ArrayTypes /\ my[w] \in Local
        /\ Listed /\ RoomInv /\ SlotInv(w) /\ QueryInv(w)
        /\ servants \in 1..Len(heap) /\ currentServantCount \in Nat
        /\ servantCacheSize \in Nat \ {0}
    BY DEF Types, WorkerTypes, ArrayTypes, TableInv, QueriesInv
  <1>1. \A v \in Workers : v # w /\ at[w] \in RegisterPcs => at[v] \notin RegisterPcs
    BY DEF LineInv
  <1>2. CASE at[w] = "slot"
    <2>1. Element(w) = <<servants, currentServantCount>>
      BY <1>0, <1>2 DEF Element, SlotInv
    <2>2. currentServantCount \in DOMAIN heap[servants]
      BY <1>0, <1>1, <1>2 DEF RoomInv, RegisterPcs
    <2> QED BY <1>2, <2>1, <2>2 DEF Problem, Reads
  <1>3. CASE at[w] = "announce"
    <2>1. Element(w) = <<servants, currentServantCount>>
      BY <1>3 DEF Element
    <2>2. currentServantCount \in DOMAIN heap[servants]
      BY <1>0, <1>1, <1>3 DEF RoomInv, RegisterPcs
    <2>3. my[w].peer \in Servants
      BY <1>3 DEF LineInv, ReadingInv, RegisterPcs
    <2>4. heap[servants][currentServantCount] \in Record
      BY <1>0, <1>3, <2>3, Records DEF SlotInv, Slot
    <2>5. heap[servants][currentServantCount] # Hole
      BY <2>4, HoleAssumption
    <2> QED BY <2>1, <2>2, <2>5 DEF Problem
  <1>4. CASE at[w] \in {"grow", "free"}
    <2>1. Element(w) = <<servants, 0>>
      BY <1>4 DEF Element
    <2>2. 0 \in DOMAIN heap[servants]
      <3>1. PICK n \in Nat \ {0} : heap[servants] \in [0..n-1 -> Record \cup {Hole}]
        BY <1>0, HeapElement
      <3> QED BY <3>1
    <2> QED BY <1>4, <2>1, <2>2 DEF Problem, Reads
  <1>5. CASE at[w] \in {"visit", "contact"}
    <2> DEFINE i == my[w].index
    <2>1. Element(w) = <<my[w].array, i>>
      BY <1>5 DEF Element
    <2>2. /\ my[w].array \notin freed => my[w].array = servants
          /\ i < my[w].n /\ my[w].n <= currentServantCount
      BY <1>0, <1>5 DEF QueryInv, QueryPcs
    <2>3. i \in 0..currentServantCount-1
      BY <1>0, <2>2 DEF Local
    <2>4. i \in DOMAIN heap[servants]
      BY <1>0, <2>3 DEF RoomInv
    <2>5. PICK s \in Servants : Slot(i) = Whole(s)
      BY <1>0, <2>3, ListedServant
    <2>6. heap[servants][i] # Hole
      BY <2>5, Records, HoleAssumption DEF Slot
    <2> HIDE DEF i
    <2> QED BY <2>1, <2>2, <2>4, <2>6 DEF Problem
  <1> QED BY <1>2, <1>3, <1>4, <1>5 DEF AccessPcs

(* Growing the table is all that frees an array before SIGINT does.        *)
LEMMA FreedStep ==
  ASSUME Serialised, Types, LineInv, FreedInv, [Next]_vars
  PROVE  FreedInv'
  <1> SUFFICES ASSUME ~interrupted' PROVE FreedInv'
    BY DEF FreedInv
  <1>0. /\ ArrayTypes /\ WorkerTypes /\ at \in [Workers -> Pcs]
        /\ Len(heap) \in Nat /\ servants \in 1..Len(heap)
    BY HeapElement DEF Types, ArrayTypes, WorkerTypes, Pcs
  <1>1. ASSUME UNCHANGED <<arrayVars, interrupted>>,
               \A v \in Workers : at'[v] \in {"free", "install"} <=> at[v] \in {"free", "install"},
               \A v \in Workers : at[v] = "install" => at'[v] = "install"
        PROVE  FreedInv'
    BY <1>1 DEF FreedInv, arrayVars
  <1>2. ASSUME NEW w \in Workers, GrowCopy(w)
        PROVE  FreedInv'
    <2>1. Len(heap') = Len(heap) + 1 /\ UNCHANGED <<freed, servants, interrupted>>
      BY <1>0, <1>2, Grown DEF GrowCopy, CopyFirst, worldVars
    <2>2. at[w] = "grow" /\ \A v \in Workers : at[v] = "install" => at'[v] = "install"
      BY <1>0, <1>2 DEF GrowCopy, CopyFirst, WorkerGoes
    <2>3. servants < Len(heap')
      BY <1>0, <2>1
    <2> QED BY <2>1, <2>2, <2>3 DEF FreedInv
  <1>3. ASSUME NEW w \in Workers, GrowFree(w)
        PROVE  FreedInv'
    <2>1. freed' = freed \cup {servants} /\ UNCHANGED <<heap, servants, interrupted>>
      BY <1>3 DEF GrowFree, worldVars
    <2>2. /\ at[w] = "free" /\ at'[w] = "install"
          /\ \A v \in Workers : v # w => at'[v] = at[v]
      BY <1>0, <1>3 DEF GrowFree, WorkerGoes
    <2>3. freed' \subseteq 1..servants'
      BY <1>0, <2>1 DEF FreedInv
    <2>4. \A v \in Workers : at'[v] \in {"free", "install"} => at[v] \in {"free", "install"}
      BY <2>2
    <2> QED BY <2>1, <2>2, <2>3, <2>4 DEF FreedInv
  <1>4. ASSUME NEW w \in Workers, GrowInstall(w)
        PROVE  FreedInv'
    <2>1. servants' = Len(heap) /\ UNCHANGED <<heap, freed, interrupted>>
      BY <1>4 DEF GrowInstall, worldVars
    <2>2. at[w] = "install" /\ at'[w] = "idle"
      BY <1>0, <1>4 DEF GrowInstall, WorkerGoes
    <2>3. servants < servants' /\ freed \subseteq 1..servants
      BY <2>1, <2>2 DEF FreedInv
    <2>4. freed' \subseteq 1..servants' /\ servants' \notin freed'
      BY <1>0, <2>1, <2>3
    <2>5. \A v \in Workers : at'[v] \notin {"free", "install"}
      BY <1>0, <1>4, <2>2, RegistrarAlone DEF Registering, RegisterPcs
    <2> QED BY <2>4, <2>5 DEF FreedInv
  <1>5. ASSUME NEW w \in Workers,
               \/ \E s \in Servants : EvalSlot(w, s)
               \/ ResetLine(w) \/ AppendToken(w) \/ StoreField(w) \/ EndOfRegistration(w)
               \/ Announce(w) \/ ReadCount(w) \/ CheckRoom(w)
        PROVE  FreedInv'
    <2>1. UNCHANGED <<arrayVars, interrupted>>
      BY <1>5 DEF EvalSlot, AssignTo, ResetLine, AppendToken, StoreField, ReadField,
         EndOfRegistration, Announce, ReadCount, CheckRoom, GrowIf, worldVars
    <2>2. \A v \in Workers :
            at'[v] = at[v] \/ {at[v], at'[v]} \cap {"free", "install"} = {}
      BY <1>0, <1>5 DEF EvalSlot, AssignTo, ResetLine, AppendToken, StoreField, ReadField,
         EndOfRegistration, Announce, ReadCount, CheckRoom, GrowIf, WorkerGoes
    <2> QED BY <1>1, <2>1, <2>2
  <1>6. ASSUME NEW w \in Workers, StoreSlot(w) \/ WriteCount(w)
        PROVE  FreedInv'
    <2>1. UNCHANGED <<freed, servants, interrupted>>
      BY <1>6 DEF StoreSlot, WriteCount, arrayVars, worldVars
    <2>2. \A v \in Workers :
            at'[v] = at[v] \/ {at[v], at'[v]} \cap {"free", "install"} = {}
      BY <1>0, <1>6 DEF StoreSlot, WriteCount, WorkerGoes
    <2>3. Len(heap') >= Len(heap) /\ Len(heap') \in Nat
      BY <1>0, ArrayStep, HeapElement DEF ArrayTypes
    <2>4. \A v \in Workers : at'[v] \in {"free", "install"} => servants < Len(heap)
      BY <2>1, <2>2 DEF FreedInv
    <2>5. \A v \in Workers : at'[v] \in {"free", "install"} => servants' < Len(heap')
      BY <1>0, <2>1, <2>3, <2>4
    <2> QED BY <2>1, <2>2, <2>5 DEF FreedInv
  <1>7. ASSUME NEW w \in Workers, HandleClientRequest(w) \/ Clash(w) \/ Stops(w)
        PROVE  FreedInv'
    <2>1. /\ UNCHANGED <<arrayVars, interrupted>>
          /\ \A v \in Workers : at[v] \in RegisterPcs \/ at'[v] \in RegisterPcs =>
                at'[v] = at[v]
      BY <1>0, <1>7, QueryStep
    <2>2. \A v \in Workers :
            at'[v] = at[v] \/ {at[v], at'[v]} \cap {"free", "install"} = {}
      BY <2>1 DEF RegisterPcs
    <2> QED BY <1>1, <2>1, <2>2
  <1>8. ASSUME UNCHANGED vars \/ \E s \in Servants : ServantTerminates(s)
        PROVE  FreedInv'
    <2>1. UNCHANGED <<arrayVars, at, interrupted>>
      BY <1>8 DEF vars, ServantTerminates, worldVars
    <2> QED BY <1>1, <2>1
  <1>9. ~FreeServants
    BY DEF FreeServants
  <1> QED BY <1>2, <1>3, <1>4, <1>5, <1>6, <1>7, <1>8, <1>9, NextCases
          DEF HandleClientRequest

LEMMA MemoryStep ==
  ASSUME Serialised, Types, Types', LineInv, TableInv, QueriesInv, MemoryInv, [Next]_vars
  PROVE  MemoryInv'
  <1>1. FreedInv'
    BY FreedStep DEF MemoryInv
  <1>2. CASE UNCHANGED vars
    <2>1. UNCHANGED <<heap, freed, servants, joining, asked, at, my, alive, interrupted,
                      fault>>
      BY <1>2 DEF vars, arrayVars, doneVars, worldVars
    <2>2. FaultsExplained'
      BY <2>1 DEF MemoryInv, FaultsExplained, FdsHeld, FdsWaiting
    <2>3. StaleOnlyByGrowth'
      BY <2>1 DEF MemoryInv, StaleOnlyByGrowth
    <2> QED BY <1>1, <2>2, <2>3 DEF MemoryInv
  <1>3. CASE Up'
    BY <1>1, <1>3 DEF Up, MemoryInv, FaultsExplained, StaleOnlyByGrowth
  <1>4. ASSUME NEW w \in Workers, CannotAsk(w)
        PROVE  MemoryInv'
    <2>1. /\ Up /\ at[w] = "contact" /\ Sound(w) /\ fault' = "exit"
          /\ UNCHANGED <<joining, asked, at, my, interrupted>>
      BY <1>4 DEF CannotAsk, doneVars, worldVars
    <2>2. heap[my[w].array][my[w].index].port # Garbled
      <3>1. /\ QueryInv(w) /\ Listed /\ currentServantCount \in Nat
            /\ my[w].index \in Nat /\ my[w].n \in Nat
        BY <2>1 DEF QueriesInv, TableInv, Types, ArrayTypes, WorkerTypes, Local
      <3>2. my[w].index < my[w].n /\ my[w].n <= currentServantCount
        BY <2>1, <3>1 DEF QueryInv, QueryPcs
      <3>3. my[w].index \in 0..currentServantCount-1
        BY <3>1, <3>2
      <3>4. PICK s \in Servants : Slot(my[w].index) = Whole(s)
        BY <3>1, <3>3, ListedServant
      <3>5. heap[my[w].array][my[w].index] = Slot(my[w].index)
        BY <2>1, <3>1, QueryReads
      <3> QED BY <3>4, <3>5, TableAssumption DEF Whole
    <2>3. FdsHeld + FdsWaiting >= FdLimit
      BY <1>4, <2>2 DEF CannotAsk
    <2>4. FdsHeld' = FdsHeld /\ FdsWaiting' = FdsWaiting
      BY <2>1 DEF FdsHeld, FdsWaiting
    <2>5. at'[w] = "contact" /\ FdsHeld' + FdsWaiting' >= FdLimit
      BY <2>1, <2>3, <2>4
    <2>6. FaultsExplained'
      BY <2>1, <2>5 DEF FaultsExplained
    <2>7. StaleOnlyByGrowth'
      BY <2>1 DEF StaleOnlyByGrowth
    <2> QED BY <1>1, <2>6, <2>7 DEF MemoryInv
  <1>5. ASSUME NEW w \in Workers, Reset(w)
        PROVE  MemoryInv'
    <2>1. /\ at[w] = "await" /\ my[w].rec.port \notin alive /\ fault' = "exit"
          /\ UNCHANGED <<at, my, alive>>
      BY <1>5 DEF Reset, worldVars
    <2> QED BY <1>1, <2>1 DEF MemoryInv, FaultsExplained, StaleOnlyByGrowth
  <1>6. ASSUME NEW w \in Workers, Fault(w)
        PROVE  MemoryInv'
    <2>1. /\ Up /\ UNCHANGED <<freed, servants, at, my, interrupted>>
          /\ at[w] \in AccessPcs /\ (at[w] = "visit" => my[w].index < my[w].n)
          /\ ~Sound(w) /\ fault' = Problem(w)
      BY <1>6 DEF Fault, arrayVars, worldVars
    <2>2. fault' = "stale"
      BY <2>1, NoOverflow DEF Sound
    <2>3. Element(w)[1] \in freed
      BY <2>1, <2>2 DEF Problem
    <2>4. servants \in freed /\ ~interrupted => \E v \in Workers : at[v] = "install"
      BY DEF MemoryInv, FreedInv
    <2>5. ASSUME ~interrupted
          PROVE  at[w] \in {"visit", "contact"} /\ my[w].array \in freed
      <3>1. CASE at[w] \in {"slot", "announce", "grow", "free"}
        <4>1. Element(w)[1] = servants
          BY <2>1, <3>1 DEF Element, TableInv, SlotInv
        <4>2. PICK v \in Workers : at[v] = "install"
          BY <2>3, <2>4, <2>5, <4>1
        <4>3. v = w
          BY <3>1, <4>2 DEF LineInv, RegisterPcs
        <4> QED BY <3>1, <4>2, <4>3
      <3>2. CASE at[w] \in {"visit", "contact"}
        BY <2>3, <3>2 DEF Element
      <3> QED BY <2>1, <3>1, <3>2 DEF AccessPcs
    <2>6. FaultsExplained'
      BY <2>2 DEF FaultsExplained
    <2>7. StaleOnlyByGrowth'
      BY <2>1, <2>4, <2>5 DEF StaleOnlyByGrowth
    <2> QED BY <1>1, <2>6, <2>7 DEF MemoryInv
  <1>7. CASE FreeServants
    <2>1. /\ Up /\ interrupted' = TRUE
          /\ fault' \in {"stale", "hole", "none"}
          /\ fault' = "hole" => \E i \in 0..currentServantCount-1 :
                                  i \notin DOMAIN heap[servants] \/ Slot(i) = Hole
      BY <1>7 DEF FreeServants
    <2>2. RoomInv /\ Listed
      BY <2>1 DEF TableInv
    <2>3. \A i \in 0..currentServantCount-1 : Slot(i) # Hole
      BY <2>2, ListedServant, Records, HoleAssumption
    <2>4. fault' # "hole"
      BY <2>1, <2>2, <2>3 DEF RoomInv
    <2> QED BY <1>1, <2>1, <2>4 DEF MemoryInv, FaultsExplained, StaleOnlyByGrowth
  <1>8. Next /\ ~Up' => FreeServants \/ \E w \in Workers : Stops(w)
    <2>1. ASSUME NEW w \in Workers, HandleServant(w)
          PROVE  fault' = fault
      BY <2>1 DEF HandleServant, EvalSlot, AssignTo, ResetLine, AppendToken, StoreField,
         ReadField, EndOfRegistration, StoreSlot, Announce, ReadCount, WriteCount,
         CheckRoom, GrowIf, GrowCopy, CopyFirst, GrowFree, GrowInstall
    <2>2. ASSUME NEW w \in Workers, HandleClientRequest(w) \/ Clash(w)
          PROVE  fault' = fault \/ Stops(w)
      BY <2>2 DEF HandleClientRequest, BeginQuery, Visit, Contact, Reply, CutOff, Answer,
         AnswerAfter, Clash, Stops
    <2>3. ASSUME NEW s \in Servants, ServantTerminates(s)
          PROVE  fault' = fault
      BY <2>3 DEF ServantTerminates
    <2> QED BY <2>1, <2>2, <2>3, NextUp DEF Next, Up, Stops
  <1> QED BY <1>2, <1>3, <1>4, <1>5, <1>6, <1>7, <1>8 DEF Stops

THEOREM Invariance == ASSUME Serialised PROVE Spec => []IInv
  <1>1. IInv /\ [Next]_vars => IInv'
    <2> SUFFICES ASSUME IInv, [Next]_vars PROVE IInv'
      OBVIOUS
    <2>1. Types /\ LineInv /\ TableInv /\ QueriesInv /\ RepliesComplete /\ MemoryInv
      BY DEF IInv
    <2>2. ArrayTypes' /\ WorkerTypes'
      BY <2>1, ArrayStep, WorkerStep DEF Types
    <2>3. Types'
      BY <2>1, <2>2, DoneStep, RestStep DEF Types
    <2>4. LineInv' /\ TableInv'
      BY <2>1, LineStep, TableStep
    <2>5. QueriesInv' /\ RepliesComplete'
      BY <2>1, <2>3, QueriesStep, RepliesStep
    <2>6. MemoryInv'
      BY <2>1, <2>3, MemoryStep
    <2> QED BY <2>3, <2>4, <2>5, <2>6 DEF IInv
  <1>2. Init => IInv
    BY InitTable, InitQueries DEF IInv
  <1> QED BY <1>1, <1>2, PTL DEF Spec

-----------------------------------------------------------------------------
(* While servants register one at a time every variable keeps its type and *)
(* the shared buffer holds one field at most.                              *)
THEOREM TypeCorrect == ASSUME Serialised PROVE Spec => []TypeOK
  <1>1. IInv => TypeOK
    <2> SUFFICES ASSUME IInv PROVE TypeOK
      OBVIOUS
    <2>1. ArrayTypes /\ WorkerTypes /\ DoneTypes /\ RestTypes /\ LineInv
      BY DEF IInv, Types
    <2>2. \A a \in DOMAIN heap : \A i \in DOMAIN heap[a] :
             heap[a][i] = Hole \/ heap[a][i] \in Record
      <3> SUFFICES ASSUME NEW a \in DOMAIN heap, NEW i \in DOMAIN heap[a]
                   PROVE  heap[a][i] = Hole \/ heap[a][i] \in Record
        OBVIOUS
      <3>1. a \in 1..Len(heap)
        BY <2>1 DEF ArrayTypes
      <3>2. PICK n \in Nat \ {0} : heap[a] \in [0..n-1 -> Record \cup {Hole}]
        BY <2>1, <3>1, HeapElement
      <3> QED BY <3>2
    <2>3. DOMAIN heap = 1..Len(heap)
      BY <2>1 DEF ArrayTypes
    <2>4. \A w \in Workers : my[w].rec \in Record
      BY <2>1 DEF WorkerTypes, Local
    <2> QED BY <2>1, <2>2, <2>3, <2>4
            DEF TypeOK, ArrayTypes, WorkerTypes, DoneTypes, RestTypes, LineInv, Ports
  <1> QED BY <1>1, Invariance, PTL

(* The server knows exactly the servants that have registered, each with   *)
(* its own port and its own cities, whenever no registration is being read. *)
THEOREM ServantsAreManaged == ASSUME Serialised PROVE Spec => []ServantsManaged
  <1>1. IInv => ServantsManaged
    <2> SUFFICES ASSUME IInv, Up, \A w \in Workers : at[w] \notin RegisterPcs
                 PROVE  /\ currentServantCount = Cardinality(registered)
                        /\ {Slot(i) : i \in 0..currentServantCount-1}
                             = {Whole(s) : s \in registered}
      BY DEF ServantsManaged
    <2>1. Joined = registered
      BY DEF Joined, CountedPcs, RegisterPcs
    <2> QED BY <2>1 DEF IInv, TableInv, Counted, Listed
  <1> QED BY <1>1, Invariance, PTL

(* A servant that is in the table stays where it is, also when the table   *)
(* grows under the queries that walk it.                                   *)
THEOREM TableOnlyGrows == ASSUME Serialised PROVE Spec => RegistryAppendOnly
  <1> DEFINE Kept == Up' /\ ~interrupted' =>
                       \A i \in 0..currentServantCount-1 : Slot(i)' = Slot(i)
  <1>1. IInv /\ [Next]_vars => [Kept]_vars
    BY SlotsKept DEF IInv
  <1> QED BY <1>1, Invariance, PTL DEF Spec, RegistryAppendOnly

(* An answer adds up every servant in charge that had registered before    *)
(* the query came, each once; one that contributes no number has           *)
(* terminated, and one that contributes another query's number is in       *)
(* charge of that query too.                                               *)
THEOREM RepliesAreComplete == ASSUME Serialised PROVE Spec => []RepliesComplete
  <1>1. IInv => RepliesComplete
    BY DEF IInv
  <1> QED BY <1>1, Invariance, PTL

(* No element past the end of the table or never written is used, and the  *)
(* server exits only when it waits for a servant that has terminated or    *)
(* may have no descriptor left to ask one, never for a damaged address.    *)
THEOREM FaultsAreExplained == ASSUME Serialised PROVE Spec => []FaultsExplained
  <1>1. IInv => FaultsExplained
    BY DEF IInv, MemoryInv
  <1> QED BY <1>1, Invariance, PTL

(* Until SIGINT only a query whose array has been replaced, or is just     *)
(* being replaced, uses freed memory: a registration never does.           *)
THEOREM StaleMemoryOnlyByGrowth ==
  ASSUME Serialised PROVE Spec => []StaleOnlyByGrowth
  <1>1. IInv => StaleOnlyByGrowth
    BY DEF IInv, MemoryInv
  <1> QED BY <1>1, Invariance, PTL
=============================================================================
