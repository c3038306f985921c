---------------------------- MODULE ServantTable ----------------------------
(***************************************************************************)
(* The server's table of servants (server.c): the pool's workers that read *)
(* a registration into it (requestHandlerThread, readServant,              *)
(* addCityToServant, increaseServantCacheSize) beside the workers that walk *)
(* it to answer a query (getRequestResultFromServant,                      *)
(* sendServantToRequest), and the SIGINT handler that frees it.            *)
(*                                                                         *)
(* None of them holds a mutex, except the one that grows the table.  The   *)
(* text buffer `line' in which readServant collects each field is one      *)
(* global of the process.  A field is one token here, <<servant, 0>> for   *)
(* the address (the port and the ip) and <<servant, k>> for the k-th city: *)
(* the ranges are stored the same way and never used.                      *)
(*                                                                         *)
(* Two queries may be at one servant at once; its threads format their     *)
(* answers in one buffer too (see ServantProcess), so that one of them may *)
(* be sent the other's answer, or nothing on a connection that stays open. *)
(***************************************************************************)
EXTENDS Integers, Sequences, FiniteSets, SequencesExt

CONSTANTS
  Servants,     (* the servant processes that connect to register          *)
  Cities,
  CitiesOf,     (* the city directories of each servant, in listing order  *)
  Queries,      (* the queries asked, named by their city; each asked once *)
  NoCity,       (* the query that names no city                            *)
  Workers,
  CacheSize,    (* initial servantCacheSize (256 in the code)              *)
  FdLimit,      (* descriptors the process may use for its connections     *)
  Mortal,       (* bound: the servants that may terminate                  *)
  Serialised,   (* TRUE: servants are started one after another            *)
  Garbled,      (* a field that names no servant and no city               *)
  Hole          (* an array element malloc has not initialised             *)

ASSUME TableAssumption ==
  /\ NoCity \notin Cities /\ Garbled \notin Cities \cup Servants
  /\ CitiesOf \in [Servants -> Seq(Cities)]
  /\ \A s \in Servants : CitiesOf[s] # <<>> /\ IsInjective(CitiesOf[s])
  /\ Queries \subseteq Cities \cup {NoCity}
  /\ CacheSize \in Nat \ {0}
  /\ FdLimit \in Nat
  /\ Mortal \subseteq Servants
  /\ Serialised \in BOOLEAN

VARIABLES
  line,                 (* the global buffer, as the tokens in it          *)
  heap,                 (* every array malloc'ed for the table, by age     *)
  freed,                (* the arrays that have been freed                 *)
  servants,             (* the array the global pointer is set to          *)
  servantCacheSize,
  currentServantCount,
  joining,              (* servants that have not connected yet            *)
  registered,           (* servants whose registration has been completed  *)
  asked,
  replies,              (* what was found out for each query answered      *)
  at,                   (* what each worker does next                      *)
  my,                   (* each worker's local variables                   *)
  alive,
  interrupted,          (* the SIGINT handler has freed the table          *)
  fault                 (* the process has used memory it does not own,    *)
                        (* or has exited                                   *)

arrayVars == <<heap, freed, servants, servantCacheSize>>
doneVars == <<registered, asked, replies>>
worldVars == <<alive, interrupted>>
vars == <<line, arrayVars, currentServantCount, joining, doneVars, at, my,
          worldVars, fault>>

RegisterPcs == {"reset", "append", "field", "slot", "announce", "count",
                "recount", "check", "grow", "free", "install"}
QueryPcs == {"visit", "contact", "await"}
Outcomes == {"answered", "mixed", "refused", "cut"}
Replies == {"answered", "mixed", "nothing"}

Record == [port : Servants \cup {Garbled}, cities : Seq(Cities \cup {Garbled})]
ASSUME HoleAssumption == Hole \notin Record

Whole(s) == [port |-> s, cities |-> CitiesOf[s]]
Blank == [port |-> Garbled, cities |-> <<>>]

(* A worker's locals: its peer, the address of the slot it will assign to,  *)
(* the record and the field it is reading, the value of currentServantCount *)
(* it holds; and for a query the array and the count passed by value, the   *)
(* loop index, what the servant it has asked is about to write, the answers *)
(* so far and (history) who had registered before.                          *)
Idle == [peer |-> Garbled, array |-> 1, index |-> 0, rec |-> Blank, field |-> 0,
         n |-> 0, sent |-> "answered", got |-> <<>>, before |-> {}]

Up == fault = "none"
Slot(i) == heap[servants][i]

Init ==
  /\ line = <<>>
  /\ heap = << [i \in 0..CacheSize-1 |-> Hole] >> /\ freed = {} /\ servants = 1
  /\ servantCacheSize = CacheSize /\ currentServantCount = 0
  /\ joining = Servants /\ registered = {}
  /\ asked = {} /\ replies = {}
  /\ at = [w \in Workers |-> "idle"] /\ my = [w \in Workers |-> Idle]
  /\ alive = Servants /\ interrupted = FALSE /\ fault = "none"

WorkerGoes(w, from, to) == Up /\ at[w] = from /\ at' = [at EXCEPT ![w] = to]

-----------------------------------------------------------------------------
(* The array element a worker is about to read or write, and what is wrong *)
(* with it: its array has been freed, it is past the end, or it is read    *)
(* before it was ever written.                                             *)
Element(w) ==
  CASE at[w] = "announce" -> <<servants, currentServantCount>>
    [] at[w] \in {"grow", "free"} -> <<servants, 0>>
    [] OTHER -> <<my[w].array, my[w].index>>

AccessPcs == {"slot", "announce", "grow", "free", "visit", "contact"}
Reads(w) == at[w] \in {"announce", "visit", "contact"}

Problem(w) ==
  LET a == Element(w)[1]
      i == Element(w)[2]
  IN CASE a \in freed -> "stale"
       [] a \notin freed /\ i \notin DOMAIN heap[a] -> "overflow"
       [] a \notin freed /\ i \in DOMAIN heap[a] /\ heap[a][i] = Hole /\ Reads(w)
            -> "hole"
       [] OTHER -> "none"

Sound(w) == Problem(w) = "none"

(* What the process does next is undefined: the model stops it here.       *)
Fault(w) ==
  /\ Up
  /\ at[w] \in AccessPcs
  /\ at[w] = "visit" => my[w].index < my[w].n
  /\ ~Sound(w)
  /\ fault' = Problem(w)
  /\ UNCHANGED <<line, arrayVars, currentServantCount, joining, doneVars, at, my,
                 worldVars>>

-----------------------------------------------------------------------------
(* Reading a registration.                                                 *)

AssignTo(w, s, i) ==
  /\ Serialised => \A v \in Workers : at[v] \notin RegisterPcs
  /\ s \in joining /\ joining' = joining \ {s}
  /\ WorkerGoes(w, "idle", "reset")
  /\ my' = [my EXCEPT ![w] = [Idle EXCEPT !.peer = s, !.array = servants,
                                          !.index = i]]
  /\ UNCHANGED <<line, arrayVars, currentServantCount, doneVars, worldVars, fault>>

(* Mutant: the last slot in use is assigned to.                            *)
EvalSlot_OffByOne(w, s) ==
  AssignTo(w, s, IF currentServantCount = 0 THEN 0 ELSE currentServantCount - 1)

(* servants[currentServantCount] = readServant(..): C leaves it open which  *)
(* side is evaluated first, the compiled program computes the address       *)
(* before the call.                                                         *)
EvalSlot(w, s) == AssignTo(w, s, currentServantCount)

ResetLine(w) ==
  /\ WorkerGoes(w, "reset", "append")
  /\ line' = <<>>
  /\ UNCHANGED <<arrayVars, currentServantCount, joining, doneVars, my, worldVars,
                 fault>>

(* The characters of one field, up to the next blank.                      *)
AppendToken(w) ==
  /\ WorkerGoes(w, "append", "field")
  /\ my[w].field <= Len(CitiesOf[my[w].peer])
  /\ line' = Append(line, <<my[w].peer, my[w].field>>)
  /\ UNCHANGED <<arrayVars, currentServantCount, joining, doneVars, my, worldVars,
                 fault>>

(* What the contents of line are as a port and as a city.                  *)
LineAsPort ==
  IF Len(line) = 1 /\ line[1][2] = 0 THEN line[1][1] ELSE Garbled

LineAsCity ==
  IF Len(line) = 1 /\ line[1][2] > 0 THEN CitiesOf[line[1][1]][line[1][2]]
                                     ELSE Garbled

ReadField(w) ==
  /\ WorkerGoes(w, "field", "append")
  /\ my' = [my EXCEPT
       ![w].rec = IF my[w].field = 0
                  THEN [@ EXCEPT !.port = LineAsPort]
                  ELSE [@ EXCEPT !.cities = Append(@, LineAsCity)],
       ![w].field = @ + 1]
  /\ UNCHANGED <<arrayVars, currentServantCount, joining, doneVars, worldVars,
                 fault>>

(* Mutant: line is not emptied after a field has been stored.              *)
StoreField_NoReset(w) == ReadField(w) /\ UNCHANGED line

StoreField(w) == ReadField(w) /\ line' = <<>>

EndOfRegistration(w) ==
  /\ WorkerGoes(w, "append", "slot")
  /\ my[w].field > Len(CitiesOf[my[w].peer])
  /\ UNCHANGED <<line, arrayVars, currentServantCount, joining, doneVars, my,
                 worldVars, fault>>

StoreSlot(w) ==
  /\ Sound(w)
  /\ WorkerGoes(w, "slot", "announce")
  /\ heap' = [heap EXCEPT ![my[w].array][my[w].index] = my[w].rec]
  /\ UNCHANGED <<line, freed, servants, servantCacheSize, currentServantCount,
                 joining, doneVars, my, worldVars, fault>>

(* A message about the slot that currentServantCount names by now is built *)
(* in line.                                                                *)
Announce(w) ==
  /\ Sound(w)
  /\ WorkerGoes(w, "announce", "count")
  /\ line' = << <<Garbled, -1>> >>
  /\ UNCHANGED <<arrayVars, currentServantCount, joining, doneVars, my, worldVars,
                 fault>>

(* currentServantCount++ reads the global ...                              *)
ReadCount(w) ==
  /\ WorkerGoes(w, "count", "recount")
  /\ my' = [my EXCEPT ![w].n = currentServantCount]
  /\ UNCHANGED <<line, arrayVars, currentServantCount, joining, doneVars, worldVars,
                 fault>>

(* ... and writes it back.                                                 *)
WriteCount(w) ==
  /\ WorkerGoes(w, "recount", "check")
  /\ currentServantCount' = my[w].n + 1
  /\ UNCHANGED <<line, arrayVars, joining, doneVars, my, worldVars, fault>>

(* The connection is closed and the worker is free again.                  *)
Registered(w) ==
  /\ registered' = registered \cup {my[w].peer}
  /\ my' = [my EXCEPT ![w] = Idle]

GrowIf(w, full) ==
  /\ IF full THEN WorkerGoes(w, "check", "grow") /\ UNCHANGED <<registered, my>>
             ELSE WorkerGoes(w, "check", "idle") /\ Registered(w)
  /\ UNCHANGED <<line, arrayVars, currentServantCount, joining, asked, replies,
                 worldVars, fault>>

(* Mutant: > in place of >=.                                               *)
CheckRoom_OffByOne(w) == GrowIf(w, currentServantCount > servantCacheSize)

CheckRoom(w) == GrowIf(w, currentServantCount >= servantCacheSize)

CopyFirst(w, k) ==
  /\ \A v \in Workers : at[v] \notin {"free", "install"}
  /\ Sound(w)
  /\ WorkerGoes(w, "grow", "free")
  /\ servantCacheSize' = 2 * servantCacheSize
  /\ heap' = Append(heap, [i \in 0..2*servantCacheSize-1 |->
                              IF i < k /\ i \in DOMAIN heap[servants] THEN Slot(i)
                              ELSE Hole])
  /\ UNCHANGED <<line, freed, servants, currentServantCount, joining, doneVars, my,
                 worldVars, fault>>

(* Mutant: the last element is not copied.                                 *)
GrowCopy_OffByOne(w) == CopyFirst(w, servantCacheSize - 1)

(* increaseServantCacheSize, under req_m: allocate and copy, ...           *)
GrowCopy(w) == CopyFirst(w, servantCacheSize)

(* ... free the old array, ...                                             *)
GrowFree(w) ==
  /\ Sound(w)
  /\ WorkerGoes(w, "free", "install")
  /\ freed' = freed \cup {servants}
  /\ UNCHANGED <<line, heap, servants, servantCacheSize, currentServantCount,
                 joining, doneVars, my, worldVars, fault>>

(* Mutant: servants = temp in place of *servants = temp.                   *)
GrowInstall_Local(w) ==
  /\ WorkerGoes(w, "install", "idle")
  /\ Registered(w)
  /\ UNCHANGED <<line, heap, freed, servants, servantCacheSize,
                 currentServantCount, joining, asked, replies, worldVars, fault>>

(* ... and only then set the global pointer to the new one.                *)
GrowInstall(w) ==
  /\ WorkerGoes(w, "install", "idle")
  /\ servants' = Len(heap)
  /\ Registered(w)
  /\ UNCHANGED <<line, heap, freed, servantCacheSize, currentServantCount, joining,
                 asked, replies, worldVars, fault>>

-----------------------------------------------------------------------------
(* Answering a query.                                                      *)

(* The array and the count are passed to getRequestResultFromServant by    *)
(* value.                                                                  *)
BeginQuery(w, q) ==
  /\ q \in Queries \ asked /\ asked' = asked \cup {q}
  /\ WorkerGoes(w, "idle", "visit")
  /\ my' = [my EXCEPT ![w] = [Idle EXCEPT !.peer = q, !.array = servants,
                 !.n = currentServantCount, !.before = registered]]
  /\ UNCHANGED <<line, arrayVars, currentServantCount, joining, registered, replies,
                 worldVars, fault>>

Handles(rec, q) == q = NoCity \/ q \in ToSet(rec.cities)

Visit(w) ==
  LET rec == heap[my[w].array][my[w].index]
  IN /\ at[w] = "visit" /\ my[w].index < my[w].n /\ Sound(w)
     /\ \/ /\ Handles(rec, my[w].peer)
           /\ WorkerGoes(w, "visit", "contact") /\ UNCHANGED my
        \/ /\ ~Handles(rec, my[w].peer)
           /\ WorkerGoes(w, "visit", "visit")
           /\ my' = [my EXCEPT ![w].index = @ + 1]
     /\ UNCHANGED <<line, arrayVars, currentServantCount, joining, doneVars,
                    worldVars, fault>>

(* One servant's part of the sum is in, and the loop goes on.              *)
Gather(w, port, outcome) ==
  my' = [my EXCEPT ![w].got = Append(@, <<port, outcome>>),
                   ![w].index = @ + 1]

(* Descriptors in use: the accepted one of every peer is never closed (see *)
(* RequestPool), its dup is when it has been served, and a query holds one *)
(* socket at a time.  Peers that no worker has taken yet may wait in the   *)
(* queue, with two descriptors each.                                       *)
FdsHeld ==
  Cardinality(Servants \ joining) + Cardinality(asked)
    + Cardinality({w \in Workers : at[w] # "idle"})
    + Cardinality({w \in Workers : at[w] = "await"})
FdsWaiting == 2 * (Cardinality(joining) + Cardinality(Queries \ asked))

(* sendServantToRequest exits when socket() finds no descriptor or         *)
(* inet_pton rejects the ip of a damaged record; ...                       *)
CannotAsk(w) ==
  /\ Up /\ at[w] = "contact" /\ Sound(w)
  /\ \/ FdsHeld + FdsWaiting >= FdLimit
     \/ heap[my[w].array][my[w].index].port = Garbled
  /\ fault' = "exit"
  /\ UNCHANGED <<line, arrayVars, currentServantCount, joining, doneVars, at, my,
                 worldVars>>

(* ... it connects and writes the query, or returns -1, which is added to  *)
(* the sum.                                                                *)
Contact(w) ==
  LET port == heap[my[w].array][my[w].index].port
  IN /\ at[w] = "contact" /\ Sound(w) /\ FdsHeld < FdLimit
     /\ \/ /\ port \in alive
           /\ WorkerGoes(w, "contact", "await")
           /\ my' = [my EXCEPT ![w].rec.port = port, ![w].sent = "answered"]
        \/ /\ port \notin alive
           /\ WorkerGoes(w, "contact", "visit")
           /\ Gather(w, port, "refused")
     /\ UNCHANGED <<line, arrayVars, currentServantCount, joining, doneVars,
                    worldVars, fault>>

(* Two queries at one servant: between a thread's sprintf and its write    *)
(* the other thread empties the buffer, or formats its own answer in it.   *)
Clash(w) ==
  /\ Up /\ at[w] = "await" /\ my[w].rec.port \in alive
  /\ \E v \in Workers \ {w} : at[v] = "await" /\ my[v].rec.port = my[w].rec.port
  /\ \E what \in {"mixed", "nothing"} : my' = [my EXCEPT ![w].sent = what]
  /\ UNCHANGED <<line, arrayVars, currentServantCount, joining, doneVars, at,
                 worldVars, fault>>

(* The servant keeps its connection open: when its thread has written      *)
(* nothing the loop of reads goes on waiting.                              *)
Reply(w) ==
  /\ my[w].rec.port \in alive /\ my[w].sent # "nothing"
  /\ WorkerGoes(w, "await", "visit")
  /\ Gather(w, my[w].rec.port, my[w].sent)
  /\ UNCHANGED <<line, arrayVars, currentServantCount, joining, doneVars, worldVars,
                 fault>>

(* Mutant: the end of the stream does not end the loop of reads.           *)
CutOff_Spins(w) ==
  /\ my[w].rec.port \notin alive
  /\ WorkerGoes(w, "await", "await")
  /\ UNCHANGED <<line, arrayVars, currentServantCount, joining, doneVars, my,
                 worldVars, fault>>

(* The servant terminated before it answered: the stream ends and what     *)
(* was read so far is the number, ...                                      *)
CutOff(w) ==
  /\ my[w].rec.port \notin alive
  /\ WorkerGoes(w, "await", "visit")
  /\ Gather(w, my[w].rec.port, "cut")
  /\ UNCHANGED <<line, arrayVars, currentServantCount, joining, doneVars, worldVars,
                 fault>>

(* ... or it is reset and the server exits.                                *)
Reset(w) ==
  /\ Up /\ at[w] = "await" /\ my[w].rec.port \notin alive
  /\ fault' = "exit"
  /\ UNCHANGED <<line, arrayVars, currentServantCount, joining, doneVars, at, my,
                 worldVars>>

AnswerAfter(w, n) ==
  /\ my[w].index >= n
  /\ WorkerGoes(w, "visit", "idle")
  /\ replies' = replies \cup {[query |-> my[w].peer, got |-> my[w].got,
                               before |-> my[w].before]}
  /\ my' = [my EXCEPT ![w] = Idle]
  /\ UNCHANGED <<line, arrayVars, currentServantCount, joining, registered, asked,
                 worldVars, fault>>

(* Mutant: the loop stops one servant early.                               *)
Answer_OffByOne(w) == AnswerAfter(w, my[w].n - 1)

Answer(w) == AnswerAfter(w, my[w].n)

-----------------------------------------------------------------------------
(* SIGINT at the server: clearAllMemory frees the records and the array    *)
(* before it tells the workers to stop.                                    *)
FreeServants ==
  /\ Up /\ ~interrupted
  /\ interrupted' = TRUE
  /\ freed' = DOMAIN heap
  /\ fault' = CASE servants \in freed -> "stale"
                [] servants \notin freed
                   /\ \E i \in 0..currentServantCount-1 :
                        i \notin DOMAIN heap[servants] \/ Slot(i) = Hole -> "hole"
                [] OTHER -> "none"
  /\ UNCHANGED <<line, heap, servants, servantCacheSize, currentServantCount,
                 joining, doneVars, at, my, alive>>

(* SIGINT at a servant.                                                    *)
ServantTerminates(s) ==
  /\ Up /\ s \in Mortal \cap alive
  /\ alive' = alive \ {s}
  /\ UNCHANGED <<line, arrayVars, currentServantCount, joining, doneVars, at, my,
                 interrupted, fault>>

HandleServant(w) ==
  \/ \E s \in Servants : EvalSlot(w, s)
  \/ ResetLine(w) \/ AppendToken(w) \/ StoreField(w) \/ EndOfRegistration(w)
  \/ StoreSlot(w) \/ Announce(w) \/ ReadCount(w) \/ WriteCount(w)
  \/ CheckRoom(w) \/ GrowCopy(w) \/ GrowFree(w) \/ GrowInstall(w)

HandleClientRequest(w) ==
  \/ \E q \in Queries : BeginQuery(w, q)
  \/ Visit(w) \/ CannotAsk(w) \/ Contact(w) \/ Reply(w) \/ CutOff(w)
  \/ Answer(w)

Next ==
  \/ \E w \in Workers :
       \/ HandleServant(w) \/ HandleClientRequest(w)
       \/ Clash(w) \/ Reset(w) \/ Fault(w)
  \/ FreeServants
  \/ \E s \in Servants : ServantTerminates(s)

Spec == Init /\ [][Next]_vars

(* The pool serves every connection in the end, and each thread of a       *)
(* servant writes what is in its buffer, if anything, unless the servant   *)
(* terminates; no two threads have to clash, no connection to be reset.    *)
FairSpec ==
  /\ Spec
  /\ \A w \in Workers : WF_vars(HandleServant(w) \/ HandleClientRequest(w) \/ Fault(w))

-----------------------------------------------------------------------------
(* The type of every variable.  While servants register one at a time, the *)
(* shared buffer never holds more than one field.                          *)
TypeOK ==
  /\ line \in Seq((Servants \cup {Garbled}) \X Int)
  /\ Serialised => Len(line) <= 1
  /\ servants \in DOMAIN heap /\ freed \subseteq DOMAIN heap
  /\ \A a \in DOMAIN heap : \A i \in DOMAIN heap[a] :
        heap[a][i] = Hole \/ heap[a][i] \in Record
  /\ servantCacheSize \in Nat /\ currentServantCount \in Nat
  /\ joining \subseteq Servants /\ registered \subseteq Servants
  /\ asked \subseteq Queries
  /\ \A rep \in replies :
        /\ rep.query \in asked /\ rep.before \subseteq registered
        /\ rep.got \in Seq((Servants \cup {Garbled}) \X Outcomes)
  /\ at \in [Workers -> {"idle"} \cup RegisterPcs \cup QueryPcs]
  /\ \A w \in Workers : my[w].rec \in Record
  /\ alive \subseteq Servants /\ interrupted \in BOOLEAN
  /\ fault \in {"none", "stale", "overflow", "hole", "exit"}

(* The server knows exactly the servants that have registered, each once,  *)
(* with its own port and its own cities.                                   *)
ServantsManaged ==
  Up /\ ~interrupted /\ (\A w \in Workers : at[w] \notin RegisterPcs) =>
    /\ currentServantCount = Cardinality(registered)
    /\ {Slot(i) : i \in 0..currentServantCount-1} = {Whole(s) : s \in registered}

(* A servant that is in the table stays where it is, also when the table   *)
(* grows under the queries that walk it.                                   *)
RegistryAppendOnly ==
  [][Up' /\ ~interrupted' =>
       \A i \in 0..currentServantCount-1 : Slot(i)' = Slot(i)]_vars

(* An answer adds up each servant in charge of the city at most once, no   *)
(* other servant, and every one that had registered before the query came; *)
(* a servant contributes no number only if it has terminated, and another  *)
(* query's number only if it is in charge of another query as well.        *)
Rivalled(s, q) == \E p \in asked \ {q} : Handles(Whole(s), p)

RepliesComplete ==
  \A rep \in replies :
    LET who == {rep.got[k][1] : k \in DOMAIN rep.got}
    IN /\ Cardinality(who) = Len(rep.got)
       /\ \A s \in who : s \in Servants /\ Handles(Whole(s), rep.query)
       /\ {s \in rep.before : Handles(Whole(s), rep.query)} \subseteq who
       /\ \A k \in DOMAIN rep.got :
             /\ rep.got[k][2] \in {"refused", "cut"} => rep.got[k][1] \notin alive
             /\ rep.got[k][2] = "mixed" => Rivalled(rep.got[k][1], rep.query)

(* While servants register one at a time no element is used past the end   *)
(* of the table or before it was written, and the server exits only when a *)
(* query waits for a servant that has terminated, or needs a descriptor    *)
(* when all may be in use (never for a damaged address).                   *)
FaultsExplained ==
  Serialised =>
    /\ fault \notin {"overflow", "hole"}
    /\ fault = "exit" =>
         \E w \in Workers :
           \/ at[w] = "await" /\ my[w].rec.port \notin alive
           \/ at[w] = "contact" /\ FdsHeld + FdsWaiting >= FdLimit

(* While servants register one at a time, and until SIGINT frees the table, *)
(* freed memory is used only by a query under which the table has grown:    *)
(* the array it walks has been replaced since it began, or is just being    *)
(* replaced.  No registration touches freed memory, and no query does that  *)
(* begins and ends between two growths.                                     *)
StaleOnlyByGrowth ==
  Serialised /\ fault = "stale" /\ ~interrupted =>
    \E w \in Workers :
      /\ at[w] \in {"visit", "contact"} /\ my[w].array \in freed
      /\ my[w].array = servants => \E v \in Workers : at[v] = "install"

(* Every query gets its answer unless the process comes down, or another   *)
(* query was at the same servant and emptied the buffer its reply is in.   *)
QueriesAnswered ==
  \A q \in Queries :
    q \in asked ~> \/ \E rep \in replies : rep.query = q
                   \/ ~Up
                   \/ \E w \in Workers : /\ at[w] = "await" /\ my[w].peer = q
                                         /\ my[w].sent = "nothing"
=============================================================================
