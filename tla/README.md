# A verification of Server-Socket-Property in TLA+

The program is three C programs that talk over TCP: a **server** with a pool of
worker threads, **servant** processes that each keep the transactions of a range
of cities, and a **client** that sends one query per thread. This directory
holds TLA+ models of them, the TLC configurations that check the models on small
instances, and TLAPS proofs about all of them: the pool, the table, the servant's
threads, the client's barrier, the dataset index, the scanners and the composition.
Paths are relative to the repository; the C files are in `src/src/`.

## 1. The system

| Part | State it keeps | Operations | Talks to |
|---|---|---|---|
| Server, `server.c`, `requestsQueue.c` | `requestQueue`, `requestCount`, `sigintFlag`, mutex `req_m`, condition variable `reqCondVar`, `handledRequests` | main's accept loop, `requestHandlerThread` x nThreads, `sigint_handler` and `clearAllMemory` | accepts servants (`s...`) and clients (`c...`) |
| Server, the table | `servants`, `servantCacheSize`, `currentServantCount`, the text buffer `line` | `readServant`, `increaseServantCacheSize`, `getRequestResultFromServant`, `sendServantToRequest` | connects to servants to ask them |
| Servant, `servant.c` | `threads` (table, count, capacity), `handledRequestCount`, `line`, `dataset` | `handleIncomingRequests`, `handleServerRequests`, `resizeServantThreads`, `sigint_handler` | registers with the server, then answers it |
| Dataset index, `dataOperations.c`, `*LinkedList.c` | list of types, each with a sorted doubly linked list of dates, each with a list of transactions | `addEstateToTypeLL`, `transactionCount(WithCity)`, `deleteTypeEstateLL` | called by the servant's threads |
| Client, `client.c` | `requests`, `arrived`, mutex `thread_m`, condition variable `thCondVar` | main, `requestHandlerThread` x requests | connects to the server |
| Parsers: `readRequest` (`socketManager.c`), `readFileAndCreateRequests` (`client.c`), `readFileAndFillDataset` (`servant.c`) | - | sequential scanning of bytes | - |
| Directories and ports: `directoryManager.c`, `socketManager.c` | `mainDirList`, the port | list, sort and filter the city directories; bind a port; send the registration | once, at start |
| `pid.c` | - | a separate program the makefile does not build | - |

How they interact. A servant loads its cities, listens on a port of its own, and
sends the server `s port lower upper ip city1 city2 ... `; the server's worker
that takes this connection appends a record to `servants`. A client thread sends
`c type date date [city] *`; the worker that takes it walks `servants`, opens a
connection to every servant in charge of the city (to all when there is none),
adds up the numbers and writes the sum back. SIGINT ends the server and the
servants; the client ignores it, except that it may interrupt a `read`.

What is hard about it:

* **Concurrency.** One mutex and one condition variable hand connections from
  main to the workers; the servants table, the global `line` buffers and the
  pointer to a table that is being grown are shared *without* a mutex.
* **Signals.** The SIGINT handlers do real work (locking, joining, freeing) in
  the middle of whatever the main thread was doing.
* **Failure.** A servant may die before or during a reply, and start again while
  its old record is still in the table; the server may come late, or go;
  descriptors run out, because the accepted one of every connection stays open.
* **Ordering.** The memory a thread uses must outlive it; the date list and the
  list of cities are built in whatever order the directory lists the files.
* **Limits.** Three arrays grow by doubling; two of them double the number of
  elements where they mean the capacity.
* **Scanners** that carry what they have read of one line into the next.

What makes each part correct: the queue, its counter and the flag stay in step,
no wake-up is lost and each connection is served once (server); the table holds
exactly the servants that have registered, and an answer sums over whom it should
(table); a reply goes to the question it belongs to, threads are joined before
the process exits (servant); a query counts what was loaded (index); nobody
passes the barrier early and the client ends (client); what a file says is what
a servant searches for (scanners); and all of them together answer a query with
the number of transactions there are (composition). The code keeps the last with
three exceptions, which Cluster has too: two queries at one servant share a buffer, a
servant finds nothing of the type that it loaded last, and a servant that has
terminated stays in the table.

## 2. The modules

Every module is one component. Its actions carry the names of the functions or
steps they model, and a definition named `X_Something` under a comment
`Mutant:` is *not* part of the model: it is a plausible wrong version of `X`,
kept beside it to show which property notices the mistake when `X` is
replaced by it.

**RequestPool** (`server.c`, `requestsQueue.c`). The main thread has a program
counter `mainPc`, each worker `wpc[w]`; every lock, unlock, wait, signal and
access to the shared queue is one action. The SIGINT handler is a continuation
of the main thread, since main is the only thread that does not block SIGINT:
the workers are created while it is blocked (`server.c:103`, `server.c:117`) and
inherit the mask. `Interrupt` can happen at any point of main's loop, inside
its critical section too; after it main never returns to the loop. A connection
is named by its peer. `connFds` and `dupFds` are the descriptors of `accept`,
never closed, and of `dup` in `createReqArg`, closed by the worker. Spurious
wake-ups are actions. A registration is the step `Register` here, after which the
table may have to grow: that is the third section under `req_m`, from `GrowLock` to
`GrowUnlock`, and competes with the other two. Whether the table is full is a free
choice. A query is the two steps `CountHandled` and `Answer`, or `AskFails`, an exit
of `sendServantToRequest` that ends the process. The table's own steps are in
ServantTable. `busyThreads` is never read and is left out.

**Dispatcher** is what the pool promises the peers that connect, with threads,
mutex, wake-ups, counters and descriptors left out: a connection is submitted,
taken in the order of submission, finished once; after `Shut` nothing is submitted
or taken, what is being served is finished, and only then is the rest discarded.
RequestPool implements it under the mapping `Promise`: the queue is
`requestQueue`, "serving" are the connections in workers' hands, "arriving" the
peers not accepted and the one in main's hand, and the phase is read off
`sigintFlag` and `mainPc`. So `Enqueue` is `Submit`, `Dequeue` is `Take`, `Close`
is `Finish`, `RaiseFlag` is `Shut`, `Drain` is `Discard`, and every other
step is not seen.

**RequestPoolProofs**, **ServantTableProofs**, **ServantProcessProofs**,
**ClientBarrierProofs**, **EstateIndexProofs**, **TextScannersProofs**,
**ClusterProofs**: theorems about the modules they extend (section 5).
**InductionLemmas** holds what the last three need of induction, recursive functions,
folds, sums and ranks.

**ServantTable** (`server.c`). The workers' registration steps beside the
workers' query steps, down to the two halves of `currentServantCount++` and the
three of growing the table (copy, free, install). The table is a heap of arrays,
so that a worker may hold one that has been freed; `Problem` says when an access
is to freed memory, beyond the end or to an element never written, and `Fault`
stops the model there. The order in `servants[n] = readServant()` is left open by
C; `EvalSlot` fixes the slot first, which is what gcc compiles without
optimisation. A field of the registration is one token in `line`; the port and
the cities are kept, the ranges and the ip are stored the same way and choose no
servant. The pool's queue and mutex are not repeated: any worker may
take any connection at any time, which allows every schedule the pool allows.
Three things may go wrong between the server and a servant. `CannotAsk`: there is no
descriptor for the socket, or the address is damaged, and the server exits. What is in
use is `FdsHeld`; the queue may hold `FdsWaiting` more, so that between the two it may
or may not come to that. `Reset`: a servant that terminated resets the connection, and
the server exits as well. `Clash`: two queries are at one servant, whose threads format
their answers in one `line`; one of them is sent the other's answer ("mixed"), or
nothing on a connection that stays open, and then its worker reads for ever.
`MCServantTable` gives two servants with overlapping cities.

**ServantProcess** (`servant.c`). Main's loop, one thread per connection and the
SIGINT handler, which the kernel delivers to the main thread as long as main does
not block it. `threads->t` is a function over the table's indices, with `tLive`
false while it points to freed memory. The answer to connection `c` is
written as `c` itself, so that a reply that belongs to somebody else can be seen.
`line` is assigned at the steps where the code empties, formats and writes it. The
sections under `param_m` touch the counter alone and are single steps.

**EstateIndex** (`dataOperations.c`, `typeLinkedList.c`,
`dateEstateLinkedList.c`, `estateLinkedList.c`). The date nodes live in a heap and
point to one another by index, with `next`, `back`, `front`, `rear` and `size` as
in C; insertion, search, count and deletion are operators on that heap. The
action `AddEstateToTypeLL` is one line of a dataset file. A list of transactions
is the sequence of their cities. `MCEstateIndex` gives three dates whose orders by
day, by month and by year differ.

**ClientBarrier** (`client.c`). main creates and joins the threads, which lock,
arrive, wait or broadcast, unlock, connect, send and read. A server that is not
there, that closes without an answer or that resets the connection is a choice of
`Connect`, `ReadAnswer` and `ReadFails`; without a descriptor or a valid ip the whole
client exits (`SocketFails`); a `read` that SIGINT interrupts is
`Interrupt`.

**TextScanners** (`client.c`, `socketManager.c`, `directoryManager.c`,
`servant.c`). The functions that read one byte at a time, as folds over the
tokens of a line: a digit, a blank, `-`, `*`, a newline, or one of `WordParts`, the
pieces of words. The client's scanner, `client.scan`, is the record of the locals of
`readFileAndCreateRequests`, beside the array it fills.
`ReadRequestLine` is one line of the client's file, with the first byte of the file
lost to the test whether it is empty (`Rest`); `ReadLastLine` a last line without a
newline, which makes no request; `EndLine` with `AddRequest` and `ResizeRequests`
what a newline does. `Message` is what client and server print, and
`ReadRequest` what server and servant read of it. `ReadEstateLine` is one line of a
dataset file, with the pointers that dangle after a short line in `live`. What a
line *means* is said with words and pieces of words (`RequestOf`, `EstateOf`), and
`Regular` says for which lines code and meaning agree: one blank between words, no
`-` inside one. `MCTextScanners` gives regular lines and six kinds of lines that are
not.

**Cluster** puts the parts together. A servant starts with a range, gets its
directory in any order (`MainDirLists` applies the bubble sort and the filter to
every listing), binds the port in the middle of its range, unblocks SIGINT,
connects, sends its record and serves; a SIGINT may come at any of these points
and waits while it is blocked. `Terminates` is the end of a servant for whatever
reason, with a port left in TIME_WAIT if somebody waits for its answer; it may start
again under another range while its old record stays in the server's table.
The server starts late, may go, and serves registrations in any order
(`RegisterServant`, with `addCityToServant` and its limit); a query walks the table
one record at a time. What the other modules show in detail is one step here:
reading one registration, a thread's answer, a handler.

Three findings of those modules limit what Cluster promises. Two are part of it.
`servant_reply_race`: while two queries are at one servant `Clash` may put the other's
answer, or nothing, in the place of a query's own. `sent` is whose answer a query will
get and `clashed` remembers that it was not its own at some time; `Reply` waits for
ever when nothing is sent. `index_last_type`: a servant counts nothing of the type it
loaded last. Which type that is depends on the files of its cities and on the order
in which `readdir` lists them; for a dataset that does not change the range decides it,
and `EndsWithType` is the set of ranges for which it is the type asked about. The
third, `table_concurrent`, is not: registrations are single steps here, which is
ServantTable under `Serialised`. A worker that has served a query and then finds a
connection closed before its first byte answers a query nobody has asked; what it asks
the servants for is left out (`CloseEmpty`), what it may lead to, the end of the
server, is `ServerTerminates`.

`MCCluster` gives four cities whose counts
1, 10, 100 and 1000 show in a sum who contributed.

## 3. The runs

| Run | Module, cfg | Instance | What it shows |
|---|---|---|---|
| `pool` | RequestPool, `RequestPool.cfg` | 2 workers, 1 servant, 2 clients, 4 descriptors, 1 spurious wake-up; 66,828 states | types, mutual exclusion of all sections under `req_m`, no NULL request, each connection in one place, no lost wake-up, workers joined before memory is freed; no work is begun after the flag; the Dispatcher's promise; a queued connection is served and SIGINT outside main's critical section ends the process |
| `pool_graceful` | RequestPool, `RequestPoolGraceful.cfg` | 2 workers, 2 peers | **violated**: SIGINT inside main's critical section deadlocks |
| `table` | MCServantTable, `ServantTable.cfg` | 2 servants registering one after another, initial table size 1, 2 queries, 7 descriptors, one servant that may die; 86,570 states | the table holds the servants registered, never moves one, an answer sums over exactly the right servants; freed memory is used only by a query under which the table grew or after SIGINT; the server exits only for a reset connection or a missing descriptor; every query is answered unless another one emptied the buffer of its answer |
| `table_concurrent` | MCServantTable, `ServantTableConcurrent.cfg` | 2 servants at once | **violated**: one servant is lost or garbled |
| `servant` | ServantProcess, `ServantProcess.cfg` | 3 questions one at a time, initial table size 1, 4 descriptors; 11,226 states | threads are in the table, answers are counted before they are sent, which memory may be misused and when; a question that arrives is answered and the process ends after SIGINT |
| `servant_reply_race` | ServantProcess, `ServantReplyRace.cfg` | 2 questions at a time | **violated**: a reply with another's answer |
| `client` | ClientBarrier, `ClientBarrier.cfg` | 3 threads, 2 spurious wake-ups, 1 SIGINT; 9,150 states | who may pass the barrier early, requests outlive threads, termination |
| `client_together` | ClientBarrier, `ClientBarrierTogether.cfg` | 3 threads, 1 spurious wake-up | **violated**: a thread sends before the others have arrived |
| `index` | MCEstateIndex, `EstateIndex.cfg` | every sequence of at most 4 transactions over 2 types, 3 dates, 2 cities; 45,241 states | sorted lists, matching pointers, counts equal to a count over the plain list of transactions, nothing leaks |
| `scanners` | MCTextScanners, `TextScanners.cfg` | files of at most 3 lines over 9 request lines, 4 file names and 4 dataset lines, room for 2 requests; 18,048 states | regular files are read as they are meant, a line that has made a request does no harm to the next, what the client has read is what the servant searches for, and where the array of requests is overrun |
| `cluster` | MCCluster, `Cluster.cfg` | 2 servants, 2 starts, 4 ranges over 4 cities, room for 3 cities, one range that ends with the type asked about, 2 queries; 125,725 states | an answer that was not disturbed and did not clash is the number of transactions in the ranges registered, less the type a servant never counts, whatever the order of listings and connections; ports clash only on overlap; which faults can happen and when; every query settles unless another one emptied the buffer of its answer |
| `index_last_type` | MCEstateIndex, `EstateIndexLastType.cfg` | the same | **violated**: the last type is counted as 0 |

Each violated property is what the repository's README says of the program; the
five disagreements are `findings` in `PROJECT.json`.

**Bounds.** Two workers are enough for one to take the request another was woken
for; three peers make the queue hold two requests. Four descriptors are too few
for three connections, so that `accept` fails in some schedules and `dup` in
others, and enough for two. One spurious wake-up
reaches every use of the recheck. A table of initial size 1 (256 in the code)
grows at the first registration and again at the second; two servants and two
queries put a query before, between and after registrations, and both queries at one
servant. Seven descriptors are one too few when all four peers are there and both
queries are asking, and enough otherwise if few peers wait in the queue. Three dates reach
insertion at the front, in the middle and at the rear; four transactions also
repeat a date and fill a second type. Three client threads leave one waiting
while another is woken early. Three lines are one to do damage, one to suffer it
and one to see that no more comes of it, and one more than the two requests there
is room for (255 in the code). Two starts are two servants beside each other or one
that comes back; the ranges lie side by side, overlap, share a port, reach past the
end of the dataset and hold as many cities as the server has room for (3, for 256).
With three starts the same instance has no counterexample to the safety properties
either, but takes longer than a run should. `MaxSpurious`, `MaxSignals`, `MaxLoads`,
`MaxOpen`, `MaxLines`, `MaxStarts` and `Mortal` are the names of the bounds; the
state spaces are finite without any other.

**Fairness.** Threads are scheduled, so each thread's next step is weakly fair,
and so is a blocking read: its peer answers or closes. Mutexes need no more than
weak fairness in these instances, since the number of connections is finite and
main gives `req_m` up for good. Accepting is not fair (no peer is obliged to
connect), nor is a signal, a spurious wake-up or the death of a servant. In
RequestPool a peer that connects and sends nothing would occupy a worker for
ever; the liveness properties are about peers that send, as both programs do.
That a servant answers is assumed there as well; it holds of one question at a time
(`QuestionAnswered` of the run `servant`). Where two queries may be at one servant, in
ServantTable and Cluster, a thread writes what is in `line`: `Reply` is not enabled
when that is nothing, so that no fairness makes the servant answer, and the liveness
properties name this as a way a query may end. `Clash` itself and `Reset` are not fair.
In Cluster each servant's own steps and each query's are weakly fair; that a
servant or the server is started, asked or interrupted is not. TextScanners and
EstateIndex are sequential and have no liveness property.

**Deadlock** is not checked: each process may exit, and each server may wait for
a connection that nobody makes. Liveness properties find the states in which
waiting is wrong. In Cluster and TextScanners the model ends when its bounds are
reached.

## 4. What goes wrong in this code

Beside the five findings, the runs show, and the properties state with the
exceptions the code needs:

* A query that is walking the table while a registration grows it reads freed
  memory (`StaleOnlyByGrowth`), and so do queries still running when SIGINT frees the
  table. The same holds of the servant's dataset, freed before its
  threads are joined, and of SIGINT inside `resizeServantThreads`.
* Requests queued when the flag goes up are dropped; the client, which sees the
  connection close, prints the result 0 (`ReadAnswer`).
* Every connection leaks its accepted descriptor (`AcceptFails`, `ReadFails`).
* A query that finds no descriptor for its socket, or whose servant resets the
  connection, ends the server and with it all other queries (`FaultsExplained` of
  ServantTable).
* A query may wait for ever for a servant that is alive, and with it the SIGINT handler
  that joins its worker: another thread of the servant has emptied the answer before it
  was written, and the connection stays open (`QueriesAnswered`, `QuerySettles`). Or it
  adds up what was meant for another query (`RepliesComplete`, `AnswerIsCount`).
* A servant that cannot be reached adds -1 to the sum (`Contact`), and so does
  the old record of a servant that has terminated; one that came back under
  the same port is counted twice (`AnswerIsCount` holds only while no
  registered servant has terminated).
* `bind` returns -1 and never EADDRINUSE, so that the search for a free port never
  goes on: a servant whose port is in use ends (`BindFailsOnlyOnOverlap`).
* A servant with no city in its range reads `mainDirList[-1]` and crashes before
  it registers (`AfterListing`).
* `addCityToServant` doubles the number of cities where it means the capacity: the
  server prints an element that was never written when a servant has exactly 256
  cities, and writes past the array with more (`FaultsExplained` of Cluster).
  `resizeRequests` does the same to the client's requests from the 256th on (`TypeOK`
  of TextScanners).
* A worker whose peer closes before its first byte goes by the `buffer` of the
  request it served before, and registers a servant that sent nothing
  (`RegisterServant`).
* A servant that is refused by the server frees its memory and exits; SIGINT in
  between frees it again (`Interrupt`).
* The first byte of a request file is lost, which does no harm as long as the first
  word is not used, and a last line without a newline makes no request. A line
  without a type leaves its dates to the next one (`DamageIsLocal`).
* A dataset file named like `-1-2` ends the servant, and a dataset line of fewer than
  three words makes it use freed memory (`FilesRead`).
* `servant.c:213` has a stray `x` and does not compile as it stands; the models
  read it as `handledRequestCount++;`. `char line[]` is defined in several
  files, which newer compilers link only with `-fcommon`.

The hazards that no property covers have the reason as their `note` in
`PROJECT.json`: they are what the code does on purpose or promises nothing about, and
the properties are stated with them as exceptions.

## 5. What is proved

### The pool

`RequestPoolProofs` proves, for every set of workers and peers, every number of
descriptors and of spurious wake-ups, from `PoolAssumption` alone (the names of
workers, main, peers and "nobody" are distinct, peers and workers are finite and
there is a worker):

| Theorem | Property |
|---|---|
| `TypeCorrect` | `TypeOK`, with `requestCount` never below zero |
| `MutualExclusion` | `MutexOK` |
| `NoNullRequest` | `DequeueFindsRequest` |
| `EachConnectionOnce` | `ExactlyOnce` |
| `WakeupsReachWorkers` | `NoLostWakeup` |
| `JoinedBeforeFree` | `JoinBeforeFree` |
| `QueueFrozenAfterSigint` | `[][...]` of `NoWorkAfterSigint` |
| `PoolImplementsDispatcher` | `ImplementsDispatcher` |

`MutualExclusion` is about all four places that lock `req_m`: a worker taking a request
and one growing the table, main queueing a request and the handler raising the flag.

None of them is inductive by itself. The inductive invariant `IInv` joins the
types and mutual exclusion with four facts that tie program counters to data:
the counter equals the length of the queue whenever `req_m` is free, and differs
by exactly the step that its owner has just taken (a SIGINT in between leaves
them apart for ever, but then the mutex is never free again); main and each
worker have a connection in hand exactly at the program points between taking and
passing on; a peer not accepted yet is nowhere in the process; a queued request
has a worker awake, a signal about to be sent, or a main thread interrupted in its
section; and from `RaiseFlag` on the flag stays up and no worker stands before
`reqDequeue`. With these, every connection stays in one place. The proof has one lemma for each of these facts
(`CountStep`, `HandStep`, `FlagStep`, `JoinStep`, `WakeStep`, `PlaceStep`), each
with one step for each action that can disturb it, and lemmas on what `Append` and
`Tail` do to the set of a queue's elements. `NextIInv` joins them and
`Invariance` is the temporal step.

The refinement needs the same invariant. A `Take` must be of an open
dispatcher with a queue that is not empty (`FlagInv`, `CountInv`); a `Finish` must
take away exactly one connection from those served, so no two workers may hold the
same one (`ExactlyOnce`); `Discard` is allowed only when nobody is being served
(`JoinBeforeFree`). The module has one lemma for each action that the
Dispatcher sees and one for those it does not, and `StepMaps` goes through the
disjuncts of `Next`. The Dispatcher has no fairness; that a queued connection is
served is the liveness property `QueuedIsServed`.

### The table of servants

`ServantTableProofs` assumes `Serialised`, which is necessary (the run
`table_concurrent` violates the second theorem without it), `TableAssumption` and
`HoleAssumption` (what `malloc` leaves in an element is told apart from a record).
The number of servants, cities, queries and workers and the initial size are
arbitrary.

| Theorem | Property |
|---|---|
| `TypeCorrect` | `TypeOK`, with one field at most in the shared buffer |
| `ServantsAreManaged` | `ServantsManaged` |
| `TableOnlyGrows` | `RegistryAppendOnly` |
| `RepliesAreComplete` | `RepliesComplete` |
| `FaultsAreExplained` | `FaultsExplained` |
| `StaleMemoryOnlyByGrowth` | `StaleOnlyByGrowth` |

`FaultsAreExplained` says that the server exits only when a query waits for a servant
that has terminated or needs a descriptor when all may be in use: an address in the
table is never damaged while registrations are serialised. `RepliesAreComplete` admits
another query's number only from a servant that is in charge of another query as well.
`IInv` has six parts. `Types`. `LineInv`: one worker at most reads a registration, and
what it has read is the beginning of its servant's record, with `line` empty or
holding the field it stands at. `TableInv`: the slots in use hold the servants
that have registered and, once counted, the one being registered, each once; there is
room for one more except between counting and growing; and for each program
point of the registering worker, where its slot and the copy of the table stand.
This part holds until the process comes down, in spite of SIGINT. `QueriesInv`: a
query holds the current array or a freed one, its count is at most the table's, and
it has asked exactly the servants in charge in the slots it has passed; it rests
on `SlotsKept`, that no step changes a slot in use. `RepliesComplete` is inductive
with these. `MemoryInv` says that until SIGINT only arrays older than the current one
are freed, and the current one only between `GrowFree` and `GrowInstall`, where no
registration reads it: what remains are the queries that hold an older array.
`NoOverflow` goes through the accesses one by one.

### The servant's threads

`ServantProcessProofs`, from `ServantAssumption`, for every set of connections, asked
at once or one after another, every table size and number of descriptors:

| Theorem | Property |
|---|---|
| `TypeCorrect` | `TypeOK` |
| `ThreadsAreRecorded` | `ThreadsRecorded` |
| `AnswersCounted` | `CountedBeforeAnswered` |
| `FaultsOnlyAfterSigint` | `FaultsExplained` |

The invariant adds to `TypeOK` that the table has room wherever main is about to
write to it and holds every thread but the one just started (`TableInv`), that a
connection waits, is in main's hand or has a thread (`PeerInv`), that the counter
is the number of threads past counting (`CountInv`), and where main stands when a
piece of memory is gone (`MemoryInv`). A SIGINT freezes main between two of its
steps, which is why the facts about the handler must hold at each of them.

### The client's barrier

`ClientBarrierProofs`, from `ClientAssumption`, for every number of requests, spurious
wake-ups and signals:

| Theorem | Property |
|---|---|
| `TypeCorrect` | `TypeOK` |
| `EarlyPassesAreSpurious` | `EarlyOnlyBySpuriousWake` |
| `RequestsLast` | `RequestsOutliveThreads` |
| `TogetherUnlessSpurious` | `SendTogether`, when `MaxSpurious = 0` |

The last one is the promise of the repository's README that `client_together`
refutes: it holds exactly of the runs of the program without a spurious wake-up.
The invariant adds what `arrived` counts, by which the last thread to come and nobody
earlier opens the barrier (`ArrivedCounts`), what main has learned of the threads by
creating and joining them (`MainInv`), and that a thread that is done has a result
(`ResultInv`).

### The dataset index

`EstateIndexProofs`, from `IndexAssumption`, for every set of types, cities and dates
and any number of transactions:

| Theorem | Property |
|---|---|
| `TypeCorrect` | `TypeOK` |
| `ListsSorted` | `DatesSorted` |
| `NodesFreed` | `NothingLeaks` |
| `QueriesCount` | `CountsMatch` |
| `LastTypeUncounted` | a query for the type loaded last finds nothing |

`CountsMatch` leaves the last type out, and `LastTypeUncounted` says what becomes of
it: the finding of `index_last_type` is no accident of one dataset. `IInv` has five
parts. `Typed`; `Linked`: some sequence of nodes is what a list's pointers run through
in both directions, in calendar order (`Chain`), which a walk along `next` from the
front reproduces; `Apart`: each type has one list, no two lists share a node and
every node is in one, without which an insertion into one list could break another;
`Stored`: a node holds as many transactions of each city as were loaded for its type
and date; and `Released`. `SplicedChain` says that a node put in at a proper place
leaves a chain, whatever the place; `FrontSplices` and `BackSplices` that the code's
pointer assignments do so, `ProperPosition` that the search finds such a place. A query sums over the nodes in its
range, and the sum is the number of transactions loaded since the nodes of a list have
different dates.

### The scanners

`TextScannersProofs`, from `ScannerAssumption`, for every set of lines and file names,
however they are written, any number of them and every capacity:

| Theorem | Property |
|---|---|
| `TypeCorrect` | `TypeOK` |
| `RequestsArrive` | `RequestArrives`, when no line has a `*` in it |
| `DamageStaysLocal` | `DamageIsLocal` |
| `FilesAreRead` | `FilesRead` |

`IInv` says of the scanner, between any two bytes, that its dates have been read in
order: a part of the second date is there only if the same part of the first one is
(`InOrder`, in `Scanner`). It says of the array that it holds requests with a type from the front
on and nothing else (`Filled`), until it is overrun. `ByteScanned` is the step of one
byte, `TextScanned` that of a line. For the second theorem `DecimalRead` shows that `atoi`
gives back what `%d` has printed, by induction on the number; `FirstDateScanned`,
`SecondDateScanned` and `MessageEnd` follow the reader through the pieces of a
message, and `MessageScanned` puts them together. A `*` in the type or the city would
end the message there, which is what `NoStar` excludes; the dates cannot hold one.

The last two compare the scanners with what a line means in words, and need first
where its words are. A piece is found by its rank among the beginnings of pieces:
`StartsInOrder`, `NoStartBetween` and `PieceAt` say that the pieces follow one another,
`NextAtOnce` that where one separator more has been passed the next piece
begins right behind it, `FewSeparators` that as many separators as gaps leave no
place for two side by side. So `RegularPlaces` gives the places of the words of a
regular line, `DateParts` those of the three numbers of a date. Along these
places `WordRun`, `BlankRun`, `DashRun`, `FirstDateRun` and `SecondDateRun` carry the
scanner byte after byte, from the first byte or, where the test for an empty
file has lost it, from the second; `LastWords` distinguishes the three ways
a regular line may end, in the year, in the city or in blanks, and `RegularScanned` is
the result: at the newline the scanner holds the request the line names.

`DamageStaysLocal` then rests on `NothingLeft`: a line that has made a request has
left the scanner `Fresh`, however wrong the request. `FilesAreRead` rests on two
invariants. `RequestsRead`: while all lines are regular or empty the scanner is
`Fresh` between lines and the array holds the requests of the lines in their order,
`Placed` being the place of one by the number of lines before it.
`DatasetRead`: while all lines of the dataset file are regular the reader rests
between lines with neither type nor street alive and has the estates of
the lines in their order (`Resting`); `RegularEstateRun` is its step.

### The composition

`ClusterProofs`, from `ClusterAssumption`, for every dataset, every set of ranges, every
number of servants, queries and starts:

| Theorem | Property |
|---|---|
| `PortsFollowRanges` | `BindFailsOnlyOnOverlap` |
| `ListenersHavePortsOfTheirOwn` | a part of `TypeOK` |
| `TypeCorrect` | `TypeOK` |
| `AnswersCount` | `AnswerIsCount` |
| `FaultsHaveCauses` | `FaultsExplained` |

The ports rest on `SharedPortOverlap`: the middle of a range lies in it, so that
two ranges with the same middle overlap. `AnswersCount` needs first what the operators
compute: that a pass of the bubble sort brings one more city to its place and the
passes together all of them, whatever the listing, so that the filter keeps the cities
of the range, each once; that a servant's answer is the sum over these; and that the
server reads of a registration what was sent when it has room for the cities. Then
`CInv`: where a servant stands it has a listing of its range; a record of the table
is what a servant that serves has sent, as long as none has terminated; and a query
that has not clashed is owed its own answer by the servant it waits for, and has added
up the counts of the records it has visited, none where the type asked about is
never counted; no later step changes the cities and servants of these records.
`FaultsHaveCauses` follows the same records to the accesses that may go wrong.

### Induction over data

tlapm cannot instantiate a theorem that takes an operator. `InductionLemmas`
states induction over sets and functions instead: a property is a set of naturals,
and a set of naturals that is not empty has a smallest element (`Smallest`,
`Induction`). A recursive function is a CHOOSE, and `BoundedRecursion` shows that
the function exists; a fold over a sequence is such a function (`FoldDefined`), an
invariant of its steps one of its result (`FoldTrace`). `SumAdd`, `SumRemove`,
`SumCongruent` and `SumOfSizes` are about sums over finite sets, and `RankOnce` and
`RankReached` about the order of the elements of a finite set of naturals.

### Only model-checked

The liveness properties (`QueuedIsServed`, `ShutdownCompletes`, `QueriesAnswered`,
`QuestionAnswered`, `SigintTerminates`, `ClientTerminates`, `QuerySettles`): fairness
is beyond the prover. Every safety invariant and action property of a passing run is
stated by a theorem; those of the runs that expect a violation are not true of the
code.

## 6. Not modelled, and why

* `pid.c`: not built, a program of its own. `ifNeedToResize`: never called. The
  growth of the list in `addDirectory`: it keeps the entries in their order.
* A SIGINT at a servant between `sigaction` and `sigprocmask`, when the handler runs
  with nothing to free yet; a server that is started again, which to a servant is
  a server that is not there, since servants register once.
* Reads and directory operations that fail: the programs print a message and exit,
  or take the rest as empty.
* Command lines, messages, failing `malloc`, failing `pthread_*` calls (the programs
  exit at once).
* Lines, words and messages longer than the buffers that hold them, lines of more than 127 blanks (`char count` of the client's scanner), and numbers beyond `int`:
  the lines of TextScanners and the records of Cluster fit.
* What a worker with a stale `c` in `buffer` asks the servants for when a connection
  closes before its first byte (`CloseEmpty` of Cluster): its answer goes to nobody.
* Half an answer: a clash may cut a number short or mix the digits of two. To the
  server the first is like nothing, since the `*` is missing, and the second is a wrong
  number like another query's.
* Pieces of a message: TCP may split it, but every reader reads one byte at a
  time up to `*` or the end, so that only its end matters.
* SIGPIPE. A process writes to a connection once, and the first write to a
  peer that has closed succeeds; only one to a connection already reset would end
  the writer. In RequestPool clients stay until they are answered.

## 7. Plan

1. *Done:* the core, RequestPool with its proofs; ServantTable, ServantProcess,
   ClientBarrier, EstateIndex and their runs.
2. *Done:* Dispatcher, as a PROPERTY of `pool` and as a theorem, the steps mapped
   one by one.
3. *Done:* the proofs of ClientBarrier and ServantProcess, and of ServantTable with
   `Serialised`.
4. *Done:* TextScanners and Cluster, the composition in which a query's answer is
   compared with the dataset.
5. *Done:* the proofs about the dataset index and the composition, `AnswerIsCount`
   included, and about the scanners, the messages between the programs and what a
   regular file gives (`FilesAreRead`, `DamageStaysLocal`).
6. Left: a refinement of Cluster's
   registration by ServantTable under `Serialised`, which would turn the argument of
   section 2 into a theorem; and an abstract barrier that ClientBarrier implements
   when no wake-up is spurious.
