------------------------------ MODULE Cluster ------------------------------
(***************************************************************************)
(* The server, the servants and the clients together, from the start of a  *)
(* servant (servant.c main, directoryManager.c, socketManager.c) over its  *)
(* registration (readServant, addCityToServant) to the answer of a query   *)
(* (getRequestResultFromServant, sendServantToRequest).                    *)
(*                                                                         *)
(* What the other modules check in detail is one step here: a worker reads *)
(* a registration (ServantTable), a thread of a servant answers            *)
(* (ServantProcess) with what its dataset holds (EstateIndex), a SIGINT    *)
(* handler runs.  A city is a number, in the order of strcmp; a query is   *)
(* named by its city.  Of what those modules find, a servant that two      *)
(* queries ask at once and the type that is never counted are here too.    *)
(***************************************************************************)
EXTENDS Integers, Sequences, FiniteSets, SequencesExt

CONSTANTS
  Servants,
  Cities,        (* the directories of the dataset                         *)
  Transactions,  (* how many transactions of a city the queries are about  *)
  Ranges,        (* the ranges, -c lower-upper, a servant is started with  *)
  EndsWithType,  (* the ranges whose dataset, in the order it is loaded,   *)
                 (* brings up the type the queries are about as its last   *)
  Queries, NoCity,
  CityCapacity,  (* 256 in the code                                        *)
  MaxStarts,     (* bound: how often servants are started                  *)
  Hole,          (* an array element malloc has not initialised            *)
  Nobody

ASSUME ClusterAssumption ==
  /\ IsFiniteSet(Cities) /\ Cities \subseteq Nat
  /\ Transactions \in [Cities -> Nat]
  /\ Ranges # {} /\ EndsWithType \subseteq Ranges
  /\ \A r \in Ranges : {r.lower, r.upper} \subseteq Nat /\ r.lower <= r.upper
  /\ NoCity \notin Cities /\ Queries \subseteq Cities \cup {NoCity}
  /\ CityCapacity \in Nat \ {0} /\ MaxStarts \in Nat
  /\ Hole \notin Cities /\ Nobody \notin Servants /\ Nobody \notin Queries

VARIABLES
  pc,            (* what each servant does next                            *)
  range,         (* its arguments                                          *)
  mainDirList,   (* its cities, in the order it sends them                 *)
  pending,       (* servants with a SIGINT that waits to be unblocked      *)
  starts,
  lingering,     (* ports of terminated servants with old connections      *)
  server,
  incoming,      (* the registrations on their way                         *)
  servants,      (* the server's table                                     *)
  registering,   (* some worker has served a registration                  *)
  query,         (* the worker's locals for each query                     *)
  disturbed,     (* (history) a servant has terminated that had registered *)
  fault

startVars == <<range, mainDirList, pending, starts, lingering>>
serverVars == <<server, incoming, servants, registering>>
vars == <<pc, startVars, serverVars, query, disturbed, fault>>

(* A servant is "refused" when the server is not there, and in "cleanup"   *)
(* when it has freed its memory for that reason.                           *)
ServantPcs == {"off", "bind", "unblock", "connect", "send", "serve", "refused",
               "cleanup"}

Running == fault = "none"
Listening == {s \in Servants : pc[s] \notin {"off", "bind"}}

(* Mutant: the width of the range in place of its middle.                  *)
PortOf_Width(r) == 33500 + (r.upper - r.lower) \div 2 + 1

(* resetStructAndIncreasePort comes before the first bind.                 *)
PortOf(r) == 33500 + (r.lower + r.upper) \div 2 + 1
Port(s) == PortOf(range[s])

-----------------------------------------------------------------------------
(* directoryManager.c                                                      *)

Swap(list, j) == [list EXCEPT ![j] = list[j+1], ![j+1] = list[j]]

(* A pass of the bubble sort over the first n pairs.                       *)
Pass(list, n) ==
  FoldLeft(LAMBDA l, j : IF l[j] > l[j+1] THEN Swap(l, j) ELSE l,
           list, [j \in 1..n |-> j])

(* Mutant: the last pair of each pass is left out.                         *)
SortStringListAlphabetically_ShortPass(list) ==
  FoldLeft(LAMBDA l, i : Pass(l, Len(list) - i - 1), list, [i \in DOMAIN list |-> i])

SortStringListAlphabetically(list) ==
  FoldLeft(LAMBDA l, i : Pass(l, Len(list) - i), list, [i \in DOMAIN list |-> i])

FilterDatasetWithGivenRange(r, list) ==
  LET sorted == SortStringListAlphabetically(list)
  IN SubSeq(sorted, Max({r.lower, 1}), Min({r.upper, Len(list)}))

(* What main makes of a directory whose entries readdir gives in any order.*)
MainDirLists == [r \in Ranges |->
  {FilterDatasetWithGivenRange(r, list) : list \in SetToSeqs(Cities)}]

-----------------------------------------------------------------------------
(* What the server reads of a registration.                                *)

(* The array has twice its elements then, and so does cityNamesSize, which *)
(* is not their number; a city more would be written beyond its end.       *)
AddCityToServant(s, city) ==
  IF s.size >= CityCapacity THEN [s EXCEPT !.overflow = TRUE]
  ELSE LET size == s.size + 1
       IN [s EXCEPT !.cityNames[size] = city,
                    !.size = IF size >= CityCapacity THEN 2 * size ELSE size]

ReadServant(m) ==
  LET s == [port |-> m.port, size |-> 0, overflow |-> FALSE, from |-> m.from,
            cityNames |-> [k \in 1..2*CityCapacity |-> Hole]]
  IN FoldLeft(AddCityToServant, s, m.cities)

(* What goes wrong when its port, first and last city are printed.         *)
Problem(m) ==
  LET s == ReadServant(m)
  IN CASE m.from = Nobody -> "nothing sent"
       [] m.from # Nobody /\ s.size = 0 -> "no city"
       [] m.from # Nobody /\ s.size > 0
            /\ (s.overflow \/ s.cityNames[s.size] = Hole) -> "many cities"
       [] OTHER -> "none"

-----------------------------------------------------------------------------
(* At a servant, sent tells whose answer a query will be sent: its own,    *)
(* that of another query there, or Nobody's when line is empty.  It has    *)
(* clashed (history) when that was not its own at some time.               *)
New == [at |-> "new", table |-> 0, i |-> 1, result |-> 0, servant |-> Nobody,
        sent |-> Nobody, clashed |-> FALSE]

Init ==
  /\ pc = [s \in Servants |-> "off"]
  /\ range = [s \in Servants |-> CHOOSE r \in Ranges : TRUE]
  /\ mainDirList = [s \in Servants |-> <<>>]
  /\ pending = {} /\ starts = 0 /\ lingering = {}
  /\ server = "new" /\ incoming = <<>> /\ servants = <<>> /\ registering = FALSE
  /\ query = [q \in Queries |-> New]
  /\ disturbed = FALSE /\ fault = "none"

ServantGoes(s, from, to) ==
  Running /\ pc[s] = from /\ pc' = [pc EXCEPT ![s] = to]

(* A servant that terminates closes its connections; if somebody waits for *)
(* its answer the port may be left in TIME_WAIT.                           *)
Terminates(s) ==
  LET waiting == {q \in Queries : query[q].servant = s}
  IN /\ Running /\ pc' = [pc EXCEPT ![s] = "off"]
     /\ pending' = pending \ {s}
     /\ lingering' = IF waiting = {} THEN lingering ELSE lingering \cup {Port(s)}
     /\ query' = [q \in Queries |-> IF q \in waiting
                     THEN [query[q] EXCEPT !.servant = Nobody] ELSE query[q]]
     /\ disturbed' = (disturbed \/ pc[s] = "serve")
     /\ UNCHANGED <<range, mainDirList, starts, server, servants, registering>>

-----------------------------------------------------------------------------
(* A servant, from its start to its registration.                          *)

(* Mutant: an empty list of cities is not printed.                         *)
AfterListing_Silent(list) == "bind"

(* With no city in its range it prints mainDirList[-1], and crashes.       *)
AfterListing(list) == IF list = <<>> THEN "off" ELSE "bind"

Start(s, r) ==
  /\ starts < MaxStarts /\ starts' = starts + 1
  /\ range' = [range EXCEPT ![s] = r]
  /\ \E list \in MainDirLists[r] :
       /\ mainDirList' = [mainDirList EXCEPT ![s] = list]
       /\ ServantGoes(s, "off", AfterListing(list))
  /\ UNCHANGED <<pending, lingering, serverVars, query, disturbed, fault>>

(* bind never returns EADDRINUSE, so that a port in use ends the servant.  *)
Bind(s) ==
  LET inUse == Port(s) \in {Port(t) : t \in Listening}
  IN /\ pc[s] = "bind"
     /\ \/ /\ ~inUse /\ ServantGoes(s, "bind", "unblock")
           /\ UNCHANGED <<startVars, serverVars, query, disturbed>>
        \/ /\ inUse \/ Port(s) \in lingering
           /\ Terminates(s) /\ UNCHANGED incoming
  /\ UNCHANGED fault

Unblock(s) ==
  /\ pc[s] = "unblock"
  /\ \/ /\ s \notin pending /\ ServantGoes(s, "unblock", "connect")
        /\ UNCHANGED <<startVars, serverVars, query, disturbed>>
     \/ s \in pending /\ Terminates(s) /\ UNCHANGED incoming
  /\ UNCHANGED fault

Connect(s) ==
  /\ ServantGoes(s, "connect", IF server = "up" THEN "send" ELSE "refused")
  /\ UNCHANGED <<startVars, serverVars, query, disturbed, fault>>

(* Mutant: the port is sent as it was before it was increased.             *)
Registration_PortIndex(s) ==
  [from |-> s, port |-> Port(s) - 1, cities |-> mainDirList[s]]

Registration(s) == [from |-> s, port |-> Port(s), cities |-> mainDirList[s]]
Nothing == [from |-> Nobody, port |-> 0, cities |-> <<>>]

Arrives(m) ==
  incoming' = IF server = "up" THEN Append(incoming, m) ELSE incoming

Send(s) ==
  /\ ServantGoes(s, "send", "serve")
  /\ Arrives(Registration(s))
  /\ UNCHANGED <<startVars, server, servants, registering, query, disturbed, fault>>

(* deleteTypeEstateLL, freeDirectoryList, free ...                         *)
CleanUp(s) ==
  /\ ServantGoes(s, "refused", "cleanup")
  /\ UNCHANGED <<startVars, serverVars, query, disturbed, fault>>

(* ... close, exit                                                         *)
Exit(s) ==
  pc[s] = "cleanup" /\ Terminates(s) /\ UNCHANGED <<incoming, fault>>

(* SIGINT: it waits while it is blocked; the handler frees what the        *)
(* clean-up may have freed already.                                        *)
Interrupt(s) ==
  \/ /\ Running /\ pc[s] \in {"bind", "unblock"}
     /\ pending' = pending \cup {s}
     /\ UNCHANGED <<pc, range, mainDirList, starts, lingering, serverVars, query,
                    disturbed, fault>>
  \/ /\ pc[s] \in {"connect", "serve", "refused"}
     /\ Terminates(s) /\ UNCHANGED <<incoming, fault>>
  \/ /\ pc[s] = "send"
     /\ Terminates(s) /\ Arrives(Nothing) /\ UNCHANGED fault
  \/ /\ Running /\ pc[s] = "cleanup"
     /\ fault' = "double free"
     /\ UNCHANGED <<pc, startVars, serverVars, query, disturbed>>

-----------------------------------------------------------------------------
(* The server.                                                             *)

StartServer ==
  /\ Running /\ server = "new" /\ server' = "up"
  /\ UNCHANGED <<pc, startVars, incoming, servants, registering, query, disturbed,
                 fault>>

(* SIGINT, or a worker that exits the process.                             *)
ServerTerminates ==
  /\ Running /\ server = "up" /\ server' = "down"
  /\ incoming' = <<>> /\ servants' = <<>>
  /\ query' = [q \in Queries |-> IF query[q].at = "answered" THEN query[q]
                                 ELSE [New EXCEPT !.at = "lost"]]
  /\ UNCHANGED <<pc, startVars, registering, disturbed, fault>>

(* A connection that ends before its first byte is taken for what the      *)
(* worker has served before, whose kind is still in buffer.                *)
RegisterServant(k) ==
  LET m == incoming[k]
  IN /\ Running
     /\ m = Nothing => registering
     /\ incoming' = RemoveAt(incoming, k)
     /\ registering' = TRUE
     /\ IF Problem(m) = "none"
        THEN servants' = Append(servants, ReadServant(m)) /\ UNCHANGED fault
        ELSE fault' = Problem(m) /\ UNCHANGED servants
     /\ UNCHANGED <<pc, startVars, server, query, disturbed>>

(* Or nothing is in buffer, and the connection is closed.  When the worker *)
(* has served a query before, it first answers one that nobody has asked:  *)
(* to write that answer may end the server, see ServerTerminates; what it  *)
(* asks the servants for it is left out.                                   *)
CloseEmpty(k) ==
  /\ Running /\ incoming[k] = Nothing
  /\ incoming' = RemoveAt(incoming, k)
  /\ UNCHANGED <<pc, startVars, server, servants, registering, query, disturbed,
                 fault>>

QueryGoes(q, from, new) ==
  /\ Running /\ query[q].at = from
  /\ query' = [query EXCEPT ![q] = new]
  /\ UNCHANGED <<pc, startVars, disturbed, fault>>

Add(q, n) ==
  [query[q] EXCEPT !.at = "visit", !.i = @ + 1, !.result = @ + n,
                   !.servant = Nobody, !.sent = Nobody]

BeginQuery(q) ==
  /\ server = "up"
  /\ QueryGoes(q, "new", [New EXCEPT !.at = "visit", !.table = Len(servants)])
  /\ UNCHANGED serverVars

InCharge(record, q) ==
  q = NoCity \/ \E j \in 1..record.size : record.cityNames[j] = q

Visit(q) ==
  LET i == query[q].i
      there == {s \in Listening : Port(s) = servants[i].port}
  IN /\ i <= query[q].table
     /\ \/ ~InCharge(servants[i], q) /\ QueryGoes(q, "visit", Add(q, 0))
        \/ InCharge(servants[i], q) /\ there = {} /\ QueryGoes(q, "visit", Add(q, -1))
        \/ /\ InCharge(servants[i], q)
           /\ \E s \in there :
                QueryGoes(q, "visit", [query[q] EXCEPT !.at = "await", !.servant = s,
                                                       !.sent = q])
     /\ UNCHANGED serverVars

(* The transactions of a query in the lists of a servant.                  *)
CountOf(cities, q) ==
  SumFunction([k \in DOMAIN cities |->
                 IF q \in {NoCity, cities[k]} THEN Transactions[cities[k]] ELSE 0])

(* transactionCount and transactionCountWithCity: the loop over the types  *)
(* stops before the last one.                                              *)
TransactionCount(s, q) ==
  IF range[s] \in EndsWithType THEN 0 ELSE CountOf(mainDirList[s], q)

(* Between the time a thread of a servant formats its answer in the global *)
(* line and the time it writes it, another thread empties line or formats  *)
(* its own answer there (one that is cut short is sent without its end,    *)
(* which is like nothing; a mixture of digits is like the other answer).   *)
Clash(q) ==
  LET s == query[q].servant
  IN /\ s # Nobody /\ pc[s] = "serve"
     /\ \E p \in Queries \ {q} :
          /\ query[p].at = "await" /\ query[p].servant = s
          /\ \E sent \in {p, Nobody} :
               QueryGoes(q, "await", [query[q] EXCEPT !.sent = sent, !.clashed = TRUE])
     /\ UNCHANGED serverVars

(* Mutant: the server waits for the end of the connection, and a servant   *)
(* never closes the descriptor that accept has given it.                   *)
Reply_ToEof(q) ==
  LET s == query[q].servant
  IN /\ s # Nobody /\ pc[s] = "off"
     /\ QueryGoes(q, "await", Add(q, TransactionCount(s, q)))
     /\ UNCHANGED serverVars

(* With nothing in line a thread writes nothing, and closes only the       *)
(* descriptor that dup has given it: the server goes on reading.           *)
Reply(q) ==
  LET s == query[q].servant
      p == query[q].sent
  IN /\ s # Nobody /\ pc[s] = "serve" /\ p # Nobody
     /\ QueryGoes(q, "await", Add(q, TransactionCount(s, p)))
     /\ UNCHANGED serverVars

(* The connection was closed: atoi of nothing; or reset, see ServerTerminates. *)
CutOff(q) ==
  /\ query[q].servant = Nobody
  /\ QueryGoes(q, "await", Add(q, 0)) /\ UNCHANGED serverVars

Answer(q) ==
  /\ query[q].i > query[q].table
  /\ QueryGoes(q, "visit", [query[q] EXCEPT !.at = "answered"])
  /\ UNCHANGED serverVars

-----------------------------------------------------------------------------
Servant(s) ==
  Bind(s) \/ Unblock(s) \/ Connect(s) \/ Send(s) \/ CleanUp(s) \/ Exit(s)

HandleServant == \E k \in DOMAIN incoming : RegisterServant(k) \/ CloseEmpty(k)

HandleClientRequest(q) == Visit(q) \/ Reply(q) \/ CutOff(q) \/ Answer(q)

Queried(q) == BeginQuery(q) \/ Clash(q) \/ HandleClientRequest(q)

Next ==
  \/ \E s \in Servants : \/ \E r \in Ranges : Start(s, r)
                         \/ Servant(s) \/ Interrupt(s)
  \/ StartServer \/ ServerTerminates \/ HandleServant
  \/ \E q \in Queries : Queried(q)

Spec == Init /\ [][Next]_vars

(* Processes and threads are scheduled; nobody has to start them, to ask,  *)
(* or to press Ctrl-C, and no two threads have to clash.                   *)
FairSpec ==
  /\ Spec
  /\ \A s \in Servants : WF_vars(Servant(s))
  /\ \A q \in Queries : WF_vars(HandleClientRequest(q))

-----------------------------------------------------------------------------
(* The types; no two servants listen on one port, and the server knows a   *)
(* servant by the port it listens on until it terminates.                  *)
TypeOK ==
  /\ pc \in [Servants -> ServantPcs] /\ range \in [Servants -> Ranges]
  /\ mainDirList \in [Servants -> Seq(Cities)]
  /\ pending \subseteq Servants /\ starts \in 0..MaxStarts
  /\ lingering \subseteq {PortOf(r) : r \in Ranges}
  /\ server \in {"new", "up", "down"} /\ registering \in BOOLEAN
  /\ \A q \in Queries : query[q].at \in {"new", "visit", "await", "answered", "lost"}
  /\ \A s, t \in Listening : Port(s) = Port(t) => s = t
  /\ ~disturbed => \A k \in DOMAIN servants :
       pc[servants[k].from] = "serve" /\ servants[k].port = Port(servants[k].from)

(* What a range of positions in the sorted dataset stands for, and the     *)
(* transactions a servant with that range has to answer a query with.      *)
Position(c) == Cardinality({d \in Cities : d <= c})

CitiesIn(r) == {c \in Cities : Position(c) \in r.lower..r.upper}

RangeCount(r, q) ==
  IF r \in EndsWithType THEN 0
  ELSE SumFunctionOnSet(Transactions, {c \in CitiesIn(r) : q \in {NoCity, c}})

(* As long as no registered servant has terminated, the answer to a query  *)
(* is the number of transactions of its city, or of all cities, in the     *)
(* ranges of the servants that were registered when it began, in whatever  *)
(* order their directories were listed and they connected, other queries   *)
(* at other servants meanwhile or not.  Two exceptions: the query was at a *)
(* servant together with another one and their answers clashed in line;    *)
(* and a servant whose last type is the one asked about counts none.       *)
AnswerIsCount ==
  \A q \in Queries :
    query[q].at = "answered" /\ server = "up" /\ ~disturbed /\ ~query[q].clashed =>
      query[q].result =
        SumFunction([k \in 1..query[q].table |->
                       RangeCount(range[servants[k].from], q)])

(* Servants whose ranges do not overlap get different ports: bind ends a   *)
(* servant only if it overlaps another, or because of an old connection.   *)
BindFailsOnlyOnOverlap ==
  [][\A s \in Servants :
       pc[s] = "bind" /\ pc'[s] = "off" =>
         \/ Port(s) \in lingering
         \/ \E t \in Listening : /\ range[t].lower <= range[s].upper
                                 /\ range[s].lower <= range[t].upper]_vars

(* Memory is misused only for a servant with as many cities as the server  *)
(* has room for, by a worker whose peer was interrupted before it sent     *)
(* anything, and by SIGINT in the clean-up of a servant that was refused;  *)
(* a servant without a city crashes before the server hears of it.         *)
FaultsExplained ==
  [][/\ fault' # "no city"
     /\ fault' = "many cities" =>
          \E k \in DOMAIN incoming : Len(incoming[k].cities) >= CityCapacity
     /\ fault' = "nothing sent" => registering /\ Nothing \in ToSet(incoming)
     /\ fault' = "double free" => \E s \in Servants : pc[s] = "cleanup"]_vars

(* The server waits for servants, a servant for nobody: every query gets   *)
(* an answer while the server is there, unless another query was at the    *)
(* same servant and emptied the line its answer was in.                    *)
QuerySettles ==
  \A q \in Queries :
    query[q].at = "visit" ~> \/ query[q].at \in {"answered", "lost"}
                             \/ query[q].at = "await" /\ query[q].sent = Nobody
                             \/ ~Running
=============================================================================
