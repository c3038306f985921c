---------------------------- MODULE EstateIndex ----------------------------
(***************************************************************************)
(* A servant's dataset in memory (dataOperations.c, typeLinkedList.c,      *)
(* dateEstateLinkedList.c, estateLinkedList.c): a list of types in the     *)
(* order of their first transaction, for each type a doubly linked list of *)
(* dates kept in ascending order, for each date a list of transactions, of *)
(* which only the city matters to a query.                                 *)
(*                                                                         *)
(* A date is <<day, month, year>>.  The nodes of all date lists live in    *)
(* one heap and point to each other by their index; 0 is NULL.             *)
(***************************************************************************)
EXTENDS Integers, Sequences, FiniteSets, SequencesExt

CONSTANTS
  Types, Cities, Dates,
  NoCity,       (* the query that names no city                            *)
  MaxLoads      (* bound: transactions in the dataset                      *)

ASSUME IndexAssumption ==
  /\ Dates \subseteq Nat \X Nat \X Nat
  /\ NoCity \notin Cities
  /\ MaxLoads \in Nat

VARIABLES
  dataset,      (* the list of types: [type, front, rear, size]            *)
  nodes,        (* the date nodes: [d, estates, next, back]                *)
  loaded,       (* history: the transactions read so far                   *)
  freed         (* the date nodes deleteTypeEstateLL has freed             *)

vars == <<dataset, nodes, loaded, freed>>

Null == 0

Init == dataset = <<>> /\ nodes = <<>> /\ loaded = <<>> /\ freed = {}

-----------------------------------------------------------------------------
(* compareDates                                                            *)
BIGGER == 1
SMALLER == -1
EQUAL == 0

Compare(x, y) == IF x > y THEN BIGGER ELSE IF x < y THEN SMALLER ELSE EQUAL

CompareDates(a, b) ==
  IF a[3] # b[3] THEN Compare(a[3], b[3])
  ELSE IF a[2] # b[2] THEN Compare(a[2], b[2])
  ELSE Compare(a[1], b[1])

-----------------------------------------------------------------------------
(* The nodes of a list in the order of its next pointers.                  *)
Forward(h, front) ==
  LET at[n \in 0..Len(h)] ==
        IF n = 0 THEN front ELSE IF at[n-1] = Null THEN Null ELSE h[at[n-1]].next
  IN [j \in 1..Cardinality({n \in 0..Len(h) : at[n] # Null}) |-> at[j-1]]

(* Inserting node e into a date list, whose heap is h.                     *)

(* Mutant: the node behind the point is not linked to the new one.         *)
AddDateEstateBack_NotLinked(h, point, e) ==
  [k \in DOMAIN h |->
     CASE k = e -> [h[k] EXCEPT !.next = point, !.back = h[point].back]
       [] k = point -> [h[k] EXCEPT !.back = e]
       [] OTHER -> h[k]]

AddDateEstateBack(h, point, e) ==
  [k \in DOMAIN h |->
     CASE k = e -> [h[k] EXCEPT !.next = point, !.back = h[point].back]
       [] k = point -> [h[k] EXCEPT !.back = e]
       [] k = h[point].back -> [h[k] EXCEPT !.next = e]
       [] OTHER -> h[k]]

AddDateEstateFront(h, point, e) ==
  [k \in DOMAIN h |->
     CASE k = e -> [h[k] EXCEPT !.next = h[point].next, !.back = point]
       [] k = point -> [h[k] EXCEPT !.next = e]
       [] k = h[point].next -> [h[k] EXCEPT !.back = e]
       [] OTHER -> h[k]]

(* Where the loop over the list stops: at the first date that is not       *)
(* smaller, or at the last.                                                *)
StopAt(h, front, d) ==
  LET list == Forward(h, front)
  IN list[Min({j \in DOMAIN list :
                 j = Len(list) \/ CompareDates(h[list[j]].d, d) # SMALLER})]

AddElementToProperPosition(h, de, d, e) ==
  LET iter == StopAt(h, de.front, d)
      before == CompareDates(h[iter].d, d) # SMALLER
      linked == IF before THEN AddDateEstateBack(h, iter, e)
                ELSE AddDateEstateFront(h, iter, e)
      behind == linked[de.front].back
  IN [heap |-> linked,
      list |-> [de EXCEPT !.front = IF behind # Null THEN behind ELSE @,
                          !.rear = IF before THEN @ ELSE e,
                          !.size = @ + 1]]

(* addDateEstate: a new node for a date the list does not have.            *)
AddDateEstate(h, de, d, estates) ==
  LET e == Len(h) + 1
      grown == Append(h, [d |-> d, estates |-> estates, next |-> Null, back |-> Null])
  IN IF de.rear = Null
     THEN [heap |-> grown, list |-> [de EXCEPT !.front = e, !.rear = e, !.size = 1]]
     ELSE AddElementToProperPosition(grown, de, d, e)

FindDate(h, front, d) ==
  LET list == Forward(h, front)
      equal == {j \in DOMAIN list : CompareDates(h[list[j]].d, d) = EQUAL}
  IN IF equal = {} THEN Null ELSE list[Min(equal)]

AddEstateToDatedLL(h, de, d, city) ==
  LET found == FindDate(h, de.front, d)
  IN IF found # Null
     THEN [heap |-> [h EXCEPT ![found].estates = Append(@, city)], list |-> de]
     ELSE AddDateEstate(h, de, d, <<city>>)

(* A transaction is added to the list of its type, one of those in known,   *)
(* or to a new list, which addTypeEstate puts at the end.                  *)
AddEstate(known, type, d, city) ==
  LET empty == [type |-> type, front |-> Null, rear |-> Null, size |-> 0]
      k == IF known # {} THEN CHOOSE k \in known : TRUE ELSE Len(dataset) + 1
      added == AddEstateToDatedLL(nodes, IF known # {} THEN dataset[k] ELSE empty,
                                  d, city)
  IN /\ freed = {} /\ Len(loaded) < MaxLoads
     /\ nodes' = added.heap
     /\ dataset' = IF known # {} THEN [dataset EXCEPT ![k] = added.list]
                   ELSE Append(dataset, added.list)
     /\ loaded' = Append(loaded, [type |-> type, d |-> d, city |-> city])
     /\ UNCHANGED freed

(* Mutant: only the first type of the list is compared with.               *)
AddEstateToTypeLL_FirstOnly(type, d, city) ==
  AddEstate({k \in DOMAIN dataset \cap {1} : dataset[k].type = type}, type, d, city)

(* addEstateToTypeLL, for each line of the dataset's files.                *)
AddEstateToTypeLL(type, d, city) ==
  AddEstate({k \in DOMAIN dataset : dataset[k].type = type}, type, d, city)

(* The dates of the list of the k-th type.                                 *)
DateList(k) == Forward(nodes, dataset[k].front)

(* Mutant: the first type of the list is not freed.                        *)
DeleteTypeEstateLL_SkipsFirst ==
  /\ nodes # <<>> /\ freed = {}
  /\ freed' = {Null} \cup UNION {ToSet(DateList(k)) : k \in DOMAIN dataset \ {1}}
  /\ UNCHANGED <<dataset, nodes, loaded>>

(* Null stands for the list itself.                                        *)
DeleteTypeEstateLL ==
  /\ nodes # <<>> /\ freed = {}
  /\ freed' = {Null} \cup UNION {ToSet(DateList(k)) : k \in DOMAIN dataset}
  /\ UNCHANGED <<dataset, nodes, loaded>>

Next ==
  \/ \E type \in Types, d \in Dates, city \in Cities : AddEstateToTypeLL(type, d, city)
  \/ DeleteTypeEstateLL

Spec == Init /\ [][Next]_vars

-----------------------------------------------------------------------------
(* Queries.                                                                *)

(* estateCount and estateCountWithCity                                     *)
EstateCount(estates, city) ==
  IF city = NoCity THEN Len(estates)
  ELSE Cardinality({j \in DOMAIN estates : estates[j] = city})

(* Mutant: the first date of the range is left out.                        *)
InRange_Open(d, d1, d2) ==
  CompareDates(d, d1) = BIGGER /\ CompareDates(d, d2) # BIGGER

InRange(d, d1, d2) ==
  CompareDates(d, d1) # SMALLER /\ CompareDates(d, d2) # BIGGER

(* dateEstateCount and dateEstateCountWithCity; the last node is treated   *)
(* after the loop in the same way as the others.                           *)
DateEstateCount(list, d1, d2, city) ==
  SumFunction([j \in DOMAIN list |->
                 IF InRange(nodes[list[j]].d, d1, d2)
                 THEN EstateCount(nodes[list[j]].estates, city) ELSE 0])

(* typeEstateCount and typeEstateCountWithCity: their loops run while there *)
(* is a next type, and the last type is not looked at.                     *)
TransactionCount(type, d1, d2, city) ==
  LET found == {k \in 1..Len(dataset)-1 : dataset[k].type = type}
  IN IF found = {} THEN 0
     ELSE DateEstateCount(DateList(CHOOSE k \in found : TRUE), d1, d2, city)

-----------------------------------------------------------------------------
(* The types; each type has one list, in the order of first loading.       *)
TypeOK ==
  /\ \A k \in DOMAIN dataset :
        /\ dataset[k].type \in Types
        /\ dataset[k].front \in DOMAIN nodes /\ dataset[k].rear \in DOMAIN nodes
        /\ dataset[k].size \in 1..Len(nodes)
  /\ \A k \in DOMAIN nodes :
        /\ nodes[k].d \in Dates /\ nodes[k].estates \in Seq(Cities) \ {<<>>}
        /\ nodes[k].next \in {Null} \cup DOMAIN nodes
        /\ nodes[k].back \in {Null} \cup DOMAIN nodes
  /\ IsInjective([k \in DOMAIN dataset |-> dataset[k].type])
  /\ Len(nodes) <= Len(loaded)
  /\ freed \subseteq {Null} \cup DOMAIN nodes

(* Calendar order, stated without the code's comparison.                   *)
Before(a, b) ==
  \/ a[3] < b[3]
  \/ a[3] = b[3] /\ (a[2] < b[2] \/ (a[2] = b[2] /\ a[1] < b[1]))

(* Each date list holds the dates loaded for its type, each once and in    *)
(* calendar order; the back pointers mirror the next pointers; and front,  *)
(* rear and size are those of the list.                                    *)
DatesSorted ==
  \A k \in DOMAIN dataset :
    LET list == DateList(k)
        date(j) == nodes[list[j]].d
    IN /\ \A j \in 1..Len(list)-1 :
            Before(date(j), date(j+1)) /\ nodes[list[j+1]].back = list[j]
       /\ nodes[list[1]].back = Null /\ list[Len(list)] = dataset[k].rear
       /\ dataset[k].size = Len(list)
       /\ {date(j) : j \in DOMAIN list} =
            {e.d : e \in {e \in ToSet(loaded) : e.type = dataset[k].type}}

(* What a query should count.                                              *)
ReferenceCount(type, d1, d2, city) ==
  Cardinality({j \in DOMAIN loaded :
                 /\ loaded[j].type = type /\ city \in {NoCity, loaded[j].city}
                 /\ ~Before(loaded[j].d, d1) /\ ~Before(d2, loaded[j].d)})

Queried(type) ==
  \A d1, d2 \in Dates : \A city \in Cities \cup {NoCity} :
    TransactionCount(type, d1, d2, city) = ReferenceCount(type, d1, d2, city)

(* A query counts the transactions of its type, dates (both included) and   *)
(* city, whatever order they were loaded in - for every type but the last.  *)
CountsMatch == \A k \in 1..Len(dataset)-1 : Queried(dataset[k].type)

(* Deleting the dataset frees every node it has allocated.                 *)
NothingLeaks == freed # {} => DOMAIN nodes \subseteq freed

(* What the system answers a query with: the number of transactions.  Not  *)
(* so for the type that was loaded last.                                   *)
EveryTypeCounted == \A type \in Types : Queried(type)
=============================================================================
