---------------------------- MODULE TextScanners ----------------------------
(***************************************************************************)
(* What the programs read one byte at a time: the client its request file  *)
(* (readFileAndCreateRequests, createReq, resizeRequests), the server and  *)
(* the servants a request (readRequest), a servant the files of its        *)
(* dataset (isValidDate, getDate, readFileAndFillDataset).                 *)
(*                                                                         *)
(* A text is a sequence of tokens: a digit, a blank, "-", "*", a newline,  *)
(* or a piece of a word, which the scanners treat like any character.      *)
(***************************************************************************)
EXTENDS Integers, Sequences, FiniteSets, SequencesExt

CONSTANTS
  WordParts,        (* pieces of words that are not digits                 *)
  RequestLines,     (* lines the user may write in the request file        *)
  FileNames,        (* names of files in a city's directory                *)
  EstateLines,      (* lines of these files                                *)
  MaxLines,         (* bound: lines of both files together                 *)
  requestCapacity,  (* 255 in the code                                     *)
  Hole              (* an array element malloc has not initialised         *)

Digit == <<"0", "1", "2", "3", "4", "5", "6", "7", "8", "9">>
Digits == ToSet(Digit)

Token == Digits \cup {" ", "-", "*", "\n"} \cup WordParts

Dates == [day : Int, month : Int, year : Int]
Request == [type : Seq(Token), d1 : Dates, d2 : Dates, city : Seq(Token)]

ASSUME ScannerAssumption ==
  /\ requestCapacity \in Nat \ {0} /\ MaxLines \in Nat
  /\ RequestLines \cup EstateLines \subseteq Seq(Token \ {"\n"})
  /\ FileNames \subseteq Seq(Token)
  /\ Hole \notin Request

VARIABLES
  requestFile,  (* the terminated lines the client has read                *)
  eof,          (* it has come to the end, perhaps in the middle of a line *)
  client,       (* the scanner and the array of requests                   *)
  made,         (* (history) the last line has made a request              *)
  fileName,     (* the dataset file the servant reads, or <<>>             *)
  estateFile,   (* the terminated lines it has read                        *)
  servant       (* the locals of readFileAndFillDataset and the dataset    *)

clientVars == <<requestFile, eof, client, made>>
servantVars == <<fileName, estateFile, servant>>
vars == <<clientVars, servantVars>>

-----------------------------------------------------------------------------
(* The number digits stand for.                                            *)
Number(s) ==
  FoldLeft(LAMBDA n, b : 10 * n + (CHOOSE k \in 1..10 : Digit[k] = b) - 1, 0, s)

(* atoi: the number the text begins with, 0 if it begins with none.        *)
AtoI(s) ==
  Number(SubSeq(s, 1, Max({k \in 0..Len(s) : \A j \in 1..k : s[j] \in Digits})))

(* %d                                                                      *)
Decimal(n) ==
  LET digits[m \in 0..(IF n < 0 THEN -n ELSE n)] ==
        IF m < 10 THEN <<Digit[m + 1]>>
        ELSE Append(digits[m \div 10], Digit[(m % 10) + 1])
  IN IF n < 0 THEN <<"-">> \o digits[-n] ELSE digits[n]

NoDate == [day |-> -1, month |-> -1, year |-> -1]

-----------------------------------------------------------------------------
(* The client's scanner: the locals of readFileAndCreateRequests. Nothing  *)
(* but a line that makes a request resets them.                            *)

Fresh == [line |-> <<>>, count |-> 0, dateCount |-> 0, type |-> <<>>,
          city |-> <<>>, d1 |-> NoDate, d2 |-> NoDate]

SetYear(c) ==
  LET done == [c EXCEPT !.line = <<>>, !.dateCount = 0]
  IN IF c.d1.year = -1 THEN [done EXCEPT !.d1.year = AtoI(c.line)]
                       ELSE [done EXCEPT !.d2.year = AtoI(c.line)]

ReadBlank(c) ==
  LET d == CASE c.count = 1 -> [c EXCEPT !.type = c.line, !.line = <<>>]
             [] c.count \in {2, 3} -> SetYear(c)
             [] c.count = 4 -> [c EXCEPT !.city = c.line, !.line = <<>>]
             [] OTHER -> [c EXCEPT !.line = <<>>]
  IN [d EXCEPT !.count = @ + 1]

ReadDash(c) ==
  LET n == AtoI(c.line)
      d == CASE c.dateCount = 0 /\ c.d1.day = -1 -> [c EXCEPT !.d1.day = n]
             [] c.dateCount = 0 /\ c.d1.day # -1 -> [c EXCEPT !.d2.day = n]
             [] c.dateCount = 1 /\ c.d1.month = -1 -> [c EXCEPT !.d1.month = n]
             [] c.dateCount = 1 /\ c.d1.month # -1 -> [c EXCEPT !.d2.month = n]
             [] OTHER -> c
  IN [d EXCEPT !.dateCount = @ + 1, !.line = <<>>]

CreateReq(c) == [type |-> c.type, d1 |-> c.d1, d2 |-> c.d2, city |-> c.city]

(* resizeRequests doubles requestSize, where requestCapacity is meant.     *)
ResizeRequests(c) ==
  [c EXCEPT !.requests = [i \in 0..2*c.requestSize-1 |->
                            IF i < c.requestSize THEN c.requests[i] ELSE Hole],
            !.requestSize = 2 * @]

(* Mutant: the array is grown one request too late.                        *)
Full_OffByOne(c) == c.requestSize > requestCapacity

Full(c) == c.requestSize >= requestCapacity

(* requests[requestSize++]=temp                                            *)
AddRequest(c, req) ==
  LET room == IF Full(c) THEN ResizeRequests(c) ELSE c
      k == room.requestSize
  IN IF k \in DOMAIN room.requests
     THEN [room EXCEPT !.requests[k] = req, !.requestSize = k + 1]
     ELSE [room EXCEPT !.overflow = TRUE]

(* The newline ends the last word of the line.                             *)
EndWord(scan) ==
  CASE scan.line = <<>> -> scan
    [] scan.line # <<>> /\ scan.count \in {2, 3} -> SetYear(scan)
    [] OTHER -> [scan EXCEPT !.city = scan.line]

(* after: what the scanner is afterwards.                                  *)
EndLine(c, after) ==
  IF c.scan.type = <<>> THEN c
  ELSE [AddRequest(c, CreateReq(EndWord(c.scan))) EXCEPT !.scan = after]

(* Mutant: the dates are not reset to -1.                                  *)
ReadNewline_KeepsDates(c) ==
  EndLine(c, [Fresh EXCEPT !.d1 = EndWord(c.scan).d1, !.d2 = EndWord(c.scan).d2])

(* Mutant: count is not reset.                                             *)
ReadNewline_KeepsCount(c) == EndLine(c, [Fresh EXCEPT !.count = c.scan.count])

ReadNewline(c) == EndLine(c, Fresh)

(* One byte of a line.                                                     *)
ScanLine(scan, b) ==
  CASE b = " " -> ReadBlank(scan)
    [] b = "-" -> ReadDash(scan)
    [] OTHER -> [scan EXCEPT !.line = Append(@, b)]

(* One byte of the request file, while nothing has been overrun.           *)
ScanRequestFile(c, b) ==
  IF c.overflow THEN c
  ELSE IF b = "\n" THEN ReadNewline(c)
  ELSE [c EXCEPT !.scan = ScanLine(@, b)]

-----------------------------------------------------------------------------
(* A request on its way. The kind that comes first, 'c', has been read.    *)

Date(d) == Decimal(d.day) \o <<"-">> \o Decimal(d.month) \o <<"-">> \o Decimal(d.year)

Message(q) ==
  q.type \o <<" ">> \o Date(q.d1) \o <<" ">> \o Date(q.d2) \o <<" ">>
    \o (IF q.city = <<>> THEN <<"*">> ELSE q.city \o <<" ", "*">>)

(* A blank after the type or the year of a date.  next: what dateCount is  *)
(* after the first year.                                                   *)
RequestBlank(q, next) ==
  LET d == CASE q.type = <<>> -> [q EXCEPT !.type = q.line]
             [] q.type # <<>> /\ q.dateCount = 2 /\ q.d1.year = -1 ->
                  [q EXCEPT !.d1.year = AtoI(q.line), !.dateCount = next]
             [] q.type # <<>> /\ q.dateCount = 2 /\ q.d1.year # -1 ->
                  [q EXCEPT !.d2.year = AtoI(q.line), !.dateCount = 3]
             [] OTHER -> [q EXCEPT !.city = q.line, !.done = TRUE]
  IN [d EXCEPT !.line = <<>>]

(* Mutant: dateCount is not reset after the first date.                    *)
ReadRequestBlank_KeepsCount(q) == RequestBlank(q, 3)

ReadRequestBlank(q) == RequestBlank(q, 0)

ReadRequestDash(q) ==
  LET n == AtoI(q.line)
      d == CASE q.dateCount = 0 /\ q.d1.day = -1 -> [q EXCEPT !.d1.day = n]
             [] q.dateCount = 0 /\ q.d1.day # -1 -> [q EXCEPT !.d2.day = n]
             [] q.dateCount = 1 /\ q.d1.month = -1 -> [q EXCEPT !.d1.month = n]
             [] OTHER -> [q EXCEPT !.d2.month = n]
  IN IF q.dateCount \in {0, 1}
     THEN [d EXCEPT !.dateCount = @ + 1, !.line = <<>>] ELSE q

(* One byte of a request.  After the city, '*' itself is never read.       *)
ScanRequest(q, b) ==
  CASE q.done -> q
    [] ~q.done /\ b = " " -> ReadRequestBlank(q)
    [] ~q.done /\ b = "-" -> ReadRequestDash(q)
    [] ~q.done /\ b = "*" -> [q EXCEPT !.done = TRUE]
    [] OTHER -> [q EXCEPT !.line = Append(@, b)]

ReadRequest(text) ==
  LET start == [line |-> <<>>, type |-> <<>>, city |-> <<>>, d1 |-> NoDate,
                d2 |-> NoDate, dateCount |-> 0, done |-> FALSE]
  IN CreateReq(FoldLeft(ScanRequest, start, text))

-----------------------------------------------------------------------------
(* The files of a dataset.                                                 *)

IsValidDate(name) ==
  /\ ToSet(name) \subseteq Digits \cup {"-"}
  /\ Cardinality({k \in DOMAIN name : name[k] = "-"}) = 2
  /\ name # <<>> /\ name[Len(name)] \in Digits

(* Where the pieces of s between separators begin, where the k-th does,    *)
(* where the one that begins at a ends; strtok too passes over empty ones. *)
Starts(s, sep) == {k \in DOMAIN s : s[k] # sep /\ (k = 1 \/ s[k-1] = sep)}

Start(s, sep, k) ==
  CHOOSE a \in Starts(s, sep) : Cardinality({b \in Starts(s, sep) : b <= a}) = k

End(s, sep, a) == Max({j \in a..Len(s) : \A m \in a..j : s[m] # sep})

Pieces(s, sep) ==
  [k \in 1..Cardinality(Starts(s, sep)) |->
     SubSeq(s, Start(s, sep, k), End(s, sep, Start(s, sep, k)))]

GetDate(name) ==
  LET p == Pieces(name, "-")
  IN [day |-> AtoI(p[1]), month |-> AtoI(p[2]), year |-> AtoI(p[3])]

(* Words are kept in memory that is freed at the end of each line: live    *)
(* says of type and street that they point to such memory.                 *)
NoEstates == [date |-> NoDate, value |-> <<>>, count |-> 0, transactionId |-> -1, type |-> <<>>,
              street |-> <<>>, surface |-> 0, live |-> {}, estates |-> <<>>,
              fault |-> FALSE]

(* A dead pointer is read by addEstateToTypeLL and freed a second time.    *)
AddEstate(s, live) ==
  IF s.live # {"type", "street"} THEN [s EXCEPT !.fault = TRUE]
  ELSE [s EXCEPT !.estates = Append(@,
                     [id |-> s.transactionId, type |-> s.type, street |-> s.street,
                      surface |-> s.surface, price |-> AtoI(s.value)]),
                 !.live = live, !.value = <<>>, !.count = 0]

EstateNewline(s) == AddEstate(s, {})

EstateBlank(s) ==
  LET t == CASE s.count = 0 -> [s EXCEPT !.transactionId = AtoI(s.value)]
             [] s.count = 1 -> [s EXCEPT !.type = s.value, !.live = @ \cup {"type"}]
             [] s.count = 2 -> [s EXCEPT !.street = s.value, !.live = @ \cup {"street"}]
             [] s.count = 3 -> [s EXCEPT !.surface = AtoI(s.value)]
             [] OTHER -> s
  IN [t EXCEPT !.value = <<>>, !.count = @ + 1]

ScanEstateFile(s, b) ==
  CASE s.fault -> s
    [] ~s.fault /\ b = "\n" -> EstateNewline(s)
    [] ~s.fault /\ b = " " -> EstateBlank(s)
    [] OTHER -> [s EXCEPT !.value = Append(@, b)]

-----------------------------------------------------------------------------
Init ==
  /\ requestFile = <<>> /\ eof = FALSE /\ made = FALSE
  /\ client = [requests |-> [k \in 0..requestCapacity-1 |-> Hole],
               requestSize |-> 0, overflow |-> FALSE, scan |-> Fresh]
  /\ fileName = <<>> /\ estateFile = <<>> /\ servant = NoEstates

(* The test for an empty file reads, and loses, the first byte.            *)
Rest(text) == IF requestFile = <<>> THEN Tail(text) ELSE text

ReadRequestLine(l) ==
  /\ ~eof /\ ~client.overflow
  /\ Len(requestFile) + Len(estateFile) < MaxLines
  /\ requestFile' = Append(requestFile, l)
  /\ client' = FoldLeft(ScanRequestFile, client, Rest(Append(l, "\n")))
  /\ made' = (client'.requestSize > client.requestSize)
  /\ UNCHANGED <<eof, servantVars>>

(* A last line without a newline makes no request.                         *)
ReadLastLine(l) ==
  /\ ~eof /\ ~client.overflow /\ l # <<>>
  /\ eof' = TRUE
  /\ client' = FoldLeft(ScanRequestFile, client, Rest(l))
  /\ UNCHANGED <<requestFile, made, servantVars>>

(* readAllDataFromDir: other files are passed over; getDate reads through  *)
(* NULL when one of the three pieces is empty.                             *)
OpenFile(name) ==
  /\ fileName = <<>> /\ IsValidDate(name)
  /\ fileName' = name
  /\ servant' = IF Len(Pieces(name, "-")) = 3
                THEN [servant EXCEPT !.date = GetDate(name)]
                ELSE [servant EXCEPT !.fault = TRUE]
  /\ UNCHANGED <<clientVars, estateFile>>

ReadEstateLine(l) ==
  /\ fileName # <<>> /\ ~servant.fault
  /\ Len(requestFile) + Len(estateFile) < MaxLines
  /\ estateFile' = Append(estateFile, l)
  /\ servant' = FoldLeft(ScanEstateFile, servant, Append(l, "\n"))
  /\ UNCHANGED <<clientVars, fileName>>

Next ==
  \/ \E l \in RequestLines : ReadRequestLine(l) \/ ReadLastLine(l)
  \/ \E name \in FileNames : OpenFile(name)
  \/ \E l \in EstateLines : ReadEstateLine(l)

Spec == Init /\ [][Next]_vars

-----------------------------------------------------------------------------
(* What the lines say, in words.                                           *)

Words(l) == Pieces(l, " ")

IsDate(w) == IsValidDate(w) /\ Len(Pieces(w, "-")) = 3

IsRequest(l) == Len(Words(l)) \in {4, 5} /\ IsDate(Words(l)[3]) /\ IsDate(Words(l)[4])

RequestOf(l) ==
  LET w == Words(l)
  IN [type |-> w[2], d1 |-> GetDate(w[3]), d2 |-> GetDate(w[4]),
      city |-> IF Len(w) = 5 THEN w[5] ELSE <<>>]

BlanksBefore(l, k) == Cardinality({j \in 1..Start(l, " ", k)-1 : l[j] = " "})

(* The lines that are read as they are meant: one blank behind each of the *)
(* first three words; one behind the second date, or no blank at the end   *)
(* of the line; no "-" in a word.                                          *)
Regular(l) ==
  /\ IsRequest(l) /\ Len(Words(l)[1]) > 1
  /\ \A k \in 1..4 : BlanksBefore(l, k) = k - 1
  /\ Len(Words(l)) = 5 => BlanksBefore(l, 5) = 4 \/ l[Len(l)] # " "
  /\ \A k \in DOMAIN Words(l) \ {3, 4} : "-" \notin ToSet(Words(l)[k])

RegularEstate(l) ==
  /\ Len(Words(l)) = 5
  /\ Cardinality({k \in DOMAIN l : l[k] = " "}) = 4

EstateOf(l) ==
  LET w == Words(l)
  IN [id |-> AtoI(w[1]), type |-> w[2], street |-> w[3], surface |-> AtoI(w[4]),
      price |-> AtoI(w[5])]

(* The types; and the room in the array of requests: as long as there are  *)
(* no more than requestCapacity it holds them one after another, and with  *)
(* one more the array that has been grown is overrun.                      *)
TypeOK ==
  /\ requestFile \in Seq(RequestLines) /\ estateFile \in Seq(EstateLines)
  /\ eof \in BOOLEAN /\ made \in BOOLEAN
  /\ IF client.overflow THEN client.requestSize = 2 * requestCapacity
     ELSE /\ client.requestSize <= requestCapacity
          /\ {k \in DOMAIN client.requests : client.requests[k] # Hole}
               = 0..client.requestSize-1
  /\ servant.live \subseteq {"type", "street"}

(* A request file of regular and empty lines gives the requests its        *)
(* terminated lines name, in their order, and a dataset file of regular    *)
(* lines its estates; what follows the last newline of either counts for   *)
(* nothing.                                                                *)
FilesRead ==
  LET lines == {j \in DOMAIN requestFile : requestFile[j] # <<>>}
  IN /\ (\A j \in lines : Regular(requestFile[j])) /\ Cardinality(lines) <= requestCapacity =>
          /\ client.requestSize = Cardinality(lines)
          /\ \A j \in lines :
               client.requests[Cardinality({i \in lines : i < j})] = RequestOf(requestFile[j])
     /\ IsDate(fileName) /\ (\A l \in ToSet(estateFile) : RegularEstate(l)) =>
          /\ ~servant.fault /\ servant.date = GetDate(fileName)
          /\ servant.estates = [k \in DOMAIN estateFile |-> EstateOf(estateFile[k])]

(* A line that has made a request, right or wrong, does no harm to the     *)
(* next; only a line that makes none can.                                  *)
DamageIsLocal ==
  [][\A l \in RequestLines :
       requestFile' = Append(requestFile, l) /\ made /\ Regular(l)
         /\ client.requestSize < requestCapacity =>
           /\ client'.requestSize = client.requestSize + 1
           /\ client'.requests[client.requestSize] = RequestOf(l)]_vars

(* The client sends a request, a server's worker reads it and sends it on, *)
(* a servant reads that: whatever the client has read from its file, when  *)
(* it has a type and both dates, is what the servant searches for.         *)
RequestArrives ==
  ~client.overflow =>
    \A k \in 0..client.requestSize-1 :
      LET q == client.requests[k]
          atServer == ReadRequest(<<" ">> \o Message(q))
          atServant == ReadRequest(Message(atServer))
      IN q.d2.day >= 0 /\ q.d2.month >= 0 /\ q.d2.year >= 0
           => atServer = q /\ atServant = q
=============================================================================
