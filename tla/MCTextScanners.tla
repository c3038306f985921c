-------------------------- MODULE MCTextScanners --------------------------
(* TextScanners with lines as those of the repository's request file and   *)
(* dataset, and with some that are written a little differently.  A word   *)
(* of the request file that starts a line has two pieces, the first of     *)
(* which may be lost.                                                      *)
EXTENDS TextScanners

D1 == <<"1", "-", "2", "-", "3">>
D2 == <<"4", "-", "5", "-", "6">>
Begin(type) == <<"transaction", "Count", " ", type, " ">>

MCRequestLines == {
  <<>>,
  Begin("TARLA") \o D1 \o <<" ">> \o D2 \o <<" ", "ADANA">>,
  Begin("MERA") \o D1 \o <<" ">> \o D2 \o <<" ">>,
  Begin("DUKKAN") \o D2 \o <<" ">> \o D1 \o <<" ", " ", "KILIS">>,
  (* two blanks before the city and one behind it                          *)
  Begin("BAG") \o D1 \o <<" ">> \o D2 \o <<" ", " ", "VAN", " ">>,
  (* one date, a type only, and a blank at the beginning                   *)
  Begin("EV") \o D1,
  <<"transaction", "Count", " ", "EV">>,
  <<" ">> \o Begin("VILLA") \o D1 \o <<" ">> \o D2,
  (* a city with a hyphen in its name                                      *)
  Begin("BINA") \o D1 \o <<" ">> \o D2 \o <<" ", "NEW", "-", "YORK">> }

MCWordParts ==
  {"transaction", "Count", "TARLA", "MERA", "DUKKAN", "BAG", "EV", "VILLA", "BINA",
   "ADANA", "KILIS", "VAN", "NEW", "YORK", "notes", "X", "Y", "Z"}

MCFileNames == { D1, <<"1", "-", "2">>, <<"-", "1", "-", "2">>, <<"notes">> }

MCEstateLines == {
  <<"1", " ", "EV", " ", "X", " ", "7", " ", "9">>,
  <<"2", " ", "BAG", " ", "Y", " ", "8", " ", "3">>,
  <<"3", " ", "EV", " ", "Z">>,
  <<>> }
=============================================================================
