-------------------------- MODULE MCEstateIndex ---------------------------
(* EstateIndex with three dates whose order by day, by month and by year   *)
(* all differ.                                                             *)
EXTENDS EstateIndex

MCDates == { <<2, 2, 1>>, <<3, 1, 1>>, <<1, 1, 2>> }
=============================================================================
