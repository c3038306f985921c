----------------------------- MODULE MCCluster -----------------------------
(* Cluster with four cities, whose counts tell from a sum who contributed, *)
(* and ranges that lie side by side, overlap, share a port, hold too many  *)
(* cities for the server or none at all.  One does not count its type.     *)
EXTENDS Cluster

MCCities == {2, 3, 5, 8}
MCTransactions == (2 :> 1) @@ (3 :> 10) @@ (5 :> 100) @@ (8 :> 1000)
Between(l, u) == [lower |-> l, upper |-> u]
MCRanges == {Between(1, 2), Between(3, 4), Between(2, 4), Between(5, 6)}
MCEndsWithType == {Between(3, 4)}
MCQueries == {3, NoCity}
=============================================================================
