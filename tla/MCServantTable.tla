-------------------------- MODULE MCServantTable --------------------------
(* ServantTable with two servants whose ranges of cities overlap.  The     *)
(* table starts with one element, so that both registrations make it grow. *)
EXTENDS ServantTable

CONSTANTS s1, s2, ankara, bursa

MCServants == {s1, s2}
MCCitiesOf == (s1 :> <<ankara, bursa>>) @@ (s2 :> <<bursa>>)
=============================================================================
