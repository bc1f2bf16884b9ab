----------------------------- MODULE MCService ------------------------------
(* Values for the model checking of Service. *)
EXTENDS Service
CONSTANTS c1, c2
One == {c1}
Two == {c1, c2}
=============================================================================
