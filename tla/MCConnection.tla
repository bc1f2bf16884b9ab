---------------------------- MODULE MCConnection ----------------------------
(* The model that TLC checks; the values are in the configurations. *)
EXTENDS Connection
=============================================================================
