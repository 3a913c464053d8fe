------------------------------ MODULE MCTypes ------------------------------
(* An instance of Types for model checking. *)
EXTENDS Types

CONSTANT T
=============================================================================
