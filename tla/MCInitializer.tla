---------------------------- MODULE MCInitializer ----------------------------
(* An instance of Initializer for model checking. *)
EXTENDS Initializer

CONSTANTS a, b, zero, null
=============================================================================
