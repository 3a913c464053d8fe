---------------------------- MODULE MCPreprocess ----------------------------
(* Instances of Preprocess for model checking. *)
EXTENDS Preprocess
CONSTANTS a, clang
Numbers == {0, 1}
Ones == {1}
=============================================================================
