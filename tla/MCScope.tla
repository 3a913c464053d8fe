------------------------------ MODULE MCScope ------------------------------
(* Instances of Scope for model checking. *)
EXTENDS Scope, TLC

CONSTANTS a, b, anonymous

MCNames == {a, b}
MCUnnamed == anonymous

(* The actions treat all names alike. *)
NameSymmetry == Permutations(MCNames)
=============================================================================
