----------------------------- MODULE MCSymbols -----------------------------
(* Instances of Symbols for model checking. *)
EXTENDS Symbols, TLC

CONSTANTS f, g, exit

Sig(params, variadic) == [params |-> params, variadic |-> variadic]

MCSignatures == {Sig(0, FALSE), Sig(1, TRUE)}
MCLibraryType == Sig(1, FALSE)

(* The actions treat all names but the library's alike. *)
NameSymmetry == Permutations({f, g})
=============================================================================
