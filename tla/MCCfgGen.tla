------------------------------ MODULE MCCfgGen ------------------------------
(* Instances of CfgGen for model checking. *)
EXTENDS CfgGen
CONSTANTS out, again
=============================================================================
