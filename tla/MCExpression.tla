---------------------------- MODULE MCExpression ----------------------------
(* Instances of Expression for model checking. *)
EXTENDS Expression, TLC

Widths == [i8 |-> 3, i16 |-> 4, i32 |-> 5, i64 |-> 6]

U(base) == [base |-> base, unsigned |-> TRUE]

Values ==
  Signed("INT") :> {-1, 7} @@ U("INT") :> {31} @@ Signed("LONG") :> {-1}
  @@ U("CHAR") :> {7} @@ Signed("BOOL") :> {1} @@ Signed("DOUBLE") :> {-1}
  @@ Signed("PTR") :> {1}
=============================================================================
