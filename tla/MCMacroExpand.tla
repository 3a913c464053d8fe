---------------------------- MODULE MCMacroExpand ----------------------------
(* Macros and lines of MacroExpand for model checking.                      *)
EXTENDS MacroExpand, TLC

CONSTANTS x, y, z

Obj(value) == [fn |-> FALSE, variadic |-> FALSE, params |-> <<>>, value |-> value]
Fun(params, variadic, value) ==
  [fn |-> TRUE, variadic |-> variadic, params |-> params, value |-> value]

\* x leads to y, and y to z in some tables, to x or to a number in others.
Objects == {<<>>, <<y>>, <<x>>, <<y, "+", y>>, <<y, "(", z, ")">>, <<"line">>, <<"quote", y, "quote">>, <<"1", y>>}
Chains == {Obj(<<z>>), Obj(<<x>>), Obj(<<"1">>)}

Functions ==
  {Fun(<<<<x>>>>, FALSE, v) : v \in
     {<<x, "+", y>>, <<"#", "blank", x>>, <<x, "blank", "#", "#", "blank", x>>,
      <<"#", y>>, <<"(", x, ")", "1", x>>}}
    \cup {Fun(<<<<x>>, <<z>>>>, FALSE, v) : v \in {<<x, "#", "#", z>>, <<z, "+", x, "blank">>}}
    \cup {Fun(<<<<x>>>>, TRUE, v) : v \in
            {<<x, ",", "blank", "#", "#", "va">>, <<"#", "va">>, <<"va", "+", x>>,
             <<x, ",", "#", "#", "va", "1">>}}
    \cup {Fun(<<>>, TRUE, <<"va">>), Fun(<<>>, FALSE, <<y>>)}

ObjectTables ==
  {(<<x>> :> o) @@ (<<y>> :> p) @@ (<<z>> :> Obj(<<"+">>)) @@ (<<x, y>> :> Obj(<<"1">>)) :
      o \in {Obj(v) : v \in Objects}, p \in Chains}
FunctionTables ==
  {(<<z>> :> f) @@ (<<y>> :> p) : f \in Functions, p \in {Obj(<<"1">>), Obj(<<z>>)}}
    \cup {(<<z>> :> f) @@ (<<y>> :> Obj(<<"1", x>>)) @@ (<<x>> :> p) :
            f \in {Fun(<<>>, FALSE, <<y>>), Fun(<<<<x>>>>, FALSE, <<x, "+", y>>)},
            p \in {Obj(<<"1">>), Obj(<<"+", y>>)}}

Upto(n, S) == UNION {[1 .. k -> S] : k \in 0 .. n}

Calls ==
  {<<z, "(">> \o l : l \in Upto(4, {y, ",", "blank", "(", ")"})}
    \cup {<<z, "blank", "(">> \o l \o <<")">> : l \in Upto(3, {y, ",", "quote", "1", "backslash"})}

Input(table, l, comment) == [macros |-> table, line |-> l, comment |-> comment]

MCInputs ==
  {Input(t, l, FALSE) : t \in ObjectTables,
     l \in Upto(3, {x, y, "+", "line", "quote", "backslash"}) \cup {<<x, "open", x>>, <<x, "rest", x>>}}
    \cup {Input(t, <<x, "close", x>>, TRUE) : t \in ObjectTables}
    \cup {Input(t, l, FALSE) : t \in FunctionTables, l \in Calls}
=============================================================================
