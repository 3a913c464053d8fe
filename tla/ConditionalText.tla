-------------------------- MODULE ConditionalText --------------------------
(***************************************************************************)
(* What a preprocessor promises of conditional groups, files and macros.   *)
(* A group (#if ... #endif) is the list of the conditions its branches     *)
(* were given; the branch that is read now, the last one, is chosen when   *)
(* it is the first whose condition holds.  A line counts when every group  *)
(* around it, in its own file and in the files that include it, has        *)
(* chosen the branch it stands in.                                         *)
(***************************************************************************)
EXTENDS Integers, Sequences

CONSTANTS
  Names,       \* identifiers
  Values,      \* the numbers macros stand for
  Predefined   \* the macro there is from the start

VARIABLES
  line,     \* the line that was read last
  table,    \* per name, its body as a set: {} when it is not a macro
  groups,   \* per open file, the included one last, its open groups
  shown,    \* what the last line left in the text: {} is nothing
  status    \* "reading", "done" or "exited"

vars == <<line, table, groups, shown, status>>

(* An object-like macro or a function-like one. *)
Bodies == [val : Values, fn : BOOLEAN]

Body(v, fn) == [val |-> v, fn |-> fn]

Defined(n) == table[n] # {}

(* What #if asks, before a leading "!" is applied. *)
Questions == {"defined", "value", "line", "zero"}
Answer(q, n) ==
  CASE q = "defined" -> Defined(n)
    [] q = "value" -> \E b \in table[n] : b.val # 0
    [] q = "line" -> TRUE
    [] q = "zero" -> FALSE

Chosen(g) == g[Len(g)] /\ \A k \in 1 .. Len(g) - 1 : ~g[k]

Live == \A f \in 1 .. Len(groups) :
          \A i \in 1 .. Len(groups[f]) : Chosen(groups[f][i])

File == Len(groups)
Depth == Len(groups[File])

Init ==
  /\ line = <<"start">>
  /\ table = [n \in Names |-> IF n = Predefined THEN {Body(1, FALSE)} ELSE {}]
  /\ groups = <<<<>>>>
  /\ shown = {}
  /\ status = "reading"

-----------------------------------------------------------------------------

Read(l) == status = "reading" /\ line' = l

(* A directive leaves nothing in the text. *)
Directive(l) == Read(l) /\ shown' = {} /\ status' = "reading"

OpenGroup(l, c) ==
  /\ Directive(l)
  /\ groups' = [groups EXCEPT ![File] = Append(groups[File], <<c>>)]
  /\ table' = table

IfDef(n) == OpenGroup(<<"ifdef", n>>, Defined(n))
IfNDef(n) == OpenGroup(<<"ifndef", n>>, ~Defined(n))
If(q, n, neg) == OpenGroup(<<"if", q, n, neg>>, Answer(q, n) # neg)

NextBranch(l, c) ==
  /\ Directive(l)
  /\ groups' = IF Depth = 0 THEN groups
               ELSE [groups EXCEPT
                       ![File][Depth] = Append(groups[File][Depth], c)]
  /\ table' = table

Elif(q, n, neg) == NextBranch(<<"elif", q, n, neg>>, Answer(q, n) # neg)
Else == NextBranch(<<"else">>, TRUE)

Endif ==
  /\ Directive(<<"endif">>)
  /\ groups' = IF Depth = 0 THEN groups
               ELSE [groups EXCEPT
                       ![File] = SubSeq(groups[File], 1, Depth - 1)]
  /\ table' = table

Pragma == Directive(<<"pragma">>) /\ UNCHANGED <<table, groups>>

Assign(l, n, meaning) ==
  /\ Directive(l)
  /\ table' = IF Live THEN [table EXCEPT ![n] = meaning] ELSE table
  /\ groups' = groups

Define(n, body) == Assign(<<"define", n, body>>, n, {body})
Undef(n) == Assign(<<"undef", n>>, n, {})

Include ==
  /\ Directive(<<"include">>)
  /\ groups' = IF Live THEN Append(groups, <<>>) ELSE groups
  /\ table' = table

(* The end of a file closes the groups it left open. *)
EndOfFile ==
  /\ Read(<<"end">>)
  /\ groups' = SubSeq(groups, 1, File - 1)
  /\ shown' = {}
  /\ status' = IF File = 1 THEN "done" ELSE "reading"
  /\ table' = table

(* #error, a missing file or a malformed definition ends the program, but
   never one in a branch that is not chosen. *)
Fatal ==
  /\ Read(<<"fatal">>)
  /\ status' = IF Live THEN "exited" ELSE "reading"
  /\ shown' = {}
  /\ UNCHANGED <<table, groups>>

(* A line with the name n stays if it counts; the name is replaced unless it
   stands in a literal or a comment, or lacks the arguments of its macro. *)
Text(n, literal, call) ==
  /\ Read(<<"text", n, literal, call>>)
  /\ shown' = IF ~Live THEN {}
              ELSE IF ~literal /\ \E b \in table[n] : b.fn => call
                   THEN table[n] ELSE {n}
  /\ UNCHANGED <<table, groups, status>>

Next ==
  \/ \E n \in Names :
       \/ IfDef(n)
       \/ IfNDef(n)
       \/ \E q \in Questions, neg \in BOOLEAN : If(q, n, neg) \/ Elif(q, n, neg)
       \/ \E body \in Bodies : Define(n, body)
       \/ Undef(n)
       \/ \E literal, call \in BOOLEAN : Text(n, literal, call)
  \/ Else
  \/ Endif
  \/ Pragma
  \/ Include
  \/ EndOfFile
  \/ Fatal

Spec == Init /\ [][Next]_vars
=============================================================================
