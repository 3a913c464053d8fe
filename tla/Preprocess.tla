----------------------------- MODULE Preprocess -----------------------------
(***************************************************************************)
(* preprocess.c: preprocess_internal reads a file line by line; a line is  *)
(* a directive or text, and #include calls preprocess_internal again with  *)
(* the same macros and line counter but conditional groups of its own.     *)
(* The lines are the environment: each action handles one line of the      *)
(* file that is read, the last of the open files, and chooses it.  Lines   *)
(* end with a newline.  A text line is reduced to one name in it and to    *)
(* what it does to a block comment; a macro's value is a number.           *)
(***************************************************************************)
EXTENDS Integers, Sequences

CONSTANTS
  Names,               \* identifiers
  Values,              \* the numbers macros stand for
  Predefined,          \* stands for the macros preprocess() adds
  MaxLines,            \* bound: lines read
  MaxGroups,           \* bound: open groups of a file
  MaxFiles             \* bound: open files

ASSUME NamesAssumption == Predefined \in Names /\ Values \subseteq Int /\ 1 \in Values

ASSUME BoundsAssumption ==
  /\ MaxLines \in Nat /\ MaxGroups \in Nat /\ MaxFiles \in Nat

VARIABLES
  line,        \* the line that was read last, without what the code ignores
  macros,      \* ctx->macros, the head of the list first
  currentLine, \* ctx->current_line
  conds,       \* per open file its cond_stack, the head last
  comment,     \* per open file its in_block_comment
  shown,       \* what the last line appended to out: {} is nothing
  status,      \* "reading", "done" or "exited"
  asked,       \* history: per open file and group, the conditions so far
  at,          \* history: per open file, the line that is read
  pure,        \* history: per open file, whether it has included nothing
  lines        \* lines read so far

history == <<asked, at, pure>>
vars == <<line, macros, currentLine, conds, comment, shown, status, history, lines>>

Bodies == [val : Values, fn : BOOLEAN]
Body(v, fn) == [val |-> v, fn |-> fn]

Macros == [name : Names, body : Bodies]
Conds == [matched : BOOLEAN, active : BOOLEAN]

(* The conditions that the branches of a group were given. *)
Answers == Seq(BOOLEAN)

-----------------------------------------------------------------------------
(* The macro list *)

(* The places of n that find_macro finds: at most one. *)
FindMacro(n) ==
  {i \in 1 .. Len(macros) :
     macros[i].name = n /\ \A j \in 1 .. i - 1 : macros[j].name # n}

Meaning(n) == {macros[i].body : i \in FindMacro(n)}

(* Slip: a name that is defined already is pushed again. *)
AddOrReplaceMacro_AlwaysNew(n, body) ==
  macros' = <<[name |-> n, body |-> body]>> \o macros

(* A macro that exists keeps its place, a new one becomes the head. *)
Replaced(n, body) ==
  [i \in 1 .. Len(macros) |->
     IF i \in FindMacro(n) THEN [macros[i] EXCEPT !.body = body]
     ELSE macros[i]]
AddOrReplaceMacro(n, body) ==
  macros' = IF FindMacro(n) # {} THEN Replaced(n, body)
            ELSE <<[name |-> n, body |-> body]>> \o macros

WithoutPlace(i) ==
  [k \in 1 .. Len(macros) - 1 |-> IF k < i THEN macros[k] ELSE macros[k + 1]]
(* Slip: the head is removed, whatever its name. *)
UndefMacro_Head(n) ==
  macros' = IF FindMacro(n) = {} THEN macros ELSE Tail(macros)

UndefMacro(n) ==
  \/ FindMacro(n) = {} /\ macros' = macros
  \/ \E i \in FindMacro(n) : macros' = WithoutPlace(i)

-----------------------------------------------------------------------------
(* The conditional stack *)

File == Len(conds)
Depth == Len(conds[File])

ActiveAt(f, d) == d > 0 => conds[f][d].active

(* parent_active: the line is not in a group, or in its active branch. *)
Active == ActiveAt(File, Depth)

(* grand_active: the group of the line stands in an active branch. *)
GrandActive == ActiveAt(File, Depth - 1)

Questions == {"defined", "value", "line", "zero"}

(* expr_val # 0, before "!".  A value is what strtol reads. *)
ExprVal(q, n) ==
  CASE q = "defined" -> FindMacro(n) # {}
    [] q = "value" -> \E b \in Meaning(n) : b.val # 0
    [] q = "line" -> currentLine # 0
    [] q = "zero" -> FALSE

-----------------------------------------------------------------------------

Init ==
  /\ line = <<"start">>
  /\ macros = <<[name |-> Predefined, body |-> Body(1, FALSE)]>>
  /\ currentLine = 1
  /\ conds = <<<<>>>>
  /\ comment = <<FALSE>>
  /\ shown = {}
  /\ status = "reading"
  /\ asked = <<<<>>>>
  /\ at = <<1>>
  /\ pure = <<TRUE>>
  /\ lines = 0

Read(l) ==
  /\ status = "reading"
  /\ line' = l
  /\ lines < MaxLines
  /\ lines' = lines + 1

(* The line ends: current_line counts it. *)
NewLine ==
  /\ currentLine' = currentLine + 1
  /\ at' = [at EXCEPT ![File] = @ + 1]
  /\ pure' = pure

(* A line that starts with '#': recognised whether or not it stands in a
   block comment, and nothing of it is appended. *)
Hash(l) ==
  /\ Read(l)
  /\ shown' = {}

Directive(l) ==
  /\ Hash(l)
  /\ NewLine
  /\ UNCHANGED <<comment, status>>

OpenGroup(l, c) ==
  /\ Directive(l)
  /\ Depth < MaxGroups
  /\ conds' = [conds EXCEPT ![File] =
       Append(conds[File], [matched |-> c, active |-> Active /\ c])]
  /\ asked' = [asked EXCEPT ![File] = Append(asked[File], <<c>>)]
  /\ macros' = macros

IfDef(n) == OpenGroup(<<"ifdef", n>>, FindMacro(n) # {})
IfNDef(n) == OpenGroup(<<"ifndef", n>>, FindMacro(n) = {})
If(q, n, neg) == OpenGroup(<<"if", q, n, neg>>, ExprVal(q, n) # neg)

NextBranch(l, c, active, matched) ==
  /\ Directive(l)
  /\ Depth > 0
  /\ conds' = [conds EXCEPT ![File][Depth] =
       [matched |-> matched, active |-> active]]
  /\ asked' = [asked EXCEPT ![File][Depth] = Append(asked[File][Depth], c)]
  /\ macros' = macros

Group == conds[File][Depth]

(* Slip: the group around is not asked. *)
Elif_InDeadGroup(q, n, neg) ==
  LET val == ExprVal(q, n) # neg
      take == ~Group.matched /\ val
  IN NextBranch(<<"elif", q, n, neg>>, val, take, Group.matched \/ take)

Elif(q, n, neg) ==
  LET val == ExprVal(q, n) # neg
      take == ~Group.matched /\ val
  IN NextBranch(<<"elif", q, n, neg>>, val,
                GrandActive /\ take, Group.matched \/ take)

Else == NextBranch(<<"else">>, TRUE, GrandActive /\ ~Group.matched, TRUE)

Endif ==
  /\ Directive(<<"endif">>)
  /\ Depth > 0
  /\ conds' = [conds EXCEPT ![File] = SubSeq(conds[File], 1, Depth - 1)]
  /\ asked' = [asked EXCEPT ![File] = SubSeq(asked[File], 1, Depth - 1)]
  /\ macros' = macros

(* A directive that changes nothing. *)
Swallow(l) ==
  /\ Directive(l)
  /\ UNCHANGED <<macros, conds, asked>>

(* #elif, #else or #endif without a group. *)
Stray(l) == Swallow(l) /\ Depth = 0
Inactive(l) == Swallow(l) /\ ~Active
Pragma == Swallow(<<"pragma">>) /\ Active

Define(n, body) ==
  /\ Directive(<<"define", n, body>>)
  /\ Active
  /\ AddOrReplaceMacro(n, body)
  /\ UNCHANGED <<conds, asked>>

Undef(n) ==
  /\ Directive(<<"undef", n>>)
  /\ Active
  /\ UndefMacro(n)
  /\ UNCHANGED <<conds, asked>>

(* The recursive call. *)
Enter(first, comments) ==
  /\ Hash(<<"include">>)
  /\ File < MaxFiles
  /\ currentLine' = first
  /\ comment' = comments
  /\ conds' = Append(conds, <<>>)
  /\ asked' = Append(asked, <<>>)
  /\ at' = Append(at, 1)
  /\ pure' = Append([pure EXCEPT ![File] = FALSE], TRUE)
  /\ UNCHANGED <<macros, status>>

(* The line counter restarts, the groups and the comment of the new file are
   its own. *)
Include == Enter(1, Append(comment, FALSE)) /\ Active

(* The call returns to the line that included the file, which now ends.
   Groups and a comment that are still open are dropped. *)
EndOfFile ==
  LET rest == File - 1 IN
  /\ status = "reading"
  /\ line' = <<"end">>
  /\ conds' = SubSeq(conds, 1, rest)
  /\ asked' = SubSeq(asked, 1, rest)
  /\ comment' = SubSeq(comment, 1, rest)
  /\ pure' = SubSeq(pure, 1, rest)
  /\ at' = [f \in 1 .. rest |-> IF f = rest THEN at[f] + 1 ELSE at[f]]
  /\ currentLine' = IF rest = 0 THEN currentLine ELSE currentLine + 1
  /\ status' = IF rest = 0 THEN "done" ELSE "reading"
  /\ shown' = {}
  /\ UNCHANGED <<macros, lines>>

(* exit(1): #error, a file that cannot be read, or a malformed parameter list
   of #define. *)
Exit ==
  /\ Hash(<<"fatal">>)
  /\ Active
  /\ status' = "exited"
  /\ UNCHANGED <<macros, currentLine, conds, comment, history>>

(* A text line, or an unknown directive in an active branch: the name n, and
   behind it perhaps the end or the beginning of a block comment.  It is
   replaced unless it stands in a comment or a literal, or names a function-
   like macro that is not called with its number of arguments. *)
Marks == {"none", "opens", "closes"}

Expansion(n, literal, call) ==
  IF ~comment[File] /\ ~literal /\ \E b \in Meaning(n) : b.fn => call
  THEN Meaning(n) ELSE {n}

Text(n, literal, call, mark) ==
  /\ Read(<<"text", n, literal \/ comment[File], call>>)
  /\ Active
  /\ shown' = Expansion(n, literal, call)
  /\ comment' = [comment EXCEPT ![File] =
       mark = "opens" \/ (@ /\ mark # "closes")]
  /\ NewLine
  /\ UNCHANGED <<macros, conds, status, asked>>

(* Text in a branch that is not active is not looked at. *)
InactiveText(n, literal, call) ==
  /\ Read(<<"text", n, literal, call>>)
  /\ ~Active
  /\ shown' = {}
  /\ NewLine
  /\ UNCHANGED <<macros, conds, comment, status, asked>>

Stop == status # "reading" /\ UNCHANGED vars

Next ==
  \/ \E n \in Names :
       \/ IfDef(n)
       \/ IfNDef(n)
       \/ \E q \in Questions, neg \in BOOLEAN : If(q, n, neg) \/ Elif(q, n, neg)
       \/ \E body \in Bodies : Define(n, body) \/ Inactive(<<"define", n, body>>)
       \/ Undef(n)
       \/ Inactive(<<"undef", n>>)
       \/ \E literal, call \in BOOLEAN, mark \in Marks :
            Text(n, literal, call, mark)
       \/ \E literal, call \in BOOLEAN : InactiveText(n, literal, call)
       \/ \E q \in Questions, neg \in BOOLEAN : Stray(<<"elif", q, n, neg>>)
  \/ Else
  \/ Endif
  \/ \E l \in {<<"else">>, <<"endif">>} : Stray(l)
  \/ \E l \in {<<"include">>, <<"pragma">>, <<"fatal">>} : Inactive(l)
  \/ Pragma
  \/ Include
  \/ EndOfFile
  \/ Exit
  \/ Stop

Spec == Init /\ [][Next]_vars

-----------------------------------------------------------------------------
(* Properties *)

Reading == status = "reading"

Kinds ==
  {"start", "ifdef", "ifndef", "if", "elif", "else", "endif", "define",
   "undef", "include", "pragma", "fatal", "text", "end"}

(* Each open file has its groups, comment flag and histories; each group its
   conditions.  The main file is open until it ends. *)
TypeOK ==
  /\ line[1] \in Kinds
  /\ macros \in Seq(Macros)
  /\ currentLine \in Nat \ {0}
  /\ conds \in Seq(Seq(Conds))
  /\ comment \in Seq(BOOLEAN)
  /\ shown \subseteq Names \cup Bodies
  /\ status \in {"reading", "done", "exited"}
  /\ asked \in Seq(Seq(Answers))
  /\ at \in Seq(Nat)
  /\ pure \in Seq(BOOLEAN)
  /\ lines \in Nat
  /\ Reading => conds # <<>>
  /\ Len(comment) = Len(conds) /\ Len(at) = Len(conds)
  /\ Len(pure) = Len(conds)
  /\ Len(asked) = Len(conds)
  /\ \A f \in 1 .. Len(conds) : Len(asked[f]) = Len(conds[f])
  /\ \A f \in 1 .. Len(conds) : \A i \in 1 .. Len(conds[f]) : asked[f][i] # <<>>

(* A name has one definition, however often it was defined and undefined, so
   #undef removes it altogether. *)
OneDefinition ==
  \A i, j \in 1 .. Len(macros) : macros[i].name = macros[j].name => i = j

(* The branch that is read is the first one whose condition holds. *)
Chosen(g) == g[Len(g)] /\ \A k \in 1 .. Len(g) - 1 : ~g[k]

(* The two bits of a group are all the code keeps of its history: `matched'
   says that some branch had its condition, `active' that this group and all
   those around it have chosen the branch that is read. *)
ActiveIsMeaning ==
  \A f \in 1 .. Len(conds) : \A i \in 1 .. Len(conds[f]) :
    /\ conds[f][i].matched <=> \E k \in 1 .. Len(asked[f][i]) : asked[f][i][k]
    /\ conds[f][i].active <=> \A j \in 1 .. i : Chosen(asked[f][j])

(* A file is read only for a line that counts, and the branch of that line
   stays active until the file ends, whatever groups the file has. *)
IncludersAreActive ==
  \A f \in 1 .. Len(conds) - 1 : ActiveAt(f, Len(conds[f]))

(* Until a file includes another one, __LINE__ is the number of the line. *)
LinesUntilInclude == Reading /\ pure[File] => currentLine = at[File]

(* The preprocessor implements conditional text: what counts and what a name
   means is what the conditions and definitions before it say. *)
Promise == INSTANCE ConditionalText WITH
  table <- [n \in Names |-> Meaning(n)], groups <- asked

ImplementsText == Promise!Spec
=============================================================================
