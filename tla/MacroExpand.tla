----------------------------- MODULE MacroExpand -----------------------------
(***************************************************************************)
(* Macro expansion (preprocess.c): what preprocess_internal makes of one   *)
(* line of text, with the macros that are defined when it is read.  The    *)
(* loop over the line, parse_macro_args, expand_function_macro and         *)
(* expand_macros_in_text are each a phase, and a turn of their loops an    *)
(* action; the recursion of the last is a stack of frames.                 *)
(*                                                                         *)
(* A text is a sequence of characters of the classes that the code tells   *)
(* apart: `1' is a digit, `quote' either quote, `va' stands for the word   *)
(* __VA_ARGS__ and `line' for __LINE__.  A name is a sequence, as pasting  *)
(* makes one of two.                                                       *)
(***************************************************************************)
EXTENDS Integers, Sequences, FiniteSets

CONSTANTS
  Letters,   \* letters of names
  Inputs,    \* lines of text, with the macros that are defined and whether a
             \* comment is open when they are read
  MaxDepth   \* how deep expand_macros_in_text goes; 16 in the code

IdentStart == Letters \cup {"va", "line"}
IdentChar == IdentStart \cup {"1"}
Other == {"(", ")", ",", "blank", "#", "+", "quote", "backslash", "open", "close", "rest"}
Text == Seq(IdentChar \cup Other)

ASSUME InputsAssumption ==
  \A input \in Inputs :
    /\ input.line \in Text /\ input.comment \in BOOLEAN
    /\ \A n \in DOMAIN input.macros :
         LET m == input.macros[n] IN
           /\ n \in Seq(IdentChar)
           /\ m.value \in Text
           /\ m.fn \in BOOLEAN /\ m.variadic \in BOOLEAN
           /\ m.params \in Seq(Seq(IdentChar))
ASSUME DepthAssumption == MaxDepth \in Nat
ASSUME LettersAssumption == Letters \cap (Other \cup {"1", "end"}) = {}

VARIABLES
  macros,     \* the macros by their names; a table without doubles
  line,       \* the line
  s,          \* the place in it
  inComment,  \* in_block_comment
  out,        \* what it became so far
  call,       \* the call being read: its name, where it is, and its arguments
  body,       \* the text expand_function_macro makes, and its place in the value
  stack,      \* the calls of expand_macros_in_text, the innermost last
  status      \* "text", "args", "body" or "done"

vars == <<macros, line, s, inComment, out, call, body, stack, status>>

NoCall == [name |-> <<>>, after |-> 0, open |-> 0, from |-> 0, depth |-> 0, args |-> <<>>]
NoBody == [p |-> 1, out |-> <<>>]

-----------------------------------------------------------------------------
(* Reading a text *)

At(t, i) == IF i \in 1 .. Len(t) THEN t[i] ELSE "end"

Past(S, t, i) ==
  CHOOSE j \in i .. Len(t) + 1 :
    /\ At(t, j) \notin S
    /\ \A k \in i .. j - 1 : t[k] \in S

SkipSpaces(t, i) == Past({"blank"}, t, i)
AfterName(t, i) == Past(IdentChar, t, i)
NameAt(t, i) == SubSeq(t, i, AfterName(t, i) - 1)
StartsName(t, i) == At(t, i) \in IdentStart

\* Behind the quote that closes the one at i, or the end of the text.
AfterQuoted(t, i) ==
  LET After[k \in i + 1 .. Len(t) + 1] ==
        IF k > Len(t) THEN k
        ELSE IF t[k] = "quote" THEN k + 1
        ELSE IF t[k] = "backslash" /\ k < Len(t) THEN After[k + 2]
        ELSE After[k + 1]
  IN  After[i + 1]

\* trim_copy, and trim_trailing_space, which leaves what is in front.
TrimEnd(t) ==
  SubSeq(t, 1, CHOOSE n \in 0 .. Len(t) : /\ At(t, n) # "blank"
                                         /\ \A k \in n + 1 .. Len(t) : t[k] = "blank")
Trim(t) == TrimEnd(SubSeq(t, SkipSpaces(t, 1), Len(t)))

-----------------------------------------------------------------------------
Init ==
  /\ \E input \in Inputs :
       /\ macros = input.macros
       /\ line = input.line
       /\ inComment = input.comment
  /\ s = 1
  /\ out = <<>>
  /\ call = NoCall
  /\ body = NoBody
  /\ stack = <<>>
  /\ status = "text"

IsMacro(n) == n \in DOMAIN macros
IsObject(n) == IsMacro(n) /\ ~macros[n].fn
IsFunction(n) == IsMacro(n) /\ macros[n].fn

\* The number that __LINE__ stands for.
LineNumber == <<"1">>

-----------------------------------------------------------------------------
(* The loop over the line *)

Reading == status = "text" /\ stack = <<>>

Copy(to) ==
  /\ out' = out \o SubSeq(line, s, to - 1)
  /\ s' = to
  /\ UNCHANGED <<macros, line, call, body, stack, status>>

InComment ==
  /\ Reading /\ inComment
  /\ s <= Len(line)
  /\ inComment' = (line[s] # "close")
  /\ Copy(s + 1)

Plain == Reading /\ ~inComment /\ s <= Len(line)

OpenComment ==
  /\ Plain /\ line[s] = "open"
  /\ inComment' = TRUE
  /\ Copy(s + 1)

LineComment ==
  /\ Plain /\ line[s] = "rest"
  /\ Copy(Len(line) + 1)
  /\ UNCHANGED inComment

Quoted ==
  /\ Plain /\ line[s] = "quote"
  /\ Copy(AfterQuoted(line, s))
  /\ UNCHANGED inComment

OtherChar ==
  /\ Plain /\ line[s] \notin IdentStart \cup {"open", "rest", "quote"}
  /\ Copy(s + 1)
  /\ UNCHANGED inComment

\* Where the argument list of a call begins, if the next character but blanks
\* opens one.
Opening == SkipSpaces(line, AfterName(line, s))
IsCall(n) == IsFunction(n) /\ At(line, Opening) = "("

PlainName ==
  /\ Plain /\ StartsName(line, s)
  /\ LET n == NameAt(line, s) IN
       /\ n # <<"line">>
       /\ ~IsObject(n) /\ ~IsCall(n)
  /\ Copy(AfterName(line, s))
  /\ UNCHANGED inComment

LineName ==
  /\ Plain /\ StartsName(line, s)
  /\ NameAt(line, s) = <<"line">>
  /\ out' = out \o LineNumber
  /\ s' = s + 1
  /\ UNCHANGED <<macros, line, inComment, call, body, stack, status>>

Frame(text, depth) == [text |-> text, p |-> 1, depth |-> depth, out |-> <<>>]

\* expand_macros_in_text returns a text as it is when it is called too deep.
ObjectName ==
  /\ Plain /\ StartsName(line, s)
  /\ LET n == NameAt(line, s) IN
       /\ n # <<"line">>
       /\ IsObject(n)
       /\ stack' = <<Frame(macros[n].value, 0)>>
  /\ s' = AfterName(line, s)
  /\ UNCHANGED <<macros, line, inComment, out, call, body, status>>

BeginCall ==
  /\ Plain /\ StartsName(line, s)
  /\ LET n == NameAt(line, s) IN
       /\ n # <<"line">>
       /\ IsCall(n)
       /\ call' = [NoCall EXCEPT !.name = n, !.after = AfterName(line, s), !.open = Opening]
  /\ s' = Opening + 1
  /\ status' = "args"
  /\ UNCHANGED <<macros, line, inComment, out, body, stack>>

EndLine ==
  /\ Reading
  /\ s > Len(line)
  /\ status' = "done"
  /\ UNCHANGED <<macros, line, s, inComment, out, call, body, stack>>

-----------------------------------------------------------------------------
(* parse_macro_args: s runs on through the line *)

InArgs == status = "args"
KeptByArgs == <<macros, line, inComment, body, stack>>

\* The list has ended at s: the call is expanded if it has as many arguments
\* as parameters, or at least as many, and otherwise its name is text.
Fits(m, n) == IF m.variadic THEN n >= Len(m.params) ELSE n = Len(m.params)

CloseCall(args, end) ==
  IF Fits(macros[call.name], Len(args))
  THEN /\ status' = "body"
       /\ call' = [call EXCEPT !.args = args, !.from = 0]
       /\ s' = end
       /\ UNCHANGED out
  ELSE /\ status' = "text"
       /\ call' = NoCall
       /\ out' = out \o call.name
       /\ s' = call.after

\* The head of the loop, in front of an argument or of the end.
BeginArg ==
  /\ InArgs /\ call.from = 0
  /\ LET q == SkipSpaces(line, s) IN
       CASE At(line, q) = "end" -> CloseCall(call.args, q)
         [] At(line, q) = ")" -> CloseCall(call.args, q + 1)
         [] OTHER -> /\ s' = q
                     /\ call' = [call EXCEPT !.from = q, !.depth = 0]
                     /\ UNCHANGED <<out, status>>
  /\ UNCHANGED KeptByArgs

\* Slip: every comma ends an argument.
ArgEndsAt_AnyComma(i) ==
  \/ At(line, i) \in {"end", ","}
  \/ At(line, i) = ")" /\ call.depth = 0

ArgEndsAt(i) ==
  \/ At(line, i) = "end"
  \/ At(line, i) \in {",", ")"} /\ call.depth = 0

ArgChar ==
  /\ InArgs /\ call.from > 0
  /\ ~ArgEndsAt(s)
  /\ s' = s + 1
  /\ call' = [call EXCEPT !.depth = CASE line[s] = "(" -> @ + 1
                                     [] line[s] = ")" -> @ - 1
                                     [] OTHER -> @]
  /\ UNCHANGED <<out, status, KeptByArgs>>

EndArg ==
  /\ InArgs /\ call.from > 0
  /\ ArgEndsAt(s)
  /\ LET args == Append(call.args, Trim(SubSeq(line, call.from, s - 1))) IN
       CASE At(line, s) = ")" -> CloseCall(args, s + 1)
         [] OTHER -> /\ s' = IF At(line, s) = "," THEN s + 1 ELSE s
                     /\ call' = [call EXCEPT !.args = args, !.from = 0]
                     /\ UNCHANGED <<out, status>>
  /\ UNCHANGED KeptByArgs

-----------------------------------------------------------------------------
(* expand_function_macro *)

Macro == macros[call.name]
InBody == status = "body" /\ body.p <= Len(Macro.value)
V(i) == At(Macro.value, body.p + i)

\* The arguments behind the parameters, with commas between them.
VaArgs ==
  LET first == Len(Macro.params) + 1
      Joined[i \in first .. Len(call.args) + 1] ==
        IF i > Len(call.args) THEN <<>>
        ELSE (IF i > first THEN <<",">> ELSE <<>>) \o call.args[i] \o Joined[i + 1]
  IN  IF first > Len(call.args) THEN <<>> ELSE Joined[first]

\* What a name of the value stands for: one text, or none.
Argument(n) ==
  IF Macro.variadic /\ n = <<"va">> THEN {VaArgs}
  ELSE {call.args[i] : i \in {j \in 1 .. Len(call.args) :
          /\ j <= Len(Macro.params) /\ Macro.params[j] = n
          /\ \A k \in 1 .. j - 1 : Macro.params[k] # n}}

\* sb_append_escaped_quoted
Stringified(t) ==
  LET Escaped[i \in 0 .. Len(t)] ==
        IF i = 0 THEN <<>>
        ELSE Escaped[i - 1]
               \o (IF t[i] \in {"quote", "backslash"} THEN <<"backslash">> ELSE <<>>)
               \o <<t[i]>>
  IN  <<"quote">> \o Escaped[Len(t)] \o <<"quote">>

ToBody(text, p) ==
  /\ body' = [p |-> p, out |-> text]
  /\ UNCHANGED <<macros, line, s, inComment, out, call, stack, status>>

AtPaste(i) == At(Macro.value, i) = "#" /\ At(Macro.value, i + 1) = "#"

Paste ==
  /\ InBody
  /\ AtPaste(body.p)
  /\ ToBody(TrimEnd(body.out), SkipSpaces(Macro.value, body.p + 2))

\* The name behind a single #, and what it stands for.
HashName == SkipSpaces(Macro.value, body.p + 1)
HashArgument ==
  IF V(0) = "#" /\ ~AtPaste(body.p) /\ StartsName(Macro.value, HashName)
  THEN Argument(NameAt(Macro.value, HashName)) ELSE {}

Stringify ==
  /\ InBody
  /\ \E arg \in HashArgument :
       ToBody(body.out \o Stringified(arg), AfterName(Macro.value, HashName))

\* `, ##__VA_ARGS__': where its last word is, or 0.
CommaPaste ==
  LET q == SkipSpaces(Macro.value, body.p + 1)
      r == SkipSpaces(Macro.value, q + 2) IN
    IF /\ V(0) = "," /\ Macro.variadic
       /\ AtPaste(q)
       /\ At(Macro.value, r) = "va" /\ At(Macro.value, r + 1) \notin IdentChar
    THEN r ELSE 0

OptionalArgs ==
  /\ InBody
  /\ CommaPaste > 0
  /\ ToBody(IF Len(call.args) <= Len(Macro.params) THEN body.out
            ELSE body.out \o <<",">> \o VaArgs,
            CommaPaste + 1)

BodyName ==
  /\ InBody
  /\ StartsName(Macro.value, body.p)
  /\ LET n == NameAt(Macro.value, body.p) IN
       IF Argument(n) = {} THEN ToBody(body.out \o n, AfterName(Macro.value, body.p))
       ELSE \E arg \in Argument(n) :
              ToBody(body.out \o arg, AfterName(Macro.value, body.p))

BodyChar ==
  /\ InBody
  /\ ~AtPaste(body.p) /\ HashArgument = {} /\ CommaPaste = 0
  /\ ~StartsName(Macro.value, body.p)
  /\ ToBody(Append(body.out, V(0)), body.p + 1)

\* The text is expanded again, for names of objects.
EndBody ==
  /\ status = "body"
  /\ body.p > Len(Macro.value)
  /\ stack' = <<Frame(body.out, 0)>>
  /\ body' = NoBody
  /\ call' = NoCall
  /\ status' = "text"
  /\ UNCHANGED <<macros, line, s, inComment, out>>

-----------------------------------------------------------------------------
(* expand_macros_in_text *)

Top == stack[Len(stack)]
Callers == SubSeq(stack, 1, Len(stack) - 1)
Expanding == stack # <<>> /\ Top.p <= Len(Top.text)

ToTop(text, to) ==
  /\ stack' = Append(Callers, [Top EXCEPT !.p = to, !.out = @ \o text])
  /\ UNCHANGED <<macros, line, s, inComment, out, call, body, status>>

FrameQuoted ==
  /\ Expanding /\ Top.text[Top.p] = "quote"
  /\ LET to == AfterQuoted(Top.text, Top.p) IN ToTop(SubSeq(Top.text, Top.p, to - 1), to)

FrameChar ==
  /\ Expanding
  /\ Top.text[Top.p] # "quote" /\ ~StartsName(Top.text, Top.p)
  /\ ToTop(<<Top.text[Top.p]>>, Top.p + 1)

FrameName ==
  /\ Expanding /\ StartsName(Top.text, Top.p)
  /\ LET n == NameAt(Top.text, Top.p) IN
       /\ n = <<"line">> \/ ~IsObject(n)
       /\ ToTop(IF n = <<"line">> THEN LineNumber ELSE n, AfterName(Top.text, Top.p))

\* Slip: the limit itself is too deep.
TooDeep_AtLimit(depth) == depth >= MaxDepth

TooDeep(depth) == depth > MaxDepth

\* Slip: the depth is handed on unchanged.
Deeper_Same(depth) == depth

Deeper(depth) == depth + 1

FrameObject ==
  /\ Expanding /\ StartsName(Top.text, Top.p)
  /\ LET n == NameAt(Top.text, Top.p)
         to == AfterName(Top.text, Top.p) IN
       /\ n # <<"line">> /\ IsObject(n)
       /\ IF TooDeep(Deeper(Top.depth)) THEN ToTop(macros[n].value, to)
          ELSE /\ stack' = Callers \o <<[Top EXCEPT !.p = to],
                                        Frame(macros[n].value, Deeper(Top.depth))>>
               /\ UNCHANGED <<macros, line, s, inComment, out, call, body, status>>

\* The text made is appended by the caller, the loop over the line at last.
EndFrame ==
  /\ stack # <<>>
  /\ Top.p > Len(Top.text)
  /\ IF Callers = <<>> THEN stack' = <<>> /\ out' = out \o Top.out
     ELSE /\ stack' = [Callers EXCEPT ![Len(Callers)].out = @ \o Top.out]
          /\ UNCHANGED out
  /\ UNCHANGED <<macros, line, s, inComment, call, body, status>>

Next ==
  \/ InComment \/ OpenComment \/ LineComment \/ Quoted \/ OtherChar
  \/ PlainName \/ LineName \/ ObjectName \/ BeginCall \/ EndLine
  \/ BeginArg \/ ArgChar \/ EndArg
  \/ Paste \/ Stringify \/ OptionalArgs \/ BodyName \/ BodyChar \/ EndBody
  \/ FrameQuoted \/ FrameChar \/ FrameName \/ FrameObject \/ EndFrame

(* One loop runs at a time, and none of them is left in the middle. *)
Spec == Init /\ [][Next]_vars /\ WF_vars(Next)

-----------------------------------------------------------------------------
(* However macros refer to each other, the calls of expand_macros_in_text   *)
(* are never deeper than the limit, and each knows how deep it is.          *)
CallsKeepTheLimit ==
  /\ Len(stack) <= MaxDepth + 1
  /\ \A i \in DOMAIN stack : stack[i].depth = i - 1

(* Types: every text made is of characters that a line may have, every      *)
(* place is in its text, and one loop runs at a time.                       *)
TypeOK ==
  /\ s \in 1 .. Len(line) + 1
  /\ inComment \in BOOLEAN
  /\ out \in Text
  /\ \A i \in DOMAIN call.args : call.args[i] \in Text
  /\ call.depth \in Nat
  /\ body.out \in Text
  /\ CallsKeepTheLimit
  /\ \A i \in DOMAIN stack :
       /\ stack[i].text \in Text /\ stack[i].out \in Text
       /\ stack[i].p \in 1 .. Len(stack[i].text) + 1
  /\ status \in {"text", "args", "body", "done"}
  /\ status \in {"args", "body"} => stack = <<>> /\ IsFunction(call.name)
  /\ status = "text" => call = NoCall

(* The arguments of a call are what the commas that are in no parentheses   *)
(* of their own divide it into, without the blanks around them; nothing     *)
(* behind the last comma is no argument, and a call that the line ends in   *)
(* ends with it.                                                            *)
Level(i) ==
  Cardinality({k \in call.open + 1 .. i - 1 : line[k] = "("})
    - Cardinality({k \in call.open + 1 .. i - 1 : line[k] = ")"})

IsClosing(i) ==
  /\ i = Len(line) + 1 \/ (line[i] = ")" /\ Level(i) = 0)
  /\ \A k \in call.open + 1 .. i - 1 : line[k] = ")" => Level(k) > 0

Divides(i, closing) == i = call.open \/ i = closing \/ (line[i] = "," /\ Level(i) = 0)

IsArg(arg, n, closing) ==
  \E from \in call.open .. closing, to \in call.open .. closing :
    /\ from < to
    /\ Divides(from, closing) /\ Divides(to, closing)
    /\ \A k \in from + 1 .. to - 1 : ~Divides(k, closing)
    /\ n = Cardinality({k \in call.open .. to - 1 : Divides(k, closing)})
    /\ arg = Trim(SubSeq(line, from + 1, to - 1))

ArgumentsAreDivided ==
  status = "body" /\ body = NoBody =>
    \E closing \in call.open + 1 .. Len(line) + 1 :
      /\ IsClosing(closing)
      /\ s = IF closing > Len(line) THEN closing ELSE closing + 1
      /\ \A n \in DOMAIN call.args : IsArg(call.args[n], n, closing)
      /\ Cardinality({k \in call.open .. closing - 1 : Divides(k, closing)})
           \in {Len(call.args)} \cup (IF IsArg(<<>>, Len(call.args) + 1, closing)
                                    THEN {Len(call.args) + 1} ELSE {})

(* No name of an object is left in the line, if no chain of macros, each     *)
(* named in the value of the one before, is longer than the limit allows     *)
(* (so none stands for itself), and no name follows a call without anything  *)
(* between: what the call becomes and the name would be read as one.  A      *)
(* function's text is expanded at the depth where an object's value is, so   *)
(* its chains are shorter by one.  Names in quotes and comments aside.       *)
Marks == {"quote", "open", "close", "rest"}

\* A name that has begun before i, at the first letter of a run of letters and
\* digits, goes up to it.
InName(t, i) ==
  \E k \in 1 .. i - 1 : t[k] \in IdentStart /\ \A m \in k .. i - 1 : t[m] \in IdentChar

IsNameAt(t, i) == t[i] \in IdentStart /\ ~InName(t, i)

NamesIn(t) == {NameAt(t, i) : i \in {j \in 1 .. Len(t) : IsNameAt(t, j)}}

HasCalls == \E n \in DOMAIN macros : IsFunction(n)
LongestChain == IF HasCalls THEN MaxDepth + 1 ELSE MaxDepth + 2

IsChain(c, n) == \A k \in 1 .. n - 1 : c[k + 1] \in NamesIn(macros[c[k]].value)

ChainsAreShort ==
  \A c \in [1 .. LongestChain + 1 -> {n \in DOMAIN macros : IsObject(n)}] :
    ~IsChain(c, LongestChain + 1)

CallsStandApart ==
  HasCalls => \A i \in 1 .. Len(line) : line[i] = ")" => At(line, i + 1) \notin IdentChar

NothingIsLeft ==
  /\ status = "done" /\ ~inComment
  /\ \A i \in 1 .. Len(out) : out[i] \notin Marks
  /\ ChainsAreShort /\ CallsStandApart
  => \A n \in NamesIn(out) : ~IsObject(n)
=============================================================================
