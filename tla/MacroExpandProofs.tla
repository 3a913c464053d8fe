--------------------------- MODULE MacroExpandProofs ---------------------------
(***************************************************************************)
(* What holds of the expansion of a line for any lines and any macros: the *)
(* recursion of expand_macros_in_text is bounded by its limit, the texts   *)
(* and places that the loops keep are well formed, and parse_macro_args    *)
(* cuts a call where its commas and its bracket divide it.  For the limit  *)
(* nothing has to be known of the texts: only EndBody and ObjectName begin *)
(* a call, at depth 0, and FrameObject goes one deeper.                    *)
(* What is left of the macros is followed along chains: a call at some     *)
(* depth reads names that a chain as long as that leads to.                *)
(***************************************************************************)
EXTENDS MacroExpand, SequenceTheorems, FiniteSetTheorems, WellFoundedInduction, TLAPS

\* A record as Frame makes it; the texts in it may be anything.
IsFrame(f) == f \in [text : {f.text}, p : {f.p}, out : {f.out}, depth : {f.depth}]

CallsInv ==
  /\ \E F : stack \in Seq(F)
  /\ \A i \in DOMAIN stack : IsFrame(stack[i])
  /\ CallsKeepTheLimit

LEMMA FrameGoesOn ==
  ASSUME NEW f, IsFrame(f), NEW to, NEW text
  PROVE  /\ IsFrame([f EXCEPT !.p = to, !.out = text])
         /\ [f EXCEPT !.p = to, !.out = text].depth = f.depth
<1> DEFINE g == [f EXCEPT !.p = to, !.out = text]
<1>1. g \in [text : {f.text}, p : {to}, out : {text}, depth : {f.depth}]
  BY DEF IsFrame
<1> HIDE DEF g
<1>2. g.text = f.text /\ g.p = to /\ g.out = text /\ g.depth = f.depth  BY <1>1
<1>3. IsFrame(g)  BY <1>1, <1>2 DEF IsFrame
<1>4. QED  BY <1>2, <1>3 DEF g

LEMMA TopIsAFrame ==
  ASSUME CallsInv, stack # <<>>
  PROVE  /\ Len(stack) \in Nat \ {0}
         /\ IsFrame(Top)
         /\ Top.depth = Len(stack) - 1
  BY DEF CallsInv, CallsKeepTheLimit, Top

LEMMA CallersAreBelow ==
  ASSUME NEW F, stack \in Seq(F), Len(stack) \in Nat \ {0}
  PROVE  /\ Callers \in Seq(F) /\ Len(Callers) = Len(stack) - 1
         /\ \A i \in 1 .. Len(stack) - 1 : Callers[i] = stack[i]
<1> DEFINE n == Len(stack) - 1
<1>1. n \in Nat /\ n <= Len(stack)  OBVIOUS
<1>2. \A i \in 1 .. n : stack[i] \in F
  <2>1. \A i \in 1 .. Len(stack) : stack[i] \in F  OBVIOUS
  <2>2. QED  BY <1>1, <2>1
<1>3. /\ SubSeq(stack, 1, n) \in Seq(F)
      /\ Len(SubSeq(stack, 1, n)) = IF 1 <= n THEN n - 1 + 1 ELSE 0
      /\ \A i \in 1 .. n - 1 + 1 : SubSeq(stack, 1, n)[i] = stack[1 + i - 1]
  BY <1>1, <1>2, SubSeqProperties
<1> HIDE DEF n
<1>4. Len(SubSeq(stack, 1, n)) = n
  <2>1. CASE n = 0  BY <1>3, <2>1
  <2>2. CASE n # 0  BY <1>1, <1>3, <2>2
  <2>3. QED  BY <2>1, <2>2
<1>5. \A i \in 1 .. n : SubSeq(stack, 1, n)[i] = stack[i]  BY <1>1, <1>3
<1>6. Callers = SubSeq(stack, 1, n) /\ n = Len(stack) - 1  BY DEF Callers, n
<1>7. QED  BY <1>3, <1>4, <1>5, <1>6

\* What the invariant needs of a stack whose lower calls are as they were.
LEMMA CallsAbove ==
  ASSUME CallsInv,
         NEW F, NEW q \in Seq(F), Len(q) <= MaxDepth + 1,
         NEW n \in Nat, n <= Len(stack), n <= Len(q),
         \A i \in 1 .. n : q[i] = stack[i],
         \A i \in n + 1 .. Len(q) : IsFrame(q[i]) /\ q[i].depth = i - 1,
         stack' = q
  PROVE  CallsInv'
<1>1. PICK G : stack \in Seq(G)  BY DEF CallsInv
<1>2. DOMAIN q = 1 .. Len(q) /\ DOMAIN stack = 1 .. Len(stack)  BY <1>1
<1>3. Len(q) \in Nat /\ Len(stack) \in Nat  BY <1>1
<1>4. \A i \in DOMAIN q : IsFrame(q[i]) /\ q[i].depth = i - 1
  <2>1. SUFFICES ASSUME NEW i \in 1 .. Len(q)
                 PROVE  IsFrame(q[i]) /\ q[i].depth = i - 1
    BY <1>2
  <2>2. CASE i \in 1 .. n
    <3>1. i \in DOMAIN stack  BY <1>2, <1>3, <2>2
    <3>2. QED  BY <2>2, <3>1 DEF CallsInv, CallsKeepTheLimit
  <2>3. CASE i \notin 1 .. n
    <3>1. i \in n + 1 .. Len(q)  BY <1>3, <2>3
    <3>2. QED  BY <3>1
  <2>4. QED  BY <2>2, <2>3
<1>5. QED  BY <1>4 DEF CallsInv, CallsKeepTheLimit

\* The call on top goes on with its text.
LEMMA TopGoesOn ==
  ASSUME CallsInv, stack # <<>>,
         NEW f, IsFrame(f), f.depth = Top.depth,
         stack' = Append(Callers, f)
  PROVE  CallsInv'
<1>1. PICK F : stack \in Seq(F)  BY DEF CallsInv
<1>2. Len(stack) \in Nat \ {0} /\ Top.depth = Len(stack) - 1  BY TopIsAFrame
<1>3. /\ Callers \in Seq(F) /\ Len(Callers) = Len(stack) - 1
      /\ \A i \in 1 .. Len(stack) - 1 : Callers[i] = stack[i]
  BY <1>1, <1>2, CallersAreBelow
<1> DEFINE q == Append(Callers, f)
           n == Len(stack) - 1
<1>4. /\ q \in Seq(F \cup {f}) /\ Len(q) = Len(stack)
      /\ q[Len(stack)] = f
      /\ \A i \in 1 .. n : q[i] = stack[i]
  <2>1. Callers \in Seq(F \cup {f})  BY <1>3
  <2>2. QED  BY <1>2, <1>3, <2>1
<1>5. \A i \in n + 1 .. Len(q) : IsFrame(q[i]) /\ q[i].depth = i - 1
  BY <1>2, <1>4
<1>6. Len(q) <= MaxDepth + 1 /\ n \in Nat /\ n <= Len(stack) /\ n <= Len(q)
  BY <1>2, <1>4 DEF CallsInv, CallsKeepTheLimit
<1> HIDE DEF q, n
<1>7. QED  BY <1>4, <1>5, <1>6, CallsAbove DEF q

LEMMA FirstCall ==
  ASSUME CallsInv, NEW t, stack' = <<Frame(t, 0)>>
  PROVE  CallsInv'
<1>1. <<Frame(t, 0)>> \in Seq({Frame(t, 0)})  OBVIOUS
<1>2. \A i \in DOMAIN <<Frame(t, 0)>> :
        IsFrame(<<Frame(t, 0)>>[i]) /\ <<Frame(t, 0)>>[i].depth = i - 1
  BY DEF IsFrame, Frame
<1>3. Len(<<Frame(t, 0)>>) <= MaxDepth + 1  BY DepthAssumption
<1>4. QED  BY <1>1, <1>2, <1>3 DEF CallsInv, CallsKeepTheLimit

\* The call on top reads a macro and is called again with its value.
LEMMA NextCall ==
  ASSUME CallsInv, stack # <<>>,
         NEW f, IsFrame(f), f.depth = Top.depth,
         NEW t, ~TooDeep(Deeper(Top.depth)),
         stack' = Callers \o <<f, Frame(t, Deeper(Top.depth))>>
  PROVE  CallsInv'
<1>1. PICK F : stack \in Seq(F)  BY DEF CallsInv
<1>2. Len(stack) \in Nat \ {0} /\ Top.depth = Len(stack) - 1  BY TopIsAFrame
<1>3. /\ Callers \in Seq(F) /\ Len(Callers) = Len(stack) - 1
      /\ \A i \in 1 .. Len(stack) - 1 : Callers[i] = stack[i]
  BY <1>1, <1>2, CallersAreBelow
<1> DEFINE g == Frame(t, Deeper(Top.depth))
           q == Callers \o <<f, g>>
           n == Len(stack) - 1
<1>4. IsFrame(g) /\ g.depth = Len(stack)
  BY <1>2 DEF IsFrame, Frame, Deeper
<1>5. /\ q \in Seq(F \cup {f, g}) /\ Len(q) = Len(stack) + 1
      /\ q[Len(stack)] = f /\ q[Len(stack) + 1] = g
      /\ \A i \in 1 .. n : q[i] = stack[i]
  <2> HIDE DEF g
  <2>1. Callers \in Seq(F \cup {f, g}) /\ <<f, g>> \in Seq(F \cup {f, g})  BY <1>3
  <2>2. /\ q \in Seq(F \cup {f, g}) /\ Len(q) = Len(Callers) + 2
        /\ \A i \in 1 .. Len(Callers) : q[i] = Callers[i]
        /\ \A i \in 1 .. 2 : q[Len(Callers) + i] = <<f, g>>[i]
    BY <2>1, ConcatProperties
  <2>3. q[Len(Callers) + 1] = f /\ q[Len(Callers) + 2] = g  BY <2>2
  <2> HIDE DEF q
  <2>4. QED  BY <1>2, <1>3, <2>2, <2>3
<1>6. \A i \in n + 1 .. Len(q) : IsFrame(q[i]) /\ q[i].depth = i - 1
  <2> HIDE DEF g, q
  <2>1. \A i \in n + 1 .. Len(q) : i = Len(stack) \/ i = Len(stack) + 1  BY <1>2, <1>5
  <2>2. QED  BY <1>2, <1>4, <1>5, <2>1
<1>7. Len(q) <= MaxDepth + 1 /\ n \in Nat /\ n <= Len(stack) /\ n <= Len(q)
  <2>1. Len(stack) <= MaxDepth  BY <1>2, DepthAssumption DEF TooDeep, Deeper
  <2>2. QED  BY <1>2, <1>5, <2>1, DepthAssumption
<1>8. stack' = q  OBVIOUS
<1> HIDE DEF q, n, g
<1>9. QED  BY <1>5, <1>6, <1>7, <1>8, CallsAbove

\* A call returns, and its caller appends the text.
LEMMA CallReturns ==
  ASSUME CallsInv, stack # <<>>, Callers # <<>>,
         NEW t, stack' = [Callers EXCEPT ![Len(Callers)].out = t]
  PROVE  CallsInv'
<1>1. PICK F : stack \in Seq(F)  BY DEF CallsInv
<1>2. Len(stack) \in Nat \ {0}  BY TopIsAFrame
<1>3. /\ Callers \in Seq(F) /\ Len(Callers) = Len(stack) - 1
      /\ \A i \in 1 .. Len(stack) - 1 : Callers[i] = stack[i]
  BY <1>1, <1>2, CallersAreBelow
<1> DEFINE m == Len(stack) - 1
           f == [Callers[m] EXCEPT !.out = t]
           q == [Callers EXCEPT ![m] = f]
           n == m - 1
<1>4. m \in Nat \ {0}  BY <1>2, <1>3
<1>5. IsFrame(Callers[m]) /\ Callers[m].depth = m - 1
  BY <1>1, <1>2, <1>3, <1>4 DEF CallsInv, CallsKeepTheLimit
<1>6. IsFrame(f) /\ f.depth = m - 1  BY <1>5 DEF IsFrame
<1>7. /\ q \in Seq(F \cup {f}) /\ Len(q) = m /\ q[m] = f
      /\ \A i \in 1 .. n : q[i] = stack[i]
  <2> HIDE DEF f
  <2>1. Callers \in Seq(F \cup {f})  BY <1>3
  <2>2. QED  BY <1>3, <1>4, <2>1
<1>8. \A i \in n + 1 .. Len(q) : IsFrame(q[i]) /\ q[i].depth = i - 1
  <2> HIDE DEF f, q
  <2>1. QED  BY <1>4, <1>6, <1>7
<1>9. Len(q) <= MaxDepth + 1 /\ n \in Nat /\ n <= Len(stack) /\ n <= Len(q)
  BY <1>2, <1>4, <1>7, DepthAssumption DEF CallsInv, CallsKeepTheLimit
<1>10. stack' = q  BY <1>3
<1> HIDE DEF q, n, m, f
<1>11. QED  BY <1>7, <1>8, <1>9, <1>10, CallsAbove

-----------------------------------------------------------------------------
LEMMA ToTopKeepsCalls ==
  ASSUME CallsInv, Expanding, NEW text, NEW to, ToTop(text, to)
  PROVE  CallsInv'
<1> DEFINE f == [Top EXCEPT !.p = to, !.out = Top.out \o text]
<1>1. IsFrame(Top)  BY TopIsAFrame DEF Expanding
<1>2. IsFrame(f) /\ f.depth = Top.depth  BY <1>1, FrameGoesOn
<1>3. stack' = Append(Callers, f)  BY DEF ToTop
<1> HIDE DEF f
<1>4. QED  BY <1>2, <1>3, TopGoesOn DEF Expanding

LEMMA FrameObjectKeepsCalls ==
  ASSUME CallsInv, FrameObject
  PROVE  CallsInv'
<1> DEFINE v == macros[NameAt(Top.text, Top.p)].value
           to == AfterName(Top.text, Top.p)
           f == [Top EXCEPT !.p = to]
<1>1. CASE TooDeep(Deeper(Top.depth))
  <2>1. Expanding /\ ToTop(v, to)  BY <1>1 DEF FrameObject
  <2>2. QED  BY <2>1, ToTopKeepsCalls
<1>2. CASE ~TooDeep(Deeper(Top.depth))
  <2>1. Expanding /\ stack' = Callers \o <<f, Frame(v, Deeper(Top.depth))>>
    BY <1>2 DEF FrameObject
  <2>2. IsFrame(Top)  BY <2>1, TopIsAFrame DEF Expanding
  <2>3. IsFrame(f) /\ f.depth = Top.depth  BY <2>2 DEF IsFrame
  <2> HIDE DEF f, v
  <2>4. QED  BY <1>2, <2>1, <2>3, NextCall DEF Expanding
<1>3. QED  BY <1>1, <1>2

LEMMA EndFrameKeepsCalls ==
  ASSUME CallsInv, EndFrame
  PROVE  CallsInv'
<1>1. CASE Callers = <<>>
  <2>1. stack' = <<>>  BY <1>1 DEF EndFrame
  <2>2. QED  BY <2>1, DepthAssumption DEF CallsInv, CallsKeepTheLimit
<1>2. CASE Callers # <<>>
  <2> DEFINE t == Callers[Len(Callers)].out \o Top.out
  <2>1. stack' = [Callers EXCEPT ![Len(Callers)].out = t]
    BY <1>2 DEF EndFrame
  <2> HIDE DEF t
  <2>2. QED  BY <1>2, <2>1, CallReturns DEF EndFrame
<1>3. QED  BY <1>1, <1>2

-----------------------------------------------------------------------------
\* The actions that read the line or a value begin and end no call.
ReadsLine ==
  InComment \/ OpenComment \/ LineComment \/ Quoted \/ OtherChar \/ PlainName \/ LineName
    \/ BeginCall \/ EndLine
ReadsArgs == BeginArg \/ ArgChar \/ EndArg
MakesBody == Paste \/ Stringify \/ OptionalArgs \/ BodyName \/ BodyChar

LEMMA ReadingKeepsCalls ==
  ASSUME ReadsLine \/ ReadsArgs \/ MakesBody
  PROVE  stack' = stack
<1>1. CASE ReadsLine
  BY <1>1 DEF ReadsLine, InComment, OpenComment, LineComment, Quoted, OtherChar, PlainName,
              LineName, BeginCall, EndLine, Copy
<1>2. CASE ReadsArgs
  BY <1>2 DEF ReadsArgs, BeginArg, ArgChar, EndArg, KeptByArgs
<1>3. CASE MakesBody
  <2>1. ASSUME NEW text, NEW to, ToBody(text, to) PROVE stack' = stack
    BY <2>1 DEF ToBody
  <2>2. CASE Paste  BY <2>1, <2>2 DEF Paste
  <2>3. CASE Stringify  BY <2>1, <2>3 DEF Stringify
  <2>4. CASE OptionalArgs  BY <2>1, <2>4 DEF OptionalArgs
  <2>5. CASE BodyName  BY <2>1, <2>5 DEF BodyName
  <2>6. CASE BodyChar  BY <2>1, <2>6 DEF BodyChar
  <2>7. QED  BY <1>3, <2>2, <2>3, <2>4, <2>5, <2>6 DEF MakesBody
<1>4. QED  BY <1>1, <1>2, <1>3

LEMMA InitHasNoCalls == Init => CallsInv
<1>1. SUFFICES ASSUME Init PROVE CallsInv  OBVIOUS
<1>2. stack = <<>>  BY <1>1 DEF Init
<1>3. stack \in Seq({}) /\ DOMAIN stack = {} /\ Len(stack) = 0  BY <1>2
<1>4. QED  BY <1>3, DepthAssumption DEF CallsInv, CallsKeepTheLimit

LEMMA NextKeepsCalls == CallsInv /\ [Next]_vars => CallsInv'
<1>1. SUFFICES ASSUME CallsInv, [Next]_vars PROVE CallsInv'  OBVIOUS
<1>2. CASE stack' = stack  BY <1>1, <1>2 DEF CallsInv, CallsKeepTheLimit
<1>3. CASE ReadsLine \/ ReadsArgs \/ MakesBody  BY <1>2, <1>3, ReadingKeepsCalls
<1>4. CASE ObjectName
  <2>1. stack' = <<Frame(macros[NameAt(line, s)].value, 0)>>  BY <1>4 DEF ObjectName
  <2>2. QED  BY <1>1, <2>1, FirstCall
<1>5. CASE EndBody
  <2>1. stack' = <<Frame(body.out, 0)>>  BY <1>5 DEF EndBody
  <2>2. QED  BY <1>1, <2>1, FirstCall
<1>6. CASE FrameQuoted  BY <1>1, <1>6, ToTopKeepsCalls DEF FrameQuoted
<1>7. CASE FrameChar  BY <1>1, <1>7, ToTopKeepsCalls DEF FrameChar
<1>8. CASE FrameName  BY <1>1, <1>8, ToTopKeepsCalls DEF FrameName
<1>9. CASE FrameObject  BY <1>1, <1>9, FrameObjectKeepsCalls
<1>10. CASE EndFrame  BY <1>1, <1>10, EndFrameKeepsCalls
<1>11. CASE UNCHANGED vars  BY <1>2, <1>11 DEF vars
<1>12. QED
  BY <1>1, <1>3, <1>4, <1>5, <1>6, <1>7, <1>8, <1>9, <1>10, <1>11
  DEF Next, ReadsLine, ReadsArgs, MakesBody

(* For every limit, line and macro table, the calls of                      *)
(* expand_macros_in_text never nest deeper than the limit, and each is one  *)
(* deeper than its caller.                                                  *)
THEOREM ExpansionKeepsItsLimit == Spec => []CallsKeepTheLimit
<1>1. CallsInv => CallsKeepTheLimit  BY DEF CallsInv
<1>2. QED  BY InitHasNoCalls, NextKeepsCalls, <1>1, PTL DEF Spec

-----------------------------------------------------------------------------
(* Least and greatest numbers *)

LEMMA Least ==
  ASSUME NEW T, T \subseteq Nat, T # {}
  PROVE  \E x \in T : \A y \in T : x <= y
<1> DEFINE R == OpToRel(<, Nat)
<1>1. IsWellFoundedOn(R, Nat)  BY NatLessThanWellFounded
<1>2. \A x \in Nat, y \in Nat : x < y => <<x, y>> \in R  BY DEF OpToRel
<1> HIDE DEF R
<1>3. PICK x \in T : \A y \in T : ~ (<<y, x>> \in R)  BY <1>1, WFMin
<1>4. \A y \in T : ~ (y < x)  BY <1>2, <1>3
<1>5. \A y \in T : x <= y  BY <1>4
<1>6. QED  BY <1>5

LEMMA Greatest ==
  ASSUME NEW T, NEW b \in Nat, T \subseteq 0 .. b, T # {}
  PROVE  \E x \in T : \A y \in T : y <= x
<1> DEFINE U == {n \in 0 .. b : b - n \in T}
<1>1. U \subseteq Nat /\ U # {}
  <2>1. PICK x : x \in T  OBVIOUS
  <2>2. b - x \in 0 .. b /\ b - (b - x) = x  BY <2>1
  <2>3. b - x \in U  BY <2>1, <2>2
  <2>4. U \subseteq Nat  OBVIOUS
  <2>5. QED  BY <2>3, <2>4
<1>2. PICK u \in U : \A v \in U : u <= v  BY <1>1, Least
<1>3. b - u \in T  BY <1>2
<1>4. \A y \in T : y <= b - u
  <2>1. TAKE y \in T
  <2>2. b - y \in 0 .. b /\ b - (b - y) = y  OBVIOUS
  <2>3. b - y \in U  BY <2>2
  <2>4. QED  BY <1>2, <2>3
<1>5. QED  BY <1>3, <1>4

-----------------------------------------------------------------------------
(* Texts: pieces of them, and what the reading of one ends at *)

Ch == IdentChar \cup Other

LEMMA Characters ==
  /\ Text = Seq(Ch)
  /\ "end" \notin Ch /\ "end" \notin IdentChar /\ "end" \notin {"blank"}
  /\ IdentStart \subseteq IdentChar /\ IdentChar \subseteq Ch
  /\ IdentChar \cap Other = {}
  /\ {"quote", "backslash", "1", ","} \subseteq Ch
  BY LettersAssumption DEF Text, Ch, IdentChar, IdentStart, Other

LEMMA Pieces ==
  ASSUME NEW C, NEW t \in Seq(C), NEW i \in 1 .. Len(t) + 1, NEW j \in 0 .. Len(t)
  PROVE  /\ SubSeq(t, i, j) \in Seq(C)
         /\ Len(SubSeq(t, i, j)) = IF i <= j THEN j - i + 1 ELSE 0
         /\ \A k \in 1 .. j - i + 1 : SubSeq(t, i, j)[k] = t[i + k - 1]
<1>1. \A k \in i .. j : t[k] \in C
  <2>1. Len(t) \in Nat /\ \A k \in 1 .. Len(t) : t[k] \in C  OBVIOUS
  <2>2. i .. j \subseteq 1 .. Len(t)  BY <2>1
  <2>3. QED  BY <2>1, <2>2
<1>2. i \in Int /\ j \in Int  OBVIOUS
<1>3. QED  BY <1>1, <1>2, SubSeqProperties

LEMMA PastEnds ==
  ASSUME NEW S, "end" \notin S, NEW C, NEW t \in Seq(C), NEW i \in 1 .. Len(t) + 1
  PROVE  /\ Past(S, t, i) \in i .. Len(t) + 1
         /\ At(t, Past(S, t, i)) \notin S
         /\ \A k \in i .. Past(S, t, i) - 1 : t[k] \in S
<1> DEFINE T == {j \in i .. Len(t) + 1 : At(t, j) \notin S}
<1>0. Len(t) \in Nat  OBVIOUS
<1>1. T \subseteq Nat  OBVIOUS
<1>2. Len(t) + 1 \in T  BY <1>0 DEF At
<1>3. PICK j \in T : \A k \in T : j <= k  BY <1>1, <1>2, Least
<1>4. \A k \in i .. j - 1 : t[k] \in S
  <2>1. TAKE k \in i .. j - 1
  <2>2. k \in 1 .. Len(t) /\ k \in i .. Len(t) + 1 /\ k < j  BY <1>0, <1>3
  <2>3. At(t, k) \in S  BY <1>3, <2>2
  <2>4. QED  BY <2>2, <2>3 DEF At
<1>5. \E m \in i .. Len(t) + 1 : At(t, m) \notin S /\ \A k \in i .. m - 1 : t[k] \in S
  BY <1>3, <1>4
<1>6. QED  BY <1>5 DEF Past

LEMMA BlanksEnd ==
  ASSUME NEW C, NEW t \in Seq(C), NEW i \in 1 .. Len(t) + 1
  PROVE  /\ SkipSpaces(t, i) \in i .. Len(t) + 1
         /\ At(t, SkipSpaces(t, i)) # "blank"
         /\ \A k \in i .. SkipSpaces(t, i) - 1 : t[k] = "blank"
  BY PastEnds, Characters DEF SkipSpaces

LEMMA NamesEnd ==
  ASSUME NEW C, NEW t \in Seq(C), NEW i \in 1 .. Len(t) + 1
  PROVE  /\ AfterName(t, i) \in i .. Len(t) + 1
         /\ NameAt(t, i) \in Seq(IdentChar)
<1> DEFINE j == AfterName(t, i)
<1>1. j \in i .. Len(t) + 1 /\ \A k \in i .. j - 1 : t[k] \in IdentChar
  BY PastEnds, Characters DEF AfterName
<1> HIDE DEF j
<1>2. i \in Int /\ j - 1 \in Int  BY <1>1
<1>3. SubSeq(t, i, j - 1) \in Seq(IdentChar)  BY <1>1, <1>2, SubSeqProperties
<1>4. QED  BY <1>1, <1>3 DEF NameAt, j

LEMMA TrimsToText ==
  ASSUME NEW C, NEW t \in Seq(C)
  PROVE  TrimEnd(t) \in Seq(C) /\ Trim(t) \in Seq(C)
<1>1. ASSUME NEW u \in Seq(C) PROVE TrimEnd(u) \in Seq(C)
  <2> DEFINE T == {n \in 0 .. Len(u) : At(u, n) # "blank"}
             Ends(n) == At(u, n) # "blank" /\ \A k \in n + 1 .. Len(u) : u[k] = "blank"
  <2>1. Len(u) \in Nat  OBVIOUS
  <2>2. 0 \in T  BY <2>1 DEF At
  <2>3. PICK n \in T : \A k \in T : k <= n  BY <2>1, <2>2, Greatest
  <2>4. \A k \in n + 1 .. Len(u) : u[k] = "blank"
    <3>1. TAKE k \in n + 1 .. Len(u)
    <3>2. k \in 1 .. Len(u) /\ k \in 0 .. Len(u) /\ ~(k <= n)  BY <2>1, <2>3
    <3>3. k \notin T  BY <2>3, <3>2
    <3>4. QED  BY <3>2, <3>3 DEF At
  <2>5. \E m \in 0 .. Len(u) : Ends(m)  BY <2>3, <2>4
  <2> DEFINE m == CHOOSE m \in 0 .. Len(u) : Ends(m)
  <2>6. m \in 0 .. Len(u)
    <3> HIDE DEF Ends
    <3>1. QED  BY <2>5
  <2>7. TrimEnd(u) = SubSeq(u, 1, m)  BY DEF TrimEnd
  <2> HIDE DEF m
  <2>8. 1 \in 1 .. Len(u) + 1  BY <2>1
  <2>9. QED  BY <2>6, <2>7, <2>8, Pieces
<1>2. SubSeq(t, SkipSpaces(t, 1), Len(t)) \in Seq(C)
  <2>1. Len(t) \in Nat  OBVIOUS
  <2>2. 1 \in 1 .. Len(t) + 1 /\ Len(t) \in 0 .. Len(t)  BY <2>1
  <2>3. SkipSpaces(t, 1) \in 1 .. Len(t) + 1  BY <2>2, BlanksEnd
  <2>4. QED  BY <2>2, <2>3, Pieces
<1>3. QED  BY <1>1, <1>2 DEF Trim

-----------------------------------------------------------------------------
(* The recursive functions: that there is one is shown by the least number  *)
(* of places for which there is none, and what its values are likewise.     *)

LEMMA QuotesEnd ==
  ASSUME NEW C, NEW t \in Seq(C), NEW i \in 1 .. Len(t)
  PROVE  AfterQuoted(t, i) \in i + 1 .. Len(t) + 1
<1> DEFINE n == Len(t)
           Turn(f, k) == IF k > n THEN k
                         ELSE IF t[k] = "quote" THEN k + 1
                         ELSE IF t[k] = "backslash" /\ k < n THEN f[k + 2]
                         ELSE f[k + 1]
           Solves(f, b) == f = [k \in b .. n + 1 |-> Turn(f, k)]
           After[k \in i + 1 .. Len(t) + 1] ==
             IF k > Len(t) THEN k
             ELSE IF t[k] = "quote" THEN k + 1
             ELSE IF t[k] = "backslash" /\ k < Len(t) THEN After[k + 2]
             ELSE After[k + 1]
<1>1. n \in Nat /\ i \in Nat /\ i <= n  OBVIOUS
<1>2. \E f : Solves(f, i + 1)
  <2> DEFINE Bad == {j \in 0 .. n - i : ~ \E f : Solves(f, n + 1 - j)}
  <2>1. CASE Bad = {}
    <3>1. n - i \in 0 .. n - i /\ n + 1 - (n - i) = i + 1  BY <1>1
    <3>2. n - i \notin Bad  BY <2>1
    <3>3. \E f : Solves(f, n + 1 - (n - i))
      <4> HIDE DEF Solves
      <4>1. QED  BY <3>1, <3>2
    <3>4. QED  BY <3>1, <3>3
  <2>2. CASE Bad # {}
    <3>0. Bad \subseteq Nat  BY <1>1
    <3>1. PICK j \in Bad : \A y \in Bad : j <= y
      <4> HIDE DEF Bad
      <4>1. QED  BY <2>2, <3>0, Least
    <3>2. j \in 0 .. n - i /\ ~ \E f : Solves(f, n + 1 - j)  BY <3>1
    <3>3. j # 0
      <4>1. SUFFICES ASSUME j = 0 PROVE FALSE  OBVIOUS
      <4> DEFINE f == [k \in n + 1 .. n + 1 |-> k]
      <4>2. \A k \in n + 1 .. n + 1 : Turn(f, k) = k  BY <1>1
      <4>3. Solves(f, n + 1)
        <5> HIDE DEF Turn
        <5>1. QED  BY <4>2
      <4>4. n + 1 - j = n + 1  BY <1>1, <4>1
      <4> HIDE DEF Solves
      <4>5. QED  BY <3>2, <4>3, <4>4
    <3> DEFINE b == n + 1 - j
    <3>4. j - 1 \in 0 .. n - i /\ n + 1 - (j - 1) = b + 1 /\ b \in Nat /\ b <= n
      BY <1>1, <3>2, <3>3
    <3>5. j - 1 \notin Bad
      <4> HIDE DEF Bad
      <4>1. j \in Int /\ ~(j <= j - 1)  BY <3>2
      <4>2. QED  BY <3>1, <4>1
    <3>6. \E f : Solves(f, b + 1)
      <4>1. \E f : Solves(f, n + 1 - (j - 1))
        <5> HIDE DEF Solves
        <5>1. QED  BY <3>4, <3>5
      <4> HIDE DEF Solves, b
      <4>2. QED  BY <3>4, <4>1
    <3>7. PICK f : Solves(f, b + 1)  BY <3>6
    <3> DEFINE g == [k \in b .. n + 1 |-> IF k = b THEN Turn(f, b) ELSE f[k]]
    <3> HIDE DEF b, n
    <3>8. \A k \in b + 1 .. n + 1 : g[k] = f[k] /\ f[k] = Turn(f, k)
      <4>1. \A k \in b + 1 .. n + 1 : k # b /\ k \in b .. n + 1  BY <3>4
      <4>2. \A k \in b + 1 .. n + 1 : f[k] = Turn(f, k)  BY <3>7
      <4> HIDE DEF Turn
      <4>3. QED  BY <4>1, <4>2
    <3>9. g[b] = Turn(f, b)
      <4> HIDE DEF Turn
      <4>1. QED  BY <1>1, <3>4
    <3> HIDE DEF g
    <3>10. \A k \in b .. n + 1 : Turn(g, k) = Turn(f, k)
      <4>1. TAKE k \in b .. n + 1
      <4>2. CASE k > n  BY <4>2
      <4>3. CASE k = n
        <5>1. k + 1 \in b + 1 .. n + 1 /\ ~(k < n) /\ ~(k > n)  BY <1>1, <3>4, <4>3
        <5>2. g[k + 1] = f[k + 1]  BY <3>8, <5>1
        <5>3. QED  BY <5>1, <5>2
      <4>4. CASE k < n
        <5>1. k + 1 \in b + 1 .. n + 1 /\ k + 2 \in b + 1 .. n + 1  BY <1>1, <3>4, <4>4
        <5>2. g[k + 1] = f[k + 1] /\ g[k + 2] = f[k + 2]  BY <3>8, <5>1
        <5>3. QED  BY <5>1, <5>2
      <4>5. QED  BY <1>1, <3>4, <4>2, <4>3, <4>4
    <3>11. \A k \in b .. n + 1 : g[k] = Turn(g, k)
      <4> HIDE DEF Turn
      <4>1. TAKE k \in b .. n + 1
      <4>2. CASE k = b  BY <3>9, <3>10, <4>2
      <4>3. CASE k # b
        <5>1. k \in b + 1 .. n + 1  BY <1>1, <3>4, <4>3
        <5>2. QED  BY <3>8, <3>10, <5>1
      <4>4. QED  BY <4>2, <4>3
    <3>12. Solves(g, b)
      <4> HIDE DEF Turn
      <4>1. g = [k \in b .. n + 1 |-> g[k]]  BY DEF g
      <4>2. QED  BY <3>11, <4>1
    <3> HIDE DEF Solves
    <3>13. QED  BY <3>2, <3>12 DEF b
  <2>3. QED  BY <2>1, <2>2
<1>3. After = CHOOSE f : Solves(f, i + 1)  OBVIOUS
<1>4. Solves(After, i + 1)
  <2> HIDE DEF Solves, After
  <2>1. QED  BY <1>2, <1>3
<1> HIDE DEF After
<1>5. \A k \in i + 1 .. n + 1 : After[k] = Turn(After, k)
  <2> HIDE DEF Turn
  <2>1. QED  BY <1>4
<1>6. \A k \in i + 1 .. n + 1 : After[k] \in k .. n + 1
  <2> DEFINE Bad == {k \in i + 1 .. n + 1 : After[k] \notin k .. n + 1}
  <2>1. SUFFICES ASSUME Bad # {} PROVE FALSE  OBVIOUS
  <2>2. Bad \subseteq 0 .. n + 1  BY <1>1
  <2>3. PICK k \in Bad : \A y \in Bad : y <= k
    <3> HIDE DEF Bad
    <3>1. n + 1 \in Nat  BY <1>1
    <3>2. QED  BY <2>1, <2>2, <3>1, Greatest
  <2> HIDE DEF n
  <2>4. k \in i + 1 .. n + 1 /\ After[k] \notin k .. n + 1  BY <2>3
  <2>5. \A y \in i + 1 .. n + 1 : y > k => After[y] \in y .. n + 1
    <3>1. TAKE y \in i + 1 .. n + 1
    <3>2. y > k => y \notin Bad
      <4> HIDE DEF Bad
      <4>1. QED  BY <1>1, <2>3, <2>4
    <3>3. QED  BY <3>2
  <2>6. CASE k > n  BY <1>1, <1>5, <2>4, <2>6
  <2>7. CASE k = n
    <3>1. k + 1 \in i + 1 .. n + 1 /\ k + 1 > k /\ ~(k > n) /\ ~(k < n)  BY <1>1, <2>4, <2>7
    <3>2. After[k + 1] \in k + 1 .. n + 1  BY <2>5, <3>1
    <3>3. After[k] \in {k + 1, After[k + 1]}  BY <1>5, <2>4, <3>1
    <3>4. QED  BY <1>1, <2>4, <3>1, <3>2, <3>3
  <2>8. CASE k < n
    <3>1. k + 1 \in i + 1 .. n + 1 /\ k + 2 \in i + 1 .. n + 1 /\ k + 1 > k /\ k + 2 > k /\ ~(k > n)
      BY <1>1, <2>4, <2>8
    <3>2. After[k + 1] \in k + 1 .. n + 1 /\ After[k + 2] \in k + 2 .. n + 1  BY <2>5, <3>1
    <3>3. After[k] \in {k + 1, After[k + 1], After[k + 2]}  BY <1>5, <2>4, <3>1
    <3>4. QED  BY <1>1, <2>4, <3>1, <3>2, <3>3
  <2>9. QED  BY <1>1, <2>4, <2>6, <2>7, <2>8
<1>7. AfterQuoted(t, i) = After[i + 1]  BY DEF AfterQuoted, After
<1>8. QED  BY <1>1, <1>6, <1>7

LEMMA StringsAreText ==
  ASSUME NEW C, NEW t \in Seq(C), {"quote", "backslash"} \subseteq C
  PROVE  Stringified(t) \in Seq(C)
<1> DEFINE n == Len(t)
           Mask(i) == IF t[i] \in {"quote", "backslash"} THEN <<"backslash">> ELSE <<>>
           Turn(f, i) == IF i = 0 THEN <<>> ELSE f[i - 1] \o Mask(i) \o <<t[i]>>
           Solves(f, b) == f = [i \in 0 .. b |-> Turn(f, i)]
           Escaped[i \in 0 .. Len(t)] ==
             IF i = 0 THEN <<>>
             ELSE Escaped[i - 1]
                    \o (IF t[i] \in {"quote", "backslash"} THEN <<"backslash">> ELSE <<>>)
                    \o <<t[i]>>
<1>1. n \in Nat /\ \A i \in 1 .. n : t[i] \in C  OBVIOUS
<1>2. \E f : Solves(f, n)
  <2> DEFINE Bad == {b \in 0 .. n : ~ \E f : Solves(f, b)}
  <2>1. SUFFICES ASSUME Bad # {} PROVE FALSE
    <3>1. n \in 0 .. n  BY <1>1
    <3> HIDE DEF Solves
    <3>2. QED  BY <3>1
  <2>2. Bad \subseteq Nat
    <3> HIDE DEF Solves
    <3>1. QED  BY <1>1
  <2>3. PICK b \in Bad : \A y \in Bad : b <= y
    <3> HIDE DEF Bad
    <3>1. QED  BY <2>1, <2>2, Least
  <2>4. b \in 0 .. n /\ ~ \E f : Solves(f, b)  BY <2>3
  <2>5. b # 0
    <3>1. SUFFICES ASSUME b = 0 PROVE FALSE  OBVIOUS
    <3> DEFINE f == [i \in 0 .. 0 |-> <<>>]
    <3>2. \A i \in 0 .. 0 : Turn(f, i) = <<>>  OBVIOUS
    <3>3. Solves(f, 0)
      <4> HIDE DEF Turn
      <4>1. QED  BY <3>2
    <3> HIDE DEF Solves
    <3>4. QED  BY <2>4, <3>1, <3>3
  <2>6. b - 1 \in 0 .. n /\ b \in Int /\ ~(b <= b - 1) /\ b \in Nat  BY <1>1, <2>4, <2>5
  <2>7. b - 1 \notin Bad
    <3> HIDE DEF Bad
    <3>1. QED  BY <2>3, <2>6
  <2>8. PICK f : Solves(f, b - 1)
    <3> HIDE DEF Solves
    <3>1. QED  BY <2>6, <2>7
  <2> DEFINE g == [i \in 0 .. b |-> IF i = b THEN Turn(f, b) ELSE f[i]]
  <2>9. \A i \in 0 .. b - 1 : g[i] = f[i] /\ f[i] = Turn(f, i)
    <3>1. \A i \in 0 .. b - 1 : i # b /\ i \in 0 .. b  BY <2>6
    <3>2. \A i \in 0 .. b - 1 : f[i] = Turn(f, i)
      <4> HIDE DEF Turn
      <4>1. QED  BY <2>8
    <3> HIDE DEF Turn
    <3>3. QED  BY <3>1, <3>2
  <2>10. g[b] = Turn(f, b)
    <3> HIDE DEF Turn
    <3>1. QED  BY <2>6
  <2> HIDE DEF g, Mask
  <2>11. \A i \in 0 .. b : Turn(g, i) = Turn(f, i)
    <3>1. TAKE i \in 0 .. b
    <3>2. CASE i = 0  BY <3>2
    <3>3. CASE i # 0
      <4>1. i - 1 \in 0 .. b - 1  BY <2>6, <3>3
      <4>2. g[i - 1] = f[i - 1]  BY <2>9, <4>1
      <4>3. QED  BY <4>2
    <3>4. QED  BY <3>2, <3>3
  <2>12. \A i \in 0 .. b : g[i] = Turn(g, i)
    <3> HIDE DEF Turn
    <3>1. \A i \in 0 .. b : i = b \/ i \in 0 .. b - 1  BY <2>6
    <3>2. QED  BY <2>9, <2>10, <2>11, <3>1
  <2>13. Solves(g, b)
    <3> HIDE DEF Turn
    <3>1. g = [i \in 0 .. b |-> g[i]]  BY DEF g
    <3>2. QED  BY <2>12, <3>1
  <2> HIDE DEF Solves
  <2>14. QED  BY <2>4, <2>13
<1>3. Escaped = CHOOSE f : Solves(f, n)  OBVIOUS
<1>4. Solves(Escaped, n)
  <2> HIDE DEF Solves, Escaped
  <2>1. QED  BY <1>2, <1>3
<1> HIDE DEF Escaped
<1>5. \A i \in 0 .. n : Escaped[i] = Turn(Escaped, i)
  <2> HIDE DEF Turn
  <2>1. QED  BY <1>4
<1>6. \A i \in 0 .. n : Escaped[i] \in Seq(C)
  <2> DEFINE Bad == {i \in 0 .. n : Escaped[i] \notin Seq(C)}
  <2>1. SUFFICES ASSUME Bad # {} PROVE FALSE  OBVIOUS
  <2>2. Bad \subseteq Nat  OBVIOUS
  <2>3. PICK i \in Bad : \A y \in Bad : i <= y
    <3> HIDE DEF Bad
    <3>1. QED  BY <2>1, <2>2, Least
  <2>4. i \in 0 .. n /\ Escaped[i] \notin Seq(C)  BY <2>3
  <2>5. i # 0
    <3>1. SUFFICES ASSUME i = 0 PROVE FALSE  OBVIOUS
    <3>2. Escaped[0] = <<>>  BY <1>5, <2>4, <3>1
    <3>3. QED  BY <2>4, <3>1, <3>2
  <2>6. i - 1 \in 0 .. n /\ i \in 1 .. n /\ ~(i <= i - 1)  BY <1>1, <2>4, <2>5
  <2>7. i - 1 \notin Bad
    <3> HIDE DEF Bad
    <3>1. QED  BY <2>3, <2>6
  <2>8. Escaped[i - 1] \in Seq(C)  BY <2>6, <2>7
  <2>9. Mask(i) \in Seq(C) /\ <<t[i]>> \in Seq(C)
    <3>1. t[i] \in C  BY <1>1, <2>6
    <3>2. <<t[i]>> \in Seq(C)  BY <3>1
    <3>3. <<"backslash">> \in Seq(C) /\ <<>> \in Seq(C)  OBVIOUS
    <3>4. QED  BY <3>2, <3>3
  <2>10. Escaped[i] = Escaped[i - 1] \o Mask(i) \o <<t[i]>>  BY <1>5, <2>5, <2>6
  <2> HIDE DEF Mask
  <2>11. QED  BY <2>4, <2>8, <2>9, <2>10
<1>7. Stringified(t) = <<"quote">> \o Escaped[n] \o <<"quote">>
  BY DEF Stringified, Escaped
<1>8. Escaped[n] \in Seq(C) /\ <<"quote">> \in Seq(C)
  <2>1. n \in 0 .. n /\ "quote" \in C  BY <1>1
  <2> HIDE DEF n
  <2>2. QED  BY <1>6, <2>1
<1> DEFINE e == Escaped[n]
           q == <<"quote">>
<1>9. Stringified(t) = q \o e \o q  BY <1>7
<1> HIDE DEF e, q
<1>10. e \in Seq(C) /\ q \in Seq(C)  BY <1>8 DEF e, q
<1>11. QED  BY <1>9, <1>10

\* What VaArgs joins, for any texts.
JoinedFrom(first, args, comma) ==
  LET Joined[i \in first .. Len(args) + 1] ==
        IF i > Len(args) THEN <<>>
        ELSE (IF i > first THEN <<comma>> ELSE <<>>) \o args[i] \o Joined[i + 1]
  IN  Joined[first]

LEMMA JoinedIsText ==
  ASSUME NEW C, NEW comma \in C, NEW args, Len(args) \in Nat, NEW first \in 1 .. Len(args),
         \A i \in 1 .. Len(args) : args[i] \in Seq(C)
  PROVE  JoinedFrom(first, args, comma) \in Seq(C)
<1> DEFINE n == Len(args)
           Comma(i) == IF i > first THEN <<comma>> ELSE <<>>
           Turn(f, i) == IF i > n THEN <<>> ELSE Comma(i) \o args[i] \o f[i + 1]
           Solves(f, b) == f = [i \in b .. n + 1 |-> Turn(f, i)]
           Joined[i \in first .. Len(args) + 1] ==
             IF i > Len(args) THEN <<>>
             ELSE (IF i > first THEN <<comma>> ELSE <<>>) \o args[i] \o Joined[i + 1]
<1>0. n \in Nat /\ first \in Nat \ {0} /\ first <= n
  OBVIOUS
<1>1. \E f : Solves(f, first)
  <2> DEFINE Bad == {b \in first .. n + 1 : ~ \E f : Solves(f, b)}
  <2>1. SUFFICES ASSUME Bad # {} PROVE FALSE
    <3>1. first \in first .. n + 1  BY <1>0
    <3> HIDE DEF Solves
    <3>2. QED  BY <3>1
  <2>2. Bad \subseteq 0 .. n + 1
    <3> HIDE DEF Solves
    <3>1. QED  BY <1>0
  <2>3. PICK b \in Bad : \A y \in Bad : y <= b
    <3> HIDE DEF Bad
    <3>1. n + 1 \in Nat  BY <1>0
    <3>2. QED  BY <2>1, <2>2, <3>1, Greatest
  <2>4. b \in first .. n + 1 /\ ~ \E f : Solves(f, b)  BY <2>3
  <2>5. b # n + 1
    <3>1. SUFFICES ASSUME b = n + 1 PROVE FALSE  OBVIOUS
    <3> DEFINE f == [i \in n + 1 .. n + 1 |-> <<>>]
    <3>2. \A i \in n + 1 .. n + 1 : Turn(f, i) = <<>>  BY <1>0
    <3>3. Solves(f, n + 1)
      <4> HIDE DEF Turn
      <4>1. QED  BY <3>2
    <3> HIDE DEF Solves
    <3>4. QED  BY <2>4, <3>1, <3>3
  <2>6. b + 1 \in first .. n + 1 /\ b \in Int /\ ~(b + 1 <= b) /\ b <= n
    <3> HIDE DEF Solves, n
    <3>1. QED  BY <1>0, <2>4, <2>5
  <2>7. b + 1 \notin Bad
    <3> HIDE DEF Bad
    <3>1. QED  BY <2>3, <2>6
  <2>8. PICK f : Solves(f, b + 1)
    <3> HIDE DEF Solves
    <3>1. QED  BY <2>6, <2>7
  <2> DEFINE g == [i \in b .. n + 1 |-> IF i = b THEN Turn(f, b) ELSE f[i]]
  <2> HIDE DEF n, Comma
  <2>9. \A i \in b + 1 .. n + 1 : g[i] = f[i] /\ f[i] = Turn(f, i)
    <3>1. \A i \in b + 1 .. n + 1 : i # b /\ i \in b .. n + 1  BY <1>0, <2>6
    <3>2. \A i \in b + 1 .. n + 1 : f[i] = Turn(f, i)
      <4> HIDE DEF Turn
      <4>1. QED  BY <2>8
    <3> HIDE DEF Turn
    <3>3. QED  BY <3>1, <3>2
  <2>10. g[b] = Turn(f, b)
    <3> HIDE DEF Turn
    <3>1. QED  BY <1>0, <2>6
  <2> HIDE DEF g
  <2>11. \A i \in b .. n + 1 : Turn(g, i) = Turn(f, i)
    <3>1. TAKE i \in b .. n + 1
    <3>2. CASE i > n  BY <3>2
    <3>3. CASE ~(i > n)
      <4>1. i + 1 \in b + 1 .. n + 1  BY <1>0, <2>6, <3>3
      <4>2. g[i + 1] = f[i + 1]  BY <2>9, <4>1
      <4>3. QED  BY <4>2
    <3>4. QED  BY <3>2, <3>3
  <2>12. \A i \in b .. n + 1 : g[i] = Turn(g, i)
    <3> HIDE DEF Turn
    <3>1. \A i \in b .. n + 1 : i = b \/ i \in b + 1 .. n + 1  BY <1>0, <2>6
    <3>2. QED  BY <2>9, <2>10, <2>11, <3>1
  <2>13. Solves(g, b)
    <3> HIDE DEF Turn
    <3>1. g = [i \in b .. n + 1 |-> g[i]]  BY DEF g
    <3>2. QED  BY <2>12, <3>1
  <2> HIDE DEF Solves
  <2>14. QED  BY <2>4, <2>13
<1>2. Joined = CHOOSE f : Solves(f, first)  OBVIOUS
<1>3. Solves(Joined, first)
  <2> HIDE DEF Solves, Joined
  <2>1. QED  BY <1>1, <1>2
<1> HIDE DEF Joined
<1>4. \A i \in first .. n + 1 : Joined[i] = Turn(Joined, i)
  <2> HIDE DEF Turn
  <2>1. QED  BY <1>3
<1>5. \A i \in first .. n + 1 : Joined[i] \in Seq(C)
  <2> DEFINE Bad == {i \in first .. n + 1 : Joined[i] \notin Seq(C)}
  <2>1. SUFFICES ASSUME Bad # {} PROVE FALSE  OBVIOUS
  <2>2. Bad \subseteq 0 .. n + 1  BY <1>0
  <2>3. PICK i \in Bad : \A y \in Bad : y <= i
    <3> HIDE DEF Bad
    <3>1. n + 1 \in Nat  BY <1>0
    <3>2. QED  BY <2>1, <2>2, <3>1, Greatest
  <2>4. i \in first .. n + 1 /\ Joined[i] \notin Seq(C)  BY <2>3
  <2>5. ~(i > n)
    <3>1. SUFFICES ASSUME i > n PROVE FALSE  OBVIOUS
    <3>2. Joined[i] = <<>>  BY <1>4, <2>4, <3>1
    <3>3. QED  BY <2>4, <3>2
  <2>6. i + 1 \in first .. n + 1 /\ i \in 1 .. n /\ ~(i + 1 <= i)  BY <1>0, <2>4, <2>5
  <2>7. i + 1 \notin Bad
    <3> HIDE DEF Bad
    <3>1. QED  BY <2>3, <2>6
  <2>8. Joined[i + 1] \in Seq(C)  BY <2>6, <2>7
  <2>9. Comma(i) \in Seq(C) /\ args[i] \in Seq(C)
    <3>1. <<comma>> \in Seq(C) /\ <<>> \in Seq(C)  OBVIOUS
    <3>2. QED  BY <2>6, <3>1
  <2>10. Joined[i] = Comma(i) \o args[i] \o Joined[i + 1]  BY <1>4, <2>4, <2>5
  <2> HIDE DEF Comma
  <2>11. QED  BY <2>4, <2>8, <2>9, <2>10
<1>6. first \in first .. n + 1  BY <1>0
<1>7. JoinedFrom(first, args, comma) = Joined[first]  BY DEF JoinedFrom, Joined
<1>8. QED  BY <1>5, <1>6, <1>7

LEMMA VaArgsAreText ==
  ASSUME Len(call.args) \in Nat, Len(Macro.params) \in Nat,
         \A i \in 1 .. Len(call.args) : call.args[i] \in Seq(Ch)
  PROVE  VaArgs \in Seq(Ch)
<1>1. CASE Len(Macro.params) + 1 > Len(call.args)  BY <1>1 DEF VaArgs
<1>2. CASE ~(Len(Macro.params) + 1 > Len(call.args))
  <2> DEFINE first == Len(Macro.params) + 1
  <2>1. first \in 1 .. Len(call.args)  BY <1>2
  <2>2. "," \in Ch  BY Characters, Zenon
  <2>3. VaArgs = JoinedFrom(first, call.args, ",")  BY <1>2, Zenon DEF VaArgs, JoinedFrom
  <2> HIDE DEF first
  <2>4. JoinedFrom(first, call.args, ",") \in Seq(Ch)  BY <2>1, <2>2, JoinedIsText, Zenon
  <2>5. QED  BY <2>3, <2>4, Zenon
<1>3. QED  BY <1>1, <1>2

-----------------------------------------------------------------------------
(* The types.  Places are in their texts because what is read next begins   *)
(* where the last thing read ended, and reading never goes past the end.    *)

MacrosInv ==
  /\ line \in Seq(Ch)
  /\ \A n \in DOMAIN macros :
       /\ n \in Seq(IdentChar)
       /\ macros[n].value \in Seq(Ch)
       /\ Len(macros[n].params) \in Nat

LineInv ==
  /\ s \in 1 .. Len(line) + 1
  /\ inComment \in BOOLEAN
  /\ out \in Seq(Ch)

ArgsAreText(args) == args \in Seq(Seq(Ch)) /\ \A i \in 1 .. Len(args) : args[i] \in Seq(Ch)

CallInv ==
  /\ call \in [name : {call.name}, after : {call.after}, open : {call.open},
               from : {call.from}, depth : {call.depth}, args : {call.args}]
  /\ status \in {"text", "args", "body", "done"}
  /\ status \notin {"args", "body"} => call = NoCall
  /\ status \in {"args", "body"} => stack = <<>> /\ IsFunction(call.name)
  /\ status \in {"args", "body"} => call.after \in 1 .. Len(line) + 1
  /\ call.depth \in Nat /\ ArgsAreText(call.args)
  /\ call.from \in 0 .. s

BodyInv ==
  /\ body.out \in Seq(Ch)
  /\ status = "body" => body.p \in 1 .. Len(Macro.value) + 1
  /\ status # "body" => body = NoBody

FrameIsText(f) ==
  f.text \in Seq(Ch) /\ f.out \in Seq(Ch) /\ f.p \in 1 .. Len(f.text) + 1

FramesInv ==
  /\ \A i \in DOMAIN stack : FrameIsText(stack[i])
  /\ stack # <<>> => status = "text"

TextInv == MacrosInv /\ LineInv /\ CallInv /\ BodyInv /\ FramesInv

LEMMA InitText == Init => TextInv
<1>1. SUFFICES ASSUME Init PROVE TextInv  OBVIOUS
<1>2. PICK input \in Inputs :
        macros = input.macros /\ line = input.line /\ inComment = input.comment
  BY <1>1 DEF Init
<1>3. line \in Seq(Ch) /\ inComment \in BOOLEAN  BY <1>2, InputsAssumption, Characters
<1>4. ASSUME NEW n \in DOMAIN macros
      PROVE  /\ n \in Seq(IdentChar) /\ macros[n].value \in Seq(Ch)
             /\ Len(macros[n].params) \in Nat
  <2>1. n \in Seq(IdentChar) /\ macros[n].value \in Text
        /\ macros[n].params \in Seq(Seq(IdentChar))
    BY <1>2, <1>4, InputsAssumption
  <2>2. \A S : \A q \in Seq(S) : Len(q) \in Nat  OBVIOUS
  <2>3. Len(macros[n].params) \in Nat  BY <2>1, <2>2
  <2>4. QED  BY <2>1, <2>3, Characters
<1>5. s = 1 /\ out = <<>> /\ call = NoCall /\ body = NoBody /\ stack = <<>> /\ status = "text"
  BY <1>1 DEF Init
<1>6. LineInv  BY <1>3, <1>5 DEF LineInv
<1>7. CallInv  BY <1>5 DEF CallInv, NoCall, ArgsAreText
<1>8. BodyInv  BY <1>5 DEF BodyInv, NoBody
<1>9. QED  BY <1>3, <1>4, <1>5, <1>6, <1>7, <1>8 DEF TextInv, MacrosInv, FramesInv

\* A piece of the line or of a value is text, and so is what it is added to.
LEMMA Adding ==
  ASSUME NEW t \in Seq(Ch), NEW i \in 1 .. Len(t) + 1, NEW j \in i .. Len(t) + 1,
         NEW u \in Seq(Ch)
  PROVE  u \o SubSeq(t, i, j - 1) \in Seq(Ch) /\ SubSeq(t, i, j - 1) \in Seq(Ch)
<1>1. j - 1 \in 0 .. Len(t)  OBVIOUS
<1>2. SubSeq(t, i, j - 1) \in Seq(Ch)  BY <1>1, Pieces
<1>3. QED  BY <1>2

\* The steps that read the line.
LEMMA CopyHolds ==
  ASSUME TextInv, NEW to \in s .. Len(line) + 1, Copy(to), inComment' \in BOOLEAN
  PROVE  TextInv'
<1>1. line \in Seq(Ch) /\ s \in 1 .. Len(line) + 1 /\ out \in Seq(Ch)
  BY DEF TextInv, MacrosInv, LineInv
<1>2. /\ macros' = macros /\ line' = line /\ call' = call /\ body' = body /\ stack' = stack
      /\ status' = status /\ s' = to /\ out' = out \o SubSeq(line, s, to - 1)
  BY DEF Copy
<1>3. out' \in Seq(Ch)  BY <1>1, <1>2, Adding
<1>4. s' \in 1 .. Len(line) + 1 /\ s <= s'  BY <1>1, <1>2
<1>5. LineInv'  BY <1>2, <1>3, <1>4 DEF LineInv
<1>6. CallInv'
  <2>1. call.from \in 0 .. s'  BY <1>1, <1>4 DEF TextInv, CallInv
  <2>2. QED  BY <1>2, <2>1 DEF TextInv, CallInv, IsFunction, IsMacro
<1>7. MacrosInv' /\ BodyInv' /\ FramesInv'
  BY <1>2 DEF TextInv, MacrosInv, BodyInv, Macro, FramesInv
<1>8. QED  BY <1>5, <1>6, <1>7 DEF TextInv

LEMMA CopiesHold ==
  ASSUME TextInv, InComment \/ OpenComment \/ LineComment \/ Quoted \/ OtherChar \/ PlainName
  PROVE  TextInv'
<1>1. line \in Seq(Ch) /\ s \in 1 .. Len(line) + 1 /\ inComment \in BOOLEAN /\ Len(line) \in Nat
  BY DEF TextInv, MacrosInv, LineInv
<1>2. s <= Len(line)
  BY <1>1 DEF InComment, OpenComment, LineComment, Quoted, OtherChar, PlainName, Plain
<1>3. s + 1 \in s .. Len(line) + 1 /\ Len(line) + 1 \in s .. Len(line) + 1  BY <1>1, <1>2
<1>4. AfterName(line, s) \in s .. Len(line) + 1  BY <1>1, NamesEnd
<1>5. AfterQuoted(line, s) \in s .. Len(line) + 1
  <2>1. s \in 1 .. Len(line)  BY <1>1, <1>2
  <2>2. AfterQuoted(line, s) \in s + 1 .. Len(line) + 1  BY <1>1, <2>1, QuotesEnd
  <2>3. QED  BY <1>1, <2>2
<1>6. CASE InComment  BY <1>3, <1>6, CopyHolds DEF InComment
<1>7. CASE OpenComment  BY <1>3, <1>7, CopyHolds DEF OpenComment
<1>8. CASE LineComment  BY <1>1, <1>3, <1>8, CopyHolds DEF LineComment
<1>9. CASE Quoted  BY <1>1, <1>5, <1>9, CopyHolds DEF Quoted
<1>10. CASE OtherChar  BY <1>1, <1>3, <1>10, CopyHolds DEF OtherChar
<1>11. CASE PlainName  BY <1>1, <1>4, <1>11, CopyHolds DEF PlainName
<1>12. QED  BY <1>6, <1>7, <1>8, <1>9, <1>10, <1>11

LEMMA LineNameHolds ==
  ASSUME TextInv, LineName
  PROVE  TextInv'
<1>1. line \in Seq(Ch) /\ s \in 1 .. Len(line) + 1 /\ out \in Seq(Ch) /\ inComment \in BOOLEAN
  BY DEF TextInv, MacrosInv, LineInv
<1>2. /\ macros' = macros /\ line' = line /\ call' = call /\ body' = body /\ stack' = stack
      /\ status' = status /\ s' = s + 1 /\ out' = out \o <<"1">> /\ inComment' = inComment
      /\ s <= Len(line)
  BY DEF LineName, LineNumber, Plain
<1>3. s' \in 1 .. Len(line) + 1 /\ s <= s'  BY <1>1, <1>2
<1>4. LineInv'
  <2>1. "1" \in Ch  BY Characters, Zenon
  <2>2. out \o <<"1">> \in Seq(Ch)  BY <1>1, <2>1
  <2>3. QED  BY <1>1, <1>2, <1>3, <2>2 DEF LineInv
<1>5. CallInv'
  <2>1. call.from \in 0 .. s'  BY <1>1, <1>3 DEF TextInv, CallInv
  <2>2. QED  BY <1>2, <2>1 DEF TextInv, CallInv, IsFunction, IsMacro
<1>6. MacrosInv' /\ BodyInv' /\ FramesInv'
  BY <1>2 DEF TextInv, MacrosInv, BodyInv, Macro, FramesInv
<1>7. QED  BY <1>4, <1>5, <1>6 DEF TextInv

\* A first call of expand_macros_in_text.
LEMMA OneFrame ==
  ASSUME NEW t \in Seq(Ch), stack' = <<Frame(t, 0)>>, status' = "text"
  PROVE  FramesInv'
<1>1. FrameIsText(Frame(t, 0))  BY DEF FrameIsText, Frame
<1>2. \A i \in DOMAIN stack' : stack'[i] = Frame(t, 0)
  <2> DEFINE f == Frame(t, 0)
  <2>1. stack' = <<f>>  OBVIOUS
  <2> HIDE DEF f
  <2>2. \A i \in DOMAIN stack' : stack'[i] = f  BY <2>1
  <2>3. QED  BY <2>2 DEF f
<1>3. QED  BY <1>1, <1>2 DEF FramesInv, FrameIsText

LEMMA ObjectNameHolds ==
  ASSUME TextInv, ObjectName
  PROVE  TextInv'
<1>1. line \in Seq(Ch) /\ s \in 1 .. Len(line) + 1 /\ out \in Seq(Ch) /\ inComment \in BOOLEAN
  BY DEF TextInv, MacrosInv, LineInv
<1> DEFINE n == NameAt(line, s)
           to == AfterName(line, s)
<1>2. /\ macros' = macros /\ line' = line /\ call' = call /\ body' = body
      /\ status' = status /\ s' = to /\ out' = out /\ inComment' = inComment
      /\ n \in DOMAIN macros /\ stack' = <<Frame(macros[n].value, 0)>> /\ status = "text"
  BY DEF ObjectName, IsObject, IsMacro, Plain, Reading
<1>3. to \in s .. Len(line) + 1  BY <1>1, NamesEnd
<1>4. macros[n].value \in Seq(Ch)  BY <1>2 DEF TextInv, MacrosInv
<1> HIDE DEF n, to
<1>5. s' \in 1 .. Len(line) + 1 /\ s <= s'  BY <1>1, <1>2, <1>3
<1>6. LineInv'  BY <1>1, <1>2, <1>5 DEF LineInv
<1>7. CallInv'
  <2>1. call.from \in 0 .. s'  BY <1>1, <1>5 DEF TextInv, CallInv
  <2>2. QED  BY <1>2, <2>1 DEF TextInv, CallInv, IsFunction, IsMacro
<1>8. MacrosInv' /\ BodyInv'
  BY <1>2 DEF TextInv, MacrosInv, BodyInv, Macro
<1>9. FramesInv'  BY <1>2, <1>4, OneFrame
<1>10. QED  BY <1>6, <1>7, <1>8, <1>9 DEF TextInv

\* A record as parse_macro_args has it, with what is read now changed.
LEMMA CallFields ==
  ASSUME NEW c, c \in [name : {c.name}, after : {c.after}, open : {c.open},
                       from : {c.from}, depth : {c.depth}, args : {c.args}],
         NEW f, NEW d, NEW a
  PROVE  /\ [c EXCEPT !.from = f, !.depth = d] \in
              [name : {c.name}, after : {c.after}, open : {c.open},
               from : {f}, depth : {d}, args : {c.args}]
         /\ [c EXCEPT !.depth = d] \in
              [name : {c.name}, after : {c.after}, open : {c.open},
               from : {c.from}, depth : {d}, args : {c.args}]
         /\ [c EXCEPT !.args = a, !.from = f] \in
              [name : {c.name}, after : {c.after}, open : {c.open},
               from : {f}, depth : {c.depth}, args : {a}]
  OBVIOUS

LEMMA OpeningEnds ==
  ASSUME TextInv, s <= Len(line)
  PROVE  /\ AfterName(line, s) \in 1 .. Len(line) + 1
         /\ Opening \in 1 .. Len(line) + 1 /\ s <= Opening
         /\ At(line, Opening) = "(" => Opening <= Len(line)
<1>1. line \in Seq(Ch) /\ s \in 1 .. Len(line) + 1 /\ Len(line) \in Nat
  BY DEF TextInv, MacrosInv, LineInv
<1> DEFINE to == AfterName(line, s)
<1>2. to \in s .. Len(line) + 1  BY <1>1, NamesEnd
<1>3. Opening = SkipSpaces(line, to)  BY DEF Opening
<1> HIDE DEF to
<1>4. to \in 1 .. Len(line) + 1  BY <1>1, <1>2
<1>5. Opening \in to .. Len(line) + 1  BY <1>1, <1>3, <1>4, BlanksEnd
<1>6. At(line, Opening) = "(" => Opening <= Len(line)  BY <1>1, <1>5 DEF At
<1>7. QED  BY <1>1, <1>2, <1>4, <1>5, <1>6 DEF to

LEMMA BeginCallHolds ==
  ASSUME TextInv, BeginCall
  PROVE  TextInv'
<1>1. line \in Seq(Ch) /\ s \in 1 .. Len(line) + 1 /\ out \in Seq(Ch) /\ inComment \in BOOLEAN
      /\ s <= Len(line)
  BY DEF TextInv, MacrosInv, LineInv, BeginCall, Plain
<1> DEFINE n == NameAt(line, s)
           a == AfterName(line, s)
<1>2. /\ macros' = macros /\ line' = line /\ body' = body /\ stack' = stack /\ stack = <<>>
      /\ status' = "args" /\ s' = Opening + 1 /\ out' = out /\ inComment' = inComment
      /\ IsFunction(n) /\ At(line, Opening) = "(" /\ status = "text"
      /\ call' = [NoCall EXCEPT !.name = n, !.after = a, !.open = Opening]
  BY DEF BeginCall, IsCall, Plain, Reading
<1>3. a \in 1 .. Len(line) + 1 /\ Opening \in 1 .. Len(line) + 1 /\ Opening <= Len(line)
  BY <1>1, <1>2, OpeningEnds
<1> HIDE DEF n, a
<1>4. s' \in 1 .. Len(line) + 1  BY <1>2, <1>3
<1>5. call' = [name |-> n, after |-> a, open |-> Opening, from |-> 0, depth |-> 0, args |-> <<>>]
  BY <1>2 DEF NoCall
<1>6. LineInv'  BY <1>1, <1>2, <1>4 DEF LineInv
<1>7. IsFunction(call.name)'  BY <1>2, <1>5 DEF IsFunction, IsMacro
<1>8. CallInv'
  <2>1. /\ call'.name = n /\ call'.after = a /\ call'.open = Opening /\ call'.from = 0
        /\ call'.depth = 0 /\ call'.args = <<>>
    BY <1>5
  <2>2. ArgsAreText(call'.args)  BY <2>1 DEF ArgsAreText
  <2>3. call'.from \in 0 .. s'  BY <1>4, <2>1
  <2>4. QED  BY <1>2, <1>3, <1>5, <1>7, <2>1, <2>2, <2>3 DEF CallInv, ArgsAreText
<1>9. MacrosInv' /\ BodyInv' /\ FramesInv'
  BY <1>2 DEF TextInv, MacrosInv, BodyInv, FramesInv
<1>10. QED  BY <1>6, <1>8, <1>9 DEF TextInv

LEMMA EndLineHolds ==
  ASSUME TextInv, EndLine
  PROVE  TextInv'
<1>1. /\ macros' = macros /\ line' = line /\ call' = call /\ body' = body /\ stack' = stack
      /\ s' = s /\ out' = out /\ inComment' = inComment /\ status' = "done" /\ stack = <<>>
      /\ status = "text"
  BY DEF EndLine, Reading
<1>2. MacrosInv' /\ LineInv' /\ BodyInv' /\ FramesInv'
  BY <1>1 DEF TextInv, MacrosInv, LineInv, BodyInv, FramesInv
<1>3. CallInv'  BY <1>1 DEF TextInv, CallInv
<1>4. QED  BY <1>2, <1>3 DEF TextInv

\* The macro whose call is read.
LEMMA CalledMacro ==
  ASSUME TextInv, status \in {"args", "body"}
  PROVE  /\ call.name \in Seq(Ch) /\ call.name \in DOMAIN macros
         /\ Macro.value \in Seq(Ch) /\ Len(Macro.params) \in Nat
<1>1. call.name \in DOMAIN macros
  BY DEF TextInv, CallInv, IsFunction, IsMacro
<1>2. call.name \in Seq(IdentChar)  BY <1>1 DEF TextInv, MacrosInv
<1>3. IdentChar \subseteq Ch  BY Characters, Zenon
<1>4. call.name \in Seq(Ch)  BY <1>2, <1>3
<1>5. QED  BY <1>1, <1>4 DEF TextInv, MacrosInv, Macro

\* The steps of parse_macro_args.
LEMMA CloseCallHolds ==
  ASSUME TextInv, status = "args", NEW args, ArgsAreText(args),
         NEW to \in s .. Len(line) + 1, CloseCall(args, to), UNCHANGED KeptByArgs
  PROVE  TextInv'
<1>1. line \in Seq(Ch) /\ s \in 1 .. Len(line) + 1 /\ out \in Seq(Ch) /\ inComment \in BOOLEAN
      /\ Len(line) \in Nat
  BY DEF TextInv, MacrosInv, LineInv
<1>2. macros' = macros /\ line' = line /\ inComment' = inComment /\ body' = body /\ stack' = stack
  BY DEF KeptByArgs
<1>3. stack = <<>> /\ body = NoBody /\ IsFunction(call.name) /\ call.after \in 1 .. Len(line) + 1
      /\ call.depth \in Nat
  BY DEF TextInv, CallInv, BodyInv
<1>4. MacrosInv' /\ FramesInv'  BY <1>2, <1>3 DEF TextInv, MacrosInv, FramesInv
<1>5. CASE Fits(macros[call.name], Len(args))
  <2>1. status' = "body" /\ call' = [call EXCEPT !.args = args, !.from = 0] /\ s' = to /\ out' = out
    BY <1>5 DEF CloseCall
  <2>2. call' \in [name : {call.name}, after : {call.after}, open : {call.open},
                   from : {0}, depth : {call.depth}, args : {args}]
    BY <2>1, CallFields DEF TextInv, CallInv
  <2>3. LineInv'  BY <1>1, <1>2, <2>1 DEF LineInv
  <2>4. call'.name = call.name /\ call'.after = call.after /\ call'.open = call.open
        /\ call'.from = 0 /\ call'.depth = call.depth /\ call'.args = args
    BY <2>2
  <2>5. IsFunction(call.name)'  BY <1>2, <1>3, <2>4 DEF IsFunction, IsMacro
  <2>6. call'.from \in 0 .. s'  BY <1>1, <2>1, <2>4
  <2>7. ArgsAreText(call'.args)  BY <2>4
  <2>8. CallInv'
    BY <1>2, <1>3, <2>1, <2>2, <2>4, <2>5, <2>6, <2>7 DEF CallInv, ArgsAreText
  <2>9. BodyInv'
    <3>1. Macro' = Macro  BY <1>2, <2>4 DEF Macro
    <3>2. Macro.value \in Seq(Ch)  BY CalledMacro
    <3>3. body' = NoBody /\ NoBody.p = 1 /\ NoBody.out = <<>>  BY <1>2, <1>3 DEF NoBody
    <3>4. QED  BY <3>1, <3>2, <3>3 DEF BodyInv
  <2>10. QED  BY <1>4, <2>3, <2>8, <2>9 DEF TextInv
<1>6. CASE ~Fits(macros[call.name], Len(args))
  <2>1. status' = "text" /\ call' = NoCall /\ out' = out \o call.name /\ s' = call.after
    BY <1>6 DEF CloseCall
  <2>2. call.name \in Seq(Ch)  BY CalledMacro
  <2>3. out' \in Seq(Ch)  BY <1>1, <2>1, <2>2
  <2>4. LineInv'  BY <1>1, <1>2, <1>3, <2>1, <2>3 DEF LineInv
  <2>5. call'.from = 0 /\ call'.depth = 0 /\ call'.args = <<>>  BY <2>1 DEF NoCall
  <2>6. call'.from \in 0 .. s'  BY <1>3, <2>1, <2>5
  <2>7. ArgsAreText(call'.args)  BY <2>5 DEF ArgsAreText
  <2>8. call' \in [name : {call'.name}, after : {call'.after}, open : {call'.open},
                   from : {call'.from}, depth : {call'.depth}, args : {call'.args}]
    BY <2>1 DEF NoCall
  <2>9. CallInv'  BY <2>1, <2>5, <2>6, <2>7, <2>8 DEF CallInv, ArgsAreText
  <2>10. BodyInv'  BY <1>2, <1>3, <2>1 DEF BodyInv, NoBody
  <2>11. QED  BY <1>4, <2>4, <2>9, <2>10 DEF TextInv
<1>7. QED  BY <1>5, <1>6

\* A step that goes on in the list.
LEMMA ListGoesOn ==
  ASSUME TextInv, status = "args", NEW to \in s .. Len(line) + 1, s' = to,
         NEW f \in 0 .. to, NEW d \in Nat, NEW a, ArgsAreText(a),
         call' \in [name : {call.name}, after : {call.after}, open : {call.open},
                    from : {f}, depth : {d}, args : {a}],
         out' = out, status' = status, UNCHANGED KeptByArgs
  PROVE  TextInv'
<1>1. line \in Seq(Ch) /\ s \in 1 .. Len(line) + 1 /\ out \in Seq(Ch) /\ inComment \in BOOLEAN
      /\ Len(line) \in Nat
  BY DEF TextInv, MacrosInv, LineInv
<1>2. macros' = macros /\ line' = line /\ inComment' = inComment /\ body' = body /\ stack' = stack
  BY DEF KeptByArgs
<1>3. stack = <<>> /\ body = NoBody /\ IsFunction(call.name) /\ call.after \in 1 .. Len(line) + 1
  BY DEF TextInv, CallInv, BodyInv
<1>4. MacrosInv' /\ FramesInv'  BY <1>2, <1>3 DEF TextInv, MacrosInv, FramesInv
<1>5. LineInv'  BY <1>1, <1>2 DEF LineInv
<1>6. call'.name = call.name /\ call'.after = call.after /\ call'.open = call.open
      /\ call'.from = f /\ call'.depth = d /\ call'.args = a
  OBVIOUS
<1>7. IsFunction(call.name)'  BY <1>2, <1>3, <1>6 DEF IsFunction, IsMacro
<1>8. CallInv'
  <2>1. call'.from \in 0 .. s'  BY <1>6
  <2>2. ArgsAreText(call'.args)  BY <1>6
  <2>3. QED  BY <1>2, <1>3, <1>6, <1>7, <2>1, <2>2 DEF CallInv, ArgsAreText
<1>9. BodyInv'  BY <1>2, <1>3 DEF BodyInv, NoBody
<1>10. QED  BY <1>4, <1>5, <1>8, <1>9 DEF TextInv

LEMMA BeginArgHolds ==
  ASSUME TextInv, BeginArg
  PROVE  TextInv'
<1>1. line \in Seq(Ch) /\ s \in 1 .. Len(line) + 1 /\ Len(line) \in Nat
  BY DEF TextInv, MacrosInv, LineInv
<1>2. status = "args" /\ call.from = 0 /\ UNCHANGED KeptByArgs  BY DEF BeginArg, InArgs
<1>3. ArgsAreText(call.args) /\ call.depth \in Nat  BY DEF TextInv, CallInv
<1> DEFINE q == SkipSpaces(line, s)
<1>4. q \in s .. Len(line) + 1  BY <1>1, BlanksEnd
<1>5. /\ At(line, q) = "end" => CloseCall(call.args, q)
      /\ At(line, q) = ")" => CloseCall(call.args, q + 1)
      /\ At(line, q) \notin {"end", ")"} =>
           s' = q /\ call' = [call EXCEPT !.from = q, !.depth = 0] /\ out' = out /\ status' = status
  BY DEF BeginArg
<1> HIDE DEF q
<1>6. CASE At(line, q) = "end"  BY <1>2, <1>3, <1>4, <1>5, <1>6, CloseCallHolds
<1>7. CASE At(line, q) = ")"
  <2>1. q <= Len(line)  BY <1>1, <1>4, <1>7 DEF At
  <2>2. q + 1 \in s .. Len(line) + 1  BY <1>1, <1>4, <2>1
  <2>3. CloseCall(call.args, q + 1)  BY <1>5, <1>7
  <2>4. QED  BY <1>2, <1>3, <2>2, <2>3, CloseCallHolds
<1>8. CASE At(line, q) \notin {"end", ")"}
  <2>1. s' = q /\ call' = [call EXCEPT !.from = q, !.depth = 0] /\ out' = out /\ status' = status
    BY <1>5, <1>8
  <2>2. call' \in [name : {call.name}, after : {call.after}, open : {call.open},
                   from : {q}, depth : {0}, args : {call.args}]
    BY <2>1, CallFields DEF TextInv, CallInv
  <2>3. q \in 0 .. q /\ 0 \in Nat  BY <1>1, <1>4
  <2> DEFINE zero == 0
  <2>4. zero \in Nat /\ zero = 0  OBVIOUS
  <2> HIDE DEF zero
  <2>5. call' \in [name : {call.name}, after : {call.after}, open : {call.open},
                   from : {q}, depth : {zero}, args : {call.args}]
    BY <2>2, <2>4
  <2>6. QED  BY <1>2, <1>3, <1>4, <2>1, <2>3, <2>4, <2>5, ListGoesOn
<1>9. QED  BY <1>6, <1>7, <1>8

\* A parenthesis is closed only where one of the argument is open.
LEMMA DepthStays ==
  ASSUME TextInv, ~ArgEndsAt(s), s \in 1 .. Len(line), line[s] = ")"
  PROVE  call.depth - 1 \in Nat
<1>1. call.depth \in Nat  BY DEF TextInv, CallInv
<1>2. At(line, s) = ")"  BY DEF At
<1>3. call.depth # 0  BY <1>2, Zenon DEF ArgEndsAt
<1>4. QED  BY <1>1, <1>3

LEMMA ArgCharHolds ==
  ASSUME TextInv, ArgChar
  PROVE  TextInv'
<1>1. line \in Seq(Ch) /\ s \in 1 .. Len(line) + 1 /\ Len(line) \in Nat
  BY DEF TextInv, MacrosInv, LineInv
<1>2. /\ status = "args" /\ ~ArgEndsAt(s) /\ s' = s + 1 /\ out' = out /\ status' = status
      /\ UNCHANGED KeptByArgs
  BY DEF ArgChar, InArgs
<1>3. ArgsAreText(call.args) /\ call.depth \in Nat /\ call.from \in 0 .. s  BY DEF TextInv, CallInv
<1>4. s <= Len(line)
  <2>1. At(line, s) # "end"  BY <1>2, Zenon DEF ArgEndsAt
  <2>2. QED  BY <1>1, <2>1 DEF At
<1> DEFINE d == CASE line[s] = "(" -> call.depth + 1
                  [] line[s] = ")" -> call.depth - 1
                  [] OTHER -> call.depth
<1>5. call' = [call EXCEPT !.depth = d]  BY DEF ArgChar
<1>6. d \in Nat
  <2>1. s \in 1 .. Len(line)  BY <1>1, <1>4
  <2>2. line[s] = ")" => call.depth - 1 \in Nat  BY <1>2, <2>1, DepthStays
  <2>3. CASE line[s] = "("  BY <1>3, <2>3
  <2>4. CASE line[s] = ")"  BY <2>2, <2>4
  <2>5. CASE line[s] # "(" /\ line[s] # ")"  BY <1>3, <2>5
  <2>6. QED  BY <2>3, <2>4, <2>5
<1> HIDE DEF d
<1>7. call' \in [name : {call.name}, after : {call.after}, open : {call.open},
                 from : {call.from}, depth : {d}, args : {call.args}]
  BY <1>5, CallFields DEF TextInv, CallInv
<1> DEFINE to == s + 1
           f == call.from
           a == call.args
<1>8. to \in s .. Len(line) + 1 /\ f \in 0 .. to  BY <1>1, <1>3, <1>4
<1>9. s' = to /\ ArgsAreText(a)  BY <1>2, <1>3
<1>10. call' \in [name : {call.name}, after : {call.after}, open : {call.open},
                  from : {f}, depth : {d}, args : {a}]
  BY <1>7
<1> HIDE DEF to, f, a
<1>11. QED  BY <1>2, <1>6, <1>8, <1>9, <1>10, ListGoesOn

\* What is read up to here, without the blanks around it, is text.
LEMMA ReadArgIsText ==
  ASSUME TextInv, call.from > 0
  PROVE  ArgsAreText(Append(call.args, Trim(SubSeq(line, call.from, s - 1))))
<1>1. line \in Seq(Ch) /\ s \in 1 .. Len(line) + 1 /\ Len(line) \in Nat
  BY DEF TextInv, MacrosInv, LineInv
<1>2. call.from \in 1 .. Len(line) + 1 /\ s - 1 \in 0 .. Len(line)
  BY <1>1 DEF TextInv, CallInv
<1> DEFINE t == Trim(SubSeq(line, call.from, s - 1))
<1>3. t \in Seq(Ch)
  <2>1. SubSeq(line, call.from, s - 1) \in Seq(Ch)  BY <1>1, <1>2, Pieces
  <2>2. QED  BY <2>1, TrimsToText
<1> HIDE DEF t
<1>4. ArgsAreText(call.args)  BY DEF TextInv, CallInv
<1>5. Append(call.args, t) \in Seq(Seq(Ch))  BY <1>3, <1>4 DEF ArgsAreText
<1>6. /\ Len(call.args) \in Nat
      /\ Len(Append(call.args, t)) = Len(call.args) + 1
      /\ \A i \in 1 .. Len(call.args) : Append(call.args, t)[i] = call.args[i]
      /\ Append(call.args, t)[Len(call.args) + 1] = t
  BY <1>3, <1>4, AppendProperties DEF ArgsAreText
<1>7. \A i \in 1 .. Len(Append(call.args, t)) : Append(call.args, t)[i] \in Seq(Ch)
  <2>1. TAKE i \in 1 .. Len(Append(call.args, t))
  <2>2. i \in 1 .. Len(call.args) \/ i = Len(call.args) + 1  BY <1>6
  <2>3. QED  BY <1>3, <1>4, <1>6, <2>2 DEF ArgsAreText
<1>8. QED  BY <1>5, <1>7 DEF ArgsAreText, t

LEMMA EndArgHolds ==
  ASSUME TextInv, EndArg
  PROVE  TextInv'
<1>1. line \in Seq(Ch) /\ s \in 1 .. Len(line) + 1 /\ Len(line) \in Nat
  BY DEF TextInv, MacrosInv, LineInv
<1>2. status = "args" /\ call.from > 0 /\ UNCHANGED KeptByArgs  BY DEF EndArg, InArgs
<1> DEFINE args == Append(call.args, Trim(SubSeq(line, call.from, s - 1)))
           to == IF At(line, s) = "," THEN s + 1 ELSE s
<1>3. ArgsAreText(args)  BY <1>2, ReadArgIsText
<1>4. /\ At(line, s) = ")" => CloseCall(args, s + 1)
      /\ At(line, s) # ")" =>
           s' = to /\ call' = [call EXCEPT !.args = args, !.from = 0] /\ out' = out /\ status' = status
  BY Zenon DEF EndArg
<1>5. At(line, s) # "end" => s + 1 \in s .. Len(line) + 1  BY <1>1 DEF At
<1>6. to \in s .. Len(line) + 1
  <2>1. s \in s .. Len(line) + 1  BY <1>1
  <2>2. QED  BY <1>5, <2>1, Zenon
<1> HIDE DEF args, to
<1>7. CASE At(line, s) = ")"
  <2>1. s + 1 \in s .. Len(line) + 1 /\ CloseCall(args, s + 1)  BY <1>4, <1>5, <1>7
  <2>2. QED  BY <1>2, <1>3, <2>1, CloseCallHolds
<1>8. CASE At(line, s) # ")"
  <2>1. s' = to /\ call' = [call EXCEPT !.args = args, !.from = 0] /\ out' = out /\ status' = status
    BY <1>4, <1>8
  <2> DEFINE f == 0
             d == call.depth
  <2>2. f \in 0 .. to /\ d \in Nat  BY <1>1, <1>6 DEF TextInv, CallInv
  <2>3. call' \in [name : {call.name}, after : {call.after}, open : {call.open},
                   from : {f}, depth : {d}, args : {args}]
    BY <2>1, CallFields DEF TextInv, CallInv
  <2> HIDE DEF f, d
  <2>4. QED  BY <1>2, <1>3, <1>6, <2>1, <2>2, <2>3, ListGoesOn
<1>9. QED  BY <1>7, <1>8

\* The steps of expand_function_macro.
LEMMA ToBodyHolds ==
  ASSUME TextInv, status = "body", NEW text \in Seq(Ch),
         NEW p \in 1 .. Len(Macro.value) + 1, ToBody(text, p)
  PROVE  TextInv'
<1>1. /\ macros' = macros /\ line' = line /\ s' = s /\ inComment' = inComment /\ out' = out
      /\ call' = call /\ stack' = stack /\ status' = status
      /\ body' = [p |-> p, out |-> text]
  BY DEF ToBody
<1>2. MacrosInv' /\ LineInv' /\ FramesInv'
  BY <1>1 DEF TextInv, MacrosInv, LineInv, FramesInv
<1>3. CallInv'  BY <1>1 DEF TextInv, CallInv, IsFunction, IsMacro
<1>4. Macro' = Macro  BY <1>1 DEF Macro
<1>5. BodyInv'  BY <1>1, <1>4 DEF BodyInv
<1>6. QED  BY <1>2, <1>3, <1>5 DEF TextInv

LEMMA ArgumentsAreText ==
  ASSUME TextInv, status = "body", NEW n, NEW arg \in Argument(n)
  PROVE  arg \in Seq(Ch)
<1>1. ArgsAreText(call.args)  BY DEF TextInv, CallInv
<1>2. Len(call.args) \in Nat /\ \A i \in 1 .. Len(call.args) : call.args[i] \in Seq(Ch)
  BY <1>1 DEF ArgsAreText
<1>3. Len(Macro.params) \in Nat  BY CalledMacro
<1>4. VaArgs \in Seq(Ch)  BY <1>2, <1>3, VaArgsAreText
<1>5. arg = VaArgs \/ \E i \in 1 .. Len(call.args) : arg = call.args[i]  BY DEF Argument
<1>6. QED  BY <1>2, <1>4, <1>5

\* Where the value is read, and what of it is in place.
LEMMA BodyFacts ==
  ASSUME TextInv, InBody
  PROVE  /\ status = "body" /\ Macro.value \in Seq(Ch) /\ Len(Macro.value) \in Nat
         /\ body.p \in 1 .. Len(Macro.value) + 1 /\ body.p \in 1 .. Len(Macro.value)
         /\ body.out \in Seq(Ch)
         /\ body.p + 1 \in 1 .. Len(Macro.value) + 1
<1>1. status = "body" /\ body.p <= Len(Macro.value)  BY DEF InBody
<1>2. Macro.value \in Seq(Ch)  BY <1>1, CalledMacro
<1>3. Len(Macro.value) \in Nat  BY <1>2
<1>4. body.p \in 1 .. Len(Macro.value) + 1 /\ body.out \in Seq(Ch)  BY <1>1 DEF TextInv, BodyInv
<1>5. body.p \in 1 .. Len(Macro.value) /\ body.p + 1 \in 1 .. Len(Macro.value) + 1
  BY <1>1, <1>3, <1>4
<1>6. QED  BY <1>1, <1>2, <1>3, <1>4, <1>5

LEMMA PasteHolds ==
  ASSUME TextInv, Paste
  PROVE  TextInv'
<1>1. InBody  BY DEF Paste
<1> DEFINE v == Macro.value
           q == body.p + 2
<1>2. v \in Seq(Ch) /\ Len(v) \in Nat /\ status = "body" /\ body.p \in 1 .. Len(v)
      /\ body.out \in Seq(Ch)
  BY <1>1, BodyFacts
<1>3. At(v, body.p + 1) = "#"  BY DEF Paste, AtPaste
<1>4. q \in 1 .. Len(v) + 1  BY <1>2, <1>3 DEF At
<1>5. SkipSpaces(v, q) \in q .. Len(v) + 1  BY <1>2, <1>4, BlanksEnd
<1>6. TrimEnd(body.out) \in Seq(Ch)  BY <1>2, TrimsToText
<1>7. ToBody(TrimEnd(body.out), SkipSpaces(v, q))  BY DEF Paste
<1>8. SkipSpaces(v, q) \in 1 .. Len(v) + 1
  <2> HIDE DEF q, v
  <2>1. QED  BY <1>2, <1>4, <1>5
<1>9. QED  BY <1>2, <1>6, <1>7, <1>8, ToBodyHolds

LEMMA StringifyHolds ==
  ASSUME TextInv, Stringify
  PROVE  TextInv'
<1>1. InBody  BY DEF Stringify
<1>2. PICK arg \in HashArgument :
        ToBody(body.out \o Stringified(arg), AfterName(Macro.value, HashName))
  BY DEF Stringify
<1> DEFINE v == Macro.value
<1>3. v \in Seq(Ch) /\ Len(v) \in Nat /\ status = "body" /\ body.p + 1 \in 1 .. Len(v) + 1
      /\ body.out \in Seq(Ch)
  BY <1>1, BodyFacts
<1>4. arg \in Argument(NameAt(v, HashName))  BY <1>2 DEF HashArgument
<1>5. arg \in Seq(Ch)  BY <1>3, <1>4, ArgumentsAreText
<1>6. {"quote", "backslash"} \subseteq Ch  BY Characters, Zenon
<1>7. Stringified(arg) \in Seq(Ch)  BY <1>5, <1>6, StringsAreText
<1>8. HashName \in 1 .. Len(v) + 1
  <2>1. HashName = SkipSpaces(v, body.p + 1)  BY DEF HashName
  <2>2. SkipSpaces(v, body.p + 1) \in body.p + 1 .. Len(v) + 1  BY <1>3, BlanksEnd
  <2> HIDE DEF v
  <2>3. QED  BY <1>3, <2>1, <2>2
<1>9. AfterName(v, HashName) \in 1 .. Len(v) + 1
  <2>1. AfterName(v, HashName) \in HashName .. Len(v) + 1  BY <1>3, <1>8, NamesEnd
  <2> HIDE DEF v
  <2>2. QED  BY <1>3, <1>8, <2>1
<1> DEFINE st == Stringified(arg)
<1>10. body.out \o st \in Seq(Ch)
  <2>1. st \in Seq(Ch)  BY <1>7
  <2> HIDE DEF st
  <2>2. QED  BY <1>3, <2>1
<1>11. QED  BY <1>2, <1>3, <1>9, <1>10, ToBodyHolds

\* The comma, whatever it is written as.
LEMMA WithComma ==
  ASSUME NEW comma \in Ch, NEW t \in Seq(Ch), NEW u \in Seq(Ch)
  PROVE  t \o <<comma>> \o u \in Seq(Ch)
  OBVIOUS

LEMMA OptionalArgsHolds ==
  ASSUME TextInv, OptionalArgs
  PROVE  TextInv'
<1>1. InBody /\ CommaPaste > 0  BY DEF OptionalArgs
<1> DEFINE v == Macro.value
           q == SkipSpaces(v, body.p + 1)
           r == SkipSpaces(v, q + 2)
<1>2. v \in Seq(Ch) /\ Len(v) \in Nat /\ status = "body" /\ body.p + 1 \in 1 .. Len(v) + 1
      /\ body.out \in Seq(Ch) /\ body.p \in 1 .. Len(v)
  BY <1>1, BodyFacts
<1>3. CommaPaste = r /\ At(v, q) = "#" /\ At(v, q + 1) = "#" /\ At(v, r) = "va"
  <2>1. 0 > 0 => FALSE  OBVIOUS
  <2>2. CommaPaste # 0  BY <1>1, <2>1
  <2>3. QED  BY <2>2, Zenon DEF CommaPaste, AtPaste
<1>4. q \in body.p + 1 .. Len(v) + 1  BY <1>2, BlanksEnd
<1> HIDE DEF q
<1>5. q + 2 \in 1 .. Len(v) + 1
  <2> HIDE DEF v
  <2>1. QED  BY <1>2, <1>3, <1>4 DEF At
<1>6. r \in q + 2 .. Len(v) + 1  BY <1>2, <1>5, BlanksEnd
<1> HIDE DEF r
<1>7. r + 1 \in 1 .. Len(v) + 1
  <2> HIDE DEF v
  <2>1. QED  BY <1>2, <1>3, <1>5, <1>6 DEF At
<1> DEFINE text == IF Len(call.args) <= Len(Macro.params) THEN body.out
                   ELSE body.out \o <<",">> \o VaArgs
<1>8. ToBody(text, r + 1)  BY <1>3, Zenon DEF OptionalArgs
<1>9. text \in Seq(Ch)
  <2>1. VaArgs \in Seq(Ch)
    <3>1. ArgsAreText(call.args)  BY DEF TextInv, CallInv
    <3>2. Len(call.args) \in Nat /\ \A i \in 1 .. Len(call.args) : call.args[i] \in Seq(Ch)
      BY <3>1 DEF ArgsAreText
    <3>3. Len(Macro.params) \in Nat  BY <1>2, CalledMacro
    <3>4. QED  BY <3>2, <3>3, VaArgsAreText
  <2>2. "," \in Ch  BY Characters, Zenon
  <2>3. body.out \o <<",">> \o VaArgs \in Seq(Ch)  BY <1>2, <2>1, <2>2, WithComma, Zenon
  <2>4. QED  BY <1>2, <2>3, Zenon
<1> HIDE DEF text
<1>10. QED  BY <1>2, <1>7, <1>8, <1>9, ToBodyHolds

LEMMA BodyNameHolds ==
  ASSUME TextInv, BodyName
  PROVE  TextInv'
<1>1. InBody  BY DEF BodyName
<1> DEFINE v == Macro.value
           n == NameAt(v, body.p)
           to == AfterName(v, body.p)
<1>2. v \in Seq(Ch) /\ Len(v) \in Nat /\ status = "body" /\ body.out \in Seq(Ch)
      /\ body.p \in 1 .. Len(v) + 1
  BY <1>1, BodyFacts
<1>3. to \in body.p .. Len(v) + 1 /\ n \in Seq(IdentChar)  BY <1>2, NamesEnd
<1>4. ToBody(body.out \o n, to) \/ \E arg \in Argument(n) : ToBody(body.out \o arg, to)
  BY DEF BodyName
<1> HIDE DEF n
<1>5. to \in 1 .. Len(v) + 1
  <2> HIDE DEF v, to
  <2>1. QED  BY <1>2, <1>3
<1> HIDE DEF to
<1>6. body.out \o n \in Seq(Ch)
  <2>1. IdentChar \subseteq Ch  BY Characters, Zenon
  <2>2. n \in Seq(Ch)  BY <1>3, <2>1
  <2>3. QED  BY <1>2, <2>2
<1>7. CASE ToBody(body.out \o n, to)  BY <1>2, <1>5, <1>6, <1>7, ToBodyHolds
<1>8. CASE \E arg \in Argument(n) : ToBody(body.out \o arg, to)
  <2>1. PICK arg \in Argument(n) : ToBody(body.out \o arg, to)  BY <1>8
  <2>2. arg \in Seq(Ch)  BY <1>2, ArgumentsAreText
  <2>3. body.out \o arg \in Seq(Ch)  BY <1>2, <2>2
  <2>4. QED  BY <1>2, <1>5, <2>1, <2>3, ToBodyHolds
<1>9. QED  BY <1>4, <1>7, <1>8

LEMMA BodyCharHolds ==
  ASSUME TextInv, BodyChar
  PROVE  TextInv'
<1>1. InBody /\ ToBody(Append(body.out, V(0)), body.p + 1)  BY DEF BodyChar
<1> DEFINE v == Macro.value
<1>2. v \in Seq(Ch) /\ Len(v) \in Nat /\ status = "body" /\ body.out \in Seq(Ch)
      /\ body.p \in 1 .. Len(v) /\ body.p + 1 \in 1 .. Len(v) + 1
  BY <1>1, BodyFacts
<1>3. V(0) \in Ch
  <2>1. V(0) = At(v, body.p + 0)  BY DEF V
  <2> HIDE DEF v
  <2>2. body.p + 0 = body.p  BY <1>2
  <2>3. QED  BY <1>2, <2>1, <2>2 DEF At
<1>4. Append(body.out, V(0)) \in Seq(Ch)  BY <1>2, <1>3
<1>5. QED  BY <1>1, <1>2, <1>4, ToBodyHolds

LEMMA EndBodyHolds ==
  ASSUME TextInv, EndBody
  PROVE  TextInv'
<1>1. /\ macros' = macros /\ line' = line /\ s' = s /\ inComment' = inComment /\ out' = out
      /\ status' = "text" /\ call' = NoCall /\ body' = NoBody
      /\ stack' = <<Frame(body.out, 0)>>
  BY DEF EndBody
<1>2. body.out \in Seq(Ch) /\ s \in 1 .. Len(line) + 1  BY DEF TextInv, BodyInv, LineInv
<1>3. FramesInv'  BY <1>1, <1>2, OneFrame
<1>4. MacrosInv' /\ LineInv'  BY <1>1 DEF TextInv, MacrosInv, LineInv
<1>5. CallInv'
  <2>1. 0 \in 0 .. s'
    <3>1. Len(line) \in Nat  BY DEF TextInv, MacrosInv
    <3>2. QED  BY <1>1, <1>2, <3>1
  <2>2. call'.from \in 0 .. s'  BY <1>1, <2>1 DEF NoCall
  <2>3. QED  BY <1>1, <2>2 DEF CallInv, NoCall, ArgsAreText
<1>6. BodyInv'  BY <1>1 DEF BodyInv, NoBody
<1>7. QED  BY <1>3, <1>4, <1>5, <1>6 DEF TextInv

\* The steps of expand_macros_in_text, which change the calls of it only, and
\* the text made when the first one ends.
LEMMA FramesHold ==
  ASSUME TextInv, status = "text", NEW F, NEW q \in Seq(F),
         \A i \in 1 .. Len(q) : FrameIsText(q[i]), stack' = q, out' \in Seq(Ch),
         UNCHANGED <<macros, line, s, inComment, call, body, status>>
  PROVE  TextInv'
<1>1. DOMAIN stack' = 1 .. Len(q)  OBVIOUS
<1>2. FramesInv'  BY <1>1 DEF FramesInv, FrameIsText
<1>3. CallInv'  BY DEF TextInv, CallInv
<1>4. MacrosInv' /\ LineInv' /\ BodyInv'  BY DEF TextInv, MacrosInv, LineInv, BodyInv
<1>5. QED  BY <1>2, <1>3, <1>4 DEF TextInv

LEMMA TopIsText ==
  ASSUME TextInv, CallsInv, stack # <<>>
  PROVE  /\ status = "text" /\ FrameIsText(Top) /\ IsFrame(Top)
         /\ Len(Top.text) \in Nat
         /\ \E F : /\ Callers \in Seq(F)
                   /\ Len(Callers) = Len(stack) - 1
                   /\ \A i \in 1 .. Len(Callers) : FrameIsText(Callers[i]) /\ IsFrame(Callers[i])
<1>1. PICK F : stack \in Seq(F)  BY DEF CallsInv
<1>2. Len(stack) \in Nat \ {0} /\ IsFrame(Top)  BY TopIsAFrame
<1>3. /\ Callers \in Seq(F) /\ Len(Callers) = Len(stack) - 1
      /\ \A i \in 1 .. Len(stack) - 1 : Callers[i] = stack[i]
  BY <1>1, <1>2, CallersAreBelow
<1>4. DOMAIN stack = 1 .. Len(stack)  BY <1>1
<1>5. FrameIsText(Top)  BY <1>2, <1>4 DEF TextInv, FramesInv, Top
<1>6. \A i \in 1 .. Len(Callers) : FrameIsText(Callers[i]) /\ IsFrame(Callers[i])
  <2>1. TAKE i \in 1 .. Len(Callers)
  <2>2. i \in DOMAIN stack /\ Callers[i] = stack[i]  BY <1>2, <1>3, <1>4
  <2>3. QED  BY <2>2 DEF TextInv, FramesInv, CallsInv
<1>7. status = "text"  BY DEF TextInv, FramesInv
<1>8. Len(Top.text) \in Nat  BY <1>5 DEF FrameIsText
<1>9. QED  BY <1>2, <1>3, <1>5, <1>6, <1>7, <1>8

LEMMA ToTopHolds ==
  ASSUME TextInv, CallsInv, Expanding, NEW text \in Seq(Ch),
         NEW to \in 1 .. Len(Top.text) + 1, ToTop(text, to)
  PROVE  TextInv'
<1>1. stack # <<>>  BY DEF Expanding
<1>2. PICK F : /\ Callers \in Seq(F) /\ Len(Callers) = Len(stack) - 1
               /\ \A i \in 1 .. Len(Callers) : FrameIsText(Callers[i]) /\ IsFrame(Callers[i])
  BY <1>1, TopIsText
<1>3. status = "text" /\ FrameIsText(Top) /\ IsFrame(Top)  BY <1>1, TopIsText
<1> DEFINE u == Top.out \o text
           f == [Top EXCEPT !.p = to, !.out = u]
           q == Append(Callers, f)
<1>4. u \in Seq(Ch)  BY <1>3 DEF FrameIsText
<1>5. stack' = q /\ UNCHANGED <<macros, line, s, inComment, out, call, body, status>>
  BY DEF ToTop
<1>6. FrameIsText(f)
  <2> HIDE DEF u
  <2>1. f \in [text : {Top.text}, p : {to}, out : {u}, depth : {Top.depth}]  BY <1>3 DEF IsFrame
  <2> HIDE DEF f
  <2>2. f.text = Top.text /\ f.p = to /\ f.out = u  BY <2>1
  <2>3. QED  BY <1>3, <1>4, <2>2 DEF FrameIsText
<1> HIDE DEF f
<1>7. q \in Seq(F \cup {f}) /\ Len(q) = Len(Callers) + 1 /\ q[Len(Callers) + 1] = f
      /\ \A i \in 1 .. Len(Callers) : q[i] = Callers[i]
  <2>1. Callers \in Seq(F \cup {f}) /\ Len(Callers) \in Nat  BY <1>2
  <2>2. QED  BY <2>1, AppendProperties
<1>8. \A i \in 1 .. Len(q) : FrameIsText(q[i])
  <2>1. TAKE i \in 1 .. Len(q)
  <2>2. Len(Callers) \in Nat  BY <1>2
  <2>3. i \in 1 .. Len(Callers) \/ i = Len(Callers) + 1  BY <1>7, <2>2
  <2>4. QED  BY <1>2, <1>6, <1>7, <2>3
<1> HIDE DEF q
<1>9. out' \in Seq(Ch)  BY <1>5 DEF TextInv, LineInv
<1>10. QED  BY <1>3, <1>5, <1>7, <1>8, <1>9, FramesHold

\* Where the text of the last call is read, and what of it is in place.
LEMMA TopFacts ==
  ASSUME TextInv, CallsInv, Expanding
  PROVE  /\ Top.text \in Seq(Ch) /\ Len(Top.text) \in Nat
         /\ Top.p \in 1 .. Len(Top.text) /\ Top.p \in 1 .. Len(Top.text) + 1
         /\ Top.p + 1 \in 1 .. Len(Top.text) + 1
         /\ AfterName(Top.text, Top.p) \in 1 .. Len(Top.text) + 1
         /\ NameAt(Top.text, Top.p) \in Seq(Ch)
<1>1. stack # <<>> /\ Top.p <= Len(Top.text)  BY DEF Expanding
<1>2. FrameIsText(Top)  BY <1>1, TopIsText
<1> DEFINE t == Top.text
           p == Top.p
<1>3. t \in Seq(Ch) /\ p \in 1 .. Len(t) + 1  BY <1>2 DEF FrameIsText
<1>4. Len(t) \in Nat  BY <1>3
<1>5. AfterName(t, p) \in p .. Len(t) + 1 /\ NameAt(t, p) \in Seq(IdentChar)
  BY <1>3, NamesEnd
<1>6. NameAt(t, p) \in Seq(Ch)
  <2>1. IdentChar \subseteq Ch  BY Characters, Zenon
  <2>2. QED  BY <1>5, <2>1
<1>7. p <= Len(t)  BY <1>1
<1> HIDE DEF t, p
<1>8. p \in 1 .. Len(t) /\ p + 1 \in 1 .. Len(t) + 1 /\ AfterName(t, p) \in 1 .. Len(t) + 1
  BY <1>3, <1>4, <1>5, <1>7
<1>9. QED  BY <1>3, <1>4, <1>6, <1>8 DEF t, p

LEMMA FrameQuotedHolds ==
  ASSUME TextInv, CallsInv, FrameQuoted
  PROVE  TextInv'
<1>1. Expanding  BY DEF FrameQuoted
<1> DEFINE t == Top.text
           p == Top.p
           to == AfterQuoted(t, p)
<1>2. t \in Seq(Ch) /\ Len(t) \in Nat /\ p \in 1 .. Len(t) /\ p \in 1 .. Len(t) + 1
  BY <1>1, TopFacts
<1>3. ToTop(SubSeq(t, p, to - 1), to)  BY DEF FrameQuoted
<1>4. to \in p + 1 .. Len(t) + 1  BY <1>2, QuotesEnd
<1>5. to \in p .. Len(t) + 1 /\ to \in 1 .. Len(t) + 1
  <2> HIDE DEF t, p, to
  <2>1. QED  BY <1>2, <1>4
<1>6. SubSeq(t, p, to - 1) \in Seq(Ch)
  <2>1. <<>> \in Seq(Ch)  OBVIOUS
  <2> HIDE DEF t, p, to
  <2>2. QED  BY <1>2, <1>5, <2>1, Adding
<1>7. QED  BY <1>1, <1>3, <1>5, <1>6, ToTopHolds

LEMMA FrameCharHolds ==
  ASSUME TextInv, CallsInv, FrameChar
  PROVE  TextInv'
<1>1. Expanding /\ ToTop(<<Top.text[Top.p]>>, Top.p + 1)  BY DEF FrameChar
<1>2. Top.text \in Seq(Ch) /\ Top.p \in 1 .. Len(Top.text)
      /\ Top.p + 1 \in 1 .. Len(Top.text) + 1
  BY <1>1, TopFacts
<1>3. Top.text[Top.p] \in Ch
  <2>1. \A t \in Seq(Ch) : \A i \in 1 .. Len(t) : t[i] \in Ch  OBVIOUS
  <2>2. QED  BY <1>2, <2>1
<1>4. <<Top.text[Top.p]>> \in Seq(Ch)
  <2> DEFINE c == Top.text[Top.p]
  <2>1. c \in Ch  BY <1>3
  <2> HIDE DEF c
  <2>2. <<c>> \in Seq(Ch)  BY <2>1
  <2>3. QED  BY <2>2 DEF c
<1>5. QED  BY <1>1, <1>2, <1>4, ToTopHolds

LEMMA FrameNameHolds ==
  ASSUME TextInv, CallsInv, FrameName
  PROVE  TextInv'
<1>1. Expanding  BY DEF FrameName
<1> DEFINE n == NameAt(Top.text, Top.p)
           to == AfterName(Top.text, Top.p)
<1>2. to \in 1 .. Len(Top.text) + 1 /\ n \in Seq(Ch)  BY <1>1, TopFacts
<1>3. ToTop(IF n = <<"line">> THEN LineNumber ELSE n, to)  BY DEF FrameName
<1>4. LineNumber \in Seq(Ch)
  <2>1. "1" \in Ch  BY Characters, Zenon
  <2>2. <<"1">> \in Seq(Ch)  BY <2>1
  <2>3. QED  BY <2>2 DEF LineNumber
<1> HIDE DEF n, to
<1>5. QED  BY <1>1, <1>2, <1>3, <1>4, ToTopHolds

LEMMA FrameObjectHolds ==
  ASSUME TextInv, CallsInv, FrameObject
  PROVE  TextInv'
<1>1. Expanding /\ stack # <<>>  BY DEF FrameObject, Expanding
<1> DEFINE n == NameAt(Top.text, Top.p)
           to == AfterName(Top.text, Top.p)
           v == macros[n].value
           f == [Top EXCEPT !.p = to]
           g == Frame(v, Deeper(Top.depth))
           q == Callers \o <<f, g>>
<1>2. to \in 1 .. Len(Top.text) + 1  BY <1>1, TopFacts
<1>3. v \in Seq(Ch)
  <2>1. n \in DOMAIN macros  BY DEF FrameObject, IsObject, IsMacro
  <2>2. QED  BY <2>1 DEF TextInv, MacrosInv
<1>4. CASE TooDeep(Deeper(Top.depth))
  <2>1. ToTop(v, to)  BY <1>4 DEF FrameObject
  <2> HIDE DEF v, to
  <2>2. QED  BY <1>1, <1>2, <1>3, <2>1, ToTopHolds
<1>5. CASE ~TooDeep(Deeper(Top.depth))
  <2>1. stack' = q /\ UNCHANGED <<macros, line, s, inComment, out, call, body, status>>
    BY <1>5 DEF FrameObject
  <2>2. PICK F : /\ Callers \in Seq(F) /\ Len(Callers) = Len(stack) - 1
                 /\ \A i \in 1 .. Len(Callers) : FrameIsText(Callers[i]) /\ IsFrame(Callers[i])
    BY <1>1, TopIsText
  <2>3. status = "text" /\ FrameIsText(Top) /\ IsFrame(Top)  BY <1>1, TopIsText
  <2>4. FrameIsText(f)
    <3> HIDE DEF to
    <3>1. f \in [text : {Top.text}, p : {to}, out : {Top.out}, depth : {Top.depth}]
      BY <2>3 DEF IsFrame
    <3> HIDE DEF f
    <3>2. f.text = Top.text /\ f.p = to /\ f.out = Top.out  BY <3>1
    <3>3. QED  BY <1>2, <2>3, <3>2 DEF FrameIsText
  <2>5. FrameIsText(g)
    <3> HIDE DEF v
    <3>1. g.text = v /\ g.p = 1 /\ g.out = <<>>  BY DEF Frame
    <3> HIDE DEF g
    <3>2. Len(v) \in Nat  BY <1>3
    <3>3. QED  BY <1>3, <3>1, <3>2 DEF FrameIsText
  <2> HIDE DEF f, g
  <2>6. Callers \in Seq(F \cup {f, g}) /\ <<f, g>> \in Seq(F \cup {f, g}) /\ Len(Callers) \in Nat
    BY <2>2
  <2>7. /\ q \in Seq(F \cup {f, g}) /\ Len(q) = Len(Callers) + 2
        /\ \A i \in 1 .. Len(Callers) : q[i] = Callers[i]
        /\ \A i \in 1 .. 2 : q[Len(Callers) + i] = <<f, g>>[i]
    BY <2>6, ConcatProperties
  <2>8. q[Len(Callers) + 1] = f /\ q[Len(Callers) + 2] = g  BY <2>7
  <2> HIDE DEF q
  <2>9. \A i \in 1 .. Len(q) : FrameIsText(q[i])
    <3>1. TAKE i \in 1 .. Len(q)
    <3>2. i \in 1 .. Len(Callers) \/ i = Len(Callers) + 1 \/ i = Len(Callers) + 2
      BY <2>6, <2>7
    <3>3. QED  BY <2>2, <2>4, <2>5, <2>7, <2>8, <3>2
  <2>10. out' \in Seq(Ch)  BY <2>1 DEF TextInv, LineInv
  <2>11. QED  BY <2>1, <2>3, <2>7, <2>9, <2>10, FramesHold
<1>6. QED  BY <1>4, <1>5

LEMMA EndFrameHolds ==
  ASSUME TextInv, CallsInv, EndFrame
  PROVE  TextInv'
<1>1. stack # <<>> /\ UNCHANGED <<macros, line, s, inComment, call, body, status>>
  BY DEF EndFrame
<1>2. PICK F : /\ Callers \in Seq(F) /\ Len(Callers) = Len(stack) - 1
               /\ \A i \in 1 .. Len(Callers) : FrameIsText(Callers[i]) /\ IsFrame(Callers[i])
  BY <1>1, TopIsText
<1>3. status = "text" /\ FrameIsText(Top)  BY <1>1, TopIsText
<1>4. out \in Seq(Ch) /\ Top.out \in Seq(Ch)  BY <1>3 DEF TextInv, LineInv, FrameIsText
<1>5. CASE Callers = <<>>
  <2>1. stack' = <<>> /\ out' = out \o Top.out  BY <1>5 DEF EndFrame
  <2>2. out' \in Seq(Ch)  BY <1>4, <2>1
  <2>3. <<>> \in Seq(F) /\ \A i \in 1 .. Len(<<>>) : FrameIsText(<<>>[i])  OBVIOUS
  <2>4. QED  BY <1>1, <1>3, <2>1, <2>2, <2>3, FramesHold
<1>6. CASE Callers # <<>>
  <2> DEFINE m == Len(Callers)
             u == Callers[m].out \o Top.out
             f == [Callers[m] EXCEPT !.out = u]
             q == [Callers EXCEPT ![m] = f]
  <2>1. stack' = q /\ out' = out  BY <1>6 DEF EndFrame
  <2>2. m \in Nat \ {0} /\ m \in 1 .. m  BY <1>2, <1>6
  <2>3. FrameIsText(Callers[m]) /\ IsFrame(Callers[m])  BY <1>2, <2>2
  <2>4. u \in Seq(Ch)  BY <1>4, <2>3 DEF FrameIsText
  <2>5. FrameIsText(f)
    <3> DEFINE c == Callers[m]
    <3> HIDE DEF u, c
    <3>1. f = [c EXCEPT !.out = u]  BY DEF c
    <3>2. FrameIsText(c) /\ IsFrame(c)  BY <2>3 DEF c
    <3>3. f \in [text : {c.text}, p : {c.p}, out : {u}, depth : {c.depth}]
      BY <3>1, <3>2 DEF IsFrame
    <3> HIDE DEF f
    <3>4. f.text = c.text /\ f.p = c.p /\ f.out = u  BY <3>3
    <3>5. QED  BY <2>4, <3>2, <3>4 DEF FrameIsText
  <2> HIDE DEF f
  <2>6. q \in Seq(F \cup {f}) /\ Len(q) = m /\ \A i \in 1 .. m : q[i] \in {f, Callers[i]}
    <3>1. Callers \in Seq(F \cup {f})  BY <1>2
    <3>2. QED  BY <3>1, <2>2
  <2>7. \A i \in 1 .. Len(q) : FrameIsText(q[i])  BY <1>2, <2>5, <2>6
  <2> HIDE DEF q
  <2>8. out' \in Seq(Ch)  BY <1>4, <2>1
  <2>9. QED  BY <1>1, <1>3, <2>1, <2>6, <2>7, <2>8, FramesHold
<1>7. QED  BY <1>5, <1>6

LEMMA NextText == TextInv /\ CallsInv /\ [Next]_vars => TextInv'
<1>1. SUFFICES ASSUME TextInv, CallsInv, [Next]_vars PROVE TextInv'  OBVIOUS
<1>2. CASE InComment \/ OpenComment \/ LineComment \/ Quoted \/ OtherChar \/ PlainName
  BY <1>1, <1>2, CopiesHold
<1>3. CASE LineName  BY <1>1, <1>3, LineNameHolds
<1>4. CASE ObjectName  BY <1>1, <1>4, ObjectNameHolds
<1>5. CASE BeginCall  BY <1>1, <1>5, BeginCallHolds
<1>6. CASE EndLine  BY <1>1, <1>6, EndLineHolds
<1>7. CASE BeginArg  BY <1>1, <1>7, BeginArgHolds
<1>8. CASE ArgChar  BY <1>1, <1>8, ArgCharHolds
<1>9. CASE EndArg  BY <1>1, <1>9, EndArgHolds
<1>10. CASE Paste  BY <1>1, <1>10, PasteHolds
<1>11. CASE Stringify  BY <1>1, <1>11, StringifyHolds
<1>12. CASE OptionalArgs  BY <1>1, <1>12, OptionalArgsHolds
<1>13. CASE BodyName  BY <1>1, <1>13, BodyNameHolds
<1>14. CASE BodyChar  BY <1>1, <1>14, BodyCharHolds
<1>15. CASE EndBody  BY <1>1, <1>15, EndBodyHolds
<1>16. CASE FrameQuoted  BY <1>1, <1>16, FrameQuotedHolds
<1>17. CASE FrameChar  BY <1>1, <1>17, FrameCharHolds
<1>18. CASE FrameName  BY <1>1, <1>18, FrameNameHolds
<1>19. CASE FrameObject  BY <1>1, <1>19, FrameObjectHolds
<1>20. CASE EndFrame  BY <1>1, <1>20, EndFrameHolds
<1>21. CASE UNCHANGED vars
  BY <1>1, <1>21 DEF vars, TextInv, MacrosInv, LineInv, CallInv, BodyInv, FramesInv, Macro,
                     IsFunction, IsMacro
<1>22. QED
  BY <1>1, <1>2, <1>3, <1>4, <1>5, <1>6, <1>7, <1>8, <1>9, <1>10, <1>11, <1>12, <1>13, <1>14,
     <1>15, <1>16, <1>17, <1>18, <1>19, <1>20, <1>21
  DEF Next

LEMMA TextInvShowsTypes == TextInv /\ CallsInv => TypeOK
<1>1. SUFFICES ASSUME TextInv, CallsInv PROVE TypeOK  OBVIOUS
<1>2. Text = Seq(Ch)  BY Characters, Zenon
<1>3. ArgsAreText(call.args)  BY <1>1 DEF TextInv, CallInv
<1>4. \A i \in DOMAIN call.args : call.args[i] \in Text
  <2>1. DOMAIN call.args = 1 .. Len(call.args)  BY <1>3 DEF ArgsAreText
  <2>2. QED  BY <1>2, <1>3, <2>1 DEF ArgsAreText
<1>5. \A i \in DOMAIN stack :
        /\ stack[i].text \in Text /\ stack[i].out \in Text
        /\ stack[i].p \in 1 .. Len(stack[i].text) + 1
  BY <1>1, <1>2 DEF TextInv, FramesInv, FrameIsText
<1>6. s \in 1 .. Len(line) + 1 /\ inComment \in BOOLEAN /\ out \in Text /\ body.out \in Text
      /\ call.depth \in Nat /\ CallsKeepTheLimit
  BY <1>1, <1>2 DEF TextInv, LineInv, BodyInv, CallInv, CallsInv
<1>7. /\ status \in {"text", "args", "body", "done"}
      /\ status \in {"args", "body"} => stack = <<>> /\ IsFunction(call.name)
      /\ status = "text" => call = NoCall
  BY <1>1 DEF TextInv, CallInv
<1>8. QED  BY <1>4, <1>5, <1>6, <1>7 DEF TypeOK

(* Every text made of a line is of characters that a line may have, and     *)
(* every place that is read is in its text or just behind it, whatever the  *)
(* line and the macros: the code reads no character behind the end that     *)
(* closes each of its strings, and a `(' that is never closed, a quote that *)
(* is never closed or a backslash at the end stops at it.                   *)
THEOREM TypesHold == Spec => []TypeOK
<1>1. Init => TextInv /\ CallsInv  BY InitText, InitHasNoCalls
<1>2. TextInv /\ CallsInv /\ [Next]_vars => TextInv' /\ CallsInv'
  BY NextText, NextKeepsCalls
<1>3. QED  BY <1>1, <1>2, TextInvShowsTypes, PTL DEF Spec

-----------------------------------------------------------------------------
(* The division of a call's arguments.  What is a divider depends only on   *)
(* the line and on where the call opens, which no step changes, so the      *)
(* operators name both.                                                     *)

IsComma(l, i) == l[i] = ","
LevelIn(l, o, i) ==
  Cardinality({k \in o + 1 .. i - 1 : l[k] = "("})
    - Cardinality({k \in o + 1 .. i - 1 : l[k] = ")"})
SplitsAt(l, o, i) == i = o \/ (IsComma(l, i) /\ LevelIn(l, o, i) = 0)
SplitsBefore(l, o, e) == {k \in o .. e - 1 : SplitsAt(l, o, k)}
Unclosed(l, o, e) == \A k \in o + 1 .. e - 1 : l[k] = ")" => LevelIn(l, o, k) > 0

\* The n-th piece of the list, without the blanks around it, between two places.
IsPiece(l, o, arg, n, f, t) ==
  /\ f < t
  /\ SplitsAt(l, o, f)
  /\ \A k \in f + 1 .. t - 1 : ~SplitsAt(l, o, k)
  /\ n = Cardinality(SplitsBefore(l, o, t))
  /\ arg = Trim(SubSeq(l, f + 1, t - 1))

\* A piece that a divider ends, up to e; or one that e itself ends.
IsWhole(l, o, arg, n, e) ==
  \E f \in o .. e, t \in o .. e : IsPiece(l, o, arg, n, f, t) /\ SplitsAt(l, o, t)
IsCut(l, o, arg, n, e) ==
  \/ IsWhole(l, o, arg, n, e - 1)
  \/ \E f \in o .. e - 1 : IsPiece(l, o, arg, n, f, e)

AreWhole(l, o, args, p) == \A n \in 1 .. Len(args) : IsWhole(l, o, args[n], n, p - 1)
AreCut(l, o, args, e) == \A n \in 1 .. Len(args) : IsCut(l, o, args[n], n, e)

\* Behind a divider; in an argument; and behind one that the line ended.
IsFresh(l, o, p, args) ==
  /\ SplitsAt(l, o, p - 1) /\ LevelIn(l, o, p) = 0
  /\ Cardinality(SplitsBefore(l, o, p)) = Len(args) + 1
  /\ AreWhole(l, o, args, p)
IsInArg(l, o, p, from, depth, args) ==
  /\ \E f \in o .. from - 1 :
       /\ SplitsAt(l, o, f)
       /\ \A k \in f + 1 .. p - 1 : ~SplitsAt(l, o, k)
       /\ \A k \in f + 1 .. from - 1 : l[k] = "blank"
  /\ At(l, from) # "blank"
  /\ depth = LevelIn(l, o, p)
  /\ Cardinality(SplitsBefore(l, o, p)) = Len(args) + 1
  /\ AreWhole(l, o, args, p)
IsEnded(l, o, p, args) ==
  /\ p = Len(l) + 1
  /\ Cardinality(SplitsBefore(l, o, p)) = Len(args)
  /\ AreCut(l, o, args, p)

IsDividedAt(l, o, c, args) ==
  /\ c = Len(l) + 1 \/ (l[c] = ")" /\ LevelIn(l, o, c) = 0)
  /\ Unclosed(l, o, c)
  /\ AreCut(l, o, args, c)
  /\ \/ Cardinality(SplitsBefore(l, o, c)) = Len(args)
     \/ /\ Cardinality(SplitsBefore(l, o, c)) = Len(args) + 1
        /\ \E f \in o .. c - 1 : IsPiece(l, o, <<>>, Len(args) + 1, f, c)

ListInv ==
  status = "args" =>
    /\ call.open \in 1 .. Len(line) /\ call.open < s
    /\ Unclosed(line, call.open, s)
    /\ call.from = 0 => IsFresh(line, call.open, s, call.args)
                          \/ IsEnded(line, call.open, s, call.args)
    /\ call.from > 0 => IsInArg(line, call.open, s, call.from, call.depth, call.args)

DividedInv ==
  status = "body" =>
    /\ call.open \in 1 .. Len(line)
    /\ \E c \in call.open + 1 .. Len(line) + 1 :
         s = (IF c > Len(line) THEN c ELSE c + 1) /\ IsDividedAt(line, call.open, c, call.args)

LEMMA CountNext ==
  ASSUME NEW P, NEW a \in Int, NEW i \in Int, a <= i
  PROVE  /\ Cardinality({k \in a .. i - 1 : k \in P}) \in Nat
         /\ Cardinality({k \in a .. i : k \in P})
              = Cardinality({k \in a .. i - 1 : k \in P}) + (IF i \in P THEN 1 ELSE 0)
<1> DEFINE A == {k \in a .. i - 1 : k \in P}
           B == {k \in a .. i : k \in P}
<1>1. IsFiniteSet(A)
  <2>1. IsFiniteSet(a .. i - 1)  BY FS_Interval
  <2>2. QED  BY <2>1, FS_Subset
<1>2. Cardinality(A) \in Nat  BY <1>1, FS_CardinalityType
<1>3. Cardinality(B) = Cardinality(A) + (IF i \in P THEN 1 ELSE 0)
  <2>1. CASE i \in P
    <3>1. B = A \cup {i} /\ i \notin A  BY <2>1
    <3> HIDE DEF A, B
    <3>2. Cardinality(B) = Cardinality(A) + 1  BY <1>1, <3>1, FS_AddElement
    <3>3. QED  BY <2>1, <3>2
  <2>2. CASE i \notin P
    <3>1. B = A  BY <2>2
    <3> HIDE DEF A, B
    <3>2. QED  BY <1>2, <2>2, <3>1
  <2>3. QED  BY <2>1, <2>2
<1>4. QED  BY <1>2, <1>3

LEMMA LevelNext ==
  ASSUME NEW l, NEW o \in Int, NEW i \in Int, o < i
  PROVE  /\ LevelIn(l, o, i) \in Int
         /\ LevelIn(l, o, i + 1) = LevelIn(l, o, i) + (IF l[i] = "(" THEN 1 ELSE 0)
                                     - (IF l[i] = ")" THEN 1 ELSE 0)
<1> DEFINE P == {k \in Int : l[k] = "("}
           Q == {k \in Int : l[k] = ")"}
           N(S, j) == Cardinality({k \in o + 1 .. j - 1 : k \in S})
<1>1. ASSUME NEW j \in Int PROVE LevelIn(l, o, j) = N(P, j) - N(Q, j)
  <2>1. {k \in o + 1 .. j - 1 : l[k] = "("} = {k \in o + 1 .. j - 1 : k \in P}  OBVIOUS
  <2>2. {k \in o + 1 .. j - 1 : l[k] = ")"} = {k \in o + 1 .. j - 1 : k \in Q}  OBVIOUS
  <2>3. QED  BY <2>1, <2>2 DEF LevelIn
<1>2. ASSUME NEW S PROVE N(S, i) \in Nat /\ N(S, i + 1) = N(S, i) + (IF i \in S THEN 1 ELSE 0)
  <2> DEFINE a == o + 1
  <2>1. a \in Int /\ a <= i /\ i + 1 - 1 = i  OBVIOUS
  <2> HIDE DEF a
  <2>2. /\ Cardinality({k \in a .. i - 1 : k \in S}) \in Nat
        /\ Cardinality({k \in a .. i : k \in S})
             = Cardinality({k \in a .. i - 1 : k \in S}) + (IF i \in S THEN 1 ELSE 0)
    BY <2>1, CountNext
  <2>3. N(S, i) = Cardinality({k \in a .. i - 1 : k \in S})  BY DEF a
  <2>4. N(S, i + 1) = Cardinality({k \in a .. i : k \in S})  BY <2>1 DEF a
  <2> HIDE DEF N
  <2>5. QED  BY <2>2, <2>3, <2>4
<1>3. (i \in P <=> l[i] = "(") /\ (i \in Q <=> l[i] = ")")  OBVIOUS
<1> DEFINE p == N(P, i)
           q == N(Q, i)
           p1 == N(P, i + 1)
           q1 == N(Q, i + 1)
<1>4. p \in Nat /\ q \in Nat /\ p1 = p + (IF l[i] = "(" THEN 1 ELSE 0)
      /\ q1 = q + (IF l[i] = ")" THEN 1 ELSE 0)
  BY <1>2, <1>3
<1>5. LevelIn(l, o, i) = p - q /\ LevelIn(l, o, i + 1) = p1 - q1  BY <1>1
<1> HIDE DEF p, q, p1, q1
<1>6. QED  BY <1>4, <1>5

\* The list is at level 0 where it opens.
LEMMA LevelFirst ==
  ASSUME NEW l, NEW o \in Int
  PROVE  LevelIn(l, o, o + 1) = 0
<1> DEFINE A == {k \in o + 1 .. o + 1 - 1 : l[k] = "("}
           B == {k \in o + 1 .. o + 1 - 1 : l[k] = ")"}
<1>1. A = {} /\ B = {}  OBVIOUS
<1>2. LevelIn(l, o, o + 1) = Cardinality(A) - Cardinality(B)  BY DEF LevelIn
<1> HIDE DEF A, B
<1>3. Cardinality(A) = 0 /\ Cardinality(B) = 0  BY <1>1, FS_EmptySet
<1>4. QED  BY <1>2, <1>3

LEMMA SplitsNext ==
  ASSUME NEW l, NEW o \in Int, NEW i \in Int, o <= i
  PROVE  /\ Cardinality(SplitsBefore(l, o, i)) \in Nat
         /\ Cardinality(SplitsBefore(l, o, i + 1))
              = Cardinality(SplitsBefore(l, o, i)) + (IF SplitsAt(l, o, i) THEN 1 ELSE 0)
<1> DEFINE P == {k \in Int : SplitsAt(l, o, k)}
<1>1. SplitsBefore(l, o, i) = {k \in o .. i - 1 : k \in P}  BY DEF SplitsBefore
<1>2. SplitsBefore(l, o, i + 1) = {k \in o .. i : k \in P}
  <2>1. i + 1 - 1 = i  OBVIOUS
  <2>2. QED  BY <2>1 DEF SplitsBefore
<1>3. i \in P <=> SplitsAt(l, o, i)  OBVIOUS
<1> HIDE DEF P
<1>4. QED  BY <1>1, <1>2, <1>3, CountNext

LEMMA SplitsFirst ==
  ASSUME NEW l, NEW o \in Int
  PROVE  Cardinality(SplitsBefore(l, o, o + 1)) = 1
<1>1. SplitsAt(l, o, o)  BY DEF SplitsAt
<1>2. o .. o + 1 - 1 = {o}  OBVIOUS
<1>3. SplitsBefore(l, o, o + 1) = {o}  BY <1>1, <1>2 DEF SplitsBefore
<1>4. QED  BY <1>3, FS_Singleton

LEMMA Commas ==
  ASSUME NEW l, NEW i, IsComma(l, i)
  PROVE  l[i] \notin {"(", ")", "blank", "end"}
  BY Zenon DEF IsComma

\* Blanks divide nothing and open and close nothing.
LEMMA BlanksDoNot ==
  ASSUME NEW l, NEW o \in Int, NEW i \in Int, NEW q \in Int, o < i, i <= q,
         \A k \in i .. q - 1 : l[k] = "blank"
  PROVE  /\ LevelIn(l, o, q) = LevelIn(l, o, i)
         /\ SplitsBefore(l, o, q) = SplitsBefore(l, o, i)
         /\ \A k \in i .. q - 1 : ~SplitsAt(l, o, k)
<1>1. \A k \in i .. q - 1 : l[k] # "(" /\ l[k] # ")" /\ ~SplitsAt(l, o, k)
  <2>1. TAKE k \in i .. q - 1
  <2>2. l[k] = "blank" /\ k # o  OBVIOUS
  <2>3. ~IsComma(l, k)  BY <2>2, Commas
  <2>4. QED  BY <2>2, <2>3 DEF SplitsAt
<1>2. ASSUME NEW b \in {o, o + 1}, NEW k \in b .. q - 1 PROVE k \in b .. i - 1 \/ k \in i .. q - 1
  OBVIOUS
<1>3. ASSUME NEW b \in {o, o + 1}, NEW k \in b .. i - 1 PROVE k \in b .. q - 1
  OBVIOUS
<1>4. {k \in o + 1 .. q - 1 : l[k] = "("} = {k \in o + 1 .. i - 1 : l[k] = "("}
  BY <1>1, <1>2, <1>3
<1>5. {k \in o + 1 .. q - 1 : l[k] = ")"} = {k \in o + 1 .. i - 1 : l[k] = ")"}
  BY <1>1, <1>2, <1>3
<1>6. SplitsBefore(l, o, q) = SplitsBefore(l, o, i)
  BY <1>1, <1>2, <1>3 DEF SplitsBefore
<1>7. QED  BY <1>1, <1>4, <1>5, <1>6 DEF LevelIn

\* Where the blanks in front of a text end, and what Trim makes of it.
LEMMA FrontBlanks ==
  ASSUME NEW C, NEW t \in Seq(C), NEW i \in 1 .. Len(t) + 1,
         \A k \in 1 .. i - 1 : t[k] = "blank", i <= Len(t) => t[i] # "blank"
  PROVE  SkipSpaces(t, 1) = i
<1> DEFINE j == SkipSpaces(t, 1)
<1>0. Len(t) \in Nat  OBVIOUS
<1>1. 1 \in 1 .. Len(t) + 1  BY <1>0
<1>2. j \in 1 .. Len(t) + 1 /\ At(t, j) # "blank" /\ \A k \in 1 .. j - 1 : t[k] = "blank"
  BY <1>1, BlanksEnd
<1> HIDE DEF j
<1>3. ~(j < i)
  <2>1. SUFFICES ASSUME j < i PROVE FALSE  OBVIOUS
  <2>2. j \in 1 .. i - 1 /\ j \in 1 .. Len(t)  BY <1>0, <1>2, <2>1
  <2>3. t[j] = "blank"  BY <2>2
  <2>4. QED  BY <1>2, <2>2, <2>3 DEF At
<1>4. ~(i < j)
  <2>1. SUFFICES ASSUME i < j PROVE FALSE  OBVIOUS
  <2>2. i \in 1 .. j - 1 /\ i <= Len(t)  BY <1>0, <1>2, <2>1
  <2>3. QED  BY <1>2, <2>2
<1>5. QED  BY <1>0, <1>2, <1>3, <1>4 DEF j

LEMMA TrimSkips ==
  ASSUME NEW C, NEW l \in Seq(C), NEW f \in 0 .. Len(l), NEW from \in f + 1 .. Len(l) + 1,
         NEW e \in from .. Len(l) + 1,
         \A k \in f + 1 .. from - 1 : l[k] = "blank", At(l, from) # "blank"
  PROVE  Trim(SubSeq(l, f + 1, e - 1)) = Trim(SubSeq(l, from, e - 1))
<1> DEFINE t == SubSeq(l, f + 1, e - 1)
           u == SubSeq(l, from, e - 1)
           i == from - f
<1>0. Len(l) \in Nat  OBVIOUS
<1>1. t \in Seq(C) /\ Len(t) = e - 1 - f /\ \A k \in 1 .. e - 1 - f : t[k] = l[f + k]
  <2>1. f + 1 \in 1 .. Len(l) + 1 /\ e - 1 \in 0 .. Len(l)  BY <1>0
  <2>2. /\ t \in Seq(C)
        /\ Len(t) = IF f + 1 <= e - 1 THEN e - 1 - (f + 1) + 1 ELSE 0
        /\ \A k \in 1 .. e - 1 - (f + 1) + 1 : t[k] = l[f + 1 + k - 1]
    BY <2>1, Pieces
  <2> HIDE DEF t
  <2>3. e - 1 - (f + 1) + 1 = e - 1 - f /\ \A k \in Int : f + 1 + k - 1 = f + k  BY <1>0
  <2>4. QED  BY <1>0, <2>2, <2>3
<1>2. u \in Seq(C) /\ Len(u) = e - from /\ \A k \in 1 .. e - from : u[k] = l[from + k - 1]
  <2>1. from \in 1 .. Len(l) + 1 /\ e - 1 \in 0 .. Len(l)  BY <1>0
  <2>2. /\ u \in Seq(C)
        /\ Len(u) = IF from <= e - 1 THEN e - 1 - from + 1 ELSE 0
        /\ \A k \in 1 .. e - 1 - from + 1 : u[k] = l[from + k - 1]
    BY <2>1, Pieces
  <2> HIDE DEF u
  <2>3. e - 1 - from + 1 = e - from  BY <1>0
  <2>4. QED  BY <1>0, <2>2, <2>3
<1> HIDE DEF t, u
<1>3. i \in 1 .. Len(t) + 1 /\ Len(t) \in Nat /\ Len(u) \in Nat  BY <1>0, <1>1, <1>2
<1>4. SkipSpaces(t, 1) = i
  <2>1. \A k \in 1 .. i - 1 : t[k] = "blank"
    <3>1. TAKE k \in 1 .. i - 1
    <3>2. k \in 1 .. e - 1 - f /\ f + k \in f + 1 .. from - 1  BY <1>0
    <3>3. QED  BY <1>1, <3>2
  <2>2. i <= Len(t) => t[i] # "blank"
    <3>1. SUFFICES ASSUME i <= Len(t) PROVE t[i] # "blank"  OBVIOUS
    <3>2. i \in 1 .. e - 1 - f /\ f + i = from /\ from \in 1 .. Len(l)  BY <1>0, <1>1, <3>1
    <3>3. t[i] = l[from]  BY <1>1, <3>2
    <3>4. QED  BY <3>2, <3>3 DEF At
  <2> HIDE DEF i
  <2>3. QED  BY <1>1, <1>3, <2>1, <2>2, FrontBlanks
<1>5. SkipSpaces(u, 1) = 1
  <2>1. 1 \in 1 .. Len(u) + 1 /\ \A k \in 1 .. 1 - 1 : u[k] = "blank"  BY <1>3
  <2>2. 1 <= Len(u) => u[1] # "blank"
    <3>1. SUFFICES ASSUME 1 <= Len(u) PROVE u[1] # "blank"  OBVIOUS
    <3>2. 1 \in 1 .. e - from /\ from + 1 - 1 = from /\ from \in 1 .. Len(l)  BY <1>0, <1>2, <3>1
    <3>3. u[1] = l[from]  BY <1>2, <3>2
    <3>4. QED  BY <3>2, <3>3 DEF At
  <2>3. QED  BY <1>2, <2>1, <2>2, FrontBlanks
<1>6. SubSeq(t, i, Len(t)) = u
  <2>1. Len(t) \in 0 .. Len(t)  BY <1>3
  <2>2. /\ SubSeq(t, i, Len(t)) \in Seq(C)
        /\ Len(SubSeq(t, i, Len(t))) = IF i <= Len(t) THEN Len(t) - i + 1 ELSE 0
        /\ \A k \in 1 .. Len(t) - i + 1 : SubSeq(t, i, Len(t))[k] = t[i + k - 1]
    <3> HIDE DEF i
    <3>1. QED  BY <1>1, <1>3, <2>1, Pieces
  <2> DEFINE v == SubSeq(t, i, Len(t))
  <2> HIDE DEF v
  <2>3. Len(t) - i + 1 = e - from  BY <1>0, <1>1
  <2>4. Len(v) = e - from
    <3>1. v \in Seq(C) /\ Len(v) = IF i <= Len(t) THEN e - from ELSE 0  BY <2>2, <2>3 DEF v
    <3>2. QED  BY <1>0, <1>1, <3>1
  <2>5. \A k \in 1 .. e - from : v[k] = u[k]
    <3>1. TAKE k \in 1 .. e - from
    <3>2. v[k] = t[i + k - 1]  BY <2>2, <2>3 DEF v
    <3>3. i + k - 1 \in 1 .. e - 1 - f /\ f + (i + k - 1) = from + k - 1  BY <1>0
    <3>4. t[i + k - 1] = l[f + (i + k - 1)]  BY <1>1, <3>3
    <3>5. QED  BY <1>2, <3>2, <3>3, <3>4
  <2>6. v \in Seq(C)  BY <2>2 DEF v
  <2>7. v = u  BY <1>2, <2>4, <2>5, <2>6, SeqEqual
  <2>8. QED  BY <2>7 DEF v
<1>7. SubSeq(u, 1, Len(u)) = u
  <2>1. 1 \in 1 .. Len(u) + 1 /\ Len(u) \in 0 .. Len(u)  BY <1>3
  <2> DEFINE v == SubSeq(u, 1, Len(u))
  <2>2. /\ v \in Seq(C) /\ Len(v) = IF 1 <= Len(u) THEN Len(u) - 1 + 1 ELSE 0
        /\ \A k \in 1 .. Len(u) - 1 + 1 : v[k] = u[1 + k - 1]
    BY <1>2, <2>1, Pieces
  <2> HIDE DEF v
  <2>3. Len(v) = Len(u) /\ \A k \in 1 .. Len(u) : v[k] = u[k]  BY <1>3, <2>2
  <2>4. v = u  BY <1>2, <2>2, <2>3, SeqEqual
  <2>5. QED  BY <2>4 DEF v
<1>8. Trim(t) = TrimEnd(u) /\ Trim(u) = TrimEnd(u)
  <2> HIDE DEF i
  <2>1. QED  BY <1>4, <1>5, <1>6, <1>7 DEF Trim
<1>9. QED  BY <1>8 DEF t, u

LEMMA TrimOfBlanks ==
  ASSUME NEW C, NEW t \in Seq(C), \A k \in 1 .. Len(t) : t[k] = "blank"
  PROVE  Trim(t) = <<>>
<1>0. Len(t) \in Nat  OBVIOUS
<1> DEFINE e == Len(t) + 1
<1>1. e \in 1 .. Len(t) + 1 /\ ~(e <= Len(t)) /\ e - 1 = Len(t)  BY <1>0
<1>2. SkipSpaces(t, 1) = e
  <2> HIDE DEF e
  <2>1. QED  BY <1>1, FrontBlanks
<1>3. SubSeq(t, e, Len(t)) = <<>>  BY <1>0
<1>4. TrimEnd(<<>>) = <<>>
  <2> DEFINE m == CHOOSE n \in 0 .. Len(<<>>) : /\ At(<<>>, n) # "blank"
                                                /\ \A k \in n + 1 .. Len(<<>>) : <<>>[k] = "blank"
  <2>1. TrimEnd(<<>>) = SubSeq(<<>>, 1, m)  BY DEF TrimEnd
  <2>2. 0 .. Len(<<>>) = {0}  OBVIOUS
  <2>3. At(<<>>, 0) # "blank" /\ \A k \in 0 + 1 .. Len(<<>>) : <<>>[k] = "blank"  BY DEF At
  <2>4. m = 0  BY <2>2, <2>3
  <2> HIDE DEF m
  <2>5. QED  BY <2>1, <2>4
<1>5. QED  BY <1>2, <1>3, <1>4 DEF Trim

\* Pieces stay what they are as the list is read on.
LEMMA WholeGrows ==
  ASSUME NEW l, NEW o \in Int, NEW args, NEW p \in Int, NEW q \in Int, p <= q,
         AreWhole(l, o, args, p)
  PROVE  AreWhole(l, o, args, q) /\ AreCut(l, o, args, q)
<1>1. ASSUME NEW n \in 1 .. Len(args) PROVE IsWhole(l, o, args[n], n, q - 1)
  <2>1. PICK f \in o .. p - 1, t \in o .. p - 1 : IsPiece(l, o, args[n], n, f, t) /\ SplitsAt(l, o, t)
    BY <1>1 DEF AreWhole, IsWhole
  <2>2. f \in o .. q - 1 /\ t \in o .. q - 1  OBVIOUS
  <2>3. QED  BY <2>1, <2>2 DEF IsWhole
<1>2. QED  BY <1>1 DEF AreWhole, AreCut, IsCut

LEMMA UnclosedOverBlanks ==
  ASSUME NEW l, NEW o \in Int, NEW p \in Int, NEW q \in Int, o < p, p <= q,
         \A k \in p .. q - 1 : l[k] = "blank", Unclosed(l, o, p)
  PROVE  Unclosed(l, o, q)
<1>1. \A k \in o + 1 .. q - 1 : l[k] = ")" => k \in o + 1 .. p - 1
  <2>1. TAKE k \in o + 1 .. q - 1
  <2>2. k \in o + 1 .. p - 1 \/ k \in p .. q - 1  OBVIOUS
  <2>3. QED  BY <2>2
<1>2. QED  BY <1>1 DEF Unclosed

LEMMA ListOpens ==
  ASSUME NEW l, NEW o \in Int
  PROVE  IsFresh(l, o, o + 1, <<>>) /\ Unclosed(l, o, o + 1)
<1>1. SplitsAt(l, o, o)  BY DEF SplitsAt
<1>2. LevelIn(l, o, o + 1) = 0 /\ Cardinality(SplitsBefore(l, o, o + 1)) = 1
  BY LevelFirst, SplitsFirst
<1>3. o + 1 - 1 = o /\ Len(<<>>) = 0 /\ 0 + 1 = 1 /\ \A k : k \notin o + 1 .. o + 1 - 1
  OBVIOUS
<1>4. AreWhole(l, o, <<>>, o + 1)  BY DEF AreWhole
<1>5. QED  BY <1>1, <1>2, <1>3, <1>4 DEF IsFresh, Unclosed

\* Behind a divider, blanks lead to an argument or to the end of the list.
LEMMA FreshToArg ==
  ASSUME NEW l, NEW o \in Int, NEW p \in Int, NEW q \in Int, o < p, p <= q,
         \A k \in p .. q - 1 : l[k] = "blank", At(l, q) # "blank",
         NEW args, IsFresh(l, o, p, args)
  PROVE  IsInArg(l, o, q, q, 0, args)
<1>1. /\ LevelIn(l, o, q) = LevelIn(l, o, p)
      /\ SplitsBefore(l, o, q) = SplitsBefore(l, o, p)
      /\ \A k \in p .. q - 1 : ~SplitsAt(l, o, k)
  BY BlanksDoNot
<1>2. AreWhole(l, o, args, q)  BY WholeGrows DEF IsFresh
<1>3. p - 1 \in o .. q - 1 /\ p - 1 + 1 = p  OBVIOUS
<1>4. SplitsAt(l, o, p - 1)  BY DEF IsFresh
<1>5. \E f \in o .. q - 1 :
        /\ SplitsAt(l, o, f)
        /\ \A k \in f + 1 .. q - 1 : ~SplitsAt(l, o, k)
        /\ \A k \in f + 1 .. q - 1 : l[k] = "blank"
  BY <1>1, <1>3, <1>4
<1>6. QED  BY <1>1, <1>2, <1>5 DEF IsInArg, IsFresh

LEMMA FreshToEnd ==
  ASSUME NEW C, NEW l \in Seq(C), NEW o \in 1 .. Len(l), NEW p \in o + 1 .. Len(l) + 1,
         NEW q \in p .. Len(l) + 1, \A k \in p .. q - 1 : l[k] = "blank",
         NEW args, IsFresh(l, o, p, args), Unclosed(l, o, p),
         q = Len(l) + 1 \/ l[q] = ")"
  PROVE  IsDividedAt(l, o, q, args)
<1>0. Len(l) \in Nat /\ o \in Int /\ p \in Int /\ q \in Int /\ o < p /\ p <= q  OBVIOUS
<1>1. /\ LevelIn(l, o, q) = LevelIn(l, o, p)
      /\ SplitsBefore(l, o, q) = SplitsBefore(l, o, p)
      /\ \A k \in p .. q - 1 : ~SplitsAt(l, o, k)
  BY <1>0, BlanksDoNot
<1>2. AreCut(l, o, args, q)  BY <1>0, WholeGrows DEF IsFresh
<1>3. Unclosed(l, o, q)  BY <1>0, UnclosedOverBlanks
<1>4. LevelIn(l, o, q) = 0 /\ Cardinality(SplitsBefore(l, o, q)) = Len(args) + 1
  BY <1>1 DEF IsFresh
<1>5. IsPiece(l, o, <<>>, Len(args) + 1, p - 1, q)
  <2>1. p - 1 < q /\ p - 1 + 1 = p  BY <1>0
  <2>2. SplitsAt(l, o, p - 1)  BY DEF IsFresh
  <2>3. Trim(SubSeq(l, p, q - 1)) = <<>>
    <3> DEFINE t == SubSeq(l, p, q - 1)
    <3>1. p \in 1 .. Len(l) + 1 /\ q - 1 \in 0 .. Len(l)  BY <1>0
    <3>2. /\ t \in Seq(C) /\ Len(t) = IF p <= q - 1 THEN q - 1 - p + 1 ELSE 0
          /\ \A k \in 1 .. q - 1 - p + 1 : t[k] = l[p + k - 1]
      BY <3>1, Pieces
    <3> HIDE DEF t
    <3>3. \A k \in 1 .. Len(t) : k \in 1 .. q - 1 - p + 1 /\ p + k - 1 \in p .. q - 1
      BY <1>0, <3>2
    <3>4. \A k \in 1 .. Len(t) : t[k] = "blank"  BY <3>2, <3>3
    <3>5. QED  BY <3>2, <3>4, TrimOfBlanks DEF t
  <2>4. QED  BY <1>1, <1>4, <2>1, <2>2, <2>3 DEF IsPiece
<1>6. p - 1 \in o .. q - 1  BY <1>0
<1>7. QED  BY <1>2, <1>3, <1>4, <1>5, <1>6 DEF IsDividedAt

\* Within an argument.
LEMMA ArgGoesOn ==
  ASSUME NEW l, NEW o \in Int, NEW p \in Int, NEW from \in Int, o < p, from <= p,
         NEW d \in Nat, NEW args, Len(args) \in Nat,
         IsInArg(l, o, p, from, d, args), Unclosed(l, o, p),
         IsComma(l, p) => d # 0, l[p] = ")" => d # 0
  PROVE  /\ IsInArg(l, o, p + 1, from,
                    d + (IF l[p] = "(" THEN 1 ELSE 0) - (IF l[p] = ")" THEN 1 ELSE 0), args)
         /\ Unclosed(l, o, p + 1)
<1> DEFINE d1 == d + (IF l[p] = "(" THEN 1 ELSE 0) - (IF l[p] = ")" THEN 1 ELSE 0)
<1>1. d = LevelIn(l, o, p) /\ AreWhole(l, o, args, p) /\ At(l, from) # "blank"
      /\ Cardinality(SplitsBefore(l, o, p)) = Len(args) + 1
  BY DEF IsInArg
<1>2. d1 = LevelIn(l, o, p + 1)  BY <1>1, LevelNext
<1>3. ~SplitsAt(l, o, p)  BY <1>1 DEF SplitsAt
<1>4. Cardinality(SplitsBefore(l, o, p + 1)) = Len(args) + 1
  <2> DEFINE c == Cardinality(SplitsBefore(l, o, p))
             c1 == Cardinality(SplitsBefore(l, o, p + 1))
  <2>0. o <= p  OBVIOUS
  <2>1. c1 = c + (IF SplitsAt(l, o, p) THEN 1 ELSE 0)  BY <2>0, SplitsNext
  <2>2. c = Len(args) + 1  BY <1>1
  <2> HIDE DEF c, c1
  <2>3. c1 = c + 0  BY <1>3, <2>1
  <2>4. c1 = Len(args) + 1  BY <2>2, <2>3
  <2>5. QED  BY <2>4 DEF c1
<1>5. AreWhole(l, o, args, p + 1)  BY <1>1, WholeGrows
<1>6. \A k \in Int : k <= p + 1 - 1 => k = p \/ k <= p - 1  OBVIOUS
<1>7. PICK f \in o .. from - 1 :
        /\ SplitsAt(l, o, f)
        /\ \A k \in f + 1 .. p - 1 : ~SplitsAt(l, o, k)
        /\ \A k \in f + 1 .. from - 1 : l[k] = "blank"
  BY DEF IsInArg
<1>8. \A k \in f + 1 .. p + 1 - 1 : ~SplitsAt(l, o, k)
  <2>1. TAKE k \in f + 1 .. p + 1 - 1
  <2>2. k = p \/ k \in f + 1 .. p - 1  BY <1>6
  <2>3. QED  BY <1>3, <1>7, <2>2
<1> HIDE DEF d1
<1>9. IsInArg(l, o, p + 1, from, d1, args)
  BY <1>1, <1>2, <1>4, <1>5, <1>7, <1>8 DEF IsInArg
<1>10. Unclosed(l, o, p + 1)
  <2>1. SUFFICES ASSUME NEW k \in o + 1 .. p + 1 - 1, l[k] = ")" PROVE LevelIn(l, o, k) > 0
    BY DEF Unclosed
  <2>2. k = p \/ k \in o + 1 .. p - 1  BY <1>6
  <2>3. CASE k = p  BY <1>1, <2>1, <2>3
  <2>4. CASE k \in o + 1 .. p - 1  BY <2>1, <2>4 DEF Unclosed
  <2>5. QED  BY <2>2, <2>3, <2>4
<1>11. QED  BY <1>9, <1>10 DEF d1

\* What is read of an argument is the piece behind the last divider.
LEMMA PieceRead ==
  ASSUME NEW C, NEW l \in Seq(C), NEW o \in 1 .. Len(l), NEW p \in o + 1 .. Len(l) + 1,
         NEW from \in 1 .. p, NEW d, NEW args, IsInArg(l, o, p, from, d, args)
  PROVE  \E f \in o .. p - 1 :
           IsPiece(l, o, Trim(SubSeq(l, from, p - 1)), Len(args) + 1, f, p)
<1>0. Len(l) \in Nat  OBVIOUS
<1>1. PICK f \in o .. from - 1 :
        /\ SplitsAt(l, o, f)
        /\ \A k \in f + 1 .. p - 1 : ~SplitsAt(l, o, k)
        /\ \A k \in f + 1 .. from - 1 : l[k] = "blank"
  BY DEF IsInArg
<1>2. f \in 0 .. Len(l) /\ from \in f + 1 .. Len(l) + 1 /\ p \in from .. Len(l) + 1
      /\ f \in o .. p - 1 /\ f < p
  BY <1>0, <1>1
<1>3. Trim(SubSeq(l, f + 1, p - 1)) = Trim(SubSeq(l, from, p - 1))
  BY <1>1, <1>2, TrimSkips DEF IsInArg
<1>4. Cardinality(SplitsBefore(l, o, p)) = Len(args) + 1  BY DEF IsInArg
<1>5. QED  BY <1>1, <1>2, <1>3, <1>4 DEF IsPiece

LEMMA ArgToEnd ==
  ASSUME NEW C, NEW l \in Seq(C), NEW o \in 1 .. Len(l), NEW p \in o + 1 .. Len(l) + 1,
         NEW from \in 1 .. p, NEW d, NEW B, NEW args \in Seq(B), NEW arg \in B,
         IsInArg(l, o, p, from, d, args), arg = Trim(SubSeq(l, from, p - 1))
  PROVE  /\ Cardinality(SplitsBefore(l, o, p)) = Len(Append(args, arg))
         /\ AreCut(l, o, Append(args, arg), p)
         /\ SplitsAt(l, o, p) => AreWhole(l, o, Append(args, arg), p + 1)
<1>0. Len(l) \in Nat /\ o \in Int /\ p \in Int  OBVIOUS
<1> DEFINE a == Append(args, arg)
<1>1. /\ Len(args) \in Nat /\ Len(a) = Len(args) + 1 /\ a[Len(args) + 1] = arg
      /\ \A n \in 1 .. Len(args) : a[n] = args[n]
  BY AppendProperties
<1>2. AreWhole(l, o, args, p) /\ Cardinality(SplitsBefore(l, o, p)) = Len(args) + 1
  BY DEF IsInArg
<1>3. PICK f \in o .. p - 1 : IsPiece(l, o, arg, Len(args) + 1, f, p)  BY PieceRead
<1> HIDE DEF a
<1>4. \A n \in 1 .. Len(a) : n \in 1 .. Len(args) \/ n = Len(args) + 1  BY <1>1
<1>5. AreCut(l, o, a, p)
  <2>1. SUFFICES ASSUME NEW n \in 1 .. Len(a) PROVE IsCut(l, o, a[n], n, p)  BY DEF AreCut
  <2>2. CASE n \in 1 .. Len(args)  BY <1>1, <1>2, <2>2 DEF AreWhole, IsCut
  <2>3. CASE n = Len(args) + 1  BY <1>1, <1>3, <2>3 DEF IsCut
  <2>4. QED  BY <1>4, <2>2, <2>3
<1>6. ASSUME SplitsAt(l, o, p) PROVE AreWhole(l, o, a, p + 1)
  <2>1. SUFFICES ASSUME NEW n \in 1 .. Len(a) PROVE IsWhole(l, o, a[n], n, p + 1 - 1)
    BY DEF AreWhole
  <2>2. CASE n \in 1 .. Len(args)
    <3>1. AreWhole(l, o, args, p + 1)  BY <1>0, <1>2, WholeGrows
    <3>2. QED  BY <1>1, <2>2, <3>1 DEF AreWhole
  <2>3. CASE n = Len(args) + 1
    <3>1. f \in o .. p + 1 - 1 /\ p \in o .. p + 1 - 1  BY <1>0, <1>3
    <3>2. QED  BY <1>1, <1>3, <1>6, <2>3, <3>1 DEF IsWhole
  <2>4. QED  BY <1>4, <2>2, <2>3
<1>7. QED  BY <1>1, <1>2, <1>5, <1>6 DEF a

DivisionInv == ListInv /\ DividedInv

LEMMA SameDivision ==
  ASSUME DivisionInv, line' = line, s' = s, call' = call, status' = status
  PROVE  DivisionInv'
<1>1. ListInv'  BY DEF DivisionInv, ListInv
<1>2. DividedInv'  BY DEF DivisionInv, DividedInv
<1>3. QED  BY <1>1, <1>2 DEF DivisionInv

LEMMA NoDivision ==
  ASSUME status' \notin {"args", "body"}
  PROVE  DivisionInv'
  BY DEF DivisionInv, ListInv, DividedInv

LEMMA BeginCallDivides ==
  ASSUME TextInv, BeginCall
  PROVE  DivisionInv'
<1>1. line \in Seq(Ch) /\ s \in 1 .. Len(line) + 1 /\ s <= Len(line)
  BY DEF TextInv, MacrosInv, LineInv, BeginCall, Plain
<1> DEFINE n == NameAt(line, s)
           a == AfterName(line, s)
<1>2. /\ line' = line /\ status' = "args" /\ s' = Opening + 1 /\ At(line, Opening) = "("
      /\ call' = [NoCall EXCEPT !.name = n, !.after = a, !.open = Opening]
  BY DEF BeginCall, IsCall
<1>3. Opening \in 1 .. Len(line) + 1 /\ Opening <= Len(line)  BY <1>1, <1>2, OpeningEnds
<1> HIDE DEF n, a
<1>4. call' = [name |-> n, after |-> a, open |-> Opening, from |-> 0, depth |-> 0, args |-> <<>>]
  BY <1>2 DEF NoCall
<1>5. call'.open = Opening /\ call'.from = 0 /\ call'.args = <<>>  BY <1>4
<1>6. Opening \in Int /\ Opening \in 1 .. Len(line) /\ Opening < s'  BY <1>1, <1>2, <1>3
<1>7. IsFresh(line, Opening, Opening + 1, <<>>) /\ Unclosed(line, Opening, Opening + 1)
  BY <1>6, ListOpens
<1>8. ListInv'  BY <1>2, <1>5, <1>6, <1>7 DEF ListInv
<1>9. DividedInv'  BY <1>2 DEF DividedInv
<1>10. QED  BY <1>8, <1>9 DEF DivisionInv

LEMMA CloseCallDivides ==
  ASSUME TextInv, status = "args", line' = line, call.open \in 1 .. Len(line),
         NEW args, NEW to, CloseCall(args, to),
         NEW c \in call.open + 1 .. Len(line) + 1, to = (IF c > Len(line) THEN c ELSE c + 1),
         IsDividedAt(line, call.open, c, args)
  PROVE  DivisionInv'
<1>1. CASE Fits(macros[call.name], Len(args))
  <2>1. status' = "body" /\ call' = [call EXCEPT !.args = args, !.from = 0] /\ s' = to
    BY <1>1 DEF CloseCall
  <2>2. call' \in [name : {call.name}, after : {call.after}, open : {call.open},
                   from : {0}, depth : {call.depth}, args : {args}]
    BY <2>1, CallFields DEF TextInv, CallInv
  <2>3. call'.open = call.open /\ call'.args = args  BY <2>2
  <2>4. DividedInv'  BY <2>1, <2>3 DEF DividedInv
  <2>5. ListInv'  BY <2>1 DEF ListInv
  <2>6. QED  BY <2>4, <2>5 DEF DivisionInv
<1>2. CASE ~Fits(macros[call.name], Len(args))
  <2>1. status' = "text"  BY <1>2 DEF CloseCall
  <2>2. QED  BY <2>1, NoDivision
<1>3. QED  BY <1>1, <1>2

LEMMA ListFacts ==
  ASSUME TextInv, DivisionInv, status = "args"
  PROVE  /\ line \in Seq(Ch) /\ Len(line) \in Nat /\ s \in 1 .. Len(line) + 1
         /\ call.open \in 1 .. Len(line) /\ s \in call.open + 1 .. Len(line) + 1
         /\ call.open \in Int /\ s \in Int /\ call.open < s
         /\ Unclosed(line, call.open, s) /\ call.depth \in Nat
         /\ call.args \in Seq(Seq(Ch)) /\ Len(call.args) \in Nat
         /\ call.from = 0 => IsFresh(line, call.open, s, call.args)
                               \/ IsEnded(line, call.open, s, call.args)
         /\ call.from > 0 => IsInArg(line, call.open, s, call.from, call.depth, call.args)
         /\ call.from \in 0 .. s
<1>1. line \in Seq(Ch) /\ s \in 1 .. Len(line) + 1 /\ Len(line) \in Nat
  BY DEF TextInv, MacrosInv, LineInv
<1>2. call.depth \in Nat /\ ArgsAreText(call.args) /\ call.from \in 0 .. s  BY DEF TextInv, CallInv
<1>3. call.args \in Seq(Seq(Ch)) /\ Len(call.args) \in Nat  BY <1>2 DEF ArgsAreText
<1>4. /\ call.open \in 1 .. Len(line) /\ call.open < s
      /\ Unclosed(line, call.open, s)
      /\ call.from = 0 => IsFresh(line, call.open, s, call.args)
                            \/ IsEnded(line, call.open, s, call.args)
      /\ call.from > 0 => IsInArg(line, call.open, s, call.from, call.depth, call.args)
  BY DEF DivisionInv, ListInv
<1>5. s \in call.open + 1 .. Len(line) + 1 /\ call.open \in Int /\ s \in Int  BY <1>1, <1>4
<1>6. QED  BY <1>1, <1>2, <1>3, <1>4, <1>5

LEMMA BeginArgDivides ==
  ASSUME TextInv, DivisionInv, BeginArg
  PROVE  DivisionInv'
<1>1. status = "args" /\ call.from = 0 /\ line' = line  BY DEF BeginArg, InArgs, KeptByArgs
<1> DEFINE q == SkipSpaces(line, s)
           o == call.open
<1>2. /\ line \in Seq(Ch) /\ Len(line) \in Nat /\ s \in 1 .. Len(line) + 1
      /\ o \in 1 .. Len(line) /\ s \in o + 1 .. Len(line) + 1
      /\ o \in Int /\ s \in Int /\ o < s /\ Unclosed(line, o, s)
      /\ IsFresh(line, o, s, call.args) \/ IsEnded(line, o, s, call.args)
  BY <1>1, ListFacts
<1>3. q \in s .. Len(line) + 1 /\ At(line, q) # "blank" /\ \A k \in s .. q - 1 : line[k] = "blank"
  BY <1>2, BlanksEnd
<1>4. /\ At(line, q) = "end" => CloseCall(call.args, q)
      /\ At(line, q) = ")" => CloseCall(call.args, q + 1)
      /\ At(line, q) \notin {"end", ")"} =>
           s' = q /\ call' = [call EXCEPT !.from = q, !.depth = 0] /\ status' = status
  BY DEF BeginArg
<1> HIDE DEF q, o
<1>5. q \in Int /\ s <= q /\ q \in o + 1 .. Len(line) + 1  BY <1>2, <1>3
<1>6. q \in 1 .. Len(line) => At(line, q) = line[q] /\ line[q] # "end"
  <2>1. \A k \in 1 .. Len(line) : line[k] \in Ch  BY <1>2
  <2>2. "end" \notin Ch  BY Characters, Zenon
  <2>3. QED  BY <2>1, <2>2 DEF At
<1>7. IsEnded(line, o, s, call.args) => s = Len(line) + 1 /\ q = s
  BY <1>2, <1>3 DEF IsEnded
<1>8. CASE At(line, q) = "end"
  <2>1. q = Len(line) + 1  BY <1>2, <1>5, <1>6, <1>8
  <2>2. IsDividedAt(line, o, q, call.args)
    <3>1. CASE IsFresh(line, o, s, call.args)  BY <1>2, <1>3, <2>1, <3>1, FreshToEnd
    <3>2. CASE IsEnded(line, o, s, call.args)
      <4>1. q = s  BY <1>7, <3>2
      <4>2. QED  BY <1>2, <2>1, <3>2, <4>1 DEF IsEnded, IsDividedAt
    <3>3. QED  BY <1>2, <3>1, <3>2
  <2>3. CloseCall(call.args, q) /\ q = (IF q > Len(line) THEN q ELSE q + 1)
    BY <1>2, <1>4, <1>8, <2>1
  <2>4. QED  BY <1>1, <1>2, <1>5, <2>2, <2>3, CloseCallDivides DEF o
<1>9. CASE At(line, q) = ")"
  <2>1. q \in 1 .. Len(line)  BY <1>2, <1>5, <1>9 DEF At
  <2>2. line[q] = ")"  BY <1>6, <1>9, <2>1
  <2>3. IsFresh(line, o, s, call.args)  BY <1>2, <1>7, <2>1
  <2>4. IsDividedAt(line, o, q, call.args)  BY <1>2, <1>3, <2>2, <2>3, FreshToEnd
  <2> DEFINE to == q + 1
  <2>5. CloseCall(call.args, to) /\ to = (IF q > Len(line) THEN q ELSE q + 1)
    BY <1>2, <1>4, <1>9, <2>1
  <2> HIDE DEF to
  <2>6. QED  BY <1>1, <1>2, <1>5, <2>4, <2>5, CloseCallDivides DEF o
<1>10. CASE At(line, q) \notin {"end", ")"}
  <2>1. s' = q /\ call' = [call EXCEPT !.from = q, !.depth = 0] /\ status' = status
    BY <1>4, <1>10
  <2>2. call' \in [name : {call.name}, after : {call.after}, open : {call.open},
                   from : {q}, depth : {0}, args : {call.args}]
    BY <2>1, CallFields DEF TextInv, CallInv
  <2>3. call'.open = o /\ call'.from = q /\ call'.depth = 0 /\ call'.args = call.args
    BY <2>2 DEF o
  <2>4. q # Len(line) + 1  BY <1>2, <1>10 DEF At
  <2>5. IsFresh(line, o, s, call.args)  BY <1>2, <1>7, <2>4
  <2>6. IsInArg(line, o, q, q, 0, call.args)  BY <1>2, <1>3, <1>5, <2>5, FreshToArg
  <2>7. Unclosed(line, o, q)  BY <1>2, <1>3, <1>5, UnclosedOverBlanks
  <2>8. q # 0 /\ o < q  BY <1>2, <1>5
  <2>9. ListInv'  BY <1>1, <1>2, <2>1, <2>3, <2>6, <2>7, <2>8 DEF ListInv
  <2>10. DividedInv'  BY <1>1, <2>1 DEF DividedInv
  <2>11. QED  BY <2>9, <2>10 DEF DivisionInv
<1>11. QED  BY <1>8, <1>9, <1>10

LEMMA ArgCharDivides ==
  ASSUME TextInv, DivisionInv, ArgChar
  PROVE  DivisionInv'
<1>1. status = "args" /\ call.from > 0 /\ line' = line /\ ~ArgEndsAt(s) /\ s' = s + 1
      /\ status' = status
  BY DEF ArgChar, InArgs, KeptByArgs
<1> DEFINE o == call.open
           d == CASE line[s] = "(" -> call.depth + 1
                  [] line[s] = ")" -> call.depth - 1
                  [] OTHER -> call.depth
<1>2. /\ line \in Seq(Ch) /\ Len(line) \in Nat /\ s \in 1 .. Len(line) + 1
      /\ o \in 1 .. Len(line) /\ o \in Int /\ s \in Int /\ o < s /\ Unclosed(line, o, s)
      /\ call.depth \in Nat /\ Len(call.args) \in Nat /\ call.from \in 0 .. s
      /\ IsInArg(line, o, s, call.from, call.depth, call.args)
  BY <1>1, ListFacts
<1>3. call' = [call EXCEPT !.depth = d]  BY DEF ArgChar
<1>4. At(line, s) # "end" /\ (At(line, s) = "," => call.depth # 0)
      /\ (At(line, s) = ")" => call.depth # 0)
  BY <1>1, Zenon DEF ArgEndsAt
<1>5. s \in 1 .. Len(line)
  <2>1. At(line, s) # "end"  BY <1>4, Zenon
  <2>2. QED  BY <1>2, <2>1 DEF At
<1>6. At(line, s) = line[s]  BY <1>5 DEF At
<1>7. (IsComma(line, s) => call.depth # 0) /\ (line[s] = ")" => call.depth # 0)
  BY <1>4, <1>6, Zenon DEF IsComma
<1>8. d = call.depth + (IF line[s] = "(" THEN 1 ELSE 0) - (IF line[s] = ")" THEN 1 ELSE 0)
  <2>1. CASE line[s] = "("  BY <1>2, <2>1
  <2>2. CASE line[s] = ")"  BY <1>2, <2>2
  <2>3. CASE line[s] # "(" /\ line[s] # ")"  BY <1>2, <2>3
  <2>4. QED  BY <2>1, <2>2, <2>3
<1> HIDE DEF d, o
<1> DEFINE from == call.from
<1>9. from \in Int /\ from <= s  BY <1>2
<1>10. IsInArg(line, o, s + 1, from, d, call.args) /\ Unclosed(line, o, s + 1)
  <2>1. IsInArg(line, o, s, from, call.depth, call.args)  BY <1>2
  <2> HIDE DEF from
  <2>2. QED  BY <1>2, <1>7, <1>8, <1>9, <2>1, ArgGoesOn
<1>11. call' \in [name : {call.name}, after : {call.after}, open : {call.open},
                  from : {call.from}, depth : {d}, args : {call.args}]
  BY <1>3, CallFields DEF TextInv, CallInv
<1>12. call'.open = o /\ call'.from = from /\ call'.depth = d /\ call'.args = call.args
  BY <1>11 DEF o
<1>13. o < s + 1 /\ from # 0  BY <1>1, <1>2
<1> HIDE DEF from
<1>14. ListInv'  BY <1>1, <1>2, <1>10, <1>12, <1>13 DEF ListInv
<1>15. DividedInv'  BY <1>1 DEF DividedInv
<1>16. QED  BY <1>14, <1>15 DEF DivisionInv

\* A comma at level 0 ends an argument.
LEMMA FreshBehind ==
  ASSUME NEW l, NEW o \in Int, NEW p \in Int, o < p, NEW args,
         IsComma(l, p), LevelIn(l, o, p) = 0, Unclosed(l, o, p),
         Cardinality(SplitsBefore(l, o, p)) = Len(args),
         SplitsAt(l, o, p) => AreWhole(l, o, args, p + 1)
  PROVE  IsFresh(l, o, p + 1, args) /\ Unclosed(l, o, p + 1)
<1>1. l[p] # "(" /\ l[p] # ")"  BY Commas
<1>2. SplitsAt(l, o, p)  BY DEF SplitsAt
<1>3. LevelIn(l, o, p + 1) = 0
  <2>1. LevelIn(l, o, p + 1) = LevelIn(l, o, p) + (IF l[p] = "(" THEN 1 ELSE 0)
                                 - (IF l[p] = ")" THEN 1 ELSE 0)
    BY LevelNext
  <2>2. QED  BY <1>1, <2>1
<1>4. Cardinality(SplitsBefore(l, o, p + 1)) = Len(args) + 1
  <2> DEFINE c == Cardinality(SplitsBefore(l, o, p))
             c1 == Cardinality(SplitsBefore(l, o, p + 1))
  <2>0. o <= p  OBVIOUS
  <2>1. c1 = c + (IF SplitsAt(l, o, p) THEN 1 ELSE 0)  BY <2>0, SplitsNext
  <2>2. c = Len(args)  OBVIOUS
  <2> HIDE DEF c, c1
  <2>3. c1 = c + 1  BY <1>2, <2>1
  <2>4. c1 = Len(args) + 1  BY <2>2, <2>3
  <2>5. QED  BY <2>4 DEF c1
<1>5. SplitsAt(l, o, p + 1 - 1)
  <2>1. p + 1 - 1 = p  OBVIOUS
  <2>2. QED  BY <1>2, <2>1
<1>6. AreWhole(l, o, args, p + 1)  BY <1>2
<1>7. IsFresh(l, o, p + 1, args)  BY <1>3, <1>4, <1>5, <1>6 DEF IsFresh
<1>8. Unclosed(l, o, p + 1)
  <2>1. SUFFICES ASSUME NEW k \in o + 1 .. p + 1 - 1, l[k] = ")" PROVE LevelIn(l, o, k) > 0
    BY DEF Unclosed
  <2>2. k = p \/ k \in o + 1 .. p - 1  OBVIOUS
  <2>3. k # p  BY <1>1, <2>1
  <2>4. QED  BY <2>1, <2>2, <2>3 DEF Unclosed
<1>9. QED  BY <1>7, <1>8

LEMMA EndArgDivides ==
  ASSUME TextInv, DivisionInv, EndArg
  PROVE  DivisionInv'
<1>1. status = "args" /\ call.from > 0 /\ line' = line /\ ArgEndsAt(s)
  BY DEF EndArg, InArgs, KeptByArgs
<1> DEFINE o == call.open
           arg == Trim(SubSeq(line, call.from, s - 1))
           args == Append(call.args, arg)
           from == call.from
           to == IF At(line, s) = "," THEN s + 1 ELSE s
<1>2. /\ line \in Seq(Ch) /\ Len(line) \in Nat /\ s \in 1 .. Len(line) + 1
      /\ o \in 1 .. Len(line) /\ s \in o + 1 .. Len(line) + 1
      /\ o \in Int /\ s \in Int /\ o < s /\ Unclosed(line, o, s)
      /\ call.depth \in Nat /\ call.args \in Seq(Seq(Ch))
      /\ IsInArg(line, o, s, from, call.depth, call.args)
  BY <1>1, ListFacts
<1>3. from \in 1 .. s  BY <1>1, <1>2, ListFacts
<1>4. /\ At(line, s) = ")" => CloseCall(args, s + 1)
      /\ At(line, s) # ")" =>
           s' = to /\ call' = [call EXCEPT !.args = args, !.from = 0] /\ status' = status
  BY Zenon DEF EndArg
<1>5. At(line, s) = "end" \/ (call.depth = 0 /\ (At(line, s) = ")" \/ At(line, s) = ","))
  BY <1>1, Zenon DEF ArgEndsAt
<1>6. /\ Cardinality(SplitsBefore(line, o, s)) = Len(args)
      /\ AreCut(line, o, args, s)
      /\ SplitsAt(line, o, s) => AreWhole(line, o, args, s + 1)
  <2> DEFINE B == Seq(Ch) \cup {arg}
  <2>1. arg \in B  OBVIOUS
  <2> HIDE DEF arg
  <2>2. call.args \in Seq(B)  BY <1>2
  <2> HIDE DEF B, o, from
  <2>3. arg = Trim(SubSeq(line, from, s - 1))  BY DEF arg, from
  <2>4. QED  BY <1>2, <1>3, <2>1, <2>2, <2>3, ArgToEnd
<1>7. LevelIn(line, o, s) = call.depth  BY <1>2 DEF IsInArg
<1>8. Len(args) \in Nat
  <2>1. Cardinality(SplitsBefore(line, o, s)) \in Nat
    <3>1. o <= s  BY <1>2
    <3>2. QED  BY <1>2, <3>1, SplitsNext
  <2>2. QED  BY <1>6, <2>1
<1> HIDE DEF args
<1>9. s \in 1 .. Len(line) => At(line, s) = line[s] /\ line[s] # "end"
  <2>1. \A k \in 1 .. Len(line) : line[k] \in Ch  BY <1>2
  <2>2. "end" \notin Ch  BY Characters, Zenon
  <2>3. QED  BY <2>1, <2>2 DEF At
<1>10. s \notin 1 .. Len(line) => At(line, s) = "end" /\ s = Len(line) + 1  BY <1>2 DEF At
<1>11. CASE At(line, s) = ")"
  <2>1. call.depth = 0
    <3>1. At(line, s) # "end"  BY <1>11
    <3>2. QED  BY <1>5, <3>1, Zenon
  <2>2. s \in 1 .. Len(line) /\ line[s] = ")"  BY <1>9, <1>10, <1>11
  <2>3. IsDividedAt(line, o, s, args)  BY <1>2, <1>6, <1>7, <2>1, <2>2 DEF IsDividedAt
  <2> DEFINE t == s + 1
  <2>4. CloseCall(args, t)  BY <1>4, <1>11, Zenon
  <2>5. t = (IF s > Len(line) THEN s ELSE s + 1)  BY <1>2, <2>2
  <2> HIDE DEF t
  <2>6. QED  BY <1>1, <1>2, <2>3, <2>4, <2>5, CloseCallDivides DEF o
<1>12. ASSUME At(line, s) # ")"
       PROVE  /\ s' = to /\ status' = "args" /\ call'.open = o /\ call'.from = 0
              /\ call'.args = args
  <2>1. s' = to /\ call' = [call EXCEPT !.args = args, !.from = 0] /\ status' = status
    BY <1>4, <1>12, Zenon
  <2>2. call' = [call EXCEPT !.args = args, !.from = 0]  BY <2>1, Zenon
  <2> HIDE DEF to
  <2>3. call' \in [name : {call.name}, after : {call.after}, open : {call.open},
                   from : {0}, depth : {call.depth}, args : {args}]
    BY <2>2, CallFields DEF TextInv, CallInv
  <2>4. call'.open = o /\ call'.from = 0 /\ call'.args = args  BY <2>3
  <2>5. QED  BY <1>1, <2>1, <2>4
<1>13. CASE At(line, s) = "end"
  <2>1. At(line, s) # ")" /\ At(line, s) # ","  BY <1>13, Zenon
  <2>2. to = s  BY <2>1, Zenon
  <2>3. At(line, s) # ")"  BY <2>1, Zenon
  <2> HIDE DEF to
  <2>4. s = Len(line) + 1  BY <1>9, <1>10, <1>13
  <2>5. IsEnded(line, o, s, args)  BY <1>6, <2>4 DEF IsEnded
  <2>6. ListInv'  BY <1>1, <1>2, <1>12, <2>2, <2>3, <2>5 DEF ListInv
  <2>7. DividedInv'  BY <1>12, <2>3 DEF DividedInv
  <2>8. QED  BY <2>6, <2>7 DEF DivisionInv
<1>14. CASE At(line, s) = ","
  <2>1. At(line, s) # ")" /\ At(line, s) # "end" /\ to = s + 1  BY <1>14, Zenon
  <2>2. call.depth = 0  BY <1>5, <2>1, Zenon
  <2>3. s \in 1 .. Len(line)  BY <1>10, <2>1, Zenon
  <2>4. At(line, s) = line[s]  BY <1>9, <2>3
  <2>5. IsComma(line, s)  BY <1>14, <2>4, Zenon DEF IsComma
  <2>6. At(line, s) # ")" /\ to = s + 1  BY <2>1, Zenon
  <2> HIDE DEF to, o, from, arg
  <2>7. IsFresh(line, o, s + 1, args) /\ Unclosed(line, o, s + 1)
    BY <1>2, <1>6, <1>7, <2>2, <2>5, FreshBehind
  <2>8. o < s + 1  BY <1>2
  <2>9. ListInv'  BY <1>1, <1>2, <1>12, <2>6, <2>7, <2>8 DEF ListInv
  <2>10. DividedInv'  BY <1>12, <2>6 DEF DividedInv
  <2>11. QED  BY <2>9, <2>10 DEF DivisionInv
<1>15. QED  BY <1>5, <1>11, <1>13, <1>14, Zenon

LEMMA InitDivides == Init => DivisionInv
  BY DEF Init, DivisionInv, ListInv, DividedInv

LEMMA BodyDivides ==
  ASSUME DivisionInv, MakesBody
  PROVE  DivisionInv'
<1>1. ASSUME NEW text, NEW p, ToBody(text, p) PROVE DivisionInv'
  <2>1. line' = line /\ s' = s /\ call' = call /\ status' = status  BY <1>1 DEF ToBody
  <2>2. QED  BY <2>1, SameDivision
<1>2. CASE Paste  BY <1>1, <1>2 DEF Paste
<1>3. CASE Stringify  BY <1>1, <1>3 DEF Stringify
<1>4. CASE OptionalArgs  BY <1>1, <1>4 DEF OptionalArgs
<1>5. CASE BodyName  BY <1>1, <1>5 DEF BodyName
<1>6. CASE BodyChar  BY <1>1, <1>6 DEF BodyChar
<1>7. QED  BY <1>2, <1>3, <1>4, <1>5, <1>6 DEF MakesBody

\* expand_macros_in_text knows nothing of the call that is read.
ExpandsText == FrameQuoted \/ FrameChar \/ FrameName \/ FrameObject \/ EndFrame

LEMMA FramesDivide ==
  ASSUME DivisionInv, ExpandsText
  PROVE  DivisionInv'
<1>1. line' = line /\ s' = s /\ call' = call /\ status' = status
  BY DEF ExpandsText, FrameQuoted, FrameChar, FrameName, FrameObject, EndFrame, ToTop
<1>2. QED  BY <1>1, SameDivision

LEMMA NextDivides == TextInv /\ DivisionInv /\ [Next]_vars => DivisionInv'
<1>1. SUFFICES ASSUME TextInv, DivisionInv, [Next]_vars PROVE DivisionInv'  OBVIOUS
<1>2. CASE InComment \/ OpenComment \/ LineComment \/ Quoted \/ OtherChar \/ PlainName
           \/ LineName \/ ObjectName
  <2>1. status' = "text"
    BY <1>2 DEF InComment, OpenComment, LineComment, Quoted, OtherChar, PlainName, LineName,
                ObjectName, Copy, Plain, Reading
  <2>2. QED  BY <2>1, NoDivision
<1>3. CASE EndLine \/ EndBody
  <2>1. status' \in {"done", "text"}  BY <1>3 DEF EndLine, EndBody
  <2>2. QED  BY <2>1, NoDivision
<1>4. CASE BeginCall  BY <1>1, <1>4, BeginCallDivides
<1>5. CASE BeginArg  BY <1>1, <1>5, BeginArgDivides
<1>6. CASE ArgChar  BY <1>1, <1>6, ArgCharDivides
<1>7. CASE EndArg  BY <1>1, <1>7, EndArgDivides
<1>8. CASE MakesBody  BY <1>1, <1>8, BodyDivides
<1>9. CASE ExpandsText  BY <1>1, <1>9, FramesDivide
<1>10. CASE UNCHANGED vars  BY <1>1, <1>10, SameDivision DEF vars
<1>11. QED
  BY <1>1, <1>2, <1>3, <1>4, <1>5, <1>6, <1>7, <1>8, <1>9, <1>10
  DEF Next, MakesBody, ExpandsText

LEMMA DivisionShows == TextInv /\ DivisionInv => ArgumentsAreDivided
<1>1. SUFFICES ASSUME TextInv, DivisionInv, status = "body" PROVE ArgumentsAreDivided
  BY DEF ArgumentsAreDivided
<1> DEFINE l == line
           o == call.open
           args == call.args
<1>2. ArgsAreText(args) /\ DOMAIN args = 1 .. Len(args) /\ o \in 1 .. Len(l) /\ Len(l) \in Nat
  <2>1. ArgsAreText(args) /\ l \in Seq(Ch)  BY <1>1 DEF TextInv, CallInv, MacrosInv
  <2>2. QED  BY <1>1, <2>1 DEF ArgsAreText, DivisionInv, DividedInv
<1>3. PICK c \in o + 1 .. Len(l) + 1 :
        s = (IF c > Len(l) THEN c ELSE c + 1) /\ IsDividedAt(l, o, c, args)
  BY <1>1 DEF DivisionInv, DividedInv
<1>4. \A i : Level(i) = LevelIn(l, o, i)  BY DEF Level, LevelIn
<1>5. \A i : Divides(i, c) <=> (i = c \/ SplitsAt(l, o, i))
  BY <1>4, Zenon DEF Divides, SplitsAt, IsComma
<1>6. \A i \in o .. c - 1 : Divides(i, c) <=> SplitsAt(l, o, i)
  <2>1. \A i \in o .. c - 1 : i # c  BY <1>2
  <2>2. QED  BY <1>5, <2>1
<1>7. o \in Int /\ c \in Int /\ o < c  BY <1>2
<1> HIDE DEF args
<1>8. ASSUME NEW t \in o .. c
      PROVE  {k \in o .. t - 1 : Divides(k, c)} = SplitsBefore(l, o, t)
  <2>1. o .. t - 1 \subseteq o .. c - 1  BY <1>7
  <2>2. QED  BY <1>6, <2>1 DEF SplitsBefore
<1>9. ASSUME NEW arg, NEW n, NEW f \in o .. c - 1, NEW t \in o .. c,
             IsPiece(l, o, arg, n, f, t), t = c \/ SplitsAt(l, o, t)
      PROVE  IsArg(arg, n, c)
  <2>1. f < t /\ SplitsAt(l, o, f) /\ (\A k \in f + 1 .. t - 1 : ~SplitsAt(l, o, k))
        /\ n = Cardinality(SplitsBefore(l, o, t)) /\ arg = Trim(SubSeq(l, f + 1, t - 1))
    BY <1>9 DEF IsPiece
  <2>2. Divides(f, c) /\ Divides(t, c)  BY <1>5, <1>9, <2>1
  <2>3. \A k \in f + 1 .. t - 1 : ~Divides(k, c)
    <3>1. \A k \in f + 1 .. t - 1 : k \in o .. c - 1  BY <1>7
    <3>2. QED  BY <1>6, <2>1, <3>1
  <2>4. n = Cardinality({k \in o .. t - 1 : Divides(k, c)})  BY <1>8, <2>1
  <2>5. f \in o .. c  BY <1>7
  <2>6. QED  BY <2>1, <2>2, <2>3, <2>4, <2>5 DEF IsArg
<1>10. ASSUME NEW n \in 1 .. Len(args) PROVE IsArg(args[n], n, c)
  <2>1. IsCut(l, o, args[n], n, c)  BY <1>3 DEF IsDividedAt, AreCut
  <2>2. CASE IsWhole(l, o, args[n], n, c - 1)
    <3>1. PICK f \in o .. c - 1, t \in o .. c - 1 :
            IsPiece(l, o, args[n], n, f, t) /\ SplitsAt(l, o, t)
      BY <2>2 DEF IsWhole
    <3>2. t \in o .. c  BY <1>7
    <3>3. QED  BY <1>9, <3>1, <3>2
  <2>3. CASE \E f \in o .. c - 1 : IsPiece(l, o, args[n], n, f, c)
    <3>1. c \in o .. c  BY <1>7
    <3>2. QED  BY <1>9, <2>3, <3>1
  <2>4. QED  BY <2>1, <2>2, <2>3 DEF IsCut
<1>11. IsClosing(c)
  <2>1. c = Len(l) + 1 \/ (l[c] = ")" /\ LevelIn(l, o, c) = 0)  BY <1>3 DEF IsDividedAt
  <2>2. \A k \in o + 1 .. c - 1 : l[k] = ")" => LevelIn(l, o, k) > 0
    BY <1>3 DEF IsDividedAt, Unclosed
  <2>3. QED  BY <1>4, <2>1, <2>2 DEF IsClosing
<1>12. {k \in o .. c - 1 : Divides(k, c)} = SplitsBefore(l, o, c)
  <2>1. c \in o .. c  BY <1>7
  <2>2. QED  BY <1>8, <2>1
<1>13. Cardinality({k \in o .. c - 1 : Divides(k, c)})
         \in {Len(args)} \cup (IF IsArg(<<>>, Len(args) + 1, c) THEN {Len(args) + 1} ELSE {})
  <2>1. CASE Cardinality(SplitsBefore(l, o, c)) = Len(args)  BY <1>12, <2>1
  <2>2. CASE /\ Cardinality(SplitsBefore(l, o, c)) = Len(args) + 1
             /\ \E f \in o .. c - 1 : IsPiece(l, o, <<>>, Len(args) + 1, f, c)
    <3>1. c \in o .. c  BY <1>7
    <3>2. IsArg(<<>>, Len(args) + 1, c)  BY <1>9, <2>2, <3>1
    <3>3. QED  BY <1>12, <2>2, <3>2
  <2>3. QED  BY <1>3, <2>1, <2>2 DEF IsDividedAt
<1>14. \A n \in DOMAIN args : IsArg(args[n], n, c)  BY <1>2, <1>10 DEF args
<1>15. QED
  BY <1>3, <1>11, <1>13, <1>14 DEF ArgumentsAreDivided, args

(* The arguments of every call are what its commas at its own level divide  *)
(* the text between its parentheses into, for lines of any length and       *)
(* parentheses of any depth: parse_macro_args counts no comma of a nested   *)
(* call, closes the list at its own parenthesis and at no other, and takes  *)
(* nothing behind a last comma as an argument.                              *)
THEOREM ArgumentsAlwaysDivided == Spec => []ArgumentsAreDivided
<1>1. Init => TextInv /\ CallsInv /\ DivisionInv  BY InitText, InitHasNoCalls, InitDivides
<1>2. TextInv /\ CallsInv /\ DivisionInv /\ [Next]_vars => TextInv' /\ CallsInv' /\ DivisionInv'
  BY NextText, NextKeepsCalls, NextDivides
<1>3. QED  BY <1>1, <1>2, DivisionShows, PTL DEF Spec

-----------------------------------------------------------------------------
(* What is left.  The texts made hold no name of an object, and what is     *)
(* appended to them does not go on with a name that they end with.          *)

ObjectIn(m, n) == n \in DOMAIN m /\ ~m[n].fn
CleanIn(m, t) == \A n \in NamesIn(t) : ~ObjectIn(m, n)
HasMark(t) == \E i \in 1 .. Len(t) : t[i] \in Marks

Ends(t) == InName(t, Len(t) + 1)
Apart(t, c) == Ends(t) => c \notin IdentChar
WholeName(n) == Len(n) >= 1 /\ n[1] \in IdentStart /\ \A i \in 1 .. Len(n) : n[i] \in IdentChar

\* A chain of d objects ends with n.
ReachedIn(m, n, d) ==
  \E c \in [1 .. d -> {o \in DOMAIN m : ObjectIn(m, o)}] :
    c[d] = n /\ \A k \in 1 .. d - 1 : c[k + 1] \in NamesIn(m[c[k]].value)
AllReachedIn(m, t, d) == \A n \in NamesIn(t) : ObjectIn(m, n) => ReachedIn(m, n, d)

Extra == LongestChain - MaxDepth - 1

FrameLeft(m, f, d, top) ==
  /\ CleanIn(m, f.out)
  /\ AllReachedIn(m, f.text, d)
  /\ InName(f.text, f.p) => At(f.text, f.p) \notin IdentChar
  /\ Apart(f.out, At(f.text, f.p))
  /\ ~top => ~Ends(f.out) /\ At(f.text, f.p) \notin IdentChar

Spoiled == HasMark(out) \/ \E j \in DOMAIN stack : HasMark(stack[j].out)
Undisturbed == ~inComment /\ ~Spoiled /\ ChainsAreShort /\ CallsStandApart

LineLeft ==
  /\ CleanIn(macros, out)
  /\ status = "text" /\ stack = <<>> => Apart(out, At(line, s))
  /\ status \in {"args", "body"} \/ stack # <<>> => ~Ends(out)
  /\ status = "body" \/ stack # <<>> => At(line, s) \notin IdentChar
  /\ status = "args" => At(line, call.after) \notin IdentChar /\ WholeName(call.name)

FramesLeft == \A i \in DOMAIN stack : FrameLeft(macros, stack[i], i + Extra, i = Len(stack))

LeftInv == Undisturbed => LineLeft /\ FramesLeft

LEMMA Digits == "1" \notin IdentStart /\ LineNumber = <<"1">> /\ "end" \notin IdentChar
  BY LettersAssumption DEF IdentStart, IdentChar, Other, LineNumber

\* Where a name ends is known by what it is made of and what is behind it.
LEMMA NameIs ==
  ASSUME NEW C, NEW t \in Seq(C), NEW i \in 1 .. Len(t) + 1, NEW j \in i .. Len(t) + 1,
         At(t, j) \notin IdentChar, \A k \in i .. j - 1 : t[k] \in IdentChar
  PROVE  AfterName(t, i) = j
<1> DEFINE a == AfterName(t, i)
<1>1. /\ a \in i .. Len(t) + 1 /\ At(t, a) \notin IdentChar
      /\ \A k \in i .. a - 1 : t[k] \in IdentChar
  BY PastEnds, Characters DEF AfterName
<1> HIDE DEF a
<1>2. Len(t) \in Nat  OBVIOUS
<1>3. ~(a < j)
  <2>1. SUFFICES ASSUME a < j PROVE FALSE  OBVIOUS
  <2>2. a \in i .. j - 1 /\ a \in 1 .. Len(t)  BY <1>1, <1>2, <2>1
  <2>3. QED  BY <1>1, <2>2 DEF At
<1>4. ~(j < a)
  <2>1. SUFFICES ASSUME j < a PROVE FALSE  OBVIOUS
  <2>2. j \in i .. a - 1 /\ j \in 1 .. Len(t)  BY <1>1, <1>2, <2>1
  <2>3. QED  BY <1>1, <2>2 DEF At
<1>5. a = j  BY <1>1, <1>2, <1>3, <1>4
<1>6. QED  BY <1>5 DEF a

\* A name that is read is whole, and nothing of a name is behind it.
LEMMA NamesAreWhole ==
  ASSUME NEW C, NEW t \in Seq(C), NEW i \in 1 .. Len(t), t[i] \in IdentStart
  PROVE  /\ AfterName(t, i) \in i + 1 .. Len(t) + 1
         /\ At(t, AfterName(t, i)) \notin IdentChar
         /\ NameAt(t, i) \in Seq(IdentChar) /\ WholeName(NameAt(t, i))
<1> DEFINE a == AfterName(t, i)
           n == NameAt(t, i)
<1>0. i \in 1 .. Len(t) + 1 /\ Len(t) \in Nat  OBVIOUS
<1>1. /\ a \in i .. Len(t) + 1 /\ At(t, a) \notin IdentChar
      /\ \A k \in i .. a - 1 : t[k] \in IdentChar
  BY <1>0, PastEnds, Characters DEF AfterName
<1>2. n = SubSeq(t, i, a - 1) /\ n \in Seq(IdentChar)  BY <1>0, NamesEnd DEF NameAt
<1> HIDE DEF a, n
<1>3. a # i
  <2>1. SUFFICES ASSUME a = i PROVE FALSE  OBVIOUS
  <2>2. t[i] \notin IdentChar  BY <1>1, <2>1 DEF At
  <2>3. QED  BY <2>2, Characters
<1>4. a - 1 \in i .. Len(t) /\ a - 1 \in 0 .. Len(t)  BY <1>0, <1>1, <1>3
<1>5. Len(n) = (a - 1) - i + 1 /\ n[1] = t[i + 1 - 1]
  <2>1. 1 \in 1 .. (a - 1) - i + 1  BY <1>0, <1>4
  <2>2. QED  BY <1>0, <1>2, <1>4, <2>1, Pieces
<1>6. i + 1 - 1 = i /\ (a - 1) - i + 1 >= 1  BY <1>0, <1>4
<1>7. WholeName(n)  BY <1>2, <1>5, <1>6 DEF WholeName
<1>8. a \in i + 1 .. Len(t) + 1  BY <1>0, <1>1, <1>3
<1>9. QED  BY <1>1, <1>2, <1>7, <1>8 DEF a, n

LEMMA OwnName ==
  ASSUME NEW n \in Seq(IdentChar), WholeName(n)
  PROVE  NamesIn(n) = {n} /\ Ends(n)
<1>1. Len(n) \in Nat /\ 1 \in 1 .. Len(n) /\ \A i \in 1 .. Len(n) : n[i] \in IdentChar
  BY DEF WholeName
<1>2. n[1] \in IdentStart  BY DEF WholeName
<1>3. \A i \in 2 .. Len(n) + 1 : InName(n, i)
  <2>1. TAKE i \in 2 .. Len(n) + 1
  <2>2. 1 \in 1 .. i - 1 /\ 1 .. i - 1 \subseteq 1 .. Len(n)  BY <1>1
  <2>3. QED  BY <1>1, <1>2, <2>2 DEF InName
<1>4. ~InName(n, 1)
  <2>1. 1 .. 1 - 1 = {}  OBVIOUS
  <2>2. QED  BY <2>1 DEF InName
<1>5. {j \in 1 .. Len(n) : IsNameAt(n, j)} = {1}
  <2>1. \A j \in 1 .. Len(n) : j = 1 \/ j \in 2 .. Len(n) + 1  BY <1>1
  <2>2. QED  BY <1>1, <1>2, <1>3, <1>4, <2>1 DEF IsNameAt
<1>6. NameAt(n, 1) = n
  <2> DEFINE b == Len(n) + 1
  <2>1. b \in 1 .. Len(n) + 1 /\ 1 \in 1 .. Len(n) + 1 /\ b - 1 = Len(n)  BY <1>1
  <2>2. At(n, b) = "end"  BY <1>1 DEF At
  <2>3. \A k \in 1 .. b - 1 : n[k] \in IdentChar  BY <1>1, <2>1
  <2> HIDE DEF b
  <2>4. AfterName(n, 1) = b  BY <2>1, <2>2, <2>3, NameIs, Digits
  <2>5. SubSeq(n, 1, Len(n)) = n  BY <1>1, SubSeqFull
  <2>6. QED  BY <2>1, <2>4, <2>5 DEF NameAt
<1>7. NamesIn(n) = {NameAt(n, 1)}  BY <1>5 DEF NamesIn
<1>8. Ends(n)
  <2>1. Len(n) + 1 \in 2 .. Len(n) + 1  BY <1>1
  <2>2. QED  BY <1>3, <2>1 DEF Ends
<1>9. QED  BY <1>6, <1>7, <1>8

\* The places of two texts in what they make together.
LEMMA Together ==
  ASSUME NEW C, NEW t \in Seq(C), NEW u \in Seq(C)
  PROVE  /\ t \o u \in Seq(C) /\ Len(t \o u) = Len(t) + Len(u)
         /\ \A i \in 1 .. Len(t) : (t \o u)[i] = t[i] /\ At(t \o u, i) = At(t, i)
         /\ \A i \in 1 .. Len(u) : (t \o u)[Len(t) + i] = u[i]
         /\ \A i \in 1 .. Len(u) + 1 : At(t \o u, Len(t) + i) = At(u, i)
<1> DEFINE w == t \o u
<1>1. /\ w \in Seq(C) /\ Len(w) = Len(t) + Len(u)
      /\ \A i \in 1 .. Len(t) : w[i] = t[i]
      /\ \A i \in 1 .. Len(u) : w[Len(t) + i] = u[i]
  BY ConcatProperties
<1> HIDE DEF w
<1>2. Len(t) \in Nat /\ Len(u) \in Nat  OBVIOUS
<1>3. \A i \in 1 .. Len(t) : At(w, i) = At(t, i)
  <2>1. TAKE i \in 1 .. Len(t)
  <2>2. i \in 1 .. Len(w)  BY <1>1, <1>2
  <2>3. QED  BY <1>1, <2>2 DEF At
<1>4. \A i \in 1 .. Len(u) + 1 : At(w, Len(t) + i) = At(u, i)
  <2>1. TAKE i \in 1 .. Len(u) + 1
  <2>2. CASE i = Len(u) + 1
    <3>1. Len(t) + i \notin 1 .. Len(w) /\ i \notin 1 .. Len(u)  BY <1>1, <1>2, <2>2
    <3>2. QED  BY <3>1 DEF At
  <2>3. CASE i # Len(u) + 1
    <3>1. Len(t) + i \in 1 .. Len(w) /\ i \in 1 .. Len(u)  BY <1>1, <1>2, <2>3
    <3>2. QED  BY <1>1, <3>1 DEF At
  <2>4. QED  BY <2>2, <2>3
<1>5. QED  BY <1>1, <1>3, <1>4 DEF w

\* What is read in a text that another begins with.
LEMMA InFront ==
  ASSUME NEW C, NEW t \in Seq(C), NEW u \in Seq(C), NEW i \in 1 .. Len(t) + 1
  PROVE  /\ InName(t \o u, i) <=> InName(t, i)
         /\ (i <= Len(t) /\ IsNameAt(t \o u, i)) => IsNameAt(t, i)
<1> DEFINE w == t \o u
<1>1. Len(t) \in Nat /\ \A k \in 1 .. Len(t) : w[k] = t[k]  BY Together
<1> HIDE DEF w
<1>2. \A k \in 1 .. i - 1 : k \in 1 .. Len(t) /\ k .. i - 1 \subseteq 1 .. Len(t)  BY <1>1
<1>3. InName(w, i) <=> InName(t, i)
  <2>1. ASSUME InName(w, i) PROVE InName(t, i)
    <3>1. PICK k \in 1 .. i - 1 : w[k] \in IdentStart /\ \A m \in k .. i - 1 : w[m] \in IdentChar
      BY <2>1 DEF InName
    <3>2. QED  BY <1>1, <1>2, <3>1 DEF InName
  <2>2. ASSUME InName(t, i) PROVE InName(w, i)
    <3>1. PICK k \in 1 .. i - 1 : t[k] \in IdentStart /\ \A m \in k .. i - 1 : t[m] \in IdentChar
      BY <2>2 DEF InName
    <3>2. QED  BY <1>1, <1>2, <3>1 DEF InName
  <2>3. QED  BY <2>1, <2>2
<1>4. i <= Len(t) => w[i] = t[i]  BY <1>1
<1>5. QED  BY <1>3, <1>4 DEF IsNameAt, w

\* What is read behind it, if a name begins there or it ends with none.
LEMMA Behind ==
  ASSUME NEW C, NEW t \in Seq(C), NEW u \in Seq(C), NEW i \in 1 .. Len(u) + 1
  PROVE  /\ InName(u, i) => InName(t \o u, Len(t) + i)
         /\ (i <= Len(u) /\ IsNameAt(t \o u, Len(t) + i)) => IsNameAt(u, i)
<1> DEFINE w == t \o u
           n == Len(t)
<1>1. n \in Nat /\ Len(u) \in Nat /\ \A k \in 1 .. Len(u) : w[n + k] = u[k]  BY Together
<1> HIDE DEF w, n
<1>2. InName(u, i) => InName(w, n + i)
  <2>1. SUFFICES ASSUME InName(u, i) PROVE InName(w, n + i)  OBVIOUS
  <2>2. PICK k \in 1 .. i - 1 : u[k] \in IdentStart /\ \A m \in k .. i - 1 : u[m] \in IdentChar
    BY <2>1 DEF InName
  <2>3. k \in 1 .. Len(u) /\ n + k \in 1 .. (n + i) - 1  BY <1>1
  <2>4. w[n + k] \in IdentStart  BY <1>1, <2>2, <2>3
  <2>5. \A m \in n + k .. (n + i) - 1 : w[m] \in IdentChar
    <3>1. TAKE m \in n + k .. (n + i) - 1
    <3>2. m - n \in k .. i - 1 /\ m - n \in 1 .. Len(u) /\ n + (m - n) = m  BY <1>1, <2>3
    <3>3. w[n + (m - n)] = u[m - n]  BY <1>1, <3>2
    <3>4. QED  BY <2>2, <3>2, <3>3
  <2>6. QED  BY <2>3, <2>4, <2>5 DEF InName
<1>3. i <= Len(u) => w[n + i] = u[i]  BY <1>1
<1>4. QED  BY <1>2, <1>3 DEF IsNameAt, w, n

\* Two pieces that are the same characters are equal.
LEMMA SamePiece ==
  ASSUME NEW C, NEW t \in Seq(C), NEW w \in Seq(C), NEW d \in Nat,
         NEW i \in 1 .. Len(t) + 1, NEW j \in 0 .. Len(t),
         d + Len(t) <= Len(w), \A k \in 1 .. Len(t) : w[d + k] = t[k]
  PROVE  SubSeq(w, d + i, d + j) = SubSeq(t, i, j)
<1> DEFINE a == SubSeq(w, d + i, d + j)
           b == SubSeq(t, i, j)
           n == IF i <= j THEN j - i + 1 ELSE 0
<1>0. Len(t) \in Nat /\ Len(w) \in Nat  OBVIOUS
<1>1. b \in Seq(C) /\ Len(b) = n /\ \A k \in 1 .. j - i + 1 : b[k] = t[i + k - 1]  BY Pieces
<1>2. d + i \in 1 .. Len(w) + 1 /\ d + j \in 0 .. Len(w) /\ (d + j) - (d + i) + 1 = j - i + 1
      /\ (d + i <= d + j <=> i <= j)
  BY <1>0
<1>3. a \in Seq(C) /\ Len(a) = n /\ \A k \in 1 .. j - i + 1 : a[k] = w[(d + i) + k - 1]
  <2>1. /\ a \in Seq(C) /\ Len(a) = IF d + i <= d + j THEN (d + j) - (d + i) + 1 ELSE 0
        /\ \A k \in 1 .. (d + j) - (d + i) + 1 : a[k] = w[(d + i) + k - 1]
    BY <1>2, Pieces
  <2> HIDE DEF a
  <2>2. QED  BY <1>2, <2>1
<1> HIDE DEF a, b
<1>4. \A k \in 1 .. n : a[k] = b[k]
  <2>1. TAKE k \in 1 .. n
  <2>2. k \in 1 .. j - i + 1 /\ i + k - 1 \in 1 .. Len(t) /\ (d + i) + k - 1 = d + (i + k - 1)
    BY <1>0
  <2>3. w[d + (i + k - 1)] = t[i + k - 1]  BY <2>2
  <2>4. a[k] = w[(d + i) + k - 1] /\ b[k] = t[i + k - 1]  BY <1>1, <1>3, <2>2
  <2>5. QED  BY <2>2, <2>3, <2>4
<1> HIDE DEF n
<1>5. a = b  BY <1>1, <1>3, <1>4, SeqEqual
<1>6. QED  BY <1>5 DEF a, b

\* The names of two texts put together are names of theirs, if the second does
\* not go on with a name that the first ends with.
LEMMA Joins ==
  ASSUME NEW C, NEW t \in Seq(C), NEW u \in Seq(C), Apart(t, At(u, 1))
  PROVE  NamesIn(t \o u) \subseteq NamesIn(t) \cup NamesIn(u)
<1> DEFINE w == t \o u
           l == Len(t)
<1>0. l \in Nat /\ Len(u) \in Nat /\ w \in Seq(C) /\ Len(w) = l + Len(u)
  BY Together
<1>1. /\ \A i \in 1 .. l : w[i] = t[i] /\ At(w, i) = At(t, i)
      /\ \A i \in 1 .. Len(u) : w[l + i] = u[i]
      /\ \A i \in 1 .. Len(u) + 1 : At(w, l + i) = At(u, i)
  BY Together
<1> HIDE DEF w
<1>2. SUFFICES ASSUME NEW i \in 1 .. Len(w), IsNameAt(w, i)
               PROVE  NameAt(w, i) \in NamesIn(t) \cup NamesIn(u)
  BY DEF NamesIn, w
<1>3. CASE i <= l
  <2>1. i \in 1 .. Len(t) /\ i \in 1 .. Len(t) + 1 /\ i \in 1 .. Len(w) + 1  BY <1>0, <1>3
  <2>2. IsNameAt(t, i)  BY <1>2, <1>3, <2>1, InFront DEF w
  <2> DEFINE j == AfterName(t, i)
  <2>3. /\ j \in i .. Len(t) + 1 /\ At(t, j) \notin IdentChar
        /\ \A k \in i .. j - 1 : t[k] \in IdentChar
    BY <2>1, PastEnds, Characters DEF AfterName
  <2> HIDE DEF j
  <2>4. At(w, j) \notin IdentChar
    <3>1. CASE j <= l
      <4>1. j \in 1 .. l  BY <1>0, <2>1, <2>3, <3>1
      <4>2. QED  BY <1>1, <2>3, <4>1
    <3>2. CASE j > l
      <4>1. j = l + 1 /\ j - 1 = l  BY <1>0, <2>1, <2>3, <3>2
      <4>2. InName(t, l + 1)
        <5>1. (l + 1) - 1 = l /\ i \in 1 .. l  BY <1>0, <2>1
        <5>2. t[i] \in IdentStart  BY <2>2 DEF IsNameAt
        <5>3. \A m \in i .. l : t[m] \in IdentChar  BY <2>3, <4>1
        <5> HIDE DEF l
        <5>4. QED  BY <5>1, <5>2, <5>3 DEF InName
      <4>3. At(u, 1) \notin IdentChar  BY <4>2 DEF Ends, Apart
      <4>4. 1 \in 1 .. Len(u) + 1  BY <1>0
      <4>5. QED  BY <1>1, <4>1, <4>3, <4>4
    <3>3. QED  BY <1>0, <2>1, <2>3, <3>1, <3>2
  <2>5. j \in i .. Len(w) + 1  BY <1>0, <2>1, <2>3
  <2>6. \A k \in i .. j - 1 : w[k] \in IdentChar
    <3>1. i .. j - 1 \subseteq 1 .. l  BY <1>0, <2>1, <2>3
    <3>2. QED  BY <1>1, <2>3, <3>1
  <2>7. AfterName(w, i) = j  BY <1>0, <2>1, <2>4, <2>5, <2>6, NameIs
  <2>8. SubSeq(w, i, j - 1) = SubSeq(t, i, j - 1)
    <3> DEFINE z == 0
               e == j - 1
    <3>1. z \in Nat /\ z + Len(t) <= Len(w) /\ e \in 0 .. Len(t) /\ z + i = i /\ z + e = e
      BY <1>0, <2>1, <2>3
    <3>2. \A k \in 1 .. Len(t) : w[z + k] = t[k]  BY <1>0, <1>1
    <3> HIDE DEF z, e, l
    <3>3. SubSeq(w, z + i, z + e) = SubSeq(t, i, e)  BY <1>0, <2>1, <3>1, <3>2, SamePiece
    <3>4. QED  BY <3>1, <3>3 DEF e
  <2>9. NameAt(w, i) = NameAt(t, i)  BY <2>7, <2>8 DEF NameAt, j
  <2>10. QED  BY <2>1, <2>2, <2>9 DEF NamesIn
<1>4. CASE i > l
  <2> DEFINE h == i - l
  <2>1. h \in 1 .. Len(u) /\ h \in 1 .. Len(u) + 1 /\ l + h = i  BY <1>0, <1>4
  <2> HIDE DEF h, l
  <2>2. IsNameAt(u, h)
    <3>1. IsNameAt(t \o u, Len(t) + h)  BY <1>2, <2>1 DEF w, l
    <3>2. h <= Len(u)  BY <1>0, <2>1
    <3>3. QED  BY <2>1, <3>1, <3>2, Behind
  <2> DEFINE j == AfterName(u, h)
  <2>3. /\ j \in h .. Len(u) + 1 /\ At(u, j) \notin IdentChar
        /\ \A k \in h .. j - 1 : u[k] \in IdentChar
    BY <2>1, PastEnds, Characters DEF AfterName
  <2> HIDE DEF j
  <2>4. At(w, l + j) \notin IdentChar
    <3>1. j \in 1 .. Len(u) + 1  BY <1>0, <2>1, <2>3
    <3>2. QED  BY <1>1, <2>3, <3>1
  <2>5. l + j \in i .. Len(w) + 1 /\ i \in 1 .. Len(w) + 1  BY <1>0, <1>2, <2>1, <2>3
  <2>6. \A k \in i .. (l + j) - 1 : w[k] \in IdentChar
    <3>1. TAKE k \in i .. (l + j) - 1
    <3>2. k - l \in h .. j - 1 /\ k - l \in 1 .. Len(u) /\ l + (k - l) = k
      BY <1>0, <2>1, <2>3
    <3>3. w[l + (k - l)] = u[k - l]  BY <1>1, <3>2
    <3>4. QED  BY <2>3, <3>2, <3>3
  <2>7. AfterName(w, i) = l + j
    <3> DEFINE e == l + j
    <3>1. /\ e \in i .. Len(w) + 1 /\ At(w, e) \notin IdentChar
          /\ \A k \in i .. e - 1 : w[k] \in IdentChar
      BY <2>4, <2>5, <2>6
    <3> HIDE DEF e
    <3>2. AfterName(w, i) = e  BY <1>0, <2>5, <3>1, NameIs
    <3>3. QED  BY <3>2 DEF e
  <2>8. SubSeq(w, l + h, l + (j - 1)) = SubSeq(u, h, j - 1)
    <3> DEFINE e == j - 1
    <3>1. e \in 0 .. Len(u) /\ l + Len(u) <= Len(w)  BY <1>0, <2>1, <2>3
    <3> HIDE DEF e
    <3>2. SubSeq(w, l + h, l + e) = SubSeq(u, h, e)  BY <1>0, <1>1, <2>1, <3>1, SamePiece
    <3>3. QED  BY <3>2 DEF e
  <2>9. l + (j - 1) = (l + j) - 1  BY <1>0, <2>1, <2>3
  <2>10. NameAt(w, i) = NameAt(u, h)  BY <2>1, <2>7, <2>8, <2>9 DEF NameAt, j
  <2>11. QED  BY <2>1, <2>2, <2>10 DEF NamesIn
<1>5. QED  BY <1>0, <1>2, <1>3, <1>4

LEMMA CleanJoins ==
  ASSUME NEW m, NEW C, NEW t \in Seq(C), NEW u \in Seq(C), CleanIn(m, t), CleanIn(m, u),
         Apart(t, At(u, 1))
  PROVE  CleanIn(m, t \o u)
BY Joins DEF CleanIn

LEMMA NameJoins ==
  ASSUME NEW m, NEW t \in Seq(Ch), NEW n \in Seq(IdentChar), WholeName(n),
         CleanIn(m, t), ~Ends(t), ~ObjectIn(m, n)
  PROVE  CleanIn(m, t \o n)
<1>1. n \in Seq(Ch)
  <2>1. IdentChar \subseteq Ch  BY Characters, Zenon
  <2>2. QED  BY <2>1
<1>2. CleanIn(m, n)  BY OwnName DEF CleanIn
<1>3. Apart(t, At(n, 1))  BY DEF Apart
<1>4. QED  BY <1>1, <1>2, <1>3, CleanJoins

\* A character that begins no name.
LEMMA NoName ==
  ASSUME NEW c \in Ch, c \notin IdentStart
  PROVE  /\ <<c>> \in Seq(Ch) /\ NamesIn(<<c>>) = {} /\ At(<<c>>, 1) = c
<1>1. Len(<<c>>) = 1 /\ <<c>>[1] = c /\ <<c>> \in Seq(Ch)  OBVIOUS
<1>2. At(<<c>>, 1) = c  BY <1>1 DEF At
<1>3. \A j \in 1 .. Len(<<c>>) : <<c>>[j] \notin IdentStart  BY <1>1
<1>4. {j \in 1 .. Len(<<c>>) : IsNameAt(<<c>>, j)} = {}  BY <1>3 DEF IsNameAt
<1>5. NamesIn(<<c>>) = {}  BY <1>4 DEF NamesIn
<1>6. QED  BY <1>1, <1>2, <1>5

LEMMA CharJoins ==
  ASSUME NEW m, NEW t \in Seq(Ch), NEW c \in Ch, c \notin IdentStart,
         CleanIn(m, t), Apart(t, c)
  PROVE  CleanIn(m, t \o <<c>>) /\ ~Ends(t \o <<c>>)
<1> DEFINE u == <<c>>
           w == t \o u
           l == Len(t)
<1>1. u \in Seq(Ch) /\ NamesIn(u) = {} /\ At(u, 1) = c /\ Len(u) = 1 /\ u[1] = c  BY NoName
<1> HIDE DEF u
<1>2. CleanIn(m, w)  BY <1>1, CleanJoins DEF CleanIn
<1>3. l \in Nat /\ Len(w) = l + 1 /\ w[l + 1] = c /\ \A i \in 1 .. l : w[i] = t[i]
  <2>0. t \in Seq(Ch) /\ u \in Seq(Ch)  BY <1>1
  <2>1. /\ Len(w) = l + Len(u)
        /\ \A i \in 1 .. l : w[i] = t[i]
        /\ \A i \in 1 .. Len(u) : w[l + i] = u[i]
    BY <2>0, Together
  <2>2. 1 \in 1 .. Len(u)  BY <1>1
  <2> HIDE DEF w
  <2>3. QED  BY <1>1, <2>1, <2>2
<1> HIDE DEF w
<1>4. ~Ends(w)
  <2>1. SUFFICES ASSUME Ends(w) PROVE FALSE  OBVIOUS
  <2>2. (Len(w) + 1) - 1 = l + 1  BY <1>3
  <2>3. PICK k \in 1 .. l + 1 : w[k] \in IdentStart /\ \A i \in k .. l + 1 : w[i] \in IdentChar
    BY <2>1, <2>2 DEF Ends, InName
  <2>4. k # l + 1  BY <1>3, <2>3
  <2>5. k \in 1 .. (l + 1) - 1 /\ l + 1 \in k .. l + 1  BY <1>3, <2>3, <2>4
  <2>6. c \in IdentChar  BY <1>3, <2>3, <2>5
  <2>7. t[k] \in IdentStart /\ \A i \in k .. (l + 1) - 1 : t[i] \in IdentChar
    <3>1. k \in 1 .. l /\ k .. (l + 1) - 1 \subseteq 1 .. l /\ k .. (l + 1) - 1 \subseteq k .. l + 1
      BY <1>3, <2>5
    <3>2. QED  BY <1>3, <2>3, <3>1
  <2>8. Ends(t)  BY <2>5, <2>7 DEF Ends, InName
  <2>9. QED  BY <2>6, <2>8 DEF Apart
<1>5. QED  BY <1>2, <1>4 DEF w, u

LEMMA MarksStay ==
  ASSUME NEW C, NEW t \in Seq(C), NEW u \in Seq(C)
  PROVE  HasMark(t) \/ HasMark(u) => HasMark(t \o u)
<1> DEFINE w == t \o u
<1>1. /\ Len(t) \in Nat /\ Len(u) \in Nat /\ Len(w) = Len(t) + Len(u)
      /\ \A i \in 1 .. Len(t) : w[i] = t[i]
      /\ \A i \in 1 .. Len(u) : w[Len(t) + i] = u[i]
  BY Together
<1> HIDE DEF w
<1>2. ASSUME HasMark(t) PROVE HasMark(w)
  <2>1. PICK i \in 1 .. Len(t) : t[i] \in Marks  BY <1>2 DEF HasMark
  <2>2. i \in 1 .. Len(w) /\ w[i] \in Marks  BY <1>1, <2>1
  <2>3. QED  BY <2>2 DEF HasMark
<1>3. ASSUME HasMark(u) PROVE HasMark(w)
  <2>1. PICK i \in 1 .. Len(u) : u[i] \in Marks  BY <1>3 DEF HasMark
  <2>2. Len(t) + i \in 1 .. Len(w) /\ w[Len(t) + i] \in Marks  BY <1>1, <2>1
  <2>3. QED  BY <2>2 DEF HasMark
<1>4. QED  BY <1>2, <1>3 DEF w

-----------------------------------------------------------------------------
(* Chains *)

LEMMA ReachedOne ==
  ASSUME NEW m, NEW n, ObjectIn(m, n)
  PROVE  ReachedIn(m, n, 1)
<1> DEFINE c == [k \in 1 .. 1 |-> n]
           O == {o \in DOMAIN m : ObjectIn(m, o)}
<1>1. n \in O  BY DEF ObjectIn
<1> HIDE DEF O
<1>2. c \in [1 .. 1 -> O] /\ c[1] = n  BY <1>1
<1>3. 1 .. 1 - 1 = {}  OBVIOUS
<1> HIDE DEF c
<1>4. QED  BY <1>2, <1>3 DEF ReachedIn, O

LEMMA ReachOn ==
  ASSUME NEW m, NEW n, NEW d \in Nat \ {0}, ReachedIn(m, n, d),
         NEW o \in NamesIn(m[n].value), ObjectIn(m, o)
  PROVE  ReachedIn(m, o, d + 1)
<1> DEFINE O == {x \in DOMAIN m : ObjectIn(m, x)}
           e == d + 1
<1>1. PICK c \in [1 .. d -> O] :
        c[d] = n /\ \A k \in 1 .. d - 1 : c[k + 1] \in NamesIn(m[c[k]].value)
  BY DEF ReachedIn
<1>2. o \in O  BY DEF ObjectIn
<1> HIDE DEF O
<1> DEFINE g == [k \in 1 .. e |-> IF k = e THEN o ELSE c[k]]
<1>3. e \in Nat /\ e - 1 = d /\ \A k \in 1 .. d : k \in 1 .. e /\ k # e  OBVIOUS
<1>4. \A k \in 1 .. e : k = e \/ k \in 1 .. d  OBVIOUS
<1> HIDE DEF e
<1>5. g[e] = o /\ \A k \in 1 .. d : g[k] = c[k]
  <2>1. e \in 1 .. e  BY <1>3
  <2>2. QED  BY <1>3, <2>1
<1>6. g \in [1 .. e -> O]  BY <1>1, <1>2, <1>4
<1> HIDE DEF g
<1>7. \A k \in 1 .. e - 1 : g[k + 1] \in NamesIn(m[g[k]].value)
  <2>1. TAKE k \in 1 .. e - 1
  <2>2. k \in 1 .. d /\ k \in Int  BY <1>3
  <2>3. CASE k = d
    <3>1. g[k + 1] = o /\ g[k] = n  BY <1>1, <1>3, <1>5, <2>2, <2>3 DEF e
    <3>2. QED  BY <3>1
  <2>4. CASE k # d
    <3>1. k \in 1 .. d - 1 /\ k + 1 \in 1 .. d  BY <2>2, <2>4
    <3>2. QED  BY <1>1, <1>5, <2>2, <3>1
  <2>5. QED  BY <2>3, <2>4
<1>8. ReachedIn(m, o, e)  BY <1>5, <1>6, <1>7 DEF ReachedIn, O
<1>9. QED  BY <1>8 DEF e

LEMMA Limit == /\ Extra \in {0, 1} /\ LongestChain = MaxDepth + 1 + Extra
               /\ LongestChain \in Nat /\ (HasCalls => Extra = 0)
  BY DepthAssumption DEF Extra, LongestChain

LEMMA NoLonger ==
  ASSUME ChainsAreShort, NEW n
  PROVE  ~ReachedIn(macros, n, LongestChain + 1)
<1> DEFINE e == LongestChain + 1
<1>1. {o \in DOMAIN macros : ObjectIn(macros, o)} = {o \in DOMAIN macros : IsObject(o)}
  BY DEF ObjectIn, IsObject, IsMacro
<1>2. \A c \in [1 .. e -> {o \in DOMAIN macros : IsObject(o)}] : ~IsChain(c, e)
  BY DEF ChainsAreShort
<1> HIDE DEF e
<1>3. ~ReachedIn(macros, n, e)  BY <1>1, <1>2 DEF ReachedIn, IsChain
<1>4. QED  BY <1>3 DEF e

\* A name that is read where no name has begun is one of the text's, and the
\* objects its value names are one further along the chain.
LEMMA NameReached ==
  ASSUME NEW m, NEW C, NEW t \in Seq(C), NEW d \in Nat \ {0}, AllReachedIn(m, t, d),
         NEW p \in 1 .. Len(t), t[p] \in IdentStart, ~InName(t, p),
         ObjectIn(m, NameAt(t, p))
  PROVE  ReachedIn(m, NameAt(t, p), d) /\ AllReachedIn(m, m[NameAt(t, p)].value, d + 1)
<1>1. NameAt(t, p) \in NamesIn(t)  BY DEF NamesIn, IsNameAt
<1>2. ReachedIn(m, NameAt(t, p), d)  BY <1>1 DEF AllReachedIn
<1> DEFINE n == NameAt(t, p)
           v == m[n].value
           e == d + 1
<1>3. \A o \in NamesIn(v) : ObjectIn(m, o) => ReachedIn(m, o, e)
  <2> HIDE DEF n
  <2>1. TAKE o \in NamesIn(v)
  <2>2. HAVE ObjectIn(m, o)
  <2>3. ReachedIn(m, n, d)  BY <1>2 DEF n
  <2>4. QED  BY <2>2, <2>3, ReachOn
<1> HIDE DEF e, v
<1>4. AllReachedIn(m, v, e)  BY <1>3 DEF AllReachedIn
<1>5. QED  BY <1>2, <1>4 DEF e, v

-----------------------------------------------------------------------------
(* The steps: what is disturbed stays so, and else nothing is left *)

LEMMA SameTables ==
  ASSUME UNCHANGED <<macros, line>>
  PROVE  /\ ChainsAreShort' <=> ChainsAreShort
         /\ CallsStandApart' <=> CallsStandApart
         /\ Extra' = Extra
<1>1. HasCalls' <=> HasCalls  BY DEF HasCalls, IsFunction, IsMacro
<1>2. LongestChain' = LongestChain  BY <1>1 DEF LongestChain
<1>3. {n \in DOMAIN macros : IsObject(n)}' = {n \in DOMAIN macros : IsObject(n)}
  BY DEF IsObject, IsMacro
<1>4. ASSUME NEW c, NEW n PROVE IsChain(c, n)' <=> IsChain(c, n)  BY DEF IsChain
<1>5. ChainsAreShort' <=> ChainsAreShort  BY <1>2, <1>3, <1>4 DEF ChainsAreShort
<1>6. CallsStandApart' <=> CallsStandApart  BY <1>1 DEF CallsStandApart
<1>7. Extra' = Extra  BY <1>2 DEF Extra
<1>8. QED  BY <1>5, <1>6, <1>7

LEMMA WasUndisturbed ==
  ASSUME LeftInv, UNCHANGED <<macros, line>>, Undisturbed',
         inComment => inComment' \/ Spoiled', Spoiled => Spoiled'
  PROVE  Undisturbed /\ LineLeft /\ FramesLeft
<1>1. Undisturbed  BY SameTables DEF Undisturbed
<1>2. QED  BY <1>1 DEF LeftInv

LEMMA PieceMarks ==
  ASSUME NEW t \in Seq(Ch), NEW i \in 1 .. Len(t), NEW j \in i + 1 .. Len(t) + 1,
         t[i] \in Marks, NEW u \in Seq(Ch)
  PROVE  HasMark(u \o SubSeq(t, i, j - 1))
<1> DEFINE n == SubSeq(t, i, j - 1)
           e == j - 1
<1>1. e \in 0 .. Len(t) /\ i <= e /\ i \in 1 .. Len(t) + 1 /\ e - i + 1 >= 1 /\ i + 1 - 1 = i
  OBVIOUS
<1>2. n \in Seq(Ch) /\ Len(n) = e - i + 1 /\ n[1] = t[i]
  <2>1. n = SubSeq(t, i, e)  OBVIOUS
  <2> HIDE DEF n, e
  <2>2. /\ n \in Seq(Ch) /\ Len(n) = IF i <= e THEN e - i + 1 ELSE 0
        /\ \A k \in 1 .. e - i + 1 : n[k] = t[i + k - 1]
    BY <1>1, <2>1, Pieces
  <2>3. 1 \in 1 .. e - i + 1  BY <1>1
  <2>4. QED  BY <1>1, <2>2, <2>3
<1> HIDE DEF n, e
<1>3. HasMark(n)
  <2>1. 1 \in 1 .. Len(n)  BY <1>1, <1>2
  <2>2. QED  BY <1>2, <2>1 DEF HasMark
<1>4. HasMark(u \o n)  BY <1>2, <1>3, MarksStay
<1>5. QED  BY <1>4 DEF n

LEMMA OneCharacter ==
  ASSUME NEW C, NEW t \in Seq(C), NEW i \in 1 .. Len(t)
  PROVE  SubSeq(t, i, (i + 1) - 1) = <<t[i]>>
<1> DEFINE n == SubSeq(t, i, i)
<1>1. i \in 1 .. Len(t) + 1 /\ i \in 0 .. Len(t) /\ i - i + 1 = 1 /\ i + 1 - 1 = i /\ (i + 1) - 1 = i
  OBVIOUS
<1>2. n \in Seq(C) /\ Len(n) = 1 /\ n[1] = t[i]
  <2>1. /\ n \in Seq(C) /\ Len(n) = IF i <= i THEN i - i + 1 ELSE 0
        /\ \A k \in 1 .. i - i + 1 : n[k] = t[i + k - 1]
    BY <1>1, Pieces
  <2>2. i <= i /\ 1 \in 1 .. i - i + 1  BY <1>1
  <2> HIDE DEF n
  <2>3. QED  BY <1>1, <2>1, <2>2
<1> HIDE DEF n
<1>3. n = <<t[i]>>  BY <1>2
<1>4. QED  BY <1>1, <1>3 DEF n

\* Comments and quotes leave marks.
LEMMA MarkedSteps ==
  ASSUME TextInv, InComment \/ OpenComment \/ LineComment \/ Quoted
  PROVE  ~Undisturbed'
<1>1. line \in Seq(Ch) /\ s \in 1 .. Len(line) + 1 /\ inComment \in BOOLEAN /\ Len(line) \in Nat
      /\ out \in Seq(Ch)
  BY DEF TextInv, MacrosInv, LineInv
<1>2. s \in 1 .. Len(line)
  <2>1. s <= Len(line)  BY DEF InComment, OpenComment, LineComment, Quoted, Plain
  <2>2. QED  BY <1>1, <2>1
<1>3. ASSUME NEW j \in s + 1 .. Len(line) + 1, Copy(j), line[s] \in Marks
      PROVE  ~Undisturbed'
  <2>1. out' = out \o SubSeq(line, s, j - 1)  BY <1>3 DEF Copy
  <2>2. HasMark(out')  BY <1>1, <1>2, <1>3, <2>1, PieceMarks
  <2>3. QED  BY <2>2 DEF Undisturbed, Spoiled
<1>4. s + 1 \in s + 1 .. Len(line) + 1 /\ Len(line) + 1 \in s + 1 .. Len(line) + 1  BY <1>1, <1>2
<1>5. CASE InComment
  <2>1. inComment' = (line[s] # "close") /\ Copy(s + 1)  BY <1>5 DEF InComment
  <2>2. CASE line[s] = "close"
    <3>1. line[s] \in Marks  BY <2>2 DEF Marks
    <3>2. QED  BY <1>3, <1>4, <2>1, <3>1
  <2>3. CASE line[s] # "close"
    <3>1. inComment'  BY <2>1, <2>3, Zenon
    <3>2. QED  BY <3>1 DEF Undisturbed
  <2>4. QED  BY <2>2, <2>3
<1>6. CASE OpenComment
  <2>1. inComment' = TRUE  BY <1>6 DEF OpenComment
  <2>2. QED  BY <2>1 DEF Undisturbed
<1>7. CASE LineComment
  <2>1. line[s] \in Marks /\ Copy(Len(line) + 1)  BY <1>7 DEF LineComment, Marks
  <2>2. QED  BY <1>3, <1>4, <2>1
<1>8. CASE Quoted
  <2>1. line[s] \in Marks /\ Copy(AfterQuoted(line, s))  BY <1>8 DEF Quoted, Marks
  <2>2. AfterQuoted(line, s) \in s + 1 .. Len(line) + 1  BY <1>1, <1>2, QuotesEnd
  <2>3. QED  BY <1>3, <2>1, <2>2
<1>9. QED  BY <1>5, <1>6, <1>7, <1>8

\* The loop over the line and the reading of a call are done while no call of
\* expand_macros_in_text is.
LEMMA NoFrames ==
  ASSUME stack = <<>>
  PROVE  FramesLeft /\ (Spoiled <=> HasMark(out))
<1>1. DOMAIN stack = {}  OBVIOUS
<1>2. QED  BY <1>1 DEF FramesLeft, Spoiled

LEMMA NoFramesNext ==
  ASSUME stack' = <<>>
  PROVE  FramesLeft' /\ (Spoiled' <=> HasMark(out'))
<1>1. DOMAIN stack' = {}  OBVIOUS
<1>2. QED  BY <1>1 DEF FramesLeft, Spoiled

\* Such a step adds what it has read to what the line became.
LEMMA LineBefore ==
  ASSUME TextInv, LeftInv, Undisturbed', UNCHANGED <<macros, line>>, stack = <<>>,
         ~inComment, out' = out \/ \E u \in Seq(Ch) : out' = out \o u
  PROVE  Undisturbed /\ LineLeft
<1>1. out \in Seq(Ch)  BY DEF TextInv, LineInv
<1>2. HasMark(out) => HasMark(out')  BY <1>1, MarksStay
<1>3. Spoiled => Spoiled'
  <2>1. Spoiled => HasMark(out)  BY NoFrames
  <2>2. HasMark(out') => Spoiled'  BY DEF Spoiled
  <2>3. QED  BY <1>2, <2>1, <2>2
<1>4. QED  BY <1>3, WasUndisturbed

LEMMA AtName ==
  ASSUME NEW t \in Seq(Ch), NEW i \in 1 .. Len(t) + 1, StartsName(t, i)
  PROVE  /\ i \in 1 .. Len(t) /\ t[i] \in IdentStart /\ At(t, i) = t[i] /\ At(t, i) \in IdentChar
         /\ NameAt(t, i) \in Seq(IdentChar) /\ WholeName(NameAt(t, i))
         /\ AfterName(t, i) \in i + 1 .. Len(t) + 1 /\ AfterName(t, i) \in 1 .. Len(t) + 1
         /\ At(t, AfterName(t, i)) \notin IdentChar
<1>1. At(t, i) \in IdentStart  BY DEF StartsName
<1>2. At(t, i) # "end"  BY <1>1, Characters
<1>3. i \in 1 .. Len(t) /\ At(t, i) = t[i]  BY <1>2 DEF At
<1>4. t[i] \in IdentStart /\ At(t, i) \in IdentChar  BY <1>1, <1>3, Characters
<1> DEFINE a == AfterName(t, i)
<1>5. /\ a \in i + 1 .. Len(t) + 1 /\ At(t, a) \notin IdentChar
      /\ NameAt(t, i) \in Seq(IdentChar) /\ WholeName(NameAt(t, i))
  BY <1>3, <1>4, NamesAreWhole
<1> HIDE DEF a
<1>6. a \in 1 .. Len(t) + 1  BY <1>3, <1>5
<1>7. QED  BY <1>3, <1>4, <1>5, <1>6 DEF a

LEMMA OtherCharLeft ==
  ASSUME TextInv, LeftInv, OtherChar, Undisturbed'
  PROVE  LineLeft' /\ FramesLeft'
<1>1. line \in Seq(Ch) /\ s \in 1 .. Len(line) + 1 /\ out \in Seq(Ch)
  BY DEF TextInv, MacrosInv, LineInv
<1>2. /\ macros' = macros /\ line' = line /\ stack' = stack /\ stack = <<>> /\ status = "text"
      /\ status' = "text" /\ ~inComment /\ s' = s + 1 /\ line[s] \notin IdentStart
      /\ out' = out \o SubSeq(line, s, (s + 1) - 1) /\ s <= Len(line)
  BY DEF OtherChar, Plain, Reading, Copy
<1>3. s \in 1 .. Len(line) /\ line[s] \in Ch  BY <1>1, <1>2
<1> DEFINE c == line[s]
<1>4. out' = out \o <<c>> /\ <<c>> \in Seq(Ch) /\ At(line, s) = c
  BY <1>1, <1>2, <1>3, OneCharacter DEF At
<1>5. c \in Ch /\ c \notin IdentStart  BY <1>2, <1>3
<1> HIDE DEF c
<1>6. LineLeft  BY <1>1, <1>2, <1>4, LineBefore
<1>7. CleanIn(macros, out) /\ Apart(out, c)  BY <1>2, <1>4, <1>6 DEF LineLeft
<1>8. CleanIn(macros, out') /\ ~Ends(out')  BY <1>1, <1>4, <1>5, <1>7, CharJoins
<1>9. FramesLeft'  BY <1>2, NoFramesNext
<1>10. LineLeft'  BY <1>2, <1>8 DEF LineLeft, Apart
<1>11. QED  BY <1>9, <1>10

\* In front of a name of the line.
LEMMA BeforeName ==
  ASSUME TextInv, LineLeft, Plain, StartsName(line, s)
  PROVE  ~Ends(out) /\ CleanIn(macros, out)
<1>1. line \in Seq(Ch) /\ s \in 1 .. Len(line) + 1  BY DEF TextInv, MacrosInv, LineInv
<1>2. At(line, s) \in IdentChar  BY <1>1, AtName
<1>3. status = "text" /\ stack = <<>>  BY DEF Plain, Reading
<1>4. QED  BY <1>2, <1>3 DEF LineLeft, Apart

LEMMA PlainNameLeft ==
  ASSUME TextInv, LeftInv, PlainName, Undisturbed'
  PROVE  LineLeft' /\ FramesLeft'
<1>1. line \in Seq(Ch) /\ s \in 1 .. Len(line) + 1 /\ out \in Seq(Ch)
  BY DEF TextInv, MacrosInv, LineInv
<1> DEFINE n == NameAt(line, s)
           a == AfterName(line, s)
<1>2. /\ macros' = macros /\ line' = line /\ stack' = stack /\ stack = <<>> /\ status = "text"
      /\ status' = "text" /\ ~inComment /\ s' = a /\ Plain /\ StartsName(line, s)
      /\ out' = out \o n /\ ~IsObject(n)
  BY DEF PlainName, Plain, Reading, Copy, NameAt
<1>3. n \in Seq(IdentChar) /\ WholeName(n) /\ At(line, a) \notin IdentChar  BY <1>1, <1>2, AtName
<1> HIDE DEF n, a
<1>4. n \in Seq(Ch)
  <2>1. IdentChar \subseteq Ch  BY Characters, Zenon
  <2>2. QED  BY <1>3, <2>1
<1>5. LineLeft  BY <1>2, <1>4, LineBefore
<1>6. ~Ends(out) /\ CleanIn(macros, out)  BY <1>2, <1>5, BeforeName
<1>7. ~ObjectIn(macros, n)  BY <1>2 DEF IsObject, IsMacro, ObjectIn
<1>8. CleanIn(macros, out')  BY <1>1, <1>2, <1>3, <1>6, <1>7, NameJoins
<1>9. FramesLeft'  BY <1>2, NoFramesNext
<1>10. LineLeft'  BY <1>2, <1>3, <1>8 DEF LineLeft, Apart
<1>11. QED  BY <1>9, <1>10

LEMMA LineNameLeft ==
  ASSUME TextInv, LeftInv, LineName, Undisturbed'
  PROVE  LineLeft' /\ FramesLeft'
<1>1. line \in Seq(Ch) /\ s \in 1 .. Len(line) + 1 /\ out \in Seq(Ch)
  BY DEF TextInv, MacrosInv, LineInv
<1> DEFINE c == "1"
<1>2. /\ macros' = macros /\ line' = line /\ stack' = stack /\ stack = <<>> /\ status = "text"
      /\ status' = "text" /\ ~inComment /\ Plain /\ StartsName(line, s)
      /\ out' = out \o <<c>>
  BY DEF LineName, Plain, Reading, LineNumber
<1>3. c \in Ch /\ c \notin IdentStart /\ <<c>> \in Seq(Ch)
  <2>1. "1" \in Ch /\ "1" \notin IdentStart  BY Characters, Digits, Zenon
  <2>2. QED  BY <2>1
<1> HIDE DEF c
<1>4. LineLeft  BY <1>2, <1>3, LineBefore
<1>5. ~Ends(out) /\ CleanIn(macros, out)  BY <1>2, <1>4, BeforeName
<1>6. CleanIn(macros, out') /\ ~Ends(out')  BY <1>1, <1>2, <1>3, <1>5, CharJoins DEF Apart
<1>7. FramesLeft'  BY <1>2, NoFramesNext
<1>8. LineLeft'  BY <1>2, <1>6 DEF LineLeft, Apart
<1>9. QED  BY <1>7, <1>8

\* A call of expand_macros_in_text begins with nothing made.
LEMMA NewFrame ==
  ASSUME NEW m, NEW t, NEW d, NEW e, AllReachedIn(m, t, d)
  PROVE  FrameLeft(m, Frame(t, e), d, TRUE) /\ ~HasMark(Frame(t, e).out)
<1> DEFINE f == Frame(t, e)
           none == <<>>
<1>1. f.text = t /\ f.p = 1 /\ f.out = none  BY DEF Frame
<1> HIDE DEF f
<1>2. NamesIn(none) = {} /\ ~Ends(none) /\ ~HasMark(none)
  <2>1. Len(none) = 0 /\ 1 .. 0 = {} /\ 1 .. (0 + 1) - 1 = {}  OBVIOUS
  <2> HIDE DEF none
  <2>2. QED  BY <2>1 DEF NamesIn, Ends, InName, HasMark
<1>3. ~InName(t, 1)
  <2>1. 1 .. 1 - 1 = {}  OBVIOUS
  <2>2. QED  BY <2>1 DEF InName
<1> HIDE DEF none
<1>4. FrameLeft(m, f, d, TRUE)  BY <1>1, <1>2, <1>3 DEF FrameLeft, CleanIn, Apart
<1>5. QED  BY <1>1, <1>2, <1>4 DEF f

LEMMA FirstFrame ==
  ASSUME NEW t, stack' = <<Frame(t, 0)>>, AllReachedIn(macros', t, 1 + Extra')
  PROVE  FramesLeft'
<1> DEFINE f == Frame(t, 0)
<1>1. FrameLeft(macros', f, 1 + Extra', TRUE)  BY NewFrame
<1>2. stack' = <<f>>  OBVIOUS
<1> HIDE DEF f
<1>3. Len(stack') = 1 /\ \A i \in DOMAIN stack' : i = 1 /\ stack'[i] = f  BY <1>2
<1>4. SUFFICES ASSUME NEW i, i \in DOMAIN stack'
               PROVE  FrameLeft(macros', stack'[i], i + Extra', i = Len(stack'))
  BY DEF FramesLeft
<1>5. i = 1 /\ stack'[i] = f /\ (i = Len(stack')) = TRUE  BY <1>3, <1>4
<1>6. QED  BY <1>1, <1>5

LEMMA ObjectNameLeft ==
  ASSUME TextInv, LeftInv, ObjectName, Undisturbed'
  PROVE  LineLeft' /\ FramesLeft'
<1>1. line \in Seq(Ch) /\ s \in 1 .. Len(line) + 1 /\ out \in Seq(Ch)
  BY DEF TextInv, MacrosInv, LineInv
<1> DEFINE n == NameAt(line, s)
           a == AfterName(line, s)
           v == macros[n].value
<1>2. /\ macros' = macros /\ line' = line /\ stack = <<>> /\ status = "text"
      /\ status' = "text" /\ ~inComment /\ s' = a /\ Plain /\ StartsName(line, s)
      /\ out' = out /\ IsObject(n) /\ stack' = <<Frame(v, 0)>>
  BY DEF ObjectName, Plain, Reading
<1>3. At(line, a) \notin IdentChar  BY <1>1, <1>2, AtName
<1>4. ObjectIn(macros, n) /\ v \in Seq(Ch)
  BY <1>2 DEF IsObject, IsMacro, ObjectIn, TextInv, MacrosInv
<1> HIDE DEF n, a
<1>5. LineLeft  BY <1>2, LineBefore
<1>6. ~Ends(out) /\ CleanIn(macros, out)  BY <1>2, <1>5, BeforeName
<1>7. AllReachedIn(macros, v, 1 + Extra)
  <2>1. SUFFICES ASSUME NEW o \in NamesIn(v), ObjectIn(macros, o)
                 PROVE  ReachedIn(macros, o, 1 + Extra)
    BY DEF AllReachedIn
  <2>2. CASE Extra = 0
    <3>1. ReachedIn(macros, o, 1) /\ 1 + Extra = 1  BY <2>1, <2>2, ReachedOne
    <3>2. QED  BY <3>1
  <2>3. CASE Extra = 1
    <3> DEFINE one == 1
    <3>1. ReachedIn(macros, n, one)  BY <1>4, ReachedOne
    <3>2. one \in Nat \ {0} /\ one + 1 = 1 + Extra  BY <2>3
    <3> HIDE DEF one
    <3>3. ReachedIn(macros, o, one + 1)  BY <2>1, <3>1, <3>2, ReachOn
    <3>4. QED  BY <3>2, <3>3
  <2>4. QED  BY <2>2, <2>3, Limit
<1>8. Extra' = Extra  BY <1>2, SameTables
<1> HIDE DEF v
<1>9. FramesLeft'  BY <1>2, <1>4, <1>7, <1>8, FirstFrame
<1>10. LineLeft'  BY <1>2, <1>3, <1>6 DEF LineLeft
<1>11. QED  BY <1>9, <1>10

LEMMA BeginCallLeft ==
  ASSUME TextInv, LeftInv, BeginCall, Undisturbed'
  PROVE  LineLeft' /\ FramesLeft'
<1>1. line \in Seq(Ch) /\ s \in 1 .. Len(line) + 1 /\ out \in Seq(Ch)
  BY DEF TextInv, MacrosInv, LineInv
<1> DEFINE n == NameAt(line, s)
           a == AfterName(line, s)
<1>2. /\ macros' = macros /\ line' = line /\ stack' = stack /\ stack = <<>>
      /\ status' = "args" /\ ~inComment /\ Plain /\ StartsName(line, s) /\ out' = out
      /\ call' = [NoCall EXCEPT !.name = n, !.after = a, !.open = Opening]
  BY DEF BeginCall, Plain, Reading
<1>3. WholeName(n) /\ At(line, a) \notin IdentChar  BY <1>1, <1>2, AtName
<1> HIDE DEF n, a
<1>4. call'.name = n /\ call'.after = a  BY <1>2 DEF NoCall
<1>5. LineLeft  BY <1>2, LineBefore
<1>6. ~Ends(out) /\ CleanIn(macros, out)  BY <1>2, <1>5, BeforeName
<1>7. FramesLeft'  BY <1>2, NoFramesNext
<1>8. LineLeft'  BY <1>2, <1>3, <1>4, <1>6 DEF LineLeft
<1>9. QED  BY <1>7, <1>8

LEMMA EndLineLeft ==
  ASSUME TextInv, LeftInv, EndLine, Undisturbed'
  PROVE  LineLeft' /\ FramesLeft'
<1>1. /\ macros' = macros /\ line' = line /\ stack' = stack /\ stack = <<>> /\ out' = out
      /\ status' = "done" /\ inComment' = inComment
  BY DEF EndLine, Reading
<1>2. ~inComment  BY <1>1 DEF Undisturbed
<1>3. LineLeft  BY <1>1, <1>2, LineBefore
<1>4. FramesLeft'  BY <1>1, NoFramesNext
<1>5. LineLeft'  BY <1>1, <1>3 DEF LineLeft
<1>6. QED  BY <1>4, <1>5

\* The reading of a call: its name becomes text, or what it stands for will.
LEMMA CloseCallLeft ==
  ASSUME TextInv, LeftInv, status = "args", NEW args, NEW to, CloseCall(args, to),
         UNCHANGED KeptByArgs, Undisturbed', At(line, to) \notin IdentChar
  PROVE  LineLeft' /\ FramesLeft'
<1>1. out \in Seq(Ch)  BY DEF TextInv, LineInv
<1>2. /\ macros' = macros /\ line' = line /\ stack' = stack /\ stack = <<>>
      /\ inComment' = inComment /\ IsFunction(call.name)
  BY DEF KeptByArgs, TextInv, CallInv
<1>3. ~inComment  BY <1>2 DEF Undisturbed
<1>4. FramesLeft'  BY <1>2, NoFramesNext
<1>5. call.name \in Seq(Ch) /\ call.name \in Seq(IdentChar)
  BY CalledMacro DEF TextInv, MacrosInv
<1>6. CASE Fits(macros[call.name], Len(args))
  <2>1. status' = "body" /\ s' = to /\ out' = out  BY <1>6 DEF CloseCall
  <2>2. LineLeft  BY <1>2, <1>3, <2>1, LineBefore
  <2>3. LineLeft'  BY <1>2, <2>1, <2>2 DEF LineLeft
  <2>4. QED  BY <1>4, <2>3
<1>7. CASE ~Fits(macros[call.name], Len(args))
  <2>1. status' = "text" /\ out' = out \o call.name /\ s' = call.after
    BY <1>7 DEF CloseCall
  <2>2. LineLeft  BY <1>2, <1>3, <1>5, <2>1, LineBefore
  <2>3. /\ CleanIn(macros, out) /\ ~Ends(out) /\ At(line, call.after) \notin IdentChar
        /\ WholeName(call.name)
    BY <2>2 DEF LineLeft
  <2>4. ~ObjectIn(macros, call.name)  BY <1>2 DEF IsFunction, IsMacro, ObjectIn
  <2> DEFINE n == call.name
  <2>5. CleanIn(macros, out \o n)
    <3>1. n \in Seq(IdentChar) /\ WholeName(n) /\ ~ObjectIn(macros, n)  BY <1>5, <2>3, <2>4
    <3> HIDE DEF n
    <3>2. QED  BY <1>1, <2>3, <3>1, NameJoins
  <2>6. LineLeft'  BY <1>2, <2>1, <2>3, <2>5 DEF LineLeft, Apart
  <2>7. QED  BY <1>4, <2>6
<1>8. QED  BY <1>6, <1>7

LEMMA ListGoesOnLeft ==
  ASSUME TextInv, LeftInv, status = "args", UNCHANGED KeptByArgs, out' = out, status' = status,
         call'.name = call.name, call'.after = call.after, Undisturbed'
  PROVE  LineLeft' /\ FramesLeft'
<1>1. /\ macros' = macros /\ line' = line /\ stack' = stack /\ stack = <<>>
      /\ inComment' = inComment
  BY DEF KeptByArgs, TextInv, CallInv
<1>2. ~inComment  BY <1>1 DEF Undisturbed
<1>3. LineLeft  BY <1>1, <1>2, LineBefore
<1>4. FramesLeft'  BY <1>1, NoFramesNext
<1>5. LineLeft'  BY <1>1, <1>3 DEF LineLeft
<1>6. QED  BY <1>4, <1>5

\* What is behind the bracket that closes a call.
LEMMA BehindCall ==
  ASSUME TextInv, status = "args", UNCHANGED KeptByArgs, Undisturbed',
         NEW q \in 1 .. Len(line) + 1, At(line, q) = ")"
  PROVE  At(line, q + 1) \notin IdentChar
<1>1. macros' = macros /\ line' = line  BY DEF KeptByArgs
<1>2. CallsStandApart  BY <1>1, SameTables DEF Undisturbed
<1>3. HasCalls
  <2>1. IsFunction(call.name)  BY DEF TextInv, CallInv
  <2>2. QED  BY <2>1 DEF HasCalls, IsFunction, IsMacro
<1>4. q \in 1 .. Len(line) /\ line[q] = ")"
  <2>1. Len(line) \in Nat  BY DEF TextInv, MacrosInv
  <2>2. QED  BY <2>1 DEF At
<1>5. QED  BY <1>2, <1>3, <1>4, Zenon DEF CallsStandApart

LEMMA BeginArgLeft ==
  ASSUME TextInv, LeftInv, BeginArg, Undisturbed'
  PROVE  LineLeft' /\ FramesLeft'
<1>1. line \in Seq(Ch) /\ s \in 1 .. Len(line) + 1 /\ Len(line) \in Nat
  BY DEF TextInv, MacrosInv, LineInv
<1>2. status = "args" /\ UNCHANGED KeptByArgs  BY DEF BeginArg, InArgs
<1> DEFINE q == SkipSpaces(line, s)
<1>3. q \in s .. Len(line) + 1  BY <1>1, BlanksEnd
<1>4. /\ At(line, q) = "end" => CloseCall(call.args, q)
      /\ At(line, q) = ")" => CloseCall(call.args, q + 1)
      /\ At(line, q) \notin {"end", ")"} =>
           s' = q /\ call' = [call EXCEPT !.from = q, !.depth = 0] /\ out' = out /\ status' = status
  BY DEF BeginArg
<1> HIDE DEF q
<1>5. q \in 1 .. Len(line) + 1  BY <1>1, <1>3
<1>6. CASE At(line, q) = "end"
  <2>1. At(line, q) \notin IdentChar  BY <1>6, Digits
  <2>2. QED  BY <1>2, <1>4, <1>6, <2>1, CloseCallLeft
<1>7. CASE At(line, q) = ")"
  <2>1. At(line, q + 1) \notin IdentChar  BY <1>2, <1>5, <1>7, BehindCall
  <2>2. CloseCall(call.args, q + 1)  BY <1>4, <1>7
  <2>3. QED  BY <1>2, <2>1, <2>2, CloseCallLeft
<1>8. CASE At(line, q) \notin {"end", ")"}
  <2>1. call' = [call EXCEPT !.from = q, !.depth = 0] /\ out' = out /\ status' = status
    BY <1>4, <1>8
  <2>2. call' \in [name : {call.name}, after : {call.after}, open : {call.open},
                   from : {q}, depth : {0}, args : {call.args}]
    BY <2>1, CallFields DEF TextInv, CallInv
  <2>3. call'.name = call.name /\ call'.after = call.after  BY <2>2
  <2>4. QED  BY <1>2, <2>1, <2>3, ListGoesOnLeft
<1>9. QED  BY <1>6, <1>7, <1>8

LEMMA ArgCharLeft ==
  ASSUME TextInv, LeftInv, ArgChar, Undisturbed'
  PROVE  LineLeft' /\ FramesLeft'
<1>1. status = "args" /\ out' = out /\ status' = status /\ UNCHANGED KeptByArgs
  BY DEF ArgChar, InArgs
<1> DEFINE d == CASE line[s] = "(" -> call.depth + 1
                  [] line[s] = ")" -> call.depth - 1
                  [] OTHER -> call.depth
<1>2. call' = [call EXCEPT !.depth = d]  BY DEF ArgChar
<1> HIDE DEF d
<1>3. call' \in [name : {call.name}, after : {call.after}, open : {call.open},
                 from : {call.from}, depth : {d}, args : {call.args}]
  BY <1>2, CallFields DEF TextInv, CallInv
<1>4. call'.name = call.name /\ call'.after = call.after  BY <1>3
<1>5. QED  BY <1>1, <1>4, ListGoesOnLeft

LEMMA EndArgLeft ==
  ASSUME TextInv, LeftInv, EndArg, Undisturbed'
  PROVE  LineLeft' /\ FramesLeft'
<1>1. s \in 1 .. Len(line) + 1  BY DEF TextInv, LineInv
<1>2. status = "args" /\ UNCHANGED KeptByArgs  BY DEF EndArg, InArgs
<1> DEFINE args == Append(call.args, Trim(SubSeq(line, call.from, s - 1)))
<1>3. /\ At(line, s) = ")" => CloseCall(args, s + 1)
      /\ At(line, s) # ")" =>
           call' = [call EXCEPT !.args = args, !.from = 0] /\ out' = out /\ status' = status
  BY Zenon DEF EndArg
<1> HIDE DEF args
<1>4. CASE At(line, s) = ")"
  <2>1. At(line, s + 1) \notin IdentChar  BY <1>1, <1>2, <1>4, BehindCall
  <2>2. CloseCall(args, s + 1)  BY <1>3, <1>4
  <2>3. QED  BY <1>2, <2>1, <2>2, CloseCallLeft
<1>5. CASE At(line, s) # ")"
  <2>1. call' = [call EXCEPT !.args = args, !.from = 0] /\ out' = out /\ status' = status
    BY <1>3, <1>5
  <2>2. call' \in [name : {call.name}, after : {call.after}, open : {call.open},
                   from : {0}, depth : {call.depth}, args : {args}]
    BY <2>1, CallFields DEF TextInv, CallInv
  <2>3. call'.name = call.name /\ call'.after = call.after  BY <2>2
  <2>4. QED  BY <1>2, <2>1, <2>3, ListGoesOnLeft
<1>6. QED  BY <1>4, <1>5

\* The text of a function is made of anything: names in it are expanded next.
LEMMA MakesBodyLeft ==
  ASSUME TextInv, LeftInv, MakesBody, Undisturbed'
  PROVE  LineLeft' /\ FramesLeft'
<1>1. ASSUME NEW text, NEW to, InBody, ToBody(text, to)
      PROVE  UNCHANGED <<macros, line, s, inComment, out, call, stack, status>> /\ status = "body"
  BY <1>1 DEF ToBody, InBody
<1>2. UNCHANGED <<macros, line, s, inComment, out, call, stack, status>> /\ status = "body"
  <2>1. CASE Paste  BY <1>1, <2>1 DEF Paste
  <2>2. CASE Stringify  BY <1>1, <2>2 DEF Stringify
  <2>3. CASE OptionalArgs  BY <1>1, <2>3 DEF OptionalArgs
  <2>4. CASE BodyName  BY <1>1, <2>4 DEF BodyName
  <2>5. CASE BodyChar  BY <1>1, <2>5 DEF BodyChar
  <2>6. QED  BY <2>1, <2>2, <2>3, <2>4, <2>5 DEF MakesBody
<1>3. stack = <<>> /\ stack' = <<>>  BY <1>2 DEF TextInv, CallInv
<1>4. ~inComment  BY <1>2 DEF Undisturbed
<1>5. LineLeft  BY <1>2, <1>3, <1>4, LineBefore
<1>6. FramesLeft'  BY <1>3, NoFramesNext
<1>7. LineLeft'  BY <1>2, <1>5 DEF LineLeft
<1>8. QED  BY <1>6, <1>7

LEMMA EndBodyLeft ==
  ASSUME TextInv, LeftInv, EndBody, Undisturbed'
  PROVE  LineLeft' /\ FramesLeft'
<1> DEFINE t == body.out
<1>1. /\ macros' = macros /\ line' = line /\ s' = s /\ inComment' = inComment /\ out' = out
      /\ stack' = <<Frame(t, 0)>> /\ status' = "text" /\ status = "body"
  BY DEF EndBody
<1>2. stack = <<>> /\ IsFunction(call.name) /\ t \in Seq(Ch)
  BY <1>1 DEF TextInv, CallInv, BodyInv
<1>3. ~inComment  BY <1>1 DEF Undisturbed
<1>4. LineLeft  BY <1>1, <1>2, <1>3, LineBefore
<1>5. Extra = 0 /\ Extra' = Extra
  <2>1. HasCalls  BY <1>2 DEF HasCalls, IsFunction, IsMacro
  <2>2. QED  BY <1>1, <2>1, Limit, SameTables
<1>6. AllReachedIn(macros, t, 1 + Extra)
  <2>1. 1 + Extra = 1  BY <1>5
  <2>2. QED  BY <2>1, ReachedOne DEF AllReachedIn
<1> HIDE DEF t
<1>7. FramesLeft'  BY <1>1, <1>2, <1>5, <1>6, FirstFrame
<1>8. LineLeft'  BY <1>1, <1>4 DEF LineLeft
<1>9. QED  BY <1>7, <1>8

-----------------------------------------------------------------------------
(* The calls of expand_macros_in_text *)

\* What is left in each of them, before a step that leaves the line.
LEMMA LeftOfCalls ==
  ASSUME CallsInv, LeftInv, stack # <<>>, Undisturbed', UNCHANGED <<macros, line, inComment>>,
         Spoiled => Spoiled'
  PROVE  /\ Undisturbed /\ LineLeft
         /\ FrameLeft(macros, Top, Len(stack) + Extra, TRUE)
         /\ \A i \in 1 .. Len(stack) - 1 : FrameLeft(macros, stack[i], i + Extra, FALSE)
<1>1. Undisturbed /\ LineLeft /\ FramesLeft
  <2>1. ~inComment  BY DEF Undisturbed
  <2>2. QED  BY <2>1, WasUndisturbed
<1>2. Len(stack) \in Nat \ {0}  BY TopIsAFrame
<1>3. DOMAIN stack = 1 .. Len(stack)  BY DEF CallsInv
<1>4. FrameLeft(macros, Top, Len(stack) + Extra, TRUE)
  <2>1. Len(stack) \in DOMAIN stack /\ (Len(stack) = Len(stack)) = TRUE  BY <1>2, <1>3
  <2>2. QED  BY <1>1, <2>1 DEF FramesLeft, Top
<1>5. \A i \in 1 .. Len(stack) - 1 : FrameLeft(macros, stack[i], i + Extra, FALSE)
  <2>1. TAKE i \in 1 .. Len(stack) - 1
  <2> DEFINE n == Len(stack)
  <2>2. i \in DOMAIN stack /\ i # Len(stack)
    <3>1. n \in Nat /\ i \in 1 .. n - 1  BY <1>2
    <3>2. DOMAIN stack = 1 .. n /\ n = Len(stack)  BY <1>3
    <3> HIDE DEF n
    <3>3. i \in 1 .. n /\ i # n  BY <3>1
    <3>4. QED  BY <3>2, <3>3
  <2>3. (i = Len(stack)) = FALSE  BY <2>2, Zenon
  <2>4. QED  BY <1>1, <2>2, <2>3 DEF FramesLeft
<1>6. QED  BY <1>1, <1>4, <1>5

LEMMA FramesAre ==
  ASSUME NEW G, NEW q \in Seq(G), stack' = q, UNCHANGED <<macros, line>>,
         \A i \in 1 .. Len(q) : FrameLeft(macros, q[i], i + Extra, i = Len(q))
  PROVE  FramesLeft'
<1>1. Extra' = Extra  BY SameTables
<1>2. DOMAIN stack' = 1 .. Len(q)  OBVIOUS
<1>3. SUFFICES ASSUME NEW i, i \in DOMAIN stack'
               PROVE  FrameLeft(macros', stack'[i], i + Extra', i = Len(stack'))
  BY DEF FramesLeft
<1>4. FrameLeft(macros, q[i], i + Extra, i = Len(q))  BY <1>2, <1>3
<1>5. QED  BY <1>1, <1>4

LEMMA StaysInside ==
  ASSUME LineLeft, stack # <<>>, stack' # <<>>, status = "text",
         UNCHANGED <<macros, line, s, out, call, status>>
  PROVE  LineLeft'
BY DEF LineLeft

LEMMA StillSpoiled ==
  ASSUME UNCHANGED out,
         \A j \in DOMAIN stack : HasMark(stack[j].out) =>
            \E k : k \in DOMAIN stack' /\ HasMark(stack'[k].out)
  PROVE  Spoiled => Spoiled'
BY DEF Spoiled

\* The call on top goes on, with what is made at its end.
LEMMA ToTopLeft ==
  ASSUME TextInv, CallsInv, LeftInv, Expanding, Undisturbed',
         NEW text \in Seq(Ch), NEW to, ToTop(text, to),
         FrameLeft(macros, Top, Len(stack) + Extra, TRUE) =>
           /\ CleanIn(macros, Top.out \o text)
           /\ InName(Top.text, to) => At(Top.text, to) \notin IdentChar
           /\ Apart(Top.out \o text, At(Top.text, to))
  PROVE  LineLeft' /\ FramesLeft'
<1>1. stack # <<>>  BY DEF Expanding
<1>2. PICK F : stack \in Seq(F)  BY DEF CallsInv
<1>3. Len(stack) \in Nat \ {0} /\ DOMAIN stack = 1 .. Len(stack)  BY <1>1, <1>2, TopIsAFrame
<1>4. /\ Callers \in Seq(F) /\ Len(Callers) = Len(stack) - 1
      /\ \A i \in 1 .. Len(stack) - 1 : Callers[i] = stack[i]
  BY <1>2, <1>3, CallersAreBelow
<1>5. status = "text" /\ FrameIsText(Top) /\ IsFrame(Top)  BY <1>1, TopIsText
<1> DEFINE u == Top.out \o text
           f == [Top EXCEPT !.p = to, !.out = u]
           q == Append(Callers, f)
           n == Len(stack)
<1>6. UNCHANGED <<macros, line, s, inComment, out, call, status>> /\ stack' = q  BY DEF ToTop
<1>7. f.text = Top.text /\ f.p = to /\ f.out = u
  <2> HIDE DEF u
  <2>1. f \in [text : {Top.text}, p : {to}, out : {u}, depth : {Top.depth}]  BY <1>5 DEF IsFrame
  <2> HIDE DEF f
  <2>2. QED  BY <2>1
<1> HIDE DEF f
<1>8. /\ q \in Seq(F \cup {f}) /\ Len(q) = n /\ q[n] = f
      /\ \A i \in 1 .. n - 1 : q[i] = stack[i]
  <2>1. Callers \in Seq(F \cup {f})  BY <1>4
  <2>2. /\ q \in Seq(F \cup {f}) /\ Len(q) = Len(Callers) + 1 /\ q[Len(Callers) + 1] = f
        /\ \A i \in 1 .. Len(Callers) : q[i] = Callers[i]
    BY <2>1, AppendProperties
  <2> HIDE DEF q
  <2>3. QED  BY <1>3, <1>4, <2>2
<1> HIDE DEF q
<1>9. Spoiled => Spoiled'
  <2>1. ASSUME NEW j \in 1 .. n, HasMark(stack[j].out)
        PROVE  \E k : k \in DOMAIN stack' /\ HasMark(stack'[k].out)
    <3>1. j \in DOMAIN stack'  BY <1>6, <1>8
    <3>2. CASE j = n
      <4>1. HasMark(Top.out)  BY <2>1, <3>2 DEF Top
      <4>2. HasMark(u)  BY <1>5, <4>1, MarksStay DEF FrameIsText
      <4>3. HasMark(stack'[j].out)  BY <1>6, <1>7, <1>8, <3>2, <4>2
      <4>4. QED  BY <3>1, <4>3
    <3>3. CASE j # n
      <4>1. j \in 1 .. n - 1
        <5>1. n \in Nat /\ j \in 1 .. n  BY <1>3
        <5> HIDE DEF n
        <5>2. QED  BY <3>3, <5>1
      <4>2. stack'[j] = stack[j]  BY <1>6, <1>8, <4>1
      <4>3. QED  BY <2>1, <3>1, <4>2
    <3>4. QED  BY <3>2, <3>3
  <2>2. QED  BY <1>3, <1>6, <2>1, StillSpoiled
<1>10. /\ LineLeft /\ FrameLeft(macros, Top, n + Extra, TRUE)
       /\ \A i \in 1 .. n - 1 : FrameLeft(macros, stack[i], i + Extra, FALSE)
  BY <1>1, <1>6, <1>9, LeftOfCalls
<1>11. FrameLeft(macros, f, n + Extra, TRUE)
  <2> HIDE DEF n
  <2>1. /\ CleanIn(macros, u)
        /\ InName(Top.text, to) => At(Top.text, to) \notin IdentChar
        /\ Apart(u, At(Top.text, to))
    BY <1>10 DEF n
  <2> HIDE DEF u
  <2>2. QED  BY <1>7, <1>10, <2>1 DEF FrameLeft
<1>12. \A i \in 1 .. Len(q) : FrameLeft(macros, q[i], i + Extra, i = Len(q))
  <2>1. TAKE i \in 1 .. Len(q)
  <2>2. CASE i = n
    <3>1. q[i] = f /\ (i = Len(q)) = TRUE  BY <1>8, <2>2
    <3>2. QED  BY <1>11, <2>2, <3>1
  <2>3. CASE i # n
    <3>1. i \in 1 .. n - 1 /\ i # Len(q)
      <4>1. n \in Nat /\ i \in 1 .. n /\ Len(q) = n  BY <1>3, <1>8
      <4> HIDE DEF n
      <4>2. QED  BY <2>3, <4>1
    <3>2. (i = Len(q)) = FALSE  BY <3>1, Zenon
    <3>3. q[i] = stack[i]  BY <1>8, <3>1
    <3>4. QED  BY <1>10, <3>1, <3>2, <3>3
  <2>4. QED  BY <2>2, <2>3
<1>13. FramesLeft'  BY <1>6, <1>8, <1>12, FramesAre
<1>14. stack' # <<>>  BY <1>3, <1>6, <1>8
<1>15. LineLeft'  BY <1>1, <1>5, <1>6, <1>10, <1>14, StaysInside
<1>16. QED  BY <1>13, <1>15

\* What is copied in front of the place is no part of a name behind it.
LEMMA PastNoName ==
  ASSUME NEW t, NEW p \in Nat \ {0}, t[p] \notin IdentStart,
         InName(t, p) => t[p] \notin IdentChar
  PROVE  ~InName(t, p + 1)
<1>1. SUFFICES ASSUME InName(t, p + 1) PROVE FALSE  OBVIOUS
<1>2. (p + 1) - 1 = p  OBVIOUS
<1>3. PICK k \in 1 .. p : t[k] \in IdentStart /\ \A m \in k .. p : t[m] \in IdentChar
  BY <1>1, <1>2 DEF InName
<1>4. k # p  BY <1>3
<1>5. k \in 1 .. p - 1 /\ p \in k .. p /\ k .. p - 1 \subseteq k .. p  BY <1>3, <1>4
<1>6. InName(t, p)  BY <1>3, <1>5 DEF InName
<1>7. QED  BY <1>3, <1>5, <1>6

LEMMA FrameQuotedLeft ==
  ASSUME TextInv, CallsInv, FrameQuoted
  PROVE  ~Undisturbed'
<1>1. Expanding /\ stack # <<>>  BY DEF FrameQuoted, Expanding
<1> DEFINE t == Top.text
           p == Top.p
           to == AfterQuoted(t, p)
           u == Top.out \o SubSeq(t, p, to - 1)
           f == [Top EXCEPT !.p = to, !.out = u]
<1>2. t \in Seq(Ch) /\ p \in 1 .. Len(t)  BY <1>1, TopFacts
<1>3. stack' = Append(Callers, f)  BY DEF FrameQuoted, ToTop
<1>4. FrameIsText(Top) /\ IsFrame(Top)  BY <1>1, TopIsText
<1>5. HasMark(u)
  <2>1. to \in p + 1 .. Len(t) + 1  BY <1>2, QuotesEnd
  <2>2. t[p] \in Marks  BY DEF FrameQuoted, Marks
  <2>3. Top.out \in Seq(Ch)  BY <1>4 DEF FrameIsText
  <2> HIDE DEF t, p, to
  <2>4. QED  BY <1>2, <2>1, <2>2, <2>3, PieceMarks
<1>6. f.out = u
  <2> HIDE DEF u, to
  <2>1. f \in [text : {Top.text}, p : {to}, out : {u}, depth : {Top.depth}]  BY <1>4 DEF IsFrame
  <2> HIDE DEF f
  <2>2. QED  BY <2>1
<1>7. PICK F : Callers \in Seq(F)  BY <1>1, TopIsText
<1> HIDE DEF f, u
<1>8. Len(Callers) + 1 \in DOMAIN stack' /\ stack'[Len(Callers) + 1] = f
  <2> DEFINE q == Append(Callers, f)
             G == F \cup {f}
  <2>1. Callers \in Seq(G) /\ f \in G  BY <1>7
  <2> HIDE DEF G
  <2>2. q \in Seq(G) /\ Len(q) = Len(Callers) + 1 /\ q[Len(Callers) + 1] = f
    BY <2>1, AppendProperties
  <2>3. Len(Callers) \in Nat  BY <1>7
  <2>4. stack' = q  BY <1>3
  <2> HIDE DEF q
  <2>5. DOMAIN q = 1 .. Len(Callers) + 1  BY <2>2
  <2>6. Len(Callers) + 1 \in 1 .. Len(Callers) + 1  BY <2>3
  <2>7. QED  BY <2>2, <2>4, <2>5, <2>6
<1>9. Spoiled'  BY <1>5, <1>6, <1>8 DEF Spoiled
<1>10. QED  BY <1>9 DEF Undisturbed

LEMMA FrameCharLeft ==
  ASSUME TextInv, CallsInv, LeftInv, FrameChar, Undisturbed'
  PROVE  LineLeft' /\ FramesLeft'
<1> DEFINE t == Top.text
           p == Top.p
           c == t[p]
           u == Top.out \o <<c>>
<1>1. Expanding /\ stack # <<>> /\ ToTop(<<c>>, p + 1) /\ ~StartsName(t, p)
  BY DEF FrameChar, Expanding
<1>2. t \in Seq(Ch) /\ p \in 1 .. Len(t) /\ Len(t) \in Nat  BY <1>1, TopFacts
<1>3. Top.out \in Seq(Ch)  BY <1>1, TopIsText DEF FrameIsText
<1> HIDE DEF t, p
<1>4. c \in Ch /\ At(t, p) = c /\ p \in Nat \ {0}  BY <1>2 DEF At
<1>5. c \notin IdentStart  BY <1>1, <1>4 DEF StartsName
<1>6. ASSUME FrameLeft(macros, Top, Len(stack) + Extra, TRUE)
      PROVE  /\ CleanIn(macros, u)
             /\ InName(t, p + 1) => At(t, p + 1) \notin IdentChar
             /\ Apart(u, At(t, p + 1))
  <2>1. CleanIn(macros, Top.out) /\ Apart(Top.out, c) /\ (InName(t, p) => c \notin IdentChar)
    BY <1>4, <1>6 DEF FrameLeft, t, p
  <2>2. ~InName(t, p + 1)  BY <1>4, <1>5, <2>1, PastNoName
  <2> HIDE DEF c
  <2>3. CleanIn(macros, u) /\ ~Ends(u)  BY <1>3, <1>4, <1>5, <2>1, CharJoins
  <2>4. QED  BY <2>2, <2>3 DEF Apart
<1>7. <<c>> \in Seq(Ch)
  <2> HIDE DEF c
  <2>1. QED  BY <1>4, NoName, <1>5
<1> DEFINE text == <<c>>
           to == p + 1
<1>8. /\ text \in Seq(Ch) /\ ToTop(text, to) /\ u = Top.out \o text
      /\ FrameLeft(macros, Top, Len(stack) + Extra, TRUE) =>
           /\ CleanIn(macros, Top.out \o text)
           /\ InName(Top.text, to) => At(Top.text, to) \notin IdentChar
           /\ Apart(Top.out \o text, At(Top.text, to))
  BY <1>1, <1>6, <1>7 DEF t
<1> HIDE DEF text, to, c, u
<1>9. QED  BY <1>1, <1>8, ToTopLeft

\* In front of a name of the text on top.
LEMMA BeforeFrameName ==
  ASSUME TextInv, CallsInv, Expanding, StartsName(Top.text, Top.p), NEW d,
         FrameLeft(macros, Top, d, TRUE)
  PROVE  /\ CleanIn(macros, Top.out) /\ ~Ends(Top.out) /\ Top.out \in Seq(Ch)
         /\ ~InName(Top.text, Top.p)
<1> DEFINE t == Top.text
           p == Top.p
<1>1. t \in Seq(Ch) /\ p \in 1 .. Len(t) + 1  BY TopFacts
<1>2. stack # <<>>  BY DEF Expanding
<1>3. Top.out \in Seq(Ch)  BY <1>2, TopIsText DEF FrameIsText
<1>4. At(t, p) \in IdentChar
  <2>1. StartsName(t, p)  OBVIOUS
  <2> HIDE DEF t, p
  <2>2. QED  BY <1>1, <2>1, AtName
<1>5. QED  BY <1>3, <1>4 DEF FrameLeft, Apart

\* A text that is put where a name of the text on top was.
LEMMA NameReplaced ==
  ASSUME TextInv, CallsInv, LeftInv, Expanding, StartsName(Top.text, Top.p), Undisturbed',
         NEW text \in Seq(Ch), ToTop(text, AfterName(Top.text, Top.p)),
         FrameLeft(macros, Top, Len(stack) + Extra, TRUE) => CleanIn(macros, Top.out \o text)
  PROVE  LineLeft' /\ FramesLeft'
<1> DEFINE t == Top.text
           p == Top.p
           to == AfterName(t, p)
           d == Len(stack) + Extra
<1>1. t \in Seq(Ch) /\ p \in 1 .. Len(t) + 1  BY TopFacts
<1>2. At(t, to) \notin IdentChar
  <2>1. StartsName(t, p)  OBVIOUS
  <2> HIDE DEF t, p
  <2>2. QED  BY <1>1, <2>1, AtName
<1> HIDE DEF to, d
<1>3. FrameLeft(macros, Top, d, TRUE) =>
        /\ CleanIn(macros, Top.out \o text)
        /\ InName(Top.text, to) => At(Top.text, to) \notin IdentChar
        /\ Apart(Top.out \o text, At(Top.text, to))
  BY <1>2 DEF Apart, d
<1>4. ToTop(text, to)  BY DEF to
<1>5. QED  BY <1>3, <1>4, ToTopLeft DEF d

LEMMA FrameNameLeft ==
  ASSUME TextInv, CallsInv, LeftInv, FrameName, Undisturbed'
  PROVE  LineLeft' /\ FramesLeft'
<1> DEFINE n == NameAt(Top.text, Top.p)
           text == IF n = <<"line">> THEN LineNumber ELSE n
           to == AfterName(Top.text, Top.p)
           d == Len(stack) + Extra
<1>1. /\ Expanding /\ StartsName(Top.text, Top.p) /\ ToTop(text, to)
      /\ n = <<"line">> \/ ~IsObject(n)
  BY DEF FrameName
<1>2. n \in Seq(IdentChar) /\ WholeName(n)
  <2> DEFINE t == Top.text
             p == Top.p
  <2>1. t \in Seq(Ch) /\ p \in 1 .. Len(t) + 1  BY <1>1, TopFacts
  <2>2. StartsName(t, p)  BY <1>1
  <2>3. n = NameAt(t, p)  OBVIOUS
  <2> HIDE DEF t, p, n
  <2>4. QED  BY <2>1, <2>2, <2>3, AtName
<1>3. n \in Seq(Ch)  BY <1>1, TopFacts
<1> HIDE DEF n, to, d
<1>4. CASE n = <<"line">>
  <2> DEFINE c == "1"
  <2>1. text = <<c>>  BY <1>4, Digits
  <2>2. c \in Ch /\ c \notin IdentStart /\ <<c>> \in Seq(Ch)
    <3>1. "1" \in Ch /\ "1" \notin IdentStart  BY Characters, Digits, Zenon
    <3>2. QED  BY <3>1
  <2> HIDE DEF c, text
  <2>3. ASSUME FrameLeft(macros, Top, d, TRUE) PROVE CleanIn(macros, Top.out \o text)
    <3>1. CleanIn(macros, Top.out) /\ ~Ends(Top.out) /\ Top.out \in Seq(Ch)
      BY <1>1, <2>3, BeforeFrameName
    <3>2. CleanIn(macros, Top.out \o <<c>>)  BY <2>2, <3>1, CharJoins DEF Apart
    <3>3. QED  BY <2>1, <3>2
  <2>4. text \in Seq(Ch)  BY <2>1, <2>2
  <2>5. QED  BY <1>1, <2>3, <2>4, NameReplaced DEF d, to
<1>5. CASE n # <<"line">>
  <2>1. text = n /\ ~ObjectIn(macros, n)  BY <1>1, <1>5 DEF IsObject, IsMacro, ObjectIn
  <2> HIDE DEF text
  <2>2. ASSUME FrameLeft(macros, Top, d, TRUE) PROVE CleanIn(macros, Top.out \o text)
    <3>1. CleanIn(macros, Top.out) /\ ~Ends(Top.out) /\ Top.out \in Seq(Ch)
      BY <1>1, <2>2, BeforeFrameName
    <3>2. CleanIn(macros, Top.out \o n)  BY <1>2, <2>1, <3>1, NameJoins
    <3>3. QED  BY <2>1, <3>2
  <2>3. QED  BY <1>1, <1>3, <2>1, <2>2, NameReplaced DEF d, to
<1>6. QED  BY <1>4, <1>5

\* An object of the text on top, and how far along the chain it is.
LEMMA FrameObjectFacts ==
  ASSUME TextInv, CallsInv, FrameObject, NEW d \in Nat \ {0},
         FrameLeft(macros, Top, d, TRUE)
  PROVE  LET n == NameAt(Top.text, Top.p) IN
           ReachedIn(macros, n, d) /\ AllReachedIn(macros, macros[n].value, d + 1)
<1> DEFINE t == Top.text
           p == Top.p
           n == NameAt(t, p)
<1>1. Expanding /\ StartsName(t, p) /\ IsObject(n)  BY DEF FrameObject
<1>2. t \in Seq(Ch) /\ p \in 1 .. Len(t) + 1  BY <1>1, TopFacts
<1>3. ~InName(t, p)  BY <1>1, BeforeFrameName
<1>4. AllReachedIn(macros, t, d)  BY DEF FrameLeft
<1>5. ObjectIn(macros, n)  BY <1>1 DEF IsObject, IsMacro, ObjectIn
<1> HIDE DEF t, p
<1>6. p \in 1 .. Len(t) /\ t[p] \in IdentStart  BY <1>1, <1>2, AtName
<1>7. ReachedIn(macros, n, d) /\ AllReachedIn(macros, macros[n].value, d + 1)
  BY <1>2, <1>3, <1>4, <1>5, <1>6, NameReached
<1>8. QED  BY <1>7 DEF t, p

\* Behind the limit no chain goes on, so the value that is left as it is has
\* no name of an object.
LEMMA TooDeepLeft ==
  ASSUME TextInv, CallsInv, LeftInv, FrameObject, Undisturbed', TooDeep(Deeper(Top.depth))
  PROVE  LineLeft' /\ FramesLeft'
<1> DEFINE n == NameAt(Top.text, Top.p)
           v == macros[n].value
           d == Len(stack) + Extra
<1>1. /\ Expanding /\ StartsName(Top.text, Top.p) /\ stack # <<>> /\ IsObject(n)
      /\ ToTop(v, AfterName(Top.text, Top.p))
  BY DEF FrameObject, Expanding
<1>2. d \in Nat \ {0} /\ d = LongestChain
  <2>1. Len(stack) \in Nat \ {0} /\ Top.depth = Len(stack) - 1  BY <1>1, TopIsAFrame
  <2>2. Len(stack) <= MaxDepth + 1  BY DEF CallsInv, CallsKeepTheLimit
  <2> DEFINE l == Len(stack)
  <2>3. l \in Nat \ {0} /\ l <= MaxDepth + 1 /\ (l - 1) + 1 > MaxDepth
    BY <2>1, <2>2 DEF TooDeep, Deeper
  <2> HIDE DEF l
  <2>4. l = MaxDepth + 1  BY <2>3, DepthAssumption
  <2>5. l + Extra = LongestChain /\ l + Extra \in Nat \ {0}
    BY <2>4, Limit, DepthAssumption
  <2>6. QED  BY <2>5 DEF l
<1>3. ChainsAreShort
  <2>1. macros' = macros /\ line' = line  BY <1>1 DEF ToTop
  <2>2. QED  BY <2>1, SameTables DEF Undisturbed
<1>4. v \in Seq(Ch)
  <2>1. n \in DOMAIN macros  BY <1>1 DEF IsObject, IsMacro
  <2>2. QED  BY <2>1 DEF TextInv, MacrosInv
<1> HIDE DEF d
<1>5. ASSUME FrameLeft(macros, Top, d, TRUE) PROVE CleanIn(macros, Top.out \o v)
  <2>1. CleanIn(macros, Top.out) /\ ~Ends(Top.out) /\ Top.out \in Seq(Ch)
    BY <1>1, <1>5, BeforeFrameName
  <2>2. AllReachedIn(macros, v, d + 1)  BY <1>2, <1>5, FrameObjectFacts
  <2> HIDE DEF v
  <2>3. \A o \in NamesIn(v) : ~ObjectIn(macros, o)
    <3>1. d + 1 = LongestChain + 1  BY <1>2
    <3>2. AllReachedIn(macros, v, LongestChain + 1)  BY <2>2, <3>1
    <3>3. QED  BY <1>3, <3>2, NoLonger DEF AllReachedIn
  <2>4. CleanIn(macros, v)  BY <2>3 DEF CleanIn
  <2>5. QED  BY <1>4, <2>1, <2>4, CleanJoins DEF Apart
<1> HIDE DEF v
<1>6. QED  BY <1>1, <1>4, <1>5, NameReplaced DEF d

\* A further call: the one on top waits behind the name, where nothing of a
\* name is.
LEMMA DeeperLeft ==
  ASSUME TextInv, CallsInv, LeftInv, FrameObject, Undisturbed', ~TooDeep(Deeper(Top.depth))
  PROVE  LineLeft' /\ FramesLeft'
<1> DEFINE n == NameAt(Top.text, Top.p)
           to == AfterName(Top.text, Top.p)
           v == macros[n].value
           f == [Top EXCEPT !.p = to]
           g == Frame(v, Deeper(Top.depth))
           q == Callers \o <<f, g>>
           l == Len(stack)
           d == l + Extra
<1>1. /\ Expanding /\ StartsName(Top.text, Top.p) /\ stack # <<>> /\ stack' = q
      /\ UNCHANGED <<macros, line, s, inComment, out, call, body, status>>
  BY DEF FrameObject, Expanding
<1>2. PICK F : stack \in Seq(F)  BY DEF CallsInv
<1>3. l \in Nat \ {0} /\ DOMAIN stack = 1 .. l  BY <1>1, <1>2, TopIsAFrame
<1>4. /\ Callers \in Seq(F) /\ Len(Callers) = l - 1
      /\ \A i \in 1 .. l - 1 : Callers[i] = stack[i]
  BY <1>2, <1>3, CallersAreBelow
<1>5. status = "text" /\ IsFrame(Top)  BY <1>1, TopIsText
<1>6. At(Top.text, to) \notin IdentChar
  <2> DEFINE t == Top.text
             p == Top.p
  <2>1. t \in Seq(Ch) /\ p \in 1 .. Len(t) + 1  BY <1>1, TopFacts
  <2>2. StartsName(t, p)  BY <1>1
  <2>3. to = AfterName(t, p)  OBVIOUS
  <2> HIDE DEF t, p, to
  <2>4. At(t, to) \notin IdentChar  BY <2>1, <2>2, <2>3, AtName
  <2>5. QED  BY <2>4 DEF t
<1> HIDE DEF to
<1>7. f.text = Top.text /\ f.p = to /\ f.out = Top.out
  <2>1. f \in [text : {Top.text}, p : {to}, out : {Top.out}, depth : {Top.depth}]
    BY <1>5 DEF IsFrame
  <2> HIDE DEF f
  <2>2. QED  BY <2>1
<1> HIDE DEF f, g
<1>8. /\ q \in Seq(F \cup {f, g}) /\ Len(q) = l + 1 /\ q[l] = f /\ q[l + 1] = g
      /\ \A i \in 1 .. l - 1 : q[i] = stack[i]
  <2>1. Callers \in Seq(F \cup {f, g}) /\ <<f, g>> \in Seq(F \cup {f, g})  BY <1>4
  <2>2. /\ q \in Seq(F \cup {f, g}) /\ Len(q) = Len(Callers) + 2
        /\ \A i \in 1 .. Len(Callers) : q[i] = Callers[i]
        /\ \A i \in 1 .. 2 : q[Len(Callers) + i] = <<f, g>>[i]
    BY <2>1, ConcatProperties
  <2>3. q[Len(Callers) + 1] = f /\ q[Len(Callers) + 2] = g  BY <2>2
  <2> HIDE DEF q, l
  <2>4. Len(Callers) + 1 = l /\ Len(Callers) + 2 = l + 1  BY <1>3, <1>4
  <2>5. QED  BY <1>4, <2>2, <2>3, <2>4
<1> HIDE DEF q
<1>9. l \in 1 .. l + 1 /\ \A j \in 1 .. l : j \in 1 .. l + 1 /\ (j = l \/ j \in 1 .. l - 1)
  <2> HIDE DEF l
  <2>1. QED  BY <1>3
<1>10. Spoiled => Spoiled'
  <2>1. ASSUME NEW j \in 1 .. l, HasMark(stack[j].out)
        PROVE  \E k : k \in DOMAIN stack' /\ HasMark(stack'[k].out)
    <3>1. j \in DOMAIN stack'  BY <1>1, <1>8, <1>9
    <3>2. CASE j = l
      <4>1. HasMark(Top.out)  BY <2>1, <3>2 DEF Top
      <4>2. HasMark(stack'[j].out)  BY <1>1, <1>7, <1>8, <3>2, <4>1
      <4>3. QED  BY <3>1, <4>2
    <3>3. CASE j \in 1 .. l - 1
      <4>1. stack'[j] = stack[j]  BY <1>1, <1>8, <3>3
      <4>2. QED  BY <2>1, <3>1, <4>1
    <3>4. QED  BY <1>9, <3>2, <3>3
  <2>2. QED  BY <1>1, <1>3, <2>1, StillSpoiled
<1>11. /\ LineLeft /\ FrameLeft(macros, Top, d, TRUE)
       /\ \A i \in 1 .. l - 1 : FrameLeft(macros, stack[i], i + Extra, FALSE)
  BY <1>1, <1>10, LeftOfCalls
<1>12. d \in Nat \ {0} /\ d + 1 = (l + 1) + Extra
  <2> HIDE DEF l
  <2>1. QED  BY <1>3, Limit
<1> HIDE DEF d
<1>13. FrameLeft(macros, f, d, FALSE)
  <2>1. CleanIn(macros, Top.out) /\ ~Ends(Top.out)  BY <1>1, <1>11, BeforeFrameName
  <2>2. QED  BY <1>6, <1>7, <1>11, <2>1 DEF FrameLeft, Apart
<1>14. FrameLeft(macros, g, (l + 1) + Extra, TRUE)
  <2>1. AllReachedIn(macros, v, d + 1)  BY <1>11, <1>12, FrameObjectFacts
  <2> DEFINE e == d + 1
             h == Deeper(Top.depth)
  <2>2. AllReachedIn(macros, v, e)  BY <2>1
  <2> HIDE DEF v, e, h
  <2>3. FrameLeft(macros, Frame(v, h), e, TRUE)  BY <2>2, NewFrame
  <2>4. QED  BY <1>12, <2>3 DEF e, g, h
<1>15. \A i \in 1 .. Len(q) : FrameLeft(macros, q[i], i + Extra, i = Len(q))
  <2>1. TAKE i \in 1 .. Len(q)
  <2>2. i = l + 1 \/ (i = l /\ i # l + 1) \/ (i \in 1 .. l - 1 /\ i # l + 1)
    <3>1. l \in Nat /\ i \in 1 .. l + 1  BY <1>3, <1>8
    <3> HIDE DEF l
    <3>2. QED  BY <3>1
  <2>3. CASE i = l + 1
    <3>1. q[i] = g /\ (i = Len(q)) = TRUE  BY <1>8, <2>3
    <3>2. QED  BY <1>14, <2>3, <3>1
  <2>4. CASE i = l /\ i # l + 1
    <3>1. i # Len(q)  BY <1>8, <2>4
    <3>2. (i = Len(q)) = FALSE  BY <3>1, Zenon
    <3>3. q[i] = f  BY <1>8, <2>4
    <3>4. QED  BY <1>13, <2>4, <3>2, <3>3 DEF d
  <2>5. CASE i \in 1 .. l - 1 /\ i # l + 1
    <3>1. i # Len(q)  BY <1>8, <2>5
    <3>2. (i = Len(q)) = FALSE  BY <3>1, Zenon
    <3>3. q[i] = stack[i]  BY <1>8, <2>5
    <3>4. QED  BY <1>11, <2>5, <3>2, <3>3
  <2>6. QED  BY <2>2, <2>3, <2>4, <2>5
<1>16. FramesLeft'  BY <1>1, <1>8, <1>15, FramesAre
<1>17. stack' # <<>>
  <2> HIDE DEF l
  <2>1. Len(q) # 0  BY <1>3, <1>8
  <2>2. QED  BY <1>1, <2>1
<1>18. LineLeft'  BY <1>1, <1>5, <1>11, <1>17, StaysInside
<1>19. QED  BY <1>16, <1>18

\* A call that ends adds what it made to what its caller did, or the line.
LEMMA LastFrameEnds ==
  ASSUME TextInv, CallsInv, LeftInv, EndFrame, Undisturbed', Callers = <<>>
  PROVE  LineLeft' /\ FramesLeft'
<1>1. /\ stack # <<>> /\ stack' = <<>> /\ out' = out \o Top.out
      /\ UNCHANGED <<macros, line, s, inComment, call, body, status>>
  BY DEF EndFrame
<1>2. PICK F : stack \in Seq(F)  BY DEF CallsInv
<1>3. Len(stack) \in Nat \ {0} /\ DOMAIN stack = 1 .. Len(stack)  BY <1>1, <1>2, TopIsAFrame
<1>4. Len(stack) = 1
  <2>1. Len(Callers) = Len(stack) - 1  BY <1>2, <1>3, CallersAreBelow
  <2>2. Len(Callers) = 0  OBVIOUS
  <2> DEFINE l == Len(stack)
  <2>3. l \in Nat \ {0} /\ 0 = l - 1
    <3>1. l \in Nat \ {0}  BY <1>3
    <3>2. Len(Callers) = l - 1  BY <2>1
    <3> HIDE DEF l
    <3>3. QED  BY <2>2, <3>1, <3>2
  <2> HIDE DEF l
  <2>4. l = 1  BY <2>3
  <2>5. QED  BY <2>4 DEF l
<1>5. status = "text" /\ Top.out \in Seq(Ch) /\ out \in Seq(Ch)
  BY <1>1, TopIsText DEF FrameIsText, TextInv, LineInv
<1>6. Spoiled => Spoiled'
  <2>1. SUFFICES ASSUME Spoiled PROVE Spoiled'  OBVIOUS
  <2>2. HasMark(out) \/ HasMark(Top.out)
    <3>1. \A j \in DOMAIN stack : j = Len(stack)  BY <1>3, <1>4
    <3>2. QED  BY <2>1, <3>1 DEF Spoiled, Top
  <2>3. HasMark(out')  BY <1>1, <1>5, <2>2, MarksStay
  <2>4. QED  BY <2>3 DEF Spoiled
<1>7. LineLeft /\ FrameLeft(macros, Top, Len(stack) + Extra, TRUE)
  BY <1>1, <1>6, LeftOfCalls
<1>8. CleanIn(macros, out) /\ ~Ends(out) /\ At(line, s) \notin IdentChar /\ CleanIn(macros, Top.out)
  BY <1>1, <1>7 DEF LineLeft, FrameLeft
<1> DEFINE u == Top.out
<1>9. CleanIn(macros, out \o u)
  <2>1. u \in Seq(Ch) /\ CleanIn(macros, u)  BY <1>5, <1>8
  <2> HIDE DEF u
  <2>2. QED  BY <1>5, <1>8, <2>1, CleanJoins DEF Apart
<1>10. FramesLeft'  BY <1>1, NoFramesNext
<1>11. LineLeft'  BY <1>1, <1>5, <1>8, <1>9 DEF LineLeft, Apart
<1>12. QED  BY <1>10, <1>11

LEMMA InnerFrameEnds ==
  ASSUME TextInv, CallsInv, LeftInv, EndFrame, Undisturbed', Callers # <<>>
  PROVE  LineLeft' /\ FramesLeft'
<1> DEFINE l == Len(stack)
           m == l - 1
           c == stack[m]
           u == c.out \o Top.out
           f == [c EXCEPT !.out = u]
           q == [Callers EXCEPT ![m] = f]
<1>1. stack # <<>> /\ UNCHANGED <<macros, line, s, inComment, out, call, body, status>>
  BY DEF EndFrame
<1>2. PICK F : stack \in Seq(F)  BY DEF CallsInv
<1>3. l \in Nat \ {0} /\ DOMAIN stack = 1 .. l  BY <1>1, <1>2, TopIsAFrame
<1>4. /\ Callers \in Seq(F) /\ Len(Callers) = m
      /\ \A i \in 1 .. m : Callers[i] = stack[i]
  BY <1>2, <1>3, CallersAreBelow
<1>5. m \in Nat \ {0} /\ m \in 1 .. m /\ m \in DOMAIN stack
  <2>1. m # 0  BY <1>4
  <2> HIDE DEF l
  <2>2. l \in Nat \ {0} /\ m = l - 1  BY <1>3
  <2>3. QED  BY <1>3, <2>1, <2>2
<1>6. Callers[m] = c  BY <1>4, <1>5
<1>7. stack' = q
  <2>1. stack' = [Callers EXCEPT ![Len(Callers)].out = @ \o Top.out]  BY DEF EndFrame
  <2>2. QED  BY <1>4, <1>6, <2>1
<1>8. FrameIsText(c) /\ IsFrame(c) /\ Top.out \in Seq(Ch) /\ status = "text"
  <2>1. FrameIsText(c) /\ IsFrame(c)  BY <1>5 DEF TextInv, FramesInv, CallsInv
  <2>2. QED  BY <1>1, <2>1, TopIsText DEF FrameIsText
<1>9. c.out \in Seq(Ch) /\ u \in Seq(Ch)  BY <1>8 DEF FrameIsText
<1> HIDE DEF m, c, u
<1>10. f.text = c.text /\ f.p = c.p /\ f.out = u
  <2>1. f \in [text : {c.text}, p : {c.p}, out : {u}, depth : {c.depth}]  BY <1>8 DEF IsFrame
  <2> HIDE DEF f
  <2>2. QED  BY <2>1
<1> HIDE DEF f
<1>11. /\ q \in Seq(F \cup {f}) /\ Len(q) = m /\ q[m] = f
       /\ \A i \in 1 .. m - 1 : q[i] = stack[i]
  <2>1. Callers \in Seq(F \cup {f})  BY <1>4
  <2>2. q \in Seq(F \cup {f}) /\ Len(q) = m  BY <1>4, <1>5, <2>1
  <2>3. DOMAIN Callers = 1 .. m  BY <1>4
  <2>4. q[m] = f  BY <1>5, <2>3
  <2>5. \A i \in 1 .. m - 1 : i # m /\ i \in 1 .. m  BY <1>5
  <2>6. \A i \in 1 .. m - 1 : q[i] = stack[i]  BY <1>4, <2>3, <2>5
  <2>7. QED  BY <2>2, <2>4, <2>6
<1> HIDE DEF q
<1>12. \A j \in 1 .. l : j = l \/ j = m \/ j \in 1 .. m - 1
  <2> HIDE DEF l
  <2>1. l \in Nat \ {0} /\ m = l - 1  BY <1>3 DEF m
  <2>2. QED  BY <2>1
<1>13. DOMAIN stack' = 1 .. m  BY <1>7, <1>11
<1>14. Spoiled => Spoiled'
  <2>1. ASSUME NEW j \in 1 .. l, HasMark(stack[j].out)
        PROVE  \E k : k \in DOMAIN stack' /\ HasMark(stack'[k].out)
    <3>1. m \in DOMAIN stack' /\ stack'[m].out = u  BY <1>5, <1>7, <1>10, <1>11, <1>13
    <3>2. CASE j = l
      <4>1. HasMark(Top.out)  BY <2>1, <3>2 DEF Top
      <4>2. HasMark(u)  BY <1>8, <1>9, <4>1, MarksStay DEF u
      <4>3. QED  BY <3>1, <4>2
    <3>3. CASE j = m
      <4>1. HasMark(c.out)  BY <2>1, <3>3 DEF c
      <4>2. HasMark(u)  BY <1>8, <1>9, <4>1, MarksStay DEF u
      <4>3. QED  BY <3>1, <4>2
    <3>4. CASE j \in 1 .. m - 1
      <4>1. j \in DOMAIN stack'
        <5>1. j \in 1 .. m  BY <1>5, <3>4
        <5>2. QED  BY <1>13, <5>1
      <4>2. stack'[j] = stack[j]  BY <1>7, <1>11, <3>4
      <4>3. QED  BY <2>1, <4>1, <4>2
    <3>5. QED  BY <1>12, <3>2, <3>3, <3>4
  <2>2. QED  BY <1>1, <1>3, <2>1, StillSpoiled
<1>15. /\ LineLeft /\ FrameLeft(macros, Top, l + Extra, TRUE)
       /\ \A i \in 1 .. m : FrameLeft(macros, stack[i], i + Extra, FALSE)
  BY <1>1, <1>14, LeftOfCalls DEF m
<1>16. FrameLeft(macros, f, m + Extra, TRUE)
  <2>1. FrameLeft(macros, c, m + Extra, FALSE)  BY <1>5, <1>15 DEF c
  <2>2. CleanIn(macros, c.out) /\ ~Ends(c.out) /\ At(c.text, c.p) \notin IdentChar
    BY <2>1 DEF FrameLeft
  <2>3. CleanIn(macros, Top.out)  BY <1>15 DEF FrameLeft
  <2>4. CleanIn(macros, u)
    <3> DEFINE a == c.out
               b == Top.out
    <3>1. a \in Seq(Ch) /\ b \in Seq(Ch) /\ CleanIn(macros, a) /\ CleanIn(macros, b) /\ ~Ends(a)
          /\ u = a \o b
      BY <1>8, <1>9, <2>2, <2>3 DEF u
    <3> HIDE DEF a, b
    <3>2. QED  BY <3>1, CleanJoins DEF Apart
  <2>5. QED  BY <1>10, <2>1, <2>2, <2>4 DEF FrameLeft, Apart
<1>17. \A i \in 1 .. Len(q) : FrameLeft(macros, q[i], i + Extra, i = Len(q))
  <2>1. TAKE i \in 1 .. Len(q)
  <2>2. i = m \/ (i \in 1 .. m - 1 /\ i # m /\ i \in 1 .. m)  BY <1>5, <1>11
  <2>3. CASE i = m
    <3>1. q[i] = f /\ (i = Len(q)) = TRUE  BY <1>11, <2>3
    <3>2. QED  BY <1>16, <2>3, <3>1
  <2>4. CASE i \in 1 .. m - 1 /\ i # m /\ i \in 1 .. m
    <3>1. i # Len(q)  BY <1>11, <2>4
    <3>2. (i = Len(q)) = FALSE  BY <3>1, Zenon
    <3>3. q[i] = stack[i]  BY <1>11, <2>4
    <3>4. QED  BY <1>15, <2>4, <3>2, <3>3
  <2>5. QED  BY <2>2, <2>3, <2>4
<1>18. FramesLeft'  BY <1>1, <1>7, <1>11, <1>17, FramesAre
<1>19. stack' # <<>>
  <2>1. Len(q) # 0  BY <1>5, <1>11
  <2>2. QED  BY <1>7, <2>1
<1>20. LineLeft'  BY <1>1, <1>8, <1>15, <1>19, StaysInside
<1>21. QED  BY <1>18, <1>20

-----------------------------------------------------------------------------
LEMMA InitLeavesNothing == Init => LeftInv
<1>1. SUFFICES ASSUME Init PROVE LineLeft /\ FramesLeft  BY DEF LeftInv
<1>2. out = <<>> /\ stack = <<>> /\ status = "text"  BY <1>1 DEF Init
<1> DEFINE none == <<>>
<1>3. NamesIn(none) = {} /\ ~Ends(none)
  <2>1. Len(none) = 0 /\ 1 .. 0 = {} /\ 1 .. (0 + 1) - 1 = {}  OBVIOUS
  <2> HIDE DEF none
  <2>2. QED  BY <2>1 DEF NamesIn, Ends, InName
<1>4. out = none  BY <1>2
<1> HIDE DEF none
<1>5. LineLeft  BY <1>2, <1>3, <1>4 DEF LineLeft, CleanIn, Apart
<1>6. QED  BY <1>2, <1>5, NoFrames

LEMMA NextLeavesNothing == TextInv /\ CallsInv /\ LeftInv /\ [Next]_vars => LeftInv'
<1>1. SUFFICES ASSUME TextInv, CallsInv, LeftInv, [Next]_vars, Undisturbed'
               PROVE  LineLeft' /\ FramesLeft'
  BY DEF LeftInv
<1>2. CASE InComment \/ OpenComment \/ LineComment \/ Quoted  BY <1>1, <1>2, MarkedSteps
<1>3. CASE OtherChar  BY <1>1, <1>3, OtherCharLeft
<1>4. CASE PlainName  BY <1>1, <1>4, PlainNameLeft
<1>5. CASE LineName  BY <1>1, <1>5, LineNameLeft
<1>6. CASE ObjectName  BY <1>1, <1>6, ObjectNameLeft
<1>7. CASE BeginCall  BY <1>1, <1>7, BeginCallLeft
<1>8. CASE EndLine  BY <1>1, <1>8, EndLineLeft
<1>9. CASE BeginArg  BY <1>1, <1>9, BeginArgLeft
<1>10. CASE ArgChar  BY <1>1, <1>10, ArgCharLeft
<1>11. CASE EndArg  BY <1>1, <1>11, EndArgLeft
<1>12. CASE MakesBody  BY <1>1, <1>12, MakesBodyLeft
<1>13. CASE EndBody  BY <1>1, <1>13, EndBodyLeft
<1>14. CASE FrameQuoted  BY <1>1, <1>14, FrameQuotedLeft
<1>15. CASE FrameChar  BY <1>1, <1>15, FrameCharLeft
<1>16. CASE FrameName  BY <1>1, <1>16, FrameNameLeft
<1>17. CASE FrameObject  BY <1>1, <1>17, TooDeepLeft, DeeperLeft
<1>18. CASE EndFrame  BY <1>1, <1>18, LastFrameEnds, InnerFrameEnds
<1>19. CASE UNCHANGED vars
  <2>1. UNCHANGED <<macros, line, s, inComment, out, call, stack, status>>  BY <1>19 DEF vars
  <2>2. Extra' = Extra  BY <2>1, SameTables
  <2>3. ~inComment  BY <1>1, <2>1 DEF Undisturbed
  <2>4. LineLeft /\ FramesLeft  BY <1>1, <2>1, <2>3, WasUndisturbed DEF Spoiled
  <2>5. LineLeft'  BY <2>1, <2>4 DEF LineLeft
  <2>6. FramesLeft'  BY <2>1, <2>2, <2>4 DEF FramesLeft
  <2>7. QED  BY <2>5, <2>6
<1>20. QED
  BY <1>1, <1>2, <1>3, <1>4, <1>5, <1>6, <1>7, <1>8, <1>9, <1>10, <1>11, <1>12, <1>13, <1>14,
     <1>15, <1>16, <1>17, <1>18, <1>19
  DEF Next, MakesBody

LEMMA LeftShows == TextInv /\ LeftInv => NothingIsLeft
<1>1. SUFFICES ASSUME TextInv, LeftInv, status = "done", ~inComment,
                      \A i \in 1 .. Len(out) : out[i] \notin Marks,
                      ChainsAreShort, CallsStandApart
               PROVE  \A n \in NamesIn(out) : ~IsObject(n)
  BY DEF NothingIsLeft
<1>2. stack = <<>>  BY <1>1 DEF TextInv, FramesInv
<1>3. ~Spoiled  BY <1>1, <1>2, NoFrames DEF HasMark
<1>4. CleanIn(macros, out)  BY <1>1, <1>3 DEF LeftInv, Undisturbed, LineLeft
<1>5. QED  BY <1>4 DEF CleanIn, ObjectIn, IsObject, IsMacro

(* For any macros, lines and limit: when a line is read to its end, no name *)
(* of an object macro is left in it, if no chain of macros is longer than   *)
(* the limit allows, no call is followed by a name without anything         *)
(* between, and the line has no comments or quotes.                         *)
THEOREM NothingStaysLeft == Spec => []NothingIsLeft
<1>1. Init => TextInv /\ CallsInv /\ LeftInv
  BY InitText, InitHasNoCalls, InitLeavesNothing
<1>2. TextInv /\ CallsInv /\ LeftInv /\ [Next]_vars => (TextInv /\ CallsInv /\ LeftInv)'
  BY NextText, NextKeepsCalls, NextLeavesNothing
<1>3. TextInv /\ CallsInv /\ LeftInv => NothingIsLeft  BY LeftShows
<1>4. QED  BY <1>1, <1>2, <1>3, PTL DEF Spec
=============================================================================
