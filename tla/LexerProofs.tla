----------------------------- MODULE LexerProofs -----------------------------
(***************************************************************************)
(* Proofs about Lexer for texts of any length, any keywords, any capacity  *)
(* and any greatest int.                                                   *)
(***************************************************************************)
EXTENDS Lexer, FiniteSetTheorems, SequenceTheorems, WellFoundedInduction, TLAPS

LEMMA Least ==
  ASSUME NEW T, T \subseteq Nat, T # {}
  PROVE  \E x \in T : \A y \in T : x <= y
<1> DEFINE R == OpToRel(<, Nat)
<1>1. IsWellFoundedOn(R, Nat)  BY NatLessThanWellFounded
<1>2. \A x \in Nat, y \in Nat : x < y => <<x, y>> \in R  BY DEF OpToRel
<1> HIDE DEF R
<1>3. PICK x \in T : \A y \in T : ~ (<<y, x>> \in R)  BY <1>1, WFMin
<1>4. \A y \in T : ~ (y < x)  BY <1>2, <1>3
<1>5. \A y \in T : x <= y  BY <1>4
<1>6. QED  BY <1>5

LEMMA Greatest ==
  ASSUME NEW T, T \subseteq Nat, T # {}, NEW b \in Nat, \A x \in T : x <= b
  PROVE  /\ Max(T) \in T
         /\ \A y \in T : y <= Max(T)
<1> DEFINE U == {n \in Nat : b - n \in T}
<1>1. U # {}
  <2>1. PICK x : x \in T  OBVIOUS
  <2>2. b - x \in Nat /\ b - (b - x) = x  BY <2>1
  <2>3. QED  BY <2>1, <2>2
<1>2. PICK u \in U : \A v \in U : u <= v  BY <1>1, Least
<1>3. b - u \in T  OBVIOUS
<1>4. \A y \in T : b - u >= y
  <2>1. TAKE y \in T
  <2>2. b - y \in Nat /\ b - (b - y) = y  OBVIOUS
  <2>3. b - y \in U  BY <2>2
  <2>4. QED  BY <1>2, <2>3
<1>5. QED  BY <1>3, <1>4 DEF Max

-----------------------------------------------------------------------------
(* Places in the text *)

IsText == text \in Seq(Lexemes!Char)
Place == 1 .. Len(text) + 1

LEMMA EndIsNoChar ==
  /\ "end" \notin Lexemes!Char
  /\ Space \cup WordChar \cup SingleCharOps \cup {"quote", "apostrophe", "backslash", "@"}
       = Lexemes!Char
  /\ Hex \cup Letter \subseteq WordChar
  /\ Digit \subseteq Hex /\ Octal \subseteq Digit
  /\ WordChar \cap (Space \cup SingleCharOps \cup {"quote", "apostrophe", "backslash", "@"}) = {}
  BY DEF Lexemes!Char, Space, Lexemes!Space, WordChar, Lexemes!WordChar, SingleCharOps,
         Lexemes!Mark, Hex, Lexemes!Hex, Digit, Lexemes!Digit, Octal, Lexemes!Octal,
         Letter, Lexemes!Letter

LEMMA InText ==
  ASSUME IsText, NEW i \in Place
  PROVE  /\ At(i) = "end" <=> i = Len(text) + 1
         /\ At(i) # "end" => i + 1 \in Place /\ At(i) = text[i]
  BY EndIsNoChar DEF At, IsText, Place

LEMMA PastEnds ==
  ASSUME NEW S, "end" \notin S, IsText, NEW i \in Place
  PROVE  /\ Past(S, i) \in Place /\ i <= Past(S, i)
         /\ At(Past(S, i)) \notin S
         /\ \A k \in i .. Past(S, i) - 1 : At(k) \in S
<1> DEFINE T == {j \in i .. Len(text) + 1 : At(j) \notin S}
<1>0. Len(text) \in Nat  BY DEF IsText
<1>1. T \subseteq Nat  BY <1>0 DEF Place
<1>2. Len(text) + 1 \in T  BY <1>0 DEF At, Place
<1>3. PICK j \in T : \A k \in T : j <= k  BY <1>1, <1>2, Least
<1>4. \A k \in i .. j - 1 : At(k) \in S  BY <1>0, <1>3 DEF Place
<1>5. \E m \in i .. Len(text) + 1 : At(m) \notin S /\ \A k \in i .. m - 1 : At(k) \in S
  BY <1>3, <1>4
<1>6. /\ Past(S, i) \in i .. Len(text) + 1
      /\ At(Past(S, i)) \notin S
      /\ \A k \in i .. Past(S, i) - 1 : At(k) \in S
  BY <1>5 DEF Past
<1>7. QED  BY <1>0, <1>6 DEF Place

LEMMA AtMostEnds ==
  ASSUME NEW S, "end" \notin S, IsText, NEW i \in Place, NEW n \in Nat
  PROVE  /\ AtMost(n, S, i) \in Place /\ i <= AtMost(n, S, i)
         /\ \A k \in i .. AtMost(n, S, i) - 1 : At(k) \in S
<1>1. /\ Past(S, i) \in Place /\ i <= Past(S, i)
      /\ \A k \in i .. Past(S, i) - 1 : At(k) \in S
  BY PastEnds
<1>2. Len(text) \in Nat  BY DEF IsText
<1>3. CASE Past(S, i) > i + n  BY <1>1, <1>2, <1>3 DEF AtMost, Place
<1>4. CASE ~(Past(S, i) > i + n)  BY <1>1, <1>2, <1>4 DEF AtMost, Place
<1>5. QED  BY <1>3, <1>4

LEMMA OverEnds ==
  ASSUME NEW S, "end" \notin S, IsText, NEW i \in Place
  PROVE  /\ Over(S, i) \in Place /\ Over(S, i) \in i .. i + 1
         /\ \A k \in i .. Over(S, i) - 1 : At(k) \in S
<1>1. CASE At(i) \in S  BY <1>1, InText DEF Over, Place
<1>2. CASE At(i) \notin S  BY <1>2, InText DEF Over, Place
<1>3. QED  BY <1>1, <1>2

LEMMA AfterEscapeEnds ==
  ASSUME IsText, NEW i \in Place
  PROVE  /\ AfterEscape(i) \in Place /\ i <= AfterEscape(i)
         /\ At(i) # "end" => i < AfterEscape(i)
         /\ \A k \in i + 1 .. AfterEscape(i) - 1 : At(k) \in Hex
<1>1. "end" \notin Hex /\ "end" \notin Octal /\ Octal \subseteq Hex  BY EndIsNoChar
<1>2. CASE At(i) = "x"
  <2>1. i + 1 \in Place  BY <1>2, InText
  <2> DEFINE j == AtMost(2, Hex, i + 1)
  <2>2. j \in Place /\ i + 1 <= j /\ \A k \in i + 1 .. j - 1 : At(k) \in Hex
    BY <1>1, <2>1, AtMostEnds
  <2>3. AfterEscape(i) = j  BY <1>2 DEF AfterEscape
  <2> HIDE DEF j
  <2>4. QED  BY <2>2, <2>3 DEF Place
<1>3. CASE At(i) # "x" /\ At(i) \in Octal
  <2> DEFINE j == AtMost(3, Octal, i)
  <2>1. j \in Place /\ i <= j /\ \A k \in i .. j - 1 : At(k) \in Octal
    BY <1>1, AtMostEnds
  <2>2. i + 1 \in Place /\ Past(Octal, i) \in Place /\ i <= Past(Octal, i) /\ At(Past(Octal, i)) \notin Octal
    BY <1>1, <1>3, InText, PastEnds
  <2>3. i < Past(Octal, i)  BY <1>3, <2>2 DEF Place
  <2>4. i < j  BY <2>2, <2>3 DEF AtMost, Place
  <2>5. AfterEscape(i) = j  BY <1>3 DEF AfterEscape
  <2>6. QED  BY <1>1, <2>1, <2>4, <2>5 DEF Place
<1>4. CASE At(i) # "x" /\ At(i) \notin Octal
  <2>1. AfterEscape(i) = IF At(i) = "end" THEN i ELSE i + 1  BY <1>4 DEF AfterEscape
  <2>2. QED  BY <2>1, InText DEF Place
<1>5. QED  BY <1>2, <1>3, <1>4

-----------------------------------------------------------------------------
(* What the branches read *)

LEMMA StartsInText ==
  ASSUME IsText, p \in Place, NEW s, NEW n \in 1 .. 3, Len(s) = n,
         \A k \in 1 .. n : s[k] \in SingleCharOps, Starts(s, p)
  PROVE  /\ p + n \in Place
         /\ \A k \in p .. p + n - 1 : At(k) \in SingleCharOps
<1>1. \A k \in 1 .. n : At(p + k - 1) \in SingleCharOps  BY DEF Starts
<1>2. "end" \notin SingleCharOps  BY EndIsNoChar
<1>3. p \in Nat /\ Len(text) \in Nat  BY DEF Place, IsText
<1>4. \A k \in p .. p + n - 1 : At(k) \in SingleCharOps
  <2>1. TAKE k \in p .. p + n - 1
  <2>2. k - p + 1 \in 1 .. n /\ p + (k - p + 1) - 1 = k  BY <1>3
  <2>3. QED  BY <1>1, <2>2
<1>5. At(p) # "end"  BY <1>2, <1>3, <1>4
<1>6. p + 1 \in Place  BY <1>5, InText
<1>7. n >= 2 => p + 2 \in Place
  <2>1. n >= 2 => At(p + 1) # "end"  BY <1>2, <1>3, <1>4
  <2>2. QED  BY <1>3, <1>6, <2>1, InText DEF Place
<1>8. n >= 3 => p + 3 \in Place
  <2>1. n >= 3 => At(p + 2) # "end"  BY <1>2, <1>3, <1>4
  <2>2. QED  BY <1>3, <1>7, <2>1, InText DEF Place
<1>9. QED  BY <1>4, <1>6, <1>7, <1>8

LEMMA OperatorEnds ==
  ASSUME IsText, p \in Place, OperatorLength > 0
  PROVE  /\ OperatorLength \in 1 .. 3
         /\ p + OperatorLength \in Place
         /\ \A k \in p .. p + OperatorLength - 1 : At(k) \in SingleCharOps
<1>1. CASE \E o \in ThreeCharOps : Starts(o, p)
  <2>1. PICK o \in ThreeCharOps : Starts(o, p)  BY <1>1
  <2>2. Len(o) = 3 /\ \A k \in 1 .. 3 : o[k] \in SingleCharOps
    <3>1. \E c, d, e \in SingleCharOps : o = <<c, d, e>>
      BY DEF ThreeCharOps, SingleCharOps, Lexemes!Mark
    <3>2. QED  BY <3>1
  <2>3. OperatorLength = 3  BY <1>1 DEF OperatorLength
  <2>4. QED  BY <2>1, <2>2, <2>3, StartsInText
<1>2. CASE ~(\E o \in ThreeCharOps : Starts(o, p)) /\ \E o \in TwoCharOps : Starts(o, p)
  <2>1. PICK o \in TwoCharOps : Starts(o, p)  BY <1>2
  <2>2. Len(o) = 2 /\ \A k \in 1 .. 2 : o[k] \in SingleCharOps
    <3>1. \E c, e \in SingleCharOps : o = <<c, e>>
      BY DEF TwoCharOps, SingleCharOps, Lexemes!Mark
    <3>2. QED  BY <3>1
  <2>3. OperatorLength = 2  BY <1>2 DEF OperatorLength
  <2>4. QED  BY <2>1, <2>2, <2>3, StartsInText
<1>3. CASE ~(\E o \in ThreeCharOps : Starts(o, p)) /\ ~(\E o \in TwoCharOps : Starts(o, p))
  <2>1. OperatorLength = 1 /\ At(p) \in SingleCharOps  BY <1>3 DEF OperatorLength
  <2>2. p + 1 \in Place  BY <2>1, EndIsNoChar, InText
  <2>3. QED  BY <2>1, <2>2 DEF Place
<1>4. QED  BY <1>1, <1>2, <1>3

LEMMA ExponentEnds ==
  ASSUME IsText, NEW i \in Place, At(i) # "end"
  PROVE  LET j == AfterExponent(i) IN
         /\ j \in Place /\ i < j
         /\ \A k \in i + 1 .. j - 1 : At(k) \in Digit \cup {"+", "-"}
<1> DEFINE s == Over({"+", "-"}, i + 1)
           j == Past(Digit, s)
<1>1. "end" \notin Digit  BY EndIsNoChar
<1>2. i + 1 \in Place  BY InText
<1>3. s \in Place /\ i + 1 <= s /\ \A k \in i + 1 .. s - 1 : At(k) \in {"+", "-"}
  <2>1. "end" \notin {"+", "-"}  OBVIOUS
  <2>2. s \in Place /\ s \in i + 1 .. (i + 1) + 1
        /\ \A k \in i + 1 .. s - 1 : At(k) \in {"+", "-"}
    BY <1>2, <2>1, OverEnds
  <2>3. QED  BY <2>2
<1> HIDE DEF s
<1>4. j \in Place /\ s <= j /\ \A k \in s .. j - 1 : At(k) \in Digit  BY <1>1, <1>3, PastEnds
<1>5. j = AfterExponent(i)  BY DEF AfterExponent, s
<1> HIDE DEF j
<1>6. j \in Place /\ i < j  BY <1>3, <1>4 DEF Place
<1>7. \A k \in i + 1 .. j - 1 : At(k) \in Digit \cup {"+", "-"}
  <2>1. TAKE k \in i + 1 .. j - 1
  <2>2. CASE k < s  BY <1>3, <2>2 DEF Place
  <2>3. CASE k >= s  BY <1>3, <1>4, <2>3 DEF Place
  <2>4. QED  BY <1>3, <2>2, <2>3 DEF Place
<1>8. QED  BY <1>5, <1>6, <1>7

\* Characters of numbers: none is a newline.
NumberChar == WordChar \cup {".", "+", "-"}

LEMMA HexEnds ==
  ASSUME IsText, p \in Place, AtHex
  PROVE  /\ AfterHexDigits \in Place /\ p + 2 <= AfterHexDigits
         /\ AfterHexPoint \in Place /\ AfterHexDigits <= AfterHexPoint
         /\ \A k \in p .. AfterHexPoint - 1 : At(k) \in NumberChar
<1>1. At(p) = "0" /\ At(p + 1) = "x"
  <2>1. \A k \in 1 .. 2 : At(p + k - 1) = <<"0", "x">>[k]  BY DEF AtHex, Starts
  <2>2. At(p + 1 - 1) = "0" /\ At(p + 2 - 1) = "x"  BY <2>1
  <2>3. QED  BY <2>2 DEF Place
<1>2. p + 1 \in Place /\ p + 2 \in Place
  <2>1. p + 1 \in Place  BY <1>1, InText
  <2>2. (p + 1) + 1 \in Place  BY <1>1, <2>1, InText
  <2>3. QED  BY <2>1, <2>2 DEF Place
<1> DEFINE d == Past(Hex, p + 2)
<1>3. /\ d \in Place /\ p + 2 <= d
      /\ \A k \in p + 2 .. d - 1 : At(k) \in Hex
  BY <1>2, EndIsNoChar, PastEnds
<1>4. d = AfterHexDigits  BY DEF AfterHexDigits
<1> HIDE DEF d
<1> DEFINE e == Past(Hex, d + 1)
<1>5. CASE At(d) = "."
  <2>1. d + 1 \in Place  BY <1>3, <1>5, InText
  <2>2. e \in Place /\ d + 1 <= e /\ \A k \in d + 1 .. e - 1 : At(k) \in Hex
    BY <2>1, EndIsNoChar, PastEnds
  <2>3. AfterHexPoint = e  BY <1>4, <1>5 DEF AfterHexPoint
  <2> HIDE DEF e
  <2>4. d <= e  BY <1>3, <2>2 DEF Place
  <2>5. \A k \in p .. e - 1 : At(k) \in NumberChar
    <3>1. TAKE k \in p .. e - 1
    <3>2. k = p \/ k = p + 1 \/ k \in p + 2 .. d - 1 \/ k = d \/ k \in d + 1 .. e - 1
      BY <1>3, <2>2 DEF Place
    <3>3. QED  BY <1>1, <1>3, <1>5, <2>2, <3>2 DEF NumberChar, Hex, Lexemes!Hex, Digit, Lexemes!Digit, Octal, Lexemes!Octal, WordChar, Lexemes!WordChar, Lexemes!Letter
  <2>6. QED  BY <1>3, <1>4, <2>2, <2>3, <2>4, <2>5
<1>6. CASE At(d) # "."
  <2>1. AfterHexPoint = d  BY <1>4, <1>6 DEF AfterHexPoint
  <2>2. \A k \in p .. d - 1 : At(k) \in NumberChar
    <3>1. TAKE k \in p .. d - 1
    <3>2. k = p \/ k = p + 1 \/ k \in p + 2 .. d - 1  BY <1>3 DEF Place
    <3>3. QED  BY <1>1, <1>3, <3>2 DEF NumberChar, Hex, Lexemes!Hex, Digit, Lexemes!Digit, Octal, Lexemes!Octal, WordChar, Lexemes!WordChar, Lexemes!Letter
  <2>3. QED  BY <1>3, <1>4, <2>1, <2>2 DEF Place
<1>7. QED  BY <1>5, <1>6

LEMMA DigitsEnd ==
  ASSUME IsText, p \in Place, StartsNumber
  PROVE  /\ AfterDigits \in Place /\ p < AfterDigits
         /\ \A k \in p .. AfterDigits - 1 : At(k) \in Digit \cup {"."}
<1> DEFINE d == Past(Digit, p)
           e == Past(Digit, d + 1)
<1>1. "end" \notin Digit  BY EndIsNoChar
<1>2. d \in Place /\ p <= d /\ At(d) \notin Digit /\ \A k \in p .. d - 1 : At(k) \in Digit
  BY <1>1, PastEnds
<1>3. AfterDigits = IF At(d) = "." THEN e ELSE d  BY DEF AfterDigits
<1> HIDE DEF d
<1>4. CASE At(d) = "."
  <2>1. d + 1 \in Place  BY <1>2, <1>4, InText
  <2>2. e \in Place /\ d + 1 <= e /\ \A k \in d + 1 .. e - 1 : At(k) \in Digit
    BY <1>1, <2>1, PastEnds
  <2> HIDE DEF e
  <2>3. p < e  BY <1>2, <2>2 DEF Place
  <2>4. \A k \in p .. e - 1 : k \in p .. d - 1 \/ k = d \/ k \in d + 1 .. e - 1
    BY <1>2, <2>2 DEF Place
  <2>5. QED  BY <1>2, <1>3, <1>4, <2>2, <2>3, <2>4
<1>5. CASE At(d) # "."
  <2>1. At(p) \in Digit \/ At(p) = "."  BY DEF StartsNumber
  <2>2. d # p  BY <1>2, <1>5, <2>1
  <2>3. QED  BY <1>2, <1>3, <1>5, <2>2 DEF Place
<1>6. QED  BY <1>4, <1>5

LEMMA NumberEnds ==
  ASSUME IsText, p \in Place, StartsNumber
  PROVE  /\ AfterFloat \in Place /\ AfterDigits <= AfterFloat
         /\ \A k \in p .. AfterFloat - 1 : At(k) \in NumberChar
<1> DEFINE d == AfterDigits
           x == AfterExponent(d)
           e == IF At(d) = "e" THEN x ELSE d
           f == Over({"f"}, e)
<1>1. d \in Place /\ p < d /\ \A k \in p .. d - 1 : At(k) \in Digit \cup {"."}
  BY DigitsEnd
<1>2. f = AfterFloat  BY DEF AfterFloat
<1>3. At(d) = "e" => /\ x \in Place /\ d < x
                     /\ \A k \in d + 1 .. x - 1 : At(k) \in Digit \cup {"+", "-"}
  BY <1>1, ExponentEnds
<1>4. e = IF At(d) = "e" THEN x ELSE d  OBVIOUS
<1> HIDE DEF d, x, e
<1>5. e \in Place /\ d <= e  BY <1>1, <1>3, <1>4 DEF Place
<1>6. /\ f \in Place /\ f \in e .. e + 1
      /\ \A k \in e .. f - 1 : At(k) \in {"f"}
  <2>1. "end" \notin {"f"}  OBVIOUS
  <2>2. QED  BY <1>5, <2>1, OverEnds
<1> HIDE DEF f
<1>7. \A k \in p .. f - 1 : At(k) \in NumberChar
  <2>1. TAKE k \in p .. f - 1
  <2>2. \/ k \in p .. d - 1 \/ (At(d) = "e" /\ k = d)
        \/ (At(d) = "e" /\ k \in d + 1 .. x - 1) \/ k \in e .. f - 1
    BY <1>1, <1>3, <1>4, <1>5, <1>6 DEF Place
  <2>3. At(k) \in Digit \cup {".", "+", "-", "e", "f"}
    BY <1>1, <1>3, <1>6, <2>2
  <2>4. QED  BY <2>3 DEF NumberChar, WordChar, Lexemes!WordChar, Lexemes!Letter, Digit
<1>8. QED  BY <1>1, <1>2, <1>5, <1>6, <1>7 DEF d, Place

LEMMA CharLiteralEnds ==
  ASSUME IsText, p \in Place, At(p) = "apostrophe", IsCharLiteral
  PROVE  AfterChar \in Place /\ AfterChar + 1 \in Place /\ p < AfterChar
<1>1. p + 1 \in Place  BY InText
<1>2. (p + 1) + 1 \in Place  BY <1>1, InText DEF IsCharLiteral
<1>3. p + 2 \in Place  BY <1>2 DEF Place
<1>4. AfterEscape(p + 2) \in Place /\ p + 2 <= AfterEscape(p + 2)  BY <1>3, AfterEscapeEnds
<1>5. AfterChar \in Place /\ p < AfterChar  BY <1>3, <1>4 DEF AfterChar, Place
<1>6. At(AfterChar) # "end"  BY DEF IsCharLiteral
<1>7. QED  BY <1>5, <1>6, InText

-----------------------------------------------------------------------------
(* A step that adds a token adds one that begins at p and is somewhere on   *)
(* one line, if it is no literal of a character.                            *)
PlainToken(t) ==
  /\ t.kind \in {"RESERVED", "IDENT", "NUM"}
  /\ t.from = p
  /\ t.to \in Place /\ p < t.to
  /\ t.line = line /\ t.col = p - lineStart + 1
  /\ t.ownsStr = FALSE
  /\ At(p) # "apostrophe" => \A k \in p .. t.to - 1 : At(k) # "newline"

AddsToken == Word \/ Operator \/ CharLiteral \/ HexFloat \/ HexInteger \/ Number

LEMMA TokenIsPlain ==
  ASSUME IsText, p \in Place, NEW kind \in {"RESERVED", "IDENT", "NUM"},
         NEW to \in Place, p < to,
         At(p) # "apostrophe" => \A k \in p .. to - 1 : At(k) # "newline",
         NEW val, NEW uval, NEW isFloat
  PROVE  /\ PlainToken(Token(kind, p, to))
         /\ PlainToken([Token(kind, p, to) EXCEPT !.val = val, !.uval = uval])
         /\ PlainToken([Token(kind, p, to) EXCEPT !.uval = uval, !.val = val])
         /\ PlainToken([Token(kind, p, to) EXCEPT !.isFloat = isFloat])
  BY DEF PlainToken, Token

LEMMA NumbersHaveNoNewline == "newline" \notin NumberChar \cup SingleCharOps
  BY DEF NumberChar, WordChar, Lexemes!WordChar, Lexemes!Letter, Lexemes!Digit, Lexemes!Octal,
         SingleCharOps, Lexemes!Mark

LEMMA TokensArePlain ==
  ASSUME IsText, p \in Place, AddsToken
  PROVE  Lexing /\ \E t : PlainToken(t) /\ Add(t)
<1>1. CASE Word
  <2> DEFINE to == Past(WordChar, p)
             kind == IF Piece(p, to) \in Keywords THEN "RESERVED" ELSE "IDENT"
  <2>1. Lexing /\ At(p) \in WordChar  BY <1>1, EndIsNoChar DEF Word
  <2>2. to \in Place /\ p <= to /\ At(to) \notin WordChar /\ \A k \in p .. to - 1 : At(k) \in WordChar
    BY EndIsNoChar, PastEnds
  <2>3. Add(Token(kind, p, to))  BY <1>1 DEF Word
  <2>4. kind \in {"RESERVED", "IDENT", "NUM"}  OBVIOUS
  <2> HIDE DEF to, kind
  <2>5. p < to  BY <2>1, <2>2 DEF Place
  <2>6. \A k \in p .. to - 1 : At(k) # "newline"
    BY <2>2, NumbersHaveNoNewline DEF NumberChar
  <2>7. PlainToken(Token(kind, p, to))  BY <2>2, <2>4, <2>5, <2>6, TokenIsPlain
  <2>8. QED  BY <2>1, <2>3, <2>7
<1>2. CASE Operator
  <2> DEFINE to == p + OperatorLength
  <2>1. Lexing /\ OperatorLength > 0 /\ Add(Token("RESERVED", p, to))  BY <1>2 DEF Operator
  <2>2. to \in Place /\ p < to /\ \A k \in p .. to - 1 : At(k) \in SingleCharOps
    BY <2>1, OperatorEnds DEF Place
  <2> HIDE DEF to
  <2>3. \A k \in p .. to - 1 : At(k) # "newline"  BY <2>2, NumbersHaveNoNewline
  <2>4. PlainToken(Token("RESERVED", p, to))  BY <2>2, <2>3, TokenIsPlain
  <2>5. QED  BY <2>1, <2>4
<1>3. CASE CharLiteral
  <2> DEFINE to == AfterChar + 1
             u == IF CharValue < 0 THEN 2 * (IntMax + 1) + CharValue ELSE CharValue
             t == [Token("NUM", p, to) EXCEPT !.val = CharValue, !.uval = u]
  <2>1. Lexing /\ At(p) = "apostrophe" /\ IsCharLiteral  BY <1>3 DEF CharLiteral
  <2>2. to \in Place /\ p < to  BY <2>1, CharLiteralEnds DEF Place
  <2>3. Add(t)  BY <1>3 DEF CharLiteral
  <2> HIDE DEF to, u
  <2>4. PlainToken(t)  BY <2>1, <2>2, TokenIsPlain
  <2> HIDE DEF t
  <2>5. QED  BY <2>1, <2>3, <2>4
<1>4. CASE HexFloat
  <2> DEFINE e == AfterHexPoint
             x == AfterExponent(e)
             to == Over({"l", "f"}, x)
  <2>1. Lexing /\ AtHex /\ At(e) = "p" /\ Add(Float(to))  BY <1>4 DEF HexFloat
  <2>2. e \in Place /\ p + 2 <= e /\ \A k \in p .. e - 1 : At(k) \in NumberChar
    BY <2>1, HexEnds DEF Place
  <2>3. x \in Place /\ e < x /\ \A k \in e + 1 .. x - 1 : At(k) \in Digit \cup {"+", "-"}
    BY <2>1, <2>2, ExponentEnds
  <2>4. to \in Place /\ to \in x .. x + 1 /\ \A k \in x .. to - 1 : At(k) \in {"l", "f"}
    <3>1. "end" \notin {"l", "f"}  OBVIOUS
    <3>2. QED  BY <2>3, <3>1, OverEnds
  <2> HIDE DEF e, x, to
  <2>5. \A k \in p .. to - 1 : At(k) # "newline"
    <3>1. TAKE k \in p .. to - 1
    <3>2. k \in p .. e - 1 \/ k = e \/ k \in e + 1 .. x - 1 \/ k \in x .. to - 1
      BY <2>2, <2>3, <2>4 DEF Place
    <3>3. At(k) \in NumberChar \cup Digit \cup {"p", "+", "-", "l", "f"}
      BY <2>1, <2>2, <2>3, <2>4, <3>2
    <3>4. "newline" \notin NumberChar \cup Digit \cup {"p", "+", "-", "l", "f"}
      BY NumbersHaveNoNewline DEF NumberChar, WordChar, Lexemes!WordChar, Digit
    <3>5. QED  BY <3>3, <3>4
  <2>6. p < to  BY <2>2, <2>3, <2>4 DEF Place
  <2>7. PlainToken(Float(to))  BY <2>4, <2>5, <2>6, TokenIsPlain DEF Float
  <2>8. QED  BY <2>1, <2>7
<1>5. CASE HexInteger
  <2> DEFINE e == AfterHexDigits
             to == Past({"u", "l"}, e)
             v == NumberOf(16, p + 2, AfterHexDigits)
  <2>1. Lexing /\ AtHex /\ Add(Integer(to, v))  BY <1>5 DEF HexInteger
  <2>2. e \in Place /\ p + 2 <= e /\ \A k \in p .. e - 1 : At(k) \in NumberChar
    BY <2>1, HexEnds DEF Place
  <2>3. to \in Place /\ e <= to /\ \A k \in e .. to - 1 : At(k) \in {"u", "l"}
    <3>1. "end" \notin {"u", "l"}  OBVIOUS
    <3>2. QED  BY <2>2, <3>1, PastEnds
  <2> HIDE DEF e, to, v
  <2>4. \A k \in p .. to - 1 : At(k) # "newline"
    <3>1. TAKE k \in p .. to - 1
    <3>2. k \in p .. e - 1 \/ k \in e .. to - 1  BY <2>2, <2>3 DEF Place
    <3>3. QED  BY <2>2, <2>3, <3>2, NumbersHaveNoNewline
  <2>5. p < to  BY <2>2, <2>3 DEF Place
  <2>6. PlainToken(Integer(to, v))  BY <2>3, <2>4, <2>5, TokenIsPlain DEF Integer
  <2>7. QED  BY <2>1, <2>6
<1>6. CASE Number
  <2>1. Lexing /\ StartsNumber  BY <1>6 DEF Number
  <2> DEFINE e == AfterDigits
             f == AfterFloat
             o == Over({"u"}, e)
             to == Past({"l"}, o)
             v == NumberOf(10, p, AfterDigits)
  <2>2. e \in Place /\ p < e /\ \A k \in p .. e - 1 : At(k) \in Digit \cup {"."}
    BY <2>1, DigitsEnd
  <2>3. f \in Place /\ e <= f /\ \A k \in p .. f - 1 : At(k) \in NumberChar
    BY <2>1, NumberEnds
  <2>4. o \in Place /\ o \in e .. e + 1 /\ \A k \in e .. o - 1 : At(k) \in {"u"}
    <3>1. "end" \notin {"u"}  OBVIOUS
    <3>2. QED  BY <2>2, <3>1, OverEnds
  <2> HIDE DEF o
  <2>5. to \in Place /\ o <= to /\ \A k \in o .. to - 1 : At(k) \in {"l"}
    <3>1. "end" \notin {"l"}  OBVIOUS
    <3>2. QED  BY <2>4, <3>1, PastEnds
  <2>6. Add(Float(f)) \/ Add(Integer(to, v))  BY <1>6 DEF Number, o
  <2> HIDE DEF e, f, to, v
  <2>7. CASE Add(Float(f))
    <3>1. p < f /\ \A k \in p .. f - 1 : At(k) # "newline"
      BY <2>2, <2>3, NumbersHaveNoNewline DEF Place
    <3>2. PlainToken(Float(f))  BY <2>3, <3>1, TokenIsPlain DEF Float
    <3>3. QED  BY <2>1, <2>7, <3>2
  <2>8. CASE Add(Integer(to, v))
    <3>1. p < to  BY <2>2, <2>4, <2>5 DEF Place
    <3>2. \A k \in p .. to - 1 : At(k) # "newline"
      <4>1. TAKE k \in p .. to - 1
      <4>2. k \in p .. e - 1 \/ k \in e .. o - 1 \/ k \in o .. to - 1
        BY <2>2, <2>4, <2>5 DEF Place
      <4>3. At(k) \in Digit \cup {".", "u", "l"}  BY <2>2, <2>4, <2>5, <4>2
      <4>4. QED  BY <4>3, NumbersHaveNoNewline DEF NumberChar, WordChar, Lexemes!WordChar, Digit
    <3>3. PlainToken(Integer(to, v))  BY <2>5, <3>1, <3>2, TokenIsPlain DEF Integer
    <3>4. QED  BY <2>1, <2>8, <3>3
  <2>9. QED  BY <2>6, <2>7, <2>8
<1>7. QED  BY <1>1, <1>2, <1>3, <1>4, <1>5, <1>6 DEF AddsToken

-----------------------------------------------------------------------------
(* The list and the reader *)

Reads == status \in {"lexing", "string"}

\* What is on the list, whatever else a token has.
ListInv ==
  /\ \E F : tokens \in Seq(F)
  /\ \A i \in DOMAIN tokens :
       LET t == tokens[i] IN
         /\ t.kind \in {"RESERVED", "IDENT", "NUM", "STR", "EOF"}
         /\ t.from \in Place /\ t.to \in Place /\ t.from <= t.to
         /\ t.kind = "EOF" => i = Len(tokens) /\ ~Reads
         /\ t.ownsStr <=> t.kind = "STR"

ReaderInv ==
  /\ IsText
  /\ p \in Place
  /\ line \in 1 .. p
  /\ lineStart \in 1 .. p
  /\ status = "string" =>
       /\ literal.from \in 1 .. p - 1
       /\ literal = [from |-> literal.from, line |-> literal.line, col |-> literal.col,
                     len |-> literal.len, cap |-> literal.cap]
       /\ literal.len \in Nat /\ literal.cap \in Nat
       /\ literal.len < literal.cap
  /\ status \in {"lexing", "string", "parsing", "refused", "exit", "memory", "done"}
  /\ status = "lexing" => literal = None

ParserInv ==
  status = "parsing" =>
    /\ current \in 1 .. Len(tokens)
    /\ tokens[Len(tokens)].kind = "EOF"

LexInv == ReaderInv /\ ListInv /\ ParserInv

LEMMA AppendKeeps ==
  ASSUME \E F : tokens \in Seq(F), NEW t, tokens' = Append(tokens, t)
  PROVE  /\ \E F : tokens' \in Seq(F)
         /\ Len(tokens') = Len(tokens) + 1 /\ Len(tokens) \in Nat
         /\ DOMAIN tokens' = 1 .. Len(tokens) + 1
         /\ DOMAIN tokens = 1 .. Len(tokens)
         /\ \A i \in 1 .. Len(tokens) : tokens'[i] = tokens[i]
         /\ tokens'[Len(tokens) + 1] = t
<1>1. PICK F : tokens \in Seq(F)  OBVIOUS
<1>2. tokens \in Seq(F \cup {t})  BY <1>1
<1>3. tokens' \in Seq(F \cup {t})  BY <1>2
<1>4. QED  BY <1>2, <1>3

\* The list may get one more token where none is the end.
LEMMA ListGrows ==
  ASSUME ListInv, Reads, text' = text, NEW t, tokens' = Append(tokens, t),
         t.kind \in {"RESERVED", "IDENT", "NUM", "STR", "EOF"},
         t.from \in Place, t.to \in Place, t.from <= t.to,
         t.kind = "EOF" => ~Reads',
         t.ownsStr <=> t.kind = "STR"
  PROVE  ListInv'
<1>1. /\ \E F : tokens' \in Seq(F)
      /\ Len(tokens') = Len(tokens) + 1 /\ Len(tokens) \in Nat
      /\ DOMAIN tokens' = 1 .. Len(tokens) + 1
      /\ DOMAIN tokens = 1 .. Len(tokens)
      /\ \A i \in 1 .. Len(tokens) : tokens'[i] = tokens[i]
      /\ tokens'[Len(tokens) + 1] = t
  BY AppendKeeps DEF ListInv
<1>2. Place' = Place  BY DEF Place
<1>3. ASSUME NEW i \in DOMAIN tokens'
      PROVE  LET u == tokens'[i] IN
         /\ u.kind \in {"RESERVED", "IDENT", "NUM", "STR", "EOF"}
         /\ u.from \in Place /\ u.to \in Place /\ u.from <= u.to
         /\ u.kind = "EOF" => i = Len(tokens') /\ ~Reads'
         /\ u.ownsStr <=> u.kind = "STR"
  <2>1. CASE i = Len(tokens) + 1  BY <1>1, <2>1
  <2>2. CASE i \in 1 .. Len(tokens)
    <3>1. tokens'[i] = tokens[i] /\ i \in DOMAIN tokens  BY <1>1, <2>2
    <3>2. QED  BY <3>1 DEF ListInv
  <2>3. QED  BY <1>1, <2>1, <2>2
<1>4. QED  BY <1>1, <1>2, <1>3 DEF ListInv

LEMMA ListStays ==
  ASSUME ListInv, text' = text, tokens' = tokens, Reads' => Reads
  PROVE  ListInv'
  BY DEF ListInv, Place, Reads

LEMMA NoList ==
  ASSUME tokens' = <<>>
  PROVE  ListInv'
<1>1. tokens' \in Seq({}) /\ DOMAIN tokens' = {}  OBVIOUS
<1>2. QED  BY <1>1 DEF ListInv

LEMMA InitLex == Init => LexInv
<1>1. SUFFICES ASSUME Init PROVE LexInv  OBVIOUS
<1>2. IsText  BY <1>1, TextsAssumption DEF Init, IsText
<1>3. Len(text) \in Nat  BY <1>2 DEF IsText
<1>4. ReaderInv  BY <1>1, <1>2, <1>3 DEF Init, ReaderInv, Place
<1>5. ListInv
  <2>1. tokens \in Seq({}) /\ DOMAIN tokens = {}  BY <1>1 DEF Init
  <2>2. QED  BY <2>1 DEF ListInv
<1>6. ParserInv  BY <1>1 DEF Init, ParserInv
<1>7. QED  BY <1>4, <1>5, <1>6 DEF LexInv

LEMMA AddHolds ==
  ASSUME LexInv, Lexing, NEW t, PlainToken(t), Add(t)
  PROVE  LexInv'
<1>1. Reads /\ Reads' /\ text' = text  BY DEF Lexing, Reads, Add
<1>2. ListInv'  BY <1>1, ListGrows DEF Add, PlainToken, LexInv, ReaderInv, Place
<1>3. ReaderInv'
  <2>1. /\ p' \in Place /\ p < p' /\ Place' = Place /\ IsText'
        /\ line' = line /\ lineStart' = lineStart /\ status' = "lexing" /\ literal' = literal
    BY DEF Add, PlainToken, Lexing, Place, LexInv, ReaderInv, IsText
  <2>2. line \in 1 .. p' /\ lineStart \in 1 .. p'  BY <2>1 DEF LexInv, ReaderInv, Place
  <2>3. literal = None  BY DEF LexInv, ReaderInv, Lexing
  <2>4. QED  BY <2>1, <2>2, <2>3 DEF ReaderInv
<1>4. ParserInv'  BY DEF ParserInv, Add, Lexing
<1>5. QED  BY <1>2, <1>3, <1>4 DEF LexInv

LEMMA BlankHolds ==
  ASSUME LexInv, Blank
  PROVE  LexInv'
<1>1. At(p) # "end"  BY EndIsNoChar DEF Blank
<1>2. p + 1 \in Place  BY <1>1, InText DEF LexInv, ReaderInv
<1>3. ListInv'  BY ListStays DEF LexInv, Blank, Reads
<1>4. ReaderInv'  BY <1>2 DEF LexInv, ReaderInv, Blank, Place, IsText, Lexing
<1>5. ParserInv'  BY DEF ParserInv, Blank, Lexing
<1>6. QED  BY <1>3, <1>4, <1>5 DEF LexInv

LEMMA LineCommentEnds ==
  ASSUME IsText, p \in Place, AtLineComment
  PROVE  LET to == Past(Lexemes!Char \ {"newline"}, p + 2) IN
         /\ to \in Place /\ p + 2 <= to
         /\ \A k \in p .. to - 1 : At(k) # "newline"
         /\ At(to) \in {"newline", "end"}
<1> DEFINE S == Lexemes!Char \ {"newline"}
           to == Past(S, p + 2)
<1>1. At(p) = "/" /\ At(p + 1) = "/"
  <2>1. \A k \in 1 .. 2 : At(p + k - 1) = <<"/", "/">>[k]  BY DEF AtLineComment, Starts
  <2>2. At(p + 1 - 1) = "/" /\ At(p + 2 - 1) = "/"  BY <2>1
  <2>3. QED  BY <2>2 DEF Place
<1>2. p + 1 \in Place /\ (p + 1) + 1 \in Place  BY <1>1, InText
<1>3. p + 2 \in Place  BY <1>2 DEF Place
<1>4. "end" \notin S  BY EndIsNoChar
<1>5. to \in Place /\ p + 2 <= to /\ At(to) \notin S /\ \A k \in p + 2 .. to - 1 : At(k) \in S
  BY <1>3, <1>4, PastEnds
<1>6. At(to) \in {"newline", "end"}
  <2>1. At(to) = "end" \/ At(to) \in Lexemes!Char
    BY <1>5 DEF At, IsText, Place
  <2>2. QED  BY <1>5, <2>1
<1> HIDE DEF to
<1>7. \A k \in p .. to - 1 : At(k) # "newline"
  <2>1. TAKE k \in p .. to - 1
  <2>2. k = p \/ k = p + 1 \/ k \in p + 2 .. to - 1  BY <1>5 DEF Place
  <2>3. QED  BY <1>1, <1>5, <2>2
<1>8. QED  BY <1>5, <1>6, <1>7 DEF to

LEMMA LineCommentHolds ==
  ASSUME LexInv, LineComment
  PROVE  LexInv'
<1> DEFINE to == Past(Lexemes!Char \ {"newline"}, p + 2)
<1>1. to \in Place /\ p + 2 <= to  BY LineCommentEnds DEF LexInv, ReaderInv, LineComment
<1>2. p' = to  BY DEF LineComment
<1> HIDE DEF to
<1>3. ListInv'  BY ListStays DEF LexInv, LineComment, Reads
<1>4. ReaderInv'
  <2>1. p' \in Place /\ p <= p'  BY <1>1, <1>2 DEF LexInv, ReaderInv, Place
  <2>2. QED  BY <2>1 DEF LexInv, ReaderInv, LineComment, Place, IsText, Lexing
<1>5. ParserInv'  BY DEF ParserInv, LineComment, Lexing
<1>6. QED  BY <1>3, <1>4, <1>5 DEF LexInv

\* The newlines in the places from i up to j.
Newlines(i, j) == {k \in i .. j - 1 : At(k) = "newline"}

LEMMA NewlinesAreFinite ==
  ASSUME NEW i \in Nat, NEW j \in Nat, i <= j
  PROVE  /\ IsFiniteSet(Newlines(i, j))
         /\ Cardinality(Newlines(i, j)) \in 0 .. j - i
         /\ Newlines(i, j) # {} => /\ Max(Newlines(i, j)) \in Newlines(i, j)
                                   /\ \A k \in Newlines(i, j) : k <= Max(Newlines(i, j))
<1> DEFINE N == Newlines(i, j)
<1>1. N \subseteq i .. j - 1  BY DEF Newlines
<1>2. IsFiniteSet(i .. j - 1) /\ Cardinality(i .. j - 1) = j - i
  <2>1. i \in Int /\ j - 1 \in Int  OBVIOUS
  <2>2. /\ IsFiniteSet(i .. j - 1)
        /\ Cardinality(i .. j - 1) = IF i > j - 1 THEN 0 ELSE (j - 1) - i + 1
    BY <2>1, FS_Interval
  <2>3. CASE i > j - 1  BY <2>2, <2>3
  <2>4. CASE ~(i > j - 1)  BY <2>2, <2>4
  <2>5. QED  BY <2>3, <2>4
<1>3. IsFiniteSet(N) /\ Cardinality(N) <= j - i  BY <1>1, <1>2, FS_Subset
<1>4. Cardinality(N) \in Nat  BY <1>3, FS_CardinalityType
<1>5. N # {} => Max(N) \in N /\ \A k \in N : k <= Max(N)
  <2>1. N \subseteq Nat /\ \A k \in N : k <= j  BY <1>1
  <2> HIDE DEF N
  <2>2. QED  BY <2>1, Greatest
<1>6. QED  BY <1>3, <1>4, <1>5

LEMMA BlockCommentEnds ==
  ASSUME IsText, p \in Place, BlockComment
  PROVE  \E q \in Closings :
           LET N == Newlines(p, q + 2) IN
           /\ \A r \in Closings : q <= r
           /\ q + 2 \in Place /\ p + 2 <= q
           /\ p' = q + 2
           /\ line' = line + Cardinality(N)
           /\ lineStart' = IF N = {} THEN lineStart ELSE Max(N) + 1
<1>1. PICK q \in Closings :
        /\ \A r \in Closings : q <= r
        /\ LET newlines == {s \in p .. q + 1 : At(s) = "newline"} IN
             /\ line' = line + Cardinality(newlines)
             /\ lineStart' = IF newlines = {} THEN lineStart ELSE Max(newlines) + 1
        /\ p' = q + 2
  BY DEF BlockComment
<1>2. q \in p + 2 .. Len(text) - 1  BY DEF Closings
<1>3. Len(text) \in Nat /\ p \in Nat  BY DEF IsText, Place
<1>4. q + 2 \in Place /\ p + 2 <= q /\ (q + 2) - 1 = q + 1  BY <1>2, <1>3 DEF Place
<1>5. Newlines(p, q + 2) = {s \in p .. q + 1 : At(s) = "newline"}  BY <1>4 DEF Newlines
<1>6. QED  BY <1>1, <1>4, <1>5

LEMMA BlockCommentHolds ==
  ASSUME LexInv, BlockComment
  PROVE  LexInv'
<1>1. IsText /\ p \in Place  BY DEF LexInv, ReaderInv
<1>2. PICK q \in Closings :
           LET N == Newlines(p, q + 2) IN
           /\ q + 2 \in Place /\ p + 2 <= q
           /\ p' = q + 2
           /\ line' = line + Cardinality(N)
           /\ lineStart' = IF N = {} THEN lineStart ELSE Max(N) + 1
  BY <1>1, BlockCommentEnds
<1> DEFINE N == Newlines(p, q + 2)
<1>3. p \in Nat \ {0} /\ q \in Int  BY <1>1, <1>2 DEF Place, Closings
<1>4. /\ Cardinality(N) \in 0 .. q + 2 - p
      /\ N # {} => Max(N) \in N
  BY <1>2, <1>3, NewlinesAreFinite
<1>5. Max(N) \in N => Max(N) \in p .. q + 1  BY <1>3 DEF Newlines
<1>6. line' \in 1 .. p' /\ lineStart' \in 1 .. p' /\ p' \in Place
  <2> HIDE DEF N
  <2>1. line \in 1 .. p /\ lineStart \in 1 .. p  BY DEF LexInv, ReaderInv
  <2>2. line' \in 1 .. p'  BY <1>2, <1>3, <1>4, <2>1 DEF N
  <2>3. CASE N = {}  BY <1>2, <1>3, <2>1, <2>2, <2>3 DEF N
  <2>4. CASE N # {}
    <3>1. lineStart' = Max(N) + 1  BY <1>2, <2>4 DEF N
    <3>2. QED  BY <1>2, <1>3, <1>4, <1>5, <2>2, <2>4, <3>1
  <2>5. QED  BY <2>3, <2>4
<1>7. ListInv'  BY ListStays DEF LexInv, BlockComment, Reads
<1>8. ReaderInv'  BY <1>6 DEF LexInv, ReaderInv, BlockComment, Place, IsText, Lexing
<1>9. ParserInv'  BY DEF ParserInv, BlockComment, Lexing
<1>10. QED  BY <1>7, <1>8, <1>9 DEF LexInv

LEMMA ReturnHolds ==
  ASSUME LexInv, NEW why \in {"refused", "memory"}, NEW n, Return(why, n)
  PROVE  LexInv'
<1>1. ListInv'  BY NoList DEF Return
<1>2. ReaderInv'  BY DEF LexInv, ReaderInv, Return, Place, IsText
<1>3. ParserInv'  BY DEF ParserInv, Return
<1>4. QED  BY <1>1, <1>2, <1>3 DEF LexInv

LEMMA BeginStringHolds ==
  ASSUME LexInv, BeginString
  PROVE  LexInv'
<1>1. p + 1 \in Place  BY InText DEF LexInv, ReaderInv, BeginString
<1>2. ListInv'  BY ListStays DEF LexInv, BeginString, Reads, Lexing
<1>3. ReaderInv'
  <2>1. /\ IsText' /\ Place' = Place /\ p' \in Place
        /\ line' \in 1 .. p' /\ lineStart' \in 1 .. p'
    BY <1>1 DEF LexInv, ReaderInv, BeginString, Place, IsText
  <2>2. /\ literal'.from \in 1 .. p' - 1 /\ literal'.len = 0 /\ literal'.cap = InitialCap
        /\ literal' = [from |-> literal'.from, line |-> literal'.line, col |-> literal'.col,
                       len |-> literal'.len, cap |-> literal'.cap]
    BY DEF BeginString, LexInv, ReaderInv, Place
  <2>3. status' = "string"  BY DEF BeginString
  <2>4. QED  BY <2>1, <2>2, <2>3, CapAssumption DEF ReaderInv
<1>4. ParserInv'  BY DEF ParserInv, BeginString
<1>5. QED  BY <1>2, <1>3, <1>4 DEF LexInv

\* What a character of a string, or an escape, is read as: the places up to
\* first, which may be a newline, and others behind it, which are none.
LEMMA StringCharEnds ==
  ASSUME IsText, p \in Place, StringChar
  PROVE  \E first \in Place :
           /\ first \in p .. p + 1
           /\ first # p => At(p) = "backslash"
           /\ p' \in Place /\ p < p' /\ first <= p'
           /\ first = p' => At(first) = "end"
           /\ \A k \in first + 1 .. p' - 1 : At(k) # "newline"
           /\ IF At(first) = "newline" THEN line' = line + 1 /\ lineStart' = first + 1
              ELSE UNCHANGED <<line, lineStart>>
<1> DEFINE first == Over({"backslash"}, p)
<1>1. At(p) # "end"  BY DEF StringChar, InString
<1>2. p + 1 \in Place  BY <1>1, InText
<1>3. first \in Place /\ first \in p .. p + 1 /\ (first # p => At(p) = "backslash")
  BY <1>2 DEF Over, Place
<1>4. p' = IF first > p THEN AfterEscape(first) ELSE p + 1  BY DEF StringChar
<1>5. IF At(first) = "newline" THEN line' = line + 1 /\ lineStart' = first + 1
      ELSE UNCHANGED <<line, lineStart>>
  BY DEF StringChar
<1> HIDE DEF first
<1>6. CASE first > p
  <2>1. /\ p' \in Place /\ first <= p'
        /\ At(first) # "end" => first < p'
        /\ \A k \in first + 1 .. p' - 1 : At(k) \in Hex
    BY <1>3, <1>4, <1>6, AfterEscapeEnds
  <2>2. p < p'  BY <1>3, <1>6, <2>1 DEF Place
  <2>3. first = p' => At(first) = "end"  BY <1>3, <2>1 DEF Place
  <2>4. "newline" \notin Hex  BY EndIsNoChar DEF Space, Lexemes!Space
  <2>5. QED  BY <1>3, <1>5, <2>1, <2>2, <2>3, <2>4
<1>7. CASE ~(first > p)
  <2>1. p' = p + 1 /\ first = p  BY <1>3, <1>4, <1>7 DEF Place
  <2>2. QED  BY <1>2, <1>3, <1>5, <2>1 DEF Place
<1>8. QED  BY <1>6, <1>7

LEMMA StringCharHolds ==
  ASSUME LexInv, StringChar
  PROVE  LexInv'
<1>1. IsText /\ p \in Place  BY DEF LexInv, ReaderInv
<1>2. PICK first \in Place :
           /\ first \in p .. p + 1
           /\ p' \in Place /\ p < p' /\ first <= p'
           /\ first = p' => At(first) = "end"
           /\ IF At(first) = "newline" THEN line' = line + 1 /\ lineStart' = first + 1
              ELSE UNCHANGED <<line, lineStart>>
  BY <1>1, StringCharEnds
<1>3. line' \in 1 .. p' /\ lineStart' \in 1 .. p'
  <2>1. line \in 1 .. p /\ lineStart \in 1 .. p  BY DEF LexInv, ReaderInv
  <2>2. CASE At(first) = "newline"  BY <1>1, <1>2, <2>1, <2>2 DEF Place
  <2>3. CASE At(first) # "newline"  BY <1>1, <1>2, <2>1, <2>3 DEF Place
  <2>4. QED  BY <2>2, <2>3
<1>4. status = "string" /\ status' = "string" /\ text' = text /\ tokens' = tokens
  BY DEF StringChar, InString
<1>5. ListInv'  BY <1>4, ListStays DEF LexInv, Reads
<1> DEFINE c == IF IsFull THEN 2 * literal.cap ELSE literal.cap
<1>6. /\ literal.from \in 1 .. p - 1 /\ literal.len \in Nat /\ literal.cap \in Nat
      /\ literal.len < literal.cap
      /\ literal = [from |-> literal.from, line |-> literal.line, col |-> literal.col,
                    len |-> literal.len, cap |-> literal.cap]
  BY <1>4 DEF LexInv, ReaderInv
<1>7. literal' = [literal EXCEPT !.len = literal.len + 1, !.cap = c]  BY DEF StringChar
<1>8. c \in Nat /\ literal.len + 1 < c
  <2>1. CASE IsFull  BY <1>6, <2>1
  <2>2. CASE ~IsFull  BY <1>6, <2>2 DEF IsFull
  <2>3. QED  BY <2>1, <2>2
<1> HIDE DEF c
<1>9. literal' = [from |-> literal.from, line |-> literal.line, col |-> literal.col,
                  len |-> literal.len + 1, cap |-> c]
  BY <1>6, <1>7
<1>10. /\ literal'.from = literal.from /\ literal'.line = literal.line /\ literal'.col = literal.col
       /\ literal'.len = literal.len + 1 /\ literal'.cap = c
  BY <1>9
<1>11. ReaderInv'
  <2>1. literal.from \in 1 .. p' - 1  BY <1>1, <1>2, <1>6 DEF Place
  <2>2. Place' = Place /\ IsText'  BY <1>1, <1>4 DEF Place, IsText
  <2>3. QED  BY <1>2, <1>3, <1>4, <1>6, <1>8, <1>9, <1>10, <2>1, <2>2 DEF ReaderInv
<1>12. ParserInv'  BY <1>4 DEF ParserInv
<1>13. QED  BY <1>5, <1>11, <1>12 DEF LexInv

LEMMA EndStringHolds ==
  ASSUME LexInv, EndString
  PROVE  LexInv'
<1> DEFINE t == [Token("STR", literal.from, p + 1) EXCEPT
                   !.line = literal.line, !.col = literal.col, !.ownsStr = TRUE]
<1>1. p + 1 \in Place  BY InText DEF LexInv, ReaderInv, EndString
<1>2. literal.from \in 1 .. p - 1  BY DEF LexInv, ReaderInv, EndString
<1>3. /\ t.kind = "STR" /\ t.from = literal.from /\ t.to = p + 1 /\ t.ownsStr = TRUE
  BY DEF Token
<1>4. literal.from \in Place /\ literal.from <= p + 1
  BY <1>1, <1>2 DEF Place, LexInv, ReaderInv
<1>5. tokens' = Append(tokens, t) /\ text' = text /\ Reads  BY DEF EndString, Reads
<1> HIDE DEF t
<1>6. ListInv'  BY <1>1, <1>3, <1>4, <1>5, ListGrows DEF LexInv
<1>7. ReaderInv'
  BY <1>1 DEF LexInv, ReaderInv, EndString, Place, IsText
<1>8. ParserInv'  BY DEF ParserInv, EndString
<1>9. QED  BY <1>6, <1>7, <1>8 DEF LexInv

LEMMA EndTextHolds ==
  ASSUME LexInv, EndText
  PROVE  LexInv'
<1> DEFINE t == Token("EOF", p, p)
<1>1. t.kind = "EOF" /\ t.from = p /\ t.to = p /\ t.ownsStr = FALSE  BY DEF Token
<1>2. tokens' = Append(tokens, t) /\ text' = text /\ Reads /\ ~Reads' /\ status' = "parsing"
  BY DEF EndText, Reads, Lexing
<1>3. p \in Place /\ p <= p  BY DEF LexInv, ReaderInv, Place
<1> HIDE DEF t
<1>4. ListInv'  BY <1>1, <1>2, <1>3, ListGrows DEF LexInv
<1>5. ReaderInv'  BY DEF LexInv, ReaderInv, EndText, Place, IsText
<1>6. ParserInv'
  <2>1. /\ Len(tokens') = Len(tokens) + 1 /\ Len(tokens) \in Nat
        /\ tokens'[Len(tokens) + 1] = t
    BY <1>2, AppendKeeps DEF LexInv, ListInv
  <2>2. current' = 1  BY DEF EndText
  <2>3. QED  BY <1>1, <2>1, <2>2 DEF ParserInv
<1>7. QED  BY <1>4, <1>5, <1>6 DEF LexInv

\* A token that is not the last is consumed.
LEMMA ToNextHolds ==
  ASSUME LexInv, Parsing, Kind # "EOF", ToNext
  PROVE  LexInv'
<1>1. ListInv'  BY ListStays DEF LexInv, ToNext, Reads
<1>2. ReaderInv'  BY DEF LexInv, ReaderInv, ToNext, Place, IsText
<1>3. ParserInv'
  <2>1. current \in 1 .. Len(tokens) /\ tokens[Len(tokens)].kind = "EOF"
    BY DEF LexInv, ParserInv, Parsing
  <2>2. current # Len(tokens)  BY <2>1 DEF Kind
  <2>3. Len(tokens) \in Nat  BY DEF LexInv, ListInv
  <2>4. current + 1 \in 1 .. Len(tokens)  BY <2>1, <2>2, <2>3
  <2>5. QED  BY <2>1, <2>4 DEF ParserInv, ToNext
<1>4. QED  BY <1>1, <1>2, <1>3 DEF LexInv

LEMMA ExitHolds ==
  ASSUME LexInv, Exit
  PROVE  LexInv'
<1>1. ListInv'  BY ListStays DEF LexInv, Exit, Reads
<1>2. ReaderInv'  BY DEF LexInv, ReaderInv, Exit, Place, IsText
<1>3. ParserInv'  BY DEF ParserInv, Exit
<1>4. QED  BY <1>1, <1>2, <1>3 DEF LexInv

LEMMA FinishHolds ==
  ASSUME LexInv, Finish
  PROVE  LexInv'
<1>1. ListInv'  BY NoList DEF Finish
<1>2. ReaderInv'  BY DEF LexInv, ReaderInv, Finish, Place, IsText
<1>3. ParserInv'  BY DEF ParserInv, Finish
<1>4. QED  BY <1>1, <1>2, <1>3 DEF LexInv

\* What a step is: one that every proof below looks at.
Returns ==
  \/ UnterminatedComment \/ NoMemoryForString \/ NoMemoryToGrow \/ UnterminatedString
  \/ BadCharLiteral \/ InvalidCharacter
Consumes == Consume \/ ConsumeIdent \/ ConsumeLiteral \/ ExpectNumber

LEMMA StepKinds ==
  Next <=> \/ AddsToken \/ Blank \/ LineComment \/ BlockComment \/ Returns
           \/ BeginString \/ StringChar \/ EndString \/ EndText
           \/ Consumes \/ Exit \/ Finish
  BY DEF Next, Tokenize, AddsToken, Returns, Consumes

\* A literal that is being read is freed with the list.
LEMMA ReturnKinds ==
  ASSUME Returns
  PROVE  \E why \in {"refused", "memory"} :
           Return(why, IF status = "string" THEN 1 ELSE 0) /\ Reads
  BY DEF Returns, UnterminatedComment, NoMemoryForString, NoMemoryToGrow, UnterminatedString,
         BadCharLiteral, InvalidCharacter, Refuse, InString, Lexing, Reads

LEMMA ConsumeKinds ==
  ASSUME Consumes
  PROVE  Parsing /\ Kind # "EOF" /\ ToNext
  BY DEF Consumes, Consume, ConsumeIdent, ConsumeLiteral, ExpectNumber

LEMMA NextLex == LexInv /\ [Next]_vars => LexInv'
<1>1. SUFFICES ASSUME LexInv, [Next]_vars PROVE LexInv'  OBVIOUS
<1>2. CASE AddsToken
  <2>1. Lexing /\ \E t : PlainToken(t) /\ Add(t)
    BY <1>1, <1>2, TokensArePlain DEF LexInv, ReaderInv
  <2>2. QED  BY <1>1, <2>1, AddHolds
<1>3. CASE Returns
  <2>1. PICK why \in {"refused", "memory"} : Return(why, IF status = "string" THEN 1 ELSE 0)
    BY <1>3, ReturnKinds
  <2>2. QED  BY <1>1, <2>1, ReturnHolds
<1>4. CASE Consumes  BY <1>1, <1>4, ConsumeKinds, ToNextHolds
<1>5. CASE UNCHANGED vars
  BY <1>1, <1>5 DEF LexInv, ListInv, ReaderInv, ParserInv, vars, Place, IsText, Reads
<1>6. QED
  BY <1>1, <1>2, <1>3, <1>4, <1>5, StepKinds, BlankHolds, LineCommentHolds, BlockCommentHolds,
     BeginStringHolds, StringCharHolds, EndStringHolds, EndTextHolds, ExitHolds, FinishHolds

LEMMA LexHolds == Spec => []LexInv
  BY InitLex, NextLex, PTL DEF Spec

-----------------------------------------------------------------------------
(* Memory *)

Owners == {i \in DOMAIN tokens : tokens[i].ownsStr}

LEMMA OwnersAreFinite ==
  ASSUME ListInv
  PROVE  /\ IsFiniteSet(Owners) /\ Cardinality(Owners) \in Nat
         /\ Len(tokens) \in Nat /\ Len(tokens) + 1 \notin Owners
         /\ FreeTokens = Len(tokens) + Cardinality(Owners)
<1>1. DOMAIN tokens = 1 .. Len(tokens) /\ Len(tokens) \in Nat  BY DEF ListInv
<1>2. IsFiniteSet(1 .. Len(tokens))  BY <1>1, FS_Interval
<1>3. Owners \subseteq 1 .. Len(tokens)  BY <1>1 DEF Owners
<1>4. IsFiniteSet(Owners)  BY <1>2, <1>3, FS_Subset
<1>5. QED  BY <1>1, <1>3, <1>4, FS_CardinalityType DEF FreeTokens, Owners

\* One more block for a token, and one for the string it owns.
LEMMA OneMore ==
  ASSUME ListInv, NEW t, tokens' = Append(tokens, t)
  PROVE  /\ t.ownsStr = TRUE => FreeTokens' = FreeTokens + 2
         /\ t.ownsStr = FALSE => FreeTokens' = FreeTokens + 1
<1>1. /\ Len(tokens') = Len(tokens) + 1
      /\ DOMAIN tokens' = 1 .. Len(tokens) + 1
      /\ DOMAIN tokens = 1 .. Len(tokens)
      /\ \A i \in 1 .. Len(tokens) : tokens'[i] = tokens[i]
      /\ tokens'[Len(tokens) + 1] = t
  BY AppendKeeps DEF ListInv
<1>2. /\ IsFiniteSet(Owners) /\ Cardinality(Owners) \in Nat
      /\ Len(tokens) \in Nat /\ Len(tokens) + 1 \notin Owners
      /\ FreeTokens = Len(tokens) + Cardinality(Owners)
  BY OwnersAreFinite
<1>3. FreeTokens' = Len(tokens') + Cardinality(Owners')  BY DEF FreeTokens, Owners
<1>4. CASE t.ownsStr = TRUE
  <2>1. Owners' = Owners \cup {Len(tokens) + 1}  BY <1>1, <1>2, <1>4 DEF Owners
  <2>2. Cardinality(Owners') = Cardinality(Owners) + 1  BY <1>2, <2>1, FS_AddElement
  <2>3. QED  BY <1>1, <1>2, <1>3, <1>4, <2>2
<1>5. CASE t.ownsStr = FALSE
  <2>1. Owners' = Owners  BY <1>1, <1>2, <1>5 DEF Owners
  <2>2. QED  BY <1>1, <1>2, <1>3, <1>5, <2>1
<1>6. QED  BY <1>4, <1>5

LEMMA NothingToFree ==
  ASSUME tokens' = <<>>
  PROVE  FreeTokens' = 0
<1>1. Owners' = {} /\ Len(tokens') = 0  BY DEF Owners
<1>2. QED  BY <1>1, FS_EmptySet DEF FreeTokens, Owners

LEMMA InitBlocks == Init => BlocksAreReachable
<1>1. SUFFICES ASSUME Init PROVE BlocksAreReachable  OBVIOUS
<1>2. Owners = {} /\ Len(tokens) = 0  BY <1>1 DEF Init, Owners
<1>3. FreeTokens = 0  BY <1>2, FS_EmptySet DEF FreeTokens, Owners
<1>4. QED  BY <1>1, <1>3 DEF Init, BlocksAreReachable

LEMMA NextBlocks ==
  ASSUME LexInv, LexInv', BlocksAreReachable, [Next]_vars
  PROVE  BlocksAreReachable'
<1>0. FreeTokens \in Nat  BY OwnersAreFinite DEF LexInv
<1>1. CASE AddsToken
  <2>1. PICK t : Lexing /\ PlainToken(t) /\ Add(t)
    BY <1>1, TokensArePlain DEF LexInv, ReaderInv
  <2>2. FreeTokens' = FreeTokens + 1  BY <2>1, OneMore DEF LexInv, PlainToken, Add
  <2>3. QED  BY <1>0, <2>1, <2>2 DEF BlocksAreReachable, Add, Lexing
<1>2. CASE Returns
  <2>1. PICK why \in {"refused", "memory"} :
          Return(why, IF status = "string" THEN 1 ELSE 0) /\ Reads
    BY <1>2, ReturnKinds
  <2>2. FreeTokens' = 0  BY <2>1, NothingToFree DEF Return
  <2>3. status' # "string" /\ live' = live - FreeTokens - (IF status = "string" THEN 1 ELSE 0)
    BY <2>1 DEF Return
  <2>4. CASE status = "string"  BY <1>0, <2>2, <2>3, <2>4 DEF BlocksAreReachable
  <2>5. CASE status # "string"  BY <1>0, <2>2, <2>3, <2>5 DEF BlocksAreReachable
  <2>6. QED  BY <2>4, <2>5
<1>3. CASE EndString
  <2> DEFINE t == [Token("STR", literal.from, p + 1) EXCEPT
                     !.line = literal.line, !.col = literal.col, !.ownsStr = TRUE]
  <2>1. t.ownsStr = TRUE  BY DEF Token
  <2>2. tokens' = Append(tokens, t)  BY <1>3 DEF EndString
  <2> HIDE DEF t
  <2>3. FreeTokens' = FreeTokens + 2  BY <2>1, <2>2, OneMore DEF LexInv
  <2>4. QED  BY <1>0, <1>3, <2>3 DEF BlocksAreReachable, EndString
<1>4. CASE EndText
  <2> DEFINE t == Token("EOF", p, p)
  <2>1. t.ownsStr = FALSE  BY DEF Token
  <2>2. tokens' = Append(tokens, t)  BY <1>4 DEF EndText
  <2> HIDE DEF t
  <2>3. FreeTokens' = FreeTokens + 1  BY <2>1, <2>2, OneMore DEF LexInv
  <2>4. QED  BY <1>0, <1>4, <2>3 DEF BlocksAreReachable, EndText, Lexing
<1>5. CASE Finish
  <2>1. FreeTokens' = 0  BY <1>5, NothingToFree DEF Finish
  <2>2. QED  BY <1>0, <1>5, <2>1 DEF BlocksAreReachable, Finish, Parsing
<1>6. CASE BeginString
  BY <1>0, <1>6 DEF BlocksAreReachable, BeginString, FreeTokens, Lexing
<1>7. CASE \/ Blank \/ LineComment \/ BlockComment \/ StringChar \/ Consumes \/ Exit \/ UNCHANGED vars
  <2>1. tokens' = tokens /\ live' = live /\ (status' = "string" <=> status = "string")
    BY <1>7 DEF Blank, LineComment, BlockComment, StringChar, Consumes, Consume, ConsumeIdent,
                ConsumeLiteral, ExpectNumber, ToNext, Exit, Parsing, vars
  <2>2. QED  BY <2>1 DEF BlocksAreReachable, FreeTokens
<1>8. QED  BY <1>1, <1>2, <1>3, <1>4, <1>5, <1>6, <1>7, StepKinds

(* Whatever the text and whichever way tokenize is left, and after the       *)
(* parser is through, what is allocated is what is on the list and the       *)
(* literal being read: nothing is lost and nothing is freed twice.           *)
THEOREM BlocksStayReachable == Spec => []BlocksAreReachable
<1>1. LexInv /\ LexInv' /\ BlocksAreReachable /\ [Next]_vars => BlocksAreReachable'
  BY NextBlocks
<1>2. QED  BY InitBlocks, LexHolds, <1>1, PTL DEF Spec

LEMMA LexIsTyped == LexInv /\ BlocksAreReachable => TypeOK
<1>1. SUFFICES ASSUME LexInv, BlocksAreReachable PROVE TypeOK  OBVIOUS
<1>2. live \in Nat
  <2>1. FreeTokens \in Nat  BY <1>1, OwnersAreFinite DEF LexInv
  <2>2. QED  BY <1>1, <2>1 DEF BlocksAreReachable
<1>3. Len(text) \in Nat  BY <1>1 DEF LexInv, ReaderInv, IsText
<1>4. /\ text \in Seq(Lexemes!Char)
      /\ p \in 1 .. Len(text) + 1
      /\ line \in 1 .. Len(text) + 1
      /\ lineStart \in 1 .. p
      /\ status = "string" => literal.len < literal.cap
      /\ status \in {"lexing", "string", "parsing", "refused", "exit", "memory", "done"}
  BY <1>1, <1>3 DEF LexInv, ReaderInv, IsText, Place
<1>5. \A i \in DOMAIN tokens :
       LET t == tokens[i] IN
         /\ t.kind \in {"RESERVED", "IDENT", "NUM", "STR", "EOF"}
         /\ 1 <= t.from /\ t.from <= t.to /\ t.to <= Len(text) + 1
         /\ t.kind = "EOF" => i = Len(tokens) /\ status # "lexing"
         /\ t.ownsStr <=> t.kind = "STR"
  BY <1>1, <1>3 DEF LexInv, ListInv, Place, Reads
<1>6. Parsing => current \in DOMAIN tokens
  BY <1>1 DEF LexInv, ListInv, ParserInv, Parsing
<1>7. QED  BY <1>2, <1>4, <1>5, <1>6 DEF TypeOK

(* Every token is a piece of the text, the list ends with the only EOF, the *)
(* parser's token is on the list however it consumes, and the buffer of a   *)
(* string literal has room for its terminator however long the literal is.  *)
THEOREM TypesHold == Spec => []TypeOK
  BY LexHolds, BlocksStayReachable, LexIsTyped, PTL

-----------------------------------------------------------------------------
(* Positions: i is in line l, which begins at b. *)

IsAt(i, l, b) ==
  /\ l = 1 + Cardinality(Newlines(1, i))
  /\ b \in 1 .. i
  /\ b = 1 \/ At(b - 1) = "newline"
  /\ \A k \in b .. i - 1 : At(k) # "newline"

LEMMA PositionsAreCounted ==
  ASSUME IsText, NEW i \in Place, NEW l, NEW b, IsAt(i, l, b)
  PROVE  l = LineOf(i) /\ i - b + 1 = ColOf(i)
<1>1. i \in Nat /\ Len(text) \in Nat /\ i <= Len(text) + 1  BY DEF IsText, Place
<1>2. \A k \in 1 .. i - 1 : At(k) = text[k]  BY <1>1 DEF At
<1>3. Newlines(1, i) = {k \in 1 .. i - 1 : text[k] = "newline"}  BY <1>2 DEF Newlines
<1>4. l = LineOf(i)  BY <1>3 DEF IsAt, LineOf
<1>5. b \in 1 .. i /\ (b = 1 \/ At(b - 1) = "newline") /\ \A k \in b .. i - 1 : At(k) # "newline"
  BY DEF IsAt
<1> DEFINE Begins(j) == /\ j = 0 \/ text[j] = "newline"
                        /\ \A k \in j + 1 .. i - 1 : text[k] # "newline"
<1>6. b - 1 \in 0 .. i - 1  BY <1>1, <1>5
<1>7. Begins(b - 1)
  <2>1. b - 1 = 0 \/ text[b - 1] = "newline"
    <3>1. CASE b = 1  BY <3>1
    <3>2. CASE b # 1
      <4>1. b - 1 \in 1 .. i - 1  BY <1>1, <1>5, <3>2
      <4>2. QED  BY <1>2, <1>5, <3>2, <4>1
    <3>3. QED  BY <3>1, <3>2
  <2>2. (b - 1) + 1 = b  BY <1>1, <1>5
  <2>3. \A k \in b .. i - 1 : k \in 1 .. i - 1  BY <1>1, <1>5
  <2>4. QED  BY <1>2, <1>5, <2>1, <2>2, <2>3
<1>8. ASSUME NEW j \in 0 .. i - 1, Begins(j)
      PROVE  j = b - 1
  <2>1. CASE j < b - 1
    <3>1. b - 1 \in j + 1 .. i - 1 /\ b - 1 # 0  BY <1>1, <1>5, <1>6, <2>1
    <3>2. QED  BY <1>7, <1>8, <3>1
  <2>2. CASE j > b - 1
    <3>1. j \in (b - 1) + 1 .. i - 1 /\ j # 0  BY <1>1, <1>5, <1>6, <2>2
    <3>2. QED  BY <1>7, <1>8, <3>1
  <2>3. QED  BY <1>1, <1>5, <2>1, <2>2
<1>9. (CHOOSE j \in 0 .. i - 1 : Begins(j)) = b - 1
  <2> HIDE DEF Begins
  <2>1. QED  BY <1>6, <1>7, <1>8
<1>10. ColOf(i) = i - (CHOOSE j \in 0 .. i - 1 : Begins(j))  BY DEF ColOf
<1>11. ColOf(i) = i - (b - 1)  BY <1>9, <1>10
<1>12. i - (b - 1) = i - b + 1  BY <1>1, <1>5
<1>13. QED  BY <1>4, <1>11, <1>12

\* Reading on from i to j, over any newlines.
LEMMA ReadsOn ==
  ASSUME NEW i \in Nat \ {0}, NEW j \in Nat, i <= j, NEW l, NEW b, IsAt(i, l, b)
  PROVE  LET N == Newlines(i, j) IN
         IsAt(j, l + Cardinality(N), IF N = {} THEN b ELSE Max(N) + 1)
<1> DEFINE N == Newlines(i, j)
           M == Newlines(1, i)
<1>1. /\ IsFiniteSet(N) /\ Cardinality(N) \in 0 .. j - i
      /\ N # {} => Max(N) \in N /\ \A k \in N : k <= Max(N)
  BY NewlinesAreFinite
<1>2. IsFiniteSet(M) /\ Cardinality(M) \in 0 .. i - 1  BY NewlinesAreFinite
<1>3. Newlines(1, j) = M \cup N /\ M \cap N = {}  BY DEF Newlines
<1>4. Cardinality(Newlines(1, j)) = Cardinality(M) + Cardinality(N)
  <2> HIDE DEF M, N
  <2>1. Cardinality(M \cup N) = Cardinality(M) + Cardinality(N) - Cardinality({})
    BY <1>1, <1>2, <1>3, FS_Union
  <2>2. QED  BY <1>1, <1>2, <1>3, <2>1, FS_EmptySet
<1>5. l = 1 + Cardinality(M) /\ b \in 1 .. i /\ (b = 1 \/ At(b - 1) = "newline")
      /\ \A k \in b .. i - 1 : At(k) # "newline"
  BY DEF IsAt
<1>6. l + Cardinality(N) = 1 + Cardinality(Newlines(1, j))  BY <1>1, <1>2, <1>4, <1>5
<1>7. CASE N = {}
  <2>1. \A k \in b .. j - 1 : At(k) # "newline"
    <3>1. TAKE k \in b .. j - 1
    <3>2. k \in b .. i - 1 \/ k \in i .. j - 1  BY <1>5
    <3>3. QED  BY <1>5, <1>7, <3>2 DEF Newlines
  <2>2. QED  BY <1>5, <1>6, <1>7, <2>1 DEF IsAt
<1>8. CASE N # {}
  <2>1. Max(N) \in i .. j - 1 /\ At(Max(N)) = "newline" /\ \A k \in N : k <= Max(N)
    BY <1>1, <1>8 DEF Newlines
  <2>2. \A k \in Max(N) + 1 .. j - 1 : At(k) # "newline"
    <3>1. SUFFICES ASSUME NEW k \in Max(N) + 1 .. j - 1, At(k) = "newline" PROVE FALSE
      OBVIOUS
    <3>2. k \in i .. j - 1  BY <2>1
    <3>3. k \in N  BY <3>1, <3>2 DEF Newlines
    <3>4. QED  BY <2>1, <3>3
  <2>3. Max(N) + 1 \in 1 .. j /\ (Max(N) + 1) - 1 = Max(N)  BY <2>1
  <2>4. QED  BY <1>6, <1>8, <2>1, <2>2, <2>3 DEF IsAt
<1>9. QED  BY <1>7, <1>8

LEMMA ReadsOnInLine ==
  ASSUME NEW i \in Nat \ {0}, NEW j \in Nat, i <= j, NEW l, NEW b, IsAt(i, l, b),
         \A k \in i .. j - 1 : At(k) # "newline"
  PROVE  IsAt(j, l, b)
<1>1. Newlines(i, j) = {}  BY DEF Newlines
<1>2. IsAt(j, l + 0, b)  BY <1>1, ReadsOn, FS_EmptySet
<1>3. l \in Int  BY NewlinesAreFinite DEF IsAt
<1>4. QED  BY <1>2, <1>3

LEMMA NextLine ==
  ASSUME NEW i \in Nat \ {0}, NEW l, NEW b, IsAt(i, l, b), At(i) = "newline"
  PROVE  IsAt(i + 1, l + 1, i + 1)
<1>1. Newlines(i, i + 1) = {i}  BY DEF Newlines
<1>2. Cardinality({i}) = 1  BY FS_Singleton
<1>3. Max({i}) = i  BY DEF Max
<1>4. IsAt(i + 1, l + Cardinality({i}), Max({i}) + 1)
  <2>1. IsAt(i + 1, l + Cardinality(Newlines(i, i + 1)),
             IF Newlines(i, i + 1) = {} THEN b ELSE Max(Newlines(i, i + 1)) + 1)
    BY ReadsOn
  <2>2. Newlines(i, i + 1) # {}  BY <1>1
  <2>3. QED  BY <1>1, <2>1, <2>2
<1>5. QED  BY <1>2, <1>3, <1>4

\* What is read of a text stays while the text does.
LEMMA TextStays ==
  ASSUME text' = text
  PROVE  /\ \A i : At(i)' = At(i)
         /\ \A i, j : Piece(i, j)' = Piece(i, j)
         /\ \A i : LineOf(i)' = LineOf(i)
         /\ \A i : ColOf(i)' = ColOf(i)
<1> DEFINE Line(s, i) == 1 + Cardinality({k \in 1 .. i - 1 : s[k] = "newline"})
           Col(s, i) == i - (CHOOSE j \in 0 .. i - 1 :
                               /\ j = 0 \/ s[j] = "newline"
                               /\ \A k \in j + 1 .. i - 1 : s[k] # "newline")
<1>1. \A i : LineOf(i) = Line(text, i) /\ LineOf(i)' = Line(text', i)  BY DEF LineOf
<1>2. \A i : ColOf(i) = Col(text, i) /\ ColOf(i)' = Col(text', i)  BY DEF ColOf
<1> HIDE DEF Line, Col
<1>3. QED  BY <1>1, <1>2 DEF At, Piece

\* No literal of a character on the list holds a newline.
SpotFree(t) ==
  At(t.from) = "apostrophe" => "newline" \notin Range(Piece(t.from, t.to))
Counted == \A j \in DOMAIN tokens : SpotFree(tokens[j])

PlaceInv ==
  /\ Counted /\ Reads => IsAt(p, line, lineStart)
  /\ Counted /\ status = "string" =>
       literal.line = LineOf(literal.from) /\ literal.col = ColOf(literal.from)
  /\ PositionsAreTrue

LEMMA SpotFreeMeans ==
  ASSUME IsText, NEW t, t.from \in Place, t.to \in Place, SpotFree(t),
         At(t.from) = "apostrophe"
  PROVE  \A k \in t.from .. t.to - 1 : At(k) # "newline"
<1> DEFINE s == Piece(t.from, t.to)
<1>1. Len(text) \in Nat /\ DOMAIN text = 1 .. Len(text)  BY DEF IsText
<1>2. SUFFICES ASSUME NEW k \in t.from .. t.to - 1
               PROVE  At(k) # "newline"
  OBVIOUS
<1>3. k \in 1 .. Len(text) /\ At(k) = text[k]  BY <1>1 DEF Place, At
<1>4. k - t.from + 1 \in DOMAIN s /\ s[k - t.from + 1] = text[k]
  <2> DEFINE m == t.from
             n == t.to - 1
             l == k - m + 1
  <2>1. m \in Int /\ n \in Int /\ m .. n \subseteq DOMAIN text /\ k \in m .. n
    BY <1>1 DEF Place
  <2>2. s = SubSeq(text, m, n)  BY DEF Piece
  <2>3. \A i \in m .. n : text[i] \in Lexemes!Char  BY <2>1 DEF IsText
  <2> HIDE DEF s, m, n
  <2>4. /\ s \in Seq(Lexemes!Char) /\ Len(s) = IF m <= n THEN n - m + 1 ELSE 0
        /\ \A i \in 1 .. n - m + 1 : s[i] = text[m + i - 1]
    BY <2>1, <2>2, <2>3, SubSeqProperties
  <2>5. k \in Int /\ m <= n /\ l \in 1 .. n - m + 1 /\ m + l - 1 = k  BY <2>1
  <2> HIDE DEF l
  <2>6. l \in DOMAIN s /\ s[l] = text[k]  BY <2>4, <2>5
  <2>7. QED  BY <2>6 DEF l, m
<1>5. text[k] \in Range(s)  BY <1>4 DEF Range
<1>6. QED  BY <1>3, <1>5 DEF SpotFree

LEMMA CountedGrows ==
  ASSUME ListInv, text' = text, NEW t, tokens' = Append(tokens, t)
  PROVE  Counted' <=> Counted /\ SpotFree(t)
<1>1. /\ DOMAIN tokens' = 1 .. Len(tokens) + 1
      /\ DOMAIN tokens = 1 .. Len(tokens)
      /\ \A i \in 1 .. Len(tokens) : tokens'[i] = tokens[i]
      /\ tokens'[Len(tokens) + 1] = t
      /\ Len(tokens) \in Nat
  BY AppendKeeps DEF ListInv
<1>2. Counted' <=> \A j \in DOMAIN tokens' : SpotFree(tokens'[j])
  BY DEF Counted, SpotFree, At, Piece
<1>3. QED  BY <1>1, <1>2 DEF Counted

LEMMA PositionsGrow ==
  ASSUME ListInv, PositionsAreTrue, text' = text, NEW t, tokens' = Append(tokens, t),
         Counted => t.line = LineOf(t.from) /\ t.col = ColOf(t.from)
  PROVE  PositionsAreTrue'
<1>1. /\ DOMAIN tokens' = 1 .. Len(tokens) + 1
      /\ DOMAIN tokens = 1 .. Len(tokens)
      /\ \A i \in 1 .. Len(tokens) : tokens'[i] = tokens[i]
      /\ tokens'[Len(tokens) + 1] = t
      /\ Len(tokens) \in Nat
  BY AppendKeeps DEF ListInv
<1> DEFINE Right(u) == u.line = LineOf(u.from) /\ u.col = ColOf(u.from)
           Free(s, i) == \A j \in 1 .. i - 1 : SpotFree(s[j])
<1>2. PositionsAreTrue <=> \A i \in DOMAIN tokens : Free(tokens, i) => Right(tokens[i])
  BY DEF PositionsAreTrue, SpotFree
<1>3. PositionsAreTrue' <=> \A i \in DOMAIN tokens' : Free(tokens', i) => Right(tokens'[i])
  <2>1. \A i : LineOf(i)' = LineOf(i) /\ ColOf(i)' = ColOf(i)  BY TextStays
  <2>2. QED  BY <2>1 DEF PositionsAreTrue, SpotFree, At, Piece
<1>4. ASSUME NEW i \in DOMAIN tokens', Free(tokens', i)
      PROVE  Right(tokens'[i])
  <2>1. CASE i = Len(tokens) + 1
    <3>1. Counted  BY <1>1, <1>4, <2>1 DEF Counted
    <3>2. QED  BY <1>1, <2>1, <3>1
  <2>2. CASE i \in 1 .. Len(tokens)
    <3>1. Free(tokens, i)  BY <1>1, <1>4, <2>2
    <3>2. QED  BY <1>1, <1>2, <2>2, <3>1
  <2>3. QED  BY <1>1, <2>1, <2>2
<1>5. QED  BY <1>3, <1>4

LEMMA InitPlace == Init => PlaceInv
<1>1. SUFFICES ASSUME Init PROVE PlaceInv  OBVIOUS
<1>2. Newlines(1, 1) = {}  BY DEF Newlines
<1>3. IsAt(1, 1, 1)  BY <1>2, FS_EmptySet DEF IsAt
<1>4. DOMAIN tokens = {}  BY <1>1 DEF Init
<1>5. QED  BY <1>1, <1>3, <1>4 DEF Init, PlaceInv, PositionsAreTrue

\* A step that adds nothing to the list and reads on.
LEMMA PlaceMoves ==
  ASSUME LexInv, PlaceInv, text' = text, tokens' = tokens, literal' = literal,
         Reads' => Reads, status' = "string" => status = "string",
         Reads' => (IsAt(p, line, lineStart) => IsAt(p', line', lineStart'))
  PROVE  PlaceInv'
<1>1. Counted' <=> Counted  BY DEF Counted, SpotFree, At, Piece
<1>2. IsAt(p, line, lineStart)' <=> IsAt(p', line', lineStart')
  BY DEF IsAt, Newlines, At
<1>3. PositionsAreTrue'  BY TextStays DEF PlaceInv, PositionsAreTrue
<1>4. QED  BY <1>1, <1>2, <1>3, TextStays DEF PlaceInv

LEMMA AddPlaces ==
  ASSUME LexInv, PlaceInv, Lexing, NEW t, PlainToken(t), Add(t)
  PROVE  PlaceInv'
<1>1. p \in Place /\ p \in Nat \ {0} /\ IsText /\ ListInv  BY DEF LexInv, ReaderInv, Place
<1>2. text' = text /\ tokens' = Append(tokens, t) /\ Reads /\ p' = t.to /\ status' = "lexing"
      /\ line' = line /\ lineStart' = lineStart
  BY DEF Add, Lexing, Reads
<1>3. Counted => IsAt(p, line, lineStart)  BY <1>2 DEF PlaceInv
<1>4. Counted => t.line = LineOf(t.from) /\ t.col = ColOf(t.from)
  BY <1>1, <1>3, PositionsAreCounted DEF PlainToken
<1>5. PositionsAreTrue'  BY <1>1, <1>2, <1>4, PositionsGrow DEF PlaceInv
<1>6. ASSUME Counted'
      PROVE  IsAt(p', line', lineStart')
  <2>1. Counted /\ SpotFree(t)  BY <1>1, <1>2, <1>6, CountedGrows
  <2>2. \A k \in p .. t.to - 1 : At(k) # "newline"
    BY <1>1, <2>1, SpotFreeMeans DEF PlainToken
  <2>3. t.to \in Nat /\ p <= t.to  BY <1>1 DEF PlainToken, Place
  <2>4. IsAt(t.to, line, lineStart)  BY <1>1, <1>3, <2>1, <2>2, <2>3, ReadsOnInLine
  <2>5. QED  BY <1>2, <2>4
<1>7. IsAt(p, line, lineStart)' <=> IsAt(p', line', lineStart')
  BY <1>2 DEF IsAt, Newlines, At
<1>8. QED  BY <1>2, <1>5, <1>6, <1>7 DEF PlaceInv

LEMMA BlankPlaces ==
  ASSUME LexInv, PlaceInv, Blank
  PROVE  PlaceInv'
<1>1. p \in Nat \ {0}  BY DEF LexInv, ReaderInv, Place
<1>2. ASSUME IsAt(p, line, lineStart) PROVE IsAt(p', line', lineStart')
  <2>1. CASE At(p) = "newline"  BY <1>1, <1>2, <2>1, NextLine DEF Blank
  <2>2. CASE At(p) # "newline"
    <3>1. \A k \in p .. (p + 1) - 1 : At(k) # "newline"  BY <1>1, <2>2
    <3>2. IsAt(p + 1, line, lineStart)  BY <1>1, <1>2, <3>1, ReadsOnInLine
    <3>3. QED  BY <2>2, <3>2 DEF Blank
  <2>3. QED  BY <2>1, <2>2
<1>3. QED  BY <1>2, PlaceMoves DEF Blank, Reads, Lexing

LEMMA LineCommentPlaces ==
  ASSUME LexInv, PlaceInv, LineComment
  PROVE  PlaceInv'
<1> DEFINE to == Past(Lexemes!Char \ {"newline"}, p + 2)
<1>1. p \in Nat \ {0} /\ p \in Place  BY DEF LexInv, ReaderInv, Place
<1>2. to \in Place /\ p + 2 <= to /\ \A k \in p .. to - 1 : At(k) # "newline"
  BY LineCommentEnds DEF LexInv, ReaderInv, LineComment
<1>3. p' = to /\ line' = line /\ lineStart' = lineStart  BY DEF LineComment
<1> HIDE DEF to
<1>4. to \in Nat /\ p <= to  BY <1>1, <1>2 DEF Place
<1>5. IsAt(p, line, lineStart) => IsAt(p', line', lineStart')
  BY <1>1, <1>2, <1>3, <1>4, ReadsOnInLine
<1>6. QED  BY <1>5, PlaceMoves DEF LineComment, Reads, Lexing

LEMMA BlockCommentPlaces ==
  ASSUME LexInv, PlaceInv, BlockComment
  PROVE  PlaceInv'
<1>1. IsText /\ p \in Place /\ p \in Nat \ {0}  BY DEF LexInv, ReaderInv, Place
<1>2. PICK q \in Closings :
           LET N == Newlines(p, q + 2) IN
           /\ q + 2 \in Place /\ p + 2 <= q
           /\ p' = q + 2
           /\ line' = line + Cardinality(N)
           /\ lineStart' = IF N = {} THEN lineStart ELSE Max(N) + 1
  BY <1>1, BlockCommentEnds
<1>3. q + 2 \in Nat /\ p <= q + 2  BY <1>1, <1>2 DEF Place, Closings
<1>4. IsAt(p, line, lineStart) => IsAt(p', line', lineStart')
  BY <1>1, <1>2, <1>3, ReadsOn
<1>5. QED  BY <1>4, PlaceMoves DEF BlockComment, Reads, Lexing

\* A newline may be the character at the front, or behind its backslash.
LEMMA StringCharPlaces ==
  ASSUME LexInv, PlaceInv, StringChar
  PROVE  PlaceInv'
<1>1. IsText /\ p \in Place /\ p \in Nat \ {0}  BY DEF LexInv, ReaderInv, Place
<1>2. PICK first \in Place :
           /\ first \in p .. p + 1
           /\ first # p => At(p) = "backslash"
           /\ p' \in Place /\ p < p' /\ first <= p'
           /\ first = p' => At(first) = "end"
           /\ \A k \in first + 1 .. p' - 1 : At(k) # "newline"
           /\ IF At(first) = "newline" THEN line' = line + 1 /\ lineStart' = first + 1
              ELSE UNCHANGED <<line, lineStart>>
  BY <1>1, StringCharEnds
<1>3. first \in Nat \ {0} /\ p' \in Nat  BY <1>1, <1>2 DEF Place
<1>4. ASSUME IsAt(p, line, lineStart) PROVE IsAt(p', line', lineStart')
  <2>1. \A k \in p .. first - 1 : At(k) # "newline"  BY <1>1, <1>2
  <2>2. IsAt(first, line, lineStart)  BY <1>1, <1>2, <1>3, <1>4, <2>1, ReadsOnInLine
  <2>3. CASE At(first) = "newline"
    <3>1. IsAt(first + 1, line + 1, first + 1) /\ first + 1 \in Nat \ {0}
      BY <1>3, <2>2, <2>3, NextLine
    <3>2. first + 1 <= p'  BY <1>2, <1>3, <2>3
    <3>3. IsAt(p', line + 1, first + 1)  BY <1>2, <1>3, <3>1, <3>2, ReadsOnInLine
    <3>4. QED  BY <1>2, <2>3, <3>3
  <2>4. CASE At(first) # "newline"
    <3>1. \A k \in first .. p' - 1 : At(k) # "newline"
      <4>1. \A a, b \in Int : \A k \in a .. b : k = a \/ k \in a + 1 .. b  OBVIOUS
      <4>2. first \in Int /\ p' - 1 \in Int  BY <1>3
      <4>3. \A k \in first .. p' - 1 : k = first \/ k \in first + 1 .. p' - 1
        BY <4>1, <4>2
      <4>4. QED  BY <1>2, <2>4, <4>3
    <3>2. IsAt(p', line, lineStart)  BY <1>2, <1>3, <2>2, <3>1, ReadsOnInLine
    <3>3. QED  BY <1>2, <2>4, <3>2
  <2>5. QED  BY <2>3, <2>4
<1>5. text' = text /\ tokens' = tokens /\ status = "string" /\ status' = "string"
  BY DEF StringChar, InString
<1>6. literal'.from = literal.from /\ literal'.line = literal.line /\ literal'.col = literal.col
  <2> DEFINE c == IF IsFull THEN 2 * literal.cap ELSE literal.cap
  <2>1. literal = [from |-> literal.from, line |-> literal.line, col |-> literal.col,
                    len |-> literal.len, cap |-> literal.cap]
    BY <1>5 DEF LexInv, ReaderInv
  <2>2. literal' = [literal EXCEPT !.len = literal.len + 1, !.cap = c]  BY DEF StringChar
  <2> HIDE DEF c
  <2>3. literal' = [from |-> literal.from, line |-> literal.line, col |-> literal.col,
                    len |-> literal.len + 1, cap |-> c]
    BY <2>1, <2>2
  <2>4. QED  BY <2>3
<1>7. Counted' <=> Counted  BY <1>5 DEF Counted, SpotFree, At, Piece
<1>8. IsAt(p, line, lineStart)' <=> IsAt(p', line', lineStart')
  BY <1>5 DEF IsAt, Newlines, At
<1>9. PositionsAreTrue'  BY <1>5, TextStays DEF PlaceInv, PositionsAreTrue
<1>10. Reads  BY <1>5 DEF Reads
<1>11. Counted => /\ IsAt(p, line, lineStart)
                  /\ literal.line = LineOf(literal.from) /\ literal.col = ColOf(literal.from)
  BY <1>5, <1>10 DEF PlaceInv
<1>12. LineOf(literal.from)' = LineOf(literal.from) /\ ColOf(literal.from)' = ColOf(literal.from)
  BY <1>5, <1>6, TextStays
<1>13. QED  BY <1>4, <1>6, <1>7, <1>8, <1>9, <1>11, <1>12 DEF PlaceInv

LEMMA BeginStringPlaces ==
  ASSUME LexInv, PlaceInv, BeginString
  PROVE  PlaceInv'
<1>1. IsText /\ p \in Place /\ p \in Nat \ {0}  BY DEF LexInv, ReaderInv, Place
<1>2. text' = text /\ tokens' = tokens /\ Reads /\ p' = p + 1 /\ line' = line /\ lineStart' = lineStart
      /\ At(p) = "quote"
  BY DEF BeginString, Reads, Lexing
<1>3. literal'.from = p /\ literal'.line = line /\ literal'.col = p - lineStart + 1
  BY DEF BeginString
<1>4. Counted' <=> Counted  BY <1>2 DEF Counted, SpotFree, At, Piece
<1>5. IsAt(p, line, lineStart)' <=> IsAt(p', line', lineStart')
  BY <1>2 DEF IsAt, Newlines, At
<1>6. PositionsAreTrue'  BY <1>2, TextStays DEF PlaceInv, PositionsAreTrue
<1>7. ASSUME Counted
      PROVE  /\ IsAt(p', line', lineStart')
             /\ line = LineOf(p) /\ p - lineStart + 1 = ColOf(p)
  <2>1. IsAt(p, line, lineStart)  BY <1>2, <1>7 DEF PlaceInv
  <2>2. \A k \in p .. (p + 1) - 1 : At(k) # "newline"  BY <1>1, <1>2
  <2>3. IsAt(p + 1, line, lineStart)  BY <1>1, <2>1, <2>2, ReadsOnInLine
  <2>4. QED  BY <1>1, <1>2, <2>1, <2>3, PositionsAreCounted
<1>8. LineOf(literal.from)' = LineOf(p) /\ ColOf(literal.from)' = ColOf(p)
  BY <1>2, <1>3, TextStays
<1>9. QED  BY <1>3, <1>4, <1>5, <1>6, <1>7, <1>8 DEF PlaceInv

LEMMA EndStringPlaces ==
  ASSUME LexInv, PlaceInv, EndString
  PROVE  PlaceInv'
<1> DEFINE t == [Token("STR", literal.from, p + 1) EXCEPT
                   !.line = literal.line, !.col = literal.col, !.ownsStr = TRUE]
<1>1. p \in Place /\ p \in Nat \ {0} /\ ListInv  BY DEF LexInv, ReaderInv, Place
<1>2. t.from = literal.from /\ t.line = literal.line /\ t.col = literal.col  BY DEF Token
<1>3. tokens' = Append(tokens, t) /\ text' = text /\ Reads /\ status = "string" /\ status' = "lexing"
      /\ p' = p + 1 /\ line' = line /\ lineStart' = lineStart /\ At(p) = "quote"
  BY DEF EndString, Reads
<1> HIDE DEF t
<1>4. Counted => /\ IsAt(p, line, lineStart)
                 /\ t.line = LineOf(t.from) /\ t.col = ColOf(t.from)
  BY <1>2, <1>3 DEF PlaceInv
<1>5. PositionsAreTrue'  BY <1>1, <1>3, <1>4, PositionsGrow DEF PlaceInv
<1>6. Counted' => IsAt(p', line', lineStart')
  <2>1. SUFFICES ASSUME Counted' PROVE IsAt(p', line', lineStart')  OBVIOUS
  <2>2. Counted  BY <1>1, <1>3, <2>1, CountedGrows
  <2>3. \A k \in p .. (p + 1) - 1 : At(k) # "newline"  BY <1>1, <1>3
  <2>4. IsAt(p + 1, line, lineStart)  BY <1>1, <1>4, <2>2, <2>3, ReadsOnInLine
  <2>5. QED  BY <1>3, <2>4
<1>7. IsAt(p, line, lineStart)' <=> IsAt(p', line', lineStart')
  BY <1>3 DEF IsAt, Newlines, At
<1>8. QED  BY <1>3, <1>5, <1>6, <1>7 DEF PlaceInv

LEMMA EndTextPlaces ==
  ASSUME LexInv, PlaceInv, EndText
  PROVE  PlaceInv'
<1> DEFINE t == Token("EOF", p, p)
<1>1. IsText /\ p \in Place /\ ListInv  BY DEF LexInv, ReaderInv
<1>2. t.from = p /\ t.line = line /\ t.col = p - lineStart + 1  BY DEF Token
<1>3. tokens' = Append(tokens, t) /\ text' = text /\ Reads /\ status' = "parsing"
  BY DEF EndText, Reads, Lexing
<1> HIDE DEF t
<1>4. Counted => t.line = LineOf(t.from) /\ t.col = ColOf(t.from)
  BY <1>1, <1>2, <1>3, PositionsAreCounted DEF PlaceInv
<1>5. PositionsAreTrue'  BY <1>1, <1>3, <1>4, PositionsGrow DEF PlaceInv
<1>6. QED  BY <1>3, <1>5 DEF PlaceInv, Reads

LEMMA NextPlace ==
  ASSUME LexInv, PlaceInv, [Next]_vars
  PROVE  PlaceInv'
<1>1. CASE AddsToken
  <2>1. PICK t : Lexing /\ PlainToken(t) /\ Add(t)
    BY <1>1, TokensArePlain DEF LexInv, ReaderInv
  <2>2. QED  BY <2>1, AddPlaces
<1>2. CASE Returns \/ Finish
  <2>1. tokens' = <<>> /\ ~Reads'
    BY <1>2, ReturnKinds DEF Return, Finish, Reads
  <2>2. DOMAIN tokens' = {}  BY <2>1
  <2>3. QED  BY <2>1, <2>2 DEF PlaceInv, PositionsAreTrue, Reads
<1>3. CASE Consumes \/ Exit
  <2>1. text' = text /\ tokens' = tokens /\ literal' = literal /\ ~Reads'
    BY <1>3, ConsumeKinds DEF ToNext, Exit, Parsing, Reads
  <2>2. QED  BY <2>1, PlaceMoves DEF Reads
<1>4. CASE UNCHANGED vars
  BY <1>4, PlaceMoves DEF vars, Reads
<1>5. QED
  BY <1>1, <1>2, <1>3, <1>4, StepKinds, BlankPlaces, LineCommentPlaces, BlockCommentPlaces,
     BeginStringPlaces, StringCharPlaces, EndStringPlaces, EndTextPlaces

(* The line and column that are kept while a text is read, over newlines in  *)
(* blanks, comments, strings and behind backslashes, are for every token     *)
(* the ones that counting from the start of the text gives.                  *)
THEOREM PositionsAlwaysTrue == Spec => []PositionsAreTrue
<1>1. LexInv /\ PlaceInv /\ [Next]_vars => PlaceInv'  BY NextPlace
<1>2. PlaceInv => PositionsAreTrue  BY DEF PlaceInv
<1>3. QED  BY InitPlace, LexHolds, <1>1, <1>2, PTL DEF Spec

-----------------------------------------------------------------------------
(* The forms of Lexemes, and the characters at a place *)

LEMMA SameClasses ==
  /\ Longest!Space = Space /\ Longest!Octal = Octal /\ Longest!Digit = Digit
  /\ Longest!Hex = Hex /\ Longest!Letter = Letter /\ Longest!WordChar = WordChar
  /\ Longest!Mark = SingleCharOps
  /\ Longest!Operators = {<<m>> : m \in SingleCharOps} \cup TwoCharOps \cup ThreeCharOps
  BY DEF Longest!Space, Space, Lexemes!Space, Longest!Octal, Octal, Lexemes!Octal,
         Longest!Digit, Digit, Lexemes!Digit, Longest!Hex, Hex, Lexemes!Hex,
         Longest!Letter, Letter, Lexemes!Letter, Longest!WordChar, WordChar, Lexemes!WordChar,
         Longest!Mark, SingleCharOps, Lexemes!Mark, Longest!Operators, TwoCharOps, ThreeCharOps

\* The classes that no character is in two of.
LEMMA ClassesDiffer ==
  /\ Letter \cap (Space \cup Digit \cup SingleCharOps \cup {"quote", "apostrophe", "backslash", "@"}) = {}
  /\ Digit \cap (Space \cup SingleCharOps \cup {"quote", "apostrophe", "backslash", "@"}) = {}
  /\ SingleCharOps \cap (Space \cup {"quote", "apostrophe", "backslash", "@"}) = {}
  /\ Space \cap {"quote", "apostrophe", "backslash", "@"} = {}
  /\ WordChar = Letter \cup Digit
  /\ "x" \in Letter /\ "0" \in Digit /\ {"/", "*", "."} \subseteq SingleCharOps
  BY DEF Space, Lexemes!Space, WordChar, Lexemes!WordChar, SingleCharOps, Lexemes!Mark,
         Digit, Lexemes!Digit, Octal, Lexemes!Octal, Letter, Lexemes!Letter

LEMMA IsTwo ==
  ASSUME NEW i \in Int, NEW a, NEW b
  PROVE  Longest!Is(<<a, b>>, i, i + 1) <=> text[i] = a /\ text[i + 1] = b
<1>1. Len(<<a, b>>) = 2 /\ <<a, b>>[1] = a /\ <<a, b>>[2] = b  OBVIOUS
<1>2. (i + 1) - i + 1 = 2 /\ i + 1 - 1 = i /\ i + 2 - 1 = i + 1  OBVIOUS
<1>3. Longest!Is(<<a, b>>, i, i + 1) <=> \A k \in 1 .. 2 : text[i + k - 1] = <<a, b>>[k]
  BY <1>1, <1>2 DEF Longest!Is
<1>4. QED  BY <1>1, <1>2, <1>3

LEMMA IsPair ==
  ASSUME NEW i \in Int
  PROVE  /\ Longest!Is(<<"/", "/">>, i, i + 1) => text[i] = "/" /\ text[i + 1] = "/"
         /\ Longest!Is(<<"/", "*">>, i, i + 1) <=> text[i] = "/" /\ text[i + 1] = "*"
         /\ Longest!Is(<<"0", "x">>, i, i + 1) <=> text[i] = "0" /\ text[i + 1] = "x"
<1>1. Longest!Is(<<"/", "/">>, i, i + 1) <=> text[i] = "/" /\ text[i + 1] = "/"  BY IsTwo
<1>2. Longest!Is(<<"/", "*">>, i, i + 1) <=> text[i] = "/" /\ text[i + 1] = "*"  BY IsTwo
<1>3. Longest!Is(<<"0", "x">>, i, i + 1) <=> text[i] = "0" /\ text[i + 1] = "x"  BY IsTwo
<1>4. QED  BY <1>1, <1>2, <1>3

\* Operators are one mark, two or three.
LEMMA OperatorForms ==
  /\ \A o \in ThreeCharOps : \E c, d, e \in SingleCharOps : o = <<c, d, e>>
  /\ \A o \in TwoCharOps : \E c, d \in SingleCharOps : o = <<c, d>>
  BY DEF ThreeCharOps, TwoCharOps, SingleCharOps, Lexemes!Mark

LEMMA OperatorLengths ==
  ASSUME NEW o \in Longest!Operators
  PROVE  /\ Len(o) \in 1 .. 3
         /\ o[1] \in SingleCharOps
         /\ Len(o) = 2 => o \in TwoCharOps
         /\ Len(o) = 3 => o \in ThreeCharOps
<1>1. CASE o \in ThreeCharOps
  <2>1. PICK c \in SingleCharOps, d \in SingleCharOps, e \in SingleCharOps : o = <<c, d, e>>
    BY <1>1, OperatorForms
  <2>2. QED  BY <1>1, <2>1
<1>2. CASE o \in TwoCharOps
  <2>1. PICK c \in SingleCharOps, d \in SingleCharOps : o = <<c, d>>
    BY <1>2, OperatorForms
  <2>2. QED  BY <1>2, <2>1
<1>3. CASE o \in {<<m>> : m \in SingleCharOps}
  <2>1. PICK m \in SingleCharOps : o = <<m>>  BY <1>3
  <2>2. QED  BY <2>1
<1>4. QED  BY <1>1, <1>2, <1>3, SameClasses

LEMMA LexemeForms ==
  ASSUME NEW i, NEW j
  PROVE  /\ Longest!Form("word", i, j) <=> Longest!IsWord(i, j)
         /\ Longest!Form("operator", i, j) <=> Longest!IsOperator(i, j)
         /\ Longest!Form("string", i, j) <=> Longest!IsString(i, j)
         /\ Longest!Form("integer", i, j) <=> Longest!IsInteger(i, j) \/ Longest!IsChar(i, j)
         /\ Longest!Form("float", i, j) <=> Longest!IsFloat(i, j)
         /\ Longest!IsLexeme(i, j) <=>
              \/ Longest!IsWord(i, j) \/ Longest!IsOperator(i, j) \/ Longest!IsString(i, j)
              \/ Longest!IsInteger(i, j) \/ Longest!IsChar(i, j) \/ Longest!IsFloat(i, j)
<1>1. /\ Longest!Form("word", i, j) <=> Longest!IsWord(i, j)
      /\ Longest!Form("operator", i, j) <=> Longest!IsOperator(i, j)
      /\ Longest!Form("string", i, j) <=> Longest!IsString(i, j)
      /\ Longest!Form("integer", i, j) <=> Longest!IsInteger(i, j) \/ Longest!IsChar(i, j)
      /\ Longest!Form("float", i, j) <=> Longest!IsFloat(i, j)
  BY DEF Longest!Form
<1>2. QED  BY <1>1 DEF Longest!IsLexeme, Longest!Kinds

\* A place of the text that is not behind it.
Inside == 1 .. Len(text)

LEMMA InsideIs ==
  ASSUME IsText
  PROVE  /\ Len(text) \in Nat /\ Inside \subseteq Place /\ Inside \subseteq Nat \ {0}
         /\ \A i \in Inside : At(i) = text[i] /\ At(i) \in Lexemes!Char
         /\ \A i \in Place : i \in Inside <=> At(i) # "end"
         /\ \A i \in Place : i \notin Inside => i = Len(text) + 1
         /\ \A i \in Place : i # 1 => i - 1 \in Inside
  BY EndIsNoChar DEF IsText, Inside, Place, At

\* What the characters of a piece say of what is read.
LEMMA AllIs ==
  ASSUME IsText, NEW S, NEW i \in Inside, NEW j \in Int, j <= Len(text)
  PROVE  Longest!All(S, i, j) <=> \A k \in i .. j : At(k) \in S
  BY InsideIs DEF Longest!All, Inside

-----------------------------------------------------------------------------
(* What a form begins with *)

LEMMA PointedBegins ==
  ASSUME IsText, NEW i \in Inside, NEW j \in i .. Len(text), Longest!IsPointed(i, j)
  PROVE  At(i) \in Digit \/ (At(i) = "." /\ i < j /\ At(i + 1) \in Digit)
<1>1. PICK d \in i .. j :
    /\ text[d] = "."
    /\ Longest!All(Longest!Digit, i, d - 1) /\ Longest!All(Longest!Digit, d + 1, j)
    /\ d = i => d < j
  BY DEF Longest!IsPointed
<1>2. i \in Nat /\ Len(text) \in Nat  BY InsideIs
<1>3. CASE d = i
  <2>1. i + 1 \in d + 1 .. j /\ i + 1 \in Inside  BY <1>1, <1>2, <1>3 DEF Inside
  <2>2. text[i + 1] \in Digit  BY <1>1, <2>1, SameClasses DEF Longest!All
  <2>3. QED  BY <1>1, <1>2, <1>3, <2>1, <2>2, InsideIs
<1>4. CASE d # i
  <2>1. i \in i .. d - 1  BY <1>1, <1>2, <1>4
  <2>2. text[i] \in Digit  BY <1>1, <2>1, SameClasses DEF Longest!All
  <2>3. QED  BY <2>2, InsideIs
<1>5. QED  BY <1>3, <1>4

LEMMA Beginnings ==
  ASSUME IsText, NEW i \in Inside, NEW j \in i .. Len(text)
  PROVE  /\ Longest!IsWord(i, j) => At(i) \in Letter
         /\ Longest!IsOperator(i, j) => At(i) \in SingleCharOps
         /\ Longest!IsString(i, j) => At(i) = "quote"
         /\ Longest!IsChar(i, j) => At(i) = "apostrophe"
         /\ Longest!IsInteger(i, j) => At(i) \in Digit
         /\ Longest!IsFloat(i, j) =>
              At(i) \in Digit \/ (At(i) = "." /\ i < j /\ At(i + 1) \in Digit)
         /\ Longest!IsBlank(i, j) =>
              At(i) \in Space \/ (i < j /\ At(i) = "/" /\ At(i + 1) \in {"/", "*"})
<1>0. At(i) = text[i] /\ i \in Nat /\ Len(text) \in Nat /\ j \in Inside  BY InsideIs DEF Inside
<1>p. /\ Longest!Is(<<"/", "/">>, i, i + 1) => text[i] = "/" /\ text[i + 1] = "/"
      /\ Longest!Is(<<"/", "*">>, i, i + 1) => text[i] = "/" /\ text[i + 1] = "*"
      /\ Longest!Is(<<"0", "x">>, i, i + 1) => text[i] = "0" /\ text[i + 1] = "x"
  <2>1. i \in Int  BY <1>0
  <2>2. QED  BY <2>1, IsPair, Zenon
<1>1. Longest!IsWord(i, j) => At(i) \in Letter  BY <1>0, SameClasses DEF Longest!IsWord
<1>2. Longest!IsOperator(i, j) => At(i) \in SingleCharOps
  <2>1. SUFFICES ASSUME NEW o \in Longest!Operators, Longest!Is(o, i, j)
                 PROVE  At(i) \in SingleCharOps
    BY DEF Longest!IsOperator
  <2>2. Len(o) \in 1 .. 3 /\ o[1] \in SingleCharOps  BY OperatorLengths
  <2>3. text[i + 1 - 1] = o[1]  BY <2>1, <2>2 DEF Longest!Is
  <2>4. QED  BY <1>0, <2>2, <2>3
<1>3. Longest!IsString(i, j) => At(i) = "quote"  BY <1>0 DEF Longest!IsString
<1>4. Longest!IsChar(i, j) => At(i) = "apostrophe"  BY <1>0 DEF Longest!IsChar
<1>5. \A k \in i .. j : Longest!IsDecimal(i, k) => At(i) \in Digit
  BY <1>0, SameClasses DEF Longest!IsDecimal, Longest!All
<1>6. j > i /\ Longest!Is(<<"0", "x">>, i, i + 1) => At(i) \in Digit
  BY <1>0, <1>p, ClassesDiffer
<1>7. Longest!IsInteger(i, j) => At(i) \in Digit
  BY <1>5, <1>6 DEF Longest!IsInteger
<1>8. Longest!IsFloat(i, j) =>
        At(i) \in Digit \/ (At(i) = "." /\ i < j /\ At(i + 1) \in Digit)
  <2>1. \A k \in i .. j : Longest!IsPointed(i, k) =>
          At(i) \in Digit \/ (At(i) = "." /\ i < k /\ At(i + 1) \in Digit)
    BY <1>0, PointedBegins
  <2>2. \A k \in i .. j : i < k => i < j  BY <1>0
  <2>3. j > i + 1 => j > i  BY <1>0
  <2>4. Longest!IsFloat(i, j) =>
          \/ \E k \in i .. j : Longest!IsDecimal(i, k) \/ Longest!IsPointed(i, k)
          \/ j > i + 1 /\ Longest!Is(<<"0", "x">>, i, i + 1)
    BY DEF Longest!IsFloat
  <2>5. QED  BY <1>5, <1>6, <2>1, <2>2, <2>3, <2>4
<1>9. Longest!IsBlank(i, j) =>
        At(i) \in Space \/ (i < j /\ At(i) = "/" /\ At(i + 1) \in {"/", "*"})
  <2>1. Longest!All(Longest!Space, i, j) => At(i) \in Space
    BY <1>0, SameClasses DEF Longest!All
  <2>2. i < j => i + 1 \in Inside  BY <1>0 DEF Inside
  <2>3. Longest!IsLineComment(i, j) => i < j /\ At(i) = "/" /\ At(i + 1) = "/"
    BY <1>0, <1>p, <2>2, InsideIs DEF Longest!IsLineComment
  <2>4. Longest!IsBlockComment(i, j) => i < j /\ At(i) = "/" /\ At(i + 1) = "*"
    <3>1. j > i + 2 => i < j  BY <1>0
    <3>2. QED  BY <1>0, <2>2, <1>p, <3>1, InsideIs DEF Longest!IsBlockComment
  <2>5. QED  BY <2>1, <2>3, <2>4 DEF Longest!IsBlank
<1>10. QED  BY <1>1, <1>2, <1>3, <1>4, <1>7, <1>8, <1>9

\* What a character begins is of the forms that begin with it.
LEMMA OnlyForm ==
  ASSUME IsText, NEW i \in Inside, NEW j \in i .. Len(text),
         Longest!IsLexeme(i, j) \/ Longest!IsBlank(i, j)
  PROVE  /\ At(i) \in Letter => Longest!IsWord(i, j)
         /\ At(i) = "quote" => Longest!IsString(i, j)
         /\ At(i) = "apostrophe" => Longest!IsChar(i, j)
         /\ At(i) \in Digit => Longest!IsInteger(i, j) \/ Longest!IsFloat(i, j)
         /\ At(i) = "." => Longest!IsOperator(i, j) \/ Longest!IsFloat(i, j)
         /\ /\ At(i) \in SingleCharOps
            /\ ~(At(i) = "." /\ At(i + 1) \in Digit)
            /\ ~(At(i) = "/" /\ At(i + 1) \in {"/", "*"})
            => Longest!IsOperator(i, j)
         /\ At(i) \notin {"backslash", "@"}
<1> DEFINE c == At(i)
           d == At(i + 1)
<1>1. /\ Longest!IsWord(i, j) => c \in Letter
      /\ Longest!IsOperator(i, j) => c \in SingleCharOps
      /\ Longest!IsString(i, j) => c = "quote"
      /\ Longest!IsChar(i, j) => c = "apostrophe"
      /\ Longest!IsInteger(i, j) => c \in Digit
      /\ Longest!IsFloat(i, j) => c \in Digit \/ (c = "." /\ d \in Digit)
      /\ Longest!IsBlank(i, j) => c \in Space \/ (c = "/" /\ d \in {"/", "*"})
  BY Beginnings
<1>2. \/ Longest!IsWord(i, j) \/ Longest!IsOperator(i, j) \/ Longest!IsString(i, j)
      \/ Longest!IsInteger(i, j) \/ Longest!IsChar(i, j) \/ Longest!IsFloat(i, j)
      \/ Longest!IsBlank(i, j)
  BY LexemeForms
<1> HIDE DEF c, d
<1>3. QED  BY <1>1, <1>2, ClassesDiffer DEF c, d

LEMMA PastBound ==
  ASSUME NEW S, "end" \notin S, IsText, NEW i \in Place, NEW j \in Int, i <= j,
         \A k \in i .. j : At(k) \in S
  PROVE  j < Past(S, i)
<1>1. Past(S, i) \in Place /\ i <= Past(S, i) /\ At(Past(S, i)) \notin S  BY PastEnds
<1>2. Past(S, i) \in Int /\ i \in Int  BY <1>1, InsideIs DEF Place
<1> DEFINE q == Past(S, i)
<1> HIDE DEF q
<1>3. ~(q \in i .. j)  BY <1>1 DEF q
<1>4. QED  BY <1>1, <1>2, <1>3 DEF q

LEMMA PastIs ==
  ASSUME NEW S, "end" \notin S, IsText, NEW i \in Place, NEW j \in Place, i <= j,
         \A k \in i .. j - 1 : At(k) \in S, At(j) \notin S
  PROVE  Past(S, i) = j
<1> DEFINE q == Past(S, i)
<1>1. q \in Place /\ i <= q /\ At(q) \notin S /\ \A k \in i .. q - 1 : At(k) \in S
  BY PastEnds
<1> HIDE DEF q
<1>2. q \in Int /\ i \in Int /\ j \in Int  BY <1>1, InsideIs DEF Place
<1>3. ~(q < j)  BY <1>1, <1>2
<1>4. ~(j < q)  BY <1>1, <1>2
<1>5. q = j  BY <1>2, <1>3, <1>4
<1>6. QED  BY <1>5 DEF q

-----------------------------------------------------------------------------
(* What the branches take is the longest lexeme there *)

\* Nothing that can be read at i goes on behind j.
Bounds(i, j) ==
  \A k \in i .. Len(text) : Longest!IsLexeme(i, k) \/ Longest!IsBlank(i, k) => k <= j

LEMMA WordTaken ==
  ASSUME IsText, p \in Inside, At(p) \in Letter
  PROVE  LET to == Past(WordChar, p) IN
         Longest!IsWord(p, to - 1) /\ Bounds(p, to - 1)
<1> DEFINE to == Past(WordChar, p)
<1>1. p \in Place /\ Len(text) \in Nat /\ At(p) = text[p] /\ p \in Nat  BY InsideIs
<1>2. "end" \notin WordChar  BY EndIsNoChar
<1>3. to \in Place /\ p <= to /\ \A k \in p .. to - 1 : At(k) \in WordChar
  BY <1>1, <1>2, PastEnds
<1>4. to \in Int /\ to - 1 <= Len(text)  BY <1>1, <1>3 DEF Place
<1> HIDE DEF to
<1>5. Longest!IsWord(p, to - 1)
  <2>1. Longest!All(WordChar, p, to - 1)  BY <1>3, <1>4, AllIs
  <2>2. QED  BY <1>1, <2>1, SameClasses DEF Longest!IsWord
<1>6. ASSUME NEW k \in p .. Len(text), Longest!IsLexeme(p, k) \/ Longest!IsBlank(p, k)
      PROVE  k <= to - 1
  <2>1. Longest!IsWord(p, k)  BY <1>6, OnlyForm
  <2>2. Longest!All(WordChar, p, k)  BY <2>1, SameClasses DEF Longest!IsWord
  <2>3. k \in Int /\ k <= Len(text) /\ p <= k  BY <1>1
  <2>4. \A m \in p .. k : At(m) \in WordChar  BY <2>2, <2>3, AllIs
  <2>5. k < to  BY <1>1, <1>2, <2>3, <2>4, PastBound DEF to
  <2>6. QED  BY <1>4, <2>3, <2>5
<1>7. QED  BY <1>5, <1>6 DEF Bounds, to

LEMMA StartsIs ==
  ASSUME IsText, p \in Inside, NEW k \in p .. Len(text), NEW o \in Longest!Operators
  PROVE  Longest!Is(o, p, k) <=> k - p + 1 = Len(o) /\ Starts(o, p)
<1>1. Len(o) \in 1 .. 3  BY OperatorLengths
<1>2. p \in Nat \ {0} /\ Len(text) \in Nat  BY InsideIs
<1>3. SUFFICES ASSUME k - p + 1 = Len(o)
               PROVE  \A m \in 1 .. Len(o) : At(p + m - 1) = text[p + m - 1]
  BY DEF Longest!Is, Starts
<1>4. TAKE m \in 1 .. Len(o)
<1>5. p + m - 1 \in Inside  BY <1>1, <1>2, <1>3 DEF Inside
<1>6. QED  BY <1>5, InsideIs

LEMMA OperatorTaken ==
  ASSUME IsText, p \in Place, OperatorLength > 0, ~AtLineComment, ~AtBlockComment
  PROVE  /\ Longest!IsOperator(p, p + OperatorLength - 1)
         /\ Bounds(p, p + OperatorLength - 1)
         /\ At(p) \in SingleCharOps
<1> DEFINE n == OperatorLength
<1>1. n \in 1 .. 3 /\ p + n \in Place /\ \A k \in p .. p + n - 1 : At(k) \in SingleCharOps
  BY OperatorEnds
<1>2. Len(text) \in Nat /\ p \in Nat \ {0}  BY InsideIs DEF Place
<1>3. p + n - 1 \in p .. Len(text) /\ p \in Inside  BY <1>1, <1>2 DEF Place, Inside
<1>4. At(p) \in SingleCharOps  BY <1>1, <1>2
<1>5. /\ (\E o \in ThreeCharOps : Starts(o, p)) => n = 3
      /\ (\E o \in TwoCharOps : Starts(o, p)) => n >= 2
      /\ n = 3 => \E o \in ThreeCharOps : Starts(o, p)
      /\ n = 2 => \E o \in TwoCharOps : Starts(o, p)
      /\ n = 1 => ~StartsNumber
  BY DEF OperatorLength
<1> HIDE DEF n
<1>6. \E o \in Longest!Operators : Len(o) = n /\ Starts(o, p)
  <2>1. CASE n = 3
    <3>1. PICK o \in ThreeCharOps : Starts(o, p)  BY <1>5, <2>1
    <3>2. Len(o) = 3  BY <3>1, OperatorForms
    <3>3. QED  BY <2>1, <3>1, <3>2, SameClasses
  <2>2. CASE n = 2
    <3>1. PICK o \in TwoCharOps : Starts(o, p)  BY <1>5, <2>2
    <3>2. Len(o) = 2  BY <3>1, OperatorForms
    <3>3. QED  BY <2>2, <3>1, <3>2, SameClasses
  <2>3. CASE n = 1
    <3> DEFINE o == <<At(p)>>
    <3>1. o \in Longest!Operators  BY <1>4, SameClasses
    <3>2. Len(o) = 1 /\ o[1] = At(p)  OBVIOUS
    <3>3. Starts(o, p)  BY <1>2, <3>2 DEF Starts
    <3>4. QED  BY <2>3, <3>1, <3>2, <3>3
  <2>4. QED  BY <1>1, <2>1, <2>2, <2>3
<1>7. Longest!IsOperator(p, p + n - 1)
  <2>1. PICK o \in Longest!Operators : Len(o) = n /\ Starts(o, p)  BY <1>6
  <2>2. (p + n - 1) - p + 1 = n  BY <1>1, <1>2
  <2>3. QED  BY <1>3, <2>1, <2>2, StartsIs DEF Longest!IsOperator
<1>8. ~(At(p) = "." /\ At(p + 1) \in Digit)
  <2>1. CASE n = 1  BY <1>5, <2>1 DEF StartsNumber
  <2>2. CASE n # 1
    <3>1. p + 1 \in p .. p + n - 1  BY <1>1, <1>2, <2>2
    <3>2. QED  BY <1>1, <3>1, ClassesDiffer
  <2>3. QED  BY <2>1, <2>2
<1>9. ~(At(p) = "/" /\ At(p + 1) \in {"/", "*"})
  <2>1. At(p + 1 - 1) = At(p) /\ At(p + 2 - 1) = At(p + 1)  BY <1>2
  <2>2. \A c, d : At(p) = c /\ At(p + 1) = d => Starts(<<c, d>>, p)
    <3>1. TAKE c, d
    <3>2. Len(<<c, d>>) = 2 /\ <<c, d>>[1] = c /\ <<c, d>>[2] = d  OBVIOUS
    <3>3. QED  BY <2>1, <3>2 DEF Starts
  <2>3. QED  BY <2>2, Zenon DEF AtLineComment, AtBlockComment
<1>10. ASSUME NEW k \in p .. Len(text), Longest!IsLexeme(p, k) \/ Longest!IsBlank(p, k)
       PROVE  k <= p + n - 1
  <2>1. Longest!IsOperator(p, k)  BY <1>3, <1>4, <1>8, <1>9, <1>10, OnlyForm
  <2>2. PICK o \in Longest!Operators : Longest!Is(o, p, k)  BY <2>1 DEF Longest!IsOperator
  <2>3. k - p + 1 = Len(o) /\ Starts(o, p)  BY <1>3, <2>2, StartsIs
  <2>4. Len(o) \in 1 .. 3 /\ (Len(o) = 2 => o \in TwoCharOps) /\ (Len(o) = 3 => o \in ThreeCharOps)
    BY OperatorLengths
  <2>5. Len(o) <= n  BY <1>1, <1>5, <2>3, <2>4
  <2>6. QED  BY <1>1, <1>2, <2>3, <2>4, <2>5
<1>11. QED  BY <1>4, <1>7, <1>10 DEF Bounds, n

\* An escape that a character of no escape follows ends where it is read to.
LEMMA EscapeIs ==
  ASSUME IsText, NEW b \in Inside, NEW k \in Inside, b + 1 < k, At(k) = "apostrophe",
         Longest!IsEscape(b, k - 1)
  PROVE  AfterEscape(b + 1) = k
<1> DEFINE i == b + 1
<1>1. b \in Nat /\ k \in Nat /\ Len(text) \in Nat /\ k <= Len(text)  BY InsideIs DEF Inside
<1>2. i \in Inside /\ i \in Nat /\ i + 1 \in Place /\ k \in Place /\ i + 1 <= k
  BY <1>1 DEF Inside, Place
<1>3. At(i) = text[i] /\ At(i) # "end"  BY <1>2, InsideIs, EndIsNoChar
<1>4. /\ "end" \notin Hex /\ "end" \notin Octal /\ "apostrophe" \notin Hex
      /\ "apostrophe" \notin Octal /\ "x" \notin Octal /\ Octal \subseteq Hex
  BY EndIsNoChar DEF Hex, Lexemes!Hex, Digit, Lexemes!Digit, Octal, Lexemes!Octal
<1>5. \/ At(i) = "x" /\ k <= i + 3 /\ \A m \in i + 1 .. k - 1 : At(m) \in Hex
      \/ k <= i + 3 /\ \A m \in i .. k - 1 : At(m) \in Octal
      \/ k = i + 1
  <2>1. k - 1 <= b + 3 => k <= i + 3  BY <1>1
  <2>2. k - 1 = b + 1 => k = i + 1  BY <1>1
  <2>3. Longest!All(Longest!Octal, b + 1, k - 1) => \A m \in i .. k - 1 : At(m) \in Octal
    BY <1>1, <1>2, AllIs, SameClasses
  <2>4. Longest!All(Longest!Hex, b + 2, k - 1) => \A m \in i + 1 .. k - 1 : At(m) \in Hex
    <3>1. SUFFICES ASSUME Longest!All(Longest!Hex, b + 2, k - 1), NEW m \in i + 1 .. k - 1
                   PROVE  At(m) \in Hex
      OBVIOUS
    <3>2. m \in b + 2 .. k - 1 /\ m \in Inside  BY <1>1, <1>2 DEF Inside
    <3>3. QED  BY <3>1, <3>2, InsideIs, SameClasses DEF Longest!All
  <2>5. \/ text[b + 1] = "x" /\ k - 1 <= b + 3 /\ Longest!All(Longest!Hex, b + 2, k - 1)
        \/ k - 1 <= b + 3 /\ Longest!All(Longest!Octal, b + 1, k - 1)
        \/ k - 1 = b + 1
    BY DEF Longest!IsEscape
  <2>6. QED  BY <1>3, <2>1, <2>2, <2>3, <2>4, <2>5
<1> HIDE DEF i
<1>6. CASE At(i) = "x"
  <2>1. k <= i + 3 /\ \A m \in i + 1 .. k - 1 : At(m) \in Hex
    <3>1. CASE k = i + 1  BY <1>2, <3>1
    <3>2. CASE k # i + 1  BY <1>2, <1>4, <1>5, <1>6, <3>2
    <3>3. QED  BY <3>1, <3>2
  <2>2. Past(Hex, i + 1) = k  BY <1>2, <1>4, <2>1, PastIs
  <2>3. AtMost(2, Hex, i + 1) = k
    <3>1. ~(k > i + 1 + 2)  BY <1>1, <1>2, <2>1
    <3>2. QED  BY <2>2, <3>1 DEF AtMost
  <2>4. QED  BY <1>6, <2>3 DEF AfterEscape, i
<1>7. CASE At(i) # "x" /\ At(i) \in Octal
  <2>1. k <= i + 3 /\ \A m \in i .. k - 1 : At(m) \in Octal
    <3>1. CASE k = i + 1  BY <1>2, <1>7, <3>1
    <3>2. CASE k # i + 1  BY <1>2, <1>5, <1>7, <3>2
    <3>3. QED  BY <3>1, <3>2
  <2>2. Past(Octal, i) = k
    <3>1. i \in Place /\ i <= k  BY <1>1, <1>2, InsideIs
    <3>2. QED  BY <1>2, <1>4, <2>1, <3>1, PastIs
  <2>3. AtMost(3, Octal, i) = k
    <3>1. ~(k > i + 3)  BY <1>1, <1>2, <2>1
    <3>2. QED  BY <2>2, <3>1 DEF AtMost
  <2>4. QED  BY <1>7, <2>3 DEF AfterEscape, i
<1>8. CASE At(i) # "x" /\ At(i) \notin Octal
  <2>1. k = i + 1
    <3>1. i \in i .. k - 1  BY <1>1, <1>2
    <3>2. QED  BY <1>5, <1>8, <3>1
  <2>2. AfterEscape(i) = i + 1  BY <1>3, <1>8 DEF AfterEscape
  <2>3. QED  BY <2>1, <2>2 DEF i
<1>9. QED  BY <1>6, <1>7, <1>8

LEMMA EscapeTaken ==
  ASSUME IsText, NEW b \in Inside, At(b) = "backslash", b + 1 \in Inside
  PROVE  Longest!IsEscape(b, AfterEscape(b + 1) - 1)
<1> DEFINE i == b + 1
           e == AfterEscape(i)
           j == e - 1
<1>1. b \in Nat /\ Len(text) \in Nat /\ text[b] = "backslash"  BY InsideIs
<1>2. i \in Inside /\ i \in Nat /\ i \in Place /\ At(i) = text[i] /\ At(i) # "end"
  BY <1>1, InsideIs, EndIsNoChar
<1>3. e \in Place /\ i < e  BY <1>2, AfterEscapeEnds DEF Place
<1>4. e \in Int /\ j \in Int /\ j <= Len(text) /\ j > b  BY <1>1, <1>2, <1>3 DEF Place
<1>5. "end" \notin Hex /\ "end" \notin Octal  BY EndIsNoChar
<1>6. CASE At(i) = "x"
  <2>1. e = AtMost(2, Hex, i + 1)  BY <1>6 DEF AfterEscape
  <2>2. i + 1 \in Place  BY <1>2, InText
  <2>3. \A k \in i + 1 .. e - 1 : At(k) \in Hex  BY <1>5, <2>1, <2>2, AtMostEnds
  <2>4. Past(Hex, i + 1) \in Int  BY <1>5, <2>2, PastEnds, InsideIs DEF Place
  <2>5. e <= i + 3  BY <1>2, <2>1, <2>4 DEF AtMost
  <2> HIDE DEF e
  <2>6. j <= b + 3  BY <1>1, <1>4, <2>5
  <2>7. Longest!All(Longest!Hex, b + 2, j)
    <3>1. \A k \in b + 2 .. j : k \in i + 1 .. e - 1 /\ k \in Inside
      BY <1>1, <1>4 DEF Inside
    <3>2. QED  BY <2>3, <3>1, InsideIs, SameClasses DEF Longest!All
  <2>8. QED  BY <1>1, <1>2, <1>4, <1>6, <2>6, <2>7 DEF Longest!IsEscape, e
<1>7. CASE At(i) # "x" /\ At(i) \in Octal
  <2>1. e = AtMost(3, Octal, i)  BY <1>7 DEF AfterEscape
  <2>2. \A k \in i .. e - 1 : At(k) \in Octal  BY <1>2, <1>5, <2>1, AtMostEnds
  <2>3. Past(Octal, i) \in Int  BY <1>2, <1>5, PastEnds, InsideIs DEF Place
  <2>4. e <= i + 3  BY <1>2, <2>1, <2>3 DEF AtMost
  <2> HIDE DEF e
  <2>5. j <= b + 3  BY <1>1, <1>4, <2>4
  <2>6. Longest!All(Longest!Octal, b + 1, j)
    BY <1>2, <1>4, <2>2, AllIs, SameClasses
  <2>7. QED  BY <1>1, <1>4, <2>5, <2>6 DEF Longest!IsEscape, e
<1>8. CASE At(i) # "x" /\ At(i) \notin Octal
  <2>1. e = i + 1  BY <1>2, <1>8 DEF AfterEscape
  <2>2. j = b + 1  BY <1>1, <2>1
  <2>3. QED  BY <1>1, <1>4, <2>2 DEF Longest!IsEscape
<1>9. QED  BY <1>6, <1>7, <1>8

LEMMA CharIs ==
  ASSUME IsText, p \in Inside, NEW k \in p .. Len(text), Longest!IsChar(p, k)
  PROVE  k = AfterChar /\ IsCharLiteral
<1>1. p \in Nat /\ Len(text) \in Nat /\ k \in Inside  BY InsideIs DEF Inside
<1>2. /\ k > p + 1 /\ text[k] = "apostrophe"
      /\ \/ k = p + 2 /\ text[p + 1] \notin {"apostrophe", "newline", "backslash"}
         \/ Longest!IsEscape(p + 1, k - 1)
  BY DEF Longest!IsChar
<1>3. p + 1 \in Inside  BY <1>1, <1>2 DEF Inside
<1>4. At(k) = "apostrophe" /\ At(p + 1) = text[p + 1] /\ At(p + 1) # "end"
  BY <1>1, <1>2, <1>3, InsideIs, EndIsNoChar
<1>5. CASE text[p + 1] = "backslash"
  <2>1. Longest!IsEscape(p + 1, k - 1)  BY <1>2, <1>5
  <2>2. (p + 1) + 1 < k
    <3>1. k - 1 > p + 1  BY <2>1 DEF Longest!IsEscape
    <3>2. QED  BY <1>1, <3>1
  <2>3. AfterEscape((p + 1) + 1) = k  BY <1>1, <1>3, <1>4, <2>1, <2>2, EscapeIs
  <2>4. (p + 1) + 1 = p + 2  BY <1>1
  <2>5. AfterChar = k  BY <1>4, <1>5, <2>3, <2>4 DEF AfterChar
  <2>6. QED  BY <1>4, <1>5, <2>5 DEF IsCharLiteral
<1>6. CASE text[p + 1] # "backslash"
  <2>1. ~Longest!IsEscape(p + 1, k - 1)  BY <1>6 DEF Longest!IsEscape
  <2>2. k = p + 2 /\ text[p + 1] \notin {"apostrophe", "newline"}  BY <1>2, <2>1
  <2>3. AfterChar = k  BY <1>4, <1>6, <2>2 DEF AfterChar
  <2>4. QED  BY <1>4, <2>2, <2>3 DEF IsCharLiteral
<1>7. QED  BY <1>5, <1>6

LEMMA CharTaken ==
  ASSUME IsText, p \in Inside, At(p) = "apostrophe", IsCharLiteral
  PROVE  Longest!IsChar(p, AfterChar) /\ Bounds(p, AfterChar)
<1>1. p \in Nat /\ Len(text) \in Nat /\ p \in Place  BY InsideIs
<1>2. AfterChar \in Place /\ AfterChar + 1 \in Place /\ p < AfterChar
  BY <1>1, CharLiteralEnds
<1>3. AfterChar \in Inside /\ AfterChar \in Nat  BY <1>1, <1>2 DEF Place, Inside
<1>4. /\ At(p + 1) \notin {"end", "apostrophe", "newline"}
      /\ At(AfterChar) = "apostrophe"
  BY DEF IsCharLiteral
<1>5. p + 1 \in Inside
  <2>1. p + 1 \in Place  BY <1>1, InText, EndIsNoChar
  <2>2. QED  BY <1>4, <2>1, InsideIs
<1>6. text[p] = "apostrophe" /\ text[AfterChar] = "apostrophe" /\ text[p + 1] = At(p + 1)
  BY <1>3, <1>4, <1>5, InsideIs
<1>7. AfterChar > p + 1
  <2>1. AfterChar # p + 1  BY <1>4
  <2>2. QED  BY <1>1, <1>2, <1>3, <2>1
<1>8. Longest!IsChar(p, AfterChar)
  <2>1. CASE At(p + 1) = "backslash"
    <3>1. AfterChar = AfterEscape((p + 1) + 1)
      <4>1. (p + 1) + 1 = p + 2  BY <1>1
      <4>2. QED  BY <2>1, <4>1 DEF AfterChar
    <3>2. (p + 1) + 1 \in Inside
      <4>1. (p + 1) + 1 \in Place  BY <1>4, <1>5, InText, InsideIs
      <4>2. At((p + 1) + 1) # "end"
        <5>1. SUFFICES ASSUME At((p + 1) + 1) = "end" PROVE FALSE  OBVIOUS
        <5>2. AfterEscape((p + 1) + 1) = (p + 1) + 1
          <6>1. "end" \notin Octal  BY EndIsNoChar
          <6>2. QED  BY <5>1, <6>1 DEF AfterEscape
        <5>3. QED  BY <1>4, <3>1, <5>1, <5>2
      <4>3. QED  BY <4>1, <4>2, InsideIs
    <3>3. Longest!IsEscape(p + 1, AfterChar - 1)  BY <1>5, <2>1, <3>1, <3>2, EscapeTaken
    <3>4. QED  BY <1>6, <1>7, <3>3 DEF Longest!IsChar
  <2>2. CASE At(p + 1) # "backslash"
    <3>1. AfterChar = p + 2  BY <2>2 DEF AfterChar
    <3>2. QED  BY <1>4, <1>6, <1>7, <2>2, <3>1 DEF Longest!IsChar
  <2>3. QED  BY <2>1, <2>2
<1>9. ASSUME NEW k \in p .. Len(text), Longest!IsLexeme(p, k) \/ Longest!IsBlank(p, k)
      PROVE  k <= AfterChar
  <2>1. Longest!IsChar(p, k)  BY <1>9, OnlyForm
  <2>2. k = AfterChar  BY <2>1, CharIs
  <2>3. QED  BY <1>3, <2>2
<1>10. QED  BY <1>8, <1>9 DEF Bounds

LEMMA SuffixIs ==
  ASSUME IsText, NEW S, "end" \notin S, NEW e \in Place, NEW k \in Int, k <= Len(text),
         Longest!Optional(S, e, k)
  PROVE  k < Over(S, e)
<1>1. e \in Nat /\ Len(text) \in Nat  BY InsideIs DEF Place
<1>2. Over(S, e) \in e .. e + 1  BY OverEnds
<1>3. CASE k < e  BY <1>1, <1>2, <1>3
<1>4. CASE ~(k < e)
  <2>1. k = e /\ text[e] \in S  BY <1>4 DEF Longest!Optional
  <2>2. e \in Inside  BY <1>1, <2>1 DEF Inside, Place
  <2>3. Over(S, e) = e + 1  BY <2>1, <2>2, InsideIs DEF Over
  <2>4. QED  BY <1>1, <2>1, <2>3
<1>5. QED  BY <1>3, <1>4

LEMMA SuffixTaken ==
  ASSUME IsText, NEW S, "end" \notin S, NEW e \in Place
  PROVE  Longest!Optional(S, e, Over(S, e) - 1) /\ Over(S, e) - 1 <= e
<1>1. e \in Nat  BY DEF Place
<1>2. CASE At(e) \in S
  <2>1. e \in Inside  BY <1>2, InsideIs
  <2>2. Over(S, e) = e + 1 /\ (e + 1) - 1 = e  BY <1>1, <1>2 DEF Over
  <2>3. text[e] \in S  BY <1>2, <2>1, InsideIs
  <2>4. QED  BY <1>1, <2>2, <2>3 DEF Longest!Optional
<1>3. CASE At(e) \notin S
  <2>1. Over(S, e) = e /\ e - 1 < e /\ e - 1 <= e  BY <1>1, <1>3 DEF Over
  <2>2. QED  BY <2>1 DEF Longest!Optional
<1>4. QED  BY <1>2, <1>3

LEMMA ExponentIs ==
  ASSUME IsText, NEW letter, NEW i \in Inside, NEW m \in i .. Len(text),
         Longest!IsExponent(letter, i, m)
  PROVE  At(i) = letter /\ m < AfterExponent(i)
<1> DEFINE n == i + 1
           s == Over({"+", "-"}, n)
<1>1. i \in Nat /\ Len(text) \in Nat /\ m \in Nat /\ i <= m /\ m <= Len(text) /\ i \in Place
  BY InsideIs
<1>2. At(i) = letter /\ At(i) # "end"  BY InsideIs, EndIsNoChar DEF Longest!IsExponent
<1>3. n \in Place  BY <1>1, <1>2, InText
<1>4. "end" \notin Digit /\ "end" \notin {"+", "-"} /\ Digit \cap {"+", "-"} = {}
  BY EndIsNoChar, ClassesDiffer DEF Digit, Lexemes!Digit, Lexemes!Octal
<1>5. s \in Place /\ s \in n .. n + 1  BY <1>3, <1>4, OverEnds
<1>6. Past(Digit, s) \in Place /\ s <= Past(Digit, s)  BY <1>4, <1>5, PastEnds
<1>7. AfterExponent(i) = Past(Digit, s) /\ Past(Digit, s) \in Nat
  BY <1>6 DEF AfterExponent, Place
<1>8. \/ Longest!All(Digit, i + 1, m)
      \/ i < m /\ text[i + 1] \in {"+", "-"} /\ Longest!All(Digit, i + 2, m)
  BY SameClasses DEF Longest!IsExponent
<1>9. \A k \in n .. m : k \in Inside /\ At(k) = text[k]  BY <1>1, InsideIs DEF Inside
<1>10. CASE m = i
  <2>1. m < s /\ s \in Nat  BY <1>1, <1>5, <1>10
  <2> HIDE DEF s
  <2>2. m < Past(Digit, s)  BY <1>1, <1>6, <1>7, <2>1
  <2>3. QED  BY <1>2, <1>7, <2>2
<1>11. CASE m # i
  <2>1. n \in n .. m  BY <1>1, <1>11
  <2>2. CASE Longest!All(Digit, i + 1, m)
    <3>1. \A k \in n .. m : At(k) \in Digit  BY <1>9, <2>2 DEF Longest!All
    <3>2. s = n  BY <1>4, <2>1, <3>1 DEF Over
    <3>3. n <= m  BY <2>1
    <3> HIDE DEF n, s
    <3>4. m < Past(Digit, s)  BY <1>1, <1>4, <1>5, <3>1, <3>2, <3>3, PastBound
    <3>5. QED  BY <1>2, <1>7, <3>4
  <2>3. CASE text[i + 1] \in {"+", "-"} /\ Longest!All(Digit, i + 2, m)
    <3>1. At(n) \in {"+", "-"}  BY <1>9, <2>1, <2>3
    <3>2. s = n + 1  BY <3>1 DEF Over
    <3>3. \A k \in s .. m : At(k) \in Digit
      <4>1. TAKE k \in s .. m
      <4>2. k \in i + 2 .. m /\ k \in n .. m  BY <1>1, <3>2
      <4>3. QED  BY <1>9, <2>3, <4>2 DEF Longest!All
    <3>4. CASE s <= m
      <4> HIDE DEF n, s
      <4>1. m < Past(Digit, s)  BY <1>1, <1>4, <1>5, <3>3, <3>4, PastBound
      <4>2. QED  BY <1>2, <1>7, <4>1
    <3>5. CASE ~(s <= m)  BY <1>1, <1>2, <1>5, <1>6, <1>7, <3>5
    <3>6. QED  BY <3>4, <3>5
  <2>4. QED  BY <1>8, <2>2, <2>3
<1>12. QED  BY <1>2, <1>10, <1>11

LEMMA ExponentTaken ==
  ASSUME IsText, NEW letter, NEW i \in Inside, At(i) = letter
  PROVE  /\ AfterExponent(i) \in Place /\ i < AfterExponent(i)
         /\ Longest!IsExponent(letter, i, AfterExponent(i) - 1)
<1> DEFINE n == i + 1
           s == Over({"+", "-"}, n)
           x == AfterExponent(i)
<1>1. i \in Nat /\ Len(text) \in Nat /\ i \in Place /\ At(i) = text[i] /\ At(i) # "end"
  BY InsideIs, EndIsNoChar
<1>2. x \in Place /\ i < x  BY <1>1, ExponentEnds
<1>3. n \in Place  BY <1>1, InText
<1>4. "end" \notin Digit /\ "end" \notin {"+", "-"}  BY EndIsNoChar
<1>5. s \in Place /\ s \in n .. n + 1  BY <1>3, <1>4, OverEnds
<1>6. s <= x /\ \A k \in s .. x - 1 : At(k) \in Digit
  <2>1. x = Past(Digit, s)  BY DEF AfterExponent
  <2>2. QED  BY <1>4, <1>5, <2>1, PastEnds
<1>7. x \in Nat /\ x - 1 <= Len(text) /\ i <= x - 1  BY <1>1, <1>2 DEF Place
<1> HIDE DEF x
<1>8. \A k \in s .. x - 1 : text[k] \in Digit
  <2>1. \A k \in s .. x - 1 : k \in Inside  BY <1>1, <1>5, <1>7 DEF Inside
  <2>2. QED  BY <1>6, <2>1, InsideIs
<1>9. CASE At(n) \in {"+", "-"}
  <2>1. s = i + 2  BY <1>1, <1>9 DEF Over
  <2>2. i < x - 1  BY <1>1, <1>6, <1>7, <2>1
  <2>3. n \in Inside  BY <1>3, <1>9, InsideIs
  <2>4. text[i + 1] \in {"+", "-"}  BY <1>9, <2>3, InsideIs
  <2>5. Longest!All(Digit, i + 2, x - 1)  BY <1>8, <2>1 DEF Longest!All
  <2>6. QED  BY <1>1, <1>2, <1>7, <2>2, <2>4, <2>5, SameClasses DEF Longest!IsExponent, x
<1>10. CASE At(n) \notin {"+", "-"}
  <2>1. s = i + 1  BY <1>10 DEF Over
  <2>2. Longest!All(Digit, i + 1, x - 1)  BY <1>8, <2>1 DEF Longest!All
  <2>3. QED  BY <1>1, <1>2, <1>7, <2>2, SameClasses DEF Longest!IsExponent, x
<1>11. QED  BY <1>9, <1>10

\* The point of a number, if it has one, is where the first digits end.
HasPoint == \E m \in p .. AfterDigits - 1 : At(m) = "."

LEMMA PointIs ==
  ASSUME IsText, p \in Inside
  PROVE  LET d == Past(Digit, p) IN
         /\ d \in Place /\ p <= d
         /\ At(d) \notin Digit /\ \A m \in p .. d - 1 : At(m) \in Digit
         /\ At(d) # "." => AfterDigits = d /\ ~HasPoint
         /\ At(d) = "." =>
              /\ d + 1 \in Place /\ AfterDigits = Past(Digit, d + 1)
              /\ AfterDigits \in Place /\ d < AfterDigits
              /\ \A m \in d + 1 .. AfterDigits - 1 : At(m) \in Digit
              /\ HasPoint
<1> DEFINE d == Past(Digit, p)
<1>1. "end" \notin Digit /\ "." \notin Digit  BY EndIsNoChar, ClassesDiffer
<1>2. p \in Place /\ p \in Nat  BY InsideIs
<1>3. d \in Place /\ p <= d /\ At(d) \notin Digit /\ \A m \in p .. d - 1 : At(m) \in Digit
  BY <1>1, <1>2, PastEnds
<1>4. AfterDigits = IF At(d) = "." THEN Past(Digit, d + 1) ELSE d  BY DEF AfterDigits
<1> HIDE DEF d
<1>5. CASE At(d) # "."
  <2>1. AfterDigits = d  BY <1>4, <1>5
  <2>2. ~HasPoint  BY <1>1, <1>3, <2>1 DEF HasPoint
  <2>3. QED  BY <1>3, <1>5, <2>1, <2>2 DEF d
<1>6. CASE At(d) = "."
  <2>1. d + 1 \in Place  BY <1>3, <1>6, InText
  <2> DEFINE e == Past(Digit, d + 1)
  <2>2. e \in Place /\ d + 1 <= e /\ \A m \in d + 1 .. e - 1 : At(m) \in Digit
    BY <1>1, <2>1, PastEnds
  <2>3. AfterDigits = e  BY <1>4, <1>6
  <2> HIDE DEF e
  <2>4. d < e /\ d \in p .. e - 1  BY <1>2, <1>3, <2>2 DEF Place
  <2>5. HasPoint  BY <1>6, <2>3, <2>4 DEF HasPoint
  <2>6. QED  BY <1>3, <1>6, <2>1, <2>2, <2>3, <2>4, <2>5 DEF d, e
<1>7. QED  BY <1>5, <1>6

\* Digits, with a point or without, end before the number's digits do.
LEMMA DigitsAre ==
  ASSUME IsText, p \in Inside, StartsNumber, NEW k \in p .. Len(text)
  PROVE  /\ Longest!IsDecimal(p, k) => k < Past(Digit, p) /\ k < AfterDigits
         /\ Longest!IsPointed(p, k) => k < AfterDigits /\ HasPoint
         /\ /\ Longest!IsDecimal(p, k) \/ Longest!IsPointed(p, k)
            /\ At(k + 1) \notin Digit \cup {"."}
            => k + 1 = AfterDigits
<1> DEFINE d == Past(Digit, p)
           D == AfterDigits
<1>1. p \in Nat /\ Len(text) \in Nat /\ p \in Place /\ k \in Nat  BY InsideIs
<1>2. /\ d \in Place /\ p <= d
      /\ At(d) \notin Digit /\ \A m \in p .. d - 1 : At(m) \in Digit
      /\ At(d) # "." => D = d
      /\ At(d) = "." =>
              /\ d + 1 \in Place /\ D = Past(Digit, d + 1)
              /\ D \in Place /\ d < D
              /\ HasPoint
  BY PointIs
<1>3. D \in Place /\ p < D /\ \A m \in p .. D - 1 : At(m) \in Digit \cup {"."}
  BY <1>1, DigitsEnd
<1>4. "end" \notin Digit /\ "." \notin Digit  BY EndIsNoChar, ClassesDiffer
<1>5. d \in Nat /\ D \in Nat /\ d <= D  BY <1>1, <1>2, <1>3 DEF Place
<1>6. ASSUME Longest!IsDecimal(p, k) PROVE k < d /\ k < D
  <2>1. \A m \in p .. k : At(m) \in Digit
    BY <1>1, <1>6, AllIs, SameClasses DEF Longest!IsDecimal
  <2>2. k < d  BY <1>1, <1>4, <2>1, PastBound
  <2> HIDE DEF d, D
  <2>3. QED  BY <1>1, <1>5, <2>2
<1>7. ASSUME Longest!IsPointed(p, k) PROVE k < D /\ HasPoint
  <2>1. PICK e \in p .. k :
    /\ text[e] = "."
    /\ Longest!All(Longest!Digit, p, e - 1) /\ Longest!All(Longest!Digit, e + 1, k)
    BY <1>7 DEF Longest!IsPointed
  <2>2. e \in Inside /\ At(e) = "." /\ e \in Nat  BY <1>1, <2>1, InsideIs DEF Inside
  <2>3. e = d
    <3>1. \A m \in p .. e - 1 : At(m) \in Digit
      <4>1. e - 1 \in Int /\ e - 1 <= Len(text)  BY <1>1, <2>1, <2>2
      <4>2. QED  BY <2>1, <4>1, AllIs, SameClasses
    <3>2. e \in Place /\ p <= e  BY <1>1, <2>1, <2>2, InsideIs
    <3>3. QED  BY <1>1, <1>4, <2>2, <3>1, <3>2, PastIs
  <2>4. HasPoint /\ D = Past(Digit, d + 1) /\ d + 1 \in Place /\ d < D  BY <1>2, <2>2, <2>3
  <2>5. CASE k = e
    <3> HIDE DEF d, D
    <3>1. QED  BY <1>5, <2>3, <2>4, <2>5
  <2>6. CASE k # e
    <3>1. \A m \in d + 1 .. k : At(m) \in Digit
      <4>1. \A m \in e + 1 .. k : m \in Inside  BY <1>1, <2>1, <2>2 DEF Inside
      <4>2. \A m \in e + 1 .. k : At(m) \in Digit
        BY <2>1, <4>1, InsideIs, SameClasses DEF Longest!All
      <4>3. QED  BY <2>3, <4>2
    <3>2. d + 1 <= k
      <4> HIDE DEF d
      <4>1. QED  BY <1>1, <2>1, <2>2, <2>3, <2>6
    <3> DEFINE n == d + 1
    <3>3. n \in Place /\ n <= k /\ (\A m \in n .. k : At(m) \in Digit) /\ k \in Int
      BY <1>1, <2>4, <3>1, <3>2
    <3> HIDE DEF n
    <3>4. k < Past(Digit, n)  BY <1>4, <3>3, PastBound
    <3>5. QED  BY <2>4, <3>4 DEF n
  <2>7. QED  BY <2>5, <2>6
<1>8. ASSUME k < D, At(k + 1) \notin Digit \cup {"."} PROVE k + 1 = D
  <2> HIDE DEF D
  <2>1. ~(k + 1 \in p .. D - 1)  BY <1>3, <1>8
  <2>2. p <= k + 1  BY <1>1
  <2>3. QED  BY <1>1, <1>5, <1>8, <2>1, <2>2
<1>9. QED  BY <1>6, <1>7, <1>8

LEMMA DigitsTaken ==
  ASSUME IsText, p \in Inside, StartsNumber
  PROVE  /\ AfterDigits \in Place /\ p < AfterDigits
         /\ ~HasPoint => Longest!IsDecimal(p, AfterDigits - 1)
         /\ HasPoint => Longest!IsPointed(p, AfterDigits - 1)
<1> DEFINE d == Past(Digit, p)
           D == AfterDigits
<1>1. p \in Nat /\ Len(text) \in Nat /\ p \in Place  BY InsideIs
<1>2. /\ d \in Place /\ p <= d
      /\ At(d) \notin Digit /\ \A m \in p .. d - 1 : At(m) \in Digit
      /\ At(d) # "." => D = d /\ ~HasPoint
      /\ At(d) = "." => /\ d < D
                        /\ \A m \in d + 1 .. D - 1 : At(m) \in Digit
                        /\ HasPoint
  BY PointIs
<1>3. D \in Place /\ p < D  BY <1>1, DigitsEnd
<1>4. D \in Nat /\ d \in Nat /\ D - 1 <= Len(text) /\ p <= D - 1  BY <1>1, <1>2, <1>3 DEF Place
<1>5. d - 1 <= Len(text) /\ d - 1 \in Int  BY <1>1, <1>2 DEF Place
<1> HIDE DEF d, D
<1>6. Longest!All(Digit, p, d - 1)  BY <1>2, <1>5, AllIs
<1>7. CASE At(d) # "."
  <2>1. Longest!IsDecimal(p, D - 1)
    BY <1>2, <1>4, <1>6, <1>7, SameClasses DEF Longest!IsDecimal
  <2>2. QED  BY <1>2, <1>3, <1>7, <2>1 DEF D
<1>8. CASE At(d) = "."
  <2>1. d \in Inside /\ text[d] = "." /\ d \in p .. D - 1
    <3>1. d \in Inside  BY <1>2, <1>8, InsideIs
    <3>2. QED  BY <1>1, <1>2, <1>4, <1>8, <3>1, InsideIs
  <2>2. Longest!All(Digit, d + 1, D - 1)
    <3>1. \A m \in d + 1 .. D - 1 : m \in Inside  BY <1>1, <1>4, <2>1 DEF Inside
    <3>2. QED  BY <1>2, <1>8, <3>1, InsideIs DEF Longest!All
  <2>3. d = p => d < D - 1
    <3>1. SUFFICES ASSUME d = p PROVE d < D - 1  OBVIOUS
    <3>2. At(p) = "." /\ At(p + 1) \in Digit
      <4>1. "." \notin Digit  BY ClassesDiffer
      <4>2. QED  BY <1>8, <3>1, <4>1 DEF StartsNumber
    <3>3. D = Past(Digit, d + 1) /\ d + 1 \in Place  BY <1>8, PointIs DEF d, D
    <3>4. At(D) \notin Digit  BY <3>3, PastEnds, EndIsNoChar
    <3>5. D # p + 1  BY <3>2, <3>4
    <3>6. QED  BY <1>1, <1>2, <1>4, <1>8, <3>1, <3>5
  <2>4. Longest!IsPointed(p, D - 1)
    BY <1>6, <2>1, <2>2, <2>3, SameClasses DEF Longest!IsPointed
  <2>5. QED  BY <1>2, <1>3, <1>8, <2>4 DEF D
<1>9. QED  BY <1>7, <1>8

\* Where the exponent of a number ends, if it has one.
AfterPower == IF At(AfterDigits) = "e" THEN AfterExponent(AfterDigits) ELSE AfterDigits

LEMMA PowerEnds ==
  ASSUME IsText, p \in Inside, StartsNumber
  PROVE  /\ AfterPower \in Place /\ AfterDigits <= AfterPower
         /\ At(AfterDigits) = "e" => AfterDigits < AfterPower
         /\ AfterFloat = Over({"f"}, AfterPower)
         /\ AfterFloat \in AfterPower .. AfterPower + 1 /\ AfterFloat \in Place
<1>1. p \in Place  BY InsideIs
<1>2. AfterDigits \in Place  BY <1>1, DigitsEnd
<1>3. At(AfterDigits) = "e" => AfterExponent(AfterDigits) \in Place
                               /\ AfterDigits < AfterExponent(AfterDigits)
  BY <1>2, ExponentEnds
<1>4. /\ AfterPower \in Place /\ AfterDigits <= AfterPower
      /\ At(AfterDigits) = "e" => AfterDigits < AfterPower
  BY <1>2, <1>3 DEF AfterPower, Place
<1>5. AfterFloat = Over({"f"}, AfterPower)  BY DEF AfterFloat, AfterPower
<1>6. "end" \notin {"f"}  OBVIOUS
<1>7. QED  BY <1>4, <1>5, <1>6, OverEnds

LEMMA AtHexIs ==
  ASSUME IsText, p \in Inside
  PROVE  /\ AtHex <=> At(p) = "0" /\ At(p + 1) = "x"
         /\ AtHex => p + 1 \in Inside /\ Longest!Is(<<"0", "x">>, p, p + 1)
         /\ p + 1 \in Inside /\ Longest!Is(<<"0", "x">>, p, p + 1) => AtHex
<1>1. p \in Nat /\ p \in Int /\ p \in Place /\ At(p) = text[p]  BY InsideIs
<1>2. AtHex <=> At(p) = "0" /\ At(p + 1) = "x"
  <2>1. p + 1 - 1 = p /\ p + 2 - 1 = p + 1  BY <1>1
  <2>2. AtHex <=> \A k \in 1 .. 2 : At(p + k - 1) = <<"0", "x">>[k]  BY DEF AtHex, Starts
  <2>3. AtHex <=> At(p + 1 - 1) = "0" /\ At(p + 2 - 1) = "x"  BY <2>2
  <2>4. QED  BY <2>1, <2>3
<1>3. Longest!Is(<<"0", "x">>, p, p + 1) <=> text[p] = "0" /\ text[p + 1] = "x"
  BY <1>1, IsPair, Zenon
<1>4. At(p + 1) = "x" => p + 1 \in Inside
  <2>1. p + 1 \in Place  BY <1>1, InText, InsideIs
  <2>2. QED  BY <2>1, InsideIs
<1>5. p + 1 \in Inside => At(p + 1) = text[p + 1]  BY InsideIs
<1>6. QED  BY <1>1, <1>2, <1>3, <1>4, <1>5

\* What makes a number one with a fraction or an exponent, or a float by its suffix.
IsFraction == AfterFloat > AfterDigits \/ HasPoint

LEMMA FloatIs ==
  ASSUME IsText, p \in Inside, StartsNumber, ~AtHex, NEW k \in p .. Len(text),
         Longest!IsFloat(p, k)
  PROVE  k < AfterFloat /\ IsFraction
<1> DEFINE D == AfterDigits
           P == AfterPower
           F == AfterFloat
<1>1. p \in Nat /\ Len(text) \in Nat /\ k \in Nat /\ k <= Len(text) /\ p <= k  BY InsideIs
<1>2. D \in Place /\ p < D  BY DigitsTaken
<1>3. /\ P \in Place /\ D <= P /\ (At(D) = "e" => D < P) /\ F = Over({"f"}, P)
      /\ F \in P .. P + 1 /\ F \in Place
  BY PowerEnds
<1>4. D \in Nat /\ P \in Nat /\ F \in Nat /\ P <= F  BY <1>2, <1>3 DEF Place
<1>5. ~(k > p + 1 /\ Longest!Is(<<"0", "x">>, p, p + 1))
  <2>1. k > p + 1 => p + 1 \in Inside  BY <1>1 DEF Inside
  <2>2. QED  BY <2>1, AtHexIs
<1>6. PICK q \in p .. k :
       /\ Longest!IsDecimal(p, q) \/ Longest!IsPointed(p, q)
       /\ \E m \in q .. k :
            /\ m = q \/ Longest!IsExponent("e", q + 1, m)
            /\ Longest!Optional({"f"}, m + 1, k) /\ k <= m + 1
            /\ m > q \/ k > m \/ Longest!IsPointed(p, q)
  BY <1>5 DEF Longest!IsFloat
<1>7. PICK m \in q .. k :
            /\ m = q \/ Longest!IsExponent("e", q + 1, m)
            /\ Longest!Optional({"f"}, m + 1, k) /\ k <= m + 1
            /\ m > q \/ k > m \/ Longest!IsPointed(p, q)
  BY <1>6
<1>8. q \in Nat /\ m \in Nat /\ p <= q /\ q <= m /\ m <= k  BY <1>1
<1>9. /\ q < D /\ (Longest!IsPointed(p, q) => HasPoint)
      /\ At(q + 1) \notin Digit \cup {"."} => q + 1 = D
  <2>1. q \in p .. Len(text)  BY <1>1, <1>8
  <2>2. QED  BY <1>6, <2>1, DigitsAre
<1>10. "e" \notin Digit \cup {"."} /\ "f" \notin Digit \cup {"."}
  BY ClassesDiffer DEF Digit, Lexemes!Digit, Octal, Lexemes!Octal
<1> HIDE DEF D, P, F
<1>11. CASE m = q
  <2>1. CASE k = q
    <3>1. HasPoint  BY <1>7, <1>8, <1>9, <1>11, <2>1
    <3>2. k < F  BY <1>3, <1>4, <1>9, <2>1
    <3>3. QED  BY <3>1, <3>2 DEF IsFraction, F
  <2>2. CASE k # q
    <3>1. k = q + 1 /\ text[q + 1] = "f" /\ q + 1 \in Inside
      BY <1>1, <1>7, <1>8, <1>11, <2>2 DEF Longest!Optional, Inside
    <3>2. At(q + 1) = "f"  BY <3>1, InsideIs
    <3>3. q + 1 = D  BY <1>9, <1>10, <3>2
    <3>4. At(D) = "f"  BY <3>2, <3>3
    <3>5. P = D  BY <3>4 DEF AfterPower, P, D
    <3>6. F = D + 1  BY <1>3, <3>4, <3>5 DEF Over
    <3>7. QED  BY <1>4, <3>1, <3>3, <3>6 DEF IsFraction, F, D
  <2>3. QED  BY <2>1, <2>2
<1>12. CASE m # q
  <2>1. Longest!IsExponent("e", q + 1, m)  BY <1>7, <1>12
  <2>2. q + 1 \in Inside /\ m \in q + 1 .. Len(text)  BY <1>1, <1>8, <1>12 DEF Inside
  <2>3. At(q + 1) = "e" /\ m < AfterExponent(q + 1)  BY <2>1, <2>2, ExponentIs
  <2>4. q + 1 = D  BY <1>9, <1>10, <2>3
  <2>5. At(D) = "e" /\ m < P  BY <2>3, <2>4 DEF AfterPower, P, D
  <2>6. F > D  BY <1>3, <1>4, <2>5
  <2>7. k < F
    <3>1. CASE k < P  BY <1>1, <1>4, <3>1
    <3>2. CASE ~(k < P)
      <4>1. m + 1 = P /\ k = m + 1  BY <1>1, <1>4, <1>7, <1>8, <2>5, <3>2
      <4> DEFINE S == {"f"}
      <4>2. Longest!Optional(S, P, k) /\ "end" \notin S /\ F = Over(S, P)
        BY <1>3, <1>7, <4>1
      <4> HIDE DEF S
      <4>3. k < Over(S, P)  BY <1>1, <1>3, <4>2, SuffixIs
      <4>4. QED  BY <4>2, <4>3
    <3>3. QED  BY <3>1, <3>2
  <2>8. QED  BY <2>6, <2>7 DEF IsFraction, F, D
<1>13. QED  BY <1>11, <1>12

LEMMA FloatTaken ==
  ASSUME IsText, p \in Inside, StartsNumber, IsFraction
  PROVE  Longest!IsFloat(p, AfterFloat - 1)
<1> DEFINE D == AfterDigits
           P == AfterPower
           F == AfterFloat
           q == D - 1
           m == P - 1
           j == F - 1
<1>1. p \in Nat /\ Len(text) \in Nat  BY InsideIs
<1>2. D \in Place /\ p < D  BY DigitsTaken
<1>3. /\ P \in Place /\ D <= P /\ F = Over({"f"}, P)
      /\ F \in P .. P + 1 /\ F \in Place
  BY PowerEnds
<1>4. D \in Nat /\ P \in Nat /\ F \in Nat /\ P <= F  BY <1>2, <1>3 DEF Place
<1>5. Longest!IsDecimal(p, q) \/ Longest!IsPointed(p, q)  BY DigitsTaken
<1>6. HasPoint => Longest!IsPointed(p, q)  BY DigitsTaken
<1>7. m = q \/ Longest!IsExponent("e", q + 1, m)
  <2>1. CASE At(D) = "e"
    <3>1. D \in Inside  BY <1>2, <2>1, InsideIs
    <3>2. Longest!IsExponent("e", D, AfterExponent(D) - 1)  BY <2>1, <3>1, ExponentTaken
    <3>3. P = AfterExponent(D)  BY <2>1 DEF AfterPower
    <3>4. q + 1 = D  BY <1>4
    <3>5. QED  BY <3>2, <3>3, <3>4
  <2>2. CASE At(D) # "e"
    <3>1. P = D  BY <2>2 DEF AfterPower
    <3>2. QED  BY <3>1
  <2>3. QED  BY <2>1, <2>2
<1>8. Longest!Optional({"f"}, P, j) /\ j <= P
  <2>1. "end" \notin {"f"}  OBVIOUS
  <2>2. QED  BY <1>3, <2>1, SuffixTaken
<1> HIDE DEF D, P, F
<1>9. m + 1 = P /\ q \in p .. j /\ m \in q .. j  BY <1>1, <1>2, <1>3, <1>4
<1>10. m > q \/ j > m \/ Longest!IsPointed(p, q)
  <2>1. CASE HasPoint  BY <1>6, <2>1
  <2>2. CASE F > D  BY <1>3, <1>4, <2>2
  <2>3. QED  BY <2>1, <2>2 DEF IsFraction, F, D
<1>11. Longest!Optional({"f"}, m + 1, j) /\ j <= m + 1  BY <1>8, <1>9
<1> HIDE DEF q, m, j
<1>12. Longest!IsFloat(p, j)  BY <1>5, <1>7, <1>9, <1>10, <1>11 DEF Longest!IsFloat
<1>13. QED  BY <1>12 DEF j, F

LEMMA LongBound ==
  ASSUME IsText, NEW i \in Place, NEW j \in Int, i <= j, \A k \in i .. j : At(k) \in {"l"}
  PROVE  j < Past({"l"}, i)
<1> DEFINE S == {"l"}
<1>1. "end" \notin S  OBVIOUS
<1>2. \A k \in i .. j : At(k) \in S  OBVIOUS
<1> HIDE DEF S
<1>3. j < Past(S, i)  BY <1>1, <1>2, PastBound
<1>4. QED  BY <1>3 DEF S

\* Where a decimal integer ends.
AfterInteger == Past({"l"}, Over({"u"}, AfterDigits))

LEMMA IntegerIs ==
  ASSUME IsText, p \in Inside, StartsNumber, ~AtHex, NEW k \in p .. Len(text),
         Longest!IsInteger(p, k)
  PROVE  /\ k < AfterInteger
         /\ IsFraction => k < AfterFloat
<1> DEFINE d == Past(Digit, p)
           D == AfterDigits
           F == AfterFloat
           O == Over({"u"}, D)
           T == Past({"l"}, O)
<1>1. p \in Nat /\ Len(text) \in Nat /\ k \in Nat /\ k <= Len(text) /\ p <= k  BY InsideIs
<1>2. D \in Place /\ p < D  BY DigitsTaken
<1>3. F \in Place /\ D <= F
  <2>1. AfterPower \in Place /\ D <= AfterPower /\ F \in AfterPower .. AfterPower + 1 /\ F \in Place
    BY PowerEnds
  <2>2. QED  BY <1>2, <2>1 DEF Place
<1>4. "end" \notin {"u"} /\ "end" \notin {"l"}  OBVIOUS
<1>5. O \in Place /\ O \in D .. D + 1  BY <1>2, <1>4, OverEnds
<1>6. T \in Place /\ O <= T  BY <1>4, <1>5, PastEnds
<1>7. D \in Nat /\ F \in Nat /\ O \in Nat /\ T \in Nat  BY <1>2, <1>3, <1>5, <1>6 DEF Place
<1>8. ~(k > p /\ Longest!Is(<<"0", "x">>, p, p + 1))
  <2>1. k > p => p + 1 \in Inside  BY <1>1 DEF Inside
  <2>2. QED  BY <2>1, AtHexIs
<1>9. PICK q \in p .. k :
       /\ Longest!IsDecimal(p, q)
       /\ \/ Longest!All({"l"}, q + 1, k)
          \/ q < k /\ text[q + 1] = "u" /\ Longest!All({"l"}, q + 2, k)
  BY <1>8 DEF Longest!IsInteger
<1>10. q \in Nat /\ p <= q /\ q <= k /\ q \in p .. Len(text)  BY <1>1
<1>11. q < d /\ q < D /\ (At(q + 1) \notin Digit \cup {"."} => q + 1 = D)
  BY <1>9, <1>10, DigitsAre
<1>12. "u" \notin Digit \cup {"."} /\ "l" \notin Digit \cup {"."}
  BY ClassesDiffer DEF Digit, Lexemes!Digit, Octal, Lexemes!Octal
<1>13. T = AfterInteger  BY DEF AfterInteger
<1> HIDE DEF D, F, T
<1>14. CASE k = q
  <2>1. k < F  BY <1>3, <1>7, <1>10, <1>11, <1>14
  <2>2. k < T
    <3>1. k < D /\ D <= O  BY <1>5, <1>7, <1>10, <1>11, <1>14
    <3> HIDE DEF O
    <3>2. QED  BY <1>1, <1>6, <1>7, <3>1
  <2>3. QED  BY <1>13, <2>1, <2>2 DEF F
<1>15. CASE k # q
  <2>1. q + 1 \in Inside /\ q + 1 <= k  BY <1>1, <1>10, <1>15 DEF Inside
  <2>2. At(q + 1) = text[q + 1]  BY <2>1, InsideIs
  <2>3. At(q + 1) \in {"u", "l"}
    <3>1. q + 1 \in q + 1 .. k  BY <1>10, <2>1
    <3>2. QED  BY <1>9, <2>2, <3>1 DEF Longest!All
  <2>4. q + 1 = D /\ At(D) \in {"u", "l"}  BY <1>11, <1>12, <2>3
  <2>5. ~IsFraction
    <3>1. AfterPower = D  BY <2>4 DEF AfterPower, D
    <3>2. F = D  BY <2>4, <3>1, PowerEnds DEF Over, F
    <3>3. ~HasPoint
      <4>1. \A m \in p .. D - 1 : At(m) # "."
        <5>1. \A m \in p .. d - 1 : At(m) \in Digit  BY PointIs
        <5>2. d \in Nat  BY PointIs DEF Place
        <5> HIDE DEF d
        <5>3. \A m \in p .. D - 1 : m \in p .. d - 1  BY <1>1, <1>7, <1>10, <1>11, <2>4, <5>2
        <5>4. QED  BY <5>1, <5>3, ClassesDiffer
      <4>2. QED  BY <4>1 DEF HasPoint, D
    <3>4. QED  BY <1>7, <3>2, <3>3 DEF IsFraction, F, D
  <2>6. \A m \in q + 1 .. k : m \in Inside /\ At(m) = text[m]  BY <1>1, <1>10, InsideIs DEF Inside
  <2>7. k < T
    <3>1. CASE Longest!All({"l"}, q + 1, k)
      <4>1. \A m \in D .. k : At(m) \in {"l"}  BY <2>4, <2>6, <3>1 DEF Longest!All
      <4>2. D <= k  BY <2>1, <2>4
      <4>3. At(D) = "l"  BY <1>1, <1>7, <4>1, <4>2
      <4>4. O = D  BY <4>3 DEF Over
      <4>5. k < Past({"l"}, D)  BY <1>1, <1>2, <4>1, <4>2, LongBound
      <4>6. QED  BY <4>4, <4>5 DEF T
    <3>2. CASE text[q + 1] = "u" /\ Longest!All({"l"}, q + 2, k)
      <4>1. O = D + 1  BY <2>2, <2>4, <3>2 DEF Over
      <4> HIDE DEF O
      <4>2. CASE k = D  BY <1>6, <1>7, <4>1, <4>2
      <4>3. CASE k # D
        <5>1. O <= k  BY <1>1, <1>7, <2>1, <2>4, <4>1, <4>3
        <5>2. \A m \in O .. k : m \in q + 2 .. k /\ m \in q + 1 .. k
          BY <1>1, <1>10, <2>4, <4>1
        <5>3. \A m \in O .. k : At(m) \in {"l"}
          BY <2>6, <3>2, <5>2 DEF Longest!All
        <5>4. k < Past({"l"}, O)  BY <1>1, <1>5, <5>1, <5>3, LongBound
        <5>5. QED  BY <5>4 DEF T
      <4>4. QED  BY <4>2, <4>3
    <3>3. QED  BY <1>9, <3>1, <3>2
  <2>8. QED  BY <1>13, <2>5, <2>7
<1>16. QED  BY <1>14, <1>15

LEMMA IntegerTaken ==
  ASSUME IsText, p \in Inside, StartsNumber, ~IsFraction
  PROVE  /\ AfterInteger \in Place /\ p < AfterInteger
         /\ Longest!IsInteger(p, AfterInteger - 1)
<1> DEFINE D == AfterDigits
           O == Over({"u"}, D)
           T == Past({"l"}, O)
           q == D - 1
           j == T - 1
<1>1. p \in Nat /\ Len(text) \in Nat  BY InsideIs
<1>2. D \in Place /\ p < D /\ Longest!IsDecimal(p, q)  BY DigitsTaken DEF IsFraction
<1>3. "end" \notin {"u"} /\ "end" \notin {"l"}  OBVIOUS
<1>4. O \in Place /\ O \in D .. D + 1  BY <1>2, <1>3, OverEnds
<1>5. T \in Place /\ O <= T /\ \A m \in O .. T - 1 : At(m) \in {"l"}  BY <1>3, <1>4, PastEnds
<1>6. D \in Nat /\ O \in Nat /\ T \in Nat /\ T - 1 <= Len(text)  BY <1>2, <1>4, <1>5 DEF Place
<1>7. O = D \/ (O = D + 1 /\ At(D) = "u")  BY DEF Over
<1>8. T = AfterInteger  BY DEF AfterInteger
<1> HIDE DEF D, O, T
<1>9. \A m \in O .. j : text[m] \in {"l"}
  <2>1. \A m \in O .. j : m \in Inside  BY <1>1, <1>2, <1>4, <1>6 DEF Inside
  <2>2. QED  BY <1>5, <2>1, InsideIs
<1>10. q + 1 = D /\ q + 2 = D + 1 /\ q \in p .. j  BY <1>1, <1>2, <1>4, <1>5, <1>6
<1>11. CASE O = D
  <2>1. Longest!All({"l"}, q + 1, j)  BY <1>9, <1>10, <1>11 DEF Longest!All
  <2>2. Longest!IsInteger(p, j)  BY <1>2, <1>10, <2>1 DEF Longest!IsInteger
  <2>3. QED  BY <1>1, <1>2, <1>5, <1>6, <1>8, <1>11, <2>2
<1>12. CASE O = D + 1 /\ At(D) = "u"
  <2>1. Longest!All({"l"}, q + 2, j)  BY <1>9, <1>10, <1>12 DEF Longest!All
  <2>2. text[q + 1] = "u"
    <3>1. D \in Inside  BY <1>2, <1>12, InsideIs
    <3>2. QED  BY <1>10, <1>12, <3>1, InsideIs
  <2>3. q < j  BY <1>5, <1>6, <1>12
  <2>4. Longest!IsInteger(p, j)  BY <1>2, <1>10, <2>1, <2>2, <2>3 DEF Longest!IsInteger
  <2>5. QED  BY <1>1, <1>2, <1>5, <1>6, <1>8, <1>12, <2>4
<1>13. QED  BY <1>7, <1>11, <1>12

\* A point that begins a number begins no operator but itself.
LEMMA PointAlone ==
  ASSUME IsText, p \in Inside, At(p) = ".", At(p + 1) \in Digit, NEW k \in p .. Len(text),
         Longest!IsOperator(p, k)
  PROVE  k = p
<1>1. p \in Nat /\ Len(text) \in Nat  BY InsideIs
<1>2. PICK o \in Longest!Operators : Longest!Is(o, p, k)  BY DEF Longest!IsOperator
<1>3. k - p + 1 = Len(o) /\ Starts(o, p)  BY <1>2, StartsIs
<1>4. Len(o) \in 1 .. 3 /\ (Len(o) = 2 => o \in TwoCharOps) /\ (Len(o) = 3 => o \in ThreeCharOps)
  BY OperatorLengths
<1>5. Len(o) = 1
  <2>1. SUFFICES ASSUME Len(o) # 1 PROVE FALSE  OBVIOUS
  <2>2. 2 \in 1 .. Len(o) /\ p + 2 - 1 = p + 1
    <3>1. \A n \in 1 .. 3 : n # 1 => 2 \in 1 .. n  OBVIOUS
    <3>2. 2 \in 1 .. Len(o)  BY <1>4, <2>1, <3>1, Zenon
    <3>3. QED  BY <1>1, <3>2
  <2>3. \A m \in 1 .. Len(o) : At(p + m - 1) = o[m]  BY <1>3 DEF Starts
  <2>4. At(p + 1) = o[2]
    <3>1. At(p + 2 - 1) = o[2]  BY <2>2, <2>3
    <3>2. QED  BY <2>2, <3>1
  <2>5. o[2] \in SingleCharOps
    <3>1. CASE o \in TwoCharOps
      <4>1. PICK c \in SingleCharOps, d \in SingleCharOps : o = <<c, d>>
        BY <3>1, OperatorForms
      <4>2. QED  BY <4>1
    <3>2. CASE o \in ThreeCharOps
      <4>1. PICK c \in SingleCharOps, d \in SingleCharOps, e \in SingleCharOps : o = <<c, d, e>>
        BY <3>2, OperatorForms
      <4>2. QED  BY <4>1
    <3>3. QED  BY <1>4, <2>1, <3>1, <3>2
  <2>6. QED  BY <2>4, <2>5, ClassesDiffer
<1>6. QED  BY <1>1, <1>3, <1>5

LEMMA NumberTaken ==
  ASSUME IsText, p \in Inside, StartsNumber, ~AtHex
  PROVE  /\ IsFraction => Longest!IsFloat(p, AfterFloat - 1) /\ Bounds(p, AfterFloat - 1)
         /\ ~IsFraction => Longest!IsInteger(p, AfterInteger - 1) /\ Bounds(p, AfterInteger - 1)
<1>1. p \in Nat /\ Len(text) \in Nat /\ p \in Place  BY InsideIs
<1>2. AfterFloat \in Nat /\ p < AfterFloat
  <2>1. AfterFloat \in Place /\ AfterDigits <= AfterFloat  BY <1>1, NumberEnds
  <2>2. AfterDigits \in Place /\ p < AfterDigits  BY DigitsTaken
  <2>3. QED  BY <1>1, <2>1, <2>2 DEF Place
<1>3. ASSUME NEW k \in p .. Len(text), Longest!IsLexeme(p, k) \/ Longest!IsBlank(p, k)
      PROVE  \/ k = p
             \/ Longest!IsInteger(p, k)
             \/ Longest!IsFloat(p, k)
  <2>1. CASE At(p) \in Digit  BY <1>3, <2>1, OnlyForm
  <2>2. CASE At(p) = "." /\ At(p + 1) \in Digit
    <3>1. Longest!IsOperator(p, k) \/ Longest!IsFloat(p, k)  BY <1>3, <2>2, OnlyForm
    <3>2. QED  BY <2>2, <3>1, PointAlone
  <2>3. QED  BY <2>1, <2>2 DEF StartsNumber
<1>4. CASE IsFraction
  <2>1. Longest!IsFloat(p, AfterFloat - 1)  BY <1>4, FloatTaken
  <2>2. ASSUME NEW k \in p .. Len(text), Longest!IsLexeme(p, k) \/ Longest!IsBlank(p, k)
        PROVE  k <= AfterFloat - 1
    <3>1. k < AfterFloat  BY <1>2, <1>3, <1>4, <2>2, IntegerIs, FloatIs
    <3>2. QED  BY <1>1, <1>2, <3>1
  <2>3. QED  BY <1>4, <2>1, <2>2 DEF Bounds
<1>5. CASE ~IsFraction
  <2>1. /\ AfterInteger \in Place /\ p < AfterInteger
        /\ Longest!IsInteger(p, AfterInteger - 1)
    BY <1>5, IntegerTaken
  <2>2. AfterInteger \in Nat  BY <2>1 DEF Place
  <2>3. ASSUME NEW k \in p .. Len(text), Longest!IsLexeme(p, k) \/ Longest!IsBlank(p, k)
        PROVE  k <= AfterInteger - 1
    <3>1. k < AfterInteger  BY <1>3, <1>5, <2>1, <2>3, IntegerIs, FloatIs
    <3>2. QED  BY <1>1, <2>2, <3>1
  <2>4. QED  BY <1>5, <2>1, <2>3 DEF Bounds
<1>6. QED  BY <1>4, <1>5

LEMMA HexIs ==
  ASSUME IsText, p \in Inside, AtHex
  PROVE  LET H == AfterHexDigits  P == AfterHexPoint IN
         /\ p + 1 \in Inside /\ p + 2 \in Place /\ p + 2 <= H
         /\ text[p] = "0" /\ text[p + 1] = "x"
         /\ H \in Place /\ At(H) \notin Hex /\ \A m \in p + 2 .. H - 1 : At(m) \in Hex
         /\ P \in Place /\ H <= P
         /\ At(H) # "." => P = H
         /\ At(H) = "." => /\ H + 1 \in Place /\ P = Past(Hex, H + 1) /\ H < P
                           /\ \A m \in H + 1 .. P - 1 : At(m) \in Hex
<1> DEFINE H == AfterHexDigits
           P == AfterHexPoint
<1>1. At(p) = "0" /\ At(p + 1) = "x" /\ p + 1 \in Inside /\ p \in Nat  BY AtHexIs, InsideIs
<1>2. text[p] = "0" /\ text[p + 1] = "x"  BY <1>1, InsideIs
<1>3. p + 2 \in Place  BY <1>1, InsideIs DEF Inside, Place
<1>4. "end" \notin Hex  BY EndIsNoChar
<1>5. H = Past(Hex, p + 2)  BY DEF AfterHexDigits
<1>6. H \in Place /\ p + 2 <= H /\ At(H) \notin Hex /\ \A m \in p + 2 .. H - 1 : At(m) \in Hex
  BY <1>3, <1>4, <1>5, PastEnds
<1>7. P = IF At(H) = "." THEN Past(Hex, H + 1) ELSE H  BY DEF AfterHexPoint
<1> HIDE DEF H, P
<1>8. CASE At(H) = "."
  <2> DEFINE n == H + 1
             e == Past(Hex, n)
  <2>1. n \in Place  BY <1>6, <1>8, InText
  <2>2. e \in Place /\ n <= e /\ \A m \in n .. e - 1 : At(m) \in Hex  BY <1>4, <2>1, PastEnds
  <2>3. P = e  BY <1>7, <1>8
  <2> HIDE DEF e
  <2>4. H < e /\ H <= e  BY <1>6, <2>2 DEF Place
  <2>5. QED  BY <1>1, <1>2, <1>3, <1>6, <1>8, <2>1, <2>2, <2>3, <2>4 DEF H, P, e
<1>9. CASE At(H) # "."
  <2>1. P = H /\ H <= H  BY <1>6, <1>7, <1>9 DEF Place
  <2>2. QED  BY <1>1, <1>2, <1>3, <1>6, <1>9, <2>1 DEF H, P
<1>10. QED  BY <1>8, <1>9

\* Read as a decimal number, a hexadecimal one is the zero it begins with.
LEMMA ZeroAlone ==
  ASSUME IsText, p \in Inside, AtHex, NEW k \in p .. Len(text)
  PROVE  /\ Longest!IsDecimal(p, k) => k = p
         /\ ~Longest!IsPointed(p, k)
<1>1. p \in Nat /\ Len(text) \in Nat /\ text[p] = "0" /\ text[p + 1] = "x"  BY HexIs, InsideIs
<1>2. "x" \notin Digit  BY ClassesDiffer
<1>3. ASSUME Longest!IsDecimal(p, k), k # p PROVE FALSE
  <2>1. p + 1 \in p .. k  BY <1>1, <1>3
  <2>2. QED  BY <1>1, <1>2, <1>3, <2>1, SameClasses DEF Longest!IsDecimal, Longest!All
<1>4. ASSUME Longest!IsPointed(p, k) PROVE FALSE
  <2>1. PICK d \in p .. k : text[d] = "." /\ Longest!All(Longest!Digit, p, d - 1)
    BY <1>4 DEF Longest!IsPointed
  <2>2. d # p /\ d # p + 1  BY <1>1, <2>1
  <2>3. p + 1 \in p .. d - 1  BY <1>1, <2>2
  <2>4. QED  BY <1>1, <1>2, <2>1, <2>3, SameClasses DEF Longest!All
<1>5. QED  BY <1>3, <1>4

LEMMA NoDecimalFloat ==
  ASSUME IsText, p \in Inside, AtHex, NEW k \in p .. Len(text), Longest!IsFloat(p, k)
  PROVE  /\ k > p + 1
         /\ \E q \in p + 1 .. k : \E m \in q .. k :
             /\ Longest!All(Longest!Hex, p + 2, q)
                \/ \E d \in p + 2 .. q : text[d] = "." /\ Longest!All(Longest!Hex, p + 2, d - 1)
                                         /\ Longest!All(Longest!Hex, d + 1, q)
             /\ Longest!IsExponent("p", q + 1, m)
             /\ k <= m + 1 /\ Longest!Optional({"l", "f"}, m + 1, k)
<1>1. p \in Nat /\ Len(text) \in Nat /\ k \in Nat /\ text[p] = "0" /\ text[p + 1] = "x"
  BY HexIs, InsideIs
<1>2. ASSUME NEW q \in p .. k, Longest!IsDecimal(p, q) \/ Longest!IsPointed(p, q),
             NEW m \in q .. k, m = q \/ Longest!IsExponent("e", q + 1, m),
             Longest!Optional({"f"}, m + 1, k),
             m > q \/ k > m \/ Longest!IsPointed(p, q)
      PROVE  FALSE
  <2>1. q \in p .. Len(text)  BY <1>1
  <2>2. q = p /\ ~Longest!IsPointed(p, q)  BY <1>2, <2>1, ZeroAlone
  <2>3. ~Longest!IsExponent("e", q + 1, m)  BY <1>1, <2>2 DEF Longest!IsExponent
  <2>4. m = q /\ k > m  BY <1>2, <2>2, <2>3
  <2>5. text[m + 1] = "f"  BY <1>1, <1>2, <2>4 DEF Longest!Optional
  <2>6. QED  BY <1>1, <2>2, <2>4, <2>5
<1>3. QED  BY <1>2 DEF Longest!IsFloat

LEMMA HexFloatIs ==
  ASSUME IsText, p \in Inside, AtHex, NEW k \in p .. Len(text), Longest!IsFloat(p, k)
  PROVE  /\ At(AfterHexPoint) = "p"
         /\ k < Over({"l", "f"}, AfterExponent(AfterHexPoint))
<1> DEFINE H == AfterHexDigits
           P == AfterHexPoint
<1>1. p \in Nat /\ Len(text) \in Nat /\ k \in Nat /\ k <= Len(text)  BY InsideIs
<1>2. /\ p + 2 \in Place /\ p + 2 <= H /\ H \in Place
      /\ H = Past(Hex, p + 2)
      /\ P \in Place
      /\ At(H) # "." => P = H
      /\ At(H) = "." => H + 1 \in Place /\ P = Past(Hex, H + 1)
  BY HexIs DEF AfterHexDigits
<1>3. "end" \notin Hex /\ "p" \notin Hex /\ "." \notin Hex
  BY EndIsNoChar DEF Hex, Lexemes!Hex, Digit, Lexemes!Digit, Octal, Lexemes!Octal
<1>a. PICK q \in p + 1 .. k : \E m \in q .. k :
        /\ Longest!All(Longest!Hex, p + 2, q)
           \/ \E d \in p + 2 .. q : text[d] = "." /\ Longest!All(Longest!Hex, p + 2, d - 1)
                                    /\ Longest!All(Longest!Hex, d + 1, q)
        /\ Longest!IsExponent("p", q + 1, m)
        /\ k <= m + 1 /\ Longest!Optional({"l", "f"}, m + 1, k)
  BY NoDecimalFloat
<1>4. PICK m \in q .. k :
        /\ Longest!All(Longest!Hex, p + 2, q)
           \/ \E d \in p + 2 .. q : text[d] = "." /\ Longest!All(Longest!Hex, p + 2, d - 1)
                                    /\ Longest!All(Longest!Hex, d + 1, q)
        /\ Longest!IsExponent("p", q + 1, m)
        /\ k <= m + 1 /\ Longest!Optional({"l", "f"}, m + 1, k)
  BY <1>a
<1> DEFINE n == q + 1
<1>5. n <= m  BY <1>4 DEF Longest!IsExponent
<1>6. q \in Nat /\ m \in Nat /\ n \in Nat /\ p + 1 <= q /\ m <= k  BY <1>1
<1>7. n \in Inside /\ m \in n .. Len(text) /\ n \in Place
  BY <1>1, <1>5, <1>6, InsideIs DEF Inside
<1>8. At(n) = "p" /\ m < AfterExponent(n)  BY <1>4, <1>7, ExponentIs
<1> HIDE DEF H, P
<1>9. \A a \in p + 2 .. q : a \in Inside /\ At(a) = text[a]  BY <1>1, <1>6, InsideIs DEF Inside
<1>10. P = n
  <2>1. CASE Longest!All(Longest!Hex, p + 2, q)
    <3>1. \A a \in p + 2 .. n - 1 : At(a) \in Hex
      BY <1>6, <1>9, <2>1, SameClasses DEF Longest!All
    <3>2. p + 2 <= n  BY <1>1, <1>6
    <3> HIDE DEF n
    <3>3. H = n  BY <1>2, <1>3, <1>7, <1>8, <3>1, <3>2, PastIs
    <3>4. QED  BY <1>2, <1>8, <3>3
  <2>2. CASE \E d \in p + 2 .. q : text[d] = "." /\ Longest!All(Longest!Hex, p + 2, d - 1)
                                    /\ Longest!All(Longest!Hex, d + 1, q)
    <3>1. PICK d \in p + 2 .. q : text[d] = "." /\ Longest!All(Longest!Hex, p + 2, d - 1)
                                    /\ Longest!All(Longest!Hex, d + 1, q)
      BY <2>2
    <3>2. d \in Nat /\ d \in Inside /\ At(d) = "." /\ p + 2 <= d /\ d <= q  BY <1>1, <1>6, <1>9, <3>1
    <3>3. \A a \in p + 2 .. d - 1 : At(a) \in Hex
      <4>1. \A a \in p + 2 .. d - 1 : a \in p + 2 .. q  BY <1>1, <1>6, <3>2
      <4>2. QED  BY <1>9, <3>1, <4>1, SameClasses DEF Longest!All
    <3>4. H = d
      <4>1. d \in Place  BY <3>2, InsideIs
      <4>2. QED  BY <1>2, <1>3, <3>2, <3>3, <4>1, PastIs
    <3> DEFINE b == d + 1
    <3>5. b \in Place /\ P = Past(Hex, b)  BY <1>2, <3>2, <3>4
    <3>6. \A a \in b .. n - 1 : At(a) \in Hex
      <4>1. \A a \in b .. n - 1 : a \in p + 2 .. q /\ a \in d + 1 .. q  BY <1>1, <1>6, <3>2
      <4>2. QED  BY <1>9, <3>1, <4>1, SameClasses DEF Longest!All
    <3>7. b <= n  BY <1>6, <3>2
    <3> HIDE DEF n, b
    <3>8. Past(Hex, b) = n  BY <1>3, <1>7, <1>8, <3>5, <3>6, <3>7, PastIs
    <3>9. QED  BY <3>5, <3>8
  <2>3. QED  BY <1>4, <2>1, <2>2
<1> DEFINE x == AfterExponent(n)
           S == {"l", "f"}
<1>11. x \in Place /\ x \in Nat
  <2>1. x \in Place  BY <1>7, <1>8, ExponentTaken
  <2>2. QED  BY <2>1 DEF Place
<1>12. "end" \notin S /\ Longest!Optional(S, m + 1, k)  BY <1>4
<1>13. Over(S, x) \in x .. x + 1  BY <1>11, <1>12, OverEnds
<1> HIDE DEF n, x, S
<1>14. m < x  BY <1>8 DEF x
<1>15. k < Over(S, x)
  <2>1. CASE k < x  BY <1>1, <1>11, <1>13, <2>1
  <2>2. CASE ~(k < x)
    <3>1. m + 1 = x  BY <1>1, <1>4, <1>6, <1>11, <1>14, <2>2
    <3>2. Longest!Optional(S, x, k)  BY <1>12, <3>1
    <3>3. QED  BY <1>1, <1>11, <1>12, <3>2, SuffixIs
  <2>3. QED  BY <2>1, <2>2
<1>16. QED  BY <1>8, <1>10, <1>15 DEF P, x, S

LEMMA HexFloatTaken ==
  ASSUME IsText, p \in Inside, AtHex, At(AfterHexPoint) = "p"
  PROVE  LET to == Over({"l", "f"}, AfterExponent(AfterHexPoint)) IN
         Longest!IsFloat(p, to - 1) /\ AfterHexPoint < to /\ to \in Nat
<1> DEFINE H == AfterHexDigits
           P == AfterHexPoint
           x == AfterExponent(P)
           S == {"l", "f"}
           to == Over(S, x)
           q == P - 1
           m == x - 1
           j == to - 1
<1>1. p \in Nat /\ Len(text) \in Nat  BY InsideIs
<1>2. /\ p + 2 \in Place /\ p + 2 <= H /\ H \in Place /\ P \in Place /\ H <= P
      /\ p + 1 \in Inside
      /\ text[p] = "0" /\ text[p + 1] = "x"
      /\ \A a \in p + 2 .. H - 1 : At(a) \in Hex
      /\ At(H) # "." => P = H
      /\ At(H) = "." => H < P /\ \A a \in H + 1 .. P - 1 : At(a) \in Hex
  BY HexIs
<1>3. P \in Inside /\ H \in Nat /\ P \in Nat  BY <1>2, InsideIs DEF Place
<1>4. x \in Place /\ P < x /\ Longest!IsExponent("p", P, m)  BY <1>3, ExponentTaken
<1>5. "end" \notin S  OBVIOUS
<1>6. to \in x .. x + 1 /\ Longest!Optional(S, x, j) /\ j <= x
  BY <1>4, <1>5, OverEnds, SuffixTaken
<1>7. x \in Nat /\ to \in Nat  BY <1>4, <1>6 DEF Place
<1> HIDE DEF H, P, x, S, to
<1>8. q + 1 = P /\ m + 1 = x /\ q \in p + 1 .. j /\ m \in q .. j /\ j > p + 1 /\ P < to
  BY <1>1, <1>2, <1>3, <1>4, <1>6, <1>7
<1>9. \A a \in p + 2 .. q : a \in Inside /\ At(a) = text[a]
  <2>1. P <= Len(text)  BY <1>3 DEF Inside
  <2>2. QED  BY <1>1, <1>3, <2>1, InsideIs DEF Inside
<1>10. \/ Longest!All(Longest!Hex, p + 2, q)
       \/ \E d \in p + 2 .. q : text[d] = "." /\ Longest!All(Longest!Hex, p + 2, d - 1)
                                /\ Longest!All(Longest!Hex, d + 1, q)
  <2>1. CASE At(H) # "."
    <3>1. P = H  BY <1>2, <2>1
    <3>2. QED  BY <1>2, <1>9, <3>1, SameClasses DEF Longest!All
  <2>2. CASE At(H) = "."
    <3>1. H \in p + 2 .. q  BY <1>1, <1>2, <1>3, <2>2
    <3>2. text[H] = "."  BY <1>9, <2>2, <3>1
    <3>3. Longest!All(Hex, p + 2, H - 1)
      <4>1. \A a \in p + 2 .. H - 1 : a \in p + 2 .. q  BY <1>1, <1>2, <1>3, <2>2
      <4>2. QED  BY <1>2, <1>9, <4>1 DEF Longest!All
    <3>4. Longest!All(Hex, H + 1, q)
      <4>1. \A a \in H + 1 .. q : a \in p + 2 .. q  BY <1>1, <1>2, <1>3
      <4>2. QED  BY <1>2, <1>9, <2>2, <4>1 DEF Longest!All
    <3>5. QED  BY <3>1, <3>2, <3>3, <3>4, SameClasses
  <2>3. QED  BY <2>1, <2>2
<1>11. Longest!Is(<<"0", "x">>, p, p + 1)  BY <1>1, AtHexIs
<1>12. Longest!IsExponent("p", q + 1, m) /\ j <= m + 1 /\ Longest!Optional({"l", "f"}, m + 1, j)
  BY <1>4, <1>6, <1>8 DEF S
<1> HIDE DEF q, m, j
<1>13. Longest!IsFloat(p, j)  BY <1>8, <1>10, <1>11, <1>12 DEF Longest!IsFloat
<1>14. QED  BY <1>7, <1>8, <1>13 DEF j, to, S, x, P

LEMMA HexIntegerIs ==
  ASSUME IsText, p \in Inside, AtHex, NEW k \in p .. Len(text), Longest!IsInteger(p, k)
  PROVE  /\ k < Past({"u", "l"}, AfterHexDigits)
         /\ At(AfterHexPoint) = "p" => k < AfterHexPoint
<1> DEFINE H == AfterHexDigits
           P == AfterHexPoint
           S == {"u", "l"}
           T == Past(S, H)
<1>1. p \in Nat /\ Len(text) \in Nat /\ k \in Nat /\ p <= k /\ k <= Len(text)  BY InsideIs
<1>2. /\ p + 2 \in Place /\ p + 2 <= H /\ H \in Place /\ P \in Place /\ H <= P
      /\ H = Past(Hex, p + 2)
      /\ At(H) # "." => P = H
      /\ text[p + 1] = "x"
  BY HexIs DEF AfterHexDigits
<1>3. "end" \notin Hex /\ Hex \cap S = {} /\ "end" \notin S /\ "." \notin S /\ "p" \notin S
  BY EndIsNoChar DEF Hex, Lexemes!Hex, Digit, Lexemes!Digit, Octal, Lexemes!Octal
<1>4. T \in Place /\ H <= T  BY <1>2, <1>3, PastEnds
<1>5. H \in Nat /\ P \in Nat /\ T \in Nat  BY <1>2, <1>4 DEF Place
<1>6. CASE \E q \in p .. k :
       /\ Longest!IsDecimal(p, q)
       /\ Longest!All({"l"}, q + 1, k) \/ (q < k /\ text[q + 1] = "u" /\ Longest!All({"l"}, q + 2, k))
  <2>1. PICK q \in p .. k :
       /\ Longest!IsDecimal(p, q)
       /\ Longest!All({"l"}, q + 1, k) \/ (q < k /\ text[q + 1] = "u" /\ Longest!All({"l"}, q + 2, k))
    BY <1>6
  <2>2. q \in p .. Len(text)  BY <1>1
  <2>3. q = p  BY <2>1, <2>2, ZeroAlone
  <2>4. k = p
    <3>1. SUFFICES ASSUME k # p PROVE FALSE  OBVIOUS
    <3>2. p + 1 \in p + 1 .. k  BY <1>1, <3>1
    <3>3. QED  BY <1>2, <2>1, <2>3, <3>2 DEF Longest!All
  <2> HIDE DEF H, P, T
  <2>5. QED  BY <1>1, <1>2, <1>4, <1>5, <2>4 DEF H, P, T, S
<1>7. CASE \E q \in p + 1 .. k :
             Longest!All(Longest!Hex, p + 2, q) /\ Longest!All({"u", "l"}, q + 1, k)
  <2>1. PICK q \in p + 1 .. k :
             Longest!All(Longest!Hex, p + 2, q) /\ Longest!All(S, q + 1, k)
    BY <1>7
  <2> DEFINE n == q + 1
  <2>2. q \in Nat /\ p + 1 <= q /\ q <= k /\ n \in Nat  BY <1>1
  <2>3. \A a \in p + 2 .. k : a \in Inside /\ At(a) = text[a]  BY <1>1, InsideIs DEF Inside
  <2>4. \A a \in p + 2 .. q : At(a) \in Hex
    <3>1. \A a \in p + 2 .. q : a \in p + 2 .. k  BY <1>1, <2>2
    <3>2. QED  BY <2>1, <2>3, <3>1, SameClasses DEF Longest!All
  <2> HIDE DEF H, P, T, S
  <2>5. CASE k = q
    <3>1. k < H
      <4>1. CASE p + 2 <= q
        <5>1. q < Past(Hex, p + 2)  BY <1>2, <1>3, <2>2, <2>4, <4>1, PastBound
        <5>2. QED  BY <1>2, <2>5, <5>1
      <4>2. CASE ~(p + 2 <= q)  BY <1>1, <1>2, <1>5, <2>2, <2>5, <4>2
      <4>3. QED  BY <4>1, <4>2
    <3>2. QED  BY <1>1, <1>2, <1>4, <1>5, <3>1 DEF H, P, T, S
  <2>6. CASE k # q
    <3>1. n \in p + 2 .. k /\ n \in q + 1 .. k /\ n <= k  BY <1>1, <2>2, <2>6
    <3>2. \A a \in n .. k : At(a) \in S
      <4>1. \A a \in n .. k : a \in p + 2 .. k /\ a \in q + 1 .. k  BY <1>1, <2>2
      <4>2. QED  BY <2>1, <2>3, <4>1 DEF Longest!All
    <3>3. At(n) \in S /\ n \in Inside /\ n \in Place /\ p + 2 <= n
      BY <2>2, <2>3, <3>1, <3>2, InsideIs
    <3>4. \A a \in p + 2 .. n - 1 : At(a) \in Hex  BY <2>2, <2>4
    <3> HIDE DEF n
    <3>5. H = n
      <4>1. At(n) \notin Hex  BY <1>3, <3>3
      <4>2. QED  BY <1>2, <1>3, <3>3, <3>4, <4>1, PastIs
    <3>6. k < T
      <4>1. k < Past(S, n)  BY <1>1, <1>3, <3>1, <3>2, <3>3, PastBound
      <4>2. QED  BY <3>5, <4>1 DEF T
    <3>7. At(P) # "p"  BY <1>2, <1>3, <3>3, <3>5
    <3>8. QED  BY <3>6, <3>7 DEF H, P, T, S
  <2>7. QED  BY <2>5, <2>6
<1>8. QED  BY <1>6, <1>7 DEF Longest!IsInteger

LEMMA HexIntegerTaken ==
  ASSUME IsText, p \in Inside, AtHex
  PROVE  LET to == Past({"u", "l"}, AfterHexDigits) IN
         Longest!IsInteger(p, to - 1) /\ to \in Nat
<1> DEFINE H == AfterHexDigits
           S == {"u", "l"}
           to == Past(S, H)
           q == H - 1
           j == to - 1
<1>1. p \in Nat /\ Len(text) \in Nat  BY InsideIs
<1>2. /\ p + 2 <= H /\ H \in Place
      /\ \A a \in p + 2 .. H - 1 : At(a) \in Hex
  BY HexIs
<1>3. "end" \notin S  OBVIOUS
<1>4. to \in Place /\ H <= to /\ \A a \in H .. to - 1 : At(a) \in S  BY <1>2, <1>3, PastEnds
<1>5. H \in Nat /\ to \in Nat /\ to - 1 <= Len(text)  BY <1>1, <1>2, <1>4 DEF Place
<1> HIDE DEF H, S, to
<1>6. \A a \in p + 2 .. j : a \in Inside /\ At(a) = text[a]
  BY <1>1, <1>5, InsideIs DEF Inside
<1>7. q \in p + 1 .. j /\ j > p /\ q + 1 = H  BY <1>1, <1>2, <1>4, <1>5
<1>8. Longest!All(Longest!Hex, p + 2, q)
  <2>1. \A a \in p + 2 .. q : a \in p + 2 .. j  BY <1>1, <1>4, <1>5
  <2>2. QED  BY <1>2, <1>6, <2>1, SameClasses DEF Longest!All
<1>9. Longest!All(S, q + 1, j)
  <2>1. \A a \in H .. j : a \in p + 2 .. j  BY <1>1, <1>2, <1>5
  <2>2. QED  BY <1>4, <1>6, <1>7, <2>1 DEF Longest!All
<1>10. Longest!Is(<<"0", "x">>, p, p + 1)  BY AtHexIs
<1> HIDE DEF q, j
<1>11. Longest!IsInteger(p, j)
  BY <1>7, <1>8, <1>9, <1>10 DEF Longest!IsInteger, S
<1>12. QED  BY <1>5, <1>11 DEF j, to, S, H

LEMMA HexTaken ==
  ASSUME IsText, p \in Inside, AtHex
  PROVE  /\ At(AfterHexPoint) = "p" =>
              LET to == Over({"l", "f"}, AfterExponent(AfterHexPoint)) IN
              Longest!IsFloat(p, to - 1) /\ Bounds(p, to - 1)
         /\ At(AfterHexPoint) # "p" =>
              LET to == Past({"u", "l"}, AfterHexDigits) IN
              Longest!IsInteger(p, to - 1) /\ Bounds(p, to - 1)
<1> DEFINE P == AfterHexPoint
           f == Over({"l", "f"}, AfterExponent(P))
           i == Past({"u", "l"}, AfterHexDigits)
<1>1. p \in Nat /\ Len(text) \in Nat /\ P \in Nat  BY HexIs, InsideIs DEF Place
<1>2. At(p) \in Digit  BY AtHexIs, ClassesDiffer
<1>3. \A k \in p .. Len(text) : Longest!IsFloat(p, k) => At(P) = "p" /\ k < f  BY HexFloatIs
<1>4. \A k \in p .. Len(text) : Longest!IsInteger(p, k) => k < i /\ (At(P) = "p" => k < P)
  BY HexIntegerIs
<1>5. At(P) = "p" => Longest!IsFloat(p, f - 1) /\ P < f /\ f \in Nat  BY HexFloatTaken
<1>6. Longest!IsInteger(p, i - 1) /\ i \in Nat  BY HexIntegerTaken
<1> HIDE DEF P, f, i
<1>7. ASSUME NEW k \in p .. Len(text), Longest!IsLexeme(p, k) \/ Longest!IsBlank(p, k)
      PROVE  IF At(P) = "p" THEN k <= f - 1 ELSE k <= i - 1
  <2>1. Longest!IsInteger(p, k) \/ Longest!IsFloat(p, k)  BY <1>2, <1>7, OnlyForm
  <2>2. CASE At(P) = "p"
    <3>1. k < f  BY <1>1, <1>3, <1>4, <1>5, <2>1, <2>2
    <3>2. QED  BY <1>1, <1>5, <2>2, <3>1
  <2>3. CASE At(P) # "p"
    <3>1. k < i  BY <1>3, <1>4, <2>1, <2>3
    <3>2. QED  BY <1>1, <1>6, <2>3, <3>1
  <2>4. QED  BY <2>2, <2>3
<1>8. QED  BY <1>5, <1>6, <1>7 DEF Bounds, P, f, i

-----------------------------------------------------------------------------
(* What is passed over, and what is refused *)

LEMMA SlashIs ==
  ASSUME IsText, p \in Inside
  PROVE  /\ AtLineComment <=> At(p) = "/" /\ At(p + 1) = "/"
         /\ AtBlockComment <=> At(p) = "/" /\ At(p + 1) = "*"
         /\ AtLineComment => p + 1 \in Inside /\ Longest!Is(<<"/", "/">>, p, p + 1)
         /\ Longest!OpensBlockComment(p) <=> AtBlockComment
         /\ AtBlockComment => p + 1 \in Inside /\ Longest!Is(<<"/", "*">>, p, p + 1)
<1>1. p \in Nat /\ p \in Int /\ p \in Place /\ At(p) = text[p] /\ Len(text) \in Nat  BY InsideIs
<1>2. p + 1 - 1 = p /\ p + 2 - 1 = p + 1  BY <1>1
<1>3. AtLineComment <=> At(p) = "/" /\ At(p + 1) = "/"
  <2>1. AtLineComment <=> \A k \in 1 .. 2 : At(p + k - 1) = <<"/", "/">>[k]
    BY DEF AtLineComment, Starts
  <2>2. AtLineComment <=> At(p + 1 - 1) = "/" /\ At(p + 2 - 1) = "/"  BY <2>1
  <2>3. QED  BY <1>2, <2>2
<1>4. AtBlockComment <=> At(p) = "/" /\ At(p + 1) = "*"
  <2>1. AtBlockComment <=> \A k \in 1 .. 2 : At(p + k - 1) = <<"/", "*">>[k]
    BY DEF AtBlockComment, Starts
  <2>2. AtBlockComment <=> At(p + 1 - 1) = "/" /\ At(p + 2 - 1) = "*"  BY <2>1
  <2>3. QED  BY <1>2, <2>2
<1>5. /\ Longest!Is(<<"/", "/">>, p, p + 1) <=> text[p] = "/" /\ text[p + 1] = "/"
      /\ Longest!Is(<<"/", "*">>, p, p + 1) <=> text[p] = "/" /\ text[p + 1] = "*"
  <2>1. Longest!Is(<<"/", "/">>, p, p + 1) <=> text[p] = "/" /\ text[p + 1] = "/"
    BY <1>1, IsTwo
  <2>2. Longest!Is(<<"/", "*">>, p, p + 1) <=> text[p] = "/" /\ text[p + 1] = "*"
    BY <1>1, IsTwo
  <2>3. QED  BY <2>1, <2>2
<1>6. At(p + 1) \in {"/", "*"} => p + 1 \in Inside
  <2>1. p + 1 \in Place  BY <1>1, InText, InsideIs
  <2>2. QED  BY <2>1, InsideIs
<1>7. p + 1 \in Inside <=> p < Len(text)  BY <1>1 DEF Inside
<1>8. p + 1 \in Inside => At(p + 1) = text[p + 1]  BY InsideIs
<1>9. Longest!OpensBlockComment(p) <=> p < Len(text) /\ Longest!Is(<<"/", "*">>, p, p + 1)
  BY DEF Longest!OpensBlockComment
<1>10. QED  BY <1>1, <1>3, <1>4, <1>5, <1>6, <1>7, <1>8, <1>9

LEMMA SpacePassed ==
  ASSUME IsText, p \in Inside, At(p) \in Space
  PROVE  Longest!IsBlank(p, p) /\ ~Longest!IsLineComment(p, p)
<1>1. p \in Nat /\ text[p] \in Longest!Space  BY InsideIs, SameClasses
<1>2. Longest!All(Longest!Space, p, p)  BY <1>1 DEF Longest!All
<1>3. ~Longest!IsLineComment(p, p)  BY <1>1 DEF Longest!IsLineComment
<1>4. QED  BY <1>2, <1>3 DEF Longest!IsBlank

LEMMA LineCommentPassed ==
  ASSUME IsText, p \in Inside, AtLineComment
  PROVE  LET to == Past(Lexemes!Char \ {"newline"}, p + 2) IN
         /\ Longest!IsBlank(p, to - 1)
         /\ to - 1 \in p .. Len(text)
         /\ to - 1 = Len(text) \/ text[(to - 1) + 1] = "newline"
<1> DEFINE to == Past(Lexemes!Char \ {"newline"}, p + 2)
           j == to - 1
<1>1. p \in Place /\ p \in Nat /\ Len(text) \in Nat  BY InsideIs
<1>2. /\ to \in Place /\ p + 2 <= to
      /\ \A k \in p .. to - 1 : At(k) # "newline"
      /\ At(to) \in {"newline", "end"}
  BY <1>1, LineCommentEnds
<1> HIDE DEF to
<1>3. to \in Nat /\ j \in p .. Len(text) /\ j > p /\ j + 1 = to  BY <1>1, <1>2 DEF Place
<1>4. \A k \in p .. j : text[k] # "newline"
  <2>1. \A k \in p .. j : k \in Inside  BY <1>1, <1>3 DEF Inside
  <2>2. QED  BY <1>2, <2>1, InsideIs
<1>5. Longest!Is(<<"/", "/">>, p, p + 1)  BY SlashIs
<1>6. Longest!IsLineComment(p, j)  BY <1>3, <1>4, <1>5 DEF Longest!IsLineComment
<1>7. j = Len(text) \/ text[to] = "newline"
  <2>1. CASE At(to) = "end"  BY <1>1, <1>2, <1>3, <2>1, InText
  <2>2. CASE At(to) = "newline"  BY <1>2, <2>2, InsideIs
  <2>3. QED  BY <1>2, <2>1, <2>2
<1> HIDE DEF j
<1>8. Longest!IsBlank(p, j)  BY <1>6 DEF Longest!IsBlank
<1>9. QED  BY <1>3, <1>7, <1>8 DEF j, to

LEMMA ClosingIs ==
  ASSUME IsText, NEW q \in Inside, q + 1 \in Inside
  PROVE  Starts(<<"*", "/">>, q) <=> Longest!Is(<<"*", "/">>, q, q + 1)
<1>1. q \in Nat /\ q \in Int /\ At(q) = text[q] /\ At(q + 1) = text[q + 1]  BY InsideIs
<1>2. q + 1 - 1 = q /\ q + 2 - 1 = q + 1  BY <1>1
<1>3. Starts(<<"*", "/">>, q) <=> \A k \in 1 .. 2 : At(q + k - 1) = <<"*", "/">>[k]  BY DEF Starts
<1>4. Starts(<<"*", "/">>, q) <=> At(q + 1 - 1) = "*" /\ At(q + 2 - 1) = "/"  BY <1>3
<1>5. Longest!Is(<<"*", "/">>, q, q + 1) <=> text[q] = "*" /\ text[q + 1] = "/"  BY <1>1, IsTwo
<1>6. QED  BY <1>1, <1>2, <1>4, <1>5

\* A block comment ends behind the first closing.
LEMMA BlockCommentIs ==
  ASSUME IsText, p \in Inside, AtBlockComment, NEW q \in Int
  PROVE  Longest!IsBlockComment(p, q + 1) /\ q + 1 <= Len(text)
           <=> q \in Closings /\ \A r \in Closings : q <= r
<1> DEFINE Ends(k) == Longest!Is(<<"*", "/">>, k, k + 1)
<1>1. p \in Nat \ {0} /\ Len(text) \in Nat  BY InsideIs
<1>2. Longest!Is(<<"/", "*">>, p, p + 1)  BY SlashIs
<1>3. \A k \in p + 2 .. Len(text) - 1 : k \in Closings <=> Ends(k)
  <2>1. TAKE k \in p + 2 .. Len(text) - 1
  <2>2. k \in Inside /\ k + 1 \in Inside  BY <1>1 DEF Inside
  <2>3. Starts(<<"*", "/">>, k) <=> Longest!Is(<<"*", "/">>, k, k + 1)  BY <2>2, ClosingIs
  <2>4. QED  BY <2>3 DEF Closings
<1>4. Closings \subseteq p + 2 .. Len(text) - 1  BY DEF Closings
<1>5. (q + 1) - 1 = q  OBVIOUS
<1>6. \A k \in Int : (k - 1) + 1 = k  OBVIOUS
<1>7. Longest!IsBlockComment(p, q + 1) <=>
        q + 1 > p + 2 /\ Ends(q) /\ \A k \in p + 3 .. q : ~Ends(k - 1)
  BY <1>2, <1>5, <1>6 DEF Longest!IsBlockComment
<1> HIDE DEF Ends
<1>8. ASSUME q + 1 > p + 2, Ends(q), \A k \in p + 3 .. q : ~Ends(k - 1), q + 1 <= Len(text)
      PROVE  q \in Closings /\ \A r \in Closings : q <= r
  <2>1. q \in Closings  BY <1>1, <1>3, <1>8
  <2>2. SUFFICES ASSUME NEW r \in Closings, r < q PROVE FALSE  BY <1>1, <1>4, <2>1
  <2>3. r \in p + 2 .. Len(text) - 1 /\ Ends(r)  BY <1>3, <1>4
  <2>4. r + 1 \in p + 3 .. q /\ (r + 1) - 1 = r  BY <1>1, <2>2, <2>3
  <2>5. QED  BY <1>8, <2>3, <2>4
<1>9. ASSUME q \in Closings, \A r \in Closings : q <= r
      PROVE  q + 1 > p + 2 /\ Ends(q) /\ (\A k \in p + 3 .. q : ~Ends(k - 1)) /\ q + 1 <= Len(text)
  <2>1. q \in p + 2 .. Len(text) - 1 /\ Ends(q)  BY <1>3, <1>4, <1>9
  <2>2. ASSUME NEW k \in p + 3 .. q, Ends(k - 1) PROVE FALSE
    <3>1. k - 1 \in p + 2 .. Len(text) - 1 /\ k - 1 < q  BY <1>1, <2>1
    <3>2. k - 1 \in Closings  BY <1>3, <2>2, <3>1
    <3>3. QED  BY <1>1, <1>9, <3>1, <3>2
  <2>3. QED  BY <1>1, <2>1, <2>2
<1>10. QED  BY <1>7, <1>8, <1>9

LEMMA BlockCommentPassed ==
  ASSUME IsText, p \in Inside, AtBlockComment, NEW q \in Closings, \A r \in Closings : q <= r
  PROVE  /\ Longest!IsBlank(p, q + 1) /\ ~Longest!IsLineComment(p, q + 1)
         /\ q + 1 \in p .. Len(text)
<1>1. q \in p + 2 .. Len(text) - 1 /\ p \in Nat /\ Len(text) \in Nat  BY InsideIs DEF Closings
<1>2. Longest!IsBlockComment(p, q + 1)
  <2>1. q \in Int  BY <1>1
  <2>2. QED  BY <2>1, BlockCommentIs
<1>3. text[p + 1] # "/"
  <2>1. At(p + 1) = "*" /\ p + 1 \in Inside  BY SlashIs
  <2>2. QED  BY <2>1, InsideIs
<1>4. ~Longest!IsLineComment(p, q + 1)
  <2>1. p \in Int  BY <1>1
  <2>2. Longest!Is(<<"/", "/">>, p, p + 1) => text[p] = "/" /\ text[p + 1] = "/"
    BY <2>1, IsPair, Zenon
  <2>3. QED  BY <1>3, <2>2 DEF Longest!IsLineComment
<1>5. QED  BY <1>1, <1>2, <1>4 DEF Longest!IsBlank

LEMMA UnterminatedRefused ==
  ASSUME IsText, p \in Inside, AtBlockComment, Closings = {}, NEW k \in p .. Len(text)
  PROVE  ~Longest!IsBlank(p, k)
<1>1. p \in Nat /\ Len(text) \in Nat /\ k \in Int /\ p \in Int /\ k <= Len(text)  BY InsideIs
<1>2. At(p) = "/" /\ At(p + 1) = "*" /\ p + 1 \in Inside  BY SlashIs
<1>3. text[p] = "/" /\ text[p + 1] = "*"  BY <1>2, InsideIs
<1>4. ~Longest!All(Longest!Space, p, k)
  <2>1. p \in p .. k  BY <1>1
  <2>2. "/" \notin Longest!Space  BY SameClasses, ClassesDiffer
  <2>3. QED  BY <1>3, <2>1, <2>2 DEF Longest!All
<1>5. ~Longest!IsLineComment(p, k)
  <2>1. Longest!Is(<<"/", "/">>, p, p + 1) => text[p] = "/" /\ text[p + 1] = "/"
    BY <1>1, IsPair, Zenon
  <2>2. QED  BY <1>3, <2>1 DEF Longest!IsLineComment
<1>6. ~Longest!IsBlockComment(p, k)
  <2>1. k - 1 \in Int /\ (k - 1) + 1 = k  BY <1>1
  <2>2. Longest!IsBlockComment(p, (k - 1) + 1) /\ (k - 1) + 1 <= Len(text) => k - 1 \in Closings
    BY <2>1, BlockCommentIs
  <2>3. QED  BY <1>1, <2>1, <2>2
<1>7. QED  BY <1>4, <1>5, <1>6 DEF Longest!IsBlank

LEMMA BadCharRefused ==
  ASSUME IsText, p \in Inside, At(p) = "apostrophe", ~IsCharLiteral, NEW k \in p .. Len(text)
  PROVE  ~Longest!IsLexeme(p, k) /\ ~Longest!IsBlank(p, k)
  BY OnlyForm, CharIs

LEMMA InvalidRefused ==
  ASSUME IsText, p \in Place, InvalidCharacter
  PROVE  p \in Inside /\ \A k \in p .. Len(text) : ~Longest!IsLexeme(p, k) /\ ~Longest!IsBlank(p, k)
<1>1. /\ At(p) \notin Space \cup Letter \cup {"quote", "apostrophe", "end"}
      /\ OperatorLength = 0 /\ ~StartsNumber
  BY DEF InvalidCharacter
<1>2. p \in Inside /\ At(p) \in Lexemes!Char  BY <1>1, InsideIs
<1>3. At(p) \notin SingleCharOps  BY <1>1 DEF OperatorLength
<1>4. At(p) \notin Digit  BY <1>1 DEF StartsNumber
<1>5. At(p) \in {"backslash", "@"}  BY <1>1, <1>2, <1>3, <1>4, EndIsNoChar, ClassesDiffer
<1>6. QED  BY <1>2, <1>5, OnlyForm

-----------------------------------------------------------------------------
(* Strings: whether a place is escaped alternates along backslashes *)

\* n backslashes, and no more, are before k.
Run(i, k, n) ==
  /\ \A m \in k - n .. k - 1 : text[m] = "backslash"
  /\ k - n - 1 > i => text[k - n - 1] # "backslash"

LEMMA EscapedIs ==
  ASSUME NEW i \in Nat, NEW k \in Nat
  PROVE  Longest!Escaped(i, k) <=> \E n \in 1 .. k - i - 1 : n % 2 = 1 /\ Run(i, k, n)
<1>1. \A n \in Int : Longest!All({"backslash"}, k - n, k - 1)
                       <=> \A m \in k - n .. k - 1 : text[m] = "backslash"
  BY DEF Longest!All
<1>2. QED  BY <1>1 DEF Longest!Escaped, Run

\* A place that is before none is not escaped.
LEMMA NotEscaped ==
  ASSUME NEW i \in Nat, NEW k \in Nat, text[k - 1] # "backslash" \/ k = i + 1
  PROVE  ~Longest!Escaped(i, k)
<1>1. SUFFICES ASSUME NEW n \in 1 .. k - i - 1, Run(i, k, n) PROVE FALSE  BY EscapedIs
<1>2. k - 1 \in k - n .. k - 1 /\ k # i + 1  OBVIOUS
<1>3. QED  BY <1>1, <1>2 DEF Run

LEMMA RunsAreOne ==
  ASSUME NEW i \in Nat, NEW k \in Nat, NEW n \in 0 .. k - i - 1, NEW m \in 0 .. k - i - 1,
         Run(i, k, n), Run(i, k, m)
  PROVE  n = m
<1>1. \A a, b \in 0 .. k - i - 1 : ~(a < b /\ Run(i, k, a) /\ Run(i, k, b))
  <2>1. SUFFICES ASSUME NEW a \in 0 .. k - i - 1, NEW b \in 0 .. k - i - 1, a < b,
                        Run(i, k, a), Run(i, k, b)
                 PROVE  FALSE
    OBVIOUS
  <2>2. k - a - 1 \in k - b .. k - 1 /\ k - a - 1 > i  BY <2>1
  <2>3. QED  BY <2>1, <2>2 DEF Run
<1>2. ~(n < m) /\ ~(m < n)  BY <1>1
<1>3. QED  BY <1>2

LEMMA RunExists ==
  ASSUME NEW i \in Nat, NEW k \in Nat, i < k
  PROVE  \E n \in 0 .. k - i - 1 : Run(i, k, n)
<1> DEFINE T == {j \in i + 1 .. k : \A m \in j .. k - 1 : text[m] = "backslash"}
<1>1. T \subseteq Nat /\ k \in T  OBVIOUS
<1>2. PICK j \in T : \A l \in T : j <= l  BY <1>1, Least
<1>3. j \in i + 1 .. k /\ \A m \in j .. k - 1 : text[m] = "backslash"  BY <1>2
<1>4. k - (k - j) = j /\ k - j \in 0 .. k - i - 1 /\ k - (k - j) - 1 = j - 1  BY <1>3
<1>5. j - 1 > i => text[j - 1] # "backslash"
  <2>1. SUFFICES ASSUME j - 1 > i, text[j - 1] = "backslash" PROVE FALSE  OBVIOUS
  <2>2. j - 1 \in i + 1 .. k  BY <1>3, <2>1
  <2>3. \A m \in j - 1 .. k - 1 : m = j - 1 \/ m \in j .. k - 1  BY <1>3
  <2>4. j - 1 \in T  BY <1>3, <2>1, <2>2, <2>3
  <2>5. QED  BY <1>2, <1>3, <2>4
<1>6. Run(i, k, k - j)  BY <1>3, <1>4, <1>5 DEF Run
<1>7. QED  BY <1>4, <1>6

LEMMA RunGrows ==
  ASSUME NEW i \in Nat, NEW k \in Nat, i < k, NEW n \in 0 .. k - i - 1, Run(i, k, n),
         text[k] = "backslash"
  PROVE  Run(i, k + 1, n + 1)
<1>1. (k + 1) - (n + 1) = k - n /\ (k + 1) - 1 = k /\ (k + 1) - (n + 1) - 1 = k - n - 1
  OBVIOUS
<1>2. \A m \in k - n .. k : m = k \/ m \in k - n .. k - 1  OBVIOUS
<1>3. QED  BY <1>1, <1>2 DEF Run

LEMMA Alternates ==
  ASSUME NEW i \in Nat, NEW k \in Nat, i < k, text[k] = "backslash"
  PROVE  Longest!Escaped(i, k + 1) <=> ~Longest!Escaped(i, k)
<1>1. PICK n \in 0 .. k - i - 1 : Run(i, k, n)  BY RunExists
<1>2. Run(i, k + 1, n + 1) /\ n + 1 \in 0 .. (k + 1) - i - 1  BY <1>1, RunGrows
<1>3. Longest!Escaped(i, k) <=> n % 2 = 1
  <2>1. \A m \in 1 .. k - i - 1 : Run(i, k, m) => m = n
    <3>1. \A m \in 1 .. k - i - 1 : m \in 0 .. k - i - 1  OBVIOUS
    <3>2. QED  BY <1>1, <3>1, RunsAreOne
  <2>2. n % 2 = 1 => n \in 1 .. k - i - 1  BY <1>1
  <2>3. QED  BY <1>1, <2>1, <2>2, EscapedIs
<1>4. Longest!Escaped(i, k + 1) <=> (n + 1) % 2 = 1
  <2>1. k + 1 \in Nat  OBVIOUS
  <2>2. \A m \in 1 .. (k + 1) - i - 1 : Run(i, k + 1, m) => m = n + 1
    <3>1. \A m \in 1 .. (k + 1) - i - 1 : m \in 0 .. (k + 1) - i - 1  OBVIOUS
    <3>2. QED  BY <1>2, <2>1, <3>1, RunsAreOne
  <2>3. n + 1 \in 1 .. (k + 1) - i - 1  BY <1>1
  <2>4. QED  BY <1>2, <2>1, <2>2, <2>3, EscapedIs
<1>5. (n + 1) % 2 = 1 <=> ~(n % 2 = 1)  BY <1>1
<1>6. QED  BY <1>3, <1>4, <1>5

-----------------------------------------------------------------------------
\* The string read so far: it has not been closed, and what is next might.
StringInv ==
  status = "string" =>
    /\ text[literal.from] = "quote"
    /\ \A k \in literal.from + 1 .. p - 1 :
         text[k] = "quote" => Longest!Escaped(literal.from, k)
    /\ p \in Inside => ~Longest!Escaped(literal.from, p)

\* One character, or one escape, further.
LEMMA StringMoves ==
  ASSUME LexInv, StringInv, StringChar
  PROVE  /\ \A k \in literal.from + 1 .. p' - 1 :
              text[k] = "quote" => Longest!Escaped(literal.from, k)
         /\ p' \in Inside => ~Longest!Escaped(literal.from, p')
<1> DEFINE i == literal.from
<1>1. IsText /\ p \in Place /\ status = "string" /\ i \in 1 .. p - 1
  BY DEF LexInv, ReaderInv, StringChar, InString
<1>2. At(p) \notin {"quote", "end"}  BY DEF StringChar, InString
<1>3. p \in Inside /\ p \in Nat /\ At(p) = text[p] /\ i \in Nat /\ i < p /\ Len(text) \in Nat
  BY <1>1, <1>2, InsideIs
<1>4. /\ \A k \in i + 1 .. p - 1 : text[k] = "quote" => Longest!Escaped(i, k)
      /\ ~Longest!Escaped(i, p)
  BY <1>1, <1>3 DEF StringInv
<1> HIDE DEF i
<1>5. CASE At(p) # "backslash"
  <2>1. p' = p + 1  BY <1>3, <1>5 DEF StringChar, Over
  <2>2. \A k \in i + 1 .. p' - 1 : k = p \/ k \in i + 1 .. p - 1  BY <1>3, <2>1
  <2>3. ~Longest!Escaped(i, p + 1)
    <3>1. (p + 1) - 1 = p /\ p + 1 \in Nat  BY <1>3
    <3>2. QED  BY <1>3, <1>5, <3>1, NotEscaped
  <2>4. QED  BY <1>2, <1>3, <1>4, <2>1, <2>2, <2>3 DEF i
<1>6. CASE At(p) = "backslash"
  <2> DEFINE f == p + 1
             e == AfterEscape(f)
  <2>1. p' = e  BY <1>3, <1>6 DEF StringChar, Over
  <2>2. f \in Place /\ f \in Nat /\ f > i  BY <1>1, <1>2, <1>3, InText DEF Place
  <2>3. /\ e \in Place /\ f <= e /\ (At(f) # "end" => f < e)
        /\ \A k \in f + 1 .. e - 1 : At(k) \in Hex
    BY <1>1, <2>2, AfterEscapeEnds
  <2>4. e \in Nat /\ e - 1 <= Len(text)  BY <1>3, <2>3 DEF Place
  <2>5. Longest!Escaped(i, f)  BY <1>3, <1>4, <1>6, Alternates
  <2> HIDE DEF e
  <2>6. "quote" \notin Hex /\ "backslash" \notin Hex
    BY EndIsNoChar
  <2>7. \A k \in f + 1 .. e - 1 : text[k] \in Hex
    <3>1. \A k \in f + 1 .. e - 1 : k \in Inside  BY <1>3, <2>2, <2>4 DEF Inside
    <3>2. QED  BY <1>1, <2>3, <3>1, InsideIs
  <2>8. \A k \in i + 1 .. e - 1 : text[k] = "quote" => Longest!Escaped(i, k)
    <3>1. TAKE k \in i + 1 .. e - 1
    <3>2. k \in i + 1 .. p - 1 \/ k = p \/ k = f \/ k \in f + 1 .. e - 1  BY <1>3
    <3>3. QED  BY <1>3, <1>4, <1>6, <2>5, <2>6, <2>7, <3>2
  <2>9. ASSUME e \in Inside PROVE ~Longest!Escaped(i, e)
    <3>1. At(f) # "end" /\ f < e
      <4>1. At(f) = "end" => e = f
        <5>1. "end" \notin Octal  BY EndIsNoChar
        <5>2. QED  BY <5>1 DEF AfterEscape, e
      <4>2. At(f) # "end"  BY <1>1, <2>9, <4>1, InsideIs, EndIsNoChar
      <4>3. QED  BY <2>3, <4>2
    <3>2. CASE e = f + 1
      <4>1. CASE text[f] = "backslash"  BY <1>3, <2>2, <2>5, <3>2, <4>1, Alternates
      <4>2. CASE text[f] # "backslash"
        <5>1. (f + 1) - 1 = f /\ f + 1 \in Nat  BY <2>2
        <5> HIDE DEF f
        <5>2. QED  BY <1>3, <3>2, <4>2, <5>1, NotEscaped
      <4>3. QED  BY <4>1, <4>2
    <3>3. CASE e # f + 1
      <4>1. e - 1 \in f + 1 .. e - 1  BY <2>2, <2>4, <3>1, <3>3
      <4>2. text[e - 1] # "backslash"  BY <2>6, <2>7, <4>1
      <4>3. QED  BY <1>3, <2>4, <4>2, NotEscaped
    <3>4. QED  BY <3>2, <3>3
  <2>10. QED  BY <2>1, <2>8, <2>9 DEF i
<1>7. QED  BY <1>5, <1>6

LEMMA NextString ==
  ASSUME LexInv, StringInv, [Next]_vars
  PROVE  StringInv'
<1>1. IsText /\ p \in Place  BY DEF LexInv, ReaderInv
<1>2. CASE StringChar
  <2>1. text' = text /\ literal'.from = literal.from
    <3> DEFINE c == IF IsFull THEN 2 * literal.cap ELSE literal.cap
    <3>1. literal = [from |-> literal.from, line |-> literal.line, col |-> literal.col,
                    len |-> literal.len, cap |-> literal.cap]
      BY <1>2 DEF LexInv, ReaderInv, StringChar, InString
    <3>2. literal' = [literal EXCEPT !.len = literal.len + 1, !.cap = c] /\ text' = text
      BY <1>2 DEF StringChar
    <3> HIDE DEF c
    <3>3. literal' = [from |-> literal.from, line |-> literal.line, col |-> literal.col,
                    len |-> literal.len + 1, cap |-> c]
      BY <3>1, <3>2
    <3>4. QED  BY <3>2, <3>3
  <2>2. text[literal.from] = "quote"  BY <1>2 DEF StringInv, StringChar, InString
  <2>3. /\ \A k \in literal.from + 1 .. p' - 1 :
              text[k] = "quote" => Longest!Escaped(literal.from, k)
        /\ p' \in Inside => ~Longest!Escaped(literal.from, p')
    BY <1>2, StringMoves
  <2>4. QED  BY <2>1, <2>2, <2>3 DEF StringInv, Inside, Longest!Escaped, Longest!All
<1>3. CASE BeginString
  <2>1. text' = text /\ literal'.from = p /\ p' = p + 1 /\ At(p) = "quote"
    BY <1>3 DEF BeginString
  <2>2. p \in Inside /\ p \in Nat /\ text[p] = "quote"  BY <1>1, <2>1, InsideIs
  <2>3. \A k \in p + 1 .. (p + 1) - 1 : FALSE  BY <2>2
  <2>4. ~Longest!Escaped(p, p + 1)
    <3>1. p + 1 \in Nat  BY <2>2
    <3>2. QED  BY <2>2, <3>1, NotEscaped
  <2>5. QED  BY <2>1, <2>2, <2>3, <2>4 DEF StringInv, Longest!Escaped, Longest!All
<1>4. CASE UNCHANGED vars
  BY <1>4 DEF vars, StringInv, Inside, Longest!Escaped, Longest!All
<1>5. CASE \/ AddsToken \/ Blank \/ LineComment \/ BlockComment \/ Returns
           \/ EndString \/ EndText \/ Consumes \/ Exit \/ Finish
  <2>1. status' # "string"
    <3>1. CASE AddsToken  BY <1>1, <3>1, TokensArePlain DEF Add, Lexing
    <3>2. CASE Returns  BY <3>2, ReturnKinds DEF Return
    <3>3. CASE Consumes  BY <3>3, ConsumeKinds DEF ToNext, Parsing
    <3>4. CASE Blank \/ LineComment \/ BlockComment \/ EndString \/ EndText \/ Exit \/ Finish
      BY <3>4 DEF Blank, LineComment, BlockComment, EndString, EndText, Exit, Finish, Lexing
    <3>5. QED  BY <1>5, <3>1, <3>2, <3>3, <3>4
  <2>2. QED  BY <2>1 DEF StringInv
<1>6. QED  BY <1>2, <1>3, <1>4, <1>5, StepKinds

-----------------------------------------------------------------------------
(* The steps of Lexemes *)

\* Where reading is, and what is told of the list.
Where == IF literal # None THEN literal.from ELSE p
Told == IF Stage = "stopped" THEN <<>> ELSE Taken

LEMMA WhereIs ==
  ASSUME LexInv
  PROVE  /\ status = "lexing" => Where = p
         /\ status = "string" => Where = literal.from /\ Where \in Inside /\ Where < p
<1>1. status = "lexing" => Where = p  BY DEF LexInv, ReaderInv, Where
<1>2. ASSUME status = "string"
      PROVE  Where = literal.from /\ Where \in Inside /\ Where < p
  <2>1. literal.from \in 1 .. p - 1 /\ p \in Place /\ IsText  BY <1>2 DEF LexInv, ReaderInv
  <2>2. literal # None  BY <2>1 DEF None
  <2>3. Len(text) \in Nat  BY <2>1, InsideIs
  <2>4. QED  BY <2>1, <2>2, <2>3 DEF Where, Inside, Place
<1>3. QED  BY <1>1, <1>2

LEMMA StageIs ==
  /\ Reads => Stage = "reading"
  /\ status = "parsing" => Stage = "read"
  /\ status = "refused" => Stage = "refused"
  /\ status \in {"exit", "memory", "done"} => Stage = "stopped"
<1>1. CASE status \in {"lexing", "string"}  BY <1>1 DEF Stage, Reads
<1>2. CASE status = "parsing"  BY <1>2 DEF Stage, Reads
<1>3. CASE status = "refused"  BY <1>3 DEF Stage, Reads
<1>4. CASE status \notin {"lexing", "string", "parsing", "refused"}  BY <1>4 DEF Stage, Reads
<1>5. QED  BY <1>1, <1>2, <1>3, <1>4

LEMMA NothingTold ==
  ASSUME tokens = <<>>
  PROVE  Taken = <<>>
<1>1. Found = 0  BY DEF Found
<1>2. 1 .. 0 = {}  OBVIOUS
<1>3. QED  BY <1>1, <1>2 DEF Taken

LEMMA FoundIs ==
  ASSUME ListInv
  PROVE  /\ Found \in Nat /\ Found <= Len(tokens) /\ Len(tokens) \in Nat
         /\ Reads => Found = Len(tokens)
         /\ DOMAIN tokens = 1 .. Len(tokens)
<1>1. Len(tokens) \in Nat /\ DOMAIN tokens = 1 .. Len(tokens)  BY DEF ListInv
<1>2. tokens # <<>> => Len(tokens) \in DOMAIN tokens
  <2>1. PICK F : tokens \in Seq(F)  BY DEF ListInv
  <2>2. \A s \in Seq(F) : s # <<>> => Len(s) \in Nat \ {0}  BY EmptySeq, Zenon
  <2>3. tokens # <<>> => Len(tokens) # 0  BY <2>1, <2>2
  <2>4. QED  BY <1>1, <2>3
<1>3. Reads => ~(tokens # <<>> /\ tokens[Len(tokens)].kind = "EOF")
  BY <1>2 DEF ListInv
<1>4. Found \in Nat /\ Found <= Len(tokens)
  <2>1. CASE tokens # <<>> /\ tokens[Len(tokens)].kind = "EOF"
    <3>1. Found = Len(tokens) - 1  BY <2>1 DEF Found
    <3>2. Len(tokens) \in 1 .. Len(tokens)  BY <1>1, <1>2, <2>1
    <3> DEFINE n == Len(tokens)
    <3> HIDE DEF n
    <3>3. n \in Nat /\ n \in 1 .. n  BY <1>1, <3>2 DEF n
    <3>4. n - 1 \in Nat /\ n - 1 <= n  BY <3>3
    <3>5. QED  BY <3>1, <3>4 DEF n
  <2>2. CASE ~(tokens # <<>> /\ tokens[Len(tokens)].kind = "EOF")
    <3>1. Found = Len(tokens)  BY <2>2 DEF Found
    <3>2. QED  BY <1>1, <3>1
  <2>3. QED  BY <2>1, <2>2
<1>5. QED  BY <1>1, <1>3, <1>4 DEF Found

\* One more token on the list is one more lexeme, unless it is the end.
LEMMA TakenGrows ==
  ASSUME ListInv, ListInv', Reads, text' = text, NEW t, tokens' = Append(tokens, t)
  PROVE  Taken' = IF t.kind = "EOF" THEN Taken
                  ELSE Append(Taken, <<FormOf(t), t.from, t.to - 1>>)
<1> DEFINE n == Len(tokens)
           Piece3(u) == <<FormOf(u), u.from, u.to - 1>>
           x == Piece3(t)
<1>1. /\ Len(tokens') = n + 1 /\ n \in Nat
      /\ \A i \in 1 .. n : tokens'[i] = tokens[i]
      /\ tokens'[n + 1] = t
  BY AppendKeeps DEF ListInv
<1>2. Found = n  BY FoundIs
<1>3. tokens' # <<>>
  <2>1. Len(<<>>) = 0  OBVIOUS
  <2>2. QED  BY <1>1, <2>1
<1>4. Found' = IF t.kind = "EOF" THEN n ELSE n + 1
  <2>1. Found' = IF tokens' # <<>> /\ tokens'[Len(tokens')].kind = "EOF"
                 THEN Len(tokens') - 1 ELSE Len(tokens')
    BY DEF Found
  <2>2. n + 1 - 1 = n  BY <1>1
  <2>3. QED  BY <1>1, <1>3, <2>1, <2>2
<1>5. \A u : FormOf(u)' = FormOf(u)  BY DEF FormOf
<1>6. Taken = [i \in 1 .. n |-> Piece3(tokens[i])]  BY <1>2 DEF Taken
<1>7. Taken' = [i \in 1 .. Found' |-> Piece3(tokens'[i])]  BY <1>5 DEF Taken
<1> HIDE DEF Piece3, n
<1>8. CASE t.kind = "EOF"
  <2>1. Taken' = [i \in 1 .. n |-> Piece3(tokens'[i])]  BY <1>4, <1>7, <1>8
  <2>2. Taken' = Taken  BY <1>1, <1>6, <2>1
  <2>3. QED  BY <1>8, <2>2
<1>9. CASE t.kind # "EOF"
  <2> DEFINE S == {Piece3(tokens'[i]) : i \in 1 .. n + 1}
  <2>1. Taken' = [i \in 1 .. n + 1 |-> Piece3(tokens'[i])]  BY <1>4, <1>7, <1>9
  <2>2. n + 1 \in Nat /\ n + 1 \in 1 .. n + 1 /\ 1 .. n \subseteq 1 .. n + 1  BY <1>1
  <2>3. x = Piece3(tokens'[n + 1])  BY <1>1
  <2>4. \A i \in 1 .. n : Taken[i] = Piece3(tokens'[i])  BY <1>1, <1>6
  <2>5. x \in S /\ (\A i \in 1 .. n : Taken[i] \in S) /\ \A i \in 1 .. n + 1 : Taken'[i] \in S
    BY <2>1, <2>2, <2>3, <2>4
  <2>6. \A i \in 1 .. n + 1 : Taken'[i] = Piece3(tokens'[i])  BY <2>1
  <2> HIDE DEF S, x
  <2>7. Taken \in Seq(S) /\ Len(Taken) = n  BY <1>1, <1>6, <2>5
  <2>8. Taken' \in Seq(S) /\ Len(Taken') = n + 1
    <3> DEFINE m == n + 1
    <3> HIDE DEF m
    <3>1. m \in Nat /\ Taken' = [i \in 1 .. m |-> Piece3(tokens'[i])]  BY <2>1, <2>2 DEF m
    <3>2. \A i \in 1 .. m : Taken'[i] \in S  BY <2>5 DEF m
    <3>3. DOMAIN Taken' = 1 .. m /\ Taken' = [i \in 1 .. m |-> Taken'[i]]  BY <3>1
    <3>4. Taken' \in [1 .. m -> S]  BY <3>2, <3>3
    <3>5. Taken' \in Seq(S)  BY <3>1, <3>4, SeqDef
    <3>6. Len(Taken') = m  BY <3>1, <3>3, <3>5
    <3>7. QED  BY <3>5, <3>6 DEF m
  <2>9. /\ Append(Taken, x) \in Seq(S) /\ Len(Append(Taken, x)) = n + 1
        /\ \A i \in 1 .. n : Append(Taken, x)[i] = Taken[i]
        /\ Append(Taken, x)[n + 1] = x
    BY <2>5, <2>7, AppendProperties
  <2>10. \A i \in 1 .. n + 1 : Taken'[i] = Append(Taken, x)[i]
    <3>1. TAKE i \in 1 .. n + 1
    <3>2. CASE i = n + 1  BY <2>3, <2>6, <2>9, <3>2
    <3>3. CASE i \in 1 .. n  BY <2>2, <2>4, <2>6, <2>9, <3>3
    <3>4. n \in Nat  BY <1>1
    <3>5. i = n + 1 \/ i \in 1 .. n  BY <3>1, <3>4
    <3>6. QED  BY <3>2, <3>3, <3>5
  <2>11. Taken' = Append(Taken, x)  BY <2>8, <2>9, <2>10, SeqEqual
  <2>12. QED  BY <1>9, <2>11 DEF x, Piece3
<1>10. QED  BY <1>8, <1>9

-----------------------------------------------------------------------------
(* How the steps show in the abstract specification. *)

LEMMA InitString == Init => StringInv
  BY DEF Init, StringInv

LEMMA InitLongest == Init => Longest!Init
<1> SUFFICES ASSUME Init PROVE Longest!Init  OBVIOUS
<1>1. /\ text \in Texts /\ p = 1 /\ literal = None /\ tokens = <<>> /\ status = "lexing"
  BY DEF Init
<1>2. Stage = "reading"  BY <1>1, StageIs DEF Reads
<1>3. Taken = <<>>  BY <1>1, NothingTold
<1>4. QED  BY <1>1, <1>2, <1>3 DEF Longest!Init

\* Nothing to tell.
LEMMA Stutters ==
  ASSUME text' = text, Where' = Where, Told' = Told, Stage' = Stage
  PROVE  UNCHANGED Longest!vars
  BY DEF Longest!vars, Where, Told

LEMMA TellsPassing ==
  ASSUME Where \in Inside, NEW j \in Where .. Len(text), text' = text,
         Stage = "reading", Stage' = "reading", Told' = Told, Where' = j + 1,
         Longest!IsBlank(Where, j),
         Longest!IsLineComment(Where, j) => j = Len(text) \/ text[j + 1] = "newline"
  PROVE  Longest!Next
<1>1. Longest!Rest = Where .. Len(text)  BY DEF Longest!Rest, Where
<1>2. Longest!PassOver(j)  BY <1>1 DEF Longest!PassOver, Where, Told
<1>3. QED  BY <1>1, <1>2 DEF Longest!Next, Longest!Read

LEMMA TellsTaking ==
  ASSUME Where \in Inside, NEW j \in Where .. Len(text), NEW kind \in Longest!Kinds, text' = text,
         Stage = "reading", Stage' = "reading", Where' = j + 1,
         Told' = Append(Told, <<kind, Where, j>>),
         Longest!Form(kind, Where, j), Bounds(Where, j), ~Longest!OpensBlockComment(Where)
  PROVE  Longest!Next
<1>1. Longest!Rest = Where .. Len(text)  BY DEF Longest!Rest, Where
<1>2. \A k \in Longest!Rest : Longest!IsLexeme(Where, k) \/ Longest!IsBlank(Where, k) => k <= j
  BY <1>1 DEF Bounds
<1>3. Longest!Take(kind, j)  BY <1>1, <1>2 DEF Longest!Take, Where, Told
<1>4. QED  BY <1>1, <1>3 DEF Longest!Next, Longest!Read

LEMMA TellsEnd ==
  ASSUME Where = Len(text) + 1, Len(text) \in Nat, text' = text, Where' = Where,
         Stage = "reading", Stage' = "read", Told' = Told
  PROVE  Longest!Next
<1>1. Longest!Rest = Where .. Len(text)  BY DEF Longest!Rest, Where
<1> DEFINE n == Len(text)
<1> HIDE DEF n
<1>2. (n + 1) .. n = {}  BY DEF n
<1>3. Longest!Rest = {}  BY <1>1, <1>2 DEF n
<1>4. Longest!EndText  BY <1>3 DEF Longest!EndText, Where, Told
<1>5. QED  BY <1>4 DEF Longest!Next, Longest!Read

LEMMA TellsRefusal ==
  ASSUME Where \in Inside, Len(text) \in Nat, text' = text, Where' = Where,
         Stage = "reading", Stage' = "refused", Told' = <<>>,
         \A k \in Where .. Len(text) : ~Longest!IsBlank(Where, k),
         Longest!OpensBlockComment(Where)
           \/ \A k \in Where .. Len(text) : ~Longest!IsLexeme(Where, k)
  PROVE  Longest!Next
<1>1. Longest!Rest = Where .. Len(text)  BY DEF Longest!Rest, Where
<1>2. Where \in Longest!Rest  BY <1>1 DEF Inside
<1>3. Longest!Refuse  BY <1>1, <1>2 DEF Longest!Refuse, Where, Told
<1>4. QED  BY <1>3 DEF Longest!Next, Longest!Read

LEMMA TellsStop ==
  ASSUME text' = text, Where' = Where, Stage' = "stopped"
  PROVE  Longest!Next
<1>1. Told' = <<>>  BY DEF Told
<1>2. Longest!Abandon  BY <1>1 DEF Longest!Abandon, Where, Told
<1>3. QED  BY <1>2 DEF Longest!Next

\* What is put on the list, in one step with nothing else.
LEMMA AddTells ==
  ASSUME LexInv, LexInv', AddsToken, NEW t, Add(t),
         t.kind # "EOF", t.from = p, NEW kind \in Longest!Kinds, FormOf(t) = kind,
         Longest!Form(kind, p, t.to - 1), Bounds(p, t.to - 1), ~AtBlockComment
  PROVE  Longest!Next
<1>1. IsText /\ p \in Place /\ ListInv /\ ListInv'  BY DEF LexInv, ReaderInv
<1>2. /\ Lexing /\ text' = text /\ tokens' = Append(tokens, t) /\ p' = t.to
      /\ status' = status /\ literal' = literal
  BY TokensArePlain, <1>1 DEF Add
<1>3. p < t.to /\ t.to \in Place
  <2>1. PICK u : PlainToken(u) /\ Add(u)  BY TokensArePlain, <1>1
  <2>2. QED  BY <1>2, <2>1 DEF PlainToken, Add
<1>4. p \in Inside /\ Len(text) \in Nat
  <2>1. Len(text) \in Nat  BY <1>1 DEF IsText
  <2>2. QED  BY <1>1, <1>3, <2>1 DEF Place, Inside
<1>5. Where = p /\ Where' = t.to
  <2>1. status = "lexing" /\ status' = "lexing"  BY <1>2 DEF Lexing
  <2>2. literal = None /\ literal' = None  BY <1>2, <2>1 DEF LexInv, ReaderInv
  <2>3. None' = None  BY DEF None
  <2>4. QED  BY <1>2, <2>2, <2>3 DEF Where
<1>6. Stage = "reading" /\ Stage' = "reading" /\ Reads
  BY <1>2 DEF Lexing, Stage, Reads
<1>7. Taken' = Append(Taken, <<kind, p, t.to - 1>>)
  BY TakenGrows, <1>1, <1>2, <1>6
<1>8. Told' = Append(Told, <<kind, p, t.to - 1>>)  BY <1>6, <1>7 DEF Told
<1>9. t.to - 1 \in p .. Len(text) /\ t.to = (t.to - 1) + 1
  <2> DEFINE n == Len(text)
             q == t.to
  <2>1. n \in Nat /\ p \in Nat /\ q \in 1 .. n + 1 /\ p < q  BY <1>3, <1>4 DEF Place, Inside
  <2> HIDE DEF n, q
  <2>2. q - 1 \in p .. n /\ q = (q - 1) + 1  BY <2>1
  <2>3. QED  BY <2>2 DEF n, q
<1>10. ~Longest!OpensBlockComment(p)  BY SlashIs, <1>1, <1>4
<1> DEFINE j == t.to - 1
<1>11. /\ j \in Where .. Len(text) /\ Where' = j + 1 /\ Where \in Inside
       /\ Told' = Append(Told, <<kind, Where, j>>)
       /\ Longest!Form(kind, Where, j) /\ Bounds(Where, j)
       /\ ~Longest!OpensBlockComment(Where)
  BY <1>4, <1>5, <1>8, <1>9, <1>10
<1> HIDE DEF j
<1>12. QED  BY TellsTaking, <1>2, <1>6, <1>11

LEMMA WordForms ==
  ASSUME NEW to, NEW kind \in {"RESERVED", "IDENT"}, NEW t, t = Token(kind, p, to)
  PROVE  /\ t.from = p /\ t.to = to /\ t.kind # "EOF"
         /\ FormOf(t) = (IF text[p] \in Letter THEN "word" ELSE "operator")
<1>1. t.from = p /\ t.to = to /\ t.kind # "EOF" /\ t.kind \notin {"STR", "NUM"}
  BY DEF Token
<1>2. FormOf(t) = IF text[t.from] \in Letter THEN "word" ELSE "operator"  BY <1>1 DEF FormOf
<1>3. QED  BY <1>1, <1>2

CharToken(to, v, u) == [Token("NUM", p, to) EXCEPT !.val = v, !.uval = u]

LEMMA NumberForms ==
  ASSUME NEW to, NEW v, NEW u, NEW t
  PROVE  /\ t = CharToken(to, v, u) =>
              t.from = p /\ t.to = to /\ t.kind # "EOF" /\ FormOf(t) = "integer"
         /\ t = Integer(to, u) =>
              t.from = p /\ t.to = to /\ t.kind # "EOF" /\ FormOf(t) = "integer"
         /\ t = Float(to) =>
              t.from = p /\ t.to = to /\ t.kind # "EOF" /\ FormOf(t) = "float"
<1>1. t = CharToken(to, v, u) =>
        t.from = p /\ t.to = to /\ t.kind = "NUM" /\ t.isFloat = FALSE
  BY DEF Token, CharToken
<1>2. t = Integer(to, u) => t.from = p /\ t.to = to /\ t.kind = "NUM" /\ t.isFloat = FALSE
  BY DEF Token, Integer
<1>3. t = Float(to) => t.from = p /\ t.to = to /\ t.kind = "NUM" /\ t.isFloat = TRUE
  BY DEF Token, Float
<1>4. t.kind = "NUM" => FormOf(t) = IF t.isFloat THEN "float" ELSE "integer"
  BY DEF FormOf
<1>5. QED  BY <1>1, <1>2, <1>3, <1>4

LEMMA KindsAre ==
  {"word", "operator", "string", "integer", "float"} = Longest!Kinds
  BY DEF Longest!Kinds

LEMMA WordTells ==
  ASSUME LexInv, LexInv', Word
  PROVE  Longest!Next
<1>1. IsText /\ p \in Place  BY DEF LexInv, ReaderInv
<1>2. At(p) \in Letter  BY DEF Word
<1>3. p \in Inside /\ text[p] = At(p)  BY <1>1, <1>2, InsideIs, ClassesDiffer, EndIsNoChar
<1> DEFINE to == Past(WordChar, p)
<1>4. PICK kind \in {"RESERVED", "IDENT"} : Add(Token(kind, p, to))  BY DEF Word
<1>5. Longest!Form("word", p, to - 1) /\ Bounds(p, to - 1)
  BY WordTaken, LexemeForms, <1>1, <1>2, <1>3
<1>6. ~AtBlockComment  BY SlashIs, ClassesDiffer, <1>1, <1>2, <1>3
<1> HIDE DEF to
<1> DEFINE t == Token(kind, p, to)
<1>12. t = Token(kind, p, to)  OBVIOUS
<1> HIDE DEF t
<1>7. t.from = p /\ t.to = to /\ t.kind # "EOF" /\ FormOf(t) = "word"
  BY WordForms, <1>2, <1>3, <1>12
<1>8. AddsToken  BY DEF AddsToken
<1>9. Add(t) /\ Longest!Form("word", p, t.to - 1) /\ Bounds(p, t.to - 1)  BY <1>4, <1>5, <1>7, <1>12
<1>10. QED  BY AddTells, KindsAre, <1>6, <1>7, <1>8, <1>9

LEMMA OperatorTells ==
  ASSUME LexInv, LexInv', Operator
  PROVE  Longest!Next
<1>1. IsText /\ p \in Place  BY DEF LexInv, ReaderInv
<1>2. ~AtLineComment /\ ~AtBlockComment /\ OperatorLength > 0  BY DEF Operator
<1>10. /\ Longest!IsOperator(p, p + OperatorLength - 1) /\ Bounds(p, p + OperatorLength - 1)
       /\ At(p) \in SingleCharOps
  BY OperatorTaken, <1>1, <1>2
<1> DEFINE to == p + OperatorLength
           t == Token("RESERVED", p, to)
<1>3. Longest!IsOperator(p, to - 1) /\ Bounds(p, to - 1) /\ At(p) \in SingleCharOps
  <2>1. OperatorLength \in 1 .. 3 /\ p \in Int  BY OperatorEnds, <1>1, <1>2 DEF IsText, Place
  <2>2. p + OperatorLength - 1 = to - 1  BY <2>1
  <2> HIDE DEF to
  <2>3. QED  BY <1>10, <2>2
<1>7. Add(t) /\ AddsToken /\ t = Token("RESERVED", p, to)  BY DEF Operator, AddsToken
<1> HIDE DEF t, to
<1>4. p \in Inside /\ text[p] = At(p) /\ text[p] \notin Letter
  BY <1>1, <1>3, InsideIs, ClassesDiffer, EndIsNoChar
<1>5. t.from = p /\ t.to = to /\ t.kind # "EOF" /\ FormOf(t) = "operator"
  BY WordForms, <1>4, <1>7
<1>6. Longest!Form("operator", p, to - 1)  BY LexemeForms, <1>3
<1>8. Longest!Form("operator", p, t.to - 1) /\ Bounds(p, t.to - 1)  BY <1>3, <1>5, <1>6
<1>9. QED  BY AddTells, KindsAre, <1>2, <1>5, <1>7, <1>8

LEMMA CharTells ==
  ASSUME LexInv, LexInv', CharLiteral
  PROVE  Longest!Next
<1>1. IsText /\ p \in Place  BY DEF LexInv, ReaderInv
<1>2. At(p) = "apostrophe" /\ IsCharLiteral  BY DEF CharLiteral
<1>3. p \in Inside  BY <1>1, <1>2, InsideIs
<1> DEFINE to == AfterChar + 1
           u == IF CharValue < 0 THEN 2 * (IntMax + 1) + CharValue ELSE CharValue
           v == CharValue
           t == CharToken(to, v, u)
<1>4. Longest!Form("integer", p, AfterChar) /\ Bounds(p, AfterChar)
  BY CharTaken, LexemeForms, <1>1, <1>2, <1>3
<1>6. AfterChar \in Nat  BY CharLiteralEnds, <1>1, <1>2 DEF Place, IsText
<1>7. to - 1 = AfterChar  BY <1>6
<1>8. Add(t) /\ AddsToken  BY DEF CharLiteral, AddsToken, CharToken
<1>9. ~AtBlockComment  BY SlashIs, <1>1, <1>2, <1>3
<1> HIDE DEF u, to, v
<1>12. t = CharToken(to, v, u)  OBVIOUS
<1> HIDE DEF t
<1>5. t.from = p /\ t.to = to /\ t.kind # "EOF" /\ FormOf(t) = "integer"
  BY NumberForms, <1>12
<1>10. Longest!Form("integer", p, t.to - 1) /\ Bounds(p, t.to - 1)  BY <1>4, <1>5, <1>7
<1>11. QED  BY AddTells, KindsAre, <1>5, <1>8, <1>9, <1>10

LEMMA HexTells ==
  ASSUME LexInv, LexInv', HexFloat \/ HexInteger
  PROVE  Longest!Next
<1>1. IsText /\ p \in Place /\ AtHex  BY DEF LexInv, ReaderInv, HexFloat, HexInteger
<1>2. p \in Inside
  <2>1. AtHex => At(p) # "end"
    <3>1. AtHex => At(p + 1 - 1) = <<"0", "x">>[1]  BY DEF AtHex, Starts
    <3>2. p + 1 - 1 = p  BY <1>1 DEF Place, IsText
    <3>3. QED  BY <3>1, <3>2
  <2>2. QED  BY <1>1, <2>1, InsideIs
<1>3. ~AtBlockComment  BY AtHexIs, SlashIs, <1>1, <1>2
<1>4. AddsToken  BY DEF AddsToken
<1>5. CASE HexFloat
  <2> DEFINE to == Over({"l", "f"}, AfterExponent(AfterHexPoint))
             t == Float(to)
  <2>1. At(AfterHexPoint) = "p" /\ Add(t)  BY <1>5 DEF HexFloat
  <2>2. Longest!IsFloat(p, to - 1) /\ Bounds(p, to - 1)  BY HexTaken, <1>1, <1>2, <2>1
  <2>3. Longest!Form("float", p, to - 1)  BY LexemeForms, <2>2
  <2> HIDE DEF to
  <2>4. t = Float(to)  OBVIOUS
  <2> HIDE DEF t
  <2>5. t.from = p /\ t.to = to /\ t.kind # "EOF" /\ FormOf(t) = "float"  BY NumberForms, <2>4
  <2>6. Longest!Form("float", p, t.to - 1) /\ Bounds(p, t.to - 1)  BY <2>2, <2>3, <2>5
  <2>7. QED  BY AddTells, KindsAre, <1>3, <1>4, <2>1, <2>5, <2>6
<1>6. CASE HexInteger
  <2> DEFINE to == Past({"u", "l"}, AfterHexDigits)
             u == NumberOf(16, p + 2, AfterHexDigits)
             t == Integer(to, u)
  <2>1. At(AfterHexPoint) # "p" /\ Add(t)  BY <1>6 DEF HexInteger
  <2>2. Longest!IsInteger(p, to - 1) /\ Bounds(p, to - 1)  BY HexTaken, <1>1, <1>2, <2>1
  <2>3. Longest!Form("integer", p, to - 1)  BY LexemeForms, <2>2
  <2> HIDE DEF to, u
  <2>4. t = Integer(to, u)  OBVIOUS
  <2> HIDE DEF t
  <2>5. t.from = p /\ t.to = to /\ t.kind # "EOF" /\ FormOf(t) = "integer"  BY NumberForms, <2>4
  <2>6. Longest!Form("integer", p, t.to - 1) /\ Bounds(p, t.to - 1)  BY <2>2, <2>3, <2>5
  <2>7. QED  BY AddTells, KindsAre, <1>3, <1>4, <2>1, <2>5, <2>6
<1>7. QED  BY <1>5, <1>6

LEMMA PieceHas ==
  ASSUME IsText, NEW i \in Place, NEW j \in Place, i <= j, NEW c
  PROVE  c \in Range(Piece(i, j)) <=> \E k \in i .. j - 1 : At(k) = c
<1> DEFINE n == Len(text)
           m == j - 1
           s == SubSeq(text, i, m)
<1>1. n \in Nat /\ i \in 1 .. n + 1 /\ m \in Int /\ m <= n /\ i - 1 <= m
  BY DEF IsText, Place
<1>2. \A k \in i .. m : At(k) = text[k]  BY <1>1 DEF At
<1>3. /\ Len(s) = m - i + 1 /\ \A k \in 1 .. m - i + 1 : s[k] = text[i + k - 1]
      /\ s \in Seq(Lexemes!Char) /\ DOMAIN s = 1 .. m - i + 1
  <2>1. /\ s \in Seq(Lexemes!Char) /\ Len(s) = (IF i <= m THEN m - i + 1 ELSE 0)
        /\ \A k \in 1 .. m - i + 1 : s[k] = text[i + k - 1]
    BY <1>1 DEF IsText
  <2>2. (IF i <= m THEN m - i + 1 ELSE 0) = m - i + 1  BY <1>1
  <2>3. DOMAIN s = 1 .. Len(s)  BY <2>1
  <2>4. QED  BY <2>1, <2>2, <2>3
<1>4. Range(Piece(i, j)) = {s[k] : k \in DOMAIN s}  BY DEF Range, Piece
<1> HIDE DEF s, m, n
<1>5. ASSUME NEW k \in 1 .. m - i + 1, s[k] = c  PROVE \E l \in i .. m : At(l) = c
  <2>1. i + k - 1 \in i .. m  BY <1>1, <1>5
  <2>2. QED  BY <1>2, <1>3, <1>5, <2>1
<1>6. ASSUME NEW l \in i .. m, At(l) = c  PROVE \E k \in 1 .. m - i + 1 : s[k] = c
  <2>1. l - i + 1 \in 1 .. m - i + 1 /\ i + (l - i + 1) - 1 = l  BY <1>1, <1>6
  <2>2. s[l - i + 1] = text[l]  BY <1>3, <2>1
  <2>3. QED  BY <1>2, <1>6, <2>1, <2>2
<1>7. QED  BY <1>3, <1>4, <1>5, <1>6 DEF m

LEMMA NumberTells ==
  ASSUME LexInv, LexInv', Number
  PROVE  Longest!Next
<1>1. IsText /\ p \in Place /\ StartsNumber /\ ~AtHex  BY DEF LexInv, ReaderInv, Number
<1>2. p \in Inside  BY <1>1, InsideIs, ClassesDiffer, EndIsNoChar DEF StartsNumber
<1>3. ~AtBlockComment  BY SlashIs, ClassesDiffer, <1>1, <1>2 DEF StartsNumber
<1>4. AddsToken  BY DEF AddsToken
<1>5. "." \in Range(Piece(p, AfterDigits)) <=> HasPoint
  <2>1. AfterDigits \in Place /\ p <= AfterDigits
    BY DigitsEnd, <1>1 DEF Place, IsText
  <2>2. QED  BY <1>1, <2>1, PieceHas DEF HasPoint
<1>6. CASE IsFraction
  <2> DEFINE to == AfterFloat
             t == Float(to)
  <2>1. Add(t)  BY <1>5, <1>6 DEF Number, IsFraction
  <2>2. Longest!IsFloat(p, to - 1) /\ Bounds(p, to - 1)  BY NumberTaken, <1>1, <1>2, <1>6
  <2>3. Longest!Form("float", p, to - 1)  BY LexemeForms, <2>2
  <2> HIDE DEF to
  <2>4. t = Float(to)  OBVIOUS
  <2> HIDE DEF t
  <2>5. t.from = p /\ t.to = to /\ t.kind # "EOF" /\ FormOf(t) = "float"  BY NumberForms, <2>4
  <2>6. Longest!Form("float", p, t.to - 1) /\ Bounds(p, t.to - 1)  BY <2>2, <2>3, <2>5
  <2>7. QED  BY AddTells, KindsAre, <1>3, <1>4, <2>1, <2>5, <2>6
<1>7. CASE ~IsFraction
  <2> DEFINE to == AfterInteger
             u == NumberOf(10, p, AfterDigits)
             t == Integer(to, u)
  <2>1. Add(t)  BY <1>5, <1>7 DEF Number, IsFraction, AfterInteger
  <2>2. Longest!IsInteger(p, to - 1) /\ Bounds(p, to - 1)  BY NumberTaken, <1>1, <1>2, <1>7
  <2>3. Longest!Form("integer", p, to - 1)  BY LexemeForms, <2>2
  <2> HIDE DEF to, u
  <2>4. t = Integer(to, u)  OBVIOUS
  <2> HIDE DEF t
  <2>5. t.from = p /\ t.to = to /\ t.kind # "EOF" /\ FormOf(t) = "integer"  BY NumberForms, <2>4
  <2>6. Longest!Form("integer", p, t.to - 1) /\ Bounds(p, t.to - 1)  BY <2>2, <2>3, <2>5
  <2>7. QED  BY AddTells, KindsAre, <1>3, <1>4, <2>1, <2>5, <2>6
<1>8. QED  BY <1>6, <1>7

\* What is passed over, and what only goes on with a string.
LEMMA QuietSteps ==
  ASSUME LexInv, LexInv', text' = text, tokens' = tokens, literal' = literal, status' = status, Lexing
  PROVE  /\ Where = p /\ Where' = p' /\ Told' = Told
         /\ Stage = "reading" /\ Stage' = "reading"
<1>1. literal = None /\ literal' = None  BY DEF LexInv, ReaderInv, Lexing
<1>2. Where = p /\ Where' = p'
  <2>1. None' = None  BY DEF None
  <2>2. QED  BY <1>1, <2>1 DEF Where
<1>3. Stage = "reading" /\ Stage' = "reading"  BY DEF Lexing, Stage
<1>4. Taken' = Taken
  <2>1. Found' = Found  BY DEF Found
  <2>2. \A u : FormOf(u)' = FormOf(u)  BY DEF FormOf
  <2>3. QED  BY <2>1, <2>2 DEF Taken
<1>5. QED  BY <1>2, <1>3, <1>4 DEF Told

LEMMA PassingTells ==
  ASSUME LexInv, LexInv', Blank \/ LineComment \/ BlockComment
  PROVE  Longest!Next
<1>1. IsText /\ p \in Place  BY DEF LexInv, ReaderInv
<1>2. /\ Lexing /\ text' = text /\ tokens' = tokens /\ literal' = literal /\ status' = status
  BY DEF Blank, LineComment, BlockComment
<1>3. /\ Where = p /\ Where' = p' /\ Told' = Told
      /\ Stage = "reading" /\ Stage' = "reading"
  BY QuietSteps, <1>2
<1>4. Len(text) \in Nat  BY <1>1, InsideIs
<1>5. CASE Blank
  <2>1. At(p) \in Space /\ p' = p + 1  BY <1>5 DEF Blank
  <2>2. p \in Inside  BY <1>1, <2>1, InsideIs, EndIsNoChar
  <2>3. Longest!IsBlank(p, p) /\ ~Longest!IsLineComment(p, p)  BY SpacePassed, <1>1, <2>1, <2>2
  <2>4. p \in p .. Len(text)  BY <1>4, <2>2 DEF Inside
  <2>5. QED  BY TellsPassing, <1>2, <1>3, <2>1, <2>2, <2>3, <2>4
<1>6. CASE LineComment
  <2> DEFINE j == Past(Lexemes!Char \ {"newline"}, p + 2) - 1
  <2>1. AtLineComment /\ p' = Past(Lexemes!Char \ {"newline"}, p + 2)  BY <1>6 DEF LineComment
  <2>2. p \in Inside
    <3>1. At(p + 1 - 1) = <<"/", "/">>[1]  BY <2>1 DEF AtLineComment, Starts
    <3>2. p + 1 - 1 = p  BY <1>1 DEF Place, IsText
    <3>3. QED  BY <1>1, <3>1, <3>2, InsideIs
  <2>3. /\ Longest!IsBlank(p, j) /\ j \in p .. Len(text)
        /\ j = Len(text) \/ text[j + 1] = "newline"
    BY LineCommentPassed, <1>1, <2>1, <2>2
  <2>4. p' = j + 1  BY <1>1, <1>4, <2>1, <2>2, LineCommentEnds DEF Place
  <2> HIDE DEF j
  <2>5. QED  BY TellsPassing, <1>2, <1>3, <2>2, <2>3, <2>4
<1>7. CASE BlockComment
  <2>1. AtBlockComment  BY <1>7 DEF BlockComment
  <2>2. PICK q \in Closings : (\A r \in Closings : q <= r) /\ p' = q + 2 /\ q \in Nat
    BY BlockCommentEnds, <1>1, <1>7 DEF Closings, Place, IsText
  <2>3. p \in Inside
    <3>1. At(p + 1 - 1) = <<"/", "*">>[1]  BY <2>1 DEF AtBlockComment, Starts
    <3>2. p + 1 - 1 = p  BY <1>1 DEF Place, IsText
    <3>3. QED  BY <1>1, <3>1, <3>2, InsideIs
  <2>4. /\ Longest!IsBlank(p, q + 1) /\ ~Longest!IsLineComment(p, q + 1)
        /\ q + 1 \in p .. Len(text)
    BY BlockCommentPassed, <1>1, <2>1, <2>2, <2>3
  <2> DEFINE j == q + 1
  <2>5. p' = j + 1  BY <2>2
  <2>6. Longest!IsBlank(p, j) /\ ~Longest!IsLineComment(p, j) /\ j \in p .. Len(text)  BY <2>4
  <2> HIDE DEF j
  <2>7. QED  BY TellsPassing, <1>2, <1>3, <2>3, <2>5, <2>6
<1>8. QED  BY <1>5, <1>6, <1>7

LEMMA BeginTells ==
  ASSUME LexInv, LexInv', BeginString
  PROVE  UNCHANGED Longest!vars
<1>1. /\ status = "lexing" /\ status' = "string" /\ text' = text /\ tokens' = tokens
      /\ literal'.from = p
  BY DEF BeginString, Lexing
<1>2. Where = p /\ Where' = p
  <2>1. Where = p  BY WhereIs, <1>1
  <2>2. Where' = literal'.from
    <3>1. literal'.from \in 1 .. p' - 1  BY <1>1 DEF LexInv, ReaderInv
    <3>2. None'.from = 0  BY DEF None
    <3>3. literal' # None'  BY <3>1, <3>2
    <3>4. QED  BY <3>3 DEF Where
  <2>3. QED  BY <1>1, <2>1, <2>2
<1>3. Stage = "reading" /\ Stage' = "reading"  BY <1>1 DEF Stage
<1>4. Told' = Told
  <2>1. Found' = Found  BY <1>1 DEF Found
  <2>2. \A u : FormOf(u)' = FormOf(u)  BY <1>1 DEF FormOf
  <2>3. QED  BY <1>1, <1>3, <2>1, <2>2 DEF Taken, Told
<1>5. QED  BY Stutters, <1>1, <1>2, <1>3, <1>4

LEMMA StringCharTells ==
  ASSUME LexInv, LexInv', StringChar
  PROVE  UNCHANGED Longest!vars
<1>1. /\ status = "string" /\ status' = "string" /\ text' = text /\ tokens' = tokens
      /\ literal' = [literal EXCEPT !.len = @ + 1, !.cap = IF IsFull THEN 2 * @ ELSE @]
  BY DEF StringChar, InString
<1>2. /\ literal.from \in 1 .. p - 1
      /\ literal = [from |-> literal.from, line |-> literal.line, col |-> literal.col,
                    len |-> literal.len, cap |-> literal.cap]
  BY <1>1 DEF LexInv, ReaderInv
<1>3. literal'.from = literal.from
  <2> DEFINE a == literal.len + 1
             b == IF IsFull THEN 2 * literal.cap ELSE literal.cap
  <2>1. literal' = [literal EXCEPT !.len = a, !.cap = b]  BY <1>1
  <2> HIDE DEF a, b
  <2>2. QED  BY <1>2, <2>1
<1>4. Where' = literal'.from
  <2>1. literal'.from \in 1 .. p' - 1  BY <1>1 DEF LexInv, ReaderInv
  <2>2. None'.from = 0  BY DEF None
  <2>3. literal' # None'  BY <2>1, <2>2
  <2>4. QED  BY <2>3 DEF Where
<1>5. Where = literal.from  BY WhereIs, <1>1
<1>6. Stage = "reading" /\ Stage' = "reading"  BY <1>1 DEF Stage
<1>7. Told' = Told
  <2>1. Found' = Found  BY <1>1 DEF Found
  <2>2. \A u : FormOf(u)' = FormOf(u)  BY <1>1 DEF FormOf
  <2>3. QED  BY <1>1, <1>6, <2>1, <2>2 DEF Taken, Told
<1>8. QED  BY Stutters, <1>1, <1>3, <1>4, <1>5, <1>6, <1>7

LEMMA EndStringTells ==
  ASSUME LexInv, LexInv', StringInv, EndString
  PROVE  Longest!Next
<1> DEFINE i == literal.from
           t == [Token("STR", literal.from, p + 1) EXCEPT
                   !.line = literal.line, !.col = literal.col, !.ownsStr = TRUE]
<1>1. /\ status = "string" /\ status' = "lexing" /\ text' = text /\ p' = p + 1
      /\ tokens' = Append(tokens, t) /\ At(p) = "quote"
  BY DEF EndString
<1>2. t.from = i /\ t.to = p + 1 /\ t.kind = "STR"  BY DEF Token
<1> HIDE DEF t
<1>3. IsText /\ p \in Place /\ ListInv /\ ListInv' /\ i \in 1 .. p - 1
  BY <1>1 DEF LexInv, ReaderInv
<1>4. /\ p \in Inside /\ text[p] = "quote" /\ p \in Nat /\ Len(text) \in Nat
      /\ i \in Inside /\ i \in Nat /\ i < p
  BY <1>1, <1>3, InsideIs DEF Inside
<1>5. Where = i  BY WhereIs, <1>1
<1>6. Where' = p + 1
  <2>1. literal' = None'  BY <1>1 DEF LexInv, ReaderInv
  <2>2. QED  BY <1>1, <2>1 DEF Where
<1>7. Stage = "reading" /\ Stage' = "reading" /\ Reads  BY <1>1 DEF Stage, Reads
<1>8. Told' = Append(Told, <<"string", i, p>>)
  <2>1. Taken' = Append(Taken, <<FormOf(t), t.from, t.to - 1>>)
    BY TakenGrows, <1>1, <1>2, <1>3, <1>7
  <2>2. FormOf(t) = "string"  BY <1>2 DEF FormOf
  <2>3. t.to - 1 = p  BY <1>2, <1>4
  <2>4. Taken' = Append(Taken, <<"string", i, p>>)  BY <1>2, <2>1, <2>2, <2>3
  <2>5. QED  BY <1>7, <2>4 DEF Told
<1>9. /\ text[i] = "quote"
      /\ \A k \in i + 1 .. p - 1 : text[k] = "quote" => Longest!Escaped(i, k)
      /\ ~Longest!Escaped(i, p)
  BY <1>1, <1>4 DEF StringInv
<1>10. At(i) = "quote"  BY <1>3, <1>4, <1>9, InsideIs
<1> HIDE DEF i
<1>11. Longest!IsString(i, p)  BY <1>4, <1>9 DEF Longest!IsString
<1>12. Longest!Form("string", i, p)  BY LexemeForms, <1>11
<1>13. Bounds(i, p)
  <2>1. SUFFICES ASSUME NEW k \in i .. Len(text),
                        Longest!IsLexeme(i, k) \/ Longest!IsBlank(i, k)
                 PROVE  k <= p
    BY DEF Bounds
  <2>2. Longest!IsString(i, k)  BY OnlyForm, <1>3, <1>4, <1>10, <2>1
  <2>3. k > p => p \in i + 1 .. k - 1  BY <1>4, <2>1
  <2>4. ~(k > p)  BY <1>4, <1>9, <2>2, <2>3 DEF Longest!IsString
  <2>5. QED  BY <1>4, <2>1, <2>4
<1>14. ~Longest!OpensBlockComment(i)
  <2>1. i \in Int  BY <1>4
  <2>2. QED  BY IsPair, <1>9, <2>1 DEF Longest!OpensBlockComment
<1>15. p \in i .. Len(text)  BY <1>4 DEF Inside
<1>16. QED  BY TellsTaking, KindsAre, <1>1, <1>4, <1>5, <1>6, <1>7, <1>8, <1>12, <1>13, <1>14, <1>15

LEMMA EndTextTells ==
  ASSUME LexInv, LexInv', EndText
  PROVE  Longest!Next
<1>1. /\ status = "lexing" /\ status' = "parsing" /\ text' = text /\ p' = p /\ literal' = literal
      /\ tokens' = Append(tokens, Token("EOF", p, p)) /\ At(p) = "end"
  BY DEF EndText, Lexing
<1>2. IsText /\ p \in Place /\ ListInv /\ ListInv' /\ literal = None  BY <1>1 DEF LexInv, ReaderInv
<1>3. Where = Len(text) + 1 /\ Len(text) \in Nat  BY <1>1, <1>2, InText, WhereIs DEF IsText
<1>4. Where' = Where
  <2>1. None' = None  BY DEF None
  <2>2. QED  BY <1>1, <2>1 DEF Where
<1>5. Stage = "reading" /\ Stage' = "read" /\ Reads  BY <1>1 DEF Stage, Reads
<1>6. Token("EOF", p, p).kind = "EOF"  BY DEF Token
<1>7. Taken' = Taken  BY TakenGrows, <1>1, <1>2, <1>5, <1>6
<1>8. Told' = Told  BY <1>5, <1>7 DEF Told
<1>9. QED  BY TellsEnd, <1>1, <1>3, <1>4, <1>5, <1>8

LEMMA ReturnTells ==
  ASSUME NEW why, NEW n, Return(why, n), Reads, why \in {"refused", "memory"}
  PROVE  /\ text' = text /\ Where' = Where /\ Stage = "reading" /\ Told' = <<>>
         /\ why = "refused" => Stage' = "refused"
         /\ why = "memory" => Stage' = "stopped"
<1>1. text' = text /\ p' = p /\ literal' = literal /\ tokens' = <<>> /\ status' = why
  BY DEF Return
<1>2. Where' = Where
  <2>1. None' = None  BY DEF None
  <2>2. QED  BY <1>1, <2>1 DEF Where
<1>3. Stage = "reading"  BY DEF Reads, Stage
<1>4. Taken' = <<>>
  <2>1. Found' = 0  BY <1>1 DEF Found
  <2>2. 1 .. 0 = {}  OBVIOUS
  <2>3. QED  BY <2>1, <2>2 DEF Taken
<1>5. Told' = <<>>  BY <1>4 DEF Told
<1>6. /\ why = "refused" => Stage' = "refused"
      /\ why = "memory" => Stage' = "stopped"
  BY <1>1 DEF Stage
<1>7. QED  BY <1>1, <1>2, <1>3, <1>5, <1>6

LEMMA RefusalTells ==
  ASSUME LexInv, StringInv,
         UnterminatedComment \/ BadCharLiteral \/ InvalidCharacter \/ UnterminatedString
  PROVE  Longest!Next
<1>1. IsText /\ p \in Place  BY DEF LexInv, ReaderInv
<1>2. \E n : Return("refused", n)
  BY DEF UnterminatedComment, BadCharLiteral, InvalidCharacter, UnterminatedString, Refuse
<1>3. Reads
  BY DEF UnterminatedComment, BadCharLiteral, InvalidCharacter, UnterminatedString, Lexing, Reads
<1>4. /\ text' = text /\ Where' = Where /\ Stage = "reading" /\ Told' = <<>>
      /\ Stage' = "refused"
  BY ReturnTells, <1>2, <1>3
<1>5. Len(text) \in Nat  BY <1>1, InsideIs
<1>6. CASE UnterminatedComment
  <2>1. AtBlockComment /\ Closings = {} /\ Where = p
    BY <1>6, WhereIs DEF UnterminatedComment, Lexing
  <2>2. p \in Inside
    <3>1. At(p + 1 - 1) = <<"/", "*">>[1]  BY <2>1 DEF AtBlockComment, Starts
    <3>2. p + 1 - 1 = p  BY <1>1 DEF Place, IsText
    <3>3. QED  BY <1>1, <3>1, <3>2, InsideIs
  <2>3. \A k \in p .. Len(text) : ~Longest!IsBlank(p, k)
    BY UnterminatedRefused, <1>1, <2>1, <2>2
  <2>4. Longest!OpensBlockComment(p)  BY SlashIs, <1>1, <2>1, <2>2
  <2>5. QED  BY TellsRefusal, <1>4, <1>5, <2>1, <2>2, <2>3, <2>4
<1>7. CASE BadCharLiteral
  <2>1. At(p) = "apostrophe" /\ ~IsCharLiteral /\ Where = p
    BY <1>7, WhereIs DEF BadCharLiteral, Lexing
  <2>2. p \in Inside  BY <1>1, <2>1, InsideIs
  <2>3. \A k \in p .. Len(text) : ~Longest!IsLexeme(p, k) /\ ~Longest!IsBlank(p, k)
    BY BadCharRefused, <1>1, <2>1, <2>2
  <2>4. QED  BY TellsRefusal, <1>4, <1>5, <2>1, <2>2, <2>3
<1>8. CASE InvalidCharacter
  <2>1. Where = p  BY <1>8, WhereIs DEF InvalidCharacter, Lexing
  <2>2. p \in Inside /\ \A k \in p .. Len(text) : ~Longest!IsLexeme(p, k) /\ ~Longest!IsBlank(p, k)
    BY InvalidRefused, <1>1, <1>8
  <2>3. QED  BY TellsRefusal, <1>4, <1>5, <2>1, <2>2
<1>9. CASE UnterminatedString
  <2> DEFINE i == literal.from
  <2>1. status = "string" /\ At(p) = "end"  BY <1>9 DEF UnterminatedString
  <2>2. Where = i /\ i \in Inside /\ i < p  BY WhereIs, <2>1
  <2>3. /\ text[i] = "quote"
        /\ \A k \in i + 1 .. p - 1 : text[k] = "quote" => Longest!Escaped(i, k)
    BY <2>1 DEF StringInv
  <2>4. At(i) = "quote"  BY <1>1, <2>2, <2>3, InsideIs
  <2>5. p = Len(text) + 1  BY <1>1, <2>1, InText
  <2>6. i \in Nat  BY <2>2, <1>1, InsideIs
  <2> HIDE DEF i
  <2>7. ASSUME NEW k \in i .. Len(text), Longest!IsLexeme(i, k) \/ Longest!IsBlank(i, k)
        PROVE  FALSE
    <3>1. Longest!IsString(i, k)  BY OnlyForm, <1>1, <2>2, <2>4, <2>7
    <3>2. k > i /\ text[k] = "quote" /\ ~Longest!Escaped(i, k)  BY <3>1 DEF Longest!IsString
    <3>3. k \in i + 1 .. p - 1  BY <1>5, <2>5, <2>6, <2>7, <3>2
    <3>4. QED  BY <2>3, <3>2, <3>3
  <2>8. \A k \in i .. Len(text) : ~Longest!IsLexeme(i, k) /\ ~Longest!IsBlank(i, k)  BY <2>7
  <2>9. QED  BY TellsRefusal, <1>4, <1>5, <2>2, <2>8
<1>10. QED  BY <1>6, <1>7, <1>8, <1>9

LEMMA StoppingTells ==
  ASSUME NoMemoryForString \/ NoMemoryToGrow \/ Exit \/ Finish
  PROVE  Longest!Next
<1>1. CASE NoMemoryForString \/ NoMemoryToGrow
  <2>1. Reads /\ \E n : Return("memory", n)
    BY <1>1 DEF NoMemoryForString, NoMemoryToGrow, Lexing, InString, Reads
  <2>2. text' = text /\ Where' = Where /\ Stage' = "stopped"  BY <2>1, ReturnTells
  <2>3. QED  BY TellsStop, <2>2
<1>2. CASE Exit \/ Finish
  <2>1. text' = text /\ p' = p /\ literal' = literal /\ status' \in {"exit", "done"}
    BY <1>2 DEF Exit, Finish
  <2>2. Where' = Where
    <3>1. None' = None  BY DEF None
    <3>2. QED  BY <2>1, <3>1 DEF Where
  <2>3. Stage' = "stopped"  BY <2>1 DEF Stage
  <2>4. QED  BY TellsStop, <2>1, <2>2, <2>3
<1>3. QED  BY <1>1, <1>2

LEMMA SilentSteps ==
  ASSUME Consumes \/ UNCHANGED vars
  PROVE  UNCHANGED Longest!vars
<1>1. text' = text /\ p' = p /\ literal' = literal /\ tokens' = tokens /\ status' = status
  BY ConsumeKinds DEF ToNext, vars
<1>2. Where' = Where
  <2>1. None' = None  BY DEF None
  <2>2. QED  BY <1>1, <2>1 DEF Where
<1>3. Stage' = Stage  BY <1>1 DEF Stage
<1>4. Told' = Told
  <2>1. Found' = Found  BY <1>1 DEF Found
  <2>2. \A u : FormOf(u)' = FormOf(u)  BY <1>1 DEF FormOf
  <2>3. QED  BY <1>1, <1>3, <2>1, <2>2 DEF Taken, Told
<1>5. QED  BY Stutters, <1>1, <1>2, <1>3, <1>4

LEMMA NextLongest ==
  ASSUME LexInv, LexInv', StringInv, [Next]_vars
  PROVE  [Longest!Next]_(Longest!vars)
<1>1. CASE AddsToken
  BY <1>1, WordTells, OperatorTells, CharTells, HexTells, NumberTells DEF AddsToken
<1>2. CASE Blank \/ LineComment \/ BlockComment  BY <1>2, PassingTells
<1>3. CASE Returns  BY <1>3, RefusalTells, StoppingTells DEF Returns
<1>4. CASE BeginString \/ StringChar  BY <1>4, BeginTells, StringCharTells
<1>5. CASE EndString \/ EndText  BY <1>5, EndStringTells, EndTextTells
<1>6. CASE Exit \/ Finish  BY <1>6, StoppingTells
<1>7. CASE Consumes \/ UNCHANGED vars  BY <1>7, SilentSteps
<1>8. QED  BY <1>1, <1>2, <1>3, <1>4, <1>5, <1>6, <1>7, StepKinds

\* What tokenize does, its comments, its strings of many steps, its errors
\* and the parser's side included, is at every step what Lexemes allows:
\* each token is the longest lexeme where it begins, of the form that its
\* kind says, a text is refused only where it has none, and what is passed
\* over is blank.  With Lexemes' fairness this is ImplementsLexemes.
THEOREM LongestLexemesAreRead ==
  Spec => Longest!Init /\ [][Longest!Next]_(Longest!vars)
<1>1. Spec => []StringInv
  <2>1. LexInv /\ StringInv /\ [Next]_vars => StringInv'  BY NextString
  <2>2. QED  BY InitString, LexHolds, <2>1, PTL DEF Spec
<1>2. LexInv /\ LexInv' /\ StringInv /\ [Next]_vars => [Longest!Next]_(Longest!vars)
  BY NextLongest
<1>3. QED  BY InitLongest, LexHolds, <1>1, <1>2, PTL DEF Spec
=============================================================================
