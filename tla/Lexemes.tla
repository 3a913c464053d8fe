------------------------------- MODULE Lexemes -------------------------------
(***************************************************************************)
(* What tokenizing promises: a text is read from left to right, what is    *)
(* blank or a comment is passed over, and every other piece is the longest *)
(* that is a lexeme.  A text that cannot be read so has no tokens at all.  *)
(*                                                                         *)
(* A form is stated as a property of a piece of text, not as a way to scan *)
(* it.  The characters are the ones the forms tell apart: `d' stands for   *)
(* every other hexadecimal letter, `1' for 1 to 7 and `9' for 8 and 9, `o' *)
(* for every other letter, `;' for every mark that is only an operator by  *)
(* itself, `@' for what no token begins with.                              *)
(***************************************************************************)
EXTENDS Integers, Sequences, FiniteSets, FiniteSetsExt

CONSTANTS
  Texts  \* the texts to read

Space == {"blank", "newline"}
Octal == {"0", "1"}
Digit == Octal \cup {"9"}
Hex == Digit \cup {"d", "e", "f"}
Letter == {"d", "e", "f", "l", "o", "p", "u", "x"}
WordChar == Letter \cup Digit
Mark == {"+", "-", "*", "/", "<", ">", "=", "!", "&", "|", "^", ".", ";"}
Char == Space \cup WordChar \cup Mark \cup {"quote", "apostrophe", "backslash", "@"}

VARIABLES
  text,   \* the text
  at,     \* where reading is in it
  taken,  \* the lexemes found so far: their form and their first and last place
  stage   \* "reading", "read", "refused" or "stopped"

vars == <<text, at, taken, stage>>

-----------------------------------------------------------------------------
(* The forms: i and j are the first place of a piece and the last. *)

All(S, i, j) == \A k \in i .. j : text[k] \in S

Is(s, i, j) == j - i + 1 = Len(s) /\ \A k \in 1 .. Len(s) : text[i + k - 1] = s[k]

IsLineComment(i, j) ==
  /\ j > i /\ Is(<<"/", "/">>, i, i + 1)
  /\ \A k \in i .. j : text[k] # "newline"

IsBlockComment(i, j) ==
  /\ j > i + 2 /\ Is(<<"/", "*">>, i, i + 1) /\ Is(<<"*", "/">>, j - 1, j)
  /\ \A k \in i + 3 .. j - 1 : ~Is(<<"*", "/">>, k - 1, k)

OpensBlockComment(i) == i < Len(text) /\ Is(<<"/", "*">>, i, i + 1)

IsBlank(i, j) ==
  \/ All(Space, i, j)
  \/ IsLineComment(i, j)
  \/ IsBlockComment(i, j)

IsWord(i, j) == text[i] \in Letter /\ All(WordChar, i, j)

Operators ==
  {<<m>> : m \in Mark}
    \cup {<<m, "=">> : m \in {"=", "!", "<", ">", "+", "-", "*", "/", "&", "|", "^"}}
    \cup {<<m, m>> : m \in {"&", "|", "+", "-", "<", ">"}} \cup {<<"-", ">">>}
    \cup {<<"<", "<", "=">>, <<">", ">", "=">>, <<".", ".", ".">>}

IsOperator(i, j) == \E o \in Operators : Is(o, i, j)

\* A character of a literal, or an escape for one.
IsEscape(i, j) ==
  /\ j > i
  /\ text[i] = "backslash"
  /\ \/ text[i + 1] = "x" /\ j <= i + 3 /\ All(Hex, i + 2, j)
     \/ j <= i + 3 /\ All(Octal, i + 1, j)
     \/ j = i + 1

\* A quote closes a string unless an odd number of backslashes is before it.
Escaped(i, k) ==
  \E n \in 1 .. k - i - 1 :
    /\ n % 2 = 1
    /\ All({"backslash"}, k - n, k - 1)
    /\ k - n - 1 > i => text[k - n - 1] # "backslash"

IsString(i, j) ==
  /\ j > i /\ text[i] = "quote" /\ text[j] = "quote"
  /\ ~Escaped(i, j)
  /\ \A k \in i + 1 .. j - 1 : text[k] = "quote" => Escaped(i, k)

IsChar(i, j) ==
  /\ j > i + 1 /\ text[i] = "apostrophe" /\ text[j] = "apostrophe"
  /\ \/ j = i + 2 /\ text[i + 1] \notin {"apostrophe", "newline", "backslash"}
     \/ IsEscape(i + 1, j - 1)

\* Numbers: k is where the exponent or the suffix begins.
Optional(S, i, j) == j < i \/ (j = i /\ text[i] \in S)

IsExponent(letter, i, j) ==
  /\ i <= j
  /\ text[i] = letter
  /\ \/ All(Digit, i + 1, j)
     \/ i < j /\ text[i + 1] \in {"+", "-"} /\ All(Digit, i + 2, j)

IsDecimal(i, j) == i <= j /\ All(Digit, i, j)

\* Digits with a point, of which one digit at least is next to the point.
IsPointed(i, j) ==
  \E d \in i .. j :
    /\ text[d] = "."
    /\ All(Digit, i, d - 1) /\ All(Digit, d + 1, j)
    /\ d = i => d < j

IsFloat(i, j) ==
  \/ \E k \in i .. j :      \* the last place of the digits
       /\ IsDecimal(i, k) \/ IsPointed(i, k)
       /\ \E m \in k .. j : \* the last place of the exponent
            /\ m = k \/ IsExponent("e", k + 1, m)
            /\ Optional({"f"}, m + 1, j) /\ j <= m + 1
            /\ m > k \/ j > m \/ IsPointed(i, k)
  \/ /\ j > i + 1 /\ Is(<<"0", "x">>, i, i + 1)
     /\ \E k \in i + 1 .. j : \E m \in k .. j :
          /\ All(Hex, i + 2, k)
             \/ \E d \in i + 2 .. k : text[d] = "." /\ All(Hex, i + 2, d - 1)
                                                   /\ All(Hex, d + 1, k)
          /\ IsExponent("p", k + 1, m)
          /\ j <= m + 1 /\ Optional({"l", "f"}, m + 1, j)

IsInteger(i, j) ==
  \/ \E k \in i .. j :
       /\ IsDecimal(i, k)
       /\ All({"l"}, k + 1, j) \/ (k < j /\ text[k + 1] = "u" /\ All({"l"}, k + 2, j))
  \/ /\ j > i /\ Is(<<"0", "x">>, i, i + 1)
     /\ \E k \in i + 1 .. j : All(Hex, i + 2, k) /\ All({"u", "l"}, k + 1, j)

Form(kind, i, j) ==
  CASE kind = "word" -> IsWord(i, j)
    [] kind = "operator" -> IsOperator(i, j)
    [] kind = "string" -> IsString(i, j)
    [] kind = "integer" -> IsInteger(i, j) \/ IsChar(i, j)
    [] kind = "float" -> IsFloat(i, j)

Kinds == {"word", "operator", "string", "integer", "float"}

IsLexeme(i, j) == \E kind \in Kinds : Form(kind, i, j)

-----------------------------------------------------------------------------
Rest == at .. Len(text)

Init ==
  /\ text \in Texts
  /\ at = 1
  /\ taken = <<>>
  /\ stage = "reading"

\* Blank text is passed over in pieces, but a comment is not cut in two.
PassOver(j) ==
  /\ stage = "reading" /\ j \in Rest
  /\ IsBlank(at, j)
  /\ IsLineComment(at, j) => j = Len(text) \/ text[j + 1] = "newline"
  /\ at' = j + 1
  /\ UNCHANGED <<text, taken, stage>>

Take(kind, j) ==
  /\ stage = "reading" /\ j \in Rest
  /\ Form(kind, at, j)
  /\ \A k \in Rest : IsLexeme(at, k) \/ IsBlank(at, k) => k <= j
  /\ ~OpensBlockComment(at)
  /\ at' = j + 1
  /\ taken' = Append(taken, <<kind, at, j>>)
  /\ UNCHANGED <<text, stage>>

EndText ==
  /\ stage = "reading" /\ Rest = {}
  /\ stage' = "read"
  /\ UNCHANGED <<text, at, taken>>

Refuse ==
  /\ stage = "reading" /\ Rest # {}
  /\ \A k \in Rest : ~IsBlank(at, k)
  /\ OpensBlockComment(at) \/ \A k \in Rest : ~IsLexeme(at, k)
  /\ stage' = "refused"
  /\ taken' = <<>>
  /\ UNCHANGED <<text, at>>

\* Memory may run out, and who reads the tokens lets go of them at the end.
Abandon ==
  /\ stage' = "stopped"
  /\ taken' = <<>>
  /\ UNCHANGED <<text, at>>

Read ==
  \/ \E j \in Rest : PassOver(j)
  \/ \E kind \in Kinds, j \in Rest : Take(kind, j)
  \/ EndText
  \/ Refuse

Next == Read \/ Abandon

(* Every text is read to its end or refused. *)
Spec == Init /\ [][Next]_vars /\ WF_vars(Read)
=============================================================================
