-------------------------------- MODULE Lexer --------------------------------
(***************************************************************************)
(* The lexer (lex.c): tokenize, which makes the list of tokens of a text   *)
(* in one pass, and the operations by which the parser reads that list.    *)
(*                                                                         *)
(* The text stands for every text: its characters are the classes that the *)
(* code tells apart, as in Lexemes.  A branch of the loop in tokenize is   *)
(* an action; string literals, which allocate while they are read, are one *)
(* action for each character.  The order of the branches is in the guards. *)
(***************************************************************************)
EXTENDS Integers, Sequences, SequencesExt

CONSTANTS
  Texts,       \* the texts to read
  Keywords,    \* the words that are no identifiers (kw_str)
  InitialCap,  \* bytes a string literal starts with; 16 in the code
  IntMax       \* LLVM7_INT_MAX

ASSUME CapAssumption == InitialCap \in Nat \ {0}
ASSUME IntAssumption == IntMax \in Nat

Lexemes == INSTANCE Lexemes WITH text <- <<>>, at <- 1, taken <- <<>>, stage <- ""

Space == Lexemes!Space
Octal == Lexemes!Octal
Digit == Lexemes!Digit
Hex == Lexemes!Hex
Letter == Lexemes!Letter
WordChar == Lexemes!WordChar

ASSUME TextsAssumption == Texts \subseteq Seq(Lexemes!Char)

VARIABLES
  text,       \* what tokenize is given
  p,          \* the next place in it
  line,       \* the line of p, as it is counted
  lineStart,  \* where that line begins
  tokens,     \* the list made so far
  literal,    \* the string literal being read: where it began, line, length, capacity
  live,       \* tokens and strings that are allocated
  current,    \* the parser's token, an index of tokens
  status      \* "lexing", "string", "parsing", "refused", "exit", "memory" or "done"

vars == <<text, p, line, lineStart, tokens, literal, live, current, status>>

None == [from |-> 0, line |-> 0, col |-> 0, len |-> 0, cap |-> 0]

-----------------------------------------------------------------------------
(* The text around a place.  What is behind the end is the terminator. *)

At(i) == IF i <= Len(text) THEN text[i] ELSE "end"

Starts(s, i) == \A k \in 1 .. Len(s) : At(i + k - 1) = s[k]

\* Where the characters of S from i on end: while (isdigit(*p)) p++.
Past(S, i) ==
  CHOOSE j \in i .. Len(text) + 1 :
    /\ At(j) \notin S
    /\ \A k \in i .. j - 1 : At(k) \in S

AtMost(n, S, i) == IF Past(S, i) > i + n THEN i + n ELSE Past(S, i)

Over(S, i) == IF At(i) \in S THEN i + 1 ELSE i

Piece(i, j) == SubSeq(text, i, j - 1)

DigitValue == [c \in Hex |-> CASE c = "0" -> 0 [] c = "1" -> 1 [] c = "9" -> 9
                               [] c = "d" -> 13 [] c = "e" -> 14 [] c = "f" -> 15]

NumberOf(base, i, j) ==
  FoldLeft(LAMBDA v, c : v * base + DigitValue[c], 0, Piece(i, j))

\* The place and the value of what decode_escape_char reads at i; a char is
\* signed.  1 stands for the code of a character.
AfterEscape(i) ==
  IF At(i) = "x" THEN AtMost(2, Hex, i + 1)
  ELSE IF At(i) \in Octal THEN AtMost(3, Octal, i)
  ELSE IF At(i) = "end" THEN i
  ELSE i + 1

Signed(byte) == IF byte > 127 THEN byte - 256 ELSE byte

EscapeValue(i) ==
  IF At(i) = "x" THEN Signed(NumberOf(16, i + 1, AfterEscape(i)) % 256)
  ELSE IF At(i) \in Octal THEN Signed(NumberOf(8, i, AfterEscape(i)) % 256)
  ELSE 1

ThreeCharOps == {<<".", ".", ".">>, <<"<", "<", "=">>, <<">", ">", "=">>}
TwoCharOps ==
  {<<c, "=">> : c \in {"=", "!", "<", ">", "+", "-", "*", "/", "&", "|", "^"}}
    \cup {<<c, c>> : c \in {"&", "|", "+", "-", "<", ">"}} \cup {<<"-", ">">>}
SingleCharOps == Lexemes!Mark

\* lex_get_line_col, the definition of a position.
LineOf(i) == 1 + Cardinality({k \in 1 .. i - 1 : text[k] = "newline"})
ColOf(i) ==
  i - (CHOOSE j \in 0 .. i - 1 :
         /\ j = 0 \/ text[j] = "newline"
         /\ \A k \in j + 1 .. i - 1 : text[k] # "newline")

-----------------------------------------------------------------------------
Init ==
  /\ text \in Texts
  /\ p = 1 /\ line = 1 /\ lineStart = 1
  /\ tokens = <<>>
  /\ literal = None
  /\ live = 0
  /\ current = 0
  /\ status = "lexing"

Lexing == status = "lexing"

Token(kind, from, to) ==
  [kind |-> kind, from |-> from, to |-> to, line |-> line, col |-> from - lineStart + 1,
   isFloat |-> FALSE, val |-> 0, uval |-> 0, ownsStr |-> FALSE]

\* A token of the text from p up to t.to.
Add(t) ==
  /\ tokens' = Append(tokens, t)
  /\ live' = live + 1
  /\ p' = t.to
  /\ UNCHANGED <<text, line, lineStart, literal, status, current>>

\* free_tokens.
FreeTokens == Len(tokens) + Cardinality({i \in DOMAIN tokens : tokens[i].ownsStr})

\* tokenize returns NULL; others is what it frees besides.
Return(why, others) ==
  /\ status' = why
  /\ tokens' = <<>>
  /\ live' = live - FreeTokens - others
  /\ UNCHANGED <<text, p, line, lineStart, literal, current>>

Refuse(others) == Return("refused", others)

-----------------------------------------------------------------------------
(* The branches of the loop, in their order. *)

Blank ==
  /\ Lexing
  /\ At(p) \in Space
  /\ p' = p + 1
  /\ IF At(p) = "newline" THEN line' = line + 1 /\ lineStart' = p + 1
     ELSE UNCHANGED <<line, lineStart>>
  /\ UNCHANGED <<text, tokens, literal, live, status, current>>

AtLineComment == Starts(<<"/", "/">>, p)
AtBlockComment == Starts(<<"/", "*">>, p)

LineComment ==
  /\ Lexing
  /\ AtLineComment
  /\ p' = Past(Lexemes!Char \ {"newline"}, p + 2)
  /\ UNCHANGED <<text, line, lineStart, tokens, literal, live, status, current>>

\* Slip: the search begins at the star that opens the comment.
Closings_Overlap == {q \in p + 1 .. Len(text) - 1 : Starts(<<"*", "/">>, q)}

Closings == {q \in p + 2 .. Len(text) - 1 : Starts(<<"*", "/">>, q)}

BlockComment ==
  /\ Lexing
  /\ AtBlockComment
  /\ \E q \in Closings :
       /\ \A r \in Closings : q <= r
       /\ LET newlines == {s \in p .. q + 1 : At(s) = "newline"} IN
            /\ line' = line + Cardinality(newlines)
            /\ lineStart' = IF newlines = {} THEN lineStart ELSE Max(newlines) + 1
       /\ p' = q + 2
  /\ UNCHANGED <<text, tokens, literal, live, status, current>>

UnterminatedComment ==
  /\ Lexing
  /\ AtBlockComment
  /\ Closings = {}
  /\ Refuse(0)

\* An identifier or a keyword.
Word ==
  /\ Lexing
  /\ At(p) \in Letter
  /\ LET to == Past(WordChar, p) IN
       Add(Token(IF Piece(p, to) \in Keywords THEN "RESERVED" ELSE "IDENT", p, to))

StartsNumber == At(p) \in Digit \/ (At(p) = "." /\ At(p + 1) \in Digit)

\* The length of the operator at p, or 0: three characters are tried first.
OperatorLength ==
  IF \E o \in ThreeCharOps : Starts(o, p) THEN 3
  ELSE IF \E o \in TwoCharOps : Starts(o, p) THEN 2
  ELSE IF At(p) \in SingleCharOps /\ ~StartsNumber THEN 1
  ELSE 0

Operator ==
  /\ Lexing
  /\ ~AtLineComment /\ ~AtBlockComment
  /\ OperatorLength > 0
  /\ Add(Token("RESERVED", p, p + OperatorLength))

\* The bytes a string literal is collected in are one more block.
BeginString ==
  /\ Lexing
  /\ At(p) = "quote"
  /\ literal' = [from |-> p, line |-> line, col |-> p - lineStart + 1, len |-> 0, cap |-> InitialCap]
  /\ live' = live + 1
  /\ p' = p + 1
  /\ status' = "string"
  /\ UNCHANGED <<text, line, lineStart, tokens, current>>

NoMemoryForString ==
  /\ Lexing
  /\ At(p) = "quote"
  /\ Return("memory", 0)

InString == status = "string" /\ At(p) \notin {"quote", "end"}

\* Slip: the byte for the terminator is forgotten.
IsFull_NoTerminator == literal.len >= literal.cap

IsFull == literal.len + 1 >= literal.cap

\* Slip: a newline behind a backslash is not counted.
StringChar_EscapedNewline ==
  /\ InString
  /\ p' = IF At(p) = "backslash" THEN AfterEscape(p + 1) ELSE p + 1
  /\ IF At(p) = "newline" THEN line' = line + 1 /\ lineStart' = p + 1
     ELSE UNCHANGED <<line, lineStart>>
  /\ literal' = [literal EXCEPT !.len = @ + 1, !.cap = IF IsFull THEN 2 * @ ELSE @]
  /\ UNCHANGED <<text, tokens, live, status, current>>

\* One character or escape of a string.  An escape that the text ends in is
\* decoded too, and the loop ends because the text has.
StringChar ==
  /\ InString
  /\ LET first == Over({"backslash"}, p) IN
       /\ p' = IF first > p THEN AfterEscape(first) ELSE p + 1
       /\ IF At(first) = "newline" THEN line' = line + 1 /\ lineStart' = first + 1
          ELSE UNCHANGED <<line, lineStart>>
  /\ literal' = [literal EXCEPT !.len = @ + 1, !.cap = IF IsFull THEN 2 * @ ELSE @]
  /\ UNCHANGED <<text, tokens, live, status, current>>

NoMemoryToGrow ==
  /\ InString
  /\ IsFull
  /\ Return("memory", 1)

EndString ==
  /\ status = "string"
  /\ At(p) = "quote"
  /\ tokens' = Append(tokens, [Token("STR", literal.from, p + 1) EXCEPT
                                 !.line = literal.line, !.col = literal.col, !.ownsStr = TRUE])
  /\ live' = live + 1
  /\ p' = p + 1
  /\ literal' = None
  /\ status' = "lexing"
  /\ UNCHANGED <<text, line, lineStart, current>>

\* Slip: the bytes collected so far are not freed.
UnterminatedString_Leak ==
  /\ status = "string"
  /\ At(p) = "end"
  /\ Refuse(0)

UnterminatedString ==
  /\ status = "string"
  /\ At(p) = "end"
  /\ Refuse(1)

\* The place behind the character of a literal at p, and its value.
AfterChar == IF At(p + 1) = "backslash" THEN AfterEscape(p + 2) ELSE p + 2
CharValue == IF At(p + 1) = "backslash" THEN EscapeValue(p + 2) ELSE 1
IsCharLiteral ==
  /\ At(p + 1) \notin {"end", "apostrophe", "newline"}
  /\ At(AfterChar) = "apostrophe"

CharLiteral ==
  /\ Lexing
  /\ At(p) = "apostrophe"
  /\ IsCharLiteral
  /\ Add([Token("NUM", p, AfterChar + 1) EXCEPT
            !.val = CharValue,
            !.uval = IF CharValue < 0 THEN 2 * (IntMax + 1) + CharValue ELSE CharValue])

BadCharLiteral ==
  /\ Lexing
  /\ At(p) = "apostrophe"
  /\ ~IsCharLiteral
  /\ Refuse(0)

Integer(to, value) ==
  [Token("NUM", p, to) EXCEPT !.uval = value, !.val = IF value <= IntMax THEN value ELSE IntMax]

Float(to) == [Token("NUM", p, to) EXCEPT !.isFloat = TRUE]

AtHex == Starts(<<"0", "x">>, p)
AfterHexDigits == Past(Hex, p + 2)
AfterHexPoint == IF At(AfterHexDigits) = "." THEN Past(Hex, AfterHexDigits + 1) ELSE AfterHexDigits
AfterExponent(i) == Past(Digit, Over({"+", "-"}, i + 1))

HexFloat ==
  /\ Lexing
  /\ AtHex
  /\ At(AfterHexPoint) = "p"
  /\ Add(Float(Over({"l", "f"}, AfterExponent(AfterHexPoint))))

\* Without an exponent a point is not part of the number.
HexInteger ==
  /\ Lexing
  /\ AtHex
  /\ At(AfterHexPoint) # "p"
  /\ Add(Integer(Past({"u", "l"}, AfterHexDigits), NumberOf(16, p + 2, AfterHexDigits)))

AfterDigits == LET d == Past(Digit, p) IN IF At(d) = "." THEN Past(Digit, d + 1) ELSE d
AfterFloat ==
  Over({"f"}, IF At(AfterDigits) = "e" THEN AfterExponent(AfterDigits) ELSE AfterDigits)

Number ==
  /\ Lexing
  /\ StartsNumber /\ ~AtHex
  /\ IF AfterFloat > AfterDigits \/ "." \in Range(Piece(p, AfterDigits))
     THEN Add(Float(AfterFloat))
     ELSE Add(Integer(Past({"l"}, Over({"u"}, AfterDigits)), NumberOf(10, p, AfterDigits)))

InvalidCharacter ==
  /\ Lexing
  /\ At(p) \notin Space \cup Letter \cup {"quote", "apostrophe", "end"}
  /\ ~AtLineComment /\ ~AtBlockComment
  /\ OperatorLength = 0 /\ ~StartsNumber
  /\ Refuse(0)

EndText ==
  /\ Lexing
  /\ At(p) = "end"
  /\ tokens' = Append(tokens, Token("EOF", p, p))
  /\ live' = live + 1
  /\ current' = 1
  /\ status' = "parsing"
  /\ UNCHANGED <<text, p, line, lineStart, literal>>

Tokenize ==
  \/ Blank \/ LineComment \/ BlockComment \/ UnterminatedComment
  \/ Word \/ Operator
  \/ BeginString \/ NoMemoryForString \/ StringChar \/ NoMemoryToGrow
  \/ EndString \/ UnterminatedString
  \/ CharLiteral \/ BadCharLiteral
  \/ HexFloat \/ HexInteger \/ Number
  \/ InvalidCharacter \/ EndText

-----------------------------------------------------------------------------
(* The parser's side.  It is free to ask for anything; what is not there is *)
(* either no step (consume returns false) or the end (expect exits).        *)

Parsing == status = "parsing"
Kind == tokens[current].kind

ToNext ==
  /\ current' = current + 1
  /\ UNCHANGED <<text, p, line, lineStart, tokens, literal, live, status>>

Consume == Parsing /\ Kind = "RESERVED" /\ ToNext

ConsumeIdent == Parsing /\ Kind = "IDENT" /\ ToNext

\* parse_primary reads numbers and strings itself.
ConsumeLiteral == Parsing /\ Kind \in {"NUM", "STR"} /\ ToNext

TooLarge(t) == t.uval > IntMax

ExpectNumber ==
  /\ Parsing
  /\ Kind = "NUM"
  /\ ~TooLarge(tokens[current])
  /\ ToNext

\* expect, expect_number and every other error of the parser; the text may
\* have ended.
Exit ==
  /\ Parsing
  /\ status' = "exit"
  /\ UNCHANGED <<text, p, line, lineStart, tokens, literal, live, current>>

AtEof == Kind = "EOF"

\* parse_program is through, and main frees the tokens.
Finish ==
  /\ Parsing
  /\ AtEof
  /\ status' = "done"
  /\ tokens' = <<>>
  /\ live' = live - FreeTokens
  /\ UNCHANGED <<text, p, line, lineStart, literal, current>>

Next ==
  \/ Tokenize
  \/ Consume \/ ConsumeIdent \/ ConsumeLiteral \/ ExpectNumber
  \/ Exit \/ Finish

(* The loop of tokenize is never left before the text has ended or an error *)
(* was found; the parser need not go on.                                    *)
Spec == Init /\ [][Next]_vars /\ WF_vars(Tokenize)

-----------------------------------------------------------------------------
(* Types.  The parser's token is always one of the list: what consumes a    *)
(* token does not consume the last one, so the peek at the token behind an  *)
(* identifier (parse.c, labels) finds one.  A string literal has a byte for *)
(* its terminator at any time.                                              *)
TypeOK ==
  /\ text \in Seq(Lexemes!Char)
  /\ p \in 1 .. Len(text) + 1
  /\ line \in 1 .. Len(text) + 1
  /\ lineStart \in 1 .. p
  /\ \A i \in DOMAIN tokens :
       LET t == tokens[i] IN
         /\ t.kind \in {"RESERVED", "IDENT", "NUM", "STR", "EOF"}
         /\ 1 <= t.from /\ t.from <= t.to /\ t.to <= Len(text) + 1
         /\ t.kind = "EOF" => i = Len(tokens) /\ status # "lexing"
         /\ t.ownsStr <=> t.kind = "STR"
  /\ status = "string" => literal.len < literal.cap
  /\ live \in Nat
  /\ status \in {"lexing", "string", "parsing", "refused", "exit", "memory", "done"}
  /\ Parsing => current \in DOMAIN tokens

(* The line and the column that tokenize keeps while it reads are the ones  *)
(* that lex_get_line_col counts from the start, for every token, whatever   *)
(* comments and strings of several lines come before it.  Behind a          *)
(* character literal with an escaped newline they are not.                  *)
PositionsAreTrue ==
  \A i \in DOMAIN tokens :
    LET t == tokens[i] IN
      (\A j \in 1 .. i - 1 :
         At(tokens[j].from) = "apostrophe" =>
           "newline" \notin Range(Piece(tokens[j].from, tokens[j].to)))
      => t.line = LineOf(t.from) /\ t.col = ColOf(t.from)

(* Everything allocated is reachable from the list, or is the literal being *)
(* read: whichever of the error returns is taken, nothing is left behind,   *)
(* and nothing is freed twice.                                              *)
BlocksAreReachable ==
  live = FreeTokens + (IF status = "string" THEN 1 ELSE 0)

FormOf(t) ==
  CASE t.kind = "STR" -> "string"
    [] t.kind = "NUM" -> IF t.isFloat THEN "float" ELSE "integer"
    [] OTHER -> IF text[t.from] \in Letter THEN "word" ELSE "operator"

Stage ==
  CASE status \in {"lexing", "string"} -> "reading"
    [] status = "parsing" -> "read"
    [] status = "refused" -> "refused"
    [] OTHER -> "stopped"

\* The end of the text is on the list too.
Found ==
  IF tokens # <<>> /\ tokens[Len(tokens)].kind = "EOF" THEN Len(tokens) - 1 ELSE Len(tokens)

Taken ==
  [i \in 1 .. Found |-> <<FormOf(tokens[i]), tokens[i].from, tokens[i].to - 1>>]

Longest == INSTANCE Lexemes WITH
  at <- IF literal # None THEN literal.from ELSE p,
  taken <- IF Stage = "stopped" THEN <<>> ELSE Taken,
  stage <- Stage

(* tokenize takes the longest lexeme everywhere, refuses exactly the texts  *)
(* that have none somewhere, and comes to an end.                           *)
ImplementsLexemes == Longest!Spec
=============================================================================
