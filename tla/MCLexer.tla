------------------------------- MODULE MCLexer -------------------------------
(* Texts of Lexer for model checking: every text of a few characters, out   *)
(* of each group of characters that the code looks at together.             *)
EXTENDS Lexer

Upto(n, S) == UNION {[1 .. k -> S] : k \in 0 .. n}

MCTexts ==
  Upto(5, {"/", "*", "newline", "quote", "backslash"})
    \cup Upto(5, {"apostrophe", "backslash", "newline", "x", "f", "0"})
    \cup Upto(5, {"0", "9", "x", ".", "p", "l"})
    \cup Upto(4, {"0", "1", ".", "e", "f", "+", "u", "l", "x"})
    \cup Upto(3, {"d", "o", "<", ">", "=", "-", ".", ";", "@", "blank", "!"})
MCKeywords == {<<"d", "o">>}
=============================================================================
