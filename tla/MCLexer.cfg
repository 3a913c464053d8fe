\* Strings of at most four characters, which grow from 1 byte to 8; characters
\* and hexadecimal numbers above and below the greatest int.
CONSTANTS
  Texts <- MCTexts
  Keywords <- MCKeywords
  InitialCap = 1
  IntMax = 200
SPECIFICATION Spec
INVARIANTS
  TypeOK
  PositionsAreTrue
  BlocksAreReachable
PROPERTIES
  ImplementsLexemes
\* A program that was read or refused is at its end.
CHECK_DEADLOCK FALSE
