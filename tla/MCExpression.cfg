CONSTANTS
  Bits <- Widths
  ValuesOf <- Values
  Literals = {2, 3}
  Elements = 1
  MaxNodes = 5
SPECIFICATION ExprSpec
INVARIANTS
  ExprTypeOK
  ValuesAreC
  ConstantsAreC
