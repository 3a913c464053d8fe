\* Units of up to three nodes with two names and a library function, or of two
\* nodes and two expressions in their bodies.
CONSTANTS
  f = f
  g = g
  exit = exit
  Names = {f, g, exit}
  Library = exit
  LibraryType <- MCLibraryType
  Signatures <- MCSignatures
  Args = {0, 2}
  MaxStrings = 1
  MaxNodes = 3
  MaxItems = 4
SYMMETRY NameSymmetry
SPECIFICATION Spec
INVARIANTS
  CallsMatchCallee
  OneFunctionPerName
  PrivateIffStatic
  AccessesReachASymbol
  AgreedCallsFit
