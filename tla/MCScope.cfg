\* Two top-level nodes, of which both may be functions, with scopes two deep:
\* shadowing, for heads, full slots, and what the tables keep from one function
\* to the next.
CONSTANTS
  a = a
  b = b
  anonymous = anonymous
  Names = {a, b}
  Unnamed = anonymous
  MAX_LOCALS = 2
  MAX_NODES = 2
  MaxFunctions = 2
  MaxNesting = 1
SYMMETRY NameSymmetry
SPECIFICATION Spec
INVARIANTS
  TypeOK
  StackDiscipline
  LocalsChain
  VlaOwnSize
  ChainsDisjoint
  LookupIsInnermost
PROPERTIES
  ImplementsFrames
