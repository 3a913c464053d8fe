\* A variable of a typedef, and another of the same typedef that is restrict.
CONSTANTS
  T = T
  Names = {T}
  BaseTypes = {"CHAR"}
  ArraySizes = {2}
  ListLengths = {3}
  Qualifiers = {"restrict"}
  MaxTypes = 2
  MaxDecls = 3
  MaxMembers = 2
  MaxNesting = 1
SPECIFICATION Spec
PROPERTY QualifiersKept
