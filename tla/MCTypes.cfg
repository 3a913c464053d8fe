\* Three types and three declarations: a pointer that has a name, a struct or
\* union that is made of it or of a struct, and a list that gives it a size.
CONSTANTS
  T = T
  Names = {T}
  BaseTypes = {"CHAR", "SHORT", "size_t"}
  ArraySizes = {2}
  ListLengths = {3}
  Qualifiers = {"restrict"}
  MaxTypes = 3
  MaxDecls = 3
  MaxMembers = 2
  MaxNesting = 2
SPECIFICATION Spec
INVARIANTS
  TypeOK
  MembersNumbered
  UnionsHoldMembers
PROPERTIES
  TypesKept
  SizeofIsAllocated
