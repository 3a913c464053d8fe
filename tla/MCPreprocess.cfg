\* Two names, of which one is predefined, and both kinds of macros with two
\* values: five lines in up to three files, with groups three deep.
CONSTANTS
  a = a
  clang = clang
  Names = {a, clang}
  Predefined = clang
  Values <- Numbers
  MaxLines = 5
  MaxGroups = 3
  MaxFiles = 3
SPECIFICATION Spec
INVARIANTS
  OneDefinition
  ActiveIsMeaning
PROPERTIES
  ImplementsText
