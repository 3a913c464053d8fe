\* Tables of 1, 2 and 4 slots and an int that holds no 8, which the index 4
\* needs; the indexes below make a table grow by one or two doublings at once.
CONSTANTS
  a = a
  b = b
  zero = zero
  null = null
  Values = {a, b}
  Zero = zero
  NULL = null
  InitialCap = 1
  IntMax = 7
  MaxPlaces = 2
  Sizes = {0, 2}
  MaxIndex = 4
  MaxElements = 3
  MaxLists = 2
SPECIFICATION Spec
INVARIANTS
  TypeOK
  SlotsFit
  PlacesAreWritten
PROPERTIES
  GrowthEnds
  ImplementsElements
