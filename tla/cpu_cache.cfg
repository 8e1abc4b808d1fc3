SPECIFICATION Spec
CONSTANTS
  S = 1
  B = 2
  E = 2
  MemSize = 6
  Byte = {0, 1}
  Lens = {1, 2}
  Images <- ZeroImages
  MaxAge = 4
  BoundAges = TRUE
INVARIANTS
  TypeOK
  Coherent
PROPERTIES
  ReplacesLeastRecentlyUsed
  ImplementsFlatMemory
