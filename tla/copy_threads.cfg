SPECIFICATION Spec
CONSTANTS
  S = 2
  B = 2
  E = 2
  MemSize = 8
  Bases = {1, 2}
  DataLens = {2, 6}
INVARIANTS
  TypeOK
  RightAlone
  NeverMadeUp
