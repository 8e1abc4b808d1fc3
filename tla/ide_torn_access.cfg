SPECIFICATION Spec
CONSTANTS
  MaxEvents = 0
  NrSectors = 3
  Words = 2
  Data = {0, 1}
  Images <- ZeroImages
  ImageWritable = TRUE
  NrSecCache = 2
  Period = 2
  Ops = {"read", "write"}
  TickAnywhere = TRUE
INVARIANTS
  DataPortAssertions
