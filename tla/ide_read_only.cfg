SPECIFICATION FairSpec
CONSTANTS
  MaxEvents = 0
  NrSectors = 3
  Words = 2
  Data = {0, 1, 2, 3, 4, 5}
  Images <- DistinctImages
  ImageWritable = FALSE
  NrSecCache = 2
  Period = 2
  Ops = {"read"}
  TickAnywhere = TRUE
INVARIANTS
  TypeOK
PROPERTIES
  ImplementsBlockStore
  CallReturns
