SPECIFICATION FairSpec
CONSTANTS
  MaxEvents = 0
  NrSectors = 3
  Words = 1
  Data = {0, 1}
  Images <- ZeroImages
  ImageWritable = TRUE
  NrSecCache = 2
  Period = 2
  Ops = {"read", "write"}
  TickAnywhere = FALSE
INVARIANTS
  DataPortAssertions
  WritebackFindsDiskReady
  CleanMeansOnDisk
PROPERTIES
  ImplementsBlockStore
  DirtyIsWrittenBack
