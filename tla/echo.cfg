SPECIFICATION FairSpec
CONSTANTS
  MaxEvents = 2
  Sectors = 2
INVARIANTS
  TypeOK
  NoNestedDeviceInterrupt
  HaltIsWakeable
  WaitFindsCompletion
  EchoInOrder
PROPERTIES
  BootCompletes
  HaltEnds
  PendingKeyIsServed
