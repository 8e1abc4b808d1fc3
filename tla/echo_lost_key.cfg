SPECIFICATION Spec
CONSTANTS
  MaxEvents = 2
  Sectors = 1
INVARIANTS
  EveryPressEchoedOnce
