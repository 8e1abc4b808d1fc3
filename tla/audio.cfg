SPECIFICATION FairSpec
CONSTANTS
  Serials = 3
  Lens = {2}
  TicksAnywhere = FALSE
INVARIANTS
  TypeOK
  LocksHeld
PROPERTIES
  PlayedInOrder
  PlayedWhole
  PlayingGoesOn
