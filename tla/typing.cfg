SPECIFICATION FairSpec
CONSTANTS
  SIZE = 3
  Key = {a, b}
  LETTER_TICKS = 2
  DRAW_TICKS = 2
  CYCLE = 2
  FALL = 1
  RISE = 2
  BOTTOM = 3
  WRAP = 2
  MaxLag = 2
INVARIANTS
  TypeOK
  LettersIntact
  AssertionsHold
PROPERTIES
  HitWasAimedAt
  EveryLetterLeaves
