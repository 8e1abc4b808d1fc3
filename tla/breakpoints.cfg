SPECIFICATION FairSpec
CONSTANTS
  Addr <- SmallAddr
  Opcode <- SmallOpcode
  Data <- SmallData
  INT3 = "int3"
  HLT = "hlt"
  TRAP = "trap"
  Program <- SmallProgram
  Entry = 0
  InitData <- SmallInit
  Effect <- SmallEffect
  Interrupt <- SmallInterrupt
  Expr <- SmallExpr
  Value <- SmallValue
  NR_BP = 2
  MaxCount = 3
  Steps = {1, 2}
  BreakAddrs = {0, 7}
  SameAddressTwice = FALSE
  MaxCmds = 4
INVARIANTS
  TypeOK
  PoolIntact
  CodeRestorable
  DisarmedInTwoWays
PROPERTIES
  StopsAtBreakPoint
  ImplementsGuest
  GetsPast
CHECK_DEADLOCK FALSE
