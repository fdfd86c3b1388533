SPECIFICATION FairSpec
CONSTANTS
  Conns = {c1, c2}
  NotANumber = NotANumber
  MaxInt = 7
  MaxChan = 3
  MaxSlice = 5
  Second = 2
  MaxCalls = 2
  MaxStarts = 2
  Inis <- MCInis
  Settings <- MCSettings
CHECK_DEADLOCK FALSE
INVARIANTS
  ConfigOfAStart
  CrashNeedsWrong
PROPERTIES
  NotHeldUp
