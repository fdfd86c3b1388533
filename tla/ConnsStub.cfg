SPECIFICATION StubFairSpec
CONSTANTS
  Callers = {c1, c2}
  max_stub_nums = 3
  min_stub_nums = 1
  MaxRequests = 3
  RecvCap = 3
  LenHalf = 5
  BodyLens = {1, 5}
  BodyVals <- MCBodyVals
CHECK_DEADLOCK FALSE
INVARIANTS
  StubTypeOK
  OneHolder
  Ceiling
  NilMeansEmpty
  OnlyFailuresDesync
  InOrder
  PanicNeedsCause
PROPERTIES
  InvokeReturns
