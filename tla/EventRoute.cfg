SPECIFICATION Spec
CONSTANTS
  Requests = {r1, r2, r3}
  Stamps = {7, 8}
  RouteNums = 2
  MaxEventNums = 1
  PendingTime = 1
  WaitTime = 2
  SnowSlideTime = 3
  WaitCap = 1
  NoRequest = NoRequest
SYMMETRY Symmetry
INVARIANTS
  OkMeansComplete
  RefusedNeverRuns
  RouteExclusive
  SignalNeverBlocks
  AlarmsLeftBehind
  NeverHasty
