SPECIFICATION HttpFairSpec
CONSTANTS
  Requests = {r1, r2}
  Stamps = {7}
  RouteNums = 1
  MaxEventNums = 1
  PendingTime = 1
  WaitTime = 2
  SnowSlideTime = 3
  WaitCap = 1
  NoRequest = NoRequest
  Paths = {"/member/register", "/favicon.ico"}
  FuncMap = {"/member/register"}
INVARIANTS
  NoTornResponse
  StatusIsTrue
PROPERTIES
  EveryRequestAnswered
  QueueDrains
  ImplementsDispatch
