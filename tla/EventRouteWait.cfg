SPECIFICATION Spec
CONSTANTS
  Requests = {r1, r2}
  Stamps = {7}
  RouteNums = 1
  MaxEventNums = 1
  PendingTime = 1
  WaitTime = 2
  SnowSlideTime = 3
  WaitCap = 1
  NoRequest = NoRequest
PROPERTIES
  WaitsItsTime
