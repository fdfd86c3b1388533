SPECIFICATION FairSpec
CONSTANTS
  Addrs = {a1}
  NoAddr = NoAddr
  Conns_nums = 1
  Heart_bit = TRUE
  HubCap = 1
  SendCap = 1
  MaxConns = 1
  MaxRounds = 1
  MaxCalls = 3
CHECK_DEADLOCK FALSE
PROPERTIES
  CloseReturns
