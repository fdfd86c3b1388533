SPECIFICATION FairSpec
CONSTANTS
  Addrs = {a1}
  NoAddr = NoAddr
  Conns_nums = 2
  Heart_bit = TRUE
  HubCap = 2
  SendCap = 1
  MaxConns = 2
  MaxRounds = 1
  MaxCalls = 3
CHECK_DEADLOCK FALSE
INVARIANTS
  IndexSound
PROPERTIES
  EndIsHandled
  ImplementsClientPool
