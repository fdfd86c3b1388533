SPECIFICATION Spec
CONSTANTS
  Addrs = {a1, a2}
  NoAddr = NoAddr
  Conns_nums = 1
  Heart_bit = TRUE
  HubCap = 1
  SendCap = 1
  MaxConns = 1
  MaxRounds = 2
  MaxCalls = 3
SYMMETRY Symmetry
CHECK_DEADLOCK FALSE
INVARIANTS
  TypeOK
  OnePlace
  ShutOnce
  PanicNeedsMisfiled
