SPECIFICATION Spec
CONSTANTS
  Users = {u1, u2, u3}
  MaxLoads = 2
  Confs <- MCConfs
SYMMETRY Symmetry
CHECK_DEADLOCK FALSE
INVARIANTS
  SafeAfterLoad
  OneLogger
  OneConfig
