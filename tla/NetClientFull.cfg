SPECIFICATION Spec
CONSTANTS
  Users = {u1, u2}
  max_packet_size = 3
  max_out_packet_nums = 2
  MaxBytes = 6
CHECK_DEADLOCK FALSE
PROPERTIES
  CutWhenFull
