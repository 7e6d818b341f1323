\* The reader may stop: a frame is read once.
SPECIFICATION NumberSpec
CHECK_DEADLOCK FALSE
CONSTANTS
  Bits = 5
  Group = 2
  HostBits = {4, 5}
  Values <- SomeValues
  MaxRun = 4
  MaxWire = 4
INVARIANTS
  NumbersUnambiguous
  RunsReadBack
