\* Three checkers, three rounds over two misalignments, at most one corruption.
SPECIFICATION FairSpec
CONSTANTS
  Cpus = {c1, c2, c3}
  max_loops = 3
  MAX_MISALIGN = 2
  PERIOD = 256
  UINT = 65536
  MaxFaults = 1
INVARIANTS
  RoundsAreExclusive
  NoFalseAlarm
PROPERTIES
  CorruptionDetected
  Finishes
