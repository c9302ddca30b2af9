\* Rings of four slots, three files.
SPECIFICATION Spec
CONSTANTS
  FIFO_SIZE = 4
  Walk <- MCOneDir
INVARIANT EveryFilePrinted
CHECK_DEADLOCK FALSE
