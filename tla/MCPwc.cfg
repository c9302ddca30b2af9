\* Rings of eight slots, 22 files in two directories.  The program may stop for
\* good in pause(), or with iothread and main waiting for each other, so that
\* deadlock is not an error here: FinishesUnlessRingFills says what may happen.
SPECIFICATION FairSpec
CONSTANTS
  FIFO_SIZE = 8
  Walk <- MCTwoDirs
INVARIANTS
  OpenFilesBounded
  SpinsForTheOther
PROPERTIES
  FinishesUnlessRingFills
  IsPipeline
CHECK_DEADLOCK FALSE
