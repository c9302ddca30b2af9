\* Two threads with two numbers each, among them 42.
SPECIFICATION Spec
CONSTANTS
  First = 40
  Last = 43
  NThreads = 2
INVARIANTS
  SumTrue
CHECK_DEADLOCK FALSE
