\* Two CPUs that load the byte they stored to.
SPECIFICATION Spec
CONSTANTS
  N = 2
  M = 2
  f = f
  g = g
  x = x
  y = y
  Plain = {x}
  Atomic = {f}
  NoAddr = NoAddr
  Stores <- MCAll
  Loads <- MCAll
  MaxOps = 3
INVARIANTS
  TrapsOnlyOnRace
CHECK_DEADLOCK FALSE
