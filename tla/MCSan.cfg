\* tsan: three CPUs with two operations each, on four bytes with three entries: enough
\* for a chain of three CPUs, and for an entry to be reclaimed.  csan: two CPUs with
\* three operations each: a CPU can push a byte out of its slots while it is scanned.
SPECIFICATION SanSpec
CONSTANTS
  N = 3
  M = 3
  f = f
  g = g
  x = x
  y = y
  Plain = {x, y}
  Atomic = {f, g}
  NoAddr = NoAddr
  Stores <- MCStores
  Loads <- MCLoads
  MaxOps = 2
  NCPU = 2
  Bytes = {x, y}
  NULL = NULL
  MaxCalls = 3
INVARIANTS
  NoRaceMissed
  VectorsAreSound
  MatchTrue
CHECK_DEADLOCK FALSE
