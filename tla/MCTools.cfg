\* cphash and cpex: three paths, three contents, two of which have the same MD5; two
\* runs, and one write to the source.  The other instances are in MCTools.
SPECIFICATION AllSpec
CONSTANTS
  p1 = p1
  p2 = p2
  p3 = p3
  a1 = a1
  a2 = a2
  c1 = c1
  Paths = {p1, p2, p3}
  Contents = {a1, a2, c1}
  Empty = Empty
  NoFile = NoFile
  Md5 <- MCMd5
  Fnv <- MCFnv
  Trees <- MCTrees
  MaxRuns = 2
  MaxChanges = 1
  FileContents = {a1, a2, c1}
  Absent = NoFile
  FileMd5 <- MCMd5
  MaxWrites = 1
  Cr2Files = {g1, g2, g3}
  RefFiles = {r1, r2}
  Dirs = {d1, d2}
  FilesIn <- MCFilesOf
  Small = {r1, k1}
  Name <- MCName
  HasJpg = {g1, g3}
  Entries = {root, d, s1, f, g, h, k}
  Root = root
  Hidden = {h}
  Up <- TreeUp
  Below <- TreeBelow
  WalkTrees <- MCWalkTrees
  MaxTreeChanges = 1
  MaxTreeErrors = 1
  Bytes = {0, 1}
  Unit = 2
  MaxSize = 3
  MaxStarts = 2
  Buffer = 2
  CompareSize = 4
  TreeContents = {u1, u2, u3, u4}
  ContentSize <- MCSize
  ContentHash <- MCHash
  MaxTree = 3
  Lockx = {l1, l2}
  Acquirex = {x1}
  Threads = {t1, t2}
  NArgs = 3
  g1 = g1
  g2 = g2
  g3 = g3
  r1 = r1
  r2 = r2
  k1 = k1
  k2 = k2
  k3 = k3
  d1 = d1
  d2 = d2
  root = root
  d = d
  s1 = s1
  f = f
  g = g
  h = h
  k = k
  u1 = u1
  u2 = u2
  u3 = u3
  u4 = u4
  l1 = l1
  l2 = l2
  x1 = x1
  t1 = t1
  t2 = t2
INVARIANTS
  NothingOverwritten
  EverythingStored
  StoredOnce
  ReportTrue
  RerunIsHarmless
  CopiesDistinct
  ReportsTrue
  WalkCovers
  CopyTrue
  ToolsTrue
  CommandsTrue
\* The programs end.
CHECK_DEADLOCK FALSE
