---------------------------------- MODULE Tools ----------------------------------
(***************************************************************************)
(* Five families of tools side by side: those on the pool, the walk of a   *)
(* tree, those that write one file from another, those that compare files  *)
(* and trees, and those under a lock.  Each tool is a program of its own:  *)
(* program says which one it is, and the state of the others stays at      *)
(* None.                                                                   *)
(***************************************************************************)
EXTENDS Naturals, Sequences, FiniteSets

None == "none"

VARIABLE program

--------------------------------------------------------------------------------
(* cpcr2 and transactor                                                    *)
CONSTANTS
  Cr2Files, RefFiles, Dirs, FilesIn, Small, Name, HasJpg, FileContents, Absent, FileMd5, MaxWrites

VARIABLES main, walkTodo, inline, dirAt, itemAt, content, hval, set, freed, nextSeq, copies,
          seq, copied, counters, writes

poolVars == <<main, walkTodo, inline, dirAt, itemAt, content, hval, set, freed, nextSeq,
              copies, seq, copied, counters, writes>>

PT == INSTANCE PoolTools WITH
  tool <- program, todo <- walkTodo, at <- itemAt, dst <- copies, count <- counters,
  changes <- writes, Contents <- FileContents, NoFile <- Absent, Md5 <- FileMd5,
  FilesOf <- FilesIn, MaxChanges <- MaxWrites

PoolIdle ==
  /\ main = None /\ walkTodo = None /\ inline = None /\ dirAt = None /\ itemAt = None
  /\ content = None /\ hval = None /\ set = None /\ freed = None /\ nextSeq = None
  /\ copies = None /\ seq = None /\ copied = None /\ counters = None /\ writes = None

--------------------------------------------------------------------------------
(* fftw                                                                    *)
CONSTANTS Entries, Root, Up, Below, Hidden, WalkTrees, MaxTreeChanges, MaxTreeErrors

VARIABLES item, stage, kind, nameAt, flags, unread, calls, steady, treeChanges, treeErrors

fftwVars == <<item, stage, kind, nameAt, flags, unread, calls, steady, treeChanges, treeErrors>>

FW == INSTANCE Fftw WITH
  at <- nameAt, changes <- treeChanges, errors <- treeErrors, Trees <- WalkTrees,
  MaxChanges <- MaxTreeChanges, MaxErrors <- MaxTreeErrors

FftwIdle ==
  /\ item = None /\ stage = None /\ kind = None /\ nameAt = None /\ flags = None
  /\ unread = None /\ calls = None /\ steady = None /\ treeChanges = None /\ treeErrors = None

--------------------------------------------------------------------------------
(* cp_img, append, append0                                                 *)
CONSTANTS Bytes, Unit, MaxSize, MaxStarts

VARIABLES from, into, was, at, base, pos, result, starts

copyVars == <<from, into, was, at, base, pos, result, starts>>

FC == INSTANCE FileCopy WITH
  tool <- program, src <- from, dst <- into, pc <- at, runs <- starts, MaxRuns <- MaxStarts

CopyIdle ==
  /\ from = None /\ into = None /\ was = None /\ at = None /\ base = None /\ pos = None
  /\ result = None /\ starts = None

--------------------------------------------------------------------------------
(* xdiff, bdiff, zerorun, cmpdir, countcphash                              *)
CONSTANTS Buffer, CompareSize, TreeContents, ContentSize, ContentHash, MaxTree

VARIABLES fileA, fileB, twoTrees, mainAt, offset, rc, output, runStart, runEnd,
          nFiles, nBytes, hashSets, cut, nDuplicates, nUnique, nBytesUnique

compareVars == <<fileA, fileB, twoTrees, mainAt, offset, rc, output, runStart, runEnd,
                 nFiles, nBytes, hashSets, cut, nDuplicates, nUnique, nBytesUnique>>

CT == INSTANCE CompareTools WITH
  tool <- program, trees <- twoTrees, pc <- mainAt, at <- offset, printed <- output,
  start <- runStart, end <- runEnd, hashes <- hashSets, MaxSize <- CompareSize,
  Contents <- TreeContents, Size <- ContentSize, HashOf <- ContentHash

CompareIdle ==
  /\ fileA = None /\ fileB = None /\ twoTrees = None /\ mainAt = None /\ offset = None
  /\ rc = None /\ output = None /\ runStart = None /\ runEnd = None /\ nFiles = None
  /\ nBytes = None /\ hashSets = None /\ cut = None /\ nDuplicates = None
  /\ nUnique = None /\ nBytesUnique = None

--------------------------------------------------------------------------------
(* lockx, acquirex, phash                                                  *)
CONSTANTS Lockx, Acquirex, Threads, NArgs

VARIABLES place, locked, alive, argsLeft, running, arg, ran

shellVars == <<place, locked, alive, argsLeft, running, arg, ran>>

ST == INSTANCE ShellTools WITH tool <- program, pc <- place, files <- argsLeft

ShellIdle ==
  /\ place = None /\ locked = None /\ alive = None /\ argsLeft = None /\ running = None
  /\ arg = None /\ ran = None

--------------------------------------------------------------------------------
ASSUME ToolsAssumption ==
  /\ PT!PoolToolsAssumption /\ FW!FftwAssumption /\ FC!FileCopyAssumption
  /\ CT!CompareToolsAssumption /\ ST!ShellToolsAssumption

PoolTool    == program \in {"cpcr2", "transactor"}
CopyTool    == program \in {"cp_img", "append", "append0"}
CompareTool == program \in {"xdiff", "bdiff", "zerorun", "cmpdir", "countcphash"}
ShellTool   == program \in {"lock", "phash"}

toolsVars == <<program, poolVars, fftwVars, copyVars, compareVars, shellVars>>

ToolsIdle ==
  program = None /\ PoolIdle /\ FftwIdle /\ CopyIdle /\ CompareIdle /\ ShellIdle

ToolsInit ==
  \/ PT!Init /\ FftwIdle /\ CopyIdle /\ CompareIdle /\ ShellIdle
  \/ program = "fftw" /\ FW!Init /\ PoolIdle /\ CopyIdle /\ CompareIdle /\ ShellIdle
  \/ FC!Init /\ PoolIdle /\ FftwIdle /\ CompareIdle /\ ShellIdle
  \/ CT!Init /\ PoolIdle /\ FftwIdle /\ CopyIdle /\ ShellIdle
  \/ ST!Init /\ PoolIdle /\ FftwIdle /\ CopyIdle /\ CompareIdle

ToolsNext ==
  /\ UNCHANGED program
  /\ \/ PoolTool /\ PT!Next /\ UNCHANGED <<fftwVars, copyVars, compareVars, shellVars>>
     \/ program = "fftw" /\ FW!Next /\ UNCHANGED <<poolVars, copyVars, compareVars, shellVars>>
     \/ CopyTool /\ FC!Next /\ UNCHANGED <<poolVars, fftwVars, compareVars, shellVars>>
     \/ CompareTool /\ CT!Next /\ UNCHANGED <<poolVars, fftwVars, copyVars, shellVars>>
     \/ ShellTool /\ ST!Next /\ UNCHANGED <<poolVars, fftwVars, copyVars, compareVars>>

ToolsSpec == ToolsInit /\ [][ToolsNext]_toolsVars

--------------------------------------------------------------------------------
\* The properties of the tools, each in the states of its own.

\* cpcr2 (PoolTools): no two verified copies are of one hash or have one name.
CopiesDistinct == program = "cpcr2" => PT!CopiesDistinct

\* cpcr2 and transactor (PoolTools): what they print is what they did.
ReportsTrue == PoolTool => PT!Accounted /\ PT!MissesTrue

\* fftw: every name that stays is visited once, and all is over when fftw returns.
WalkCovers == program = "fftw" => FW!WalkCovers

\* cp_img, append, append0 (FileCopy): success of cp_img and of append leaves the right
\* file; failing or killed, cp_img leaves one that can still be completed; and append and
\* append0 never touch what the file held before.
CopyTrue == CopyTool => FC!CopyTrue

\* xdiff, bdiff, zerorun, cmpdir, countcphash (CompareTools): what they say is so.
ToolsTrue == CompareTool => CT!ToolsTrue

\* lockx, acquirex, phash (ShellTools): one command under a lock, each argument once.
CommandsTrue == ShellTool => ST!CommandsTrue
================================================================================
