------------------------------- MODULE CompareTools -------------------------------
(***************************************************************************)
(* Tools that read files or trees and say what they found: xdiff and bdiff *)
(* (where two files differ), zerorun (where a file is zero), cmpdir        *)
(* (whether two trees are the same) and countcphash (what removing         *)
(* duplicates would save).                                                 *)
(*                                                                         *)
(* A file is a sequence of bytes, for zerorun one for each of its blocks.  *)
(* A tree is the sequence of what nftw finds: a file with its content, or  *)
(* an entry that the callbacks skip (a directory, an empty or a special    *)
(* file).  Nobody writes to them meanwhile.                                *)
(***************************************************************************)
EXTENDS Integers, Sequences, FiniteSets

CONSTANTS
  Bytes,            (* values of a byte, 0 among them                            *)
  Buffer,           (* size of buf_a and buf_b                                   *)
  MaxSize,          (* bound: the size of a file                                 *)
  Contents,         (* of the files in trees                                     *)
  Size, HashOf,     (* of a content: its length, and FNV1A_32 of it, which is 0  *)
                    (* also for a file that cannot be mapped                     *)
  MaxTree           (* bound: entries of a tree                                  *)

Skipped == "skipped"

\* Empty files are skipped.
CompareToolsAssumption ==
  /\ Buffer \in Nat \ {0} /\ MaxSize \in Nat /\ MaxTree \in Nat
  /\ Skipped \notin Contents
  /\ Size \in [Contents -> Nat \ {0}] /\ HashOf \in [Contents -> Nat]

VARIABLES
  tool,
  fileA, fileB,     (* two files                                                 *)
  trees,            (* two trees, "A" and "B"                                    *)
  pc,               (* "start", "loop", "returned"; a walk is at "A" or "B"      *)
  at,               (* i, n: the offset; entries of the tree that are walked     *)
  rc,               (* of main, once it has returned                             *)
  printed,          (* offsets, or pairs of blocks                               *)
  start, end,       (* zerorun                                                   *)
  nFiles, nBytes, hashes,               (* of each walk                          *)
  cut,                                  (* whether a callback has returned -1    *)
  nDuplicates, nUnique, nBytesUnique    (* countcphash                           *)

input  == <<tool, fileA, fileB, trees>>
run    == <<start, end>>
counts == <<nFiles, nBytes, hashes>>
unique == <<nDuplicates, nUnique, nBytesUnique>>
vars   == <<input, pc, at, rc, printed, run, counts, cut, unique>>

None  == -1
Abort == -6         \* main is left by a failed assertion
Both  == {"A", "B"}

SeqsUpTo(S, n) == UNION {[1 .. m -> S] : m \in 0 .. n}

Init ==
  /\ \/ /\ tool \in {"xdiff", "bdiff", "zerorun"} /\ pc = "start"
        /\ fileA \in SeqsUpTo(Bytes, MaxSize)
        /\ fileB \in IF tool = "zerorun" THEN {<<>>} ELSE SeqsUpTo(Bytes, MaxSize)
        /\ trees = [w \in Both |-> <<>>]
     \/ /\ tool \in {"cmpdir", "countcphash"} /\ pc = "A"
        /\ fileA = <<>> /\ fileB = <<>>
        /\ trees \in [Both -> SeqsUpTo(Contents \cup {Skipped}, MaxTree)]
        /\ tool = "countcphash" => trees["B"] = <<>>
  /\ at = 0 /\ rc = 0 /\ printed = {} /\ start = None /\ end = None
  /\ nFiles = [w \in Both |-> 0] /\ nBytes = nFiles /\ hashes = [w \in Both |-> {}]
  /\ cut = [w \in Both |-> FALSE]
  /\ nDuplicates = 0 /\ nUnique = 0 /\ nBytesUnique = 0

Returns(status) == pc' = "returned" /\ rc' = status

--------------------------------------------------------------------------------
(* xdiff, bdiff and zerorun                                                 *)

\* bdiff aborts unless the files are of one size, and mmap takes no empty one.
bdiff ==
  /\ tool = "bdiff" /\ pc = "start"
  /\ IF Len(fileA) = Len(fileB) /\ Len(fileA) > 0 THEN pc' = "loop" /\ UNCHANGED rc
     ELSE Returns(Abort)
  /\ UNCHANGED <<input, at, printed, run, counts, cut, unique>>

Opened ==
  /\ tool \in {"xdiff", "zerorun"} /\ pc = "start" /\ pc' = "loop"
  /\ UNCHANGED <<input, at, rc, printed, run, counts, cut, unique>>

\* A file cannot be opened or mapped.
NotOpened ==
  /\ pc = "start"
  /\ Returns(CASE tool = "xdiff" -> -1 [] tool = "bdiff" -> Abort [] tool = "zerorun" -> 1)
  /\ UNCHANGED <<input, at, printed, run, counts, cut, unique>>

Reading(t) == tool = t /\ pc = "loop" /\ at < Len(fileA)

\* What pread gives from the offset on, into a buffer that was zeroed before.
BufferAt(f) == SubSeq(f, at + 1, IF at + Buffer < Len(f) THEN at + Buffer ELSE Len(f))

\* xdiff reads as far as a goes, and gives up at a buffer of which the two files do not
\* have as much.
CompareBuffers ==
  LET bufA == BufferAt(fileA)
      bufB == BufferAt(fileB)
  IN  /\ Reading("xdiff")
      /\ IF Len(bufA) # Len(bufB) THEN Returns(-3) /\ UNCHANGED <<at, printed>>
         ELSE /\ printed' = printed \cup
                   {at + j - 1 : j \in {k \in DOMAIN bufA : bufA[k] # bufB[k]}}
              /\ at' = at + Len(bufA)
              /\ UNCHANGED <<pc, rc>>
      /\ UNCHANGED <<input, run, counts, cut, unique>>

CompareBytes ==
  /\ Reading("bdiff")
  /\ printed' = IF fileA[at + 1] # fileB[at + 1] THEN printed \cup {at} ELSE printed
  /\ at' = at + 1
  /\ UNCHANGED <<input, pc, rc, run, counts, cut, unique>>

\* A block that is not zero ends a run of blocks that are.
TestBlock ==
  /\ Reading("zerorun")
  /\ at' = at + 1
  /\ \/ /\ fileA[at + 1] = 0
        /\ start' = IF start = None THEN at ELSE start
        /\ end' = at /\ UNCHANGED printed
     \/ /\ fileA[at + 1] # 0
        /\ printed' = IF start # None THEN printed \cup {<<start, end>>} ELSE printed
        /\ start' = None /\ end' = None
  /\ UNCHANGED <<input, pc, rc, counts, cut, unique>>

ReadFails ==
  /\ \/ Reading("xdiff") /\ \E status \in {-3, -4} : Returns(status)
     \/ Reading("zerorun") /\ Returns(2)
  /\ UNCHANGED <<input, at, printed, run, counts, cut, unique>>

EndOfFile ==
  /\ pc = "loop" /\ at >= Len(fileA) /\ Returns(0)
  /\ UNCHANGED <<input, at, printed, run, counts, cut, unique>>

--------------------------------------------------------------------------------
(* cmpdir and countcphash: a step is one call of a callback by nftw         *)

Entry   == trees[pc][at + 1]
Calls(t) == tool = t /\ pc \in Both /\ at < Len(trees[pc]) /\ ~cut[pc] /\ at' = at + 1

CountReadable ==
  IF HashOf[Entry] = 0 THEN UNCHANGED <<nFiles, nBytes>>
  ELSE /\ nFiles' = [nFiles EXCEPT ![pc] = @ + 1]
       /\ nBytes' = [nBytes EXCEPT ![pc] = @ + Size[Entry]]

\* A file is counted before it is read.
CountFile ==
  /\ nFiles' = [nFiles EXCEPT ![pc] = @ + 1]
  /\ nBytes' = [nBytes EXCEPT ![pc] = @ + Size[Entry]]

\* cbA and cbB end the walk if s is zero, which at an entry that they skip is what the
\* uninitialised variable holds.
cbSkips ==
  /\ Calls("cmpdir") /\ Entry = Skipped
  /\ \E zero \in BOOLEAN : cut' = [cut EXCEPT ![pc] = zero]
  /\ UNCHANGED <<input, pc, rc, printed, run, counts, unique>>

cbAcbB ==
  /\ Calls("cmpdir") /\ Entry # Skipped
  /\ CountFile
  /\ hashes' = IF HashOf[Entry] = 0 THEN hashes
               ELSE [hashes EXCEPT ![pc] = @ \cup {HashOf[Entry]}]
  /\ cut' = [cut EXCEPT ![pc] = HashOf[Entry] = 0]
  /\ UNCHANGED <<input, pc, rc, printed, run, unique>>

\* main walks the second tree after the first, and then compares: numbers first.
EndOfWalk ==
  /\ tool = "cmpdir" /\ pc \in Both /\ (at = Len(trees[pc]) \/ cut[pc])
  /\ \/ pc = "A" /\ pc' = "B" /\ at' = 0 /\ UNCHANGED rc
     \/ /\ pc = "B" /\ UNCHANGED at
        /\ Returns(CASE nFiles["A"] # nFiles["B"] -> -1
                     [] nFiles["A"] = nFiles["B"] /\ nBytes["A"] # nBytes["B"] -> -2
                     [] nFiles["A"] = nFiles["B"] /\ nBytes["A"] = nBytes["B"] ->
                          IF hashes["A"] # hashes["B"] THEN -3 ELSE 0)
  /\ UNCHANGED <<input, printed, run, counts, cut, unique>>

countSkips ==
  /\ Calls("countcphash") /\ Entry = Skipped
  /\ UNCHANGED <<input, pc, rc, printed, run, counts, cut, unique>>

\* The file is a duplicate, or unique, by its hash alone; neither if it cannot be read.
cb ==
  /\ Calls("countcphash") /\ Entry # Skipped
  /\ CountFile
  /\ \/ HashOf[Entry] = 0 /\ UNCHANGED <<hashes, unique>>
     \/ /\ HashOf[Entry] \in hashes[pc] /\ HashOf[Entry] # 0
        /\ nDuplicates' = nDuplicates + 1
        /\ UNCHANGED <<hashes, nUnique, nBytesUnique>>
     \/ /\ HashOf[Entry] \notin hashes[pc] /\ HashOf[Entry] # 0
        /\ hashes' = [hashes EXCEPT ![pc] = @ \cup {HashOf[Entry]}]
        /\ nUnique' = nUnique + 1 /\ nBytesUnique' = nBytesUnique + Size[Entry]
        /\ UNCHANGED nDuplicates
  /\ UNCHANGED <<input, pc, rc, printed, run, cut>>

Report ==
  /\ tool = "countcphash" /\ pc = "A" /\ at = Len(trees[pc]) /\ Returns(0)
  /\ UNCHANGED <<input, at, printed, run, counts, cut, unique>>

--------------------------------------------------------------------------------
Next ==
  \/ bdiff \/ Opened \/ NotOpened
  \/ CompareBuffers \/ CompareBytes \/ TestBlock \/ ReadFails \/ EndOfFile
  \/ cbSkips \/ cbAcbB \/ EndOfWalk
  \/ countSkips \/ cb \/ Report

Spec == Init /\ [][Next]_vars

--------------------------------------------------------------------------------
Differences == {i - 1 : i \in {k \in DOMAIN fileA \cap DOMAIN fileB : fileA[k] # fileB[k]}}

\* The longest stretches of zeros: <<first, last>>.
ZeroRuns ==
  {r \in (0 .. Len(fileA) - 1) \X (0 .. Len(fileA) - 1) :
     /\ r[1] <= r[2] /\ \A i \in r[1] .. r[2] : fileA[i + 1] = 0
     /\ r[1] > 0 => fileA[r[1]] # 0
     /\ r[2] < Len(fileA) - 1 => fileA[r[2] + 2] # 0}

\* The files of a tree, by their places in it, and the bytes they hold, one by one.
FilesOf(t) == {k \in DOMAIN t : t[k] # Skipped}
BytesOf(t) == UNION {{k} \X (1 .. Size[t[k]]) : k \in FilesOf(t)}

\* The contents that occur and can be read, their bytes, and whether no two of them have
\* one hash.
Found(t)       == {t[k] : k \in {l \in FilesOf(t) : HashOf[t[l]] # 0}}
FoundBytes(t)  == UNION {{c} \X (1 .. Size[c]) : c \in Found(t)}
Distinct(t)    == \A c, d \in Found(t) : HashOf[c] = HashOf[d] => c = d
HashesOf(t)    == {HashOf[c] : c \in Found(t)}

Done(t) == tool = t /\ pc = "returned" /\ rc = 0

\* xdiff and bdiff print what differs and nothing else.  If xdiff returns 0 that is all,
\* unless b is longer and a a whole number of buffers; if bdiff returns 0 it is all.
\* The two numbers of a pair of zerorun's are the first and the last block of a longest
\* run of zeros, and if it returns 0 it has printed all but one that goes on to the end
\* of the file.  zerorun.c:65 puts "[%lx, %lx)" around them, with a bracket that leaves the
\* second out: whoever reads a pair as it is printed misses the last block of the run.
FilesTrue ==
  /\ tool \in {"xdiff", "bdiff"} => printed = {d \in Differences : d < at}
  /\ Done("xdiff") =>
       /\ printed = Differences /\ Len(fileA) <= Len(fileB)
       /\ Len(fileA) < Len(fileB) => \E q \in 0 .. Len(fileA) : Len(fileA) = q * Buffer
  /\ Done("bdiff") => printed = Differences /\ Len(fileA) = Len(fileB)
  /\ tool = "zerorun" => printed \subseteq ZeroRuns
  /\ Done("zerorun") => printed = {r \in ZeroRuns : r[2] # Len(fileA) - 1}

Agree(a, b) ==
  /\ Cardinality(FilesOf(a)) = Cardinality(FilesOf(b))
  /\ Cardinality(BytesOf(a)) = Cardinality(BytesOf(b))
  /\ HashesOf(a) = HashesOf(b)

\* Where a walk may have ended: behind the last entry, or behind one at which a callback
\* may return -1.
Stops(w) ==
  IF cut[w] THEN {m \in DOMAIN trees[w] : trees[w][m] = Skipped \/ HashOf[trees[w][m]] = 0}
  ELSE {Len(trees[w])}

\* What cmpdir says of two trees is so of what was walked of them: 0 if and only if that
\* agrees in the number of files, in bytes and in hashes.  main means to "Make sure files,
\* bytes, and hashes are all the same" (cmpdir.cc:122), but a callback that returns -1 cuts
\* a walk short, so that trees which differ behind there are the same to it.  countcphash
\* counts every file once, and the unique bytes are those of the contents that occur, each
\* once, if no two have one hash; otherwise it says less.
TreesTrue ==
  LET t == trees["A"] IN
  /\ tool = "cmpdir" /\ pc = "returned" =>
       \E a \in Stops("A"), b \in Stops("B") :
         rc = 0 <=> Agree(SubSeq(t, 1, a), SubSeq(trees["B"], 1, b))
  /\ Done("countcphash") =>
       /\ nFiles["A"] = Cardinality(FilesOf(t)) /\ nBytes["A"] = Cardinality(BytesOf(t))
       /\ nUnique + nDuplicates = Cardinality({k \in FilesOf(t) : HashOf[t[k]] # 0})
       /\ nUnique = Cardinality(HashesOf(t))
       /\ nBytesUnique <= Cardinality(FoundBytes(t))
       /\ Distinct(t) => nBytesUnique = Cardinality(FoundBytes(t))

\* What the five tools say is so.
ToolsTrue == FilesTrue /\ TreesTrue
================================================================================
