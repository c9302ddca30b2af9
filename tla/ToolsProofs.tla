------------------------------ MODULE ToolsProofs ------------------------------
(***************************************************************************)
(* The copying deduplicators, for any trees and hashes, any number of runs *)
(* and of changes to the source; and the tools, for files, trees and       *)
(* numbers of threads of any size.                                         *)
(*                                                                         *)
(* The invariant of CpHash is built in layers, each inductive relative to  *)
(* those before it: where the walk is (Places), what it has counted        *)
(* (Counts), that the tables hold the hashes of the reference and of       *)
(* nothing else but the file being copied (Tables), and that what was      *)
(* hashed is stored (Stored).  Each family of tools has an inductive       *)
(* invariant of its own, under what its module assumes of its constants;   *)
(* at the end those are put together.                                      *)
(***************************************************************************)
EXTENDS CpHash, Tools, SequenceTheorems, FiniteSetTheorems, TLAPS

--------------------------------------------------------------------------------
(* CpHash: cphash and cpex                                                 *)

\* A file is looked up, a file is copied, the second walk has not failed.
Looked  == pc \in {"known", "unique", "create", "write", "verify"}
Busy    == pc \in {"unique", "create", "write", "verify"}
Walking == pc \in {"walk", "done"} \/ Looked

\* Neither missing nor empty.
Full(x) == x \notin {NoFile, Empty}

\* The types of all variables but the counters' bound.
CopierTypes ==
  /\ tool \in {"cphash", "cpex"}
  /\ src \in [Paths -> Contents \cup {Empty, NoFile}]
  /\ ref \in [Paths -> Contents \cup {Empty, NoFile}]
  /\ dst \in [Paths -> Files \cup {NoFile}]
  /\ pc \in {"prefill", "walk", "known", "unique", "create", "write", "verify", "done", "failed"}
  /\ todo \subseteq Paths /\ cur \in Paths \cup {NoFile}
  /\ s \in Files \cup {NoFile}
  /\ hashes \subseteq Files /\ fnvs \subseteq Files
  /\ runs \in 1 .. MaxRuns /\ changes \in 0 .. MaxChanges
  /\ found \in [Paths -> Contents \cup {NoFile}]
  /\ before \in [Paths -> Files \cup {NoFile}]

\* What the walk has left to visit, and the file it is at.
AtFile ==
  /\ pc = "prefill" => /\ todo \subseteq Present(Reference) /\ dst = before
                       /\ \A p \in Paths : found[p] = NoFile
  /\ pc # "prefill" => todo \subseteq Present(src)
  /\ pc = "done" => todo = {}
  /\ Looked => /\ cur \in Paths \ todo /\ src[cur] \in Contents
               /\ found[cur] \in Contents /\ s = md5sum(found[cur])
  /\ Walking => \A p \in Paths : src[p] \in Contents => p \in todo \/ found[p] # NoFile
  /\ changes = 0 => \A p \in Paths : found[p] # NoFile => found[p] = src[p]

\* The state of the copy being made; it is at a path where there was nothing.
AtCopy ==
  /\ pc = "write" => dst[cur] = Empty /\ before[cur] = NoFile
  /\ pc = "verify" => /\ dst[cur] \in Contents /\ before[cur] = NoFile
                      /\ changes = 0 => dst[cur] = src[cur]

Places == CopierTypes /\ AtFile /\ AtCopy /\ NothingOverwritten

--------------------------------------------------------------------------------
\* The hash of a content is a content; other files stand for themselves.
LEMMA HashFacts ==
  /\ NoFile \notin Files /\ Empty \notin Contents /\ Empty # NoFile
  /\ Contents \subseteq Files /\ Empty \in Files /\ NoFile \notin Contents
  /\ \A x \in Contents : Prefix(x) \in Files /\ Prefix(x) \notin Contents \cup {Empty, NoFile}
  /\ \A x \in Contents : md5sum(x) \in Contents /\ fnvpath(x) \in Contents
  /\ \A x : x \notin Contents => md5sum(x) = x /\ fnvpath(x) = x
  BY CpHashAssumption DEF Files, md5sum, fnvpath

\* The places are right in the beginning.
LEMMA InitPlaces == Init => Places
  <1> SUFFICES ASSUME Init PROVE Places
    OBVIOUS
  <1> USE HashFacts
  <1>1. CopierTypes
    BY CpHashAssumption DEF Init, CopierTypes, Present
  <1>2. AtFile /\ AtCopy /\ NothingOverwritten
    BY DEF Init, AtFile, AtCopy, NothingOverwritten, New, Looked, Walking, Present
  <1> QED
    BY <1>1, <1>2 DEF Places

\* The first walk.
LEMMA PrefillPlaces ==
  ASSUME Places, (\E p \in Paths : prefill(p)) \/ Prefilled
  PROVE  Places'
  <1> USE HashFacts DEF Places, CopierTypes, AtFile, AtCopy, Looked, Walking
  <1>1. ASSUME NEW p \in Paths, prefill(p) PROVE Places'
    <2>1. Reference[p] \in Files
      BY <1>1 DEF prefill, Reference, Present
    <2>2. hashes' \subseteq Files /\ fnvs' \subseteq Files
      BY <1>1, <2>1 DEF prefill
    <2>3. UNCHANGED <<tool, src, ref, dst, pc, cur, s, runs, changes, found, before>>
          /\ todo' = todo \ {p}
      BY <1>1 DEF prefill, trees, history
    <2> QED
      BY <1>1, <2>2, <2>3 DEF prefill, Present, Reference, NothingOverwritten, New
  <1>2. CASE Prefilled
    <2>1. UNCHANGED <<tool, src, ref, dst, cur, s, hashes, fnvs, runs, changes, found, before>>
          /\ pc = "prefill" /\ pc' = "walk" /\ todo' = Present(src)
      BY <1>2 DEF Prefilled, trees, history, tables
    <2> QED
      BY <2>1 DEF Present, NothingOverwritten, New
  <1> QED
    BY <1>1, <1>2

\* The callback up to the copy.
LEMMA LookupPlaces ==
  ASSUME Places, (\E p \in Paths : Hash(p)) \/ Known \/ Unique \/ CopyFails \/ Finish
  PROVE  Places'
  <1> USE HashFacts DEF Places, CopierTypes, AtFile, AtCopy, Looked, Walking
  <1>1. ASSUME NEW p \in Paths, Hash(p) PROVE Places'
    <2>1. /\ UNCHANGED <<tool, src, ref, dst, fnvs, runs, changes, before>>
          /\ pc = "walk" /\ p \in todo /\ todo' = todo \ {p}
      BY <1>1 DEF Hash, trees
    <2>2. CASE Skipped(src[p])
      <3>1. UNCHANGED <<pc, cur, s, hashes, found>> /\ src[p] \notin Contents
        BY <1>1, <2>2 DEF Hash, Skipped
      <3> QED
        BY <2>1, <3>1 DEF NothingOverwritten, New, Present
    <2>3. CASE ~Skipped(src[p])
      <3>1. src[p] \in Contents
        BY <2>1, <2>3 DEF Skipped, Present
      <3>2. /\ cur' = p /\ s' = md5sum(src[p]) /\ found' = [found EXCEPT ![p] = src[p]]
            /\ pc' \in {"known", "unique"} /\ hashes' \subseteq hashes \cup {s'}
        BY <1>1, <2>3 DEF Hash, Remembered
      <3>3. found' \in [Paths -> Contents \cup {NoFile}] /\ found'[p] = src[p]
            /\ \A r \in Paths : r # p => found'[r] = found[r]
        BY <3>1, <3>2
      <3>4. CopierTypes'
        BY <2>1, <3>1, <3>2, <3>3
      <3>5. AtFile'
        BY <2>1, <3>1, <3>2, <3>3 DEF Present
      <3> QED
        BY <2>1, <3>2, <3>4, <3>5 DEF NothingOverwritten, New
    <2> QED
      BY <2>2, <2>3
  <1>2. CASE Known \/ Unique \/ CopyFails \/ Finish
    <2>1. UNCHANGED <<tool, src, ref, dst, todo, cur, s, hashes, runs, changes, found, before>>
      BY <1>2 DEF Known, Unique, CopyFails, Finish, trees, tables, history
    <2>2. \/ pc = "known" /\ pc' \in {"walk", "failed"}
          \/ pc = "unique" /\ pc' = "create"
          \/ pc = "create" /\ pc' = "failed"
          \/ pc = "walk" /\ todo = {} /\ pc' = "done"
      BY <1>2 DEF Known, Unique, CopyFails, Finish, WalkEnds
    <2>3. fnvs' \subseteq Files
      BY <1>2 DEF Known, Unique, CopyFails, Finish, tables, Remembered
    <2> QED
      BY <2>1, <2>2, <2>3 DEF Present, NothingOverwritten, New
  <1> QED
    BY <1>1, <1>2

\* The copy.  It is created only where there was nothing.
LEMMA CopyPlaces ==
  ASSUME Places, Create \/ Write \/ Verify
  PROVE  Places'
  <1> USE HashFacts DEF Places, CopierTypes, AtFile, AtCopy, Looked, Walking
  <1>0. /\ UNCHANGED <<tool, src, ref, todo, cur, s, hashes, fnvs, runs, changes, found, before>>
        /\ cur \in Paths /\ src[cur] \in Contents
    BY DEF Create, Write, Verify, trees, tables, history
  <1>1. CASE Create /\ Refused
    BY <1>0, <1>1 DEF Create, WalkEnds, NothingOverwritten, New, Present
  <1>2. CASE Create /\ ~Refused
    <2>1. /\ pc = "create" /\ pc' = "write" /\ dst' = [dst EXCEPT ![cur] = Empty]
          /\ dst[cur] = NoFile
      BY <1>2 DEF Create, Refused
    <2>2. before[cur] = NoFile
      BY <1>0, <2>1 DEF NothingOverwritten, New
    <2>3. dst' \in [Paths -> Files \cup {NoFile}] /\ dst'[cur] = Empty
      BY <1>0, <2>1
    <2>4. NothingOverwritten'
      BY <1>0, <2>1, <2>2 DEF NothingOverwritten, New
    <2> QED
      BY <1>0, <2>1, <2>2, <2>3, <2>4 DEF Present
  <1>3. CASE Write
    <2>1. PICK x \in Files : dst' = [dst EXCEPT ![cur] = x]
                           /\ ((pc' = "verify" /\ x = src[cur]) \/ pc' = "failed")
      BY <1>0, <1>3 DEF Write, WalkEnds
    <2>2. pc = "write"
      BY <1>3 DEF Write
    <2>3. dst' \in [Paths -> Files \cup {NoFile}] /\ dst'[cur] = x
      BY <1>0, <2>1
    <2>4. NothingOverwritten'
      BY <1>0, <2>1, <2>2 DEF NothingOverwritten, New
    <2> QED
      BY <1>0, <2>1, <2>2, <2>3, <2>4 DEF Present
  <1>4. CASE Verify
    BY <1>0, <1>4 DEF Verify, WalkEnds, trees, NothingOverwritten, New, Present
  <1> QED
    BY <1>1, <1>2, <1>3, <1>4

\* The world around the program.
LEMMA WorldPlaces ==
  ASSUME Places, Restart \/ \E p \in Paths : Change(p)
  PROVE  Places'
  <1> USE HashFacts, CpHashAssumption DEF Places, CopierTypes, AtFile, AtCopy, Looked, Walking
  <1>1. CASE Restart
    <2>1. /\ UNCHANGED <<tool, src, ref, changes>> /\ pc' = "prefill"
          /\ cur' = NoFile /\ s' = NoFile /\ hashes' = {} /\ fnvs' = {}
          /\ found' = [p \in Paths |-> NoFile] /\ before' = dst'
          /\ runs' \in 1 .. MaxRuns
      BY <1>1 DEF Restart
    <2>2. dst' \in [Paths -> Files \cup {NoFile}]
      BY <1>1 DEF Restart
    <2>3. todo' = Present(Reference)' /\ todo' \subseteq Paths
      BY <1>1, <2>1 DEF Restart, Reference, Present
    <2> QED
      BY <2>1, <2>2, <2>3 DEF NothingOverwritten, New
  <1>2. ASSUME NEW p \in Paths, Change(p) PROVE Places'
    <2>1. UNCHANGED <<tool, ref, dst, pc, todo, cur, s, hashes, fnvs, runs, found, before>>
          /\ changes' = changes + 1 /\ changes' \in 0 .. MaxChanges /\ changes' # 0
      BY <1>2 DEF Change, tables, history
    <2>2. PICK x \in Contents : src' = [src EXCEPT ![p] = x] /\ src[p] \in Contents
      BY <1>2 DEF Change
    <2>3. /\ src' \in [Paths -> Contents \cup {Empty, NoFile}]
          /\ \A r \in Paths : (src'[r] \in Contents) <=> (src[r] \in Contents)
          /\ \A r \in Paths : (src'[r] # NoFile) <=> (src[r] # NoFile)
      BY <2>2
    <2>4. Present(src') = Present(src) /\ Present(Reference') = Present(Reference)
      <3>1. Reference' = Reference
        BY <2>1 DEF Reference
      <3> QED
        BY <2>3, <3>1 DEF Present
    <2>5. CopierTypes'
      BY <2>1, <2>3
    <2>6. AtFile'
      BY <2>1, <2>3, <2>4
    <2>7. AtCopy' /\ NothingOverwritten'
      BY <2>1 DEF NothingOverwritten, New
    <2> QED
      BY <2>5, <2>6, <2>7
  <1> QED
    BY <1>1, <1>2

LEMMA StepPlaces == Places /\ [Next]_vars => Places'
  <1> SUFFICES ASSUME Places, [Next]_vars PROVE Places'
    OBVIOUS
  <1>1. CASE UNCHANGED vars
    BY <1>1 DEF Places, CopierTypes, AtFile, AtCopy, Looked, Walking, NothingOverwritten, New, Present,
                Reference, vars, trees, tables, history
  <1> QED
    BY <1>1, PrefillPlaces, LookupPlaces, CopyPlaces, WorldPlaces DEF Next, Run, cb

--------------------------------------------------------------------------------
\* What has been counted: the files that are left are still to be counted, each
\* counted file was put into one class, and the unique ones are the new ones.
Counts ==
  /\ count \in [DOMAIN NoCounts -> Nat]
  /\ pc = "prefill" => count = NoCounts
  /\ pc # "prefill" => count.nFiles + Cardinality(todo) <= Cardinality(Paths)
  /\ count.nDuplicates + count.nUnique + count.nDisaster <= count.nFiles
  /\ Walking =>
       /\ count.nDisaster = 0
       /\ count.nFiles = count.nDuplicates + count.nUnique
                         + (IF pc \in {"known", "unique"} THEN 1 ELSE 0)
       /\ count.nUnique = Cardinality(New) + (IF pc = "create" THEN 1 ELSE 0)

LEMMA Counters == DOMAIN NoCounts = {"nFiles", "nDuplicates", "nUnique", "nDisaster"}
  BY DEF NoCounts

LEMMA Finite ==
  /\ Cardinality(Paths) \in Nat
  /\ \A S \in SUBSET Paths : /\ IsFiniteSet(S) /\ Cardinality(S) \in Nat
                            /\ Cardinality(S) <= Cardinality(Paths)
  BY CpHashAssumption, FS_Subset, FS_CardinalityType

LEMMA InitCounts == Init => Counts
  BY Counters DEF Init, Counts, Walking, Looked, NoCounts

LEMMA LookupCounts ==
  ASSUME Places, Counts, (\E p \in Paths : Hash(p)) \/ Known \/ Unique \/ CopyFails \/ Finish
  PROVE  Counts'
  <1> USE Counters, Finite DEF Counts, Walking, Looked
  <1>0. /\ UNCHANGED <<dst, before>> /\ todo \subseteq Paths /\ New \subseteq Paths
        /\ pc # "prefill"
    BY DEF Hash, Known, Unique, CopyFails, Finish, trees, tables, history, New, Places, CopierTypes
  <1>1. New' = New
    BY <1>0 DEF New
  <1>2. ASSUME NEW p \in Paths, Hash(p) PROVE Counts'
    <2>1. todo' = todo \ {p} /\ p \in todo /\ pc = "walk"
      BY <1>2 DEF Hash
    <2>2. Cardinality(todo') = Cardinality(todo) - 1 /\ Cardinality(todo) \in Nat
      BY <1>0, <2>1, FS_RemoveElement
    <2>3. CASE Skipped(src[p])
      BY <1>0, <1>1, <1>2, <2>1, <2>2, <2>3 DEF Hash
    <2>4. CASE ~Skipped(src[p])
      <3>1. count' = [count EXCEPT !.nFiles = @ + 1] /\ pc' \in {"known", "unique"}
        BY <1>2, <2>4 DEF Hash
      <3> QED
        BY <1>0, <1>1, <2>1, <2>2, <3>1
    <2> QED
      BY <2>3, <2>4
  <1>3. CASE Known
    <2>1. todo' = todo /\ Cardinality(todo) \in Nat /\ Cardinality(New) \in Nat /\ pc = "known"
      BY <1>0, <1>3 DEF Known
    <2>2. \/ pc' = "failed" /\ count' = [count EXCEPT !.nDisaster = @ + 1]
          \/ pc' = "walk" /\ count' = [count EXCEPT !.nDuplicates = @ + 1]
      BY <1>3 DEF Known
    <2> QED
      BY <1>1, <2>1, <2>2
  <1>4. CASE Unique
    <2>1. todo' = todo /\ Cardinality(todo) \in Nat /\ Cardinality(New) \in Nat
          /\ pc = "unique" /\ pc' = "create" /\ count' = [count EXCEPT !.nUnique = @ + 1]
      BY <1>0, <1>4 DEF Unique
    <2> QED
      BY <1>1, <2>1
  <1>5. CASE CopyFails \/ Finish
    BY <1>1, <1>5 DEF CopyFails, Finish, tables, WalkEnds
  <1> QED
    BY <1>2, <1>3, <1>4, <1>5

LEMMA CopyCounts ==
  ASSUME Places, Counts, Create \/ Write \/ Verify
  PROVE  Counts'
  <1> USE Counters, Finite DEF Counts, Walking, Looked
  <1>0. /\ UNCHANGED <<before, todo, count>> /\ todo \subseteq Paths /\ New \subseteq Paths
        /\ cur \in Paths /\ dst \in [Paths -> Files \cup {NoFile}]
        /\ Cardinality(todo) \in Nat /\ Cardinality(New) \in Nat
    BY DEF Create, Write, Verify, trees, tables, history, New, Places, CopierTypes, AtFile
  <1>1. CASE Create /\ Refused
    BY <1>0, <1>1 DEF Create, WalkEnds
  <1>2. CASE Create /\ ~Refused
    <2>1. /\ pc = "create" /\ pc' = "write" /\ dst' = [dst EXCEPT ![cur] = Empty]
          /\ dst[cur] = NoFile /\ before[cur] = NoFile
      BY <1>0, <1>2 DEF Create, Refused, Places, NothingOverwritten, New
    <2>2. cur \notin New /\ New' = New \cup {cur}
      BY <1>0, <2>1, HashFacts DEF New
    <2>3. Cardinality(New') = Cardinality(New) + 1
      BY <1>0, <2>2, FS_AddElement
    <2> QED
      BY <1>0, <2>1, <2>3
  <1>3. CASE Write
    <2>1. PICK x \in Files : dst' = [dst EXCEPT ![cur] = x]
      BY <1>0, <1>3, HashFacts DEF Write, Places, AtFile, Looked
    <2>2. dst[cur] # NoFile /\ before[cur] = NoFile /\ x # NoFile
      BY <1>3, HashFacts DEF Write, Places, AtCopy
    <2>3. New' = New
      BY <1>0, <2>1, <2>2 DEF New
    <2> QED
      BY <1>0, <1>3, <2>3 DEF Write, WalkEnds
  <1>4. CASE Verify
    <2>1. New' = New
      BY <1>4 DEF Verify, trees, history, New
    <2> QED
      BY <1>0, <1>4, <2>1 DEF Verify, WalkEnds
  <1> QED
    BY <1>1, <1>2, <1>3, <1>4

LEMMA OtherCounts ==
  ASSUME Places, Counts,
         (\E p \in Paths : prefill(p) \/ Change(p)) \/ Prefilled \/ Restart \/ UNCHANGED vars
  PROVE  Counts'
  <1> USE Counters, Finite DEF Counts, Walking, Looked
  <1>1. ASSUME NEW p \in Paths, prefill(p) PROVE Counts'
    BY <1>1 DEF prefill
  <1>2. CASE Prefilled
    <2>1. pc = "prefill" /\ pc' = "walk" /\ count' = NoCounts /\ todo' = Present(src)
          /\ dst' = before'
      BY <1>2 DEF Prefilled, tables, trees, history, Places, AtFile
    <2>2. New' = {} /\ Cardinality(New') = 0
      BY <2>1, FS_EmptySet DEF New
    <2>3. Cardinality(todo') \in Nat /\ Cardinality(todo') <= Cardinality(Paths)
      BY <2>1 DEF Present
    <2> QED
      BY <2>1, <2>2, <2>3 DEF NoCounts
  <1>3. CASE Restart
    BY <1>3 DEF Restart, NoCounts
  <1>4. CASE (\E p \in Paths : Change(p)) \/ UNCHANGED vars
    BY <1>4 DEF Change, tables, history, vars, trees, New
  <1> QED
    BY <1>1, <1>2, <1>3, <1>4

LEMMA StepCounts == Places /\ Counts /\ [Next]_vars => Counts'
  BY LookupCounts, CopyCounts, OtherCounts DEF Next, Run, cb

--------------------------------------------------------------------------------
\* The copy of q is made but not verified, and is in the tree that is compared to.
Unverified(q) == tool = "cphash" /\ pc = "verify" /\ q = cur

\* hashes holds the hashes of the reference, that of the file being copied, and
\* nothing else.
InReference(h) == \E q \in Paths : Full(Reference[q]) /\ md5sum(Reference[q]) = h
HashesTrue ==
  /\ pc = "prefill" \/ Walking =>
       \A h \in hashes : InReference(h) \/ (Busy /\ tool = "cphash" /\ h = s)
  /\ Walking =>
       \A q \in Paths : Full(Reference[q]) /\ ~Unverified(q) => md5sum(Reference[q]) \in hashes
  /\ pc = "known" \/ (Busy /\ tool = "cphash") => s \in hashes

\* Both tables hold the hashes of what was in the reference from the beginning.
BothKnown(x) == md5sum(x) \in hashes /\ fnvpath(x) \in fnvs
FirstKnown ==
  /\ pc = "prefill" =>
       \A q \in Paths \ todo : Full(Reference[q]) => BothKnown(Reference[q])
  /\ Walking /\ tool = "cphash" => \A q \in Paths : Full(before[q]) => BothKnown(before[q])

\* The file being copied is nowhere in the reference yet.
Fresh ==
  Busy => \A q \in Paths : Full(Reference[q]) /\ ~Unverified(q) => md5sum(Reference[q]) # s

\* What the run has made is complete and, once it is verified, there only once.
InCopy(p) == pc \in {"write", "verify"} /\ p = cur
NewOnce ==
  Walking =>
    \A p \in New :
      /\ dst[p] \in Contents \/ (pc = "write" /\ p = cur)
      /\ \A q \in Paths :
           /\ p # q \/ tool = "cpex"
           /\ ~InCopy(p) /\ ~(InCopy(q) /\ tool = "cphash")
           => Reference[q] # dst[p]

Tables == HashesTrue /\ FirstKnown /\ Fresh /\ NewOnce

LEMMA InitTables == Init => Tables
  BY DEF Init, Tables, HashesTrue, FirstKnown, Fresh, NewOnce, Walking, Looked, Busy, Full,
         Present

LEMMA PrefillTables ==
  ASSUME Places, Tables, (\E p \in Paths : prefill(p)) \/ Prefilled
  PROVE  Tables'
  <1> USE DEF Tables, HashesTrue, InReference, FirstKnown, Fresh, NewOnce, Walking, Looked, Busy,
              BothKnown
  <1>0. Reference' = Reference /\ pc = "prefill"
    BY DEF prefill, Prefilled, trees, Reference
  <1>1. ASSUME NEW p \in Paths, prefill(p) PROVE Tables'
    <2>1. pc' = "prefill" /\ p \in todo /\ todo' = todo \ {p} /\ Reference[p] # NoFile
      BY <1>1 DEF prefill, Places, AtFile, Present
    <2>2. CASE Skipped(Reference[p])
      BY <1>0, <1>1, <2>1, <2>2 DEF prefill, Skipped, Full
    <2>3. CASE ~Skipped(Reference[p])
      <3>1. /\ hashes' = hashes \cup {md5sum(Reference[p])}
            /\ fnvs' = fnvs \cup {fnvpath(Reference[p])} /\ Full(Reference[p])
        BY <1>1, <2>1, <2>3 DEF prefill, Skipped, Full
      <3> QED
        BY <1>0, <2>1, <3>1
    <2> QED
      BY <2>2, <2>3
  <1>2. CASE Prefilled
    <2>1. /\ UNCHANGED <<tool, dst, before, hashes, fnvs>> /\ pc' = "walk" /\ todo = {}
          /\ dst = before
      BY <1>2 DEF Prefilled, trees, tables, history, Places, AtFile
    <2>2. New' = {}
      BY <2>1 DEF New
    <2>3. tool = "cphash" => Reference = before
      BY <2>1 DEF Reference
    <2> QED
      BY <1>0, <2>1, <2>2, <2>3 DEF Unverified
  <1> QED
    BY <1>1, <1>2

LEMMA LookupTables ==
  ASSUME Places, Tables, (\E p \in Paths : Hash(p)) \/ Known \/ Unique \/ CopyFails \/ Finish
  PROVE  Tables'
  <1> USE DEF Tables, HashesTrue, InReference, FirstKnown, Fresh, NewOnce, Walking, Looked, Busy,
              BothKnown, Unverified, InCopy
  <1>0. /\ UNCHANGED <<tool, dst, before>> /\ Reference' = Reference /\ New' = New
        /\ pc # "prefill"
    BY DEF Hash, Known, Unique, CopyFails, Finish, trees, history, Reference, New
  <1>1. ASSUME NEW p \in Paths, Hash(p) PROVE Tables'
    <2>1. pc = "walk" /\ fnvs' = fnvs
      BY <1>1 DEF Hash
    <2>2. CASE Skipped(src[p])
      BY <1>0, <1>1, <2>1, <2>2 DEF Hash
    <2>3. CASE ~Skipped(src[p])
      <3>1. \/ s' \in hashes /\ pc' = "known" /\ hashes' = hashes
            \/ s' \notin hashes /\ pc' = "unique" /\ hashes' = hashes \cup Remembered(s')
        BY <1>1, <2>3 DEF Hash
      <3>2. HashesTrue'
        BY <1>0, <2>1, <3>1 DEF Remembered
      <3>3. FirstKnown' /\ Fresh' /\ NewOnce'
        BY <1>0, <2>1, <3>1 DEF Remembered
      <3> QED
        BY <3>2, <3>3
    <2> QED
      BY <2>2, <2>3
  <1>2. CASE Known \/ Unique \/ CopyFails \/ Finish
    <2>1. /\ UNCHANGED <<hashes, s, cur>> /\ fnvs \subseteq fnvs'
          /\ \/ pc = "known" /\ pc' \in {"walk", "failed"}
             \/ pc = "unique" /\ pc' = "create"
             \/ pc = "create" /\ pc' = "failed"
             \/ pc = "walk" /\ pc' = "done"
      BY <1>2 DEF Known, Unique, CopyFails, Finish, WalkEnds, tables
    <2> QED
      BY <1>0, <2>1
  <1> QED
    BY <1>1, <1>2

\* What is in the reference stays there when full files are kept.
LEMMA ReferenceKept ==
  ASSUME \A q \in Paths : Full(Reference[q]) => Reference'[q] = Reference[q],
         NEW h, InReference(h)
  PROVE  InReference(h)'
  BY DEF InReference, Full

\* A copy is made where nothing full was, so what the tables say stays true; it is
\* counted in when it is verified.
LEMMA CopyTables ==
  ASSUME Places, Tables, Create \/ Write \/ Verify
  PROVE  Tables'
  <1> USE DEF Tables, Walking, Looked, Busy
  <1>0. /\ UNCHANGED <<tool, ref, cur, s, hashes, fnvs, before>>
        /\ cur \in Paths /\ dst \in [Paths -> Files \cup {NoFile}] /\ src[cur] \in Contents
        /\ pc # "prefill" /\ s \in Contents
    BY HashFacts DEF Create, Write, Verify, trees, tables, history, Places, CopierTypes, AtFile
  <1>1. CASE pc' = "failed"
    BY <1>1 DEF HashesTrue, FirstKnown, Fresh, NewOnce
  <1>2. CASE Create /\ ~Refused
    <2>1. /\ pc = "create" /\ pc' = "write" /\ dst' = [dst EXCEPT ![cur] = Empty]
          /\ dst[cur] = NoFile /\ before[cur] = NoFile
      BY <1>0, <1>2 DEF Create, Refused, Places, NothingOverwritten, New
    <2>2. \A q \in Paths : /\ Full(Reference'[q]) => Full(Reference[q])
                           /\ Full(Reference[q]) => Reference'[q] = Reference[q]
      BY <1>0, <2>1 DEF Full, Reference
    <2>3. HashesTrue'
      BY <1>0, <2>1, <2>2, ReferenceKept DEF HashesTrue, Unverified
    <2>4. FirstKnown' /\ Fresh'
      BY <1>0, <2>1, <2>2 DEF FirstKnown, BothKnown, Fresh, Unverified
    <2>5. \A p \in New' : p = cur \/ (p \in New /\ dst'[p] = dst[p])
      BY <1>0, <2>1 DEF New
    <2>6. \A q \in Paths : Reference'[q] = Reference[q] \/ (q = cur /\ tool = "cphash")
      BY <1>0, <2>1 DEF Reference
    <2>7. NewOnce'
      BY <1>0, <2>1, <2>5, <2>6 DEF NewOnce, InCopy
    <2> QED
      BY <2>3, <2>4, <2>7
  <1>3. CASE Write /\ pc' = "verify"
    <2>1. /\ pc = "write" /\ dst' = [dst EXCEPT ![cur] = src[cur]]
          /\ dst[cur] = Empty /\ before[cur] = NoFile
      BY <1>3 DEF Write, WalkEnds, Places, AtCopy
    <2>2. \A q \in Paths : /\ Reference'[q] = Reference[q] \/ (q = cur /\ tool = "cphash")
                           /\ Full(Reference[q]) => Reference'[q] = Reference[q]
      BY <1>0, <2>1 DEF Full, Reference
    <2>3. HashesTrue'
      BY <1>0, <1>3, <2>1, <2>2, ReferenceKept DEF HashesTrue, Unverified
    <2>4. FirstKnown' /\ Fresh'
      BY <1>0, <1>3, <2>1, <2>2 DEF FirstKnown, BothKnown, Fresh, Unverified
    <2>5. dst'[cur] \in Contents /\ \A p \in New' : p = cur \/ (p \in New /\ dst'[p] = dst[p])
      BY <1>0, <2>1 DEF New
    <2>6. NewOnce'
      BY <1>0, <1>3, <2>1, <2>2, <2>5 DEF NewOnce, InCopy
    <2> QED
      BY <2>3, <2>4, <2>6
  <1>4. CASE Verify /\ pc' = "walk"
    <2>1. /\ pc = "verify" /\ dst' = dst /\ md5sum(dst[cur]) = s /\ dst[cur] \in Contents
          /\ Reference' = Reference /\ New' = New
      BY <1>4 DEF Verify, WalkEnds, Places, AtCopy, trees, history, Reference, New
    <2>2. Full(dst[cur]) /\ \A x : x \in Contents => Full(x)
      BY <2>1, HashFacts DEF Full
    <2>3. tool = "cphash" => Reference[cur] = dst[cur] /\ s \in hashes
      BY <2>1 DEF Reference, HashesTrue
    <2>4. HashesTrue'
      <3>1. tool = "cphash" => InReference(s)
        BY <1>0, <2>1, <2>2, <2>3 DEF InReference
      <3>2. \A h \in hashes : InReference(h)
        BY <2>1, <3>1 DEF HashesTrue
      <3>3. \A q \in Paths : Full(Reference[q]) => md5sum(Reference[q]) \in hashes
        BY <2>1, <2>3 DEF HashesTrue, Unverified
      <3> QED
        BY <1>0, <1>4, <2>1, <3>2, <3>3 DEF HashesTrue, InReference
    <2>5. FirstKnown' /\ Fresh'
      BY <1>0, <1>4, <2>1 DEF FirstKnown, BothKnown, Fresh
    <2>6. ASSUME NEW p \in New, NEW q \in Paths, p # q \/ tool = "cpex"
          PROVE  Reference[q] # dst[p]
      <3>1. p \in Paths /\ dst[p] \in Contents
        BY <2>1 DEF NewOnce, New
      <3>2. CASE p = cur
        <4>1. Full(Reference[q]) => md5sum(Reference[q]) # s
          BY <2>1, <2>6, <3>2 DEF Fresh, Unverified
        <4> QED
          BY <2>1, <2>2, <3>2, <4>1
      <3>3. CASE p # cur /\ q = cur /\ tool = "cphash"
        <4>1. Reference[p] = dst[p] /\ Full(dst[p])
          BY <2>2, <3>1, <3>3 DEF Reference
        <4>2. md5sum(dst[p]) # s
          BY <2>1, <3>1, <3>3, <4>1 DEF Fresh, Unverified
        <4> QED
          BY <2>1, <2>3, <3>3, <4>2
      <3>4. CASE p # cur /\ ~(q = cur /\ tool = "cphash")
        BY <2>1, <2>6, <3>4 DEF NewOnce, InCopy
      <3> QED
        BY <3>2, <3>3, <3>4
    <2>7. \A p \in New : dst[p] \in Contents
      BY <2>1 DEF NewOnce
    <2>8. NewOnce'
      BY <1>0, <1>4, <2>1, <2>6, <2>7 DEF NewOnce
    <2> QED
      BY <2>4, <2>5, <2>8
  <1> QED
    BY <1>1, <1>2, <1>3, <1>4 DEF Create, Write, Verify, WalkEnds

LEMMA WorldTables ==
  ASSUME Places, Tables, Restart \/ (\E p \in Paths : Change(p)) \/ UNCHANGED vars
  PROVE  Tables'
  <1> USE DEF Tables, HashesTrue, InReference, FirstKnown, Fresh, NewOnce, Walking, Looked, Busy,
              BothKnown
  <1>1. CASE Restart
    <2>1. pc' = "prefill" /\ hashes' = {} /\ todo' = {p \in Paths : Reference'[p] # NoFile}
      BY <1>1 DEF Restart, Present, Reference
    <2> QED
      BY <2>1 DEF Full
  <1>2. CASE (\E p \in Paths : Change(p)) \/ UNCHANGED vars
    <2>1. /\ UNCHANGED <<tool, dst, pc, todo, cur, s, hashes, fnvs, before>>
          /\ Reference' = Reference /\ New' = New
      BY <1>2 DEF Change, tables, history, vars, trees, Reference, New
    <2> QED
      BY <2>1 DEF Unverified, InCopy
  <1> QED
    BY <1>1, <1>2

LEMMA StepTables == Places /\ Tables /\ [Next]_vars => Tables'
  BY PrefillTables, LookupTables, CopyTables, WorldTables DEF Next, Run, cb

--------------------------------------------------------------------------------
\* cphash on a destination that held every content of the source when it was started.
AllThere ==
  /\ tool = "cphash" /\ changes = 0
  /\ \A p \in Paths : src[p] \in Contents => \E q \in Paths : before[q] = src[p]

\* It finds every file known, with both hashes.
Rerun ==
  AllThere => pc \in {"prefill", "walk", "known", "done"} /\ New = {} /\ count.nUnique = 0

LEMMA InitRerun == Init => Rerun
  BY DEF Init, Rerun, New, NoCounts

LEMMA StepRerun ==
  ASSUME Places, Counts, Tables, Rerun, [Next]_vars
  PROVE  Rerun'
  <1> USE HashFacts, Counters DEF Rerun
  <1>1. CASE Restart
    BY <1>1 DEF Restart, New, NoCounts
  <1>2. ASSUME NEW p \in Paths, Change(p) PROVE Rerun'
    BY <1>2 DEF Change, AllThere, Places, CopierTypes
  <1>3. CASE Run \/ UNCHANGED vars
    <2>1. UNCHANGED <<tool, src, before, changes>>
      BY <1>3 DEF Run, cb, prefill, Prefilled, Hash, Known, Unique, Create, Write, Verify,
                  CopyFails, Finish, trees, tables, history, vars
    <2> SUFFICES ASSUME AllThere
                 PROVE  pc' \in {"prefill", "walk", "known", "done"} /\ New' = {}
                        /\ count'.nUnique = 0
      BY <2>1 DEF AllThere
    <2>2. pc \in {"prefill", "walk", "known", "done"} /\ New = {} /\ count.nUnique = 0
      OBVIOUS
    <2>3. ASSUME NEW p \in Paths, src[p] \in Contents, pc \in {"walk", "known"}
          PROVE  BothKnown(src[p])
      <3>1. PICK q \in Paths : before[q] = src[p]
        BY <2>3 DEF AllThere
      <3>2. Full(before[q])
        BY <2>3, <3>1 DEF Full
      <3> QED
        BY <2>3, <3>1, <3>2 DEF AllThere, Tables, FirstKnown, Walking, Looked
    <2>4. dst' = dst => New' = {}
      BY <2>1, <2>2 DEF New
    <2>5. CASE \/ (\E p \in Paths : prefill(p)) \/ Prefilled \/ Finish \/ UNCHANGED vars
      BY <2>2, <2>4, <2>5 DEF prefill, Prefilled, Finish, trees, tables, vars
    <2>6. ASSUME NEW p \in Paths, Hash(p)
          PROVE  pc' \in {"prefill", "walk", "known", "done"} /\ New' = {}
                 /\ count'.nUnique = 0
      <3>1. dst' = dst /\ pc = "walk" /\ p \in todo
        BY <2>6 DEF Hash, trees
      <3>2. CASE Skipped(src[p])
        BY <2>2, <2>4, <2>6, <3>1, <3>2 DEF Hash
      <3>3. CASE ~Skipped(src[p])
        <4>1. src[p] \in Contents
          BY <3>1, <3>3 DEF Skipped, Places, CopierTypes, AtFile, Present
        <4>2. s' \in hashes
          BY <2>3, <2>6, <3>1, <3>3, <4>1 DEF Hash, BothKnown
        <4>3. pc' = "known" /\ count' = [count EXCEPT !.nFiles = @ + 1]
          BY <2>6, <3>3, <4>2 DEF Hash
        <4> QED
          BY <2>2, <2>4, <3>1, <4>3 DEF Counts
      <3> QED
        BY <3>2, <3>3
    <2>7. CASE Known
      <3>1. fnvpath(src[cur]) \in fnvs
        BY <2>3, <2>7 DEF Known, BothKnown, Places, AtFile, Looked
      <3>2. dst' = dst /\ pc' = "walk" /\ count' = [count EXCEPT !.nDuplicates = @ + 1]
        BY <2>7, <3>1 DEF Known, Collides, trees
      <3> QED
        BY <2>2, <2>4, <3>2 DEF Counts
    <2>8. ~(Unique \/ Create \/ Write \/ Verify \/ CopyFails)
      BY <2>2 DEF Unique, Create, Write, Verify, CopyFails
    <2> QED
      BY <1>3, <2>5, <2>6, <2>7, <2>8 DEF Run, cb
  <1> QED
    BY <1>1, <1>2, <1>3 DEF Next

--------------------------------------------------------------------------------
\* The second hash tells contents apart.
FnvTells == \A x, y \in Contents : Fnv[x] = Fnv[y] => x = y

\* What MD5 saw of p is stored.
StoredAs(p) ==
  \E q \in Paths, t \in {dst, Reference} :
    md5sum(t[q]) = md5sum(found[p]) /\ (changes = 0 => t[q] = found[p])

\* While nobody writes to the source, fnvs too holds hashes of the reference and of the
\* file being copied only; what was seen is stored, but for the file being looked up.
FnvsTrue ==
  changes = 0 /\ (pc = "prefill" \/ Walking) =>
    \A h \in fnvs :
      \/ \E q \in Paths : Full(Reference[q]) /\ fnvpath(Reference[q]) = h
      \/ pc \in {"create", "write", "verify"} /\ tool = "cphash" /\ h = fnvpath(src[cur])
AllStored ==
  Walking => \A p \in Paths : found[p] # NoFile => StoredAs(p) \/ (Looked /\ p = cur)
Stored == FnvsTrue /\ AllStored

LEMMA InitStored == Init => Stored
  BY DEF Init, Stored, FnvsTrue, AllStored, Walking, Looked

LEMMA PrefillStored ==
  ASSUME Places, Stored, (\E p \in Paths : prefill(p)) \/ Prefilled
  PROVE  Stored'
  <1> USE DEF Stored, FnvsTrue, AllStored, Walking, Looked
  <1>0. /\ UNCHANGED <<changes, src, cur, found>> /\ Reference' = Reference
        /\ pc = "prefill" /\ \A p \in Paths : found[p] = NoFile
    BY DEF prefill, Prefilled, trees, Reference, history, Places, AtFile
  <1>1. ASSUME NEW p \in Paths, prefill(p) PROVE Stored'
    <2>1. pc' = "prefill" /\ p \in todo /\ Reference[p] # NoFile
      BY <1>1 DEF prefill, Places, AtFile, Present
    <2>2. CASE Skipped(Reference[p])
      BY <1>0, <1>1, <2>1, <2>2 DEF prefill
    <2>3. CASE ~Skipped(Reference[p])
      <3>1. fnvs' = fnvs \cup {fnvpath(Reference[p])} /\ Full(Reference[p])
        BY <1>1, <2>1, <2>3 DEF prefill, Skipped, Full
      <3> QED
        BY <1>0, <2>1, <3>1
    <2> QED
      BY <2>2, <2>3
  <1>2. CASE Prefilled
    BY <1>0, <1>2 DEF Prefilled, tables
  <1> QED
    BY <1>1, <1>2

LEMMA LookupStored ==
  ASSUME FnvTells, Places, Tables, Stored,
         (\E p \in Paths : Hash(p)) \/ Known \/ Unique \/ CopyFails \/ Finish
  PROVE  Stored'
  <1> USE DEF Stored, FnvsTrue, AllStored, Walking, Looked
  <1>0. /\ UNCHANGED <<tool, src, dst, changes>> /\ Reference' = Reference
    BY DEF Hash, Known, Unique, CopyFails, Finish, trees, history, Reference
  <1>1. ASSUME NEW p \in Paths, Hash(p) PROVE Stored'
    <2>1. pc = "walk" /\ fnvs' = fnvs
      BY <1>1 DEF Hash
    <2>2. CASE Skipped(src[p])
      <3>1. UNCHANGED <<pc, cur, found>>
        BY <1>1, <2>2 DEF Hash
      <3> QED
        BY <1>0, <2>1, <3>1 DEF StoredAs
    <2>3. CASE ~Skipped(src[p])
      <3>1. cur' = p /\ found' = [found EXCEPT ![p] = src[p]] /\ pc' \in {"known", "unique"}
        BY <1>1, <2>3 DEF Hash
      <3>2. \A r \in Paths : r # p => found'[r] = found[r]
        BY <3>1 DEF Places, CopierTypes
      <3>3. AllStored'
        BY <1>0, <2>1, <3>1, <3>2 DEF StoredAs
      <3> QED
        BY <1>0, <2>1, <3>1, <3>3
    <2> QED
      BY <2>2, <2>3
  <1>2. CASE Known
    <2>1. /\ UNCHANGED <<cur, found, fnvs>> /\ pc = "known" /\ cur \in Paths
          /\ src[cur] \in Contents /\ found[cur] \in Contents /\ s = md5sum(found[cur])
      BY <1>2 DEF Known, history, Places, AtFile
    <2>2. CASE pc' = "failed"
      BY <2>2
    <2>3. CASE pc' = "walk"
      <3>1. fnvpath(src[cur]) \in fnvs
        BY <1>2, <2>3 DEF Known, Collides
      <3>2. InReference(s)
        BY <2>1 DEF Tables, HashesTrue, Busy
      <3>3. ASSUME changes = 0
            PROVE  \E q \in Paths : Reference[q] = found[cur]
        <4>1. PICK q \in Paths : fnvpath(Reference[q]) = fnvpath(src[cur])
          BY <2>1, <3>1, <3>3
        <4>2. Reference[q] \in Contents
          BY <2>1, <4>1, HashFacts
        <4>3. Reference[q] = src[cur]
          BY <2>1, <4>1, <4>2 DEF FnvTells, fnvpath
        <4> QED
          BY <2>1, <3>3, <4>3 DEF Places, AtFile
      <3>4. StoredAs(cur)'
        BY <1>0, <2>1, <3>2, <3>3 DEF StoredAs, InReference
      <3>5. AllStored'
        BY <1>0, <2>1, <2>3, <3>4 DEF StoredAs
      <3> QED
        BY <1>0, <2>1, <2>3, <3>5
    <2> QED
      BY <1>2, <2>2, <2>3 DEF Known
  <1>3. CASE Unique
    <2>1. /\ UNCHANGED <<cur, found>> /\ pc = "unique" /\ pc' = "create"
          /\ fnvs' = fnvs \cup Remembered(fnvpath(src[cur]))
      BY <1>3 DEF Unique, history
    <2>2. AllStored'
      BY <1>0, <2>1 DEF StoredAs
    <2> QED
      BY <1>0, <2>1, <2>2 DEF Remembered
  <1>4. CASE CopyFails \/ Finish
    <2>1. /\ UNCHANGED <<cur, found, fnvs>>
          /\ pc' = "failed" \/ (pc = "walk" /\ pc' = "done")
      BY <1>4 DEF CopyFails, Finish, WalkEnds, tables, history
    <2> QED
      BY <1>0, <2>1 DEF StoredAs
  <1> QED
    BY <1>1, <1>2, <1>3, <1>4

\* Making a copy leaves what is stored where it is.
LEMMA StoredKept ==
  ASSUME Places, NEW p \in Paths, found[p] \in Contents, StoredAs(p), found' = found,
         changes' = changes,
         \A q \in Paths : Full(dst[q]) => dst'[q] = dst[q],
         \A q \in Paths : Full(Reference[q]) => Reference'[q] = Reference[q]
  PROVE  StoredAs(p)'
  <1>1. PICK q \in Paths, t \in {dst, Reference} :
          md5sum(t[q]) = md5sum(found[p]) /\ (changes = 0 => t[q] = found[p])
    BY DEF StoredAs
  <1>2. Full(t[q])
    BY <1>1, HashFacts DEF Full
  <1>3. dst'[q] = t[q] \/ Reference'[q] = t[q]
    BY <1>1, <1>2
  <1> QED
    BY <1>1, <1>3 DEF StoredAs

LEMMA CopyStored ==
  ASSUME Places, Stored, Create \/ Write \/ Verify
  PROVE  Stored'
  <1> USE DEF Stored, FnvsTrue, AllStored, Walking, Looked
  <1>0. /\ UNCHANGED <<tool, src, ref, cur, s, fnvs, changes, found>>
        /\ cur \in Paths /\ src[cur] \in Contents /\ s = md5sum(found[cur])
        /\ pc \in {"create", "write", "verify"}
        /\ \A p \in Paths : found[p] # NoFile => found[p] \in Contents
    BY DEF Create, Write, Verify, trees, tables, history, Places, AtFile, CopierTypes
  <1>1. CASE pc' = "failed"
    BY <1>1
  <1>2. CASE pc' \in {"write", "verify"}
    <2>1. PICK x : dst' = [dst EXCEPT ![cur] = x]
      BY <1>2 DEF Create, Write, Verify, WalkEnds
    <2>2. ~Full(dst[cur])
      BY <1>0, <1>2 DEF Create, Write, Verify, WalkEnds, Refused, Full, Places, AtCopy
    <2>3. \A q \in Paths : Full(dst[q]) => dst'[q] = dst[q]
      BY <2>1, <2>2 DEF Places, CopierTypes
    <2>4. \A q \in Paths : Full(Reference[q]) => Reference'[q] = Reference[q]
      BY <1>0, <2>3 DEF Reference
    <2>5. AllStored'
      BY <1>0, <1>2, <2>3, <2>4, StoredKept
    <2>6. FnvsTrue'
      BY <1>0, <1>2, <2>4 DEF Full
    <2> QED
      BY <2>5, <2>6
  <1>3. CASE Verify /\ pc' = "walk"
    <2>1. /\ pc = "verify" /\ dst' = dst /\ md5sum(dst[cur]) = s /\ dst[cur] \in Contents
          /\ Reference' = Reference /\ (changes = 0 => dst[cur] = src[cur] /\ found[cur] = src[cur])
      BY <1>0, <1>3, HashFacts DEF Verify, WalkEnds, Places, AtCopy, AtFile, trees, Reference
    <2>2. StoredAs(cur)'
      BY <1>0, <2>1 DEF StoredAs
    <2>3. AllStored'
      BY <1>0, <1>3, <2>1, <2>2 DEF StoredAs
    <2>4. changes = 0 /\ tool = "cphash" =>
            Full(Reference[cur]) /\ fnvpath(Reference[cur]) = fnvpath(src[cur])
      BY <1>0, <2>1, HashFacts DEF Full, Reference
    <2>5. FnvsTrue'
      BY <1>0, <1>3, <2>1, <2>4
    <2> QED
      BY <2>3, <2>5
  <1> QED
    BY <1>1, <1>2, <1>3 DEF Create, Write, Verify, WalkEnds

LEMMA WorldStored ==
  ASSUME Places, Stored, Restart \/ (\E p \in Paths : Change(p)) \/ UNCHANGED vars
  PROVE  Stored'
  <1> USE DEF Stored, FnvsTrue, AllStored, Walking, Looked
  <1>1. CASE Restart
    BY <1>1 DEF Restart
  <1>2. ASSUME NEW p \in Paths, Change(p) PROVE Stored'
    <2>1. /\ UNCHANGED <<tool, dst, pc, cur, found>> /\ Reference' = Reference
          /\ changes' # 0
      BY <1>2 DEF Change, tables, history, Reference, Places, CopierTypes
    <2> QED
      BY <2>1 DEF StoredAs
  <1>3. CASE UNCHANGED vars
    <2>1. /\ UNCHANGED <<tool, src, dst, pc, cur, found, fnvs, changes>>
          /\ Reference' = Reference
      BY <1>3 DEF vars, trees, tables, history, Reference
    <2> QED
      BY <2>1 DEF StoredAs
  <1> QED
    BY <1>1, <1>2, <1>3

LEMMA StepStored == FnvTells /\ Places /\ Tables /\ Stored /\ [Next]_vars => Stored'
  BY PrefillStored, LookupStored, CopyStored, WorldStored DEF Next, Run, cb

--------------------------------------------------------------------------------
\* The inductive invariant holds throughout, for any two hashes.
THEOREM CopierInvariance == Spec => [](Places /\ Counts /\ Tables /\ Rerun)
  <1> DEFINE IInv == Places /\ Counts /\ Tables /\ Rerun
  <1>1. Init => IInv
    BY InitPlaces, InitCounts, InitTables, InitRerun
  <1>2. IInv /\ [Next]_vars => IInv'
    BY StepPlaces, StepCounts, StepTables, StepRerun
  <1> QED
    BY <1>1, <1>2, PTL DEF Spec

\* The types, with every counter at most the number of paths.
THEOREM CopierTypeCorrect == Spec => []TypeOK
  <1>1. Places /\ Counts => TypeOK
    <2> SUFFICES ASSUME Places, Counts PROVE TypeOK
      OBVIOUS
    <2>1. todo \subseteq Paths
      BY DEF Places, CopierTypes
    <2>2. Cardinality(todo) \in Nat /\ Cardinality(Paths) \in Nat
      BY <2>1, Finite
    <2>3. \A k \in DOMAIN NoCounts : count[k] \in 0 .. Cardinality(Paths)
      BY <2>2, Counters DEF Counts, NoCounts
    <2>4. count \in [DOMAIN NoCounts -> 0 .. Cardinality(Paths)]
      BY <2>3 DEF Counts
    <2> QED
      BY <2>4 DEF Places, CopierTypes, TypeOK
  <1> QED
    BY <1>1, CopierInvariance, PTL

\* No run touches a file that was there when it began: a file is created only where there
\* was none, and written and verified only where it was created.
THEOREM NothingIsOverwritten == Spec => []NothingOverwritten
  <1>1. Places => NothingOverwritten
    BY DEF Places
  <1> QED
    BY <1>1, CopierInvariance, PTL

\* No verified copy is a second one, whatever MD5 collides with: a copy is made only if no
\* file of the reference has its MD5.
THEOREM CopiesAreSingle == Spec => []StoredOnce
  <1>1. Tables => StoredOnce
    BY DEF Tables, NewOnce, StoredOnce, Walking, InCopy
  <1> QED
    BY <1>1, CopierInvariance, PTL

\* What a run that ends well prints is what it did.
THEOREM ReportCorrect == Spec => []ReportTrue
  <1>1. Counts => ReportTrue
    <2>1. New \subseteq Paths
      BY DEF New
    <2>2. Cardinality(New) \in Nat
      BY <2>1, Finite
    <2> QED
      BY <2>2, Counters DEF Counts, ReportTrue, Walking
  <1> QED
    BY <1>1, CopierInvariance, PTL

\* cphash run on a destination that holds everything copies nothing and ends well.
THEOREM RerunCorrect == Spec => []RerunIsHarmless
  <1>1. Rerun => RerunIsHarmless
    BY DEF Rerun, AllThere, RerunIsHarmless
  <1> QED
    BY <1>1, CopierInvariance, PTL

\* Nothing is lost: whatever a run that ends well has hashed is stored, MD5 collisions or
\* not, when the second hash tells contents apart.
THEOREM NothingIsLost == FnvTells => (Spec => []EverythingStored)
  <1> SUFFICES ASSUME FnvTells PROVE Spec => []EverythingStored
    OBVIOUS
  <1> DEFINE SInv == Stored
  <1>1. Init => SInv
    BY InitStored
  <1>2. (Places /\ Counts /\ Tables /\ Rerun) /\ SInv /\ [Next]_vars => SInv'
    BY StepStored
  <1>3. (Places /\ Counts /\ Tables /\ Rerun) /\ SInv => EverythingStored
    BY HashFacts DEF Places, AtFile, Stored, AllStored, StoredAs, EverythingStored, Walking, Looked
  <1> QED
    BY <1>1, <1>2, <1>3, CopierInvariance, PTL DEF Spec

--------------------------------------------------------------------------------
(* FileCopy: cp_img, append and append0                                    *)

\* What is copied is equal up to pos, and nothing is there that was in neither file.
ImageSoFar ==
  program = "cp_img" =>
    /\ at # "copy" /\ Len(into) = Len(was)
    /\ \A i \in 1 .. Len(into) : into[i] = was[i] \/ (i <= Len(from) /\ into[i] = from[i])
    /\ at \in {"compare", "write"} =>
         /\ Len(into) = Len(from)
         /\ \A i \in 1 .. Len(into) : i <= pos => into[i] = from[i]
    /\ at = "write" => pos < Len(from)
    /\ at = "ended" /\ result = 0 => into = from

\* The old content stays; what is added begins at base, which in the first run is where
\* the old content ended.
OldKept ==
  program # "cp_img" =>
    /\ at \notin {"compare", "write"}
    /\ Len(was) <= Len(into) /\ \A i \in 1 .. Len(was) : into[i] = was[i]
    /\ at = "start" /\ starts = 1 => into = was
    /\ at = "copy" => /\ Len(was) <= base /\ base <= Len(into)
                      /\ starts = 1 => base = Len(was)
    /\ program = "append" /\ at = "copy" => Len(into) \in {base, base + Len(from)}
    /\ program = "append" /\ at = "ended" /\ result = 0 =>
         \E n \in Nat : /\ Len(was) <= n /\ Len(into) = n + Len(from)
                        /\ \A i \in 1 .. Len(from) : into[n + i] = from[i]
                        /\ starts = 1 => n = Len(was)

CopyTypeOK ==
  /\ program \in {"cp_img", "append", "append0"}
  /\ from \in Seq(Bytes) /\ into \in Seq(Bytes) /\ was \in Seq(Bytes)
  /\ at \in {"start", "compare", "write", "copy", "ended", "killed"}
  /\ base \in Nat /\ pos \in Nat /\ result \in {0, 1} /\ starts \in Nat \ {0}
  /\ at = "start" => pos = 0

CopyInv == CopyTypeOK /\ ImageSoFar /\ OldKept

\* The bytes that pread returns, and the file that pwrite leaves.
LEMMA PreadBytes ==
  ASSUME NEW f \in Seq(Bytes), NEW n \in Nat, NEW i \in Nat
  PROVE  /\ FC!pread(f, n, i) \in Seq(Bytes)
         /\ Len(FC!pread(f, n, i)) =
              IF i >= Len(f) THEN 0 ELSE IF i + n < Len(f) THEN n ELSE Len(f) - i
         /\ \A j \in 1 .. Len(FC!pread(f, n, i)) : FC!pread(f, n, i)[j] = f[i + j]
<1> DEFINE last == FC!Least(i + n, Len(f))
<1>1. last \in Nat /\ last <= Len(f) /\ last <= i + n /\ Len(f) \in Nat
      /\ (last = i + n \/ last = Len(f))
  BY DEF FC!Least
<1>2. CASE i + 1 <= last
  <2>1. /\ SubSeq(f, i + 1, last) \in Seq(Bytes)
        /\ Len(SubSeq(f, i + 1, last)) = IF i + 1 <= last THEN last - (i + 1) + 1 ELSE 0
        /\ \A j \in 1 .. last - (i + 1) + 1 : SubSeq(f, i + 1, last)[j] = f[(i + 1) + j - 1]
    <3>1. i + 1 \in 1 .. Len(f) + 1 /\ last \in (i + 1) - 1 .. Len(f)
      BY <1>1, <1>2
    <3> HIDE DEF last
    <3> QED BY <1>1, <3>1, SubSeqProperties
  <2> HIDE DEF last
  <2>2. Len(SubSeq(f, i + 1, last)) = last - i /\ \A j \in 1 .. last - i : SubSeq(f, i + 1, last)[j] = f[i + j]
    BY <1>1, <1>2, <2>1
  <2>3. FC!pread(f, n, i) = SubSeq(f, i + 1, last)
    BY DEF FC!pread, last
  <2>4. last - i = IF i >= Len(f) THEN 0 ELSE IF i + n < Len(f) THEN n ELSE Len(f) - i
    BY <1>1, <1>2 DEF last, FC!Least
  <2> QED BY <2>1, <2>2, <2>3, <2>4
<1>3. CASE ~(i + 1 <= last)
  <2>1. FC!pread(f, n, i) = << >>
    BY <1>1, <1>3 DEF FC!pread
  <2>2. 0 = IF i >= Len(f) THEN 0 ELSE IF i + n < Len(f) THEN n ELSE Len(f) - i
    BY <1>1, <1>3
  <2> QED BY <2>1, <2>2
<1> QED BY <1>2, <1>3

LEMMA PwriteBytes ==
  ASSUME NEW f \in Seq(Bytes), NEW bytes \in Seq(Bytes), NEW i \in Nat, 0 \in Bytes
  PROVE  /\ FC!pwrite(f, bytes, i) \in Seq(Bytes)
         /\ Len(FC!pwrite(f, bytes, i)) = IF i + Len(bytes) > Len(f) THEN i + Len(bytes) ELSE Len(f)
         /\ \A j \in 1 .. Len(bytes) : FC!pwrite(f, bytes, i)[i + j] = bytes[j]
         /\ \A j \in 1 .. Len(f) : j <= i \/ j > i + Len(bytes) => FC!pwrite(f, bytes, i)[j] = f[j]
<1> DEFINE n == IF i + Len(bytes) > Len(f) THEN i + Len(bytes) ELSE Len(f)
           w == FC!pwrite(f, bytes, i)
<1>1. n \in Nat /\ n >= Len(f) /\ n >= i + Len(bytes) /\ Len(bytes) \in Nat /\ Len(f) \in Nat
  OBVIOUS
<1>2. w = [j \in 1 .. n |->
             IF j > i /\ j <= i + Len(bytes) THEN bytes[j - i] ELSE IF j <= Len(f) THEN f[j] ELSE 0]
  BY DEF FC!pwrite
<1> HIDE DEF n, w
<1>3. ASSUME NEW j \in 1 .. n  PROVE w[j] \in Bytes
  <2>1. CASE j > i /\ j <= i + Len(bytes)
    <3>1. j - i \in 1 .. Len(bytes) /\ w[j] = bytes[j - i]
      BY <1>1, <1>2, <2>1
    <3> QED BY <3>1
  <2>2. CASE ~(j > i /\ j <= i + Len(bytes))
    BY <1>1, <1>2, <2>2
  <2> QED BY <2>1, <2>2
<1>4. w \in Seq(Bytes) /\ Len(w) = n
  BY <1>1, <1>2, <1>3
<1>5. ASSUME NEW j \in 1 .. Len(bytes)  PROVE w[i + j] = bytes[j]
  <2>1. i + j \in 1 .. n /\ i + j > i /\ i + j <= i + Len(bytes) /\ (i + j) - i = j
    BY <1>1
  <2> QED BY <1>2, <2>1
<1>6. ASSUME NEW j \in 1 .. Len(f), j <= i \/ j > i + Len(bytes)  PROVE w[j] = f[j]
  BY <1>1, <1>2, <1>6
<1> QED BY <1>4, <1>5, <1>6 DEF n, w

\* The next n bytes of the source written over the image: the rest stays.
LEMMA UnitWritten ==
  ASSUME FC!FileCopyAssumption, CopyTypeOK, Len(from) = Len(into),
         NEW n \in Nat, pos + n <= Len(from), NEW bytes \in Seq(Bytes), Len(bytes) = n,
         \A j \in 1 .. n : bytes[j] = from[pos + j]
  PROVE  LET w == FC!pwrite(into, bytes, pos) IN
         /\ w \in Seq(Bytes) /\ Len(w) = Len(into)
         /\ \A i \in 1 .. Len(into) : i <= pos \/ i > pos + n => w[i] = into[i]
         /\ \A i \in 1 .. Len(into) : i > pos /\ i <= pos + n => w[i] = from[i]
<1> DEFINE w == FC!pwrite(into, bytes, pos)
<1>0. /\ 0 \in Bytes /\ pos \in Nat /\ from \in Seq(Bytes) /\ into \in Seq(Bytes)
      /\ Len(from) \in Nat /\ Len(into) = Len(from)
  BY DEF FC!FileCopyAssumption, CopyTypeOK
<1>1. /\ w \in Seq(Bytes)
      /\ Len(w) = IF pos + Len(bytes) > Len(into) THEN pos + Len(bytes) ELSE Len(into)
      /\ \A j \in 1 .. Len(bytes) : w[pos + j] = bytes[j]
      /\ \A j \in 1 .. Len(into) : j <= pos \/ j > pos + Len(bytes) => w[j] = into[j]
  BY <1>0, PwriteBytes
<1> HIDE DEF w
<1>2. ASSUME NEW i \in 1 .. Len(into), i > pos, i <= pos + n  PROVE w[i] = from[i]
  <2>1. i - pos \in 1 .. n /\ pos + (i - pos) = i
    BY <1>0, <1>2
  <2> QED BY <1>1, <2>1
<1>3. w \in Seq(Bytes) /\ Len(w) = Len(into)
  BY <1>0, <1>1
<1>4. \A i \in 1 .. Len(into) : i <= pos \/ i > pos + n => w[i] = into[i]
  BY <1>1
<1> QED BY <1>2, <1>3, <1>4 DEF w

\* What is written at base or behind leaves the old content alone.
LEMMA WrittenBehind ==
  ASSUME FC!FileCopyAssumption, CopyTypeOK, NEW bytes \in Seq(Bytes), NEW i \in Nat,
         Len(was) <= i, Len(was) <= Len(into), \A j \in 1 .. Len(was) : into[j] = was[j],
         NEW w, w = FC!pwrite(into, bytes, i)
  PROVE  /\ w \in Seq(Bytes) /\ Len(was) <= Len(w) /\ Len(into) <= Len(w)
         /\ Len(w) = IF i + Len(bytes) > Len(into) THEN i + Len(bytes) ELSE Len(into)
         /\ \A j \in 1 .. Len(was) : w[j] = was[j]
         /\ \A j \in 1 .. Len(bytes) : w[i + j] = bytes[j]
<1>0. into \in Seq(Bytes) /\ was \in Seq(Bytes) /\ 0 \in Bytes
  BY DEF FC!FileCopyAssumption, CopyTypeOK
<1>1. /\ w \in Seq(Bytes)
      /\ Len(w) = IF i + Len(bytes) > Len(into) THEN i + Len(bytes) ELSE Len(into)
      /\ \A j \in 1 .. Len(bytes) : w[i + j] = bytes[j]
      /\ \A j \in 1 .. Len(into) : j <= i \/ j > i + Len(bytes) => w[j] = into[j]
  BY <1>0, PwriteBytes
<1>2. Len(into) \in Nat /\ Len(was) \in Nat /\ Len(bytes) \in Nat
  BY <1>0
<1> QED BY <1>1, <1>2

LEMMA CopyInit ==
  ASSUME FC!FileCopyAssumption, FC!Init  PROVE CopyInv
<1>1. ASSUME NEW f \in FC!Files  PROVE f \in Seq(Bytes)
  BY <1>1 DEF FC!Files, FC!FileCopyAssumption
<1>2. CopyTypeOK
  BY <1>1 DEF CopyTypeOK, FC!Init
<1>3. ImageSoFar /\ OldKept
  BY <1>2 DEF CopyTypeOK, ImageSoFar, OldKept, FC!Init
<1> QED BY <1>2, <1>3 DEF CopyInv

\* The steps that write nothing.
LEMMA CopyQuietSteps ==
  ASSUME FC!FileCopyAssumption, CopyInv,
         \/ FC!GivesUp \/ FC!cp_img \/ FC!AllCompared \/ FC!ReadFails
         \/ FC!Killed \/ FC!RunAgain \/ UNCHANGED FC!vars
  PROVE  CopyInv'
<1>0. CopyTypeOK /\ ImageSoFar /\ OldKept
  BY DEF CopyInv
<1>1. CASE FC!GivesUp
  BY <1>0, <1>1 DEF CopyInv, CopyTypeOK, ImageSoFar, OldKept, FC!GivesUp, FC!Ends, FC!files
<1>2. CASE FC!cp_img
  BY <1>0, <1>2 DEF CopyInv, CopyTypeOK, ImageSoFar, OldKept, FC!cp_img, FC!files
<1>3. CASE FC!AllCompared
  <2>1. at = "compare" /\ pos >= Len(from) /\ at' = "ended" /\ result' = 0
        /\ UNCHANGED <<program, from, into, was, base, pos, starts>>
    BY <1>3 DEF FC!AllCompared, FC!Ends, FC!files
  <2>2. program = "cp_img" /\ into = from
    <3>1. program = "cp_img" /\ into \in Seq(Bytes) /\ from \in Seq(Bytes)
      BY <1>0, <2>1 DEF CopyTypeOK, OldKept
    <3>2. Len(into) = Len(from) /\ \A i \in 1 .. Len(into) : into[i] = from[i]
      BY <1>0, <2>1, <3>1 DEF CopyTypeOK, ImageSoFar
    <3> QED BY <3>1, <3>2, SeqEqual
  <2> QED BY <1>0, <2>1, <2>2 DEF CopyInv, CopyTypeOK, ImageSoFar, OldKept
<1>4. CASE FC!Killed
  BY <1>0, <1>4 DEF CopyInv, CopyTypeOK, ImageSoFar, OldKept, FC!Killed, FC!files
<1>5. CASE FC!RunAgain
  <2>1. at' = "start" /\ pos' = 0 /\ result' = 0 /\ starts' = starts + 1
        /\ UNCHANGED <<program, from, into, was, base>>
    BY <1>5 DEF FC!RunAgain, FC!files
  <2>2. CopyTypeOK' /\ starts' # 1
    BY <1>0, <2>1 DEF CopyTypeOK
  <2> QED BY <1>0, <2>1, <2>2 DEF CopyInv, ImageSoFar, OldKept
<1>6. CASE UNCHANGED FC!vars
  BY <1>0, <1>6 DEF CopyInv, CopyTypeOK, ImageSoFar, OldKept, FC!vars, FC!files
<1>7. CASE FC!ReadFails
  BY <1>0, <1>7 DEF CopyInv, CopyTypeOK, ImageSoFar, OldKept, FC!ReadFails, FC!Ends, FC!files
<1> QED BY <1>1, <1>2, <1>3, <1>4, <1>5, <1>6, <1>7

\* A unit that is equal has the bytes of the source.
LEMMA CompareStep ==
  ASSUME FC!FileCopyAssumption, CopyInv, FC!Compare  PROVE CopyInv'
<1>0. CopyTypeOK /\ ImageSoFar /\ OldKept
  BY DEF CopyInv
<1>1. /\ at = "compare" /\ pos < Len(from) /\ pos \in Nat /\ Unit \in Nat \ {0}
      /\ UNCHANGED <<program, from, into, was, base, result, starts>>
      /\ from \in Seq(Bytes) /\ into \in Seq(Bytes)
  BY <1>0 DEF FC!Compare, FC!files, CopyTypeOK, FC!FileCopyAssumption
<1>2. /\ program = "cp_img" /\ Len(into) = Len(from) /\ Len(from) \in Nat
      /\ \A i \in 1 .. Len(into) : i <= pos => into[i] = from[i]
  BY <1>0, <1>1 DEF ImageSoFar, OldKept, CopyTypeOK
<1>3. CASE FC!pread(into, Unit, pos) = FC!pread(from, Unit, pos)
  <2>1. at' = at /\ pos' = pos + Unit
    BY <1>3 DEF FC!Compare
  <2>2. ASSUME NEW i \in 1 .. Len(into), i <= pos + Unit, i > pos  PROVE into[i] = from[i]
    <3> DEFINE u == FC!pread(into, Unit, pos)
    <3>1. i - pos \in 1 .. Len(u) /\ pos + (i - pos) = i
      <4>1. Len(u) = IF pos >= Len(into) THEN 0
                     ELSE IF pos + Unit < Len(into) THEN Unit ELSE Len(into) - pos
        BY <1>1, PreadBytes
      <4> HIDE DEF u
      <4> QED BY <1>1, <1>2, <2>2, <4>1
    <3>2. u[i - pos] = into[i]
      BY <1>1, <3>1, PreadBytes
    <3>3. u[i - pos] = from[i]
      <4>1. i - pos \in 1 .. Len(FC!pread(from, Unit, pos))
        BY <1>3, <3>1
      <4>2. FC!pread(from, Unit, pos)[i - pos] = from[pos + (i - pos)]
        BY <1>1, <4>1, PreadBytes
      <4> QED BY <1>3, <3>1, <4>2
    <3> QED BY <3>2, <3>3
  <2>3. \A i \in 1 .. Len(into) : i <= pos' => into[i] = from[i]
    BY <1>1, <1>2, <2>1, <2>2
  <2>4. pos' \in Nat
    BY <1>1, <2>1
  <2> QED BY <1>0, <1>1, <1>2, <2>1, <2>3, <2>4 DEF CopyInv, CopyTypeOK, ImageSoFar, OldKept
<1>4. CASE FC!pread(into, Unit, pos) # FC!pread(from, Unit, pos)
  <2>1. at' = "write" /\ pos' = pos
    BY <1>4 DEF FC!Compare
  <2> QED BY <1>0, <1>1, <1>2, <2>1 DEF CopyInv, CopyTypeOK, ImageSoFar, OldKept
<1> QED BY <1>3, <1>4

\* The first elements of a sequence.
LEMMA FirstOf ==
  ASSUME NEW T, NEW f \in Seq(T), NEW n \in 0 .. Len(f)
  PROVE  /\ SubSeq(f, 1, n) \in Seq(T) /\ Len(SubSeq(f, 1, n)) = n
         /\ \A j \in 1 .. n : SubSeq(f, 1, n)[j] = f[j]
<1>1. n \in Int /\ 1 \in Int /\ n \in Nat /\ \A j \in 1 .. n : f[j] \in T
  OBVIOUS
<1>2. /\ SubSeq(f, 1, n) \in Seq(T)
      /\ Len(SubSeq(f, 1, n)) = IF 1 <= n THEN n - 1 + 1 ELSE 0
      /\ \A j \in 1 .. n - 1 + 1 : SubSeq(f, 1, n)[j] = f[1 + j - 1]
  BY <1>1, SubSeqProperties
<1>3. \A j \in 1 .. n : SubSeq(f, 1, n)[j] = f[j]
  <2> SUFFICES ASSUME NEW j \in 1 .. n  PROVE SubSeq(f, 1, n)[j] = f[j]
    OBVIOUS
  <2>1. j \in 1 .. n - 1 + 1 /\ 1 + j - 1 = j
    BY <1>1
  <2> QED BY <1>2, <2>1
<1> QED BY <1>1, <1>2, <1>3

LEMMA FirstBytesOf ==
  ASSUME NEW f \in Seq(Bytes), NEW n \in 0 .. Len(f)
  PROVE  /\ SubSeq(f, 1, n) \in Seq(Bytes) /\ Len(SubSeq(f, 1, n)) = n
         /\ \A j \in 1 .. n : SubSeq(f, 1, n)[j] = f[j]
  BY FirstOf

LEMMA WriteUnitStep ==
  ASSUME FC!FileCopyAssumption, CopyInv, FC!WriteUnit  PROVE CopyInv'
<1> DEFINE unit == FC!pread(from, Unit, pos)
<1>0. /\ at = "write" /\ pos \in Nat /\ Unit \in Nat \ {0}
      /\ UNCHANGED <<program, from, was, base, starts>>
      /\ from \in Seq(Bytes) /\ into \in Seq(Bytes) /\ was \in Seq(Bytes)
      /\ program = "cp_img" /\ CopyTypeOK /\ ImageSoFar
  BY DEF CopyInv, CopyTypeOK, OldKept, FC!WriteUnit, FC!FileCopyAssumption
<1>1. /\ Len(into) = Len(was) /\ Len(into) = Len(from) /\ pos < Len(from) /\ Len(from) \in Nat
      /\ \A i \in 1 .. Len(into) : into[i] = was[i] \/ (i <= Len(from) /\ into[i] = from[i])
      /\ \A i \in 1 .. Len(into) : i <= pos => into[i] = from[i]
  BY <1>0 DEF ImageSoFar
<1>2. /\ unit \in Seq(Bytes)
      /\ Len(unit) = IF pos + Unit < Len(from) THEN Unit ELSE Len(from) - pos
      /\ \A j \in 1 .. Len(unit) : unit[j] = from[pos + j]
  <2>1. /\ unit \in Seq(Bytes)
        /\ Len(unit) = IF pos >= Len(from) THEN 0
                       ELSE IF pos + Unit < Len(from) THEN Unit ELSE Len(from) - pos
        /\ \A j \in 1 .. Len(unit) : unit[j] = from[pos + j]
    BY <1>0, PreadBytes
  <2> HIDE DEF unit
  <2> QED BY <1>0, <1>1, <2>1
<1>3. CASE /\ into' = FC!pwrite(into, unit, pos)
           /\ at' = "compare" /\ pos' = pos + Unit /\ result' = result
  <2> DEFINE n == Len(unit)
  <2> HIDE DEF unit
  <2>1. n \in Nat /\ pos + n <= Len(from) /\ \A j \in 1 .. n : unit[j] = from[pos + j]
    BY <1>0, <1>1, <1>2
  <2>2. /\ into' \in Seq(Bytes) /\ Len(into') = Len(into)
        /\ \A i \in 1 .. Len(into) : i <= pos \/ i > pos + n => into'[i] = into[i]
        /\ \A i \in 1 .. Len(into) : i > pos /\ i <= pos + n => into'[i] = from[i]
    BY <1>0, <1>1, <1>2, <1>3, <2>1, UnitWritten
  <2>3. \A i \in 1 .. Len(into) : i <= pos + Unit => into'[i] = from[i]
    <3> SUFFICES ASSUME NEW i \in 1 .. Len(into), i <= pos + Unit  PROVE into'[i] = from[i]
      OBVIOUS
    <3>1. CASE i <= pos
      BY <1>1, <2>2, <3>1
    <3>2. CASE i > pos /\ i <= pos + n
      BY <2>2, <3>2
    <3>3. i <= pos + n
      BY <1>0, <1>1, <1>2
    <3> QED BY <1>0, <2>1, <3>1, <3>2, <3>3
  <2>4. \A i \in 1 .. Len(into) : into'[i] = was[i] \/ (i <= Len(from) /\ into'[i] = from[i])
    BY <1>0, <1>1, <2>1, <2>2
  <2>5. pos' \in Nat
    BY <1>0, <1>3
  <2>6. CopyTypeOK'
    BY <1>0, <1>3, <2>2, <2>5 DEF CopyTypeOK
  <2>7. ImageSoFar' /\ OldKept'
    BY <1>0, <1>1, <1>3, <2>2, <2>3, <2>4 DEF ImageSoFar, OldKept
  <2> QED BY <2>6, <2>7 DEF CopyInv
<1>4. CASE /\ \E n \in 0 .. Len(unit) - 1 : into' = FC!pwrite(into, SubSeq(unit, 1, n), pos)
           /\ FC!Ends(1) /\ pos' = pos
  <2> HIDE DEF unit
  <2>1. PICK n \in 0 .. Len(unit) - 1 : into' = FC!pwrite(into, SubSeq(unit, 1, n), pos)
    BY <1>4
  <2>2. n \in Nat /\ n \in 0 .. Len(unit) /\ pos + n <= Len(from)
    BY <1>0, <1>1, <1>2
  <2> DEFINE bytes == SubSeq(unit, 1, n)
  <2>3. bytes \in Seq(Bytes) /\ Len(bytes) = n /\ \A j \in 1 .. n : bytes[j] = unit[j]
    BY <1>2, <2>2, FirstBytesOf
  <2> HIDE DEF bytes
  <2>4. \A j \in 1 .. n : bytes[j] = from[pos + j]
    BY <1>2, <2>2, <2>3
  <2>5. into' = FC!pwrite(into, bytes, pos)
    BY <2>1 DEF bytes
  <2>6. /\ into' \in Seq(Bytes) /\ Len(into') = Len(into)
        /\ \A i \in 1 .. Len(into) : i <= pos \/ i > pos + n => into'[i] = into[i]
        /\ \A i \in 1 .. Len(into) : i > pos /\ i <= pos + n => into'[i] = from[i]
    BY <1>0, <1>1, <2>2, <2>3, <2>4, <2>5, UnitWritten
  <2>7. \A i \in 1 .. Len(into) : into'[i] = was[i] \/ (i <= Len(from) /\ into'[i] = from[i])
    BY <1>0, <1>1, <2>2, <2>6
  <2>8. at' = "ended" /\ result' = 1 /\ pos' = pos
    BY <1>4 DEF FC!Ends
  <2>9. CopyTypeOK'
    BY <1>0, <2>6, <2>8 DEF CopyTypeOK
  <2>10. ImageSoFar' /\ OldKept'
    BY <1>0, <1>1, <2>6, <2>7, <2>8 DEF ImageSoFar, OldKept
  <2> QED BY <2>9, <2>10 DEF CopyInv
<1> QED BY <1>3, <1>4 DEF FC!WriteUnit

\* The source is as long as the zeros that make room for it.
LEMMA FtruncateStep ==
  ASSUME FC!FileCopyAssumption, CopyInv, FC!ftruncate  PROVE CopyInv'
<1>0. /\ program # "cp_img" /\ at = "start" /\ base' = Len(into)
      /\ UNCHANGED <<program, from, was, pos, starts>>
      /\ from \in Seq(Bytes) /\ into \in Seq(Bytes) /\ was \in Seq(Bytes) /\ 0 \in Bytes
      /\ CopyTypeOK /\ OldKept
  BY DEF CopyInv, CopyTypeOK, FC!ftruncate, FC!FileCopyAssumption
<1>1. /\ Len(was) <= Len(into) /\ \A i \in 1 .. Len(was) : into[i] = was[i]
      /\ starts = 1 => into = was
      /\ Len(into) \in Nat /\ Len(was) \in Nat /\ Len(from) \in Nat
  BY <1>0 DEF OldKept
<1>2. CASE at' = "copy" /\ into' = into \o FC!Zeros(Len(from)) /\ result' = result
  <2>1. FC!Zeros(Len(from)) \in Seq(Bytes) /\ Len(FC!Zeros(Len(from))) = Len(from)
    BY <1>0, <1>1 DEF FC!Zeros
  <2>2. /\ into' \in Seq(Bytes) /\ Len(into') = Len(into) + Len(from)
        /\ \A i \in 1 .. Len(into) + Len(from) :
             into'[i] = IF i <= Len(into) THEN into[i] ELSE FC!Zeros(Len(from))[i - Len(into)]
    <3> DEFINE z == FC!Zeros(Len(from))
    <3> HIDE DEF z
    <3>1. z \in Seq(Bytes) /\ Len(z) = Len(from) /\ into' = into \o z
      BY <1>2, <2>1 DEF z
    <3>2. /\ into \o z \in Seq(Bytes) /\ Len(into \o z) = Len(into) + Len(z)
          /\ \A i \in 1 .. Len(into) + Len(z) :
               (into \o z)[i] = IF i <= Len(into) THEN into[i] ELSE z[i - Len(into)]
      BY <1>0, <3>1, ConcatProperties
    <3> QED BY <3>1, <3>2 DEF z
  <2>3. Len(was) <= Len(into') /\ \A i \in 1 .. Len(was) : into'[i] = was[i]
    BY <1>1, <2>2
  <2>4. CopyTypeOK'
    BY <1>0, <1>1, <1>2, <2>2 DEF CopyTypeOK
  <2>5. ImageSoFar' /\ OldKept'
    BY <1>0, <1>1, <1>2, <2>2, <2>3 DEF ImageSoFar, OldKept
  <2> QED BY <2>4, <2>5 DEF CopyInv
<1>3. CASE /\ IF program = "append0" THEN FC!Ends(1) ELSE (at' = "copy" /\ result' = result)
           /\ into' = into
  <2>1. CopyTypeOK'
    BY <1>0, <1>1, <1>3 DEF CopyTypeOK, FC!Ends
  <2>2. ImageSoFar' /\ OldKept'
    BY <1>0, <1>1, <1>3 DEF ImageSoFar, OldKept, FC!Ends
  <2> QED BY <2>1, <2>2 DEF CopyInv
<1> QED BY <1>2, <1>3 DEF FC!ftruncate

LEMMA CopyRangeStep ==
  ASSUME FC!FileCopyAssumption, CopyInv, FC!copy_file_range  PROVE CopyInv'
<1>0. /\ program = "append" /\ at = "copy" /\ UNCHANGED <<program, from, was, base, pos, starts>>
      /\ from \in Seq(Bytes) /\ into \in Seq(Bytes) /\ was \in Seq(Bytes)
      /\ base \in Nat /\ CopyTypeOK /\ OldKept
  BY DEF CopyInv, CopyTypeOK, FC!copy_file_range
<1>1. /\ Len(was) <= Len(into) /\ \A i \in 1 .. Len(was) : into[i] = was[i]
      /\ Len(was) <= base /\ (starts = 1 => base = Len(was))
      /\ Len(into) \in {base, base + Len(from)}
      /\ Len(into) \in Nat /\ Len(was) \in Nat /\ Len(from) \in Nat
  BY <1>0 DEF OldKept
<1>2. PICK n \in 0 .. Len(from) :
        /\ into' = IF n = 0 THEN into ELSE FC!pwrite(into, FC!pread(from, n, 0), base)
        /\ at' = "ended" /\ result' = IF n < Len(from) THEN 1 ELSE 0
  BY DEF FC!copy_file_range, FC!Ends
<1> DEFINE bytes == FC!pread(from, n, 0)
<1>3. bytes \in Seq(Bytes) /\ Len(bytes) = n /\ \A j \in 1 .. n : bytes[j] = from[j]
  <2>1. n \in Nat /\ 0 \in Nat
    BY <1>1
  <2>2. /\ bytes \in Seq(Bytes)
        /\ Len(bytes) = IF 0 >= Len(from) THEN 0 ELSE IF 0 + n < Len(from) THEN n ELSE Len(from) - 0
        /\ \A j \in 1 .. Len(bytes) : bytes[j] = from[0 + j]
    BY <1>0, <2>1, PreadBytes
  <2> HIDE DEF bytes
  <2>3. Len(bytes) = n
    BY <1>1, <2>2
  <2> QED BY <2>2, <2>3
<1>4. /\ into' \in Seq(Bytes) /\ Len(was) <= Len(into')
      /\ \A j \in 1 .. Len(was) : into'[j] = was[j]
      /\ n = Len(from) => /\ Len(into') = base + Len(from)
                          /\ \A j \in 1 .. Len(from) : into'[base + j] = from[j]
  <2> HIDE DEF bytes
  <2>1. CASE n = 0
    BY <1>0, <1>1, <1>2, <2>1
  <2>2. CASE n # 0
    <3>1. into' = FC!pwrite(into, bytes, base)
      BY <1>2, <2>2 DEF bytes
    <3>2. /\ into' \in Seq(Bytes) /\ Len(was) <= Len(into')
          /\ Len(into') = IF base + Len(bytes) > Len(into) THEN base + Len(bytes) ELSE Len(into)
          /\ \A j \in 1 .. Len(was) : into'[j] = was[j]
          /\ \A j \in 1 .. Len(bytes) : into'[base + j] = bytes[j]
      <4>1. ASSUME NEW t \in Seq(Bytes), into' = FC!pwrite(into, t, base)
            PROVE  /\ into' \in Seq(Bytes) /\ Len(was) <= Len(into')
                   /\ Len(into') = IF base + Len(t) > Len(into) THEN base + Len(t) ELSE Len(into)
                   /\ \A j \in 1 .. Len(was) : into'[j] = was[j]
                   /\ \A j \in 1 .. Len(t) : into'[base + j] = t[j]
        BY <1>0, <1>1, <4>1, WrittenBehind
      <4> QED BY <1>3, <3>1, <4>1
    <3>3. \A j \in 1 .. n : into'[base + j] = from[j]
      BY <1>3, <3>2
    <3>4. ASSUME n = Len(from)  PROVE Len(into') = base + Len(from)
      <4>1. Len(into') = IF base + Len(from) > Len(into) THEN base + Len(from) ELSE Len(into)
        BY <1>3, <3>2, <3>4
      <4>2. base \in Nat /\ Len(from) \in Nat /\ Len(into) \in {base, base + Len(from)}
        BY <1>0, <1>1
      <4> QED BY <4>1, <4>2
    <3> QED BY <3>2, <3>3, <3>4
  <2> QED BY <2>1, <2>2
<1>5. CopyTypeOK'
  BY <1>0, <1>2, <1>4 DEF CopyTypeOK
<1>6. ImageSoFar'
  BY <1>0 DEF ImageSoFar
<1>7. OldKept'
  <2>1. ASSUME result' = 0
        PROVE  \E m \in Nat : /\ Len(was) <= m /\ Len(into') = m + Len(from)
                              /\ \A i \in 1 .. Len(from) : into'[m + i] = from[i]
                              /\ starts = 1 => m = Len(was)
    <3>1. n = Len(from)
      BY <1>1, <1>2, <2>1
    <3> QED BY <1>0, <1>1, <1>4, <3>1
  <2> QED BY <1>0, <1>2, <1>4, <2>1 DEF OldKept
<1> QED BY <1>5, <1>6, <1>7 DEF CopyInv

LEMMA CopyBufferStep ==
  ASSUME FC!FileCopyAssumption, CopyInv, FC!CopyBuffer  PROVE CopyInv'
<1> DEFINE buf == FC!pread(from, Unit, pos)
<1>0. /\ program = "append0" /\ at = "copy" /\ UNCHANGED <<program, from, was, base, starts>>
      /\ from \in Seq(Bytes) /\ into \in Seq(Bytes) /\ was \in Seq(Bytes)
      /\ base \in Nat /\ pos \in Nat /\ Unit \in Nat /\ CopyTypeOK /\ OldKept
  BY DEF CopyInv, CopyTypeOK, FC!CopyBuffer, FC!FileCopyAssumption
<1>1. /\ Len(was) <= Len(into) /\ \A i \in 1 .. Len(was) : into[i] = was[i]
      /\ Len(was) <= base /\ (starts = 1 => base = Len(was)) /\ base <= Len(into)
      /\ Len(into) \in Nat /\ Len(was) \in Nat
  BY <1>0 DEF OldKept
<1>2. buf \in Seq(Bytes) /\ Len(buf) \in Nat
  BY <1>0, PreadBytes
<1>3. SUFFICES ASSUME into' \in Seq(Bytes), Len(into) <= Len(into'),
                      \A j \in 1 .. Len(was) : into'[j] = was[j]
               PROVE  CopyInv'
  <2>1. CASE buf = << >>
    BY <1>0, <1>1, <2>1 DEF FC!CopyBuffer
  <2>2. CASE buf # << >>
    <3>1. pos' = pos + Len(buf)
      BY <2>2 DEF FC!CopyBuffer
    <3>2. \/ into' = FC!pwrite(into, buf, base + pos')
          \/ \E n \in 0 .. Len(buf) - 1 :
               into' = IF n = 0 THEN into ELSE FC!pwrite(into, SubSeq(buf, 1, n), base + pos')
      BY <2>2 DEF FC!CopyBuffer
    <3> HIDE DEF buf
    <3>3. base + pos' \in Nat /\ Len(was) <= base + pos'
      BY <1>0, <1>1, <1>2, <3>1
    <3>4. ASSUME NEW t \in Seq(Bytes), into' = FC!pwrite(into, t, base + pos')
          PROVE  /\ into' \in Seq(Bytes) /\ Len(into) <= Len(into')
                 /\ \A j \in 1 .. Len(was) : into'[j] = was[j]
      BY <1>0, <1>1, <3>3, <3>4, WrittenBehind
    <3>5. CASE into' = FC!pwrite(into, buf, base + pos')
      BY <1>2, <1>3, <3>4, <3>5
    <3>6. CASE \E n \in 0 .. Len(buf) - 1 :
                 into' = IF n = 0 THEN into ELSE FC!pwrite(into, SubSeq(buf, 1, n), base + pos')
      <4>1. PICK n \in 0 .. Len(buf) - 1 :
              into' = IF n = 0 THEN into ELSE FC!pwrite(into, SubSeq(buf, 1, n), base + pos')
        BY <3>6
      <4>2. n \in 0 .. Len(buf)
        BY <1>2
      <4>3. SubSeq(buf, 1, n) \in Seq(Bytes)
        BY <1>2, <4>2, FirstBytesOf
      <4>4. CASE n = 0
        BY <1>0, <1>1, <1>3, <4>1, <4>4
      <4>5. CASE n # 0
        BY <1>3, <3>4, <4>1, <4>3, <4>5
      <4> QED BY <4>4, <4>5
    <3> QED BY <3>2, <3>5, <3>6
  <2> QED BY <2>1, <2>2
<1>4. at' \in {"copy", "ended"} /\ result' \in {0, 1} /\ pos' \in Nat /\ (at' = "copy" => at = "copy")
  BY <1>0, <1>2 DEF FC!CopyBuffer, FC!Ends, CopyTypeOK
<1>5. CopyTypeOK'
  BY <1>0, <1>3, <1>4 DEF CopyTypeOK
<1>6. Len(into') \in Nat /\ Len(was) <= Len(into') /\ base <= Len(into')
  BY <1>0, <1>1, <1>3
<1>7. ImageSoFar' /\ OldKept'
  BY <1>0, <1>1, <1>3, <1>4, <1>6 DEF ImageSoFar, OldKept
<1> QED BY <1>5, <1>7 DEF CopyInv

\* The invariant holds in every behaviour of the three tools.
LEMMA CopyInvariance ==
  ASSUME FC!FileCopyAssumption, CopyInv, [FC!Next]_(FC!vars)  PROVE CopyInv'
<1>1. CASE FC!GivesUp \/ FC!cp_img \/ FC!AllCompared \/ FC!ReadFails \/ FC!Killed \/ FC!RunAgain
  BY <1>1, CopyQuietSteps
<1>2. CASE FC!Compare
  BY <1>2, CompareStep
<1>3. CASE FC!WriteUnit
  BY <1>3, WriteUnitStep
<1>4. CASE FC!ftruncate
  BY <1>4, FtruncateStep
<1>5. CASE FC!copy_file_range
  BY <1>5, CopyRangeStep
<1>6. CASE FC!CopyBuffer
  BY <1>6, CopyBufferStep
<1>7. CASE UNCHANGED FC!vars
  BY <1>7, CopyQuietSteps
<1> QED BY <1>1, <1>2, <1>3, <1>4, <1>5, <1>6, <1>7 DEF FC!Next

\* However often a copy is cut short: cp_img leaves old bytes or new ones, append and
\* append0 leave what the destination held, and success of cp_img and of append means
\* that the source is there.  Nothing is said of append0's success.
LEMMA CopiesAreTrue ==
  ASSUME FC!FileCopyAssumption, CopyInv  PROVE FC!CopyTrue
<1>0. /\ from \in Seq(Bytes) /\ into \in Seq(Bytes) /\ was \in Seq(Bytes)
      /\ Len(from) \in Nat /\ Len(into) \in Nat /\ Len(was) \in Nat
      /\ ImageSoFar /\ OldKept
  BY DEF CopyInv, CopyTypeOK
<1>1. ASSUME program = "cp_img"
      PROVE  /\ Len(into) = Len(was)
             /\ \A i \in 1 .. Len(into) : into[i] = was[i] \/ into[i] = from[i]
             /\ at = "ended" /\ result = 0 => into = from
  BY <1>0, <1>1 DEF ImageSoFar
<1>2. ASSUME program # "cp_img"  PROVE SubSeq(into, 1, Len(was)) = was
  <2>1. Len(was) \in 0 .. Len(into) /\ \A i \in 1 .. Len(was) : into[i] = was[i]
    BY <1>0, <1>2 DEF OldKept
  <2> DEFINE t == SubSeq(into, 1, Len(was))
  <2>2. t \in Seq(Bytes) /\ Len(t) = Len(was) /\ \A i \in 1 .. Len(was) : t[i] = into[i]
    BY <1>0, <2>1, FirstBytesOf
  <2> HIDE DEF t
  <2>3. t = was
    BY <1>0, <2>1, <2>2, SeqEqual
  <2> QED BY <2>3 DEF t
<1>3. ASSUME program = "append", at = "ended", result = 0
      PROVE  /\ into = SubSeq(into, 1, Len(into) - Len(from)) \o from
             /\ starts = 1 => into = was \o from
  <2>1. PICK n \in Nat : /\ Len(was) <= n /\ Len(into) = n + Len(from)
                         /\ \A i \in 1 .. Len(from) : into[n + i] = from[i]
                         /\ starts = 1 => n = Len(was)
    BY <1>0, <1>3 DEF OldKept
  <2> DEFINE t == SubSeq(into, 1, n)
  <2>2. Len(into) - Len(from) = n /\ n \in 0 .. Len(into)
    BY <1>0, <2>1
  <2>3. t \in Seq(Bytes) /\ Len(t) = n /\ \A i \in 1 .. n : t[i] = into[i]
    BY <1>0, <2>2, FirstBytesOf
  <2> HIDE DEF t
  <2> DEFINE u == t \o from
  <2>4. /\ u \in Seq(Bytes) /\ Len(u) = n + Len(from)
        /\ \A i \in 1 .. n + Len(from) : u[i] = IF i <= n THEN t[i] ELSE from[i - n]
    BY <1>0, <2>3, ConcatProperties
  <2> HIDE DEF u
  <2>5. ASSUME NEW i \in 1 .. Len(into)  PROVE into[i] = u[i]
    <3>1. CASE i <= n
      BY <2>1, <2>3, <2>4, <3>1
    <3>2. CASE i > n
      <4>1. i - n \in 1 .. Len(from) /\ n + (i - n) = i
        BY <1>0, <2>1, <3>2
      <4> QED BY <2>1, <2>4, <3>2, <4>1
    <3> QED BY <2>1, <3>1, <3>2
  <2>6. into = u
    BY <1>0, <2>1, <2>4, <2>5, SeqEqual
  <2>7. starts = 1 => t = was
    BY <1>2, <1>3, <2>1 DEF t
  <2> QED BY <2>2, <2>6, <2>7 DEF t, u
<1> QED BY <1>1, <1>2, <1>3 DEF FC!CopyTrue, FC!Succeeded

--------------------------------------------------------------------------------
(* ShellTools: lockx, acquirex and phash                                   *)

Holds(p) == place[p] \in {"run", "release"}

\* One process at most is between the creation of the lock file and its removal.
LockHeld ==
  /\ \A p \in ST!Processes : Holds(p) => locked
  /\ \A p, q \in ST!Processes : Holds(p) /\ Holds(q) => p = q

Hashing(i) == \E t \in Threads : place[t] = "hash" /\ arg[t] = i

\* An argument is on the list, or one thread has it, or its command has been run.
ArgumentsKept ==
  /\ \A i \in 1 .. Len(argsLeft) : argsLeft[i] = i
  /\ \A t \in Threads : place[t] = "hash" => arg[t] \in Len(argsLeft) + 1 .. NArgs
  /\ \A t, u \in Threads : place[t] = "hash" /\ place[u] = "hash" /\ arg[t] = arg[u] => t = u
  /\ \A i \in 1 .. NArgs : ran[i] = IF i <= Len(argsLeft) \/ Hashing(i) THEN 0 ELSE 1

\* main waits only while threads run, and returns when none does.
ThreadsCounted ==
  /\ \A t \in Threads : place[t] = "done" => argsLeft = << >>
  /\ running = Cardinality({t \in Threads : place[t] # "done"})
  /\ place["main"] = "wait" => running # 0
  /\ place["main"] = "returned" => running = 0

FilePlaces ==
  {"acquire", "run", "release", "done", "loop", "wait", "returned", "take", "hash"}

ShellTypeOK ==
  /\ place \in [ST!Processes \cup Threads \cup {"main"} -> FilePlaces]
  /\ \A t \in Threads : place[t] \in {"take", "hash", "done"}
  /\ place["main"] \in {"loop", "wait", "returned"}
  /\ locked \in BOOLEAN /\ argsLeft \in Seq(Nat) /\ Len(argsLeft) <= NArgs
  /\ arg \in [Threads -> Nat] /\ ran \in [1 .. NArgs -> Nat]

ShellInv == ShellTypeOK /\ LockHeld /\ ArgumentsKept /\ ThreadsCounted

\* The module brings its own copies of the operators on finite sets.
LEMMA SameFinite ==
  \A S : (ST!IsFiniteSet(S) <=> IsFiniteSet(S)) /\ ST!Cardinality(S) = Cardinality(S)
<1>1. \A S : ST!IsFiniteSet(S) <=> IsFiniteSet(S)
  BY DEF ST!IsFiniteSet, IsFiniteSet
<1>2. \A S : ST!Cardinality(S) = Cardinality(S)
  BY Zenon DEF ST!Cardinality, Cardinality
<1> QED BY <1>1, <1>2

LEMMA Apart ==
  ASSUME ST!ShellToolsAssumption
  PROVE  /\ Threads \cap ST!Processes = {} /\ "main" \notin Threads /\ "main" \notin ST!Processes
         /\ IsFiniteSet(Threads) /\ Threads # {} /\ NArgs \in Nat
<1>1. Threads \cap ST!Processes = {} /\ "main" \notin Threads /\ "main" \notin ST!Processes
  BY DEF ST!ShellToolsAssumption, ST!Processes
<1>2. IsFiniteSet(Threads) /\ Threads # {} /\ NArgs \in Nat
  BY SameFinite DEF ST!ShellToolsAssumption
<1> QED BY <1>1, <1>2

LEMMA ShellInit ==
  ASSUME ST!ShellToolsAssumption, ST!Init  PROVE ShellInv
<1>0. /\ Threads \cap ST!Processes = {} /\ "main" \notin Threads /\ "main" \notin ST!Processes
      /\ IsFiniteSet(Threads) /\ NArgs \in Nat
  BY Apart
<1>1. /\ place \in [ST!Processes \cup Threads \cup {"main"} -> FilePlaces]
      /\ \A p \in ST!Processes : place[p] = "acquire"
      /\ \A t \in Threads : place[t] = "take"
      /\ place["main"] = "loop"
  <2>1. place = [p \in ST!Processes \cup Threads \cup {"main"} |->
                  IF p \in ST!Processes THEN "acquire" ELSE IF p = "main" THEN "loop" ELSE "take"]
    BY DEF ST!Init
  <2> HIDE DEF ST!Init
  <2> QED BY <1>0, <2>1 DEF FilePlaces
<1>2. /\ argsLeft = [i \in 1 .. NArgs |-> i] /\ argsLeft \in Seq(Nat) /\ Len(argsLeft) = NArgs
      /\ locked = FALSE /\ arg = [t \in Threads |-> 0] /\ ran = [i \in 1 .. NArgs |-> 0]
      /\ running = Cardinality(Threads)
  <2>1. /\ argsLeft = [i \in 1 .. NArgs |-> i] /\ locked = FALSE
        /\ arg = [t \in Threads |-> 0] /\ ran = [i \in 1 .. NArgs |-> 0]
        /\ running = Cardinality(Threads)
    BY SameFinite DEF ST!Init
  <2>2. argsLeft \in Seq(Nat) /\ Len(argsLeft) = NArgs
    BY <1>0, <2>1
  <2> QED BY <2>1, <2>2
<1>3. {t \in Threads : place[t] # "done"} = Threads
  BY <1>1
<1>4. ShellTypeOK
  <2>1. arg \in [Threads -> Nat] /\ ran \in [1 .. NArgs -> Nat]
    BY <1>2
  <2>2. /\ \A t \in Threads : place[t] \in {"take", "hash", "done"}
        /\ place["main"] \in {"loop", "wait", "returned"}
    BY <1>1
  <2>3. locked \in BOOLEAN
    BY <1>2
  <2>4. argsLeft \in Seq(Nat) /\ Len(argsLeft) <= NArgs
    <3>1. argsLeft \in Seq(Nat) /\ Len(argsLeft) = NArgs
      BY <1>2
    <3> QED BY <1>0, <3>1
  <2> QED BY <1>1, <2>1, <2>2, <2>3, <2>4 DEF ShellTypeOK
<1>5. LockHeld
  BY <1>1 DEF LockHeld, Holds
<1>6. ArgumentsKept
  BY <1>0, <1>1, <1>2 DEF ArgumentsKept, Hashing
<1>7. ThreadsCounted
  BY <1>1, <1>2, <1>3 DEF ThreadsCounted
<1> QED BY <1>4, <1>5, <1>6, <1>7 DEF ShellInv

\* The steps of lockx and acquirex touch no thread.
LEMMA LockSteps ==
  ASSUME ST!ShellToolsAssumption, ShellInv, NEW p \in ST!Processes,
         ST!Open(p) \/ ST!Command(p) \/ ST!Unlink(p) \/ ST!Killed(p)
  PROVE  ShellInv'
<1>0. /\ Threads \cap ST!Processes = {} /\ "main" \notin Threads /\ "main" \notin ST!Processes
      /\ ShellTypeOK /\ LockHeld /\ ArgumentsKept /\ ThreadsCounted
  BY Apart DEF ShellInv
<1>1. /\ UNCHANGED <<argsLeft, running, arg, ran>>
      /\ place' \in [ST!Processes \cup Threads \cup {"main"} -> FilePlaces]
      /\ \A q \in Threads \cup {"main"} : place'[q] = place[q]
      /\ locked' \in BOOLEAN
  <2>1. place \in [ST!Processes \cup Threads \cup {"main"} -> FilePlaces] /\ locked \in BOOLEAN
    BY <1>0 DEF ShellTypeOK
  <2>2. PICK to \in {"run", "release", "done", place[p]} :
          /\ place' = [place EXCEPT ![p] = to] \/ place' = place
          /\ UNCHANGED <<argsLeft, running, arg, ran>> /\ locked' \in {TRUE, FALSE, locked}
    BY DEF ST!Open, ST!Command, ST!Unlink, ST!Killed, ST!Moves
  <2>3. to \in FilePlaces
    BY <2>1 DEF FilePlaces
  <2>4. place' \in [ST!Processes \cup Threads \cup {"main"} -> FilePlaces]
    BY <2>1, <2>2, <2>3
  <2> QED BY <1>0, <2>1, <2>2, <2>4
<1>2. ShellTypeOK'
  BY <1>0, <1>1 DEF ShellTypeOK
<1>3. ArgumentsKept'
  BY <1>0, <1>1 DEF ArgumentsKept, Hashing
<1>4. ThreadsCounted'
  <2>1. {t \in Threads : place'[t] # "done"} = {t \in Threads : place[t] # "done"}
    BY <1>1
  <2> QED BY <1>0, <1>1, <2>1 DEF ThreadsCounted
<1>5. LockHeld'
  <2>0. place \in [ST!Processes \cup Threads \cup {"main"} -> FilePlaces]
    BY <1>0 DEF ShellTypeOK
  <2>1. CASE ST!Open(p)
    BY <1>0, <2>0, <2>1 DEF LockHeld, Holds, ST!Open, ST!Moves
  <2>2. CASE ST!Command(p)
    BY <1>0, <2>0, <2>2 DEF LockHeld, Holds, ST!Command, ST!Moves
  <2>3. CASE ST!Unlink(p)
    BY <1>0, <2>0, <2>3 DEF LockHeld, Holds, ST!Unlink, ST!Moves
  <2>4. CASE ST!Killed(p)
    BY <1>0, <2>4 DEF LockHeld, Holds, ST!Killed
  <2> QED BY <2>1, <2>2, <2>3, <2>4
<1> QED BY <1>2, <1>3, <1>4, <1>5 DEF ShellInv

\* A thread takes the last argument of the list.
LEMMA TakeStep ==
  ASSUME ST!ShellToolsAssumption, ShellInv, NEW t \in Threads, ST!Take(t)
  PROVE  ShellInv'
<1> DEFINE n == Len(argsLeft)
<1>0. /\ Threads \cap ST!Processes = {} /\ "main" \notin Threads /\ "main" \notin ST!Processes
      /\ ShellTypeOK /\ LockHeld /\ ArgumentsKept /\ ThreadsCounted /\ NArgs \in Nat
  BY Apart DEF ShellInv
<1>1. /\ argsLeft \in Seq(Nat) /\ argsLeft # << >> /\ place[t] = "take"
      /\ place' = [place EXCEPT ![t] = "hash"] /\ arg' = [arg EXCEPT ![t] = argsLeft[n]]
      /\ argsLeft' = SubSeq(argsLeft, 1, n - 1)
      /\ UNCHANGED <<locked, running, ran>>
      /\ place \in [ST!Processes \cup Threads \cup {"main"} -> FilePlaces]
      /\ arg \in [Threads -> Nat]
  BY <1>0 DEF ST!Take, ST!Moves, ShellTypeOK
<1>2. n \in Nat /\ n >= 1 /\ n <= NArgs /\ argsLeft[n] = n
  BY <1>0, <1>1 DEF ShellTypeOK, ArgumentsKept
<1>3. argsLeft' \in Seq(Nat) /\ Len(argsLeft') = n - 1 /\ \A i \in 1 .. n - 1 : argsLeft'[i] = argsLeft[i]
  <2>1. n - 1 \in Nat /\ n - 1 \in 0 .. Len(argsLeft)
    BY <1>2
  <2>2. /\ SubSeq(argsLeft, 1, n - 1) \in Seq(Nat) /\ Len(SubSeq(argsLeft, 1, n - 1)) = n - 1
        /\ \A i \in 1 .. n - 1 : SubSeq(argsLeft, 1, n - 1)[i] = argsLeft[i]
    BY <1>1, <2>1, FirstOf
  <2> QED BY <1>1, <2>2
<1> HIDE DEF n
<1>4. /\ place'[t] = "hash" /\ arg'[t] = n
      /\ \A u \in Threads : u # t => place'[u] = place[u] /\ arg'[u] = arg[u]
      /\ place'["main"] = place["main"]
      /\ \A p \in ST!Processes : place'[p] = place[p]
  BY <1>0, <1>1, <1>2
<1>5. ShellTypeOK'
  <2>1. place' \in [ST!Processes \cup Threads \cup {"main"} -> FilePlaces]
    BY <1>1 DEF FilePlaces
  <2>2. arg' \in [Threads -> Nat]
    BY <1>1, <1>2
  <2>3. Len(argsLeft') <= NArgs
    BY <1>0, <1>2, <1>3
  <2> QED BY <1>0, <1>1, <1>3, <1>4, <2>1, <2>2, <2>3 DEF ShellTypeOK
<1>6. LockHeld'
  BY <1>0, <1>1, <1>4 DEF LockHeld, Holds
<1>7. ArgumentsKept'
  <2>1. \A u \in Threads : place[u] = "hash" => arg[u] \in n + 1 .. NArgs
    BY <1>0 DEF ArgumentsKept, n
  <2>2. \A i \in 1 .. Len(argsLeft') : argsLeft'[i] = i
    BY <1>0, <1>2, <1>3 DEF ArgumentsKept, n
  <2>3. \A u \in Threads : place'[u] = "hash" => arg'[u] \in Len(argsLeft') + 1 .. NArgs
    BY <1>2, <1>3, <1>4, <2>1
  <2>4. \A u, v \in Threads : place'[u] = "hash" /\ place'[v] = "hash" /\ arg'[u] = arg'[v] => u = v
    BY <1>0, <1>2, <1>4, <2>1 DEF ArgumentsKept
  <2>5. ASSUME NEW i \in 1 .. NArgs
        PROVE  ran[i] = IF i <= Len(argsLeft') \/ Hashing(i)' THEN 0 ELSE 1
    <3>1. ran[i] = IF i <= n \/ Hashing(i) THEN 0 ELSE 1
      BY <1>0 DEF ArgumentsKept, n
    <3>2. CASE i = n
      BY <1>2, <1>4, <3>1, <3>2 DEF Hashing
    <3>3. CASE i # n
      <4>1. Hashing(i)' <=> Hashing(i)
        BY <1>1, <1>4, <3>3 DEF Hashing
      <4> QED BY <1>2, <1>3, <3>1, <3>3, <4>1
    <3> QED BY <3>2, <3>3
  <2> QED BY <1>1, <2>2, <2>3, <2>4, <2>5 DEF ArgumentsKept
<1>8. ThreadsCounted'
  <2>1. {u \in Threads : place'[u] # "done"} = {u \in Threads : place[u] # "done"}
    BY <1>1, <1>4
  <2>2. \A u \in Threads : place'[u] # "done"
    BY <1>0, <1>1, <1>4 DEF ThreadsCounted
  <2> QED BY <1>0, <1>1, <1>4, <2>1, <2>2 DEF ThreadsCounted
<1> QED BY <1>5, <1>6, <1>7, <1>8 DEF ShellInv

\* Its command has ended.
LEMMA HashStep ==
  ASSUME ST!ShellToolsAssumption, ShellInv, NEW t \in Threads, ST!Hash(t)
  PROVE  ShellInv'
<1>0. /\ Threads \cap ST!Processes = {} /\ "main" \notin Threads /\ "main" \notin ST!Processes
      /\ ShellTypeOK /\ LockHeld /\ ArgumentsKept /\ ThreadsCounted /\ NArgs \in Nat
  BY Apart DEF ShellInv
<1>1. /\ place[t] = "hash" /\ place' = [place EXCEPT ![t] = "take"]
      /\ ran' = [ran EXCEPT ![arg[t]] = @ + 1]
      /\ UNCHANGED <<locked, argsLeft, running, arg>>
      /\ place \in [ST!Processes \cup Threads \cup {"main"} -> FilePlaces]
      /\ ran \in [1 .. NArgs -> Nat] /\ argsLeft \in Seq(Nat) /\ Len(argsLeft) \in Nat
  BY <1>0 DEF ST!Hash, ST!Moves, ShellTypeOK
<1>2. arg[t] \in Len(argsLeft) + 1 .. NArgs /\ arg[t] \in 1 .. NArgs
  BY <1>0, <1>1 DEF ArgumentsKept
<1>3. /\ place'[t] = "take"
      /\ \A u \in Threads : u # t => place'[u] = place[u]
      /\ place'["main"] = place["main"]
      /\ \A p \in ST!Processes : place'[p] = place[p]
  BY <1>0, <1>1
<1>4. ShellTypeOK'
  <2>1. place' \in [ST!Processes \cup Threads \cup {"main"} -> FilePlaces]
    BY <1>1 DEF FilePlaces
  <2>2. ran' \in [1 .. NArgs -> Nat]
    BY <1>1, <1>2
  <2> QED BY <1>0, <1>1, <1>3, <2>1, <2>2 DEF ShellTypeOK
<1>5. LockHeld'
  BY <1>0, <1>1, <1>3 DEF LockHeld, Holds
<1>6. ArgumentsKept'
  <2>1. ASSUME NEW i \in 1 .. NArgs
        PROVE  ran'[i] = IF i <= Len(argsLeft) \/ Hashing(i)' THEN 0 ELSE 1
    <3>1. ran[i] = IF i <= Len(argsLeft) \/ Hashing(i) THEN 0 ELSE 1
      BY <1>0 DEF ArgumentsKept
    <3>2. CASE i = arg[t]
      <4>1. Hashing(i) /\ ~(i <= Len(argsLeft))
        BY <1>1, <1>2, <3>2 DEF Hashing
      <4>2. ~Hashing(i)'
        BY <1>0, <1>1, <1>3, <3>2 DEF Hashing, ArgumentsKept
      <4> QED BY <1>1, <1>2, <3>1, <3>2, <4>1, <4>2
    <3>3. CASE i # arg[t]
      <4>1. Hashing(i)' <=> Hashing(i)
        BY <1>1, <1>3, <3>3 DEF Hashing
      <4> QED BY <1>1, <3>1, <3>3, <4>1
    <3> QED BY <3>2, <3>3
  <2>2. /\ \A i \in 1 .. Len(argsLeft) : argsLeft[i] = i
        /\ \A u \in Threads : place'[u] = "hash" => arg[u] \in Len(argsLeft) + 1 .. NArgs
        /\ \A u, v \in Threads : place'[u] = "hash" /\ place'[v] = "hash" /\ arg[u] = arg[v] => u = v
    BY <1>0, <1>3 DEF ArgumentsKept
  <2> QED BY <1>1, <2>1, <2>2 DEF ArgumentsKept
<1>7. ThreadsCounted'
  <2>1. {u \in Threads : place'[u] # "done"} = {u \in Threads : place[u] # "done"}
    BY <1>1, <1>3
  <2> QED BY <1>0, <1>1, <1>3, <2>1 DEF ThreadsCounted
<1> QED BY <1>4, <1>5, <1>6, <1>7 DEF ShellInv

\* A thread leaves: if main waits, it is woken up to see that.
LEMMA LeaveStep ==
  ASSUME ST!ShellToolsAssumption, ShellInv, NEW t \in Threads, ST!Leave(t)
  PROVE  ShellInv'
<1>0. /\ Threads \cap ST!Processes = {} /\ "main" \notin Threads /\ "main" \notin ST!Processes
      /\ ShellTypeOK /\ LockHeld /\ ArgumentsKept /\ ThreadsCounted
      /\ IsFiniteSet(Threads)
  BY Apart DEF ShellInv
<1>1. /\ place[t] = "take" /\ argsLeft = << >> /\ running' = running - 1
      /\ place' = [place EXCEPT ![t] = "done", !["main"] = IF @ = "wait" THEN "loop" ELSE @]
      /\ UNCHANGED <<locked, argsLeft, arg, ran>>
      /\ place \in [ST!Processes \cup Threads \cup {"main"} -> FilePlaces]
      /\ place["main"] \in {"loop", "wait", "returned"}
  BY <1>0 DEF ST!Leave, ShellTypeOK
<1>2. /\ place'[t] = "done" /\ place' \in [ST!Processes \cup Threads \cup {"main"} -> FilePlaces]
      /\ \A u \in Threads : u # t => place'[u] = place[u]
      /\ place'["main"] = IF place["main"] = "wait" THEN "loop" ELSE place["main"]
      /\ \A p \in ST!Processes : place'[p] = place[p]
  <2> DEFINE m == IF place["main"] = "wait" THEN "loop" ELSE place["main"]
  <2>1. m \in FilePlaces
    BY <1>1 DEF FilePlaces
  <2>2. place' = [[place EXCEPT ![t] = "done"] EXCEPT !["main"] = m]
    BY <1>0, <1>1
  <2> HIDE DEF m
  <2>3. /\ place'[t] = "done" /\ place' \in [ST!Processes \cup Threads \cup {"main"} -> FilePlaces]
        /\ \A u \in Threads : u # t => place'[u] = place[u]
        /\ place'["main"] = m
        /\ \A p \in ST!Processes : place'[p] = place[p]
    BY <1>0, <1>1, <2>1, <2>2 DEF FilePlaces
  <2> QED BY <2>3 DEF m
<1>3. ShellTypeOK'
  BY <1>0, <1>1, <1>2 DEF ShellTypeOK
<1>4. LockHeld'
  BY <1>0, <1>1, <1>2 DEF LockHeld, Holds
<1>5. ArgumentsKept'
  <2>1. ASSUME NEW i  PROVE Hashing(i)' <=> Hashing(i)
    BY <1>1, <1>2 DEF Hashing
  <2> QED BY <1>0, <1>1, <1>2, <2>1 DEF ArgumentsKept
<1>6. ThreadsCounted'
  <2> DEFINE R == {u \in Threads : place[u] # "done"}
  <2>1. {u \in Threads : place'[u] # "done"} = R \ {t} /\ t \in R
    BY <1>1, <1>2
  <2>2. IsFiniteSet(R) /\ Cardinality(R) \in Nat
    BY <1>0, FS_Subset, FS_CardinalityType
  <2> HIDE DEF R
  <2>3. Cardinality(R \ {t}) = Cardinality(R) - 1
    BY <2>1, <2>2, FS_RemoveElement
  <2>4. running = Cardinality(R) /\ R # {}
    BY <1>0, <2>1 DEF ThreadsCounted, R
  <2>5. Cardinality(R) # 0
    BY <2>2, <2>4, FS_EmptySet
  <2>6. place'["main"] # "wait" /\ place'["main"] # "returned"
    BY <1>0, <1>1, <1>2, <2>4, <2>5 DEF ThreadsCounted
  <2> QED BY <1>1, <2>1, <2>3, <2>4, <2>6 DEF ThreadsCounted
<1> QED BY <1>3, <1>4, <1>5, <1>6 DEF ShellInv

LEMMA MainStep ==
  ASSUME ST!ShellToolsAssumption, ShellInv, ST!Main
  PROVE  ShellInv'
<1>0. /\ Threads \cap ST!Processes = {} /\ "main" \notin Threads /\ "main" \notin ST!Processes
      /\ ShellTypeOK /\ LockHeld /\ ArgumentsKept /\ ThreadsCounted
  BY Apart DEF ShellInv
<1>1. PICK to \in {"returned", "wait", "loop"} :
        /\ place' = [place EXCEPT !["main"] = to]
        /\ to = "returned" => running = 0
        /\ to = "wait" => running # 0
  BY DEF ST!Main, ST!Moves
<1>2. /\ UNCHANGED <<locked, argsLeft, running, arg, ran>>
      /\ place \in [ST!Processes \cup Threads \cup {"main"} -> FilePlaces]
  BY <1>0 DEF ST!Main, ShellTypeOK
<1>3. /\ place'["main"] = to /\ place' \in [ST!Processes \cup Threads \cup {"main"} -> FilePlaces]
      /\ \A q \in ST!Processes \cup Threads : place'[q] = place[q]
  <2>1. to \in FilePlaces
    BY DEF FilePlaces
  <2>2. \A q \in ST!Processes \cup Threads : q # "main"
    BY <1>0
  <2> QED BY <1>1, <1>2, <2>1, <2>2
<1>4. ShellTypeOK'
  BY <1>0, <1>1, <1>2, <1>3 DEF ShellTypeOK
<1>5. LockHeld' /\ ArgumentsKept'
  BY <1>0, <1>2, <1>3 DEF LockHeld, Holds, ArgumentsKept, Hashing
<1>6. ThreadsCounted'
  <2>1. {u \in Threads : place'[u] # "done"} = {u \in Threads : place[u] # "done"}
    BY <1>3
  <2> QED BY <1>0, <1>1, <1>2, <1>3, <2>1 DEF ThreadsCounted
<1> QED BY <1>4, <1>5, <1>6 DEF ShellInv

\* The invariant holds in every behaviour of the three programs.
LEMMA ShellInvariance ==
  ASSUME ST!ShellToolsAssumption, ShellInv, [ST!Next]_(ST!vars)  PROVE ShellInv'
<1>1. CASE \E p \in ST!Processes : ST!Open(p) \/ ST!Command(p) \/ ST!Unlink(p) \/ ST!Killed(p)
  BY <1>1, LockSteps
<1>2. CASE \E t \in Threads : ST!Take(t) \/ ST!Hash(t) \/ ST!Leave(t)
  BY <1>2, TakeStep, HashStep, LeaveStep
<1>3. CASE ST!Main
  BY <1>3, MainStep
<1>4. CASE UNCHANGED ST!vars
  BY <1>4 DEF ST!vars, ShellInv, ShellTypeOK, LockHeld, Holds, ArgumentsKept, Hashing, ThreadsCounted
<1> QED BY <1>1, <1>2, <1>3, <1>4 DEF ST!Next

\* One command at a time under a lock, whoever is killed; and when phash returns the
\* command of each argument has been run once.
LEMMA CommandsAreTrue ==
  ASSUME ST!ShellToolsAssumption, ShellInv  PROVE ST!CommandsTrue
<1>0. IsFiniteSet(Threads) /\ Threads # {} /\ ShellTypeOK /\ LockHeld /\ ArgumentsKept /\ ThreadsCounted
  BY Apart DEF ShellInv
<1> DEFINE R == {t \in Threads : place[t] # "done"}
<1>1. IsFiniteSet(R) /\ running = Cardinality(R)
  BY <1>0, FS_Subset DEF ThreadsCounted
<1>2. running = 0 <=> R = {}
  BY <1>1, FS_EmptySet
<1>3. \A p, q \in ST!Processes : place[p] = "run" =>
        locked /\ (p # q => place[q] \notin {"run", "release"})
  BY <1>0 DEF LockHeld, Holds
<1>4. ASSUME place["main"] = "returned", NEW i \in 1 .. NArgs  PROVE ran[i] = 1
  <2>1. R = {}
    BY <1>0, <1>2, <1>4 DEF ThreadsCounted
  <2>2. \A t \in Threads : place[t] = "done"
    BY <2>1
  <2>3. argsLeft = << >>
    BY <1>0, <2>2 DEF ThreadsCounted
  <2>4. ~Hashing(i) /\ ~(i <= Len(argsLeft))
    BY <2>2, <2>3 DEF Hashing
  <2> QED BY <1>0, <2>4 DEF ArgumentsKept
<1>5. place["main"] = "wait" => \E t \in Threads : place[t] # "done"
  BY <1>0, <1>2 DEF ThreadsCounted
<1> QED BY <1>3, <1>4, <1>5 DEF ST!CommandsTrue

--------------------------------------------------------------------------------
(* Fftw: the parallel tree walk                                            *)

WalkTypeOK ==
  /\ item \in [FW!Named -> {"new", "pending", "running", "done"}]
  /\ nameAt \in [Entries -> {"new", "start", "opendir", "readdir", "fn", "done"}]
  /\ stage \in [{"caller"} -> {1, 2}]
  /\ kind \in [Entries -> {"none", "file", "dir"}]
  /\ flags = [e \in Entries |-> flags[e]]
  /\ unread \in [Entries -> SUBSET FW!Named]
  /\ calls \in [Entries -> Nat] /\ steady \in SUBSET Entries

\* The item of a name is where its process_one_item is.
ItemsTrue ==
  /\ nameAt[Root] # "new"
  /\ \A e \in FW!Named : /\ item[e] \in {"new", "pending"} <=> nameAt[e] = "new"
                         /\ item[e] = "done" <=> nameAt[e] = "done"

CallsMade ==
  \A e \in Entries : calls[e] = IF nameAt[e] = "done" /\ e \notin Hidden THEN 1 ELSE 0

\* A name is submitted while its directory is read, which no hidden one is.
Listed ==
  /\ \A e \in Entries : nameAt[e] \in {"opendir", "readdir"} => flags[e] = "FTW_D"
  /\ \A e \in Entries : nameAt[e] \in {"opendir", "readdir", "fn"} => e \notin Hidden
  /\ \A e \in Entries : \A x \in unread[e] : Up[x] = e
  /\ \A e \in FW!Named : item[e] # "new" =>
       /\ nameAt[Up[e]] \in {"readdir", "fn", "done"} /\ flags[Up[e]] = "FTW_D"
       /\ FW!Above(e) \cap Hidden = {}

\* What has been there all along was found by its directory, if that has been read.
SteadyMet ==
  /\ \A e \in steady : kind[e] # "none" /\ e \notin Hidden
  /\ \A e \in steady \ {Root} :
       /\ Up[e] \in steady /\ kind[Up[e]] = "dir"
       /\ nameAt[Up[e]] = "readdir" => e \in unread[Up[e]]
       /\ nameAt[Up[e]] \in {"fn", "done"} => item[e] # "new"

\* When fftw has returned, nothing is left that could submit a name.
Over ==
  stage["caller"] = 2 =>
    nameAt[Root] = "done" /\ \A e \in FW!Named : item[e] \in {"new", "done"}

WalkInv == WalkTypeOK /\ ItemsTrue /\ CallsMade /\ Listed /\ SteadyMet /\ Over

\* The directories above a name are its own and those above that.
LEMMA AboveUp ==
  ASSUME FW!FftwAssumption
  PROVE  /\ FW!Above(Root) = {}
         /\ \A e \in FW!Named : /\ Up[e] \in Entries
                                /\ FW!Above(e) = FW!Above(Up[e]) \cup {Up[e]}
<1>0. /\ Root \in Entries /\ Up \in [FW!Named -> Entries]
      /\ Below \in [Entries -> SUBSET FW!Named]
      /\ \A e \in Entries : FW!Closed(Below[e], e)
      /\ \A e \in Entries, S \in SUBSET FW!Named : FW!Closed(S, e) => Below[e] \subseteq S
  BY DEF FW!FftwAssumption
<1>1. FW!Above(Root) = {}
  BY <1>0 DEF FW!Above, FW!Named
<1>2. ASSUME NEW e \in FW!Named  PROVE FW!Above(Up[e]) \cup {Up[e]} \subseteq FW!Above(e)
  BY <1>0 DEF FW!Above, FW!Closed
<1>3. ASSUME NEW e \in FW!Named, NEW x \in Entries, e \in Below[x], Up[e] # x, Up[e] \notin Below[x]
      PROVE  FALSE
  <2> DEFINE S == Below[x] \ {e}
  <2>1. S \in SUBSET FW!Named
    BY <1>0
  <2>2. ASSUME NEW y \in FW!Named, Up[y] \in S \cup {x}  PROVE y \in S
    <3>1. y \in Below[x]
      BY <1>0, <2>2 DEF FW!Closed
    <3>2. y # e
      BY <1>3, <2>2
    <3> QED BY <3>1, <3>2
  <2>3. FW!Closed(S, x)
    BY <2>2 DEF FW!Closed
  <2> HIDE DEF S
  <2>4. Below[x] \subseteq S
    BY <1>0, <2>1, <2>3
  <2> QED BY <1>3, <2>4 DEF S
<1>4. ASSUME NEW e \in FW!Named  PROVE FW!Above(e) \subseteq FW!Above(Up[e]) \cup {Up[e]}
  BY <1>0, <1>3 DEF FW!Above
<1>5. \A e \in FW!Named : Up[e] \in Entries
  BY <1>0
<1> QED BY <1>1, <1>2, <1>4, <1>5

\* What holds of the root, and of the names in a name whenever it holds of that, holds of
\* every name.
LEMMA FromTheRoot ==
  ASSUME FW!FftwAssumption, NEW S, Root \in S,
         \A e \in FW!Named : Up[e] \in S => e \in S
  PROVE  Entries \subseteq S
<1> DEFINE R == {e \in FW!Named : e \in S}
<1>1. R \in SUBSET FW!Named /\ FW!Closed(R, Root)
  BY DEF FW!Closed, FW!Named
<1> HIDE DEF R
<1>2. Below[Root] \subseteq R /\ Below[Root] = FW!Named
  BY <1>1 DEF FW!FftwAssumption
<1> QED BY <1>2 DEF R, FW!Named

LEMMA WalkInit ==
  ASSUME FW!FftwAssumption, FW!Init  PROVE WalkInv
<1>0. /\ item = [i \in FW!Named |-> "new"] /\ stage = [c \in {"caller"} |-> 1]
      /\ kind \in WalkTrees /\ nameAt = [e \in Entries |-> IF e = Root THEN "start" ELSE "new"]
      /\ flags = [e \in Entries |-> 0] /\ unread = [e \in Entries |-> {}]
      /\ calls = [e \in Entries |-> 0]
      /\ steady = {e \in Entries : kind[e] # "none" /\ (FW!Above(e) \cup {e}) \cap Hidden = {}}
  BY DEF FW!Init, FW!Pool!PoolInit
<1>1. /\ Root \in Entries /\ kind \in [Entries -> {"none", "file", "dir"}]
      /\ \A e \in FW!Named : kind[e] # "none" => kind[Up[e]] = "dir"
  BY <1>0 DEF FW!FftwAssumption
<1>2. FW!Named = Entries \ {Root}
  BY DEF FW!Named
<1>3. \A e \in FW!Named : Up[e] \in Entries /\ FW!Above(e) = FW!Above(Up[e]) \cup {Up[e]}
  BY AboveUp
<1>4. WalkTypeOK
  <2>1. /\ item \in [FW!Named -> {"new", "pending", "running", "done"}]
        /\ nameAt \in [Entries -> {"new", "start", "opendir", "readdir", "fn", "done"}]
        /\ stage \in [{"caller"} -> {1, 2}]
    BY <1>0
  <2>2. flags = [e \in Entries |-> flags[e]] /\ steady \in SUBSET Entries
    BY <1>0
  <2>3. unread \in [Entries -> SUBSET FW!Named] /\ calls \in [Entries -> Nat]
    BY <1>0
  <2> QED BY <1>1, <2>1, <2>2, <2>3 DEF WalkTypeOK
<1>5. ItemsTrue /\ CallsMade /\ Listed /\ Over
  BY <1>0, <1>1, <1>2 DEF ItemsTrue, CallsMade, Listed, Over
<1>6. SteadyMet
  <2>1. \A e \in steady : kind[e] # "none" /\ e \notin Hidden
    BY <1>0
  <2>2. ASSUME NEW e \in steady \ {Root}
        PROVE  /\ Up[e] \in steady /\ kind[Up[e]] = "dir" /\ nameAt[Up[e]] \in {"new", "start"}
    BY <1>0, <1>1, <1>2, <1>3, <2>2
  <2> QED BY <2>1, <2>2 DEF SteadyMet
<1> QED BY <1>4, <1>5, <1>6 DEF WalkInv

\* While a name is pending, or its callback runs, fftw has not returned.
LEMMA NotOver ==
  ASSUME WalkInv, NEW e \in Entries, Root \in Entries,
         \/ nameAt[e] \in {"start", "opendir", "readdir", "fn"}
         \/ e # Root /\ item[e] = "pending"
  PROVE  stage["caller"] # 2
<1>1. FW!Named = Entries \ {Root}
  BY DEF FW!Named
<1> QED BY <1>1 DEF WalkInv, WalkTypeOK, ItemsTrue, Over

LEMMA WalkTake ==
  ASSUME FW!FftwAssumption, WalkInv, NEW e \in FW!Named, FW!Take(e)  PROVE WalkInv'
<1>0. /\ WalkTypeOK /\ ItemsTrue /\ CallsMade /\ Listed /\ SteadyMet /\ Over
      /\ Root \in Entries /\ FW!Named = Entries \ {Root}
  BY DEF WalkInv, FW!FftwAssumption, FW!Named
<1>1. /\ nameAt[e] = "new" /\ nameAt' = [nameAt EXCEPT ![e] = "start"]
      /\ item[e] = "pending" /\ item' = [item EXCEPT ![e] = "running"]
      /\ UNCHANGED <<stage, kind, steady, flags, unread, calls>>
  BY DEF FW!Take, FW!Goes, FW!Pool!Start, FW!Pool!Becomes, FW!tree
<1>2. stage["caller"] # 2
  BY <1>0, <1>1, NotOver
<1>3. /\ nameAt'[e] = "start" /\ item'[e] = "running"
      /\ \A x \in Entries : x # e => nameAt'[x] = nameAt[x]
      /\ \A x \in FW!Named : x # e => item'[x] = item[x]
  BY <1>0, <1>1 DEF WalkTypeOK
<1>4. WalkTypeOK'
  BY <1>0, <1>1 DEF WalkTypeOK
<1>5. ItemsTrue' /\ CallsMade' /\ Over'
  BY <1>0, <1>1, <1>2, <1>3 DEF ItemsTrue, CallsMade, Over
<1>6. Listed'
  BY <1>0, <1>1, <1>3, AboveUp DEF Listed, FW!Above
<1>7. SteadyMet'
  BY <1>0, <1>1, <1>3 DEF SteadyMet, WalkTypeOK
<1> QED BY <1>4, <1>5, <1>6, <1>7 DEF WalkInv

\* A callback that moves on without returning, and submits nothing.
LEMMA WalkMoves ==
  ASSUME FW!FftwAssumption, WalkInv, NEW e \in Entries,
         NEW to \in {"opendir", "readdir", "fn"},
         nameAt[e] \in {"start", "opendir", "readdir"},
         nameAt' = [nameAt EXCEPT ![e] = to],
         item' = item, stage' = stage, calls' = calls
  PROVE  /\ ItemsTrue' /\ CallsMade' /\ Over'
         /\ nameAt'[e] = to /\ \A x \in Entries : x # e => nameAt'[x] = nameAt[x]
         /\ nameAt' \in [Entries -> {"new", "start", "opendir", "readdir", "fn", "done"}]
<1>0. /\ WalkTypeOK /\ ItemsTrue /\ CallsMade /\ Over
      /\ Root \in Entries /\ FW!Named = Entries \ {Root}
  BY DEF WalkInv, FW!FftwAssumption, FW!Named
<1>1. /\ nameAt'[e] = to /\ \A x \in Entries : x # e => nameAt'[x] = nameAt[x]
      /\ nameAt' \in [Entries -> {"new", "start", "opendir", "readdir", "fn", "done"}]
  BY <1>0 DEF WalkTypeOK
<1>2. stage["caller"] # 2
  BY <1>0, NotOver
<1>3. ItemsTrue' /\ CallsMade' /\ Over'
  BY <1>0, <1>1, <1>2 DEF ItemsTrue, CallsMade, Over
<1> QED BY <1>1, <1>3

LEMMA WalkStat ==
  ASSUME FW!FftwAssumption, WalkInv, NEW e \in Entries, FW!Stat(e)  PROVE WalkInv'
<1> DEFINE to == IF kind[e] = "dir" THEN "opendir" ELSE "fn"
<1>0. /\ WalkTypeOK /\ Listed /\ SteadyMet /\ Up \in [FW!Named -> Entries]
      /\ Root \in Entries /\ FW!Named = Entries \ {Root}
  BY DEF WalkInv, FW!FftwAssumption, FW!Named
<1>1. /\ e \notin Hidden /\ nameAt[e] = "start" /\ nameAt' = [nameAt EXCEPT ![e] = to]
      /\ UNCHANGED <<item, stage, kind, steady, unread, calls>>
  BY DEF FW!Stat, FW!Goes, FW!tree
<1>2. to \in {"opendir", "fn"} /\ (to = "opendir" <=> kind[e] = "dir")
  OBVIOUS
<1> HIDE DEF to
<1>2a. /\ nameAt[e] \in {"start", "opendir", "readdir"} /\ to \in {"opendir", "readdir", "fn"}
      /\ item' = item /\ stage' = stage /\ calls' = calls
  BY <1>1, <1>2
<1>3. /\ ItemsTrue' /\ CallsMade' /\ Over'
      /\ nameAt'[e] = to /\ \A x \in Entries : x # e => nameAt'[x] = nameAt[x]
      /\ nameAt' \in [Entries -> {"new", "start", "opendir", "readdir", "fn", "done"}]
  BY <1>1, <1>2a, WalkMoves
<1>4. /\ \E v : flags' = [flags EXCEPT ![e] = v] /\ (kind[e] = "dir" => v = "FTW_D")
      /\ flags = [x \in Entries |-> flags[x]]
  BY <1>0 DEF FW!Stat, WalkTypeOK
<1>5. /\ flags' = [x \in Entries |-> flags'[x]]
      /\ kind[e] = "dir" => flags'[e] = "FTW_D"
      /\ \A x \in Entries : x # e => flags'[x] = flags[x]
  BY <1>4
<1>6. WalkTypeOK'
  BY <1>0, <1>1, <1>3, <1>5 DEF WalkTypeOK
<1>7. Listed'
  <2>1. \A x \in Entries : /\ nameAt'[x] \in {"opendir", "readdir"} => flags'[x] = "FTW_D"
                           /\ nameAt'[x] \in {"opendir", "readdir", "fn"} => x \notin Hidden
                           /\ \A y \in unread'[x] : Up[y] = x
    BY <1>0, <1>1, <1>2, <1>3, <1>5 DEF Listed
  <2>2. ASSUME NEW x \in FW!Named, item'[x] # "new"
        PROVE  /\ nameAt'[Up[x]] \in {"readdir", "fn", "done"} /\ flags'[Up[x]] = "FTW_D"
               /\ FW!Above(x) \cap Hidden = {}
    <3>1. /\ nameAt[Up[x]] \in {"readdir", "fn", "done"} /\ flags[Up[x]] = "FTW_D"
          /\ FW!Above(x) \cap Hidden = {}
      BY <1>0, <1>1, <2>2 DEF Listed
    <3>2. Up[x] \in Entries /\ Up[x] # e
      BY <1>0, <1>1, <3>1
    <3> QED BY <1>3, <1>5, <3>1, <3>2
  <2> QED BY <2>1, <2>2 DEF Listed, FW!Above
<1>8. SteadyMet'
  <2>1. ASSUME NEW x \in steady \ {Root}
        PROVE  /\ nameAt'[Up[x]] = "readdir" => x \in unread[Up[x]]
               /\ nameAt'[Up[x]] \in {"fn", "done"} => item[x] # "new"
    <3>1. Up[x] \in Entries /\ kind[Up[x]] = "dir"
      BY <1>0 DEF SteadyMet, WalkTypeOK
    <3> QED BY <1>0, <1>2, <1>3, <3>1 DEF SteadyMet
  <2> QED BY <1>0, <1>1, <2>1 DEF SteadyMet
<1> QED BY <1>3, <1>6, <1>7, <1>8 DEF WalkInv

LEMMA WalkEndOfDir ==
  ASSUME FW!FftwAssumption, WalkInv, NEW e \in Entries, FW!EndOfDir(e)  PROVE WalkInv'
<1>0. /\ WalkTypeOK /\ Listed /\ SteadyMet /\ Up \in [FW!Named -> Entries]
      /\ Root \in Entries /\ FW!Named = Entries \ {Root}
  BY DEF WalkInv, FW!FftwAssumption, FW!Named
<1>1. /\ nameAt[e] = "readdir" /\ nameAt' = [nameAt EXCEPT ![e] = "fn"]
      /\ \A x \in unread[e] : kind[x] = "none" \/ item[x] # "new"
      /\ UNCHANGED <<item, stage, kind, steady, flags, unread, calls>>
  BY DEF FW!EndOfDir, FW!Goes, FW!tree
<1>1a. /\ nameAt[e] \in {"start", "opendir", "readdir"} /\ "fn" \in {"opendir", "readdir", "fn"}
      /\ item' = item /\ stage' = stage /\ calls' = calls
  BY <1>1
<1>2. /\ ItemsTrue' /\ CallsMade' /\ Over'
      /\ nameAt'[e] = "fn" /\ \A x \in Entries : x # e => nameAt'[x] = nameAt[x]
      /\ nameAt' \in [Entries -> {"new", "start", "opendir", "readdir", "fn", "done"}]
  BY <1>1, <1>1a, WalkMoves
<1>3. WalkTypeOK'
  BY <1>0, <1>1, <1>2 DEF WalkTypeOK
<1>4. Listed'
  BY <1>0, <1>1, <1>2 DEF Listed, FW!Above
<1>5. SteadyMet'
  <2>1. ASSUME NEW x \in steady \ {Root}
        PROVE  /\ nameAt'[Up[x]] = "readdir" => x \in unread[Up[x]]
               /\ nameAt'[Up[x]] \in {"fn", "done"} => item[x] # "new"
    <3>1. Up[x] \in Entries /\ kind[x] # "none"
      BY <1>0 DEF SteadyMet, WalkTypeOK
    <3>2. CASE Up[x] = e
      BY <1>0, <1>1, <1>2, <3>1, <3>2 DEF SteadyMet
    <3>3. CASE Up[x] # e
      BY <1>0, <1>2, <3>1, <3>3 DEF SteadyMet
    <3> QED BY <3>2, <3>3
  <2> QED BY <1>0, <1>1, <2>1 DEF SteadyMet
<1> QED BY <1>2, <1>3, <1>4, <1>5 DEF WalkInv

\* readdir_r fails: what is still to be met has been listed before.
LEMMA WalkReaddirFails ==
  ASSUME FW!FftwAssumption, WalkInv, NEW e \in Entries, FW!readdirFails(e)  PROVE WalkInv'
<1> DEFINE Missed == {x \in unread[e] : item[x] = "new"}
<1>0. /\ WalkTypeOK /\ Listed /\ SteadyMet /\ Up \in [FW!Named -> Entries]
      /\ Root \in Entries /\ FW!Named = Entries \ {Root}
      /\ \A x \in Entries : FW!Closed(Below[x], x)
  BY DEF WalkInv, FW!FftwAssumption, FW!Named
<1>1. /\ nameAt[e] = "readdir" /\ nameAt' = [nameAt EXCEPT ![e] = "fn"]
      /\ steady' = steady \ UNION {FW!Subtree(x) : x \in Missed}
      /\ UNCHANGED <<item, stage, kind, flags, unread, calls>>
  BY DEF FW!readdirFails, FW!Goes
<1>1a. /\ nameAt[e] \in {"start", "opendir", "readdir"} /\ "fn" \in {"opendir", "readdir", "fn"}
      /\ item' = item /\ stage' = stage /\ calls' = calls
  BY <1>1
<1>2. /\ ItemsTrue' /\ CallsMade' /\ Over'
      /\ nameAt'[e] = "fn" /\ \A x \in Entries : x # e => nameAt'[x] = nameAt[x]
      /\ nameAt' \in [Entries -> {"new", "start", "opendir", "readdir", "fn", "done"}]
  BY <1>1, <1>1a, WalkMoves
<1>3. WalkTypeOK'
  BY <1>0, <1>1, <1>2 DEF WalkTypeOK
<1>4. Listed'
  BY <1>0, <1>1, <1>2 DEF Listed, FW!Above
<1>5. SteadyMet'
  <2>1. ASSUME NEW x \in steady' \ {Root}
        PROVE  /\ x \in steady /\ x \in FW!Named /\ Up[x] \in Entries
               /\ Up[x] \in steady /\ kind[Up[x]] = "dir" /\ kind[x] # "none"
    BY <1>0, <1>1 DEF SteadyMet, WalkTypeOK
  <2>2. ASSUME NEW x \in steady' \ {Root}  PROVE Up[x] \in steady'
    <3>1. ASSUME NEW y \in Missed, Up[x] \in FW!Subtree(y)  PROVE x \in FW!Subtree(y)
      <4>1. y \in Entries
        BY <1>0, <3>1 DEF WalkTypeOK
      <4> QED BY <1>0, <2>1, <3>1, <4>1 DEF FW!Subtree, FW!Closed
    <3> QED BY <1>1, <2>1, <3>1
  <2>3. ASSUME NEW x \in steady' \ {Root}
        PROVE  /\ nameAt'[Up[x]] = "readdir" => x \in unread[Up[x]]
               /\ nameAt'[Up[x]] \in {"fn", "done"} => item[x] # "new"
    <3>1. CASE Up[x] # e
      BY <1>0, <1>2, <2>1, <3>1 DEF SteadyMet
    <3>2. CASE Up[x] = e
      <4>1. x \in unread[e] /\ x \notin Missed
        BY <1>0, <1>1, <2>1, <3>2 DEF SteadyMet, FW!Subtree
      <4> QED BY <1>2, <3>2, <4>1
    <3> QED BY <3>1, <3>2
  <2>4. \A x \in steady' : kind[x] # "none" /\ x \notin Hidden
    BY <1>0, <1>1 DEF SteadyMet
  <2> QED BY <1>1, <2>1, <2>2, <2>3, <2>4 DEF SteadyMet
<1> QED BY <1>2, <1>3, <1>4, <1>5 DEF WalkInv

\* opendir: the directory holds what it lists now, or what is below it could not be read.
LEMMA Walkopendir ==
  ASSUME FW!FftwAssumption, WalkInv, NEW e \in Entries, FW!opendir(e)  PROVE WalkInv'
<1>0. /\ WalkTypeOK /\ Listed /\ SteadyMet /\ Up \in [FW!Named -> Entries]
      /\ Root \in Entries /\ FW!Named = Entries \ {Root}
      /\ \A x \in Entries : FW!Closed(Below[x], x)
  BY DEF WalkInv, FW!FftwAssumption, FW!Named
<1>1. /\ nameAt[e] = "opendir" /\ e \in Entries
      /\ UNCHANGED <<item, stage, kind, flags, calls>>
  BY DEF FW!opendir, FW!Goes
<1>2. PICK to \in {"opendir", "readdir", "fn"} :
        /\ to # "opendir" /\ nameAt' = [nameAt EXCEPT ![e] = to]
        /\ \/ /\ to = "readdir" /\ unread' = [unread EXCEPT ![e] = FW!Listing(e)] /\ steady' = steady
           \/ /\ to = "fn" /\ unread' = unread /\ steady' = steady \ Below[e]
  BY DEF FW!opendir, FW!Goes
<1>3. /\ nameAt[e] \in {"start", "opendir", "readdir"}
      /\ item' = item /\ stage' = stage /\ calls' = calls
  BY <1>1
<1>4. /\ ItemsTrue' /\ CallsMade' /\ Over'
      /\ nameAt'[e] = to /\ \A x \in Entries : x # e => nameAt'[x] = nameAt[x]
      /\ nameAt' \in [Entries -> {"new", "start", "opendir", "readdir", "fn", "done"}]
  BY <1>2, <1>3, WalkMoves
<1>5. /\ FW!Listing(e) \subseteq FW!Named /\ \A x \in FW!Listing(e) : Up[x] = e
      /\ \A x \in FW!Named : Up[x] = e /\ kind[x] # "none" => x \in FW!Listing(e)
  BY DEF FW!Listing
<1>6. /\ unread' \in [Entries -> SUBSET FW!Named] /\ steady' \subseteq steady
      /\ to = "readdir" => unread'[e] = FW!Listing(e)
      /\ to = "fn" => unread'[e] = unread[e]
      /\ \A x \in Entries : x # e => unread'[x] = unread[x]
  <2>1. unread \in [Entries -> SUBSET FW!Named]
    BY <1>0 DEF WalkTypeOK
  <2> QED BY <1>2, <1>5, <2>1
<1>7. WalkTypeOK'
  BY <1>0, <1>1, <1>4, <1>6 DEF WalkTypeOK
<1>8. Listed'
  <2>1. \A x \in Entries : /\ nameAt'[x] \in {"opendir", "readdir"} => flags[x] = "FTW_D"
                           /\ nameAt'[x] \in {"opendir", "readdir", "fn"} => x \notin Hidden
    BY <1>0, <1>1, <1>4 DEF Listed
  <2>2. \A x \in Entries : \A y \in unread'[x] : Up[y] = x
    BY <1>0, <1>2, <1>5, <1>6 DEF Listed
  <2>3. ASSUME NEW x \in FW!Named, item[x] # "new"
        PROVE  /\ nameAt'[Up[x]] \in {"readdir", "fn", "done"} /\ flags[Up[x]] = "FTW_D"
               /\ FW!Above(x) \cap Hidden = {}
    BY <1>0, <1>1, <1>2, <1>4, <2>3 DEF Listed
  <2> QED BY <1>1, <2>1, <2>2, <2>3 DEF Listed, FW!Above
<1>9. SteadyMet'
  <2>1. ASSUME NEW x \in steady' \ {Root}
        PROVE  /\ x \in steady /\ x \in FW!Named /\ Up[x] \in Entries
               /\ Up[x] \in steady /\ kind[Up[x]] = "dir" /\ kind[x] # "none"
    BY <1>0, <1>6 DEF SteadyMet, WalkTypeOK
  <2>2. ASSUME NEW x \in steady' \ {Root}  PROVE Up[x] \in steady'
    BY <1>0, <1>2, <2>1 DEF FW!Closed
  <2>3. ASSUME NEW x \in steady' \ {Root}
        PROVE  /\ nameAt'[Up[x]] = "readdir" => x \in unread'[Up[x]]
               /\ nameAt'[Up[x]] \in {"fn", "done"} => item[x] # "new"
    <3>1. CASE Up[x] # e
      BY <1>0, <1>4, <1>6, <2>1, <3>1 DEF SteadyMet
    <3>2. CASE Up[x] = e /\ to = "readdir"
      BY <1>4, <1>5, <1>6, <2>1, <3>2
    <3>3. CASE Up[x] = e /\ to = "fn"
      BY <1>0, <1>2, <2>1, <3>3 DEF FW!Closed
    <3> QED BY <1>2, <3>1, <3>2, <3>3
  <2> QED BY <1>0, <1>1, <1>6, <2>1, <2>2, <2>3 DEF SteadyMet
<1> QED BY <1>4, <1>7, <1>8, <1>9 DEF WalkInv

\* readdir: one more name of the directory is submitted.
LEMMA Walkreaddir ==
  ASSUME FW!FftwAssumption, WalkInv, NEW e \in Entries, NEW d \in FW!Named, FW!readdir(e, d)
  PROVE  WalkInv'
<1>0. /\ WalkTypeOK /\ ItemsTrue /\ CallsMade /\ Listed /\ SteadyMet /\ Over
      /\ Root \in Entries /\ FW!Named = Entries \ {Root}
  BY DEF WalkInv, FW!FftwAssumption, FW!Named
<1>1. /\ nameAt[e] = "readdir" /\ d \in FW!Listing(e) \cup unread[e]
      /\ item[d] = "new" /\ item' = [item EXCEPT ![d] = "pending"]
      /\ UNCHANGED <<stage, kind, steady, nameAt, flags, unread, calls>>
  BY DEF FW!readdir, FW!Pool!Submit, FW!Pool!Becomes, FW!tree, FW!walk
<1>2. Up[d] = e
  BY <1>0, <1>1 DEF FW!Listing, Listed
<1>3. stage["caller"] # 2
  BY <1>0, <1>1, NotOver
<1>4. item'[d] = "pending" /\ \A x \in FW!Named : x # d => item'[x] = item[x]
  BY <1>0, <1>1 DEF WalkTypeOK
<1>5. WalkTypeOK'
  BY <1>0, <1>1 DEF WalkTypeOK
<1>6. ItemsTrue' /\ CallsMade' /\ Over'
  BY <1>0, <1>1, <1>3, <1>4 DEF ItemsTrue, CallsMade, Over
<1>7. Listed'
  <2>1. FW!Above(d) = FW!Above(e) \cup {e} /\ FW!Above(Root) = {}
    BY <1>2, AboveUp
  <2>2. e \notin Hidden /\ flags[e] = "FTW_D"
    BY <1>0, <1>1 DEF Listed
  <2>3. FW!Above(e) \cap Hidden = {}
    <3>1. e # Root => item[e] # "new"
      BY <1>0, <1>1 DEF ItemsTrue
    <3> QED BY <1>0, <2>1, <3>1 DEF Listed
  <2>4. ASSUME NEW x \in FW!Named, item'[x] # "new"
        PROVE  /\ nameAt[Up[x]] \in {"readdir", "fn", "done"} /\ flags[Up[x]] = "FTW_D"
               /\ FW!Above(x) \cap Hidden = {}
    <3>1. CASE x = d
      BY <1>1, <1>2, <2>1, <2>2, <2>3, <3>1
    <3>2. CASE x # d
      BY <1>0, <1>4, <2>4, <3>2 DEF Listed
    <3> QED BY <3>1, <3>2
  <2> QED BY <1>0, <1>1, <2>4 DEF Listed, FW!Above
<1>8. SteadyMet'
  <2>1. \A x \in steady \ {Root} : x \in FW!Named
    BY <1>0 DEF WalkTypeOK
  <2> QED BY <1>0, <1>1, <1>4, <2>1 DEF SteadyMet
<1> QED BY <1>5, <1>6, <1>7, <1>8 DEF WalkInv

\* process_one_item returns, at a hidden name or after the call of fn.
LEMMA WalkReturns ==
  ASSUME FW!FftwAssumption, WalkInv, NEW e \in Entries, FW!Skip(e) \/ FW!fn(e)
  PROVE  WalkInv'
<1>0. /\ WalkTypeOK /\ ItemsTrue /\ CallsMade /\ Listed /\ SteadyMet /\ Over
      /\ Root \in Entries /\ FW!Named = Entries \ {Root} /\ Root \notin Hidden
  BY DEF WalkInv, FW!FftwAssumption, FW!Named
<1>1. /\ nameAt[e] \in {"start", "fn"} /\ nameAt' = [nameAt EXCEPT ![e] = "done"]
      /\ UNCHANGED <<stage, kind, steady, flags, unread>>
      /\ \/ e = Root /\ item' = item
         \/ e # Root /\ item[e] = "running" /\ item' = [item EXCEPT ![e] = "done"]
  BY DEF FW!Skip, FW!fn, FW!Goes, FW!Returns, FW!Pool!Finish, FW!Pool!Becomes, FW!tree
<1>2. \/ e \in Hidden /\ nameAt[e] = "start" /\ calls' = calls
      \/ e \notin Hidden /\ nameAt[e] = "fn" /\ calls' = [calls EXCEPT ![e] = calls[e] + 1]
  BY <1>0 DEF FW!Skip, FW!fn, FW!Goes, Listed
<1>3. stage["caller"] # 2
  BY <1>0, <1>1, NotOver
<1>4. /\ nameAt'[e] = "done" /\ \A x \in Entries : x # e => nameAt'[x] = nameAt[x]
      /\ nameAt' \in [Entries -> {"new", "start", "opendir", "readdir", "fn", "done"}]
  BY <1>0, <1>1 DEF WalkTypeOK
<1>5. /\ item' \in [FW!Named -> {"new", "pending", "running", "done"}]
      /\ \A x \in FW!Named : x # e => item'[x] = item[x]
      /\ e # Root => item'[e] = "done" /\ item[e] = "running"
  BY <1>0, <1>1 DEF WalkTypeOK
<1>6. calls' \in [Entries -> Nat] /\ CallsMade'
  <2>1. calls \in [Entries -> Nat] /\ calls[e] = 0
    BY <1>0, <1>1 DEF WalkTypeOK, CallsMade
  <2>2. calls' \in [Entries -> Nat] /\ (\A x \in Entries : x # e => calls'[x] = calls[x])
        /\ calls'[e] = IF e \in Hidden THEN 0 ELSE 1
    BY <1>2, <2>1
  <2> QED BY <1>0, <1>4, <2>2 DEF CallsMade
<1>7. WalkTypeOK'
  BY <1>0, <1>1, <1>4, <1>5, <1>6 DEF WalkTypeOK
<1>8. ItemsTrue' /\ Over'
  BY <1>0, <1>1, <1>3, <1>4, <1>5 DEF ItemsTrue, Over
<1>9. Listed'
  <2>1. \A x \in Entries : /\ nameAt'[x] \in {"opendir", "readdir"} => flags[x] = "FTW_D"
                           /\ nameAt'[x] \in {"opendir", "readdir", "fn"} => x \notin Hidden
    BY <1>0, <1>4 DEF Listed
  <2>2. ASSUME NEW x \in FW!Named, item'[x] # "new"
        PROVE  /\ nameAt'[Up[x]] \in {"readdir", "fn", "done"} /\ flags[Up[x]] = "FTW_D"
               /\ FW!Above(x) \cap Hidden = {}
    <3>1. item[x] # "new"
      BY <1>0, <1>5, <2>2
    <3>2. Up[x] \in Entries
      BY AboveUp
    <3> QED BY <1>0, <1>4, <3>1, <3>2 DEF Listed
  <2> QED BY <1>0, <1>1, <2>1, <2>2 DEF Listed, FW!Above
<1>10. SteadyMet'
  <2>1. ASSUME NEW x \in steady \ {Root}
        PROVE  /\ nameAt'[Up[x]] = "readdir" => x \in unread[Up[x]]
               /\ nameAt'[Up[x]] \in {"fn", "done"} => item'[x] # "new"
    <3>1. x \in FW!Named /\ Up[x] \in Entries /\ Up[x] \notin Hidden
      BY <1>0 DEF SteadyMet, WalkTypeOK
    <3>2. CASE Up[x] = e
      <4>1. item[x] # "new"
        BY <1>0, <1>2, <3>1, <3>2 DEF SteadyMet
      <4> QED BY <1>0, <1>4, <1>5, <3>1, <3>2, <4>1
    <3>3. CASE Up[x] # e
      BY <1>0, <1>4, <1>5, <3>1, <3>3 DEF SteadyMet
    <3> QED BY <3>2, <3>3
  <2> QED BY <1>0, <1>1, <2>1 DEF SteadyMet
<1> QED BY <1>6, <1>7, <1>8, <1>9, <1>10 DEF WalkInv

LEMMA Walkbwait ==
  ASSUME FW!FftwAssumption, WalkInv, FW!bwait  PROVE WalkInv'
<1>0. /\ WalkTypeOK /\ ItemsTrue /\ CallsMade /\ Listed /\ SteadyMet /\ Over
  BY DEF WalkInv
<1>1. /\ nameAt[Root] = "done" /\ stage["caller"] = 1
      /\ stage' = [stage EXCEPT !["caller"] = 2]
      /\ \A e \in FW!Named : item[e] \notin {"pending", "running"}
      /\ UNCHANGED <<item, kind, steady, nameAt, flags, unread, calls>>
  <2>1. /\ nameAt[Root] = "done" /\ FW!Pool!Pass("caller")
        /\ UNCHANGED <<kind, steady, nameAt, flags, unread, calls>>
    BY DEF FW!bwait, FW!tree, FW!walk
  <2>2. stage["caller"] \in {1, 2}
    BY <1>0 DEF WalkTypeOK
  <2>3. stage["caller"] <= 1
    BY <2>1 DEF FW!Pool!Pass
  <2>4. stage["caller"] = 1
    BY <2>2, <2>3
  <2>5. stage' = [stage EXCEPT !["caller"] = stage["caller"] + 1] /\ item' = item
    BY <2>1 DEF FW!Pool!Pass
  <2>6. FW!Pool!Outstanding("bar") = {}
    BY <2>1, <2>4 DEF FW!Pool!Pass
  <2>7. \A e \in FW!Named : item[e] \notin {"pending", "running"}
    BY <2>6 DEF FW!Pool!Outstanding, FW!BarOf
  <2> QED BY <2>1, <2>4, <2>5, <2>7
<1>2. stage' \in [{"caller"} -> {1, 2}] /\ stage'["caller"] = 2
  BY <1>0, <1>1 DEF WalkTypeOK
<1>3. WalkTypeOK'
  BY <1>0, <1>1, <1>2 DEF WalkTypeOK
<1>4. Over'
  BY <1>0, <1>1 DEF Over, WalkTypeOK
<1>5. ItemsTrue' /\ CallsMade' /\ Listed' /\ SteadyMet'
  BY <1>0, <1>1 DEF ItemsTrue, CallsMade, Listed, SteadyMet, FW!Above
<1> QED BY <1>3, <1>4, <1>5 DEF WalkInv

\* Somebody removes a name or adds one: what stays is listed as before.
LEMMA WalkChanges ==
  ASSUME FW!FftwAssumption, WalkInv, NEW e \in FW!Named, FW!Remove(e) \/ FW!Add(e)
  PROVE  WalkInv'
<1>0. /\ WalkTypeOK /\ ItemsTrue /\ CallsMade /\ Listed /\ SteadyMet /\ Over
      /\ FW!Named = Entries \ {Root} /\ \A x \in Entries : FW!Closed(Below[x], x)
  BY DEF WalkInv, FW!FftwAssumption, FW!Named
<1>1. UNCHANGED <<item, stage, nameAt, flags, unread, calls>>
  BY DEF FW!Remove, FW!Add, FW!walk
<1>2. ItemsTrue' /\ CallsMade' /\ Listed' /\ Over'
  BY <1>0, <1>1 DEF ItemsTrue, CallsMade, Listed, Over, FW!Above
<1>3. /\ kind' \in [Entries -> {"none", "file", "dir"}] /\ steady' \subseteq steady
      /\ \A x \in steady' : kind'[x] = kind[x]
      /\ \A x \in steady' \ {Root} : Up[x] \in steady'
  <2>0. /\ kind \in [Entries -> {"none", "file", "dir"}] /\ e \in Entries /\ steady \in SUBSET Entries
    BY <1>0 DEF WalkTypeOK
  <2>1. CASE FW!Remove(e)
    <3>1. /\ kind' = [d \in Entries |-> IF d \in FW!Subtree(e) THEN "none" ELSE kind[d]]
          /\ steady' = steady \ FW!Subtree(e)
      BY <2>1 DEF FW!Remove
    <3>2. \A x \in steady' \ {Root} : x \in FW!Named /\ Up[x] \in steady
      BY <1>0, <2>0, <3>1 DEF SteadyMet
    <3>3. \A x \in steady' \ {Root} : Up[x] \notin FW!Subtree(e)
      BY <1>0, <2>0, <3>1, <3>2 DEF FW!Subtree, FW!Closed
    <3> QED BY <2>0, <3>1, <3>2, <3>3
  <2>2. CASE FW!Add(e)
    <3>1. /\ kind[e] = "none" /\ steady' = steady
          /\ \E k \in {"file", "dir"} : kind' = [kind EXCEPT ![e] = k]
      BY <2>2 DEF FW!Add
    <3>2. e \notin steady
      BY <1>0, <3>1 DEF SteadyMet
    <3> QED BY <1>0, <2>0, <3>1, <3>2 DEF SteadyMet
  <2> QED BY <2>1, <2>2
<1>4. WalkTypeOK'
  BY <1>0, <1>1, <1>3 DEF WalkTypeOK
<1>5. SteadyMet'
  <2>1. \A x \in steady' : kind'[x] # "none" /\ x \notin Hidden
    BY <1>0, <1>3 DEF SteadyMet
  <2>2. ASSUME NEW x \in steady' \ {Root}
        PROVE  /\ Up[x] \in steady' /\ kind'[Up[x]] = "dir"
               /\ nameAt[Up[x]] = "readdir" => x \in unread[Up[x]]
               /\ nameAt[Up[x]] \in {"fn", "done"} => item[x] # "new"
    BY <1>0, <1>3 DEF SteadyMet
  <2> QED BY <1>1, <2>1, <2>2 DEF SteadyMet
<1> QED BY <1>2, <1>4, <1>5 DEF WalkInv

\* The invariant holds in every walk, of any tree and whatever changes in it.
LEMMA WalkInvariance ==
  ASSUME FW!FftwAssumption, WalkInv, [FW!Next]_(FW!vars)  PROVE WalkInv'
<1>1. CASE \E e \in FW!Named : FW!Take(e) \/ FW!Remove(e) \/ FW!Add(e)
  BY <1>1, WalkTake, WalkChanges
<1>2. CASE \E e \in Entries : FW!process_one_item(e)
  <2> PICK e \in Entries : FW!process_one_item(e)
    BY <1>2
  <2>1. CASE FW!Skip(e) \/ FW!fn(e)
    BY <2>1, WalkReturns
  <2>2. CASE FW!Stat(e)
    BY <2>2, WalkStat
  <2>3. CASE FW!opendir(e)
    BY <2>3, Walkopendir
  <2>4. CASE FW!EndOfDir(e)
    BY <2>4, WalkEndOfDir
  <2>5. CASE \E d \in FW!Named : FW!readdir(e, d)
    BY <2>5, Walkreaddir
  <2>6. CASE FW!readdirFails(e)
    BY <2>6, WalkReaddirFails
  <2> QED BY <2>1, <2>2, <2>3, <2>4, <2>5, <2>6 DEF FW!process_one_item
<1>3. CASE FW!bwait
  BY <1>3, Walkbwait
<1>4. CASE UNCHANGED FW!vars
  BY <1>4 DEF FW!vars, FW!tree, FW!walk, WalkInv, WalkTypeOK, ItemsTrue, CallsMade, Listed,
              FW!Above, SteadyMet, Over
<1> QED BY <1>1, <1>2, <1>3, <1>4 DEF FW!Next

\* In every tree and whatever changes in it, fn is called once at most for a name; and
\* when fftw returns nothing is outstanding and no name that stayed was missed: from the
\* root down, whatever stayed was found by its directory.
LEMMA TreeCovered ==
  ASSUME FW!FftwAssumption, WalkInv  PROVE FW!WalkCovers
<1>0. /\ WalkTypeOK /\ ItemsTrue /\ CallsMade /\ Listed /\ SteadyMet /\ Over
      /\ Root \in Entries /\ FW!Named = Entries \ {Root}
      /\ FW!Above(Root) = {} /\ steady \in SUBSET Entries
  BY AboveUp DEF WalkInv, FW!FftwAssumption, FW!Named, WalkTypeOK
<1>1. ASSUME NEW e \in Entries, calls[e] # 0
      PROVE  /\ calls[e] = 1 /\ (FW!Above(e) \cup {e}) \cap Hidden = {}
             /\ e # Root => flags[Up[e]] = "FTW_D"
  <2>1. calls[e] = 1 /\ nameAt[e] = "done" /\ e \notin Hidden
    BY <1>0, <1>1 DEF CallsMade
  <2>2. CASE e = Root
    BY <1>0, <2>1, <2>2
  <2>3. CASE e # Root
    <3>1. e \in FW!Named /\ item[e] # "new"
      BY <1>0, <2>1, <2>3 DEF ItemsTrue
    <3> QED BY <1>0, <2>1, <3>1 DEF Listed
  <2> QED BY <2>2, <2>3
<1>2. ASSUME stage["caller"] = 2
      PROVE  /\ \A e \in Entries : nameAt[e] \in {"new", "done"}
             /\ \A e \in FW!Named : item[e] \in {"new", "done"}
             /\ \A e \in steady : calls[e] = 1
             /\ \A e \in Entries : calls[e] = 1 /\ e # Root => calls[Up[e]] = 1
  <2>1. nameAt[Root] = "done" /\ \A e \in FW!Named : item[e] \in {"new", "done"}
    BY <1>0, <1>2 DEF Over
  <2>2. \A e \in Entries : nameAt[e] \in {"new", "done"}
    BY <1>0, <2>1 DEF ItemsTrue
  <2>3. \A e \in steady : nameAt[e] = "done"
    <3> DEFINE S == {e \in Entries : e \in steady => nameAt[e] = "done"}
    <3>1. Root \in S
      BY <1>0, <2>1
    <3>2. ASSUME NEW e \in FW!Named, Up[e] \in S  PROVE e \in S
      <4>1. CASE e \in steady
        <5>1. Up[e] \in steady
          BY <1>0, <4>1 DEF SteadyMet
        <5>2. item[e] # "new"
          BY <1>0, <3>2, <4>1, <5>1 DEF SteadyMet
        <5> QED BY <1>0, <2>1, <5>2 DEF ItemsTrue
      <4>2. CASE e \notin steady
        BY <1>0, <4>2
      <4> QED BY <4>1, <4>2
    <3> HIDE DEF S
    <3>3. Entries \subseteq S
      BY <3>1, <3>2, FromTheRoot
    <3> QED BY <1>0, <3>3 DEF S
  <2>4. \A e \in steady : calls[e] = 1
    BY <1>0, <2>3 DEF CallsMade, SteadyMet
  <2>5. ASSUME NEW e \in Entries, calls[e] = 1, e # Root  PROVE calls[Up[e]] = 1
    <3>1. e \in FW!Named /\ nameAt[e] = "done" /\ Up[e] \in Entries
          /\ FW!Above(e) = FW!Above(Up[e]) \cup {Up[e]}
      BY <1>0, <2>5, AboveUp DEF CallsMade
    <3>2. nameAt[Up[e]] \in {"readdir", "fn", "done"} /\ Up[e] \notin Hidden
      BY <1>0, <3>1 DEF ItemsTrue, Listed
    <3> QED BY <1>0, <2>2, <3>1, <3>2 DEF CallsMade
  <2> QED BY <2>1, <2>2, <2>4, <2>5
<1> QED BY <1>1, <1>2 DEF FW!WalkCovers

--------------------------------------------------------------------------------
(* PoolTools: cpcr2 and transactor                                         *)

Stages == {"unseen", "md5", "lookup", "create", "write", "verify", "jpg", "done", "missed"}
Storing(f)   == itemAt[f] \in {"create", "write", "verify"}
Owns(f)      == f \in copied \/ Storing(f)
Numbered(f)  == f \in copied \/ itemAt[f] \in {"write", "verify"}
FirstFiles   == IF program = "cpcr2" THEN Cr2Files ELSE RefFiles
StoredFiles  == Cr2Files \cup RefFiles

PoolTypeOK ==
  /\ program \in {"cpcr2", "transactor"} /\ main \in {"walk", "dirs", "done"}
  /\ walkTodo \in [PT!Walkers -> SUBSET PT!Files]
  /\ dirAt \in [Dirs -> {"idle", "queued", "walk", "done"}]
  /\ itemAt \in [PT!Files -> Stages]
  /\ hval = [f \in PT!Files |-> hval[f]]
  /\ seq \in [PT!Files -> Nat] /\ nextSeq \in Nat
  /\ copied \in SUBSET Cr2Files /\ IsFiniteSet(set)
  /\ copies = [p \in DOMAIN copies |-> copies[p]]
  /\ counters \in [nFiles : Nat, nUnique : Nat, nDuplicate : Nat, nCR2Err : Nat, nJPGErr : Nat,
                   nRecords : Nat, nMisses : Nat]

\* main goes on when all that the files before needed is done, and ends when nothing is
\* left.
InPhases ==
  /\ main = "walk" \/ program = "cpcr2" => \A d \in Dirs : dirAt[d] = "idle"
  /\ program = "cpcr2" => main # "dirs"
  /\ main # "walk" => walkTodo["main"] = {} /\ \A f \in StoredFiles : itemAt[f] \in {"unseen", "done"}
  /\ main = "done" => /\ \A f \in PT!Files : itemAt[f] \in {"unseen", "done", "missed"}
                      /\ program = "transactor" => \A d \in Dirs : dirAt[d] = "done"
  /\ \A d \in Dirs : dirAt[d] = "done" => walkTodo[d] = {}
  /\ \A d \in Dirs : dirAt[d] \in {"idle", "queued"} => \A f \in FilesIn[d] : itemAt[f] = "unseen"

\* A walk has still to visit the files that nobody has seen.
Visits ==
  /\ walkTodo["main"] = {f \in FirstFiles : itemAt[f] = "unseen"}
  /\ \A d \in Dirs : walkTodo[d] = {f \in FilesIn[d] : itemAt[f] = "unseen"}
  /\ \A f \in StoredFiles \ FirstFiles : itemAt[f] = "unseen"
  /\ \A f \in PT!Files : itemAt[f] \in {"create", "write", "verify", "jpg"} => f \in Cr2Files
  /\ \A f \in PT!Files : itemAt[f] = "missed" => f \in PT!CandFiles

\* A hash in the set whose string was not freed belongs to one file at most, which is
\* being copied or was, under a number of its own; nobody writes to that copy again.
Ownership ==
  /\ \A f \in PT!Files : Owns(f) => hval[f] \in set \ freed
  /\ \A f, g \in PT!Files : Owns(f) /\ Owns(g) /\ hval[f] = hval[g] => f = g
  /\ \A f \in PT!Files : Numbered(f) => seq[f] < nextSeq /\ PT!Place(f) \in DOMAIN copies
  /\ \A f, g \in PT!Files : Numbered(f) /\ Numbered(g) /\ seq[f] = seq[g] => f = g
  /\ \A f \in copied : itemAt[f] \in {"jpg", "done"} /\ FileMd5[copies[PT!Place(f)]] = hval[f]

\* Every hash that was looked up is in the set, and, while no copy failed, with its owner.
KeysRemembered ==
  /\ \A f \in StoredFiles : itemAt[f] \in {"create", "write", "verify", "jpg", "done"} => hval[f] \in set
  /\ program = "cpcr2" /\ counters.nCR2Err = 0 =>
       freed = {} /\ \A x \in set : \E f \in Cr2Files : Owns(f) /\ hval[f] = x
  /\ program = "transactor" =>
       freed = {} /\ \A x \in set : \E f \in RefFiles : itemAt[f] = "done" /\ hval[f] = x

\* A candidate is a miss exactly if the set does not have its hash.
MissesKnown ==
  \A f \in PT!CandFiles : /\ itemAt[f] = "missed" => hval[f] \notin set
                          /\ itemAt[f] = "done" => hval[f] \in set

BeingHashed == {f \in StoredFiles : itemAt[f] \in {"md5", "lookup"}}
BeingStored == {f \in Cr2Files : Storing(f)}
SeenCands   == {f \in PT!CandFiles : itemAt[f] # "unseen"}
MissedCands == {f \in PT!CandFiles : itemAt[f] = "missed"}

Counted ==
  /\ counters.nFiles = counters.nUnique + counters.nDuplicate + Cardinality(BeingHashed)
  /\ program = "cpcr2" =>
       counters.nUnique = Cardinality(copied) + counters.nCR2Err + Cardinality(BeingStored)
  /\ program = "transactor" => counters.nUnique = Cardinality(set)
  /\ counters.nRecords = Cardinality(SeenCands)
  /\ counters.nMisses = Cardinality(MissedCands)

PoolInv == /\ PoolTypeOK /\ InPhases /\ Visits /\ Ownership /\ KeysRemembered
           /\ MissesKnown /\ Counted

\* This module too brings its own operators on finite sets.
LEMMA SameFinitePT ==
  \A S : (PT!IsFiniteSet(S) <=> IsFiniteSet(S)) /\ PT!Cardinality(S) = Cardinality(S)
<1>1. \A S : PT!IsFiniteSet(S) <=> IsFiniteSet(S)
  BY DEF PT!IsFiniteSet, IsFiniteSet
<1>2. \A S : PT!Cardinality(S) = Cardinality(S)
  BY Zenon DEF PT!Cardinality, Cardinality
<1> QED BY <1>1, <1>2

LEMMA FilesApart ==
  ASSUME PT!PoolToolsAssumption
  PROVE  /\ PT!Files = StoredFiles \cup PT!CandFiles /\ StoredFiles \cap PT!CandFiles = {}
         /\ Cr2Files \cap RefFiles = {}
         /\ IsFiniteSet(PT!Files) /\ IsFiniteSet(StoredFiles) /\ IsFiniteSet(Cr2Files)
         /\ IsFiniteSet(RefFiles) /\ IsFiniteSet(PT!CandFiles)
         /\ "main" \notin Dirs /\ \A d \in Dirs : FilesIn[d] \subseteq PT!CandFiles
         /\ \A f \in PT!CandFiles : \E d \in Dirs : f \in FilesIn[d]
         /\ \A d, e \in Dirs : d # e => FilesIn[d] \cap FilesIn[e] = {}
         /\ FirstFiles \subseteq StoredFiles
<1>1. /\ PT!Files = StoredFiles \cup PT!CandFiles /\ StoredFiles \cap PT!CandFiles = {}
      /\ Cr2Files \cap RefFiles = {}
  BY DEF PT!PoolToolsAssumption, PT!Files, StoredFiles
<1>2. IsFiniteSet(PT!Files)
  BY SameFinitePT DEF PT!PoolToolsAssumption
<1>3. /\ IsFiniteSet(StoredFiles) /\ IsFiniteSet(Cr2Files) /\ IsFiniteSet(RefFiles)
      /\ IsFiniteSet(PT!CandFiles)
  BY <1>1, <1>2, FS_Subset DEF StoredFiles
<1>4. \A d \in Dirs : FilesIn[d] \subseteq PT!CandFiles
  BY DEF PT!CandFiles
<1>5. \A f \in PT!CandFiles : \E d \in Dirs : f \in FilesIn[d]
  BY DEF PT!CandFiles
<1>6. "main" \notin Dirs /\ \A d, e \in Dirs : d # e => FilesIn[d] \cap FilesIn[e] = {}
  BY DEF PT!PoolToolsAssumption
<1>7. FirstFiles \subseteq StoredFiles
  BY DEF FirstFiles, StoredFiles
<1> QED BY <1>1, <1>2, <1>3, <1>4, <1>5, <1>6, <1>7

\* The sizes of the counted sets are numbers.
LEMMA Sizes ==
  ASSUME PT!PoolToolsAssumption, PoolTypeOK
  PROVE  /\ IsFiniteSet(BeingHashed) /\ Cardinality(BeingHashed) \in Nat
         /\ IsFiniteSet(BeingStored) /\ Cardinality(BeingStored) \in Nat
         /\ IsFiniteSet(SeenCands)   /\ Cardinality(SeenCands) \in Nat
         /\ IsFiniteSet(MissedCands) /\ Cardinality(MissedCands) \in Nat
         /\ IsFiniteSet(copied)      /\ Cardinality(copied) \in Nat
         /\ Cardinality(set) \in Nat
<1>1. /\ BeingHashed \subseteq StoredFiles /\ BeingStored \subseteq Cr2Files
      /\ SeenCands \subseteq PT!CandFiles /\ MissedCands \subseteq PT!CandFiles
      /\ copied \subseteq Cr2Files /\ IsFiniteSet(set)
  BY DEF BeingHashed, BeingStored, SeenCands, MissedCands, PoolTypeOK
<1>2. /\ IsFiniteSet(BeingHashed) /\ IsFiniteSet(BeingStored) /\ IsFiniteSet(SeenCands)
      /\ IsFiniteSet(MissedCands) /\ IsFiniteSet(copied)
  BY <1>1, FilesApart, FS_Subset
<1> QED BY <1>1, <1>2, FS_CardinalityType

LEMMA PoolInit ==
  ASSUME PT!PoolToolsAssumption, PT!Init  PROVE PoolInv
<1>0. /\ program \in {"cpcr2", "transactor"} /\ main = "walk"
      /\ walkTodo = [w \in PT!Walkers |-> IF w # "main" THEN FilesIn[w]
                                         ELSE IF program = "cpcr2" THEN Cr2Files ELSE RefFiles]
      /\ dirAt = [d \in Dirs |-> "idle"] /\ itemAt = [f \in PT!Files |-> "unseen"]
      /\ hval = [f \in PT!Files |-> Absent] /\ seq = [f \in PT!Files |-> 0]
      /\ set = {} /\ freed = {} /\ nextSeq = 0 /\ copied = {}
      /\ copies = [p \in DOMAIN copies |-> copies[p]]
      /\ counters = PT!NoCounts
  BY DEF PT!Init
<1>1. /\ PT!Files = StoredFiles \cup PT!CandFiles /\ "main" \notin Dirs
      /\ \A d \in Dirs : FilesIn[d] \subseteq PT!CandFiles /\ d # "main"
      /\ FirstFiles \subseteq StoredFiles /\ Cr2Files \subseteq StoredFiles
  BY FilesApart DEF StoredFiles
<1>2. /\ walkTodo["main"] = FirstFiles /\ \A d \in Dirs : walkTodo[d] = FilesIn[d]
      /\ walkTodo \in [PT!Walkers -> SUBSET PT!Files]
  BY <1>0, <1>1 DEF PT!Walkers, FirstFiles
<1>3. \A f \in PT!Files : itemAt[f] = "unseen"
  BY <1>0
<1>4. PoolTypeOK
  <2>1. counters \in [nFiles : Nat, nUnique : Nat, nDuplicate : Nat, nCR2Err : Nat, nJPGErr : Nat,
                      nRecords : Nat, nMisses : Nat]
    BY <1>0 DEF PT!NoCounts
  <2>2. IsFiniteSet(set) /\ copied \in SUBSET Cr2Files
    BY <1>0, FS_EmptySet
  <2>3. itemAt \in [PT!Files -> Stages] /\ seq \in [PT!Files -> Nat] /\ nextSeq \in Nat
    BY <1>0 DEF Stages
  <2> QED BY <1>0, <1>2, <2>1, <2>2, <2>3 DEF PoolTypeOK
<1>5. InPhases
  BY <1>0, <1>1, <1>3 DEF InPhases
<1>6. Visits
  BY <1>1, <1>2, <1>3 DEF Visits
<1>7. Ownership /\ KeysRemembered /\ MissesKnown
  BY <1>0, <1>1, <1>3 DEF Ownership, KeysRemembered, MissesKnown, Owns, Storing, Numbered
<1>8. Counted
  <2>1. BeingHashed = {} /\ BeingStored = {} /\ SeenCands = {} /\ MissedCands = {}
    BY <1>1, <1>3 DEF BeingHashed, BeingStored, Storing, SeenCands, MissedCands
  <2>2. Cardinality({}) = 0
    BY FS_EmptySet
  <2> QED BY <1>0, <2>1, <2>2 DEF Counted, PT!NoCounts
<1> QED BY <1>4, <1>5, <1>6, <1>7, <1>8 DEF PoolInv

\* The steps of main, and those of a directory that lists nothing.
LEMMA PoolMain ==
  ASSUME PT!PoolToolsAssumption, PoolInv,
         PT!Main \/ \E d \in Dirs : PT!DirStarts(d) \/ PT!DirEnds(d)
  PROVE  PoolInv'
<1>0. /\ PoolTypeOK /\ InPhases /\ Visits /\ Ownership /\ KeysRemembered /\ MissesKnown /\ Counted
      /\ "main" \notin Dirs /\ PT!Files = StoredFiles \cup PT!CandFiles
      /\ StoredFiles \cap PT!CandFiles = {}
  BY FilesApart DEF PoolInv
<1>1. UNCHANGED <<program, walkTodo, itemAt, hval, set, freed, nextSeq, copies, seq, copied, counters>>
  BY DEF PT!Main, PT!Bwait, PT!BwaitDirs, PT!SubmitDir, PT!DirStarts, PT!DirEnds, PT!disk
<1>2. /\ Visits' /\ Ownership' /\ KeysRemembered' /\ MissesKnown' /\ Counted'
  <2>1. Visits' /\ MissesKnown' /\ KeysRemembered'
    BY <1>0, <1>1 DEF Visits, MissesKnown, KeysRemembered, FirstFiles, Owns, Storing
  <2>2. Ownership'
    BY <1>0, <1>1 DEF Ownership, Owns, Numbered, Storing, PT!Place
  <2>3. Counted'
    BY <1>0, <1>1 DEF Counted, BeingHashed, BeingStored, SeenCands, MissedCands, Storing
  <2> QED BY <2>1, <2>2, <2>3
<1>3. /\ main \in {"walk", "dirs", "done"} /\ program \in {"cpcr2", "transactor"}
      /\ dirAt \in [Dirs -> {"idle", "queued", "walk", "done"}]
  BY <1>0 DEF PoolTypeOK
<1>4. main' \in {"walk", "dirs", "done"} /\ dirAt' \in [Dirs -> {"idle", "queued", "walk", "done"}]
      /\ InPhases'
  <2>1. CASE PT!Bwait
    <3>1. /\ main = "walk" /\ walkTodo["main"] = {} /\ dirAt' = dirAt
          /\ main' = IF program = "cpcr2" THEN "done" ELSE "dirs"
          /\ \A f \in PT!Files : itemAt[f] \in {"unseen", "done", "missed"}
      BY <2>1 DEF PT!Bwait, PT!Walking, PT!WaitedFor
    <3>2. \A f \in StoredFiles : itemAt[f] \in {"unseen", "done"}
      BY <1>0, <3>1 DEF Visits
    <3> QED BY <1>0, <1>1, <1>3, <3>1, <3>2 DEF InPhases
  <2>2. CASE PT!BwaitDirs
    <3>1. /\ main = "dirs" /\ main' = "done" /\ dirAt' = dirAt
          /\ \A d \in Dirs : dirAt[d] = "done"
          /\ \A f \in PT!Files : itemAt[f] \in {"unseen", "done", "missed"}
      BY <1>3, <2>2 DEF PT!BwaitDirs, PT!WaitedFor
    <3> QED BY <1>0, <1>1, <1>3, <3>1 DEF InPhases
  <2>3. ASSUME NEW d \in Dirs, PT!SubmitDir(d) \/ PT!DirStarts(d) \/ PT!DirEnds(d)
        PROVE  /\ main' \in {"walk", "dirs", "done"} /\ InPhases'
               /\ dirAt' \in [Dirs -> {"idle", "queued", "walk", "done"}]
    <3>1. main' = main
      BY <2>3 DEF PT!SubmitDir, PT!DirStarts, PT!DirEnds
    <3>2. PICK to \in {"queued", "walk", "done"} :
            /\ dirAt' = [dirAt EXCEPT ![d] = to]
            /\ \/ main = "dirs" /\ dirAt[d] = "idle" /\ to = "queued"
               \/ dirAt[d] = "queued" /\ to = "walk"
               \/ dirAt[d] = "walk" /\ to = "done" /\ walkTodo[d] = {}
      BY <1>0, <2>3 DEF PT!SubmitDir, PT!DirStarts, PT!DirEnds, PT!Walking
    <3>3. /\ dirAt' \in [Dirs -> {"idle", "queued", "walk", "done"}] /\ dirAt'[d] = to
          /\ \A e \in Dirs : e # d => dirAt'[e] = dirAt[e]
      BY <1>3, <3>2
    <3>4. main = "dirs" /\ program = "transactor"
      BY <1>0, <1>3, <3>2 DEF InPhases
    <3> QED BY <1>0, <1>1, <3>1, <3>2, <3>3, <3>4 DEF InPhases
  <2> QED BY <2>1, <2>2, <2>3 DEF PT!Main
<1>5. PoolTypeOK'
  BY <1>0, <1>1, <1>4 DEF PoolTypeOK
<1> QED BY <1>2, <1>4, <1>5 DEF PoolInv

\* A walk visits one more file.
LEMMA PoolVisit ==
  ASSUME PT!PoolToolsAssumption, PoolInv, NEW w \in PT!Walkers, NEW f \in PT!Files, PT!Visit(w, f)
  PROVE  PoolInv'
<1>0. /\ PoolTypeOK /\ InPhases /\ Visits /\ Ownership /\ KeysRemembered /\ MissesKnown /\ Counted
      /\ "main" \notin Dirs /\ PT!Files = StoredFiles \cup PT!CandFiles
      /\ StoredFiles \cap PT!CandFiles = {} /\ Cr2Files \subseteq StoredFiles
      /\ FirstFiles \subseteq StoredFiles /\ PT!Walkers = {"main"} \cup Dirs
      /\ \A d \in Dirs : FilesIn[d] \subseteq PT!CandFiles
      /\ \A d, e \in Dirs : d # e => FilesIn[d] \cap FilesIn[e] = {}
  BY FilesApart DEF PoolInv, PT!Walkers, StoredFiles
<1>1. /\ f \in walkTodo[w] /\ walkTodo' = [walkTodo EXCEPT ![w] = walkTodo[w] \ {f}]
      /\ itemAt' = [itemAt EXCEPT ![f] = "md5"]
      /\ w = "main" => main = "walk" /\ counters' = [counters EXCEPT !.nFiles = counters.nFiles + 1]
      /\ w # "main" => dirAt[w] = "walk" /\ counters' = [counters EXCEPT !.nRecords = counters.nRecords + 1]
      /\ UNCHANGED <<program, main, dirAt, hval, set, freed, nextSeq, copies, seq, copied>>
  BY DEF PT!Visit, PT!Walking, PT!disk
<1>2. /\ itemAt[f] = "unseen"
      /\ w = "main" => f \in FirstFiles
      /\ w # "main" => f \in FilesIn[w] /\ f \in PT!CandFiles
  BY <1>0, <1>1 DEF Visits
<1>3. /\ itemAt'[f] = "md5" /\ \A x \in PT!Files : x # f => itemAt'[x] = itemAt[x]
      /\ itemAt' \in [PT!Files -> Stages]
  BY <1>0, <1>1 DEF PoolTypeOK, Stages
<1>4. /\ walkTodo' \in [PT!Walkers -> SUBSET PT!Files] /\ walkTodo'[w] = walkTodo[w] \ {f}
      /\ \A x \in PT!Walkers : x # w => walkTodo'[x] = walkTodo[x]
  BY <1>0, <1>1 DEF PoolTypeOK
<1>5. /\ counters' \in [nFiles : Nat, nUnique : Nat, nDuplicate : Nat, nCR2Err : Nat, nJPGErr : Nat,
                        nRecords : Nat, nMisses : Nat]
      /\ counters'.nFiles = IF w = "main" THEN counters.nFiles + 1 ELSE counters.nFiles
      /\ counters'.nRecords = IF w = "main" THEN counters.nRecords ELSE counters.nRecords + 1
      /\ counters'.nUnique = counters.nUnique /\ counters'.nDuplicate = counters.nDuplicate
      /\ counters'.nCR2Err = counters.nCR2Err /\ counters'.nMisses = counters.nMisses
  BY <1>0, <1>1 DEF PoolTypeOK
<1>6. PoolTypeOK'
  BY <1>0, <1>1, <1>3, <1>4, <1>5 DEF PoolTypeOK
<1>7. InPhases'
  <2>1. CASE w = "main"
    BY <1>0, <1>1, <1>2, <1>3, <1>4, <2>1 DEF InPhases
  <2>2. CASE w # "main"
    <3>1. main = "dirs" /\ w \in Dirs /\ f \notin StoredFiles
      BY <1>0, <1>1, <1>2, <2>2 DEF InPhases, PoolTypeOK
    <3>2. \A d \in Dirs : d # w => f \notin FilesIn[d]
      BY <1>0, <1>2, <2>2, <3>1
    <3> QED BY <1>0, <1>1, <1>3, <1>4, <2>2, <3>1, <3>2 DEF InPhases
  <2> QED BY <2>1, <2>2
<1>8. Visits'
  <2>1. walkTodo'["main"] = {x \in FirstFiles : itemAt'[x] = "unseen"}
    BY <1>0, <1>2, <1>3, <1>4 DEF Visits
  <2>2. ASSUME NEW d \in Dirs  PROVE walkTodo'[d] = {x \in FilesIn[d] : itemAt'[x] = "unseen"}
    <3>1. walkTodo[d] = {x \in FilesIn[d] : itemAt[x] = "unseen"}
      BY <1>0 DEF Visits
    <3>2. CASE d = w
      BY <1>0, <1>3, <1>4, <3>1, <3>2
    <3>3. CASE d # w
      <4>1. f \notin FilesIn[d]
        BY <1>0, <1>2, <3>3
      <4> QED BY <1>0, <1>3, <1>4, <3>1, <3>3, <4>1
    <3> QED BY <3>2, <3>3
  <2>3. f \in StoredFiles => f \in FirstFiles
    BY <1>0, <1>2
  <2> QED BY <1>0, <1>1, <1>2, <1>3, <2>1, <2>2, <2>3 DEF Visits, FirstFiles
<1>9. Ownership'
  <2>1. f \notin copied
    BY <1>0, <1>2 DEF Ownership
  <2>2. \A x \in PT!Files : (Owns(x)' <=> Owns(x)) /\ (Numbered(x)' <=> Numbered(x))
    BY <1>1, <1>2, <1>3 DEF Owns, Storing, Numbered
  <2>3. copied \subseteq PT!Files
    BY <1>0 DEF PoolTypeOK
  <2> QED BY <1>0, <1>1, <1>3, <2>1, <2>2, <2>3 DEF Ownership, PT!Place
<1>10. KeysRemembered'
  <2>1. \A x \in PT!Files : Owns(x)' <=> Owns(x)
    BY <1>1, <1>2, <1>3 DEF Owns, Storing
  <2> QED BY <1>0, <1>1, <1>2, <1>3, <1>5, <2>1 DEF KeysRemembered, StoredFiles
<1>11. MissesKnown'
  BY <1>0, <1>1, <1>3 DEF MissesKnown
<1>12. Counted'
  <2>0. /\ IsFiniteSet(BeingHashed) /\ Cardinality(BeingHashed) \in Nat
        /\ IsFiniteSet(SeenCands) /\ Cardinality(SeenCands) \in Nat
    BY <1>0, Sizes
  <2>1. BeingStored' = BeingStored /\ MissedCands' = MissedCands
    BY <1>0, <1>2, <1>3 DEF BeingStored, Storing, MissedCands
  <2>2. CASE w = "main"
    <3>1. BeingHashed' = BeingHashed \cup {f} /\ f \notin BeingHashed /\ SeenCands' = SeenCands
      BY <1>0, <1>2, <1>3, <2>2 DEF BeingHashed, SeenCands
    <3>2. Cardinality(BeingHashed') = Cardinality(BeingHashed) + 1
      BY <2>0, <3>1, FS_AddElement
    <3> QED BY <1>0, <1>1, <1>5, <2>0, <2>1, <2>2, <3>1, <3>2 DEF Counted, PoolTypeOK
  <2>3. CASE w # "main"
    <3>1. BeingHashed' = BeingHashed /\ f \notin SeenCands /\ SeenCands' = SeenCands \cup {f}
      BY <1>0, <1>2, <1>3, <2>3 DEF BeingHashed, SeenCands
    <3>2. Cardinality(SeenCands') = Cardinality(SeenCands) + 1
      BY <2>0, <3>1, FS_AddElement
    <3> QED BY <1>0, <1>1, <1>5, <2>0, <2>1, <2>3, <3>1, <3>2 DEF Counted, PoolTypeOK
  <2> QED BY <2>2, <2>3
<1> QED BY <1>6, <1>7, <1>8, <1>9, <1>10, <1>11, <1>12 DEF PoolInv

\* A callback goes on: the walks and main are where they were.
LEMMA PoolMoves ==
  ASSUME PT!PoolToolsAssumption, PoolInv, NEW f \in PT!Files,
         NEW to \in Stages \ {"unseen", "md5"},
         itemAt[f] \in {"md5", "lookup", "create", "write", "verify", "jpg"},
         to \in {"create", "write", "verify", "jpg"} => f \in Cr2Files,
         to = "missed" => f \in PT!CandFiles,
         itemAt' = [itemAt EXCEPT ![f] = to],
         program' = program, main' = main, walkTodo' = walkTodo, dirAt' = dirAt
  PROVE  /\ InPhases' /\ Visits' /\ SeenCands' = SeenCands
         /\ itemAt' \in [PT!Files -> Stages] /\ itemAt'[f] = to
         /\ \A x \in PT!Files : x # f => itemAt'[x] = itemAt[x]
<1>0. /\ PoolTypeOK /\ InPhases /\ Visits
      /\ "main" \notin Dirs /\ PT!Files = StoredFiles \cup PT!CandFiles
      /\ StoredFiles \cap PT!CandFiles = {} /\ FirstFiles \subseteq StoredFiles
      /\ \A d \in Dirs : FilesIn[d] \subseteq PT!CandFiles
  BY FilesApart DEF PoolInv
<1>1. /\ itemAt' \in [PT!Files -> Stages] /\ itemAt'[f] = to
      /\ \A x \in PT!Files : x # f => itemAt'[x] = itemAt[x]
  BY <1>0 DEF PoolTypeOK
<1>2. InPhases'
  <2>1. main # "done"
    BY <1>0 DEF InPhases
  <2>2. main # "walk" => f \notin StoredFiles
    BY <1>0 DEF InPhases
  <2>3. \A d \in Dirs : dirAt[d] \in {"idle", "queued"} => f \notin FilesIn[d]
    BY <1>0 DEF InPhases
  <2> QED BY <1>0, <1>1, <2>1, <2>2, <2>3 DEF InPhases
<1>3. Visits'
  <2>1. \A x \in PT!Files : itemAt'[x] = "unseen" <=> itemAt[x] = "unseen"
    BY <1>1
  <2>2. walkTodo["main"] = {x \in FirstFiles : itemAt'[x] = "unseen"}
    BY <1>0, <2>1 DEF Visits
  <2>3. \A d \in Dirs : walkTodo[d] = {x \in FilesIn[d] : itemAt'[x] = "unseen"}
    BY <1>0, <2>1 DEF Visits
  <2>4. \A x \in StoredFiles \ FirstFiles : itemAt'[x] = "unseen"
    BY <1>0, <2>1 DEF Visits
  <2>5. \A x \in PT!Files : /\ itemAt'[x] \in {"create", "write", "verify", "jpg"} => x \in Cr2Files
                            /\ itemAt'[x] = "missed" => x \in PT!CandFiles
    BY <1>0, <1>1 DEF Visits
  <2>6. FirstFiles' = FirstFiles
    BY DEF FirstFiles
  <2> QED BY <2>2, <2>3, <2>4, <2>5, <2>6 DEF Visits
<1>4. SeenCands' = SeenCands
  BY <1>0, <1>1 DEF SeenCands
<1> QED BY <1>1, <1>2, <1>3, <1>4

\* The hash of a file is made before anything is known of it.
LEMMA PoolMd5sum ==
  ASSUME PT!PoolToolsAssumption, PoolInv, NEW f \in PT!Files, PT!md5sum(f)
  PROVE  PoolInv'
<1>0. /\ PoolTypeOK /\ InPhases /\ Visits /\ Ownership /\ KeysRemembered /\ MissesKnown /\ Counted
      /\ PT!Files = StoredFiles \cup PT!CandFiles /\ Cr2Files \subseteq StoredFiles
      /\ RefFiles \subseteq StoredFiles
  BY FilesApart DEF PoolInv, StoredFiles
<1>1. /\ itemAt[f] = "md5" /\ itemAt' = [itemAt EXCEPT ![f] = "lookup"]
      /\ hval' = [hval EXCEPT ![f] = FileMd5[content[f]]]
      /\ program' = program /\ main' = main /\ walkTodo' = walkTodo /\ dirAt' = dirAt
      /\ UNCHANGED <<set, freed, nextSeq, copies, seq, copied, counters>>
  BY DEF PT!md5sum, PT!walks, PT!disk
<1>2. "lookup" \in Stages \ {"unseen", "md5"}
  BY DEF Stages
<1>3. /\ InPhases' /\ Visits' /\ SeenCands' = SeenCands
      /\ itemAt' \in [PT!Files -> Stages] /\ itemAt'[f] = "lookup"
      /\ \A x \in PT!Files : x # f => itemAt'[x] = itemAt[x]
  BY <1>1, <1>2, PoolMoves
<1>4. /\ hval' = [x \in PT!Files |-> hval'[x]] /\ \A x \in PT!Files : x # f => hval'[x] = hval[x]
  BY <1>0, <1>1 DEF PoolTypeOK
<1>5. PoolTypeOK'
  BY <1>0, <1>1, <1>3, <1>4 DEF PoolTypeOK
<1>6. /\ \A x \in PT!Files : (Owns(x)' <=> Owns(x)) /\ (Numbered(x)' <=> Numbered(x))
      /\ ~Owns(f) /\ f \notin copied
  BY <1>0, <1>1, <1>3 DEF Owns, Storing, Numbered, Ownership
<1>7. Ownership'
  <2>1. copied \subseteq PT!Files
    BY <1>0 DEF PoolTypeOK
  <2> QED BY <1>0, <1>1, <1>3, <1>4, <1>6, <2>1 DEF Ownership, PT!Place
<1>8. KeysRemembered'
  <2>1. \A x \in StoredFiles : itemAt'[x] \in {"create", "write", "verify", "jpg", "done"} => hval'[x] \in set
    BY <1>0, <1>3, <1>4 DEF KeysRemembered
  <2>2. program = "cpcr2" /\ counters.nCR2Err = 0 =>
          freed = {} /\ \A x \in set : \E y \in Cr2Files : Owns(y)' /\ hval'[y] = x
    BY <1>0, <1>4, <1>6 DEF KeysRemembered
  <2>3. program = "transactor" =>
          freed = {} /\ \A x \in set : \E y \in RefFiles : itemAt'[y] = "done" /\ hval'[y] = x
    BY <1>0, <1>1, <1>3, <1>4 DEF KeysRemembered
  <2> QED BY <1>1, <2>1, <2>2, <2>3 DEF KeysRemembered
<1>9. MissesKnown'
  BY <1>0, <1>1, <1>3, <1>4 DEF MissesKnown
<1>10. Counted'
  <2>1. BeingHashed' = BeingHashed /\ BeingStored' = BeingStored /\ MissedCands' = MissedCands
    BY <1>0, <1>1, <1>3 DEF BeingHashed, BeingStored, Storing, MissedCands
  <2> QED BY <1>0, <1>1, <1>3, <2>1 DEF Counted
<1> QED BY <1>3, <1>5, <1>7, <1>8, <1>9, <1>10 DEF PoolInv

\* Nothing that was found out depends on what a file contains later.
LEMMA PoolChange ==
  ASSUME PoolInv, NEW f \in PT!Files, PT!Change(f)  PROVE PoolInv'
<1>1. UNCHANGED <<program, main, walkTodo, dirAt, itemAt, hval, set, freed, nextSeq, copies, seq,
                  copied, counters>>
  BY DEF PT!Change, PT!walks, PT!disk
<1>2. PoolTypeOK' /\ InPhases' /\ Visits'
  BY <1>1 DEF PoolInv, PoolTypeOK, InPhases, Visits, FirstFiles
<1>3. Ownership' /\ KeysRemembered' /\ MissesKnown'
  BY <1>1 DEF PoolInv, Ownership, Owns, Storing, Numbered, PT!Place, KeysRemembered, MissesKnown
<1>4. Counted'
  BY <1>1 DEF PoolInv, Counted, BeingHashed, BeingStored, Storing, SeenCands, MissedCands
<1> QED BY <1>2, <1>3, <1>4 DEF PoolInv

\* The file is a duplicate.
LEMMA PoolDuplicate ==
  ASSUME PT!PoolToolsAssumption, PoolInv, NEW f \in StoredFiles,
         itemAt[f] = "lookup", hval[f] \in set,
         itemAt' = [itemAt EXCEPT ![f] = "done"],
         counters' = [counters EXCEPT !.nDuplicate = counters.nDuplicate + 1],
         program' = program, main' = main, walkTodo' = walkTodo, dirAt' = dirAt,
         UNCHANGED <<hval, set, freed, nextSeq, copies, seq, copied>>
  PROVE  PoolInv'
<1>0. /\ PoolTypeOK /\ InPhases /\ Visits /\ Ownership /\ KeysRemembered /\ MissesKnown /\ Counted
      /\ PT!Files = StoredFiles \cup PT!CandFiles /\ Cr2Files \subseteq StoredFiles
      /\ RefFiles \subseteq StoredFiles /\ StoredFiles \cap PT!CandFiles = {}
      /\ f \in PT!Files
  BY FilesApart DEF PoolInv, StoredFiles
<1>2. "done" \in Stages \ {"unseen", "md5"}
  BY DEF Stages
<1>3. /\ InPhases' /\ Visits' /\ SeenCands' = SeenCands
      /\ itemAt' \in [PT!Files -> Stages] /\ itemAt'[f] = "done"
      /\ \A x \in PT!Files : x # f => itemAt'[x] = itemAt[x]
  BY <1>0, <1>2, PoolMoves
<1>4. /\ counters' \in [nFiles : Nat, nUnique : Nat, nDuplicate : Nat, nCR2Err : Nat, nJPGErr : Nat,
                        nRecords : Nat, nMisses : Nat]
      /\ counters'.nFiles = counters.nFiles /\ counters'.nRecords = counters.nRecords
      /\ counters'.nUnique = counters.nUnique /\ counters'.nDuplicate = counters.nDuplicate + 1
      /\ counters'.nCR2Err = counters.nCR2Err /\ counters'.nMisses = counters.nMisses
      /\ counters.nFiles \in Nat /\ counters.nUnique \in Nat /\ counters.nDuplicate \in Nat
  BY <1>0 DEF PoolTypeOK
<1>5. PoolTypeOK'
  BY <1>0, <1>3, <1>4 DEF PoolTypeOK
<1>6. /\ \A x \in PT!Files : (Owns(x)' <=> Owns(x)) /\ (Numbered(x)' <=> Numbered(x))
      /\ f \notin copied /\ copied \subseteq PT!Files
  BY <1>0, <1>3 DEF Owns, Storing, Numbered, Ownership, PoolTypeOK
<1>7. Ownership'
  BY <1>0, <1>3, <1>6 DEF Ownership, PT!Place
<1>8. KeysRemembered'
  BY <1>0, <1>3, <1>4, <1>6 DEF KeysRemembered
<1>9. MissesKnown'
  BY <1>0, <1>3 DEF MissesKnown
<1>10. Counted'
  <2>1. BeingStored' = BeingStored /\ MissedCands' = MissedCands
    BY <1>0, <1>3 DEF BeingStored, Storing, MissedCands
  <2>2. BeingHashed' = BeingHashed \ {f} /\ f \in BeingHashed
    BY <1>0, <1>3 DEF BeingHashed
  <2>3. Cardinality(BeingHashed') = Cardinality(BeingHashed) - 1 /\ Cardinality(BeingHashed) \in Nat
    BY <1>0, <2>2, Sizes, FS_RemoveElement
  <2> QED BY <1>0, <1>3, <1>4, <2>1, <2>3 DEF Counted
<1> QED BY <1>3, <1>5, <1>7, <1>8, <1>9, <1>10 DEF PoolInv

\* The file is the first of its hash, or the string of that hash was freed: in both cases
\* nobody owns the hash.  cpcr2 goes on to copy it.
LEMMA PoolUnique ==
  ASSUME PT!PoolToolsAssumption, PoolInv, NEW f \in StoredFiles,
         itemAt[f] = "lookup", hval[f] \notin set \/ hval[f] \in freed,
         itemAt' = [itemAt EXCEPT ![f] = IF program = "cpcr2" THEN "create" ELSE "done"],
         set' = set \cup {hval[f]}, freed' = freed \ {hval[f]},
         counters' = [counters EXCEPT !.nUnique = counters.nUnique + 1],
         program' = program, main' = main, walkTodo' = walkTodo, dirAt' = dirAt,
         UNCHANGED <<hval, nextSeq, copies, seq, copied>>
  PROVE  PoolInv'
<1> DEFINE to == IF program = "cpcr2" THEN "create" ELSE "done"
<1>0. /\ PoolTypeOK /\ InPhases /\ Visits /\ Ownership /\ KeysRemembered /\ MissesKnown /\ Counted
      /\ PT!Files = StoredFiles \cup PT!CandFiles /\ Cr2Files \subseteq StoredFiles
      /\ RefFiles \subseteq StoredFiles /\ StoredFiles \cap PT!CandFiles = {}
      /\ f \in PT!Files /\ StoredFiles = Cr2Files \cup RefFiles
  BY FilesApart DEF PoolInv, StoredFiles
<1>1. program \in {"cpcr2", "transactor"} /\ f \in FirstFiles
  BY <1>0 DEF PoolTypeOK, Visits
<1>2. to \in Stages \ {"unseen", "md5"} /\ to # "missed" /\ (to # "done" => f \in Cr2Files)
      /\ (to = "create" <=> program = "cpcr2") /\ (to = "done" <=> program = "transactor")
      /\ (program = "transactor" => f \in RefFiles) /\ to \in {"create", "done"}
  BY <1>1 DEF Stages, FirstFiles
<1>2a. itemAt' = [itemAt EXCEPT ![f] = to]
  OBVIOUS
<1> HIDE DEF to
<1>3. /\ InPhases' /\ Visits' /\ SeenCands' = SeenCands
      /\ itemAt' \in [PT!Files -> Stages] /\ itemAt'[f] = to
      /\ \A x \in PT!Files : x # f => itemAt'[x] = itemAt[x]
  <2>1. to \in {"create", "write", "verify", "jpg"} => f \in Cr2Files
    BY <1>2
  <2> QED BY <1>0, <1>2, <1>2a, <2>1, PoolMoves
<1>4. /\ counters' \in [nFiles : Nat, nUnique : Nat, nDuplicate : Nat, nCR2Err : Nat, nJPGErr : Nat,
                        nRecords : Nat, nMisses : Nat]
      /\ counters'.nFiles = counters.nFiles /\ counters'.nRecords = counters.nRecords
      /\ counters'.nUnique = counters.nUnique + 1 /\ counters'.nDuplicate = counters.nDuplicate
      /\ counters'.nCR2Err = counters.nCR2Err /\ counters'.nMisses = counters.nMisses
      /\ counters.nFiles \in Nat /\ counters.nUnique \in Nat /\ counters.nDuplicate \in Nat
      /\ counters.nCR2Err \in Nat
  BY <1>0 DEF PoolTypeOK
<1>5. PoolTypeOK'
  <2>1. IsFiniteSet(set \cup {hval[f]})
    BY <1>0, FS_AddElement DEF PoolTypeOK
  <2> QED BY <1>0, <1>3, <1>4, <2>1 DEF PoolTypeOK
<1>6. /\ f \notin copied /\ copied \subseteq PT!Files /\ ~Owns(f)
      /\ \A x \in PT!Files : x # f => (Owns(x)' <=> Owns(x))
      /\ \A x \in PT!Files : Numbered(x)' <=> Numbered(x)
  BY <1>0, <1>2, <1>3 DEF Owns, Storing, Numbered, Ownership, PoolTypeOK
<1>7. Ownership'
  <2>1. \A x \in PT!Files : Owns(x) => hval[x] # hval[f]
    BY <1>0 DEF Ownership
  <2>2. \A x \in PT!Files : Owns(x)' => hval[x] \in set' \ freed'
    BY <1>0, <1>6, <2>1 DEF Ownership
  <2>3. \A x, y \in PT!Files : Owns(x)' /\ Owns(y)' /\ hval[x] = hval[y] => x = y
    BY <1>0, <1>6, <2>1 DEF Ownership
  <2>4. /\ \A x \in PT!Files : Numbered(x)' => seq[x] < nextSeq /\ PT!Place(x) \in DOMAIN copies
        /\ \A x, y \in PT!Files : Numbered(x)' /\ Numbered(y)' /\ seq[x] = seq[y] => x = y
    BY <1>0, <1>6 DEF Ownership
  <2>5. \A x \in copied : itemAt'[x] \in {"jpg", "done"} /\ FileMd5[copies[PT!Place(x)]] = hval[x]
    BY <1>0, <1>3, <1>6 DEF Ownership
  <2> QED BY <2>2, <2>3, <2>4, <2>5 DEF Ownership, PT!Place
<1>8. KeysRemembered'
  <2>1. \A x \in StoredFiles : itemAt'[x] \in {"create", "write", "verify", "jpg", "done"} => hval[x] \in set'
    BY <1>0, <1>3 DEF KeysRemembered
  <2>2. program = "cpcr2" /\ counters.nCR2Err = 0 =>
          freed' = {} /\ \A x \in set' : \E y \in Cr2Files : Owns(y)' /\ hval[y] = x
    <3> SUFFICES ASSUME program = "cpcr2", counters.nCR2Err = 0
                 PROVE  freed' = {} /\ \A x \in set' : \E y \in Cr2Files : Owns(y)' /\ hval[y] = x
      OBVIOUS
    <3>1. Owns(f)' /\ f \in Cr2Files
      BY <1>2, <1>3 DEF Owns, Storing
    <3>2. freed' = {} /\ \A x \in set : \E y \in Cr2Files : Owns(y) /\ hval[y] = x
      BY <1>0 DEF KeysRemembered
    <3> QED BY <1>0, <1>6, <3>1, <3>2
  <2>3. program = "transactor" =>
          freed' = {} /\ \A x \in set' : \E y \in RefFiles : itemAt'[y] = "done" /\ hval[y] = x
    <3> SUFFICES ASSUME program = "transactor"
                 PROVE  freed' = {} /\ \A x \in set' : \E y \in RefFiles : itemAt'[y] = "done" /\ hval[y] = x
      OBVIOUS
    <3>1. itemAt'[f] = "done" /\ f \in RefFiles
      BY <1>2, <1>3
    <3>2. freed' = {} /\ \A x \in set : \E y \in RefFiles : itemAt[y] = "done" /\ hval[y] = x
      BY <1>0 DEF KeysRemembered
    <3> QED BY <1>0, <1>3, <3>1, <3>2
  <2> QED BY <1>4, <2>1, <2>2, <2>3 DEF KeysRemembered
<1>9. MissesKnown'
  <2>1. \A x \in PT!CandFiles : itemAt[x] \notin {"done", "missed"}
    <3>1. main = "walk" \/ program = "cpcr2"
      BY <1>0 DEF InPhases
    <3>2. \A d \in Dirs : \A x \in FilesIn[d] : itemAt[x] = "unseen"
      BY <1>0, <3>1 DEF InPhases
    <3> QED BY <3>2 DEF PT!CandFiles
  <2> QED BY <1>0, <1>3, <2>1 DEF MissesKnown
<1>10. Counted'
  <2>0. /\ Cardinality(BeingHashed) \in Nat /\ Cardinality(BeingStored) \in Nat
        /\ IsFiniteSet(BeingHashed) /\ IsFiniteSet(BeingStored) /\ IsFiniteSet(set)
        /\ Cardinality(copied) \in Nat /\ Cardinality(set) \in Nat
    BY <1>0, Sizes DEF PoolTypeOK
  <2>1. MissedCands' = MissedCands
    BY <1>0, <1>3 DEF MissedCands
  <2>2. Cardinality(BeingHashed') = Cardinality(BeingHashed) - 1
    <3>1. BeingHashed' = BeingHashed \ {f} /\ f \in BeingHashed
      BY <1>0, <1>2, <1>3 DEF BeingHashed
    <3> QED BY <2>0, <3>1, FS_RemoveElement
  <2>3. CASE program = "cpcr2"
    <3>1. BeingStored' = BeingStored \cup {f} /\ f \notin BeingStored
      BY <1>0, <1>2, <1>3, <2>3 DEF BeingStored, Storing
    <3>2. Cardinality(BeingStored') = Cardinality(BeingStored) + 1
      BY <2>0, <3>1, FS_AddElement
    <3> QED BY <1>0, <1>3, <1>4, <2>0, <2>1, <2>2, <2>3, <3>2 DEF Counted
  <2>4. CASE program = "transactor"
    <3>1. hval[f] \notin set
      BY <1>0, <2>4 DEF KeysRemembered
    <3>2. Cardinality(set') = Cardinality(set) + 1
      BY <2>0, <3>1, FS_AddElement
    <3> QED BY <1>0, <1>3, <1>4, <2>0, <2>1, <2>2, <2>4, <3>2 DEF Counted
  <2> QED BY <1>1, <2>3, <2>4
<1> QED BY <1>3, <1>5, <1>7, <1>8, <1>9, <1>10 DEF PoolInv

LEMMA PoolLookup ==
  ASSUME PT!PoolToolsAssumption, PoolInv, NEW f \in PT!Files, PT!Lookup(f)
  PROVE  PoolInv'
<1>0. PoolTypeOK /\ PT!Files = StoredFiles \cup PT!CandFiles
  BY FilesApart DEF PoolInv
<1>1. /\ itemAt[f] = "lookup" /\ f \notin PT!CandFiles /\ f \in StoredFiles
      /\ program' = program /\ main' = main /\ walkTodo' = walkTodo /\ dirAt' = dirAt
      /\ UNCHANGED <<hval, nextSeq, copies, seq, copied>>
  BY <1>0 DEF PT!Lookup, PT!disk
<1>2. PICK there \in PT!Found(hval[f]) :
       IF there
       THEN /\ counters' = [counters EXCEPT !.nDuplicate = @ + 1]
            /\ itemAt' = [itemAt EXCEPT ![f] = "done"]
            /\ set' = set /\ freed' = freed
       ELSE /\ set' = set \cup {hval[f]} /\ freed' = freed \ {hval[f]}
            /\ counters' = [counters EXCEPT !.nUnique = @ + 1]
            /\ itemAt' = [itemAt EXCEPT ![f] = IF program = "cpcr2" THEN "create" ELSE "done"]
  BY Zenon DEF PT!Lookup, PT!Inserted
<1>3. /\ there => hval[f] \in set
      /\ ~there => hval[f] \notin set \/ hval[f] \in freed
  BY DEF PT!Found
<1>4. CASE there
  <2>1. /\ counters' = [counters EXCEPT !.nDuplicate = counters.nDuplicate + 1]
        /\ itemAt' = [itemAt EXCEPT ![f] = "done"] /\ hval[f] \in set
        /\ UNCHANGED <<hval, set, freed, nextSeq, copies, seq, copied>>
    BY <1>1, <1>2, <1>3, <1>4
  <2> QED BY <1>1, <2>1, PoolDuplicate
<1>5. CASE ~there
  <2>1. /\ counters' = [counters EXCEPT !.nUnique = counters.nUnique + 1]
        /\ set' = set \cup {hval[f]} /\ freed' = freed \ {hval[f]}
        /\ itemAt' = [itemAt EXCEPT ![f] = IF program = "cpcr2" THEN "create" ELSE "done"]
        /\ hval[f] \notin set \/ hval[f] \in freed
    BY <1>2, <1>3, <1>5
  <2> QED BY <1>1, <2>1, PoolUnique
<1> QED BY <1>4, <1>5

\* Nobody inserts a hash while candidates are looked up.
LEMMA PoolLookupCandidate ==
  ASSUME PT!PoolToolsAssumption, PoolInv, NEW f \in PT!Files, PT!LookupCandidate(f)
  PROVE  PoolInv'
<1> DEFINE to == IF hval[f] \in set THEN "done" ELSE "missed"
<1>0. /\ PoolTypeOK /\ InPhases /\ Visits /\ Ownership /\ KeysRemembered /\ MissesKnown /\ Counted
      /\ PT!Files = StoredFiles \cup PT!CandFiles /\ Cr2Files \subseteq StoredFiles
      /\ RefFiles \subseteq StoredFiles /\ StoredFiles \cap PT!CandFiles = {}
  BY FilesApart DEF PoolInv, StoredFiles
<1>1. /\ itemAt[f] = "lookup" /\ f \in PT!CandFiles /\ itemAt' = [itemAt EXCEPT ![f] = to]
      /\ program' = program /\ main' = main /\ walkTodo' = walkTodo /\ dirAt' = dirAt
      /\ UNCHANGED <<hval, set, freed, nextSeq, copies, seq, copied>>
      /\ counters' = IF hval[f] \in set THEN counters
                     ELSE [counters EXCEPT !.nMisses = counters.nMisses + 1]
  BY DEF PT!LookupCandidate, PT!disk
<1>2. to \in Stages \ {"unseen", "md5"} /\ to \in {"done", "missed"}
      /\ (to = "done" <=> hval[f] \in set)
  BY DEF Stages
<1> HIDE DEF to
<1>3. /\ InPhases' /\ Visits' /\ SeenCands' = SeenCands
      /\ itemAt' \in [PT!Files -> Stages] /\ itemAt'[f] = to
      /\ \A x \in PT!Files : x # f => itemAt'[x] = itemAt[x]
  <2>1. to \in {"create", "write", "verify", "jpg"} => f \in Cr2Files
    BY <1>2
  <2> QED BY <1>1, <1>2, <2>1, PoolMoves
<1>4. /\ counters' \in [nFiles : Nat, nUnique : Nat, nDuplicate : Nat, nCR2Err : Nat, nJPGErr : Nat,
                        nRecords : Nat, nMisses : Nat]
      /\ counters'.nFiles = counters.nFiles /\ counters'.nRecords = counters.nRecords
      /\ counters'.nUnique = counters.nUnique /\ counters'.nDuplicate = counters.nDuplicate
      /\ counters'.nCR2Err = counters.nCR2Err
      /\ counters'.nMisses = IF hval[f] \in set THEN counters.nMisses ELSE counters.nMisses + 1
  BY <1>0, <1>1 DEF PoolTypeOK
<1>5. PoolTypeOK'
  BY <1>0, <1>1, <1>3, <1>4 DEF PoolTypeOK
<1>6. /\ \A x \in PT!Files : (Owns(x)' <=> Owns(x)) /\ (Numbered(x)' <=> Numbered(x))
      /\ f \notin copied /\ copied \subseteq PT!Files
  BY <1>0, <1>1, <1>2, <1>3 DEF Owns, Storing, Numbered, Ownership, PoolTypeOK
<1>7. Ownership'
  BY <1>0, <1>1, <1>3, <1>6 DEF Ownership, PT!Place
<1>8. KeysRemembered'
  BY <1>0, <1>1, <1>3, <1>4, <1>6 DEF KeysRemembered
<1>9. MissesKnown'
  BY <1>0, <1>1, <1>2, <1>3 DEF MissesKnown
<1>10. Counted'
  <2>0. IsFiniteSet(MissedCands) /\ Cardinality(MissedCands) \in Nat
    BY <1>0, Sizes
  <2>1. BeingHashed' = BeingHashed /\ BeingStored' = BeingStored
    BY <1>0, <1>1, <1>2, <1>3 DEF BeingHashed, BeingStored, Storing
  <2>2. MissedCands' = IF hval[f] \in set THEN MissedCands ELSE MissedCands \cup {f}
    BY <1>0, <1>1, <1>2, <1>3 DEF MissedCands
  <2>3. f \notin MissedCands
    BY <1>1 DEF MissedCands
  <2>4. Cardinality(MissedCands') = IF hval[f] \in set THEN Cardinality(MissedCands)
                                    ELSE Cardinality(MissedCands) + 1
    BY <2>0, <2>2, <2>3, FS_AddElement
  <2> QED BY <1>0, <1>1, <1>3, <1>4, <2>1, <2>4 DEF Counted
<1> QED BY <1>3, <1>5, <1>7, <1>8, <1>9, <1>10 DEF PoolInv

\* Only cpcr2 copies, and only CR2 files.
LEMMA StoringIsCpcr2 ==
  ASSUME PT!PoolToolsAssumption, PoolInv, NEW f \in PT!Files,
         itemAt[f] \in {"create", "write", "verify", "jpg"}
  PROVE  f \in Cr2Files /\ program = "cpcr2"
<1>1. f \in Cr2Files /\ f \in StoredFiles /\ Cr2Files \cap RefFiles = {}
  BY FilesApart DEF PoolInv, Visits, StoredFiles
<1> QED BY <1>1 DEF PoolInv, Visits, FirstFiles, PoolTypeOK

\* A copy that fails is counted and nobody owns its hash any more; its string may have
\* been freed.
LEMMA PoolFails ==
  ASSUME PT!PoolToolsAssumption, PoolInv, NEW f \in PT!Files, Storing(f),
         itemAt' = [itemAt EXCEPT ![f] = "jpg"],
         counters' = [counters EXCEPT !.nCR2Err = counters.nCR2Err + 1],
         freed' = freed \/ freed' = freed \cup {hval[f]},
         seq' \in [PT!Files -> Nat], \A x \in PT!Files : x # f => seq'[x] = seq[x],
         nextSeq' \in Nat, nextSeq' >= nextSeq,
         program' = program, main' = main, walkTodo' = walkTodo, dirAt' = dirAt,
         UNCHANGED <<hval, set, copies, copied>>
  PROVE  PoolInv'
<1>0. /\ PoolTypeOK /\ Ownership /\ KeysRemembered /\ MissesKnown /\ Counted
      /\ PT!Files = StoredFiles \cup PT!CandFiles /\ Cr2Files \subseteq StoredFiles
      /\ RefFiles \subseteq StoredFiles /\ StoredFiles \cap PT!CandFiles = {}
      /\ Cr2Files \cap RefFiles = {}
  BY FilesApart DEF PoolInv, StoredFiles
<1>1. itemAt[f] \in {"create", "write", "verify"}
  BY DEF Storing
<1>2. f \in Cr2Files /\ program = "cpcr2" /\ "jpg" \in Stages \ {"unseen", "md5"}
  BY <1>1, StoringIsCpcr2 DEF Stages
<1>3. /\ InPhases' /\ Visits' /\ SeenCands' = SeenCands
      /\ itemAt' \in [PT!Files -> Stages] /\ itemAt'[f] = "jpg"
      /\ \A x \in PT!Files : x # f => itemAt'[x] = itemAt[x]
  BY <1>1, <1>2, PoolMoves
<1>4. /\ counters' \in [nFiles : Nat, nUnique : Nat, nDuplicate : Nat, nCR2Err : Nat, nJPGErr : Nat,
                        nRecords : Nat, nMisses : Nat]
      /\ counters'.nFiles = counters.nFiles /\ counters'.nRecords = counters.nRecords
      /\ counters'.nUnique = counters.nUnique /\ counters'.nDuplicate = counters.nDuplicate
      /\ counters'.nCR2Err = counters.nCR2Err + 1 /\ counters'.nMisses = counters.nMisses
      /\ counters.nUnique \in Nat /\ counters.nCR2Err \in Nat
  BY <1>0 DEF PoolTypeOK
<1>5. PoolTypeOK'
  BY <1>0, <1>3, <1>4 DEF PoolTypeOK
<1>6. /\ f \notin copied /\ copied \subseteq PT!Files /\ ~Owns(f)' /\ ~Numbered(f)' /\ Owns(f)
      /\ \A x \in PT!Files : x # f => (Owns(x)' <=> Owns(x)) /\ (Numbered(x)' <=> Numbered(x))
  BY <1>0, <1>1, <1>3 DEF Owns, Storing, Numbered, Ownership, PoolTypeOK
<1>7. Ownership'
  <2>1. \A x \in PT!Files : Owns(x)' => hval[x] \in set \ freed'
    BY <1>0, <1>6 DEF Ownership
  <2>2. \A x, y \in PT!Files : Owns(x)' /\ Owns(y)' /\ hval[x] = hval[y] => x = y
    BY <1>0, <1>6 DEF Ownership
  <2>3. \A x \in PT!Files : x # f => PT!Place(x)' = PT!Place(x)
    BY DEF PT!Place
  <2>4. \A x \in PT!Files : Numbered(x)' => seq'[x] < nextSeq' /\ PT!Place(x)' \in DOMAIN copies
    <3> SUFFICES ASSUME NEW x \in PT!Files, Numbered(x)'
                 PROVE  seq'[x] < nextSeq' /\ PT!Place(x)' \in DOMAIN copies
      OBVIOUS
    <3>1. x # f /\ Numbered(x)
      BY <1>6
    <3>2. seq[x] < nextSeq /\ PT!Place(x) \in DOMAIN copies
      BY <1>0, <3>1 DEF Ownership
    <3>3. seq'[x] = seq[x] /\ seq[x] \in Nat /\ nextSeq \in Nat
      BY <1>0, <3>1 DEF PoolTypeOK
    <3>4. seq'[x] < nextSeq'
      BY <3>2, <3>3
    <3> QED BY <2>3, <3>1, <3>2, <3>4
  <2>5. \A x, y \in PT!Files : Numbered(x)' /\ Numbered(y)' /\ seq'[x] = seq'[y] => x = y
    BY <1>0, <1>6 DEF Ownership
  <2>6. \A x \in copied : itemAt'[x] \in {"jpg", "done"} /\ FileMd5[copies[PT!Place(x)']] = hval[x]
    BY <1>0, <1>3, <1>6, <2>3 DEF Ownership
  <2> QED BY <2>1, <2>2, <2>4, <2>5, <2>6 DEF Ownership
<1>8. KeysRemembered'
  <2>1. \A x \in StoredFiles : itemAt'[x] \in {"create", "write", "verify", "jpg", "done"} => hval[x] \in set
    BY <1>0, <1>1, <1>3 DEF KeysRemembered
  <2>2. counters'.nCR2Err # 0
    BY <1>4
  <2> QED BY <1>2, <2>1, <2>2 DEF KeysRemembered
<1>9. MissesKnown'
  BY <1>0, <1>2, <1>3 DEF MissesKnown
<1>10. Counted'
  <2>0. Cardinality(BeingStored) \in Nat /\ IsFiniteSet(BeingStored) /\ Cardinality(copied) \in Nat
    BY <1>0, Sizes
  <2>1. BeingHashed' = BeingHashed /\ MissedCands' = MissedCands
    BY <1>0, <1>1, <1>2, <1>3 DEF BeingHashed, MissedCands
  <2>2. BeingStored' = BeingStored \ {f} /\ f \in BeingStored
    BY <1>0, <1>1, <1>2, <1>3 DEF BeingStored, Storing
  <2>3. Cardinality(BeingStored') = Cardinality(BeingStored) - 1
    BY <2>0, <2>2, FS_RemoveElement
  <2> QED BY <1>0, <1>2, <1>3, <1>4, <2>0, <2>1, <2>3 DEF Counted
<1> QED BY <1>3, <1>5, <1>7, <1>8, <1>9, <1>10 DEF PoolInv

\* The CR2 file gets a number that no other file has, and so a place of its own.
LEMMA PoolCreates ==
  ASSUME PT!PoolToolsAssumption, PoolInv, NEW f \in PT!Files, itemAt[f] = "create",
         itemAt' = [itemAt EXCEPT ![f] = "write"],
         seq' = [seq EXCEPT ![f] = nextSeq], nextSeq' = nextSeq + 1,
         <<Name[f], nextSeq>> \notin DOMAIN copies,
         copies' = [q \in DOMAIN copies \cup {<<Name[f], nextSeq>>} |->
                      IF q = <<Name[f], nextSeq>> THEN PT!Partial ELSE copies[q]],
         program' = program, main' = main, walkTodo' = walkTodo, dirAt' = dirAt,
         UNCHANGED <<hval, set, freed, copied, counters>>
  PROVE  PoolInv'
<1>0. /\ PoolTypeOK /\ Ownership /\ KeysRemembered /\ MissesKnown /\ Counted
      /\ PT!Files = StoredFiles \cup PT!CandFiles /\ Cr2Files \subseteq StoredFiles
      /\ RefFiles \subseteq StoredFiles /\ StoredFiles \cap PT!CandFiles = {}
      /\ seq \in [PT!Files -> Nat] /\ nextSeq \in Nat
  BY FilesApart DEF PoolInv, StoredFiles, PoolTypeOK
<1>2. f \in Cr2Files /\ program = "cpcr2" /\ "write" \in Stages \ {"unseen", "md5"}
  BY StoringIsCpcr2 DEF Stages
<1>3. /\ InPhases' /\ Visits' /\ SeenCands' = SeenCands
      /\ itemAt' \in [PT!Files -> Stages] /\ itemAt'[f] = "write"
      /\ \A x \in PT!Files : x # f => itemAt'[x] = itemAt[x]
  BY <1>2, PoolMoves
<1>4. /\ seq' \in [PT!Files -> Nat] /\ seq'[f] = nextSeq /\ nextSeq' \in Nat
      /\ \A x \in PT!Files : x # f => seq'[x] = seq[x]
  BY <1>0
<1>5. PoolTypeOK'
  <2>1. copies' = [p \in DOMAIN copies' |-> copies'[p]]
    OBVIOUS
  <2> QED BY <1>0, <1>3, <1>4, <2>1 DEF PoolTypeOK
<1>6. /\ f \notin copied /\ copied \subseteq PT!Files /\ ~Numbered(f)
      /\ \A x \in PT!Files : Owns(x)' <=> Owns(x)
      /\ \A x \in PT!Files : x # f => (Numbered(x)' <=> Numbered(x))
  BY <1>0, <1>3 DEF Owns, Storing, Numbered, Ownership, PoolTypeOK
<1>7. Ownership'
  <2>1. /\ \A x \in PT!Files : Owns(x)' => hval[x] \in set \ freed
        /\ \A x, y \in PT!Files : Owns(x)' /\ Owns(y)' /\ hval[x] = hval[y] => x = y
    BY <1>0, <1>6 DEF Ownership
  <2>2. /\ PT!Place(f)' = <<Name[f], nextSeq>>
        /\ \A x \in PT!Files : x # f => PT!Place(x)' = PT!Place(x)
    BY <1>4 DEF PT!Place
  <2>3. /\ DOMAIN copies' = DOMAIN copies \cup {<<Name[f], nextSeq>>}
        /\ \A q \in DOMAIN copies : copies'[q] = copies[q]
    OBVIOUS
  <2>4. \A x \in PT!Files : Numbered(x)' => seq'[x] < nextSeq' /\ PT!Place(x)' \in DOMAIN copies'
    <3> SUFFICES ASSUME NEW x \in PT!Files, Numbered(x)'
                 PROVE  seq'[x] < nextSeq' /\ PT!Place(x)' \in DOMAIN copies'
      OBVIOUS
    <3>1. CASE x = f
      BY <1>0, <1>4, <2>2, <2>3, <3>1
    <3>2. CASE x # f
      <4>1. seq[x] < nextSeq /\ PT!Place(x) \in DOMAIN copies /\ seq[x] \in Nat
        BY <1>0, <1>6, <3>2 DEF Ownership
      <4> QED BY <1>0, <1>4, <2>2, <2>3, <3>2, <4>1
    <3> QED BY <3>1, <3>2
  <2>5. \A x, y \in PT!Files : Numbered(x)' /\ Numbered(y)' /\ seq'[x] = seq'[y] => x = y
    <3>1. \A x \in PT!Files : x # f /\ Numbered(x)' => seq'[x] # seq'[f]
      BY <1>0, <1>4, <1>6 DEF Ownership
    <3> QED BY <1>0, <1>4, <1>6, <3>1 DEF Ownership
  <2>6. \A x \in copied : itemAt'[x] \in {"jpg", "done"} /\ FileMd5[copies'[PT!Place(x)']] = hval[x]
    <3> SUFFICES ASSUME NEW x \in copied
                 PROVE  itemAt'[x] \in {"jpg", "done"} /\ FileMd5[copies'[PT!Place(x)']] = hval[x]
      OBVIOUS
    <3>1. x # f /\ x \in PT!Files /\ Numbered(x)
      BY <1>6 DEF Numbered
    <3>2. /\ itemAt[x] \in {"jpg", "done"} /\ FileMd5[copies[PT!Place(x)]] = hval[x]
          /\ PT!Place(x) \in DOMAIN copies
      BY <1>0, <3>1 DEF Ownership
    <3> QED BY <1>3, <2>2, <2>3, <3>1, <3>2
  <2> QED BY <2>1, <2>4, <2>5, <2>6 DEF Ownership
<1>8. KeysRemembered'
  BY <1>0, <1>2, <1>3, <1>6 DEF KeysRemembered
<1>9. MissesKnown'
  BY <1>0, <1>2, <1>3 DEF MissesKnown
<1>10. Counted'
  <2>1. BeingHashed' = BeingHashed /\ MissedCands' = MissedCands /\ BeingStored' = BeingStored
    BY <1>0, <1>2, <1>3 DEF BeingHashed, MissedCands, BeingStored, Storing
  <2> QED BY <1>0, <1>3, <2>1 DEF Counted
<1> QED BY <1>3, <1>5, <1>7, <1>8, <1>9, <1>10 DEF PoolInv

\* The content is written to the place of f, where no other copy is.
LEMMA PoolWrites ==
  ASSUME PT!PoolToolsAssumption, PoolInv, NEW f \in PT!Files, itemAt[f] = "write",
         itemAt' = [itemAt EXCEPT ![f] = "verify"],
         copies' = [copies EXCEPT ![PT!Place(f)] = content[f]],
         program' = program, main' = main, walkTodo' = walkTodo, dirAt' = dirAt,
         UNCHANGED <<hval, set, freed, nextSeq, seq, copied, counters>>
  PROVE  PoolInv'
<1>0. /\ PoolTypeOK /\ Ownership /\ KeysRemembered /\ MissesKnown /\ Counted
      /\ PT!Files = StoredFiles \cup PT!CandFiles /\ Cr2Files \subseteq StoredFiles
      /\ RefFiles \subseteq StoredFiles /\ StoredFiles \cap PT!CandFiles = {}
  BY FilesApart DEF PoolInv, StoredFiles
<1>2. f \in Cr2Files /\ program = "cpcr2" /\ "verify" \in Stages \ {"unseen", "md5"}
  BY StoringIsCpcr2 DEF Stages
<1>3. /\ InPhases' /\ Visits' /\ SeenCands' = SeenCands
      /\ itemAt' \in [PT!Files -> Stages] /\ itemAt'[f] = "verify"
      /\ \A x \in PT!Files : x # f => itemAt'[x] = itemAt[x]
  BY <1>2, PoolMoves
<1>4. /\ DOMAIN copies' = DOMAIN copies /\ copies' = [p \in DOMAIN copies' |-> copies'[p]]
      /\ \A q \in DOMAIN copies : q # PT!Place(f) => copies'[q] = copies[q]
  BY <1>0 DEF PoolTypeOK
<1>5. PoolTypeOK'
  BY <1>0, <1>3, <1>4 DEF PoolTypeOK
<1>6. /\ f \notin copied /\ copied \subseteq PT!Files
      /\ \A x \in PT!Files : (Owns(x)' <=> Owns(x)) /\ (Numbered(x)' <=> Numbered(x))
  BY <1>0, <1>3 DEF Owns, Storing, Numbered, Ownership, PoolTypeOK
<1>7. Ownership'
  <2>1. \A x \in PT!Files : PT!Place(x)' = PT!Place(x)
    BY DEF PT!Place
  <2>2. /\ \A x \in PT!Files : Owns(x)' => hval[x] \in set \ freed
        /\ \A x, y \in PT!Files : Owns(x)' /\ Owns(y)' /\ hval[x] = hval[y] => x = y
        /\ \A x, y \in PT!Files : Numbered(x)' /\ Numbered(y)' /\ seq[x] = seq[y] => x = y
    BY <1>0, <1>6 DEF Ownership
  <2>3. \A x \in PT!Files : Numbered(x)' => seq[x] < nextSeq /\ PT!Place(x)' \in DOMAIN copies'
    BY <1>0, <1>4, <1>6, <2>1 DEF Ownership
  <2>4. ASSUME NEW x \in copied
        PROVE  itemAt'[x] \in {"jpg", "done"} /\ FileMd5[copies'[PT!Place(x)']] = hval[x]
    <3>1. x # f /\ x \in PT!Files /\ Numbered(x) /\ Numbered(f)
      BY <1>6 DEF Numbered
    <3>2. seq[x] # seq[f]
      BY <1>0, <3>1 DEF Ownership
    <3>3. PT!Place(x) # PT!Place(f)
      BY <3>2 DEF PT!Place
    <3>4. /\ itemAt[x] \in {"jpg", "done"} /\ FileMd5[copies[PT!Place(x)]] = hval[x]
          /\ PT!Place(x) \in DOMAIN copies
      BY <1>0, <3>1 DEF Ownership
    <3> QED BY <1>3, <1>4, <2>1, <3>1, <3>3, <3>4
  <2> QED BY <2>2, <2>3, <2>4 DEF Ownership
<1>8. KeysRemembered'
  BY <1>0, <1>2, <1>3, <1>6 DEF KeysRemembered
<1>9. MissesKnown'
  BY <1>0, <1>2, <1>3 DEF MissesKnown
<1>10. Counted'
  <2>1. BeingHashed' = BeingHashed /\ MissedCands' = MissedCands /\ BeingStored' = BeingStored
    BY <1>0, <1>2, <1>3 DEF BeingHashed, MissedCands, BeingStored, Storing
  <2> QED BY <1>0, <1>3, <2>1 DEF Counted
<1> QED BY <1>3, <1>5, <1>7, <1>8, <1>9, <1>10 DEF PoolInv

\* The copy has the hash of the file.
LEMMA PoolVerified ==
  ASSUME PT!PoolToolsAssumption, PoolInv, NEW f \in PT!Files, itemAt[f] = "verify",
         FileMd5[copies[PT!Place(f)]] = hval[f],
         itemAt' = [itemAt EXCEPT ![f] = "jpg"], copied' = copied \cup {f},
         program' = program, main' = main, walkTodo' = walkTodo, dirAt' = dirAt,
         UNCHANGED <<hval, set, freed, nextSeq, seq, copies, counters>>
  PROVE  PoolInv'
<1>0. /\ PoolTypeOK /\ Ownership /\ KeysRemembered /\ MissesKnown /\ Counted
      /\ PT!Files = StoredFiles \cup PT!CandFiles /\ Cr2Files \subseteq StoredFiles
      /\ RefFiles \subseteq StoredFiles /\ StoredFiles \cap PT!CandFiles = {}
  BY FilesApart DEF PoolInv, StoredFiles
<1>2. f \in Cr2Files /\ program = "cpcr2" /\ "jpg" \in Stages \ {"unseen", "md5"}
  BY StoringIsCpcr2 DEF Stages
<1>3. /\ InPhases' /\ Visits' /\ SeenCands' = SeenCands
      /\ itemAt' \in [PT!Files -> Stages] /\ itemAt'[f] = "jpg"
      /\ \A x \in PT!Files : x # f => itemAt'[x] = itemAt[x]
  BY <1>2, PoolMoves
<1>5. PoolTypeOK'
  BY <1>0, <1>2, <1>3 DEF PoolTypeOK
<1>6. /\ f \notin copied /\ copied' \subseteq PT!Files
      /\ \A x \in PT!Files : (Owns(x)' <=> Owns(x)) /\ (Numbered(x)' <=> Numbered(x))
  BY <1>0, <1>3 DEF Owns, Storing, Numbered, Ownership, PoolTypeOK
<1>7. Ownership'
  <2>1. \A x \in PT!Files : PT!Place(x)' = PT!Place(x)
    BY DEF PT!Place
  <2>2. /\ \A x \in PT!Files : Owns(x)' => hval[x] \in set \ freed
        /\ \A x, y \in PT!Files : Owns(x)' /\ Owns(y)' /\ hval[x] = hval[y] => x = y
        /\ \A x, y \in PT!Files : Numbered(x)' /\ Numbered(y)' /\ seq[x] = seq[y] => x = y
        /\ \A x \in PT!Files : Numbered(x)' => seq[x] < nextSeq /\ PT!Place(x)' \in DOMAIN copies
    BY <1>0, <1>6, <2>1 DEF Ownership
  <2>3. \A x \in copied' : itemAt'[x] \in {"jpg", "done"} /\ FileMd5[copies[PT!Place(x)']] = hval[x]
    BY <1>0, <1>3, <1>6, <2>1 DEF Ownership
  <2> QED BY <2>2, <2>3 DEF Ownership
<1>8. KeysRemembered'
  BY <1>0, <1>2, <1>3, <1>6 DEF KeysRemembered, Ownership, Owns, Storing
<1>9. MissesKnown'
  BY <1>0, <1>2, <1>3 DEF MissesKnown
<1>10. Counted'
  <2>0. /\ IsFiniteSet(BeingStored) /\ Cardinality(BeingStored) \in Nat
        /\ IsFiniteSet(copied) /\ Cardinality(copied) \in Nat
        /\ counters.nUnique \in Nat /\ counters.nCR2Err \in Nat
    BY <1>0, Sizes DEF PoolTypeOK
  <2>1. BeingHashed' = BeingHashed /\ MissedCands' = MissedCands
    BY <1>0, <1>2, <1>3 DEF BeingHashed, MissedCands
  <2>2. BeingStored' = BeingStored \ {f} /\ f \in BeingStored
    BY <1>0, <1>2, <1>3 DEF BeingStored, Storing
  <2>3. Cardinality(BeingStored') = Cardinality(BeingStored) - 1
    BY <2>0, <2>2, FS_RemoveElement
  <2>4. Cardinality(copied') = Cardinality(copied) + 1
    BY <2>0, <1>6, FS_AddElement
  <2>5. counters.nUnique = Cardinality(copied') + counters.nCR2Err + Cardinality(BeingStored')
    BY <1>0, <1>2, <2>0, <2>3, <2>4 DEF Counted
  <2> QED BY <1>0, <1>2, <1>3, <2>1, <2>5 DEF Counted
<1> QED BY <1>3, <1>5, <1>7, <1>8, <1>9, <1>10 DEF PoolInv

LEMMA PoolCopyJpg ==
  ASSUME PT!PoolToolsAssumption, PoolInv, NEW f \in PT!Files, PT!CopyJpg(f)
  PROVE  PoolInv'
<1>0. /\ PoolTypeOK /\ Ownership /\ KeysRemembered /\ MissesKnown /\ Counted
      /\ PT!Files = StoredFiles \cup PT!CandFiles /\ Cr2Files \subseteq StoredFiles
      /\ RefFiles \subseteq StoredFiles /\ StoredFiles \cap PT!CandFiles = {}
  BY FilesApart DEF PoolInv, StoredFiles
<1>1. /\ itemAt[f] = "jpg" /\ itemAt' = [itemAt EXCEPT ![f] = "done"]
      /\ counters' = counters \/ counters' = [counters EXCEPT !.nJPGErr = counters.nJPGErr + 1]
      /\ program' = program /\ main' = main /\ walkTodo' = walkTodo /\ dirAt' = dirAt
      /\ UNCHANGED <<hval, set, freed, nextSeq, copies, seq, copied>>
  BY DEF PT!CopyJpg, PT!walks, PT!disk
<1>2. f \in Cr2Files /\ program = "cpcr2" /\ "done" \in Stages \ {"unseen", "md5"}
  BY <1>1, StoringIsCpcr2 DEF Stages
<1>3. /\ InPhases' /\ Visits' /\ SeenCands' = SeenCands
      /\ itemAt' \in [PT!Files -> Stages] /\ itemAt'[f] = "done"
      /\ \A x \in PT!Files : x # f => itemAt'[x] = itemAt[x]
  BY <1>1, <1>2, PoolMoves
<1>4. /\ counters' \in [nFiles : Nat, nUnique : Nat, nDuplicate : Nat, nCR2Err : Nat, nJPGErr : Nat,
                        nRecords : Nat, nMisses : Nat]
      /\ counters'.nFiles = counters.nFiles /\ counters'.nRecords = counters.nRecords
      /\ counters'.nUnique = counters.nUnique /\ counters'.nDuplicate = counters.nDuplicate
      /\ counters'.nCR2Err = counters.nCR2Err /\ counters'.nMisses = counters.nMisses
  BY <1>0, <1>1 DEF PoolTypeOK
<1>5. PoolTypeOK'
  BY <1>0, <1>1, <1>3, <1>4 DEF PoolTypeOK
<1>6. \A x \in PT!Files : (Owns(x)' <=> Owns(x)) /\ (Numbered(x)' <=> Numbered(x))
  BY <1>0, <1>1, <1>3 DEF Owns, Storing, Numbered
<1>7. Ownership'
  BY <1>0, <1>1, <1>3, <1>6 DEF Ownership, PT!Place
<1>8. KeysRemembered'
  BY <1>0, <1>1, <1>2, <1>3, <1>4, <1>6 DEF KeysRemembered
<1>9. MissesKnown'
  BY <1>0, <1>1, <1>2, <1>3 DEF MissesKnown
<1>10. Counted'
  <2>1. BeingHashed' = BeingHashed /\ MissedCands' = MissedCands /\ BeingStored' = BeingStored
    BY <1>0, <1>1, <1>2, <1>3 DEF BeingHashed, MissedCands, BeingStored, Storing
  <2> QED BY <1>0, <1>1, <1>3, <1>4, <2>1 DEF Counted
<1> QED BY <1>3, <1>5, <1>7, <1>8, <1>9, <1>10 DEF PoolInv

\* The steps of copy_file_hash.
LEMMA PoolCopies ==
  ASSUME PT!PoolToolsAssumption, PoolInv, NEW f \in PT!Files,
         PT!Create(f) \/ PT!Write(f) \/ PT!Verify(f)
  PROVE  PoolInv'
<1>0. /\ seq \in [PT!Files -> Nat] /\ nextSeq \in Nat
      /\ program' = program /\ main' = main /\ walkTodo' = walkTodo /\ dirAt' = dirAt
      /\ hval' = hval /\ set' = set
  BY DEF PoolInv, PoolTypeOK, PT!Create, PT!Write, PT!Verify, PT!walks
<1>1. CASE PT!Create(f)
  <2>1. /\ itemAt[f] = "create" /\ seq' = [seq EXCEPT ![f] = nextSeq] /\ nextSeq' = nextSeq + 1
        /\ freed' = freed /\ copied' = copied
        /\ \/ /\ <<Name[f], nextSeq>> \notin DOMAIN copies
              /\ copies' = [q \in DOMAIN copies \cup {<<Name[f], nextSeq>>} |->
                              IF q = <<Name[f], nextSeq>> THEN PT!Partial ELSE copies[q]]
              /\ itemAt' = [itemAt EXCEPT ![f] = "write"] /\ counters' = counters
           \/ /\ itemAt' = [itemAt EXCEPT ![f] = "jpg"] /\ copies' = copies
              /\ counters' = [counters EXCEPT !.nCR2Err = counters.nCR2Err + 1]
    BY <1>1 DEF PT!Create, PT!CR2Err
  <2>2. /\ seq' \in [PT!Files -> Nat] /\ (\A x \in PT!Files : x # f => seq'[x] = seq[x])
        /\ nextSeq' \in Nat /\ nextSeq' >= nextSeq /\ Storing(f)
    BY <1>0, <2>1 DEF Storing
  <2> QED BY <1>0, <2>1, <2>2, PoolFails, PoolCreates
<1>2. CASE PT!Write(f)
  <2>1. /\ itemAt[f] = "write" /\ seq' = seq /\ nextSeq' = nextSeq
        /\ freed' = freed /\ copied' = copied
        /\ \/ /\ copies' = [copies EXCEPT ![PT!Place(f)] = content[f]]
              /\ itemAt' = [itemAt EXCEPT ![f] = "verify"] /\ counters' = counters
           \/ /\ itemAt' = [itemAt EXCEPT ![f] = "jpg"] /\ copies' = copies
              /\ counters' = [counters EXCEPT !.nCR2Err = counters.nCR2Err + 1]
    BY <1>2 DEF PT!Write, PT!CR2Err
  <2>2. /\ seq' \in [PT!Files -> Nat] /\ (\A x \in PT!Files : x # f => seq'[x] = seq[x])
        /\ nextSeq' \in Nat /\ nextSeq' >= nextSeq /\ Storing(f)
    BY <1>0, <2>1 DEF Storing
  <2> QED BY <1>0, <2>1, <2>2, PoolFails, PoolWrites
<1>3. CASE PT!Verify(f)
  <2>1. /\ itemAt[f] = "verify" /\ seq' = seq /\ nextSeq' = nextSeq
        /\ copies' = copies /\ itemAt' = [itemAt EXCEPT ![f] = "jpg"]
        /\ \/ /\ FileMd5[copies[PT!Place(f)]] = hval[f] /\ copied' = copied \cup {f}
              /\ freed' = freed /\ counters' = counters
           \/ /\ freed' = freed \cup {hval[f]} /\ copied' = copied
              /\ counters' = [counters EXCEPT !.nCR2Err = counters.nCR2Err + 1]
    BY <1>3 DEF PT!Verify, PT!CR2Err, PT!Verified
  <2>2. /\ seq' \in [PT!Files -> Nat] /\ (\A x \in PT!Files : x # f => seq'[x] = seq[x])
        /\ nextSeq' \in Nat /\ nextSeq' >= nextSeq /\ Storing(f)
    BY <1>0, <2>1 DEF Storing
  <2> QED BY <1>0, <2>1, <2>2, PoolFails, PoolVerified
<1> QED BY <1>1, <1>2, <1>3

\* The invariant holds however the walks and the callbacks interleave.
LEMMA PoolInvariance ==
  ASSUME PT!PoolToolsAssumption, PoolInv, [PT!Next]_(PT!vars)  PROVE PoolInv'
<1>1. CASE PT!Main \/ \E d \in Dirs : PT!DirStarts(d) \/ PT!DirEnds(d)
  BY <1>1, PoolMain
<1>2. CASE \E w \in PT!Walkers, f \in PT!Files : PT!Visit(w, f)
  BY <1>2, PoolVisit
<1>3. CASE \E f \in PT!Files : PT!callback(f) \/ PT!Change(f)
  <2> PICK f \in PT!Files : PT!callback(f) \/ PT!Change(f)
    BY <1>3
  <2>1. CASE PT!md5sum(f)
    BY <2>1, PoolMd5sum
  <2>2. CASE PT!Lookup(f)
    BY <2>2, PoolLookup
  <2>3. CASE PT!LookupCandidate(f)
    BY <2>3, PoolLookupCandidate
  <2>4. CASE PT!Create(f) \/ PT!Write(f) \/ PT!Verify(f)
    BY <2>4, PoolCopies
  <2>5. CASE PT!CopyJpg(f)
    BY <2>5, PoolCopyJpg
  <2>6. CASE PT!Change(f)
    BY <2>6, PoolChange
  <2> QED BY <2>1, <2>2, <2>3, <2>4, <2>5, <2>6 DEF PT!callback
<1>4. CASE UNCHANGED PT!vars
  <2>1. UNCHANGED <<program, main, walkTodo, dirAt, itemAt, hval, set, freed, nextSeq, copies,
                    seq, copied, counters>>
    BY <1>4 DEF PT!vars, PT!walks, PT!disk
  <2>2. PoolTypeOK' /\ InPhases' /\ Visits'
    BY <2>1 DEF PoolInv, PoolTypeOK, InPhases, Visits, FirstFiles
  <2>3. Ownership' /\ KeysRemembered' /\ MissesKnown'
    BY <2>1 DEF PoolInv, Ownership, Owns, Storing, Numbered, PT!Place, KeysRemembered, MissesKnown
  <2>4. Counted'
    BY <2>1 DEF PoolInv, Counted, BeingHashed, BeingStored, Storing, SeenCands, MissedCands
  <2> QED BY <2>2, <2>3, <2>4 DEF PoolInv
<1> QED BY <1>1, <1>2, <1>3, <1>4 DEF PT!Next

\* No two of the verified copies of cpcr2 are of one hash or have one name.
LEMMA PoolDistinct ==
  ASSUME PT!PoolToolsAssumption, PoolInv  PROVE PT!CopiesDistinct
<1> SUFFICES ASSUME NEW f \in copied, NEW g \in copied, f # g
             PROVE  hval[f] # hval[g] /\ PT!Place(f) # PT!Place(g)
  BY DEF PT!CopiesDistinct
<1>1. /\ f \in PT!Files /\ g \in PT!Files /\ Ownership
      /\ Owns(f) /\ Owns(g) /\ Numbered(f) /\ Numbered(g)
  BY FilesApart DEF PoolInv, PoolTypeOK, StoredFiles, Owns, Numbered
<1>2. hval[f] # hval[g] /\ seq[f] # seq[g]
  BY <1>1 DEF Ownership
<1> QED BY <1>2 DEF PT!Place

\* When cpcr2 or transactor ends, no file is outstanding.
LEMMA PoolOver ==
  ASSUME PT!PoolToolsAssumption, PoolInv, main = "done"
  PROVE  /\ BeingHashed = {} /\ BeingStored = {}
         /\ \A f \in FirstFiles : itemAt[f] = "done"
         /\ program = "transactor" => \A f \in PT!CandFiles : itemAt[f] \in {"done", "missed"}
<1>0. /\ PoolTypeOK /\ InPhases /\ Visits
      /\ PT!Files = StoredFiles \cup PT!CandFiles /\ Cr2Files \subseteq StoredFiles
      /\ FirstFiles \subseteq StoredFiles /\ StoredFiles \cap PT!CandFiles = {}
  BY FilesApart DEF PoolInv, StoredFiles
<1>1. \A f \in PT!Files : itemAt[f] \in {"unseen", "done", "missed"}
  BY <1>0 DEF InPhases
<1>2. BeingHashed = {} /\ BeingStored = {}
  BY <1>0, <1>1 DEF BeingHashed, BeingStored, Storing
<1>3. \A f \in FirstFiles : itemAt[f] = "done"
  <2>1. walkTodo["main"] = {} /\ \A f \in StoredFiles : itemAt[f] \in {"unseen", "done"}
    BY <1>0 DEF InPhases
  <2>2. \A f \in FirstFiles : itemAt[f] # "unseen"
    BY <1>0, <2>1 DEF Visits
  <2> QED BY <1>0, <2>1, <2>2
<1>4. ASSUME program = "transactor", NEW f \in PT!CandFiles  PROVE itemAt[f] \in {"done", "missed"}
  <2>1. PICK d \in Dirs : f \in FilesIn[d]
    BY FilesApart
  <2>2. walkTodo[d] = {}
    BY <1>0, <1>4 DEF InPhases
  <2>3. itemAt[f] # "unseen"
    BY <1>0, <2>1, <2>2 DEF Visits
  <2> QED BY <1>0, <1>1, <2>3
<1> QED BY <1>2, <1>3, <1>4

\* A candidate is looked up when the set has the hashes of the reference, all and only.
LEMMA RefSetFull ==
  ASSUME PT!PoolToolsAssumption, PoolInv, NEW f \in PT!CandFiles, itemAt[f] # "unseen"
  PROVE  /\ program = "transactor" /\ \A r \in RefFiles : itemAt[r] = "done"
         /\ set = {hval[r] : r \in RefFiles}
<1>0. PoolTypeOK /\ InPhases /\ Visits /\ KeysRemembered /\ RefFiles \subseteq StoredFiles
  BY DEF PoolInv, StoredFiles
<1>1. main # "walk" /\ program = "transactor"
  <2>1. PICK d \in Dirs : f \in FilesIn[d]
    BY FilesApart
  <2>2. dirAt[d] # "idle"
    BY <1>0, <2>1 DEF InPhases
  <2> QED BY <1>0, <2>2 DEF InPhases, PoolTypeOK
<1>2. FirstFiles = RefFiles
  BY <1>1 DEF FirstFiles
<1>3. \A r \in RefFiles : itemAt[r] = "done"
  BY <1>0, <1>1, <1>2 DEF InPhases, Visits
<1>4. /\ \A r \in RefFiles : hval[r] \in set
      /\ \A x \in set : \E r \in RefFiles : hval[r] = x
  BY <1>0, <1>1, <1>3 DEF KeysRemembered
<1> QED BY <1>1, <1>3, <1>4

\* When cpcr2 ends its counts add up, and if no copy failed each hash has its copy.
LEMMA PoolAccounted ==
  ASSUME PT!PoolToolsAssumption, PoolInv  PROVE PT!Accounted
<1> SUFFICES ASSUME program = "cpcr2", main = "done"
             PROVE  /\ counters.nFiles = counters.nUnique + counters.nDuplicate
                    /\ counters.nUnique = PT!Cardinality(copied) + counters.nCR2Err
                    /\ counters.nCR2Err = 0 =>
                         \A f \in Cr2Files : \E g \in copied :
                           hval[g] = hval[f] /\ FileMd5[copies[PT!Place(g)]] = hval[f]
  BY DEF PT!Accounted
<1>0. PoolTypeOK /\ Ownership /\ KeysRemembered /\ Counted /\ Cr2Files \subseteq StoredFiles
  BY DEF PoolInv, StoredFiles
<1>1. /\ BeingHashed = {} /\ BeingStored = {} /\ \A f \in Cr2Files : itemAt[f] = "done"
  BY PoolOver DEF FirstFiles
<1>2. Cardinality({}) = 0 /\ PT!Cardinality(copied) = Cardinality(copied)
  BY FS_EmptySet, SameFinitePT
<1>3. /\ counters.nFiles \in Nat /\ counters.nUnique \in Nat /\ counters.nDuplicate \in Nat
      /\ counters.nCR2Err \in Nat /\ Cardinality(copied) \in Nat
  BY <1>0, Sizes DEF PoolTypeOK
<1>4. /\ counters.nFiles = counters.nUnique + counters.nDuplicate
      /\ counters.nUnique = PT!Cardinality(copied) + counters.nCR2Err
  BY <1>0, <1>1, <1>2, <1>3 DEF Counted
<1>5. ASSUME counters.nCR2Err = 0, NEW f \in Cr2Files
      PROVE  \E g \in copied : hval[g] = hval[f] /\ FileMd5[copies[PT!Place(g)]] = hval[f]
  <2>1. hval[f] \in set
    BY <1>0, <1>1 DEF KeysRemembered
  <2>2. PICK g \in Cr2Files : Owns(g) /\ hval[g] = hval[f]
    BY <1>0, <1>5, <2>1 DEF KeysRemembered
  <2>3. g \in copied
    BY <1>1, <2>2 DEF Owns, Storing
  <2> QED BY <1>0, <2>2, <2>3 DEF Ownership
<1> QED BY <1>4, <1>5

\* transactor prints exactly the candidates whose hash no file of the reference has, and
\* counts them, what it has seen, and the duplicates of the reference.
LEMMA PoolMissesTrue ==
  ASSUME PT!PoolToolsAssumption, PoolInv  PROVE PT!MissesTrue
<1> DEFINE known == {hval[r] : r \in RefFiles}
<1>0. PoolTypeOK /\ MissesKnown /\ Counted /\ KeysRemembered /\ RefFiles \subseteq StoredFiles
  BY DEF PoolInv, StoredFiles
<1>1. ASSUME NEW f \in MissedCands
      PROVE  hval[f] \notin known /\ \A r \in RefFiles : itemAt[r] = "done"
  <2>1. f \in PT!CandFiles /\ itemAt[f] = "missed"
    BY DEF MissedCands
  <2>2. set = known /\ \A r \in RefFiles : itemAt[r] = "done"
    BY <2>1, RefSetFull
  <2> QED BY <1>0, <2>1, <2>2 DEF MissesKnown
<1>2. ASSUME program = "transactor", main = "done"
      PROVE  /\ MissedCands = {f \in PT!CandFiles : hval[f] \notin known}
             /\ counters.nMisses = PT!Cardinality(MissedCands)
             /\ counters.nRecords = PT!Cardinality(PT!CandFiles)
             /\ counters.nFiles = PT!Cardinality(set) + counters.nDuplicate
  <2>1. /\ BeingHashed = {} /\ \A f \in PT!CandFiles : itemAt[f] \in {"done", "missed"}
    BY <1>2, PoolOver
  <2>2. \A f \in PT!CandFiles : itemAt[f] = "missed" <=> hval[f] \notin known
    <3> SUFFICES ASSUME NEW f \in PT!CandFiles
                 PROVE  itemAt[f] = "missed" <=> hval[f] \notin known
      OBVIOUS
    <3>1. itemAt[f] \in {"done", "missed"}
      BY <2>1
    <3>2. set = known
      BY <3>1, RefSetFull
    <3> QED BY <1>0, <3>1, <3>2 DEF MissesKnown
  <2>3. MissedCands = {f \in PT!CandFiles : hval[f] \notin known}
    BY <2>2 DEF MissedCands
  <2>4. SeenCands = PT!CandFiles
    BY <2>1 DEF SeenCands
  <2>5. Cardinality({}) = 0 /\ \A S : PT!Cardinality(S) = Cardinality(S)
    BY FS_EmptySet, SameFinitePT
  <2>6. counters.nFiles = Cardinality(set) + counters.nDuplicate
    <3>1. /\ counters.nUnique \in Nat /\ counters.nDuplicate \in Nat
      BY <1>0 DEF PoolTypeOK
    <3> QED BY <1>0, <1>2, <2>1, <2>5, <3>1 DEF Counted
  <2>7. counters.nMisses = Cardinality(MissedCands) /\ counters.nRecords = Cardinality(PT!CandFiles)
    BY <1>0, <2>4 DEF Counted
  <2> QED BY <2>3, <2>5, <2>6, <2>7
<1> QED BY <1>1, <1>2 DEF PT!MissesTrue, MissedCands

--------------------------------------------------------------------------------
(* CompareTools: xdiff, bdiff, zerorun, cmpdir and countcphash             *)

FileTool == program \in {"xdiff", "bdiff", "zerorun"}
TreeTool == program \in {"cmpdir", "countcphash"}

CompareTypeOK ==
  /\ FileTool \/ TreeTool
  /\ fileA \in Seq(Bytes) /\ fileB \in Seq(Bytes)
  /\ twoTrees \in [CT!Both -> Seq(TreeContents \cup {CT!Skipped})]
  /\ FileTool => mainAt \in {"start", "loop", "returned"}
  /\ TreeTool => mainAt \in {"A", "B", "returned"}
  /\ offset \in Nat /\ rc \in Int
  /\ runStart \in Nat \cup {-1} /\ runEnd \in Nat \cup {-1}
  /\ nFiles \in [CT!Both -> Nat] /\ nBytes \in [CT!Both -> Nat]
  /\ hashSets \in [CT!Both -> SUBSET Nat] /\ cut \in [CT!Both -> BOOLEAN]
  /\ nDuplicates \in Nat /\ nUnique \in Nat /\ nBytesUnique \in Nat

\* xdiff is at the start of a buffer, or at the end of two files of one size.
BuffersCompared ==
  program = "xdiff" =>
    /\ offset <= Len(fileA) /\ offset <= Len(fileB)
    /\ (\E q \in Nat : offset = q * Buffer) \/ Len(fileA) = Len(fileB)
    /\ output = {d \in CT!Differences : d < offset}
    /\ mainAt = "returned" /\ rc = 0 => offset = Len(fileA)

BytesCompared ==
  program = "bdiff" =>
    /\ mainAt = "start" => offset = 0
    /\ mainAt = "loop" \/ (mainAt = "returned" /\ rc = 0) => Len(fileA) = Len(fileB)
    /\ offset <= Len(fileA)
    /\ output = {d \in CT!Differences : d < offset}
    /\ mainAt = "returned" /\ rc = 0 => offset = Len(fileA)

\* The run that is open reaches the last block that was read; every other is printed.
RunOpen ==
  /\ runStart \in 0 .. offset - 1 /\ runEnd = offset - 1
  /\ \A i \in runStart .. offset - 1 : fileA[i + 1] = 0
  /\ runStart > 0 => fileA[runStart] # 0

BlocksTested ==
  program = "zerorun" =>
    /\ offset <= Len(fileA)
    /\ IF runStart # -1 THEN RunOpen ELSE offset = 0 \/ fileA[offset] # 0
    /\ output = {r \in CT!ZeroRuns : r[2] < offset - 1}
    /\ mainAt = "returned" /\ rc = 0 => offset = Len(fileA)

\* The files among the first m entries of a tree, and those that can be read.
FilesUpTo(t, m)  == {k \in 1 .. m : t[k] # CT!Skipped}
ReadUpTo(t, m)   == {k \in FilesUpTo(t, m) : ContentHash[t[k]] # 0}
FoundUpTo(t, m)  == {t[k] : k \in ReadUpTo(t, m)}
HashesFrom(S)    == {ContentHash[c] : c \in S}
BytesUpTo(t, m)  == UNION {{k} \X (1 .. ContentSize[t[k]]) : k \in FilesUpTo(t, m)}
BytesFrom(S)     == UNION {{c} \X (1 .. ContentSize[c]) : c \in S}

\* What a walk of tree t has counted after m entries: n files of b bytes, with hashes h.
CountedIn(t, m, n, b, h) ==
  /\ m <= Len(t) /\ IsFiniteSet(BytesUpTo(t, m))
  /\ n = Cardinality(FilesUpTo(t, m)) /\ b = Cardinality(BytesUpTo(t, m))
  /\ h = HashesFrom(FoundUpTo(t, m))

CountedTo(w, m) == CountedIn(twoTrees[w], m, nFiles[w], nBytes[w], hashSets[w])

\* Of the files that could be read u are unique and d are not.  The unique bytes are those
\* of some contents that were found, one for each hash.
UniqueIn(t, m, h, d, u, b) ==
  /\ IsFiniteSet(BytesFrom(FoundUpTo(t, m))) /\ IsFiniteSet(h)
  /\ u + d = Cardinality(ReadUpTo(t, m)) /\ u = Cardinality(h)
  /\ \E S \in SUBSET FoundUpTo(t, m) : HashesFrom(S) = h /\ b = Cardinality(BytesFrom(S))

UniqueTo(m) ==
  UniqueIn(twoTrees["A"], m, hashSets["A"], nDuplicates, nUnique, nBytesUnique)

\* Everything up to where the walk of a tree has ended is counted.
Ended(w) == \E m \in CT!Stops(w) : CountedTo(w, m)

TreesCompared ==
  program = "cmpdir" =>
    /\ mainAt = "A" => CountedTo("B", 0) /\ ~cut["B"]
    /\ mainAt \in CT!Both =>
         CountedTo(mainAt, offset) /\ (cut[mainAt] => offset \in CT!Stops(mainAt))
    /\ mainAt # "A" => Ended("A")
    /\ mainAt = "returned" =>
         /\ Ended("B")
         /\ (rc = 0 <=> /\ nFiles["A"] = nFiles["B"] /\ nBytes["A"] = nBytes["B"]
                        /\ hashSets["A"] = hashSets["B"])

DuplicatesCounted ==
  program = "countcphash" =>
    /\ mainAt \in {"A", "returned"}
    /\ CountedTo("A", offset) /\ UniqueTo(offset)
    /\ mainAt = "returned" => offset = Len(twoTrees["A"])

CompareInv ==
  /\ CompareTypeOK /\ BuffersCompared /\ BytesCompared /\ BlocksTested
  /\ TreesCompared /\ DuplicatesCounted

\* The module brings its own copies of the operators on finite sets.
LEMMA SameFiniteCT ==
  \A S : (CT!IsFiniteSet(S) <=> IsFiniteSet(S)) /\ CT!Cardinality(S) = Cardinality(S)
<1>1. \A S : CT!IsFiniteSet(S) <=> IsFiniteSet(S)
  BY DEF CT!IsFiniteSet, IsFiniteSet
<1>2. \A S : CT!Cardinality(S) = Cardinality(S)
  BY Zenon DEF CT!Cardinality, Cardinality
<1> QED BY <1>1, <1>2

LEMMA SmallSeqs ==
  ASSUME NEW S, NEW n \in Nat, NEW x \in CT!SeqsUpTo(S, n)
  PROVE  x \in Seq(S)
BY DEF CT!SeqsUpTo

\* Nothing is counted of no entries.
LEMMA NothingCounted ==
  ASSUME NEW t
  PROVE  /\ FilesUpTo(t, 0) = {} /\ ReadUpTo(t, 0) = {} /\ FoundUpTo(t, 0) = {}
         /\ BytesUpTo(t, 0) = {} /\ BytesFrom({}) = {} /\ HashesFrom({}) = {}
<1>1. FilesUpTo(t, 0) = {}
  BY DEF FilesUpTo
<1> QED BY <1>1 DEF ReadUpTo, FoundUpTo, BytesUpTo, BytesFrom, HashesFrom

LEMMA CompareInit ==
  ASSUME CT!CompareToolsAssumption, CT!Init  PROVE CompareInv
<1>0. /\ offset = 0 /\ rc = 0 /\ output = {} /\ runStart = -1 /\ runEnd = -1
      /\ nFiles = [w \in CT!Both |-> 0] /\ nBytes = [w \in CT!Both |-> 0]
      /\ hashSets = [w \in CT!Both |-> {}] /\ cut = [w \in CT!Both |-> FALSE]
      /\ nDuplicates = 0 /\ nUnique = 0 /\ nBytesUnique = 0
      /\ CompareSize \in Nat /\ MaxTree \in Nat /\ Buffer \in Nat
  BY DEF CT!Init, CT!None, CT!CompareToolsAssumption
<1>1. /\ fileA \in Seq(Bytes) /\ fileB \in Seq(Bytes)
      /\ twoTrees \in [CT!Both -> Seq(TreeContents \cup {CT!Skipped})]
      /\ \/ program \in {"xdiff", "bdiff", "zerorun"} /\ mainAt = "start"
         \/ program \in {"cmpdir", "countcphash"} /\ mainAt = "A"
  <2>1. CASE program \in {"xdiff", "bdiff", "zerorun"}
    <3>1. /\ mainAt = "start" /\ fileA \in CT!SeqsUpTo(Bytes, CompareSize)
          /\ fileB \in CT!SeqsUpTo(Bytes, CompareSize) \/ fileB = << >>
          /\ twoTrees = [w \in CT!Both |-> << >>]
      BY <2>1 DEF CT!Init
    <3>2. << >> \in Seq(Bytes) /\ << >> \in Seq(TreeContents \cup {CT!Skipped})
      OBVIOUS
    <3>3. fileA \in Seq(Bytes) /\ fileB \in Seq(Bytes)
      BY <1>0, <3>1, <3>2, SmallSeqs
    <3> QED BY <2>1, <3>1, <3>2, <3>3
  <2>2. CASE program \in {"cmpdir", "countcphash"}
    <3>1. /\ mainAt = "A" /\ fileA = << >> /\ fileB = << >>
          /\ twoTrees \in [CT!Both -> CT!SeqsUpTo(TreeContents \cup {CT!Skipped}, MaxTree)]
      BY <2>2 DEF CT!Init
    <3>2. \A x \in CT!SeqsUpTo(TreeContents \cup {CT!Skipped}, MaxTree) :
            x \in Seq(TreeContents \cup {CT!Skipped})
      BY <1>0, SmallSeqs
    <3>3. twoTrees \in [CT!Both -> Seq(TreeContents \cup {CT!Skipped})]
      <4> DEFINE X == CT!SeqsUpTo(TreeContents \cup {CT!Skipped}, MaxTree)
                 Y == Seq(TreeContents \cup {CT!Skipped})
      <4>1. twoTrees \in [CT!Both -> X] /\ \A x \in X : x \in Y
        BY <3>1, <3>2
      <4> HIDE DEF X, Y
      <4>2. twoTrees \in [CT!Both -> Y]
        BY <4>1
      <4> QED BY <4>2 DEF Y
    <3>4. << >> \in Seq(Bytes)
      OBVIOUS
    <3> QED BY <2>2, <3>1, <3>3, <3>4
  <2> QED BY <2>1, <2>2 DEF CT!Init
<1>2. CompareTypeOK
  BY <1>0, <1>1 DEF CompareTypeOK, FileTool, TreeTool
<1>3. Len(fileA) \in Nat /\ Len(fileB) \in Nat /\ \A w \in CT!Both : Len(twoTrees[w]) \in Nat
  BY <1>1
<1>4. {e \in CT!Differences : e < offset} = {}
  <2>1. \A e \in CT!Differences : ~(e < 0)
    BY <1>3 DEF CT!Differences
  <2> QED BY <1>0, <2>1
<1>5. BuffersCompared /\ BytesCompared
  <2>1. \E q \in Nat : offset = q * Buffer
    <3>1. 0 \in Nat /\ offset = 0 * Buffer
      BY <1>0
    <3> QED BY <3>1
  <2>2. output = {e \in CT!Differences : e < offset}
    BY <1>0, <1>4
  <2>3. offset = 0 /\ mainAt # "loop" /\ mainAt # "returned"
    BY <1>0, <1>1
  <2> QED BY <1>3, <2>1, <2>2, <2>3 DEF BuffersCompared, BytesCompared
<1>6. BlocksTested
  <2>1. \A r \in CT!ZeroRuns : ~(r[2] < 0 - 1)
    BY <1>3 DEF CT!ZeroRuns
  <2> QED BY <1>0, <1>1, <1>3, <2>1 DEF BlocksTested
<1>7. \A w \in CT!Both : CountedTo(w, 0)
  <2> SUFFICES ASSUME NEW w \in CT!Both  PROVE CountedTo(w, 0)
    OBVIOUS
  <2>1. 0 <= Len(twoTrees[w]) /\ nFiles[w] = 0 /\ nBytes[w] = 0 /\ hashSets[w] = {}
    BY <1>0, <1>3
  <2>2. /\ FilesUpTo(twoTrees[w], 0) = {} /\ BytesUpTo(twoTrees[w], 0) = {}
        /\ HashesFrom(FoundUpTo(twoTrees[w], 0)) = {}
    BY NothingCounted
  <2> QED BY <2>1, <2>2, FS_EmptySet DEF CountedTo, CountedIn
<1>8. UniqueTo(0)
  <2>1. "A" \in CT!Both
    BY DEF CT!Both
  <2>2. hashSets["A"] = {} /\ FoundUpTo(twoTrees["A"], 0) = {} /\ ReadUpTo(twoTrees["A"], 0) = {}
    BY <1>0, <2>1, NothingCounted
  <2>3. BytesFrom({}) = {} /\ HashesFrom({}) = {}
    BY NothingCounted
  <2>4. \E S \in SUBSET FoundUpTo(twoTrees["A"], 0) :
          HashesFrom(S) = hashSets["A"] /\ nBytesUnique = Cardinality(BytesFrom(S))
    BY <1>0, <2>2, <2>3, FS_EmptySet
  <2>5. /\ IsFiniteSet(BytesFrom(FoundUpTo(twoTrees["A"], 0))) /\ IsFiniteSet(hashSets["A"])
        /\ nUnique + nDuplicates = Cardinality(ReadUpTo(twoTrees["A"], 0))
        /\ nUnique = Cardinality(hashSets["A"])
    BY <1>0, <2>2, <2>3, FS_EmptySet
  <2> QED BY <2>4, <2>5 DEF UniqueTo, UniqueIn
<1>9. TreesCompared /\ DuplicatesCounted
  BY <1>0, <1>1, <1>7, <1>8 DEF TreesCompared, DuplicatesCounted, CT!Both
<1> QED BY <1>2, <1>5, <1>6, <1>9 DEF CompareInv

\* A walk that has ended is not counted again.
LEMMA StopsStay ==
  ASSUME NEW w, twoTrees' = twoTrees, cut'[w] = cut[w]  PROVE CT!Stops(w)' = CT!Stops(w)
BY DEF CT!Stops

LEMMA EndedStays ==
  ASSUME NEW w, twoTrees' = twoTrees, cut'[w] = cut[w], nFiles'[w] = nFiles[w],
         nBytes'[w] = nBytes[w], hashSets'[w] = hashSets[w], Ended(w)
  PROVE  Ended(w)'
<1>1. PICK m \in CT!Stops(w) : CountedTo(w, m)
  BY DEF Ended
<1>2. CountedTo(w, m)'
  BY <1>1 DEF CountedTo
<1>3. m \in CT!Stops(w)'
  BY <1>1, StopsStay
<1> QED BY <1>2, <1>3 DEF Ended

\* What a step of main that compares nothing leaves as it was.
LEMMA CompareFrame ==
  ASSUME CompareInv, fileA' = fileA, fileB' = fileB, program' = program
  PROVE  CT!Differences' = CT!Differences /\ CT!ZeroRuns' = CT!ZeroRuns
BY DEF CT!Differences, CT!ZeroRuns

\* The steps that read nothing.
LEMMA CompareMoves ==
  ASSUME CT!CompareToolsAssumption, CompareInv,
         CT!bdiff \/ CT!Opened \/ CT!NotOpened \/ CT!ReadFails \/ CT!EndOfFile
  PROVE  CompareInv'
<1>0. /\ CompareTypeOK /\ BuffersCompared /\ BytesCompared /\ BlocksTested
      /\ Len(fileA) \in Nat /\ Len(fileB) \in Nat
  BY DEF CompareInv, CompareTypeOK
<1>1. /\ program' = program /\ fileA' = fileA /\ fileB' = fileB /\ twoTrees' = twoTrees
      /\ offset' = offset /\ output' = output /\ runStart' = runStart /\ runEnd' = runEnd
      /\ nFiles' = nFiles /\ nBytes' = nBytes /\ hashSets' = hashSets /\ cut' = cut
      /\ nDuplicates' = nDuplicates /\ nUnique' = nUnique /\ nBytesUnique' = nBytesUnique
  BY DEF CT!bdiff, CT!Opened, CT!NotOpened, CT!ReadFails, CT!EndOfFile, CT!Returns, CT!Reading,
         CT!input, CT!run, CT!counts, CT!unique
<1>2. /\ FileTool /\ mainAt \in {"start", "loop"}
      /\ rc' \in Int /\ mainAt' \in {"loop", "returned"}
      /\ mainAt' = "loop" /\ program = "bdiff" => Len(fileA) = Len(fileB) /\ offset = 0
      /\ mainAt' = "returned" /\ rc' = 0 => mainAt = "loop" /\ offset >= Len(fileA)
  <2>1. CASE CT!bdiff
    BY <1>0, <2>1 DEF CT!bdiff, CT!Returns, CT!Abort, BytesCompared, FileTool, CompareTypeOK
  <2>2. CASE CT!Opened
    BY <1>0, <2>2 DEF CT!Opened, FileTool, CompareTypeOK
  <2>3. CASE CT!NotOpened
    <3>1. FileTool /\ mainAt = "start"
      BY <1>0, <2>3 DEF CT!NotOpened, FileTool, TreeTool, CompareTypeOK
    <3>2. mainAt' = "returned" /\ rc' \in {-1, -6, 1}
      BY <2>3, <3>1 DEF CT!NotOpened, CT!Returns, CT!Abort, FileTool
    <3> QED BY <3>1, <3>2
  <2>4. CASE CT!ReadFails
    BY <1>0, <2>4 DEF CT!ReadFails, CT!Returns, CT!Reading, FileTool
  <2>5. CASE CT!EndOfFile
    BY <1>0, <2>5 DEF CT!EndOfFile, CT!Returns, FileTool, TreeTool, CompareTypeOK
  <2> QED BY <2>1, <2>2, <2>3, <2>4, <2>5
<1>3. CT!Differences' = CT!Differences /\ CT!ZeroRuns' = CT!ZeroRuns
  BY <1>1, CompareFrame
<1>4. CompareTypeOK'
  BY <1>0, <1>1, <1>2 DEF CompareTypeOK, FileTool, TreeTool
<1>5. {d \in CT!Differences : d < offset}' = {d \in CT!Differences : d < offset}
  BY <1>1, <1>3
<1>6. BuffersCompared' /\ BytesCompared'
  BY <1>0, <1>1, <1>2, <1>5 DEF BuffersCompared, BytesCompared, CompareTypeOK
<1>7. BlocksTested'
  <2>1. {r \in CT!ZeroRuns : r[2] < offset - 1}' = {r \in CT!ZeroRuns : r[2] < offset - 1}
    BY <1>1, <1>3
  <2>2. RunOpen' <=> RunOpen
    BY <1>1 DEF RunOpen
  <2> QED BY <1>0, <1>1, <1>2, <2>1, <2>2 DEF BlocksTested, CompareTypeOK
<1>8. TreesCompared' /\ DuplicatesCounted'
  BY <1>1, <1>2 DEF TreesCompared, DuplicatesCounted, FileTool
<1> QED BY <1>4, <1>6, <1>7, <1>8 DEF CompareInv

\* A buffer of the file, read at the offset.
LEMMA BufferBytes ==
  ASSUME CT!CompareToolsAssumption, NEW f \in Seq(Bytes), offset \in Nat
  PROVE  /\ Len(CT!BufferAt(f)) =
              IF offset >= Len(f) THEN 0
              ELSE IF offset + Buffer < Len(f) THEN Buffer ELSE Len(f) - offset
         /\ DOMAIN CT!BufferAt(f) = 1 .. Len(CT!BufferAt(f))
         /\ \A j \in 1 .. Len(CT!BufferAt(f)) : CT!BufferAt(f)[j] = f[offset + j]
<1>0. Buffer \in Nat \ {0} /\ Len(f) \in Nat
  BY DEF CT!CompareToolsAssumption
<1>1. CT!BufferAt(f) = FC!pread(f, Buffer, offset)
  BY <1>0 DEF CT!BufferAt, FC!pread, FC!Least
<1>2. /\ FC!pread(f, Buffer, offset) \in Seq(Bytes)
      /\ Len(FC!pread(f, Buffer, offset)) =
           IF offset >= Len(f) THEN 0
           ELSE IF offset + Buffer < Len(f) THEN Buffer ELSE Len(f) - offset
      /\ \A j \in 1 .. Len(FC!pread(f, Buffer, offset)) :
           FC!pread(f, Buffer, offset)[j] = f[offset + j]
  BY <1>0, PreadBytes
<1> DEFINE b == FC!pread(f, Buffer, offset)
<1>3. DOMAIN b = 1 .. Len(b)
  BY <1>2
<1> QED BY <1>1, <1>2, <1>3

LEMMA DifferenceSet ==
  ASSUME NEW d
  PROVE  d \in CT!Differences <=>
           \E k \in DOMAIN fileA \cap DOMAIN fileB : fileA[k] # fileB[k] /\ d = k - 1
BY DEF CT!Differences

\* The trees are not touched by the tools that compare files, and the other way round.
LEMMA FilesOnly ==
  ASSUME FileTool, program' = program
  PROVE  TreesCompared' /\ DuplicatesCounted'
BY DEF FileTool, TreesCompared, DuplicatesCounted

LEMMA TreesOnly ==
  ASSUME TreeTool, program' = program
  PROVE  BuffersCompared' /\ BytesCompared' /\ BlocksTested'
BY DEF TreeTool, BuffersCompared, BytesCompared, BlocksTested

LEMMA CommonLength ==
  ASSUME NEW la \in Nat, NEW lb \in Nat, NEW o \in Nat, NEW b \in Nat \ {0}, o < la,
         NEW m,
         o + b < la => m = b, ~(o + b < la) => m = la - o,
         o >= lb => m = 0, o < lb /\ o + b < lb => m = b, o < lb /\ ~(o + b < lb) => m = lb - o
  PROVE  /\ m \in Nat \ {0} /\ o + m <= la /\ o + m <= lb
         /\ m = b \/ (o + m = la /\ o + m = lb)
<1>1. CASE o >= lb
  BY <1>1
<1>2. CASE o < lb /\ o + b < lb
  BY <1>2
<1>3. CASE o < lb /\ ~(o + b < lb) /\ o + b < la
  BY <1>3
<1>4. CASE o < lb /\ ~(o + b < lb) /\ ~(o + b < la)
  BY <1>4
<1> QED BY <1>1, <1>2, <1>3, <1>4

LEMMA CompareBuffersStep ==
  ASSUME CT!CompareToolsAssumption, CompareInv, CT!CompareBuffers  PROVE CompareInv'
<1> DEFINE n == Len(CT!BufferAt(fileA))
           bufA == CT!BufferAt(fileA)
           bufB == CT!BufferAt(fileB)
<1>0. /\ CompareTypeOK /\ BuffersCompared
      /\ fileA \in Seq(Bytes) /\ fileB \in Seq(Bytes) /\ offset \in Nat
      /\ Len(fileA) \in Nat /\ Len(fileB) \in Nat /\ Buffer \in Nat \ {0}
      /\ DOMAIN fileA = 1 .. Len(fileA) /\ DOMAIN fileB = 1 .. Len(fileB)
  BY DEF CompareInv, CompareTypeOK, CT!CompareToolsAssumption
<1>1. /\ program = "xdiff" /\ mainAt = "loop" /\ offset < Len(fileA)
      /\ program' = program /\ fileA' = fileA /\ fileB' = fileB /\ twoTrees' = twoTrees
      /\ runStart' = runStart /\ runEnd' = runEnd
      /\ nFiles' = nFiles /\ nBytes' = nBytes /\ hashSets' = hashSets /\ cut' = cut
      /\ nDuplicates' = nDuplicates /\ nUnique' = nUnique /\ nBytesUnique' = nBytesUnique
  BY DEF CT!CompareBuffers, CT!Reading, CT!input, CT!run, CT!counts, CT!unique
<1>2. /\ Len(bufA) = IF offset + Buffer < Len(fileA) THEN Buffer ELSE Len(fileA) - offset
      /\ Len(bufB) = IF offset >= Len(fileB) THEN 0
                     ELSE IF offset + Buffer < Len(fileB) THEN Buffer ELSE Len(fileB) - offset
      /\ DOMAIN bufA = 1 .. Len(bufA)
      /\ \A j \in 1 .. Len(bufA) : bufA[j] = fileA[offset + j]
      /\ \A j \in 1 .. Len(bufB) : bufB[j] = fileB[offset + j]
  <2>1. /\ Len(bufA) = IF offset >= Len(fileA) THEN 0
                       ELSE IF offset + Buffer < Len(fileA) THEN Buffer ELSE Len(fileA) - offset
        /\ DOMAIN bufA = 1 .. Len(bufA)
        /\ \A j \in 1 .. Len(bufA) : bufA[j] = fileA[offset + j]
    BY <1>0, BufferBytes
  <2>2. /\ Len(bufB) = IF offset >= Len(fileB) THEN 0
                       ELSE IF offset + Buffer < Len(fileB) THEN Buffer ELSE Len(fileB) - offset
        /\ \A j \in 1 .. Len(bufB) : bufB[j] = fileB[offset + j]
    BY <1>0, BufferBytes
  <2>3. ~(offset >= Len(fileA))
    BY <1>0, <1>1
  <2> HIDE DEF bufA, bufB
  <2> QED BY <2>1, <2>2, <2>3
<1>3. CT!Differences' = CT!Differences
  BY <1>1, CompareFrame
<1>4. /\ offset <= Len(fileA) /\ offset <= Len(fileB)
      /\ (\E q \in Nat : offset = q * Buffer) \/ Len(fileA) = Len(fileB)
      /\ output = {d \in CT!Differences : d < offset}
  BY <1>0, <1>1 DEF BuffersCompared
<1>5. TreesCompared' /\ DuplicatesCounted' /\ BytesCompared' /\ BlocksTested'
  BY <1>1, FilesOnly DEF FileTool, BytesCompared, BlocksTested
<1>6. CASE Len(bufA) # Len(bufB)
  <2>1. mainAt' = "returned" /\ rc' = -3 /\ offset' = offset /\ output' = output
    BY <1>6 DEF CT!CompareBuffers, CT!Returns
  <2>2. CompareTypeOK'
    BY <1>0, <1>1, <2>1 DEF CompareTypeOK, FileTool, TreeTool
  <2>3. BuffersCompared'
    BY <1>1, <1>3, <1>4, <2>1 DEF BuffersCompared
  <2> QED BY <1>5, <2>2, <2>3 DEF CompareInv
<1>7. CASE Len(bufA) = Len(bufB)
  <2>1. /\ mainAt' = mainAt /\ rc' = rc /\ offset' = offset + Len(bufA)
        /\ output' = output \cup
             {offset + j - 1 : j \in {k \in DOMAIN bufA : bufA[k] # bufB[k]}}
    BY <1>7 DEF CT!CompareBuffers
  <2> DEFINE m == Len(bufA)
  <2>2. /\ m \in Nat \ {0} /\ offset + m <= Len(fileA) /\ offset + m <= Len(fileB)
        /\ m = Buffer \/ (offset + m = Len(fileA) /\ offset + m = Len(fileB))
    <3> DEFINE la == Len(fileA)
               lb == Len(fileB)
               ma == Len(bufA)
               mb == Len(bufB)
    <3>1. /\ la \in Nat /\ lb \in Nat /\ offset \in Nat /\ Buffer \in Nat \ {0}
          /\ ma = mb /\ offset < la
      BY <1>0, <1>1, <1>7
    <3>3. /\ offset + Buffer < la => ma = Buffer
          /\ ~(offset + Buffer < la) => ma = la - offset
          /\ offset >= lb => mb = 0
          /\ offset < lb /\ offset + Buffer < lb => mb = Buffer
          /\ offset < lb /\ ~(offset + Buffer < lb) => mb = lb - offset
      BY <1>2, <3>1
    <3> HIDE DEF la, lb, ma, mb
    <3>2. /\ ma \in Nat \ {0} /\ offset + ma <= la /\ offset + ma <= lb
          /\ ma = Buffer \/ (offset + ma = la /\ offset + ma = lb)
      BY <3>1, <3>3, CommonLength
    <3> QED BY <3>2 DEF la, lb, ma
  <2>3. \A j \in 1 .. m : bufA[j] # bufB[j] <=> fileA[offset + j] # fileB[offset + j]
    BY <1>2, <1>7
  <2>4. DOMAIN bufA = 1 .. m
    BY <1>2
  <2>5. output' = output \cup
             {offset + j - 1 : j \in {k \in 1 .. m : fileA[offset + k] # fileB[offset + k]}}
    BY <2>1, <2>3, <2>4
  <2> HIDE DEF m
  <2>6. offset' = offset + m
    BY <2>1 DEF m
  <2>7. output' = {d \in CT!Differences : d < offset + m}
    <3>1. ASSUME NEW d, d \in output'  PROVE d \in CT!Differences /\ d < offset + m
      <4>1. CASE d \in output
        <5>1. d \in CT!Differences /\ d < offset
          BY <1>4, <4>1
        <5>2. PICK k \in DOMAIN fileA : d = k - 1
          BY <5>1, DifferenceSet
        <5>3. d \in Int /\ m \in Nat /\ d < offset
          <6>1. k \in Int
            BY <1>0, <5>2
          <6> QED BY <2>2, <5>1, <5>2, <6>1
        <5>4. d < offset + m
          BY ONLY <1>0, <5>3
        <5> QED BY <5>1, <5>4
      <4>2. CASE d \notin output
        <5>1. PICK k \in 1 .. m : fileA[offset + k] # fileB[offset + k] /\ d = offset + k - 1
          BY <2>5, <3>1, <4>2
        <5>2. offset + k \in DOMAIN fileA \cap DOMAIN fileB /\ d = (offset + k) - 1 /\ d < offset + m
          BY <1>0, <2>2, <5>1
        <5> QED BY <5>1, <5>2, DifferenceSet
      <4> QED BY <4>1, <4>2
    <3>2. ASSUME NEW d \in CT!Differences, d < offset + m  PROVE d \in output'
      <4>1. PICK k \in DOMAIN fileA \cap DOMAIN fileB : fileA[k] # fileB[k] /\ d = k - 1
        BY DifferenceSet
      <4>2. k \in Nat \ {0}
        BY <1>0, <4>1
      <4>3. CASE d < offset
        BY <1>4, <2>5, <4>3
      <4>4. CASE ~(d < offset)
        <5>1. k - offset \in 1 .. m /\ offset + (k - offset) = k /\ d = offset + (k - offset) - 1
          <6>1. k \in Nat /\ offset \in Nat /\ m \in Nat /\ k - 1 < offset + m /\ ~(k - 1 < offset)
                /\ d = k - 1
            BY <1>0, <2>2, <3>2, <4>1, <4>2, <4>4
          <6> QED BY ONLY <6>1
        <5> QED BY <2>5, <4>1, <5>1
      <4> QED BY <4>3, <4>4
    <3> QED BY <3>1, <3>2
  <2>8. (\E q \in Nat : offset' = q * Buffer) \/ Len(fileA) = Len(fileB)
    <3>1. CASE m = Buffer /\ \E q \in Nat : offset = q * Buffer
      <4>1. PICK q \in Nat : offset = q * Buffer
        BY <3>1
      <4>2. (q + 1) * Buffer = q * Buffer + Buffer
        BY <1>0
      <4> QED BY <2>6, <3>1, <4>1, <4>2
    <3> QED BY <1>0, <1>4, <2>2, <3>1
  <2>9. BuffersCompared'
    BY <1>1, <1>3, <2>1, <2>2, <2>6, <2>7, <2>8 DEF BuffersCompared
  <2>10. CompareTypeOK'
    <3>1. offset' \in Nat /\ rc' \in Int
      BY <1>0, <2>1, <2>2, <2>6 DEF CompareTypeOK
    <3> QED BY <1>0, <1>1, <2>1, <3>1 DEF CompareTypeOK, FileTool, TreeTool
  <2> QED BY <1>5, <2>9, <2>10 DEF CompareInv
<1> QED BY <1>6, <1>7

LEMMA CompareBytesStep ==
  ASSUME CompareInv, CT!CompareBytes  PROVE CompareInv'
<1>0. /\ CompareTypeOK /\ BytesCompared
      /\ fileA \in Seq(Bytes) /\ fileB \in Seq(Bytes) /\ offset \in Nat
      /\ Len(fileA) \in Nat /\ Len(fileB) \in Nat
      /\ DOMAIN fileA = 1 .. Len(fileA) /\ DOMAIN fileB = 1 .. Len(fileB)
  BY DEF CompareInv, CompareTypeOK
<1>1. /\ program = "bdiff" /\ mainAt = "loop" /\ offset < Len(fileA)
      /\ program' = program /\ fileA' = fileA /\ fileB' = fileB /\ twoTrees' = twoTrees
      /\ runStart' = runStart /\ runEnd' = runEnd
      /\ nFiles' = nFiles /\ nBytes' = nBytes /\ hashSets' = hashSets /\ cut' = cut
      /\ nDuplicates' = nDuplicates /\ nUnique' = nUnique /\ nBytesUnique' = nBytesUnique
      /\ mainAt' = mainAt /\ rc' = rc /\ offset' = offset + 1
      /\ output' = IF fileA[offset + 1] # fileB[offset + 1] THEN output \cup {offset} ELSE output
  BY DEF CT!CompareBytes, CT!Reading, CT!input, CT!run, CT!counts, CT!unique
<1>2. CT!Differences' = CT!Differences
  BY <1>1, CompareFrame
<1>3. Len(fileA) = Len(fileB) /\ output = {d \in CT!Differences : d < offset}
  BY <1>0, <1>1 DEF BytesCompared
<1>4. TreesCompared' /\ DuplicatesCounted' /\ BuffersCompared' /\ BlocksTested'
  BY <1>1, FilesOnly DEF FileTool, BuffersCompared, BlocksTested
<1>5. \A d \in CT!Differences : d \in Nat
  BY <1>0 DEF CT!Differences
<1>6. offset \in CT!Differences <=> fileA[offset + 1] # fileB[offset + 1]
  <2>1. offset + 1 \in DOMAIN fileA \cap DOMAIN fileB /\ offset = (offset + 1) - 1
    BY <1>0, <1>1, <1>3
  <2>2. \A k \in DOMAIN fileA : offset = k - 1 => k = offset + 1
    BY <1>0
  <2> QED BY <2>1, <2>2, DifferenceSet
<1>7. output' = {d \in CT!Differences : d < offset + 1}
  <2>1. \A d \in Nat : d < offset + 1 <=> d < offset \/ d = offset
    BY <1>0
  <2> QED BY <1>1, <1>3, <1>5, <1>6, <2>1
<1>8. BytesCompared'
  BY <1>0, <1>1, <1>2, <1>3, <1>7 DEF BytesCompared
<1>9. CompareTypeOK'
  BY <1>0, <1>1 DEF CompareTypeOK, FileTool, TreeTool
<1> QED BY <1>4, <1>8, <1>9 DEF CompareInv

LEMMA RunSet ==
  ASSUME fileA \in Seq(Bytes), NEW r
  PROVE  r \in CT!ZeroRuns <=>
           /\ r \in (0 .. Len(fileA) - 1) \X (0 .. Len(fileA) - 1)
           /\ r[1] <= r[2] /\ \A i \in r[1] .. r[2] : fileA[i + 1] = 0
           /\ r[1] > 0 => fileA[r[1]] # 0
           /\ r[2] < Len(fileA) - 1 => fileA[r[2] + 2] # 0
BY DEF CT!ZeroRuns

LEMMA TestBlockStep ==
  ASSUME CompareInv, CT!TestBlock  PROVE CompareInv'
<1>0. /\ CompareTypeOK /\ BlocksTested
      /\ fileA \in Seq(Bytes) /\ offset \in Nat /\ Len(fileA) \in Nat
      /\ runStart \in Nat \cup {-1} /\ runEnd \in Nat \cup {-1}
  BY DEF CompareInv, CompareTypeOK
<1>1. /\ program = "zerorun" /\ mainAt = "loop" /\ offset < Len(fileA)
      /\ program' = program /\ fileA' = fileA /\ fileB' = fileB /\ twoTrees' = twoTrees
      /\ nFiles' = nFiles /\ nBytes' = nBytes /\ hashSets' = hashSets /\ cut' = cut
      /\ nDuplicates' = nDuplicates /\ nUnique' = nUnique /\ nBytesUnique' = nBytesUnique
      /\ mainAt' = mainAt /\ rc' = rc /\ offset' = offset + 1
  BY DEF CT!TestBlock, CT!Reading, CT!input, CT!counts, CT!unique
<1>2. CT!ZeroRuns' = CT!ZeroRuns
  BY <1>1, CompareFrame
<1>3. /\ IF runStart # -1 THEN RunOpen ELSE offset = 0 \/ fileA[offset] # 0
      /\ output = {r \in CT!ZeroRuns : r[2] < offset - 1}
  BY <1>0, <1>1 DEF BlocksTested
<1>4. TreesCompared' /\ DuplicatesCounted' /\ BuffersCompared' /\ BytesCompared'
  BY <1>1, FilesOnly DEF FileTool, BuffersCompared, BytesCompared
<1>5. \A r \in CT!ZeroRuns : r[1] \in Nat /\ r[2] \in Nat /\ r = <<r[1], r[2]>>
  BY <1>0 DEF CT!ZeroRuns
<1>6. CASE fileA[offset + 1] = 0
  <2>1. /\ runStart' = IF runStart = -1 THEN offset ELSE runStart
        /\ runEnd' = offset /\ output' = output
    BY <1>6 DEF CT!TestBlock, CT!None
  <2>2. output' = {r \in CT!ZeroRuns : r[2] < offset}
    <3>1. ASSUME NEW r \in CT!ZeroRuns  PROVE r[2] # offset - 1
      <4>1. CASE r[2] = offset - 1
        <5>1. r[2] < Len(fileA) - 1 /\ r[2] + 2 = offset + 1
          BY <1>0, <1>1, <1>5, <4>1
        <5> QED BY <1>0, <1>6, <5>1, RunSet
      <4> QED BY <4>1
    <3>2. \A r \in CT!ZeroRuns : r[2] < offset - 1 <=> r[2] < offset
      BY <1>0, <1>5, <3>1
    <3> QED BY <1>3, <2>1, <3>2
  <2>3. runStart' # -1 /\ RunOpen'
    <3>1. CASE runStart = -1
      <4>1. runStart' = offset /\ (offset > 0 => fileA[offset] # 0)
        BY <1>0, <1>3, <2>1, <3>1
      <4>2. \A i \in offset .. offset : i + 1 = offset + 1
        BY <1>0
      <4>3. /\ runStart' \in 0 .. offset' - 1 /\ runEnd' = offset' - 1
            /\ runStart' .. offset' - 1 = offset .. offset
        BY <1>0, <1>1, <2>1, <4>1
      <4>4. \A i \in runStart' .. offset' - 1 : fileA'[i + 1] = 0
        BY <1>1, <1>6, <4>2, <4>3
      <4> QED BY <1>0, <1>1, <4>1, <4>3, <4>4 DEF RunOpen
    <3>2. CASE runStart # -1
      <4>1. runStart' = runStart /\ RunOpen
        BY <1>3, <2>1, <3>2
      <4>2. \A i \in runStart .. offset : fileA[i + 1] = 0
        BY <1>0, <1>6, <4>1 DEF RunOpen
      <4>3. runStart' \in 0 .. offset' - 1 /\ runEnd' = offset' - 1 /\ offset' - 1 = offset
        BY <1>0, <1>1, <2>1, <4>1 DEF RunOpen
      <4>4. runStart' > 0 => fileA'[runStart'] # 0
        BY <1>1, <4>1 DEF RunOpen
      <4>5. \A i \in runStart' .. offset' - 1 : fileA'[i + 1] = 0
        BY <1>1, <4>1, <4>2, <4>3
      <4>6. runStart' # -1
        BY <3>2, <4>1
      <4> QED BY <4>3, <4>4, <4>5, <4>6 DEF RunOpen
    <3> QED BY <3>1, <3>2
  <2>4. BlocksTested'
    <3>1. output' = {r \in CT!ZeroRuns' : r[2] < offset' - 1}
      BY <1>0, <1>1, <1>2, <2>2
    <3>2. offset' <= Len(fileA') /\ mainAt' = "loop"
      BY <1>0, <1>1
    <3> QED BY <2>3, <3>1, <3>2 DEF BlocksTested
  <2>5. CompareTypeOK'
    <3>1. runStart' \in Nat \cup {-1} /\ runEnd' \in Nat \cup {-1} /\ offset' \in Nat
      BY <1>0, <1>1, <2>1
    <3> QED BY <1>0, <1>1, <3>1 DEF CompareTypeOK, FileTool, TreeTool
  <2> QED BY <1>4, <2>4, <2>5 DEF CompareInv
<1>7. CASE fileA[offset + 1] # 0
  <2>1. /\ output' = IF runStart # -1 THEN output \cup {<<runStart, runEnd>>} ELSE output
        /\ runStart' = -1 /\ runEnd' = -1
    BY <1>7 DEF CT!TestBlock, CT!None
  <2>2. ASSUME NEW r \in CT!ZeroRuns, r[2] = offset - 1
        PROVE  runStart # -1 /\ r = <<runStart, runEnd>>
    <3>1. r[1] \in Nat /\ r[2] \in Nat /\ r[1] <= r[2] /\ r = <<r[1], r[2]>>
      BY <1>0, <1>5, RunSet
    <3>2. \A i \in r[1] .. r[2] : fileA[i + 1] = 0
      BY <1>0, RunSet
    <3>3. fileA[offset] = 0 /\ offset > 0
      <4>1. r[2] \in r[1] .. r[2] /\ r[2] + 1 = offset /\ offset > 0
        BY <1>0, <2>2, <3>1
      <4> QED BY <3>2, <4>1
    <3>4. runStart # -1 /\ RunOpen
      BY <1>3, <3>3
    <3>5. /\ runStart \in Nat /\ runStart <= offset - 1 /\ runEnd = offset - 1
          /\ \A i \in runStart .. offset - 1 : fileA[i + 1] = 0
          /\ runStart > 0 => fileA[runStart] # 0
      BY <1>0, <3>4 DEF RunOpen
    <3>6. ~(r[1] < runStart)
      <4>1. CASE r[1] < runStart
        <5>1. runStart - 1 \in r[1] .. r[2] /\ (runStart - 1) + 1 = runStart /\ runStart > 0
          BY <1>0, <2>2, <3>1, <3>5, <4>1
        <5> QED BY <3>2, <3>5, <5>1
      <4> QED BY <4>1
    <3>7. ~(runStart < r[1])
      <4>1. CASE runStart < r[1]
        <5>1. r[1] - 1 \in runStart .. offset - 1 /\ (r[1] - 1) + 1 = r[1] /\ r[1] > 0
          BY <1>0, <2>2, <3>1, <3>5, <4>1
        <5>2. fileA[r[1]] # 0
          BY <1>0, <5>1, RunSet
        <5> QED BY <3>5, <5>1, <5>2
      <4> QED BY <4>1
    <3>8. r[1] = runStart /\ r[2] = runEnd
      BY <2>2, <3>1, <3>5, <3>6, <3>7
    <3> QED BY <3>1, <3>4, <3>8
  <2>3. ASSUME runStart # -1
        PROVE  <<runStart, runEnd>> \in CT!ZeroRuns /\ runEnd = offset - 1
    <3> DEFINE r == <<runStart, runEnd>>
    <3>1. RunOpen
      BY <1>3, <2>3
    <3>2. /\ runStart \in 0 .. Len(fileA) - 1 /\ runEnd \in 0 .. Len(fileA) - 1
          /\ runStart <= runEnd /\ runEnd = offset - 1 /\ runEnd + 2 = offset + 1
      BY <1>0, <1>1, <3>1 DEF RunOpen
    <3>3. \A i \in runStart .. runEnd : fileA[i + 1] = 0
      BY <3>1, <3>2 DEF RunOpen
    <3>4. runStart > 0 => fileA[runStart] # 0
      BY <3>1 DEF RunOpen
    <3>5. r \in (0 .. Len(fileA) - 1) \X (0 .. Len(fileA) - 1) /\ r[1] = runStart /\ r[2] = runEnd
      BY <3>2
    <3> HIDE DEF r
    <3>6. r \in CT!ZeroRuns
      BY <1>0, <1>7, <3>2, <3>3, <3>4, <3>5, RunSet
    <3> QED BY <3>2, <3>6 DEF r
  <2>4. output' = {r \in CT!ZeroRuns : r[2] < offset}
    <3>1. \A r \in CT!ZeroRuns : r[2] < offset <=> r[2] < offset - 1 \/ r[2] = offset - 1
      BY <1>0, <1>5
    <3>2. runStart # -1 => <<runStart, runEnd>>[2] = offset - 1
      BY <2>3
    <3> DEFINE open == <<runStart, runEnd>>
    <3>3. runStart # -1 => open \in CT!ZeroRuns /\ open[2] = offset - 1
      BY <2>3, <3>2
    <3>4. \A r \in CT!ZeroRuns : r[2] = offset - 1 => runStart # -1 /\ r = open
      BY <2>2
    <3>5. output' = IF runStart # -1 THEN output \cup {open} ELSE output
      BY <2>1
    <3> HIDE DEF open
    <3> QED BY <1>3, <3>1, <3>3, <3>4, <3>5
  <2>5. BlocksTested'
    <3>1. output' = {r \in CT!ZeroRuns' : r[2] < offset' - 1}
      BY <1>0, <1>1, <1>2, <2>4
    <3>2. offset' <= Len(fileA') /\ mainAt' = "loop" /\ fileA'[offset'] # 0 /\ runStart' = -1
      BY <1>0, <1>1, <1>7, <2>1
    <3> QED BY <3>1, <3>2 DEF BlocksTested
  <2>6. CompareTypeOK'
    <3>1. runStart' \in Nat \cup {-1} /\ runEnd' \in Nat \cup {-1} /\ offset' \in Nat
      BY <1>0, <1>1, <2>1
    <3> QED BY <1>0, <1>1, <3>1 DEF CompareTypeOK, FileTool, TreeTool
  <2> QED BY <1>4, <2>5, <2>6 DEF CompareInv
<1> QED BY <1>6, <1>7

\* The next entry is skipped, or a file more, with the bytes it holds.
LEMMA EntrySkipped ==
  ASSUME NEW t, NEW m \in Nat, t[m + 1] = CT!Skipped
  PROVE  /\ FilesUpTo(t, m + 1) = FilesUpTo(t, m) /\ ReadUpTo(t, m + 1) = ReadUpTo(t, m)
         /\ FoundUpTo(t, m + 1) = FoundUpTo(t, m) /\ BytesUpTo(t, m + 1) = BytesUpTo(t, m)
<1>1. \A k : k \in 1 .. m + 1 <=> k \in 1 .. m \/ k = m + 1
  OBVIOUS
<1>2. FilesUpTo(t, m + 1) = FilesUpTo(t, m)
  BY <1>1 DEF FilesUpTo
<1>3. ReadUpTo(t, m + 1) = ReadUpTo(t, m)
  BY <1>2 DEF ReadUpTo
<1> QED BY <1>2, <1>3 DEF FoundUpTo, BytesUpTo

LEMMA EntryFile ==
  ASSUME NEW t, NEW m \in Nat, t[m + 1] # CT!Skipped
  PROVE  /\ FilesUpTo(t, m + 1) = FilesUpTo(t, m) \cup {m + 1}
         /\ m + 1 \notin FilesUpTo(t, m) /\ m + 1 \notin ReadUpTo(t, m)
         /\ BytesUpTo(t, m + 1) = BytesUpTo(t, m) \cup ({m + 1} \X (1 .. ContentSize[t[m + 1]]))
         /\ BytesUpTo(t, m) \cap ({m + 1} \X (1 .. ContentSize[t[m + 1]])) = {}
         /\ ContentHash[t[m + 1]] = 0 => /\ ReadUpTo(t, m + 1) = ReadUpTo(t, m)
                                         /\ FoundUpTo(t, m + 1) = FoundUpTo(t, m)
         /\ ContentHash[t[m + 1]] # 0 =>
              /\ ReadUpTo(t, m + 1) = ReadUpTo(t, m) \cup {m + 1}
              /\ FoundUpTo(t, m + 1) = FoundUpTo(t, m) \cup {t[m + 1]}
<1>1. \A k : k \in 1 .. m + 1 <=> k \in 1 .. m \/ k = m + 1
  OBVIOUS
<1>2. m + 1 \notin 1 .. m
  OBVIOUS
<1>3. FilesUpTo(t, m + 1) = FilesUpTo(t, m) \cup {m + 1}
  BY <1>1 DEF FilesUpTo
<1>4. m + 1 \notin FilesUpTo(t, m) /\ m + 1 \notin ReadUpTo(t, m)
  BY <1>2 DEF FilesUpTo, ReadUpTo
<1>5. BytesUpTo(t, m + 1) = BytesUpTo(t, m) \cup ({m + 1} \X (1 .. ContentSize[t[m + 1]]))
  <2> DEFINE j == m + 1
             block(k) == {k} \X (1 .. ContentSize[t[k]])
  <2>1. \A p : p \in BytesUpTo(t, j) <=> \E k \in FilesUpTo(t, j) : p \in block(k)
    BY DEF BytesUpTo
  <2>2. \A p : p \in BytesUpTo(t, m) <=> \E k \in FilesUpTo(t, m) : p \in block(k)
    BY DEF BytesUpTo
  <2>3. FilesUpTo(t, j) = FilesUpTo(t, m) \cup {j}
    BY <1>3
  <2> HIDE DEF block, j
  <2>4. BytesUpTo(t, j) = BytesUpTo(t, m) \cup block(j)
    BY <2>1, <2>2, <2>3
  <2> QED BY <2>4 DEF block, j
<1>6. BytesUpTo(t, m) \cap ({m + 1} \X (1 .. ContentSize[t[m + 1]])) = {}
  BY <1>4 DEF BytesUpTo
<1>7. ContentHash[t[m + 1]] = 0 => ReadUpTo(t, m + 1) = ReadUpTo(t, m)
  BY <1>3 DEF ReadUpTo
<1>8. ContentHash[t[m + 1]] # 0 => ReadUpTo(t, m + 1) = ReadUpTo(t, m) \cup {m + 1}
  BY <1>3 DEF ReadUpTo
<1>9. ContentHash[t[m + 1]] # 0 => FoundUpTo(t, m + 1) = FoundUpTo(t, m) \cup {t[m + 1]}
  BY <1>8 DEF FoundUpTo
<1>10. ContentHash[t[m + 1]] = 0 => FoundUpTo(t, m + 1) = FoundUpTo(t, m)
  BY <1>7 DEF FoundUpTo
<1> QED BY <1>3, <1>4, <1>5, <1>6, <1>7, <1>8, <1>9, <1>10

\* Bytes that are not there yet are so many more.
LEMMA BytesAdd ==
  ASSUME NEW U, IsFiniteSet(U), NEW x, NEW n \in Nat, U \cap ({x} \X (1 .. n)) = {}
  PROVE  /\ IsFiniteSet(U \cup ({x} \X (1 .. n)))
         /\ Cardinality(U \cup ({x} \X (1 .. n))) = Cardinality(U) + n
<1> DEFINE I == 1 .. n
           X == {x}
           B == X \X I
<1>1. IsFiniteSet(I) /\ Cardinality(I) = n
  BY FS_Interval
<1>2. IsFiniteSet(X) /\ Cardinality(X) = 1
  BY FS_Singleton
<1>3. IsFiniteSet(B) /\ Cardinality(B) = n
  <2> HIDE DEF I, X
  <2> QED BY <1>1, <1>2, FS_Product
<1>4. U \cap B = {} /\ Cardinality({}) = 0
  BY FS_EmptySet
<1>5. Cardinality(U) \in Nat
  BY FS_CardinalityType
<1> HIDE DEF B
<1>6. /\ IsFiniteSet(U \cup B)
      /\ Cardinality(U \cup B) = Cardinality(U) + Cardinality(B) - Cardinality(U \cap B)
  BY <1>3, FS_Union
<1> QED BY <1>3, <1>4, <1>5, <1>6 DEF B

LEMMA FilesFinite ==
  ASSUME NEW t, NEW m \in Nat
  PROVE  /\ IsFiniteSet(FilesUpTo(t, m)) /\ IsFiniteSet(ReadUpTo(t, m))
         /\ Cardinality(FilesUpTo(t, m)) \in Nat /\ Cardinality(ReadUpTo(t, m)) \in Nat
<1> DEFINE I == 1 .. m
           F == FilesUpTo(t, m)
           R == ReadUpTo(t, m)
<1>1. IsFiniteSet(I)
  BY FS_Interval
<1>2. F \in SUBSET I /\ R \in SUBSET I
  BY DEF FilesUpTo, ReadUpTo
<1> HIDE DEF I, F, R
<1>3. IsFiniteSet(F) /\ IsFiniteSet(R)
  BY <1>1, <1>2, FS_Subset
<1> QED BY <1>3, FS_CardinalityType DEF F, R

\* The numbers and the bytes after one file more.
LEMMA OneMore ==
  ASSUME NEW t, NEW m \in Nat, t[m + 1] # CT!Skipped, ContentSize[t[m + 1]] \in Nat,
         IsFiniteSet(BytesUpTo(t, m))
  PROVE  /\ Cardinality(FilesUpTo(t, m + 1)) = Cardinality(FilesUpTo(t, m)) + 1
         /\ IsFiniteSet(BytesUpTo(t, m + 1))
         /\ Cardinality(BytesUpTo(t, m + 1)) = Cardinality(BytesUpTo(t, m)) + ContentSize[t[m + 1]]
<1> DEFINE F == FilesUpTo(t, m)
           U == BytesUpTo(t, m)
           j == m + 1
           n == ContentSize[t[m + 1]]
<1>1. FilesUpTo(t, j) = F \cup {j} /\ j \notin F /\ IsFiniteSet(F)
  BY EntryFile, FilesFinite
<1>2. BytesUpTo(t, j) = U \cup ({j} \X (1 .. n)) /\ U \cap ({j} \X (1 .. n)) = {}
  BY EntryFile
<1>3. IsFiniteSet(U) /\ n \in Nat
  OBVIOUS
<1> HIDE DEF F, U, j, n
<1>4. Cardinality(F \cup {j}) = Cardinality(F) + 1
  BY <1>1, FS_AddElement
<1>5. IsFiniteSet(U \cup ({j} \X (1 .. n))) /\ Cardinality(U \cup ({j} \X (1 .. n))) = Cardinality(U) + n
  BY <1>2, <1>3, BytesAdd
<1>6. /\ Cardinality(FilesUpTo(t, j)) = Cardinality(F) + 1
      /\ IsFiniteSet(BytesUpTo(t, j)) /\ Cardinality(BytesUpTo(t, j)) = Cardinality(U) + n
  BY <1>1, <1>2, <1>4, <1>5
<1> QED BY <1>6 DEF F, U, j, n

LEMMA HashesAdd ==
  ASSUME NEW S, NEW c
  PROVE  HashesFrom(S \cup {c}) = HashesFrom(S) \cup {ContentHash[c]}
BY DEF HashesFrom

LEMMA BytesFromAdd ==
  ASSUME NEW S, NEW c
  PROVE  /\ BytesFrom(S \cup {c}) = BytesFrom(S) \cup ({c} \X (1 .. ContentSize[c]))
         /\ c \notin S => BytesFrom(S) \cap ({c} \X (1 .. ContentSize[c])) = {}
<1> DEFINE block(e) == {e} \X (1 .. ContentSize[e])
<1>1. \A T : \A p : p \in BytesFrom(T) <=> \E e \in T : p \in block(e)
  BY DEF BytesFrom
<1>2. \A e : \A p \in block(e) : p[1] = e
  OBVIOUS
<1>3. BytesFrom(S \cup {c}) = BytesFrom(S) \cup block(c)
  <2> HIDE DEF block
  <2> QED BY <1>1
<1>4. c \notin S => BytesFrom(S) \cap block(c) = {}
  <2> HIDE DEF block
  <2> QED BY <1>1, <1>2
<1> QED BY <1>3, <1>4

\* The entry that a callback is given.
LEMMA EntryOf ==
  ASSUME CT!CompareToolsAssumption, CompareTypeOK, mainAt \in CT!Both,
         offset < Len(twoTrees[mainAt])
  PROVE  /\ CT!Entry = twoTrees[mainAt][offset + 1]
         /\ CT!Entry # CT!Skipped =>
              /\ ContentSize[CT!Entry] \in Nat /\ ContentHash[CT!Entry] \in Nat
              /\ CT!Entry \in TreeContents
<1>1. /\ twoTrees[mainAt] \in Seq(TreeContents \cup {CT!Skipped}) /\ offset \in Nat
      /\ Len(twoTrees[mainAt]) \in Nat
  BY DEF CompareTypeOK
<1>2. offset + 1 \in 1 .. Len(twoTrees[mainAt])
  BY <1>1
<1>3. CT!Entry \in TreeContents \cup {CT!Skipped}
  BY <1>1, <1>2 DEF CT!Entry
<1> QED BY <1>3 DEF CT!Entry, CT!CompareToolsAssumption

\* One entry more is counted, whichever of the two walks it is of.
LEMMA SkippedCounted ==
  ASSUME NEW t, NEW m \in Nat, NEW n, NEW b, NEW h, CountedIn(t, m, n, b, h), m < Len(t),
         Len(t) \in Nat, t[m + 1] = CT!Skipped
  PROVE  CountedIn(t, m + 1, n, b, h)
BY EntrySkipped DEF CountedIn

LEMMA FileIsCounted ==
  ASSUME NEW t, NEW m \in Nat, NEW n, NEW b, NEW h, CountedIn(t, m, n, b, h), m < Len(t),
         Len(t) \in Nat, t[m + 1] # CT!Skipped, ContentSize[t[m + 1]] \in Nat
  PROVE  /\ ContentHash[t[m + 1]] = 0 =>
              CountedIn(t, m + 1, n + 1, b + ContentSize[t[m + 1]], h)
         /\ ContentHash[t[m + 1]] # 0 =>
              CountedIn(t, m + 1, n + 1, b + ContentSize[t[m + 1]], h \cup {ContentHash[t[m + 1]]})
<1>1. /\ IsFiniteSet(BytesUpTo(t, m)) /\ n = Cardinality(FilesUpTo(t, m))
      /\ b = Cardinality(BytesUpTo(t, m)) /\ h = HashesFrom(FoundUpTo(t, m))
  BY DEF CountedIn
<1>2. /\ n + 1 = Cardinality(FilesUpTo(t, m + 1)) /\ IsFiniteSet(BytesUpTo(t, m + 1))
      /\ b + ContentSize[t[m + 1]] = Cardinality(BytesUpTo(t, m + 1))
  BY <1>1, OneMore
<1>3. m + 1 <= Len(t)
  OBVIOUS
<1>4. ContentHash[t[m + 1]] = 0 => h = HashesFrom(FoundUpTo(t, m + 1))
  BY <1>1, EntryFile
<1>5. ContentHash[t[m + 1]] # 0 =>
        h \cup {ContentHash[t[m + 1]]} = HashesFrom(FoundUpTo(t, m + 1))
  <2>1. ContentHash[t[m + 1]] # 0 => FoundUpTo(t, m + 1) = FoundUpTo(t, m) \cup {t[m + 1]}
    BY EntryFile
  <2> QED BY <1>1, <2>1, HashesAdd
<1> QED BY <1>2, <1>3, <1>4, <1>5 DEF CountedIn

LEMMA SkippedUnique ==
  ASSUME NEW t, NEW m \in Nat, NEW h, NEW d, NEW u, NEW b, UniqueIn(t, m, h, d, u, b),
         t[m + 1] = CT!Skipped \/ ContentHash[t[m + 1]] = 0
  PROVE  UniqueIn(t, m + 1, h, d, u, b)
<1>1. ReadUpTo(t, m + 1) = ReadUpTo(t, m) /\ FoundUpTo(t, m + 1) = FoundUpTo(t, m)
  BY EntrySkipped, EntryFile
<1> QED BY <1>1 DEF UniqueIn

\* A file with a hash that is known, or with a new one.
LEMMA FileUnique ==
  ASSUME NEW t, NEW m \in Nat, NEW h, NEW d \in Nat, NEW u \in Nat, NEW b \in Nat,
         UniqueIn(t, m, h, d, u, b), h = HashesFrom(FoundUpTo(t, m)),
         t[m + 1] # CT!Skipped, ContentHash[t[m + 1]] # 0, ContentSize[t[m + 1]] \in Nat
  PROVE  /\ ContentHash[t[m + 1]] \in h => UniqueIn(t, m + 1, h, d + 1, u, b)
         /\ ContentHash[t[m + 1]] \notin h =>
              UniqueIn(t, m + 1, h \cup {ContentHash[t[m + 1]]}, d, u + 1,
                       b + ContentSize[t[m + 1]])
<1> DEFINE c == t[m + 1]
           F == FoundUpTo(t, m)
           R == ReadUpTo(t, m)
           j == m + 1
<1>1. /\ ReadUpTo(t, j) = R \cup {j} /\ j \notin R /\ FoundUpTo(t, j) = F \cup {c}
      /\ IsFiniteSet(R) /\ Cardinality(R) \in Nat
  BY EntryFile, FilesFinite
<1>2. /\ IsFiniteSet(BytesFrom(F)) /\ IsFiniteSet(h)
      /\ u + d = Cardinality(R) /\ u = Cardinality(h)
  BY DEF UniqueIn
<1>3. PICK S \in SUBSET F : HashesFrom(S) = h /\ b = Cardinality(BytesFrom(S))
  BY DEF UniqueIn
<1>4. ContentSize[c] \in Nat /\ h = HashesFrom(F) /\ c = t[j]
  OBVIOUS
<1> HIDE DEF c, F, R, j
<1>5. Cardinality(ReadUpTo(t, j)) = u + d + 1
  <2>1. Cardinality(R \cup {j}) = Cardinality(R) + 1
    BY <1>1, FS_AddElement
  <2> QED BY <1>1, <1>2, <2>1
<1>6. IsFiniteSet(BytesFrom(F \cup {c}))
  <2>1. CASE c \in F
    <3>1. F \cup {c} = F
      BY <2>1
    <3> QED BY <1>2, <3>1
  <2>2. CASE c \notin F
    <3>1. /\ BytesFrom(F \cup {c}) = BytesFrom(F) \cup ({c} \X (1 .. ContentSize[c]))
          /\ BytesFrom(F) \cap ({c} \X (1 .. ContentSize[c])) = {}
      BY <2>2, BytesFromAdd
    <3> DEFINE U == BytesFrom(F)
               n == ContentSize[c]
    <3>2. IsFiniteSet(U) /\ n \in Nat /\ U \cap ({c} \X (1 .. n)) = {}
      BY <1>2, <1>4, <3>1
    <3> HIDE DEF U, n
    <3>3. IsFiniteSet(U \cup ({c} \X (1 .. n)))
      BY <3>2, BytesAdd
    <3> QED BY <3>1, <3>3 DEF U, n
  <2> QED BY <2>1, <2>2
<1>7. ASSUME ContentHash[c] \in h  PROVE UniqueIn(t, j, h, d + 1, u, b)
  <2>1. u + (d + 1) = Cardinality(ReadUpTo(t, j))
    BY <1>5
  <2>2. S \in SUBSET FoundUpTo(t, j)
    BY <1>1, <1>3
  <2> QED BY <1>1, <1>2, <1>3, <1>6, <2>1, <2>2 DEF UniqueIn
<1>8. ASSUME ContentHash[c] \notin h
      PROVE  UniqueIn(t, j, h \cup {ContentHash[c]}, d, u + 1, b + ContentSize[c])
  <2> DEFINE x == ContentHash[c]
             U == S \cup {c}
             n == ContentSize[c]
  <2>1. (u + 1) + d = Cardinality(ReadUpTo(t, j))
    BY <1>5
  <2>2. U \in SUBSET FoundUpTo(t, j)
    BY <1>1, <1>3
  <2>3. HashesFrom(U) = h \cup {x}
    BY <1>3, HashesAdd
  <2>4. IsFiniteSet(h \cup {x}) /\ Cardinality(h \cup {x}) = u + 1
    <3>1. x \notin h
      BY <1>8
    <3> HIDE DEF x
    <3> QED BY <1>2, <3>1, FS_AddElement
  <2>5. c \notin S
    BY <1>3, <1>8 DEF HashesFrom
  <2>6. IsFiniteSet(BytesFrom(S))
    <3>1. BytesFrom(S) \in SUBSET BytesFrom(F)
      BY <1>3 DEF BytesFrom
    <3> DEFINE X == BytesFrom(S)
               Y == BytesFrom(F)
    <3>2. IsFiniteSet(Y) /\ X \in SUBSET Y
      BY <1>2, <3>1
    <3> HIDE DEF X, Y
    <3>3. IsFiniteSet(X)
      BY <3>2, FS_Subset
    <3> QED BY <3>3 DEF X
  <2>7. Cardinality(BytesFrom(U)) = b + n
    <3>1. /\ BytesFrom(U) = BytesFrom(S) \cup ({c} \X (1 .. n))
          /\ BytesFrom(S) \cap ({c} \X (1 .. n)) = {}
      BY <2>5, BytesFromAdd
    <3> DEFINE B == BytesFrom(S)
    <3>2. n \in Nat /\ IsFiniteSet(B) /\ B \cap ({c} \X (1 .. n)) = {} /\ b = Cardinality(B)
      BY <1>3, <1>4, <2>6, <3>1
    <3> HIDE DEF U, n, B
    <3>3. Cardinality(B \cup ({c} \X (1 .. n))) = b + n
      BY <3>2, BytesAdd
    <3> QED BY <3>1, <3>3 DEF B
  <2>8. \E V \in SUBSET FoundUpTo(t, j) :
          HashesFrom(V) = h \cup {x} /\ b + n = Cardinality(BytesFrom(V))
    BY <2>2, <2>3, <2>7
  <2>9. IsFiniteSet(BytesFrom(FoundUpTo(t, j)))
    BY <1>1, <1>6
  <2> HIDE DEF x, n, U
  <2>10. UniqueIn(t, j, h \cup {x}, d, u + 1, b + n)
    BY <2>1, <2>4, <2>8, <2>9 DEF UniqueIn
  <2> QED BY <2>10 DEF x, n
<1> QED BY <1>7, <1>8 DEF c, j

LEMMA cbSkipsStep ==
  ASSUME CT!CompareToolsAssumption, CompareInv, CT!cbSkips  PROVE CompareInv'
<1>0. /\ CompareTypeOK /\ TreesCompared /\ offset \in Nat
      /\ \A w \in CT!Both : Len(twoTrees[w]) \in Nat
  BY DEF CompareInv, CompareTypeOK
<1>1. /\ program = "cmpdir" /\ mainAt \in CT!Both /\ offset < Len(twoTrees[mainAt])
      /\ ~cut[mainAt] /\ CT!Entry = CT!Skipped /\ offset' = offset + 1
      /\ program' = program /\ fileA' = fileA /\ fileB' = fileB /\ twoTrees' = twoTrees
      /\ mainAt' = mainAt /\ rc' = rc /\ runStart' = runStart /\ runEnd' = runEnd
      /\ nFiles' = nFiles /\ nBytes' = nBytes /\ hashSets' = hashSets
      /\ nDuplicates' = nDuplicates /\ nUnique' = nUnique /\ nBytesUnique' = nBytesUnique
      /\ \E zero \in BOOLEAN : cut' = [cut EXCEPT ![mainAt] = zero]
  BY DEF CT!cbSkips, CT!Calls, CT!input, CT!run, CT!counts, CT!unique
<1>2. /\ cut' \in [CT!Both -> BOOLEAN]
      /\ \A w \in CT!Both : w # mainAt => cut'[w] = cut[w]
  BY <1>0, <1>1 DEF CompareTypeOK
<1>3. CompareTypeOK'
  BY <1>0, <1>1, <1>2 DEF CompareTypeOK, FileTool, TreeTool
<1>4. CountedTo(mainAt, offset)
  BY <1>0, <1>1 DEF TreesCompared
<1>5. CountedTo(mainAt, offset + 1)
  <2>1. CT!Entry = twoTrees[mainAt][offset + 1]
    BY DEF CT!Entry
  <2> QED BY <1>0, <1>1, <1>4, <2>1, SkippedCounted DEF CountedTo
<1>6. TreesCompared'
  <2>1. CountedTo(mainAt, offset)' /\ (cut'[mainAt] => offset' \in CT!Stops(mainAt)')
    <3>1. CountedTo(mainAt, offset)'
      BY <1>1, <1>5 DEF CountedTo
    <3>2. /\ offset + 1 \in DOMAIN twoTrees[mainAt]
          /\ twoTrees[mainAt][offset + 1] = CT!Skipped
      BY <1>0, <1>1, EntryOf DEF CompareTypeOK, CT!Entry
    <3> QED BY <1>1, <3>1, <3>2 DEF CT!Stops
  <2>2. "A" \in CT!Both /\ "B" \in CT!Both /\ \A w \in CT!Both : w \in {"A", "B"}
    BY DEF CT!Both
  <2>3. CASE mainAt = "A"
    <3>1. CountedTo("B", 0) /\ ~cut["B"] /\ cut'["B"] = cut["B"]
      BY <1>0, <1>1, <1>2, <2>2, <2>3 DEF TreesCompared
    <3>2. CountedTo("B", 0)'
      BY <1>1, <3>1 DEF CountedTo
    <3> QED BY <1>1, <2>1, <2>3, <3>1, <3>2 DEF TreesCompared
  <2>4. CASE mainAt = "B"
    <3>1. Ended("A") /\ cut'["A"] = cut["A"]
      BY <1>0, <1>1, <1>2, <2>2, <2>4 DEF TreesCompared
    <3>2. Ended("A")'
      BY <1>1, <3>1, EndedStays
    <3> QED BY <1>1, <2>1, <2>4, <3>2 DEF TreesCompared
  <2> QED BY <1>1, <2>2, <2>3, <2>4
<1>7. DuplicatesCounted' /\ BuffersCompared' /\ BytesCompared' /\ BlocksTested'
  BY <1>1, TreesOnly DEF TreeTool, DuplicatesCounted
<1> QED BY <1>3, <1>6, <1>7 DEF CompareInv

\* What CountFile leaves of the counts, and what cbA, cbB or cb adds to the hashes.
LEMMA CountFileTypes ==
  ASSUME CompareTypeOK, mainAt \in CT!Both, CT!CountFile,
         ContentSize[CT!Entry] \in Nat
  PROVE  /\ nFiles' \in [CT!Both -> Nat] /\ nBytes' \in [CT!Both -> Nat]
         /\ nFiles'[mainAt] = nFiles[mainAt] + 1
         /\ nBytes'[mainAt] = nBytes[mainAt] + ContentSize[CT!Entry]
         /\ \A w \in CT!Both : w # mainAt => nFiles'[w] = nFiles[w] /\ nBytes'[w] = nBytes[w]
<1>1. /\ nFiles \in [CT!Both -> Nat] /\ nBytes \in [CT!Both -> Nat]
      /\ nFiles' = [nFiles EXCEPT ![mainAt] = nFiles[mainAt] + 1]
      /\ nBytes' = [nBytes EXCEPT ![mainAt] = nBytes[mainAt] + ContentSize[CT!Entry]]
  BY DEF CompareTypeOK, CT!CountFile
<1>2. nFiles[mainAt] + 1 \in Nat /\ nBytes[mainAt] + ContentSize[CT!Entry] \in Nat
  BY <1>1
<1> QED BY <1>1, <1>2

LEMMA cbAcbBStep ==
  ASSUME CT!CompareToolsAssumption, CompareInv, CT!cbAcbB  PROVE CompareInv'
<1>0. /\ CompareTypeOK /\ TreesCompared /\ offset \in Nat
      /\ \A w \in CT!Both : Len(twoTrees[w]) \in Nat
      /\ cut \in [CT!Both -> BOOLEAN] /\ hashSets \in [CT!Both -> SUBSET Nat]
  BY DEF CompareInv, CompareTypeOK
<1>1. /\ program = "cmpdir" /\ mainAt \in CT!Both /\ offset < Len(twoTrees[mainAt])
      /\ ~cut[mainAt] /\ CT!Entry # CT!Skipped /\ offset' = offset + 1
      /\ program' = program /\ fileA' = fileA /\ fileB' = fileB /\ twoTrees' = twoTrees
      /\ mainAt' = mainAt /\ rc' = rc /\ runStart' = runStart /\ runEnd' = runEnd
      /\ nDuplicates' = nDuplicates /\ nUnique' = nUnique /\ nBytesUnique' = nBytesUnique
      /\ CT!CountFile
      /\ hashSets' = IF ContentHash[CT!Entry] = 0 THEN hashSets
                     ELSE [hashSets EXCEPT ![mainAt] = hashSets[mainAt] \cup {ContentHash[CT!Entry]}]
      /\ cut' = [cut EXCEPT ![mainAt] = (ContentHash[CT!Entry] = 0)]
  BY DEF CT!cbAcbB, CT!Calls, CT!input, CT!run, CT!unique
<1>2. /\ ContentSize[CT!Entry] \in Nat /\ ContentHash[CT!Entry] \in Nat
      /\ CT!Entry = twoTrees[mainAt][offset + 1]
  BY <1>0, <1>1, EntryOf
<1>3. /\ nFiles' \in [CT!Both -> Nat] /\ nBytes' \in [CT!Both -> Nat]
      /\ nFiles'[mainAt] = nFiles[mainAt] + 1
      /\ nBytes'[mainAt] = nBytes[mainAt] + ContentSize[CT!Entry]
      /\ \A w \in CT!Both : w # mainAt => nFiles'[w] = nFiles[w] /\ nBytes'[w] = nBytes[w]
  BY <1>0, <1>1, <1>2, CountFileTypes
<1>4. /\ hashSets' \in [CT!Both -> SUBSET Nat]
      /\ hashSets'[mainAt] = IF ContentHash[CT!Entry] = 0 THEN hashSets[mainAt]
                             ELSE hashSets[mainAt] \cup {ContentHash[CT!Entry]}
      /\ \A w \in CT!Both : w # mainAt => hashSets'[w] = hashSets[w]
  BY <1>0, <1>1, <1>2
<1>5. /\ cut' \in [CT!Both -> BOOLEAN]
      /\ \A w \in CT!Both : w # mainAt => cut'[w] = cut[w]
  <2>1. (ContentHash[CT!Entry] = 0) \in BOOLEAN
    OBVIOUS
  <2> QED BY <1>0, <1>1, <2>1
<1>6. CompareTypeOK'
  BY <1>0, <1>1, <1>3, <1>4, <1>5 DEF CompareTypeOK, FileTool, TreeTool
<1>7. CountedIn(twoTrees[mainAt], offset + 1, nFiles'[mainAt], nBytes'[mainAt], hashSets'[mainAt])
  <2> DEFINE t == twoTrees[mainAt]
  <2>1. CountedIn(t, offset, nFiles[mainAt], nBytes[mainAt], hashSets[mainAt])
    BY <1>0, <1>1 DEF TreesCompared, CountedTo
  <2>2. /\ offset < Len(t) /\ Len(t) \in Nat /\ t[offset + 1] # CT!Skipped
        /\ ContentSize[t[offset + 1]] \in Nat /\ CT!Entry = t[offset + 1]
    BY <1>0, <1>1, <1>2
  <2> HIDE DEF t
  <2>3. /\ ContentHash[t[offset + 1]] = 0 =>
             CountedIn(t, offset + 1, nFiles[mainAt] + 1,
                       nBytes[mainAt] + ContentSize[t[offset + 1]], hashSets[mainAt])
        /\ ContentHash[t[offset + 1]] # 0 =>
             CountedIn(t, offset + 1, nFiles[mainAt] + 1,
                       nBytes[mainAt] + ContentSize[t[offset + 1]],
                       hashSets[mainAt] \cup {ContentHash[t[offset + 1]]})
    BY <1>0, <2>1, <2>2, FileIsCounted
  <2>4. CountedIn(t, offset + 1, nFiles'[mainAt], nBytes'[mainAt], hashSets'[mainAt])
    BY <1>3, <1>4, <2>2, <2>3
  <2> QED BY <2>4 DEF t
<1>8. TreesCompared'
  <2>1. "A" \in CT!Both /\ "B" \in CT!Both /\ \A w \in CT!Both : w \in {"A", "B"}
    BY DEF CT!Both
  <2>2. CountedTo(mainAt, offset)' /\ (cut'[mainAt] => offset' \in CT!Stops(mainAt)')
    <3>1. CountedTo(mainAt, offset)'
      BY <1>1, <1>7 DEF CountedTo
    <3>2. offset + 1 \in DOMAIN twoTrees[mainAt]
      BY <1>0, <1>1 DEF CompareTypeOK
    <3>3. cut'[mainAt] => ContentHash[twoTrees[mainAt][offset + 1]] = 0
      BY <1>0, <1>1, <1>2
    <3> QED BY <1>1, <3>1, <3>2, <3>3 DEF CT!Stops
  <2>3. CASE mainAt = "A"
    <3>1. CountedTo("B", 0) /\ ~cut["B"]
      BY <1>0, <1>1, <2>3 DEF TreesCompared
    <3>2. /\ cut'["B"] = cut["B"] /\ nFiles'["B"] = nFiles["B"] /\ nBytes'["B"] = nBytes["B"]
          /\ hashSets'["B"] = hashSets["B"]
      BY <1>3, <1>4, <1>5, <2>1, <2>3
    <3>3. CountedTo("B", 0)'
      BY <1>1, <3>1, <3>2 DEF CountedTo
    <3> QED BY <1>1, <2>2, <2>3, <3>1, <3>2, <3>3 DEF TreesCompared
  <2>4. CASE mainAt = "B"
    <3>1. Ended("A")
      BY <1>0, <1>1, <2>4 DEF TreesCompared
    <3>2. /\ cut'["A"] = cut["A"] /\ nFiles'["A"] = nFiles["A"] /\ nBytes'["A"] = nBytes["A"]
          /\ hashSets'["A"] = hashSets["A"]
      BY <1>3, <1>4, <1>5, <2>1, <2>4
    <3>3. Ended("A")'
      BY <1>1, <3>1, <3>2, EndedStays
    <3> QED BY <1>1, <2>2, <2>4, <3>3 DEF TreesCompared
  <2> QED BY <1>1, <2>1, <2>3, <2>4
<1>9. DuplicatesCounted' /\ BuffersCompared' /\ BytesCompared' /\ BlocksTested'
  BY <1>1, TreesOnly DEF TreeTool, DuplicatesCounted
<1> QED BY <1>6, <1>8, <1>9 DEF CompareInv

LEMMA EndOfWalkStep ==
  ASSUME CompareInv, CT!EndOfWalk  PROVE CompareInv'
<1>0. /\ CompareTypeOK /\ TreesCompared /\ offset \in Nat
      /\ \A w \in CT!Both : Len(twoTrees[w]) \in Nat
  BY DEF CompareInv, CompareTypeOK
<1>1. /\ program = "cmpdir" /\ mainAt \in CT!Both
      /\ offset = Len(twoTrees[mainAt]) \/ cut[mainAt]
      /\ program' = program /\ fileA' = fileA /\ fileB' = fileB /\ twoTrees' = twoTrees
      /\ runStart' = runStart /\ runEnd' = runEnd
      /\ nFiles' = nFiles /\ nBytes' = nBytes /\ hashSets' = hashSets /\ cut' = cut
      /\ nDuplicates' = nDuplicates /\ nUnique' = nUnique /\ nBytesUnique' = nBytesUnique
  BY DEF CT!EndOfWalk, CT!input, CT!run, CT!counts, CT!unique
<1>2. Ended(mainAt)
  <2>1. CountedTo(mainAt, offset) /\ (cut[mainAt] => offset \in CT!Stops(mainAt))
    BY <1>0, <1>1 DEF TreesCompared
  <2>2. ~cut[mainAt] => offset \in CT!Stops(mainAt)
    BY <1>1 DEF CT!Stops
  <2> QED BY <2>1, <2>2 DEF Ended
<1>3. \A w : Ended(w) => Ended(w)'
  BY <1>1, EndedStays
<1>4. "A" \in CT!Both /\ "B" \in CT!Both /\ "A" # "B" /\ "returned" \notin CT!Both
  BY DEF CT!Both
<1>5. CASE mainAt = "A"
  <2>1. mainAt' = "B" /\ offset' = 0 /\ rc' = rc
    BY <1>5 DEF CT!EndOfWalk
  <2>2. CompareTypeOK'
    BY <1>0, <1>1, <2>1 DEF CompareTypeOK, FileTool, TreeTool
  <2>3. CountedTo("B", 0) /\ ~cut["B"]
    BY <1>0, <1>1, <1>5 DEF TreesCompared
  <2>4. CountedTo("B", 0)' /\ ~cut'["B"] /\ Ended("A")'
    BY <1>1, <1>2, <1>3, <1>5, <2>3 DEF CountedTo
  <2>5. TreesCompared'
    BY <1>1, <1>4, <2>1, <2>4 DEF TreesCompared
  <2> QED BY <1>1, <2>2, <2>5, TreesOnly DEF CompareInv, TreeTool, DuplicatesCounted
<1>6. CASE mainAt = "B"
  <2>1. /\ mainAt' = "returned" /\ offset' = offset /\ rc' \in Int
        /\ (rc' = 0 <=> /\ nFiles["A"] = nFiles["B"] /\ nBytes["A"] = nBytes["B"]
                        /\ hashSets["A"] = hashSets["B"])
    <3>1. /\ mainAt' = "returned" /\ offset' = offset
          /\ rc' = CASE nFiles["A"] # nFiles["B"] -> -1
                     [] nFiles["A"] = nFiles["B"] /\ nBytes["A"] # nBytes["B"] -> -2
                     [] nFiles["A"] = nFiles["B"] /\ nBytes["A"] = nBytes["B"] ->
                          IF hashSets["A"] # hashSets["B"] THEN -3 ELSE 0
      BY <1>4, <1>6 DEF CT!EndOfWalk, CT!Returns
    <3> QED BY <3>1
  <2>2. CompareTypeOK'
    BY <1>0, <1>1, <2>1 DEF CompareTypeOK, FileTool, TreeTool
  <2>3. Ended("A")' /\ Ended("B")'
    BY <1>0, <1>1, <1>2, <1>3, <1>4, <1>6 DEF TreesCompared
  <2>4. TreesCompared'
    BY <1>1, <1>4, <2>1, <2>3 DEF TreesCompared
  <2> QED BY <1>1, <2>2, <2>4, TreesOnly DEF CompareInv, TreeTool, DuplicatesCounted
<1> QED BY <1>1, <1>5, <1>6 DEF CT!Both

LEMMA countSkipsStep ==
  ASSUME CT!CompareToolsAssumption, CompareInv, CT!countSkips \/ CT!Report  PROVE CompareInv'
<1>0. /\ CompareTypeOK /\ DuplicatesCounted /\ offset \in Nat
      /\ \A w \in CT!Both : Len(twoTrees[w]) \in Nat
  BY DEF CompareInv, CompareTypeOK
<1>1. /\ program = "countcphash"
      /\ program' = program /\ fileA' = fileA /\ fileB' = fileB /\ twoTrees' = twoTrees
      /\ runStart' = runStart /\ runEnd' = runEnd
      /\ nFiles' = nFiles /\ nBytes' = nBytes /\ hashSets' = hashSets /\ cut' = cut
      /\ nDuplicates' = nDuplicates /\ nUnique' = nUnique /\ nBytesUnique' = nBytesUnique
  BY DEF CT!countSkips, CT!Calls, CT!Report, CT!input, CT!run, CT!counts, CT!unique
<1>2. CountedTo("A", offset) /\ UniqueTo(offset) /\ mainAt \in {"A", "returned"}
  BY <1>0, <1>1 DEF DuplicatesCounted
<1>3. TreesCompared' /\ BuffersCompared' /\ BytesCompared' /\ BlocksTested'
  BY <1>1, TreesOnly DEF TreeTool, TreesCompared
<1>4. "A" \in CT!Both /\ "returned" \notin CT!Both
  BY DEF CT!Both
<1>5. CASE CT!countSkips
  <2>1. /\ mainAt = "A" /\ offset < Len(twoTrees["A"]) /\ offset' = offset + 1
        /\ twoTrees["A"][offset + 1] = CT!Skipped /\ mainAt' = mainAt /\ rc' = rc
    BY <1>2, <1>4, <1>5 DEF CT!countSkips, CT!Calls, CT!Entry
  <2>2. CountedTo("A", offset + 1)
    BY <1>0, <1>2, <1>4, <2>1, SkippedCounted DEF CountedTo
  <2>3. UniqueTo(offset + 1)
    BY <1>0, <1>2, <2>1, SkippedUnique DEF UniqueTo
  <2>4. DuplicatesCounted'
    BY <1>1, <2>1, <2>2, <2>3 DEF DuplicatesCounted, CountedTo, UniqueTo
  <2>5. CompareTypeOK'
    BY <1>0, <1>1, <2>1 DEF CompareTypeOK, FileTool, TreeTool
  <2> QED BY <1>3, <2>4, <2>5 DEF CompareInv
<1>6. CASE CT!Report
  <2>1. /\ mainAt = "A" /\ offset = Len(twoTrees["A"]) /\ offset' = offset
        /\ mainAt' = "returned" /\ rc' = 0
    BY <1>6 DEF CT!Report, CT!Returns
  <2>2. DuplicatesCounted'
    BY <1>1, <1>2, <2>1 DEF DuplicatesCounted, CountedTo, UniqueTo
  <2>3. CompareTypeOK'
    BY <1>0, <1>1, <2>1 DEF CompareTypeOK, FileTool, TreeTool
  <2> QED BY <1>3, <2>2, <2>3 DEF CompareInv
<1> QED BY <1>5, <1>6

LEMMA cbStep ==
  ASSUME CT!CompareToolsAssumption, CompareInv, CT!cb  PROVE CompareInv'
<1> DEFINE t == twoTrees["A"]
           e == CT!Entry
           h == hashSets["A"]
<1>0. /\ CompareTypeOK /\ DuplicatesCounted /\ offset \in Nat
      /\ \A w \in CT!Both : Len(twoTrees[w]) \in Nat
      /\ hashSets \in [CT!Both -> SUBSET Nat]
      /\ nDuplicates \in Nat /\ nUnique \in Nat /\ nBytesUnique \in Nat
  BY DEF CompareInv, CompareTypeOK
<1>1. /\ program = "countcphash" /\ mainAt \in CT!Both /\ offset < Len(twoTrees[mainAt])
      /\ e # CT!Skipped /\ offset' = offset + 1
      /\ program' = program /\ fileA' = fileA /\ fileB' = fileB /\ twoTrees' = twoTrees
      /\ mainAt' = mainAt /\ rc' = rc /\ runStart' = runStart /\ runEnd' = runEnd
      /\ cut' = cut /\ CT!CountFile
  BY DEF CT!cb, CT!Calls, CT!input, CT!run
<1>2. /\ CountedTo("A", offset) /\ UniqueTo(offset) /\ mainAt = "A" /\ "A" \in CT!Both
  BY <1>0, <1>1 DEF DuplicatesCounted, CT!Both
<1>3. /\ ContentSize[e] \in Nat /\ ContentHash[e] \in Nat /\ e = t[offset + 1]
  BY <1>0, <1>1, <1>2, EntryOf
<1>4. /\ nFiles' \in [CT!Both -> Nat] /\ nBytes' \in [CT!Both -> Nat]
      /\ nFiles'["A"] = nFiles["A"] + 1
      /\ nBytes'["A"] = nBytes["A"] + ContentSize[e]
  BY <1>0, <1>1, <1>2, <1>3, CountFileTypes
<1>5. \/ /\ ContentHash[e] = 0 /\ hashSets' = hashSets
         /\ nDuplicates' = nDuplicates /\ nUnique' = nUnique /\ nBytesUnique' = nBytesUnique
      \/ /\ ContentHash[e] # 0 /\ ContentHash[e] \in h /\ hashSets' = hashSets
         /\ nDuplicates' = nDuplicates + 1 /\ nUnique' = nUnique /\ nBytesUnique' = nBytesUnique
      \/ /\ ContentHash[e] # 0 /\ ContentHash[e] \notin h
         /\ hashSets' = [hashSets EXCEPT !["A"] = h \cup {ContentHash[e]}]
         /\ nDuplicates' = nDuplicates /\ nUnique' = nUnique + 1
         /\ nBytesUnique' = nBytesUnique + ContentSize[e]
  BY <1>2 DEF CT!cb, CT!unique
<1>6. /\ hashSets' \in [CT!Both -> SUBSET Nat]
      /\ nDuplicates' \in Nat /\ nUnique' \in Nat /\ nBytesUnique' \in Nat
      /\ ContentHash[e] = 0 \/ ContentHash[e] \in h => hashSets'["A"] = h
      /\ ContentHash[e] # 0 /\ ContentHash[e] \notin h => hashSets'["A"] = h \cup {ContentHash[e]}
  <2>1. \A x \in Nat : [hashSets EXCEPT !["A"] = h \cup {x}] \in [CT!Both -> SUBSET Nat]
    BY <1>0, <1>2
  <2>2. CASE ContentHash[e] = 0 \/ ContentHash[e] \in h
    BY <1>0, <1>5, <2>2
  <2>3. CASE ContentHash[e] # 0 /\ ContentHash[e] \notin h
    <3>1. /\ hashSets' = [hashSets EXCEPT !["A"] = h \cup {ContentHash[e]}]
          /\ nDuplicates' = nDuplicates /\ nUnique' = nUnique + 1
          /\ nBytesUnique' = nBytesUnique + ContentSize[e]
      BY <1>5, <2>3
    <3>2. hashSets' \in [CT!Both -> SUBSET Nat]
      BY <1>3, <2>1, <3>1
    <3>3. hashSets'["A"] = h \cup {ContentHash[e]}
      BY <1>0, <1>2, <3>1
    <3>4. nDuplicates' \in Nat /\ nUnique' \in Nat /\ nBytesUnique' \in Nat
      BY <1>0, <1>3, <3>1
    <3> QED BY <2>3, <3>2, <3>3, <3>4
  <2> QED BY <2>2, <2>3
<1>7. /\ CountedIn(t, offset, nFiles["A"], nBytes["A"], h)
      /\ UniqueIn(t, offset, h, nDuplicates, nUnique, nBytesUnique)
      /\ h = HashesFrom(FoundUpTo(t, offset))
      /\ offset < Len(t) /\ Len(t) \in Nat
  BY <1>0, <1>1, <1>2 DEF CountedTo, UniqueTo, CountedIn
<1> HIDE DEF t, e, h
<1>8. CountedIn(t, offset + 1, nFiles'["A"], nBytes'["A"], hashSets'["A"])
  <2>1. CASE ContentHash[e] = 0
    <3>1. CountedIn(t, offset + 1, nFiles["A"] + 1, nBytes["A"] + ContentSize[e], h)
      BY <1>0, <1>1, <1>3, <1>7, <2>1, FileIsCounted
    <3> QED BY <1>4, <1>6, <2>1, <3>1
  <2>2. CASE ContentHash[e] # 0
    <3>1. CountedIn(t, offset + 1, nFiles["A"] + 1, nBytes["A"] + ContentSize[e],
                    h \cup {ContentHash[e]})
      BY <1>0, <1>1, <1>3, <1>7, <2>2, FileIsCounted
    <3>2. hashSets'["A"] = h \cup {ContentHash[e]}
      BY <1>6, <2>2
    <3> QED BY <1>4, <3>1, <3>2
  <2> QED BY <2>1, <2>2
<1>9. UniqueIn(t, offset + 1, hashSets'["A"], nDuplicates', nUnique', nBytesUnique')
  <2>1. CASE ContentHash[e] = 0
    <3>1. UniqueIn(t, offset + 1, h, nDuplicates, nUnique, nBytesUnique)
      BY <1>0, <1>3, <1>7, <2>1, SkippedUnique
    <3> QED BY <1>5, <1>6, <2>1, <3>1
  <2>2. CASE ContentHash[e] # 0
    <3>1. /\ ContentHash[e] \in h =>
               UniqueIn(t, offset + 1, h, nDuplicates + 1, nUnique, nBytesUnique)
          /\ ContentHash[e] \notin h =>
               UniqueIn(t, offset + 1, h \cup {ContentHash[e]}, nDuplicates, nUnique + 1,
                        nBytesUnique + ContentSize[e])
      BY <1>0, <1>1, <1>3, <1>7, <2>2, FileUnique
    <3> QED BY <1>5, <1>6, <2>2, <3>1
  <2> QED BY <2>1, <2>2
<1>10. DuplicatesCounted'
  <2>1. CountedTo("A", offset)' /\ UniqueTo(offset)'
    BY <1>1, <1>8, <1>9 DEF CountedTo, UniqueTo, t
  <2> QED BY <1>1, <1>2, <2>1 DEF DuplicatesCounted
<1>11. CompareTypeOK'
  BY <1>0, <1>1, <1>4, <1>6 DEF CompareTypeOK, FileTool, TreeTool
<1>12. TreesCompared' /\ BuffersCompared' /\ BytesCompared' /\ BlocksTested'
  BY <1>1, TreesOnly DEF TreeTool, TreesCompared
<1> QED BY <1>10, <1>11, <1>12 DEF CompareInv

\* The invariant holds in every behaviour of the five tools.
LEMMA CompareInvariance ==
  ASSUME CT!CompareToolsAssumption, CompareInv, [CT!Next]_(CT!vars)  PROVE CompareInv'
<1>1. CASE CT!bdiff \/ CT!Opened \/ CT!NotOpened \/ CT!ReadFails \/ CT!EndOfFile
  BY <1>1, CompareMoves
<1>2. CASE CT!CompareBuffers
  BY <1>2, CompareBuffersStep
<1>3. CASE CT!CompareBytes \/ CT!TestBlock
  BY <1>3, CompareBytesStep, TestBlockStep
<1>4. CASE CT!cbSkips \/ CT!cbAcbB
  BY <1>4, cbSkipsStep, cbAcbBStep
<1>5. CASE CT!EndOfWalk
  BY <1>5, EndOfWalkStep
<1>6. CASE CT!countSkips \/ CT!cb \/ CT!Report
  BY <1>6, countSkipsStep, cbStep
<1>7. CASE UNCHANGED CT!vars
  <2>1. /\ program' = program /\ fileA' = fileA /\ fileB' = fileB /\ twoTrees' = twoTrees
        /\ mainAt' = mainAt /\ offset' = offset /\ rc' = rc /\ output' = output
        /\ runStart' = runStart /\ runEnd' = runEnd
        /\ nFiles' = nFiles /\ nBytes' = nBytes /\ hashSets' = hashSets /\ cut' = cut
        /\ nDuplicates' = nDuplicates /\ nUnique' = nUnique /\ nBytesUnique' = nBytesUnique
    BY <1>7 DEF CT!vars, CT!input, CT!run, CT!counts, CT!unique
  <2>2. CT!Differences' = CT!Differences /\ CT!ZeroRuns' = CT!ZeroRuns
    BY <2>1, CompareFrame
  <2>3. CompareTypeOK'
    BY <2>1 DEF CompareInv, CompareTypeOK, FileTool, TreeTool
  <2>4. BuffersCompared' /\ BytesCompared' /\ BlocksTested'
    <3>1. /\ {d \in CT!Differences : d < offset}' = {d \in CT!Differences : d < offset}
          /\ {r \in CT!ZeroRuns : r[2] < offset - 1}' = {r \in CT!ZeroRuns : r[2] < offset - 1}
      BY <2>1, <2>2
    <3>2. RunOpen' <=> RunOpen
      BY <2>1 DEF RunOpen
    <3> QED BY <2>1, <3>1, <3>2 DEF CompareInv, BuffersCompared, BytesCompared, BlocksTested
  <2>5. TreesCompared' /\ DuplicatesCounted'
    <3>1. \A w : (CT!Stops(w)' = CT!Stops(w)) /\ (Ended(w) => Ended(w)')
      BY <2>1, StopsStay, EndedStays
    <3> QED BY <2>1, <3>1
            DEF CompareInv, TreesCompared, DuplicatesCounted, CountedTo, UniqueTo
  <2> QED BY <2>3, <2>4, <2>5 DEF CompareInv
<1> QED BY <1>1, <1>2, <1>3, <1>4, <1>5, <1>6, <1>7 DEF CT!Next

LEMMA FilesAreTrue ==
  ASSUME CT!CompareToolsAssumption, CompareInv  PROVE CT!FilesTrue
<1>0. /\ BuffersCompared /\ BytesCompared /\ BlocksTested
      /\ Len(fileA) \in Nat /\ Len(fileB) \in Nat /\ offset \in Nat /\ Buffer \in Nat \ {0}
      /\ fileA \in Seq(Bytes) /\ DOMAIN fileA = 1 .. Len(fileA)
  BY DEF CompareInv, CompareTypeOK, CT!CompareToolsAssumption
<1>1. \A d \in CT!Differences : d \in Int /\ d < Len(fileA)
  <2> SUFFICES ASSUME NEW d \in CT!Differences  PROVE d \in Int /\ d < Len(fileA)
    OBVIOUS
  <2>1. PICK k \in DOMAIN fileA : d = k - 1
    BY DifferenceSet
  <2> QED BY <1>0, <2>1
<1>2. \A r \in CT!ZeroRuns : r[2] \in 0 .. Len(fileA) - 1
  BY <1>0 DEF CT!ZeroRuns
<1>3. program \in {"xdiff", "bdiff"} => output = {d \in CT!Differences : d < offset}
  BY <1>0 DEF BuffersCompared, BytesCompared
<1>4. ASSUME CT!Done("xdiff")
      PROVE  /\ output = CT!Differences /\ Len(fileA) <= Len(fileB)
             /\ Len(fileA) < Len(fileB) => \E q \in 0 .. Len(fileA) : Len(fileA) = q * Buffer
  <2>1. /\ offset = Len(fileA) /\ offset <= Len(fileB)
        /\ (\E q \in Nat : offset = q * Buffer) \/ Len(fileA) = Len(fileB)
        /\ output = {d \in CT!Differences : d < offset}
    BY <1>0, <1>4 DEF BuffersCompared, CT!Done
  <2>2. output = CT!Differences
    BY <1>1, <2>1
  <2>3. ASSUME Len(fileA) < Len(fileB)
        PROVE  \E q \in 0 .. Len(fileA) : Len(fileA) = q * Buffer
    <3>0. Len(fileA) # Len(fileB)
      BY <1>0, <2>3
    <3>1. PICK q \in Nat : Len(fileA) = q * Buffer
      BY <2>1, <3>0
    <3>2. q <= q * Buffer
      <4>1. PICK b \in Nat : Buffer = b + 1
        <5>1. Buffer - 1 \in Nat /\ Buffer = (Buffer - 1) + 1
          BY <1>0
        <5> QED BY <5>1
      <4>2. q * (b + 1) = q * b + q /\ q * b \in Nat
        BY <3>1
      <4> QED BY <4>1, <4>2
    <3> QED BY <1>0, <3>1, <3>2
  <2> QED BY <2>1, <2>2, <2>3
<1>5. CT!Done("bdiff") => output = CT!Differences /\ Len(fileA) = Len(fileB)
  <2> SUFFICES ASSUME CT!Done("bdiff")  PROVE output = CT!Differences /\ Len(fileA) = Len(fileB)
    OBVIOUS
  <2>1. offset = Len(fileA) /\ output = {d \in CT!Differences : d < offset}
        /\ Len(fileA) = Len(fileB)
    BY <1>0 DEF BytesCompared, CT!Done
  <2> QED BY <1>1, <2>1
<1>6. program = "zerorun" => output \subseteq CT!ZeroRuns
  BY <1>0 DEF BlocksTested
<1>7. CT!Done("zerorun") => output = {r \in CT!ZeroRuns : r[2] # Len(fileA) - 1}
  <2> SUFFICES ASSUME CT!Done("zerorun")
               PROVE  output = {r \in CT!ZeroRuns : r[2] # Len(fileA) - 1}
    OBVIOUS
  <2>1. offset = Len(fileA) /\ output = {r \in CT!ZeroRuns : r[2] < offset - 1}
    BY <1>0 DEF BlocksTested, CT!Done
  <2>2. \A r \in CT!ZeroRuns : r[2] < offset - 1 <=> r[2] # Len(fileA) - 1
    BY <1>0, <1>2, <2>1
  <2> QED BY <2>1, <2>2
<1> QED BY <1>3, <1>4, <1>5, <1>6, <1>7 DEF CT!FilesTrue

\* The sets of the property are those of the invariant, for all the entries of a tree.
LEMMA WholeTree ==
  ASSUME NEW t, DOMAIN t = 1 .. Len(t)
  PROVE  /\ CT!FilesOf(t) = FilesUpTo(t, Len(t)) /\ CT!BytesOf(t) = BytesUpTo(t, Len(t))
         /\ {k \in CT!FilesOf(t) : ContentHash[t[k]] # 0} = ReadUpTo(t, Len(t))
         /\ CT!Found(t) = FoundUpTo(t, Len(t))
         /\ CT!FoundBytes(t) = BytesFrom(FoundUpTo(t, Len(t)))
         /\ CT!HashesOf(t) = HashesFrom(FoundUpTo(t, Len(t)))
<1>1. CT!FilesOf(t) = FilesUpTo(t, Len(t))
  BY DEF CT!FilesOf, FilesUpTo
<1>2. CT!BytesOf(t) = BytesUpTo(t, Len(t))
  BY <1>1 DEF CT!BytesOf, BytesUpTo
<1>3. {k \in CT!FilesOf(t) : ContentHash[t[k]] # 0} = ReadUpTo(t, Len(t))
  BY <1>1 DEF ReadUpTo
<1>4. CT!Found(t) = FoundUpTo(t, Len(t))
  BY <1>3 DEF CT!Found, FoundUpTo
<1>5. CT!FoundBytes(t) = BytesFrom(FoundUpTo(t, Len(t)))
  BY <1>4 DEF CT!FoundBytes, BytesFrom
<1>6. CT!HashesOf(t) = HashesFrom(FoundUpTo(t, Len(t)))
  BY <1>4 DEF CT!HashesOf, HashesFrom
<1> QED BY <1>1, <1>2, <1>3, <1>4, <1>5, <1>6

\* The same of the entries up to where a walk has ended.
LEMMA FirstEntries ==
  ASSUME NEW S, NEW t \in Seq(S), NEW m \in 0 .. Len(t)
  PROVE  /\ CT!FilesOf(SubSeq(t, 1, m)) = FilesUpTo(t, m)
         /\ CT!BytesOf(SubSeq(t, 1, m)) = BytesUpTo(t, m)
         /\ CT!HashesOf(SubSeq(t, 1, m)) = HashesFrom(FoundUpTo(t, m))
<1> DEFINE q == SubSeq(t, 1, m)
<1>1. DOMAIN q = 1 .. m /\ \A k \in 1 .. m : q[k] = t[k]
  OBVIOUS
<1>2. CT!FilesOf(q) = FilesUpTo(t, m)
  BY <1>1 DEF CT!FilesOf, FilesUpTo
<1>3. \A k \in FilesUpTo(t, m) : q[k] = t[k]
  BY <1>1 DEF FilesUpTo
<1> HIDE DEF q
<1>4. CT!BytesOf(q) = BytesUpTo(t, m)
  BY <1>2, <1>3 DEF CT!BytesOf, BytesUpTo
<1>5. CT!Found(q) = FoundUpTo(t, m)
  BY <1>2, <1>3 DEF CT!Found, FoundUpTo, ReadUpTo
<1>6. CT!HashesOf(q) = HashesFrom(FoundUpTo(t, m))
  BY <1>5 DEF CT!HashesOf, HashesFrom
<1> QED BY <1>2, <1>4, <1>6 DEF q

LEMMA TreesAreTrue ==
  ASSUME CT!CompareToolsAssumption, CompareInv  PROVE CT!TreesTrue
<1> DEFINE t == twoTrees["A"]
           v == twoTrees["B"]
<1>0. /\ TreesCompared /\ DuplicatesCounted
      /\ DOMAIN t = 1 .. Len(t) /\ DOMAIN v = 1 .. Len(v)
      /\ "A" \in CT!Both /\ "B" \in CT!Both
  BY DEF CompareInv, CompareTypeOK, CT!Both
<1>1. /\ CT!FilesOf(t) = FilesUpTo(t, Len(t)) /\ CT!BytesOf(t) = BytesUpTo(t, Len(t))
      /\ {k \in CT!FilesOf(t) : ContentHash[t[k]] # 0} = ReadUpTo(t, Len(t))
      /\ CT!Found(t) = FoundUpTo(t, Len(t))
      /\ CT!FoundBytes(t) = BytesFrom(FoundUpTo(t, Len(t)))
      /\ CT!HashesOf(t) = HashesFrom(FoundUpTo(t, Len(t)))
  BY <1>0, WholeTree
<1>2. /\ t \in Seq(TreeContents \cup {CT!Skipped}) /\ v \in Seq(TreeContents \cup {CT!Skipped})
      /\ cut \in [CT!Both -> BOOLEAN]
  BY <1>0 DEF CompareInv, CompareTypeOK
<1>3. ASSUME program = "cmpdir", mainAt = "returned"
      PROVE  \E a \in CT!Stops("A"), b \in CT!Stops("B") :
               rc = 0 <=> CT!Agree(SubSeq(t, 1, a), SubSeq(v, 1, b))
  <2>1. /\ Ended("A") /\ Ended("B")
        /\ (rc = 0 <=> /\ nFiles["A"] = nFiles["B"] /\ nBytes["A"] = nBytes["B"]
                       /\ hashSets["A"] = hashSets["B"])
    BY <1>0, <1>3 DEF TreesCompared
  <2>2. PICK a \in CT!Stops("A") : CountedTo("A", a)
    BY <2>1 DEF Ended
  <2>3. PICK b \in CT!Stops("B") : CountedTo("B", b)
    BY <2>1 DEF Ended
  <2>4. a \in 0 .. Len(t) /\ b \in 0 .. Len(v)
    BY <1>0, <1>2, <2>2, <2>3 DEF CT!Stops
  <2> DEFINE x == SubSeq(t, 1, a)
             y == SubSeq(v, 1, b)
  <2>5. /\ nFiles["A"] = Cardinality(CT!FilesOf(x)) /\ nBytes["A"] = Cardinality(CT!BytesOf(x))
        /\ hashSets["A"] = CT!HashesOf(x)
    BY <1>2, <2>2, <2>4, FirstEntries DEF CountedTo, CountedIn
  <2>6. /\ nFiles["B"] = Cardinality(CT!FilesOf(y)) /\ nBytes["B"] = Cardinality(CT!BytesOf(y))
        /\ hashSets["B"] = CT!HashesOf(y)
    BY <1>2, <2>3, <2>4, FirstEntries DEF CountedTo, CountedIn
  <2> HIDE DEF x, y
  <2>7. rc = 0 <=> CT!Agree(x, y)
    BY <2>1, <2>5, <2>6, SameFiniteCT DEF CT!Agree
  <2> QED BY <2>2, <2>3, <2>7 DEF x, y
<1>4. ASSUME CT!Done("countcphash")
      PROVE  /\ nFiles["A"] = Cardinality(CT!FilesOf(t))
             /\ nBytes["A"] = Cardinality(CT!BytesOf(t))
             /\ nUnique + nDuplicates = Cardinality({k \in CT!FilesOf(t) : ContentHash[t[k]] # 0})
             /\ nUnique = Cardinality(CT!HashesOf(t))
             /\ nBytesUnique <= Cardinality(CT!FoundBytes(t))
             /\ CT!Distinct(t) => nBytesUnique = Cardinality(CT!FoundBytes(t))
  <2>1. CountedTo("A", Len(t)) /\ UniqueTo(Len(t))
    BY <1>0, <1>4 DEF DuplicatesCounted, CT!Done
  <2>2. /\ nFiles["A"] = Cardinality(CT!FilesOf(t)) /\ nBytes["A"] = Cardinality(CT!BytesOf(t))
        /\ hashSets["A"] = CT!HashesOf(t)
    BY <1>1, <2>1 DEF CountedTo, CountedIn
  <2>3. /\ IsFiniteSet(BytesFrom(CT!Found(t))) /\ CT!FoundBytes(t) = BytesFrom(CT!Found(t))
        /\ nUnique + nDuplicates = Cardinality({k \in CT!FilesOf(t) : ContentHash[t[k]] # 0})
        /\ nUnique = Cardinality(CT!HashesOf(t))
    BY <1>1, <2>1, <2>2 DEF UniqueTo, UniqueIn
  <2>4. PICK S \in SUBSET CT!Found(t) :
          HashesFrom(S) = hashSets["A"] /\ nBytesUnique = Cardinality(BytesFrom(S))
    BY <1>1, <2>1 DEF UniqueTo, UniqueIn
  <2>5. nBytesUnique <= Cardinality(CT!FoundBytes(t))
    <3> DEFINE X == BytesFrom(S)
               Y == BytesFrom(CT!Found(t))
    <3>1. IsFiniteSet(Y) /\ X \in SUBSET Y
      BY <2>3, <2>4 DEF BytesFrom
    <3> HIDE DEF X, Y
    <3>2. Cardinality(X) <= Cardinality(Y)
      BY <3>1, FS_Subset
    <3> QED BY <2>3, <2>4, <3>2 DEF X, Y
  <2>6. CT!Distinct(t) => nBytesUnique = Cardinality(CT!FoundBytes(t))
    <3> SUFFICES ASSUME CT!Distinct(t)  PROVE S = CT!Found(t)
      BY <2>3, <2>4
    <3> SUFFICES ASSUME NEW c \in CT!Found(t)  PROVE c \in S
      BY <2>4
    <3>1. ContentHash[c] \in HashesFrom(S)
      BY <2>2, <2>4 DEF CT!HashesOf
    <3>2. PICK d \in S : ContentHash[d] = ContentHash[c]
      BY <3>1 DEF HashesFrom
    <3> QED BY <2>4, <3>2 DEF CT!Distinct
  <2> QED BY <2>2, <2>3, <2>5, <2>6
<1> QED BY <1>3, <1>4, SameFiniteCT DEF CT!TreesTrue

--------------------------------------------------------------------------------
(* All of them side by side                                                *)

\* Each tool keeps its invariant, and the others do not disturb it.
ToolsInv ==
  /\ CopyTool => CopyInv
  /\ CompareTool => CompareInv
  /\ ShellTool => ShellInv
  /\ program = "fftw" => WalkInv
  /\ PoolTool => PoolInv

\* A step of the tools is a step of the one that runs.
LEMMA StepOfOne ==
  ASSUME [ToolsNext]_toolsVars
  PROVE  /\ program' = program
         /\ CopyTool => [FC!Next]_(FC!vars)
         /\ CompareTool => [CT!Next]_(CT!vars)
         /\ ShellTool => [ST!Next]_(ST!vars)
         /\ program = "fftw" => [FW!Next]_(FW!vars)
         /\ PoolTool => [PT!Next]_(PT!vars)
<1>1. CASE ToolsNext
  <2>1. /\ program' = program
        /\ \/ PoolTool /\ PT!Next
           \/ program = "fftw" /\ FW!Next
           \/ CopyTool /\ FC!Next
           \/ CompareTool /\ CT!Next
           \/ ShellTool /\ ST!Next
    BY <1>1 DEF ToolsNext
  <2> QED BY <2>1 DEF PoolTool, CopyTool, CompareTool, ShellTool
<1>2. CASE UNCHANGED toolsVars
  <2>1. UNCHANGED <<program, poolVars, fftwVars, copyVars, compareVars, shellVars>>
    BY <1>2 DEF toolsVars
  <2>2. UNCHANGED FC!vars
    BY <2>1 DEF FC!vars, FC!files, copyVars
  <2>3. UNCHANGED ST!vars
    BY <2>1 DEF ST!vars, shellVars
  <2>4. UNCHANGED FW!vars
    BY <2>1 DEF FW!vars, FW!tree, FW!walk, fftwVars
  <2>5. UNCHANGED PT!vars
    BY <2>1 DEF PT!vars, PT!walks, PT!disk, poolVars
  <2>6. UNCHANGED CT!vars
    BY <2>1 DEF CT!vars, CT!input, CT!run, CT!counts, CT!unique, compareVars
  <2> QED BY <2>1, <2>2, <2>3, <2>4, <2>5, <2>6
<1> QED BY <1>1, <1>2

\* The invariant that is proved of all the tools: for files, trees and numbers of threads
\* of any size, whatever fails, is killed, or is changed by others.
THEOREM ToolsInvariance == ToolsSpec => []ToolsInv
<1>1. ToolsInit => ToolsInv
  <2> SUFFICES ASSUME ToolsInit  PROVE ToolsInv
    OBVIOUS
  <2>1. /\ PT!Init => PoolTool
        /\ FC!Init => CopyTool
        /\ CT!Init => CompareTool
        /\ ST!Init => ShellTool
    BY DEF PT!Init, FC!Init, CT!Init, ST!Init, PoolTool, CopyTool, CompareTool, ShellTool
  <2>2. CASE PT!Init
    BY <2>1, <2>2, PoolInit, ToolsAssumption DEF ToolsInv, PoolTool, CopyTool, CompareTool, ShellTool
  <2>3. CASE program = "fftw" /\ FW!Init
    BY <2>3, WalkInit, ToolsAssumption DEF ToolsInv, PoolTool, CopyTool, CompareTool, ShellTool
  <2>4. CASE FC!Init
    BY <2>1, <2>4, CopyInit, ToolsAssumption DEF ToolsInv, PoolTool, CopyTool, CompareTool, ShellTool
  <2>5. CASE ST!Init
    BY <2>1, <2>5, ShellInit, ToolsAssumption DEF ToolsInv, PoolTool, CopyTool, CompareTool, ShellTool
  <2>6. CASE CT!Init
    BY <2>1, <2>6, CompareInit, ToolsAssumption
    DEF ToolsInv, PoolTool, CopyTool, CompareTool, ShellTool
  <2> QED BY <2>2, <2>3, <2>4, <2>5, <2>6 DEF ToolsInit
<1>2. ToolsInv /\ [ToolsNext]_toolsVars => ToolsInv'
  <2> SUFFICES ASSUME ToolsInv, [ToolsNext]_toolsVars  PROVE ToolsInv'
    OBVIOUS
  <2>1. CopyTool => CopyInv'
    BY StepOfOne, CopyInvariance, ToolsAssumption DEF ToolsInv
  <2>2. ShellTool => ShellInv'
    BY StepOfOne, ShellInvariance, ToolsAssumption DEF ToolsInv
  <2>3. program = "fftw" => WalkInv'
    BY StepOfOne, WalkInvariance, ToolsAssumption DEF ToolsInv
  <2>4. PoolTool => PoolInv'
    BY StepOfOne, PoolInvariance, ToolsAssumption DEF ToolsInv
  <2>5. program' = program
    BY StepOfOne
  <2>6. CompareTool => CompareInv'
    BY StepOfOne, CompareInvariance, ToolsAssumption DEF ToolsInv
  <2> QED BY <2>1, <2>2, <2>3, <2>4, <2>5, <2>6
          DEF ToolsInv, PoolTool, CopyTool, CompareTool, ShellTool
<1> QED BY <1>1, <1>2, PTL DEF ToolsSpec

\* However often a copy is cut short: cp_img leaves old bytes or new ones, append and
\* append0 leave what the destination held, and success of cp_img and of append means
\* that the source is there.  Nothing is said of append0's success.
THEOREM CopiesTrue == ToolsSpec => []CopyTrue
<1>1. ToolsInv => CopyTrue
  BY CopiesAreTrue, ToolsAssumption DEF ToolsInv, CopyTrue
<1> QED BY <1>1, ToolsInvariance, PTL

\* One command at a time under a lock, whoever is killed; and when phash returns the
\* command of each argument has been run once.
THEOREM ShellCommandsTrue == ToolsSpec => []CommandsTrue
<1>1. ToolsInv => CommandsTrue
  BY CommandsAreTrue, ToolsAssumption DEF ToolsInv, CommandsTrue
<1> QED BY <1>1, ToolsInvariance, PTL

\* In every tree and whatever changes in it, fn is called once at most for a name; and
\* when fftw returns nothing is outstanding and no name that stayed was missed.
THEOREM WalkCoversTree == ToolsSpec => []WalkCovers
<1>1. ToolsInv => WalkCovers
  BY TreeCovered, ToolsAssumption DEF ToolsInv, WalkCovers
<1> QED BY <1>1, ToolsInvariance, PTL

\* No two of the verified copies of cpcr2 are of one hash or have one name.
THEOREM PoolCopiesDistinct == ToolsSpec => []CopiesDistinct
<1>1. ToolsInv => CopiesDistinct
  BY PoolDistinct, ToolsAssumption DEF ToolsInv, CopiesDistinct, PoolTool
<1> QED BY <1>1, ToolsInvariance, PTL

\* cpcr2 and transactor print what they did: the counts add up, each hash has its copy if
\* no copy failed, and the misses are exactly the candidates that the reference lacks.
THEOREM PoolReportsTrue == ToolsSpec => []ReportsTrue
<1>1. ToolsInv => ReportsTrue
  BY PoolAccounted, PoolMissesTrue, ToolsAssumption DEF ToolsInv, ReportsTrue
<1> QED BY <1>1, ToolsInvariance, PTL

\* What the comparing tools say of any files and trees is so, whatever the uninitialised
\* variable of cmpdir holds and whichever files cannot be read.
THEOREM ComparisonsTrue == ToolsSpec => []ToolsTrue
<1>1. ToolsInv => ToolsTrue
  BY FilesAreTrue, TreesAreTrue, ToolsAssumption DEF ToolsInv, ToolsTrue, CT!ToolsTrue
<1> QED BY <1>1, ToolsInvariance, PTL
================================================================================
