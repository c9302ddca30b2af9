--------------------------------- MODULE CpHash ---------------------------------
(***************************************************************************)
(* The copying deduplicators cphash.cc and cpex.cc: both hash a reference  *)
(* tree, then walk a source tree and copy the files whose contents are not *)
(* known yet.  For cphash the reference is the destination itself, and the *)
(* content of what it copies becomes known; for cpex it is a third tree.   *)
(*                                                                         *)
(* Each read of a file is a step of its own: the source may be written to  *)
(* meanwhile.  A run may be killed at any step, or fail, and is then made  *)
(* again on what it left.  Directories are left out: the walk visits the   *)
(* files of a tree in any order, and a file is created at the path it has  *)
(* in the source.                                                          *)
(***************************************************************************)
EXTENDS FiniteSets, Integers

CONSTANTS
  Paths,         (* paths of files, relative to the root of a tree          *)
  Contents,      (* contents of files that are not empty                    *)
  Empty, NoFile, (* the content of an empty file; no file at a path         *)
  Md5, Fnv,      (* the hashes of a content                                 *)
  Trees,         (* the trees to start from                                 *)
  MaxRuns, MaxChanges  (* bounds: runs, and writes of others to the source  *)

\* A content of which only the first bytes were written.
Prefix(x) == <<x>>
Files     == Contents \cup {Empty} \cup {Prefix(x) : x \in Contents}

ASSUME CpHashAssumption ==
  /\ IsFiniteSet(Paths)
  /\ NoFile \notin Files /\ Empty \notin Contents
  /\ \A x \in Contents : Prefix(x) \notin Contents \cup {Empty}
  /\ Md5 \in [Contents -> Contents] /\ Fnv \in [Contents -> Contents]
  /\ Trees \subseteq [Paths -> Contents \cup {Empty, NoFile}]
  /\ MaxRuns \in Nat \ {0} /\ MaxChanges \in Nat

VARIABLES
  tool,       (* which program it is                                        *)
  src, ref,   (* the source, and the third tree of cpex                     *)
  dst,        (* the destination                                            *)
  pc,         (* where the program is                                       *)
  todo,       (* the files the walk has not visited                         *)
  cur, s,     (* the path of the callback, and the hash it made of the file *)
  hashes,     (* ref_hashes of cphash, dstA_hashes of cpex                  *)
  fnvs,       (* ref_hashes_fnv, dstA_hashes_fnv                            *)
  count,      (* the counters that are printed                              *)
  runs, changes, (* how often the program was started, the source written to *)
  found,      (* history: per path, the content that md5sum saw in this run *)
  before      (* history: dst when this run was started                     *)

trees   == <<src, ref, dst>>
tables  == <<hashes, fnvs, count>>
history == <<found, before>>
vars    == <<tool, trees, pc, todo, cur, s, tables, runs, changes, history>>

NoCounts == [nFiles |-> 0, nDuplicates |-> 0, nUnique |-> 0, nDisaster |-> 0]

Present(t)   == {p \in Paths : t[p] # NoFile}
\* The tree that is hashed first, and the hashes of a file.
Reference    == IF tool = "cphash" THEN dst ELSE ref
md5sum(x)    == IF x \in Contents THEN Md5[x] ELSE x
fnvpath(x)   == IF x \in Contents THEN Fnv[x] ELSE x

\* The callbacks skip empty files.
Skipped(x)     == x = Empty

RememberedNot(x) == {}
\* Only cphash adds the hashes of what it copies to what is known.
Remembered(x)    == IF tool = "cphash" THEN {x} ELSE {}

CollidesNever == FALSE
\* An MD5 that is known with a second hash that is not.
Collides      == fnvpath(src[cur]) \notin fnvs

RefusedNever == FALSE
\* O_EXCL: a file that exists is not opened.
Refused      == dst[cur] # NoFile

WalkGoesOn == "walk"
\* A callback that returns -1 ends the walk.
WalkEnds   == "failed"

Init ==
  /\ tool \in {"cphash", "cpex"}
  /\ src \in Trees /\ ref \in Trees /\ dst \in Trees
  /\ tool = "cphash" => ref = dst
  /\ pc = "prefill" /\ todo = Present(Reference)
  /\ cur = NoFile /\ s = NoFile
  /\ hashes = {} /\ fnvs = {} /\ count = NoCounts
  /\ runs = 1 /\ changes = 0
  /\ found = [p \in Paths |-> NoFile] /\ before = dst

--------------------------------------------------------------------------------
(* The first walk: prefill                                                 *)
prefillMd5Only(p) ==
  /\ pc = "prefill" /\ p \in todo
  /\ todo' = todo \ {p}
  /\ IF Skipped(Reference[p])
     THEN UNCHANGED <<hashes, fnvs>>
     ELSE /\ hashes' = hashes \cup {md5sum(Reference[p])}
          /\ fnvs' = fnvs
  /\ UNCHANGED <<tool, trees, pc, cur, s, count, runs, changes, history>>

prefill(p) ==
  /\ pc = "prefill" /\ p \in todo
  /\ todo' = todo \ {p}
  /\ IF Skipped(Reference[p])
     THEN UNCHANGED <<hashes, fnvs>>
     ELSE /\ hashes' = hashes \cup {md5sum(Reference[p])}
          /\ fnvs' = fnvs \cup {fnvpath(Reference[p])}
  /\ UNCHANGED <<tool, trees, pc, cur, s, count, runs, changes, history>>

Prefilled ==
  /\ pc = "prefill" /\ todo = {}
  /\ pc' = "walk" /\ todo' = Present(src)
  /\ UNCHANGED <<tool, trees, cur, s, tables, runs, changes, history>>

--------------------------------------------------------------------------------
(* The second walk: cb, with copy                                          *)
\* The callback of path p hashes the file and looks it up.
Hash(p) ==
  /\ pc = "walk" /\ p \in todo
  /\ todo' = todo \ {p}
  /\ IF Skipped(src[p])
     THEN UNCHANGED <<pc, cur, s, hashes, count, found>>
     ELSE /\ cur' = p /\ s' = md5sum(src[p])
          /\ found' = [found EXCEPT ![p] = src[p]]
          /\ count' = [count EXCEPT !.nFiles = @ + 1]
          /\ IF s' \in hashes
             THEN pc' = "known" /\ hashes' = hashes
             ELSE /\ pc' = "unique"
                  /\ hashes' = hashes \cup Remembered(s')
  /\ UNCHANGED <<tool, trees, fnvs, runs, changes, before>>

\* A known MD5 is a duplicate if the second hash is known too, else a collision, at
\* which the walk ends.
Known ==
  /\ pc = "known"
  /\ IF Collides
     THEN pc' = "failed" /\ count' = [count EXCEPT !.nDisaster = @ + 1]
     ELSE pc' = "walk" /\ count' = [count EXCEPT !.nDuplicates = @ + 1]
  /\ UNCHANGED <<tool, trees, todo, cur, s, hashes, fnvs, runs, changes, history>>

\* The second hash of a unique file is stored; the file is counted as copied, now.
Unique ==
  /\ pc = "unique"
  /\ fnvs' = fnvs \cup Remembered(fnvpath(src[cur]))
  /\ count' = [count EXCEPT !.nUnique = @ + 1]
  /\ pc' = "create"
  /\ UNCHANGED <<tool, trees, todo, cur, s, hashes, runs, changes, history>>

\* copy: the destination file is created, which fails if there is one.
Create ==
  /\ pc = "create"
  /\ IF Refused
     THEN pc' = WalkEnds /\ dst' = dst
     ELSE pc' = "write" /\ dst' = [dst EXCEPT ![cur] = Empty]
  /\ UNCHANGED <<tool, src, ref, todo, cur, s, tables, runs, changes, history>>

\* One pwrite, which may write less than it was asked to (from 2 GiB on it always does).
Write ==
  /\ pc = "write"
  /\ \/ /\ dst' = [dst EXCEPT ![cur] = src[cur]]
        /\ pc' = "verify"
     \/ /\ \E x \in {Empty, Prefix(src[cur])} : dst' = [dst EXCEPT ![cur] = x]
        /\ pc' = WalkEnds
  /\ UNCHANGED <<tool, src, ref, todo, cur, s, tables, runs, changes, history>>

\* fsync, and the hash of what was written against that of what was looked up.
Verify ==
  /\ pc = "verify"
  /\ pc' = IF md5sum(dst[cur]) = s THEN "walk" ELSE WalkEnds
  /\ UNCHANGED <<tool, trees, todo, cur, s, tables, runs, changes, history>>

\* copy cannot open or map the source.
CopyFails ==
  /\ pc = "create"
  /\ pc' = WalkEnds
  /\ UNCHANGED <<tool, trees, todo, cur, s, tables, runs, changes, history>>

Finish ==
  /\ pc = "walk" /\ todo = {}
  /\ pc' = "done"
  /\ UNCHANGED <<tool, trees, todo, cur, s, tables, runs, changes, history>>

--------------------------------------------------------------------------------
(* The world around it                                                     *)
\* The program is started once more.  If it was killed before fsync, or the machine
\* was, what it was writing may be lost.
Restart ==
  /\ runs < MaxRuns /\ runs' = runs + 1
  /\ \/ dst' = dst
     \/ pc = "verify" /\ \E x \in {Empty, Prefix(dst[cur])} : dst' = [dst EXCEPT ![cur] = x]
  /\ pc' = "prefill"
  /\ todo' = Present(IF tool = "cphash" THEN dst' ELSE ref)
  /\ cur' = NoFile /\ s' = NoFile
  /\ hashes' = {} /\ fnvs' = {} /\ count' = NoCounts
  /\ found' = [p \in Paths |-> NoFile] /\ before' = dst'
  /\ UNCHANGED <<tool, src, ref, changes>>

\* Somebody writes to a file of the source, which keeps its size
\* but not its MD5.
Change(p) ==
  /\ changes < MaxChanges /\ changes' = changes + 1
  /\ src[p] \in Contents
  /\ \E x \in Contents : md5sum(x) # md5sum(src[p]) /\ src' = [src EXCEPT ![p] = x]
  /\ UNCHANGED <<tool, ref, dst, pc, todo, cur, s, tables, runs, history>>

cb  == \/ \E p \in Paths : Hash(p)
       \/ Known \/ Unique \/ Create \/ Write \/ Verify \/ CopyFails
Run == \/ \E p \in Paths : prefill(p)
       \/ Prefilled \/ cb \/ Finish

Next == Run \/ Restart \/ \E p \in Paths : Change(p)

Spec == Init /\ [][Next]_vars

--------------------------------------------------------------------------------
\* The types of all variables.
TypeOK ==
  /\ tool \in {"cphash", "cpex"}
  /\ src \in [Paths -> Contents \cup {Empty, NoFile}]
  /\ ref \in [Paths -> Contents \cup {Empty, NoFile}]
  /\ dst \in [Paths -> Files \cup {NoFile}]
  /\ pc \in {"prefill", "walk", "known", "unique", "create", "write", "verify", "done", "failed"}
  /\ todo \subseteq Paths /\ cur \in Paths \cup {NoFile}
  /\ s \in Files \cup {NoFile}
  /\ hashes \subseteq Files /\ fnvs \subseteq Files
  /\ count \in [DOMAIN NoCounts -> 0 .. Cardinality(Paths)]
  /\ runs \in 1 .. MaxRuns /\ changes \in 0 .. MaxChanges
  /\ found \in [Paths -> Contents \cup {NoFile}]
  /\ before \in [Paths -> Files \cup {NoFile}]

\* The files this run has made.
New == {p \in Paths : dst[p] # before[p]}

\* A run never touches a file that was in the destination when it began, not even one
\* that an earlier run left incomplete.
NothingOverwritten == \A p \in New : before[p] = NoFile

\* A run that ends well has visited every file of the source that is not empty, and
\* what it hashed is stored: the very content if nobody writes to the source, a content
\* of the same MD5 even so.  MD5 collisions do not make it skip a file.
EverythingStored ==
  pc = "done" =>
    \A p \in Paths : src[p] \in Contents =>
      /\ found[p] # NoFile
      /\ \E q \in Paths, t \in {dst, Reference} :
           /\ md5sum(t[q]) = md5sum(found[p])
           /\ changes = 0 => t[q] = found[p]

\* No verified copy has a content that is also elsewhere in the tree it is compared to:
\* the destination for cphash, however often it was killed, the third tree for cpex.
StoredOnce ==
  pc \in {"walk", "done"} =>
    \A p \in New, q \in Paths : p # q \/ tool = "cpex" => Reference[q] # dst[p]

\* What a run that ends well prints is what it did.
ReportTrue ==
  pc = "done" =>
    /\ count.nUnique = Cardinality(New)
    /\ count.nFiles = count.nDuplicates + count.nUnique
    /\ count.nDisaster = 0

\* cphash run again on a destination that holds everything copies nothing and ends
\* well, whatever an earlier run left beside it.
RerunIsHarmless ==
  tool = "cphash" /\ changes = 0
  /\ (\A p \in Paths : src[p] \in Contents => \E q \in Paths : before[q] = src[p])
  => New = {} /\ count.nUnique = 0 /\ pc # "failed"
================================================================================
