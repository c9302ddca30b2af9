------------------------------- MODULE PoolTools -------------------------------
(***************************************************************************)
(* Two tools whose callbacks run on the pool of WorkQueue:                 *)
(*                                                                         *)
(*   cpcr2       copies every CR2 file of the source that is unique, and   *)
(*               its JPG partner, with copy_file_hash and copy_file (cp.c) *)
(*   transactor  hashes a reference tree, then looks up the files of the   *)
(*               candidate directories in it, an item for each directory,  *)
(*               and prints the misses                                     *)
(*                                                                         *)
(* The pool is taken for what WorkQueue shows of it: an item submitted is  *)
(* run, at any time and beside any other, and bwait returns when no item   *)
(* of the barrier is outstanding, those that callbacks submit included.    *)
(* Files can be read and are not empty (md5sum gives NULL for another and  *)
(* the callbacks do not look).  The REF_DB part of transactor is left out. *)
(***************************************************************************)
EXTENDS FiniteSets, Integers

CONSTANTS
  Cr2Files,         (* files that the walk of cpcr2 does not filter out        *)
  RefFiles,         (* files of the reference                                  *)
  Dirs, FilesOf,    (* candidate directories, and the files below each         *)
  Small,            (* files below 262144 bytes, which are hashed by the walk  *)
  Contents, NoFile, Md5,
  Name,             (* the name of a file, without its directory               *)
  HasJpg,           (* files of cpcr2 beside which there is a JPG              *)
  MaxChanges        (* bound: writes of others to the files                    *)

CandFiles == UNION {FilesOf[d] : d \in Dirs}
Files     == Cr2Files \cup RefFiles \cup CandFiles
Partial   == <<"allocated">>    \* a file that was created and not yet filled

PoolToolsAssumption ==
  /\ IsFiniteSet(Files) /\ IsFiniteSet(Dirs) /\ "main" \notin Dirs
  /\ Cr2Files \cap (RefFiles \cup CandFiles) = {} /\ RefFiles \cap CandFiles = {}
  /\ \A d, e \in Dirs : d # e => FilesOf[d] \cap FilesOf[e] = {}
  /\ NoFile \notin Contents \cup Files /\ Partial \notin Contents
  /\ Md5 \in [Contents -> Contents]
  /\ DOMAIN Name = Cr2Files /\ HasJpg \subseteq Cr2Files
  /\ MaxChanges \in Nat

VARIABLES
  tool,     (* which program it is                                             *)
  main,     (* where its main is                                               *)
  todo,     (* per walk, that of main or of a directory: the files not visited *)
  inline,   (* per walk, the file it is hashing itself                         *)
  dirAt,    (* per directory: "idle", "queued", "walk", "done"                 *)
  at,       (* per file: where its callback is                                 *)
  content,  (* per file that the program may read: what it contains now        *)
  hval,     (* per file: the hash its callback made of it                      *)
  set,      (* md5set, ref_set                                                 *)
  freed,    (* the hashes in md5set whose string was freed                     *)
  nextSeq,
  dst,      (* the CR2 files at the destination: their content, by name and number *)
  seq,      (* per file: the number it was given                               *)
  copied,   (* history: files whose copy was verified                          *)
  count,    (* the counters that are printed                                   *)
  changes

walks == <<main, todo, inline, dirAt>>
disk  == <<nextSeq, dst, seq, copied>>
vars  == <<tool, walks, at, content, hval, set, freed, disk, count, changes>>

Walkers  == {"main"} \cup Dirs
Places   == {Name[f] : f \in Cr2Files} \X (0 .. Cardinality(Cr2Files))
NoCounts == [nFiles |-> 0, nUnique |-> 0, nDuplicate |-> 0, nCR2Err |-> 0, nJPGErr |-> 0,
             nRecords |-> 0, nMisses |-> 0]

\* An earlier run may have left files at the destination: nextSeq starts at 0 again.
Init ==
  /\ tool \in {"cpcr2", "transactor"}
  /\ main = "walk"
  /\ todo = [w \in Walkers |-> IF w # "main" THEN FilesOf[w]
                               ELSE IF tool = "cpcr2" THEN Cr2Files ELSE RefFiles]
  /\ inline = [w \in Walkers |-> NoFile]
  /\ dirAt = [d \in Dirs |-> "idle"]
  /\ at = [f \in Files |-> "unseen"]
  /\ content \in [IF tool = "cpcr2" THEN Cr2Files ELSE RefFiles \cup CandFiles -> Contents]
  /\ hval = [f \in Files |-> NoFile] /\ seq = [f \in Files |-> 0]
  /\ set = {} /\ freed = {} /\ nextSeq = 0 /\ copied = {}
  /\ \E earlier \in SUBSET {p \in Places : p[2] = 0} :
       dst = [p \in earlier |-> Partial]
  /\ count = NoCounts /\ changes = 0

--------------------------------------------------------------------------------
(* Walks: processfile, process_ref_dir, process_candidate_dir              *)
Walking(w) ==
  /\ IF w = "main" THEN main = "walk" ELSE dirAt[w] = "walk"
  /\ inline[w] = NoFile

\* A file is counted, and hashed by an item of its own, or by the walk if it is small.
Visit(w, f) ==
  /\ Walking(w) /\ f \in todo[w]
  /\ todo' = [todo EXCEPT ![w] = @ \ {f}]
  /\ count' = IF w = "main" THEN [count EXCEPT !.nFiles = @ + 1]
              ELSE [count EXCEPT !.nRecords = @ + 1]
  /\ at' = [at EXCEPT ![f] = "md5"]
  /\ inline' = IF tool = "transactor" /\ f \in Small THEN [inline EXCEPT ![w] = f] ELSE inline
  /\ UNCHANGED <<tool, main, dirAt, content, hval, set, freed, disk, changes>>

\* The callback is at its end, and so is the walk if it ran it.
Returns(f) == inline' = [w \in Walkers |-> IF inline[w] = f THEN NoFile ELSE inline[w]]

DirStarts(d) ==
  /\ dirAt[d] = "queued" /\ dirAt' = [dirAt EXCEPT ![d] = "walk"]
  /\ UNCHANGED <<tool, main, todo, inline, at, content, hval, set, freed, disk, count, changes>>

DirEnds(d) ==
  /\ Walking(d) /\ todo[d] = {} /\ dirAt' = [dirAt EXCEPT ![d] = "done"]
  /\ UNCHANGED <<tool, main, todo, inline, at, content, hval, set, freed, disk, count, changes>>

WaitedForNone == TRUE
\* bwait returns: no item is outstanding.
WaitedFor ==
  /\ \A d \in Dirs : dirAt[d] \in {"idle", "done"}
  /\ \A f \in Files : at[f] \in {"unseen", "done", "missed"}

\* The first walk is over and main waits for its items.  The main of cpcr2 ends;
\* that of transactor submits the directories.
Bwait ==
  /\ Walking("main") /\ todo["main"] = {} /\ WaitedFor
  /\ main' = IF tool = "cpcr2" THEN "done" ELSE "dirs"
  /\ UNCHANGED <<tool, todo, inline, dirAt, at, content, hval, set, freed, disk, count, changes>>

SubmitDir(d) ==
  /\ main = "dirs" /\ dirAt[d] = "idle"
  /\ dirAt' = [dirAt EXCEPT ![d] = "queued"]
  /\ UNCHANGED <<tool, main, todo, inline, at, content, hval, set, freed, disk, count, changes>>

BwaitDirs ==
  /\ main = "dirs" /\ (\A d \in Dirs : dirAt[d] # "idle") /\ WaitedFor
  /\ main' = "done"
  /\ UNCHANGED <<tool, todo, inline, dirAt, at, content, hval, set, freed, disk, count, changes>>

--------------------------------------------------------------------------------
(* The callback of a file                                                  *)
md5sum(f) ==
  /\ at[f] = "md5" /\ at' = [at EXCEPT ![f] = "lookup"]
  /\ hval' = [hval EXCEPT ![f] = Md5[content[f]]]
  /\ UNCHANGED <<tool, walks, content, set, freed, disk, count, changes>>

\* What find may answer: a string that was freed may compare as anything.
Found(h) == IF h \notin set THEN {FALSE} ELSE IF h \in freed THEN BOOLEAN ELSE {TRUE}

InsertedNever(h) == set
Inserted(h)      == set \cup {h}

\* Under the mutex, and for a duplicate to the end of the callback.
Lookup(f) ==
  /\ at[f] = "lookup" /\ f \notin CandFiles
  /\ \E found \in Found(hval[f]) :
       IF found
       THEN /\ count' = [count EXCEPT !.nDuplicate = @ + 1]
            /\ at' = [at EXCEPT ![f] = "done"] /\ Returns(f)
            /\ UNCHANGED <<set, freed>>
       ELSE /\ set' = Inserted(hval[f]) /\ freed' = freed \ {hval[f]}
            /\ count' = [count EXCEPT !.nUnique = @ + 1]
            /\ IF tool = "cpcr2"
               THEN at' = [at EXCEPT ![f] = "create"] /\ UNCHANGED inline
               ELSE at' = [at EXCEPT ![f] = "done"] /\ Returns(f)
  /\ UNCHANGED <<tool, main, todo, dirAt, content, hval, disk, changes>>

\* Without the mutex: nobody inserts any more.
LookupCandidate(f) ==
  /\ at[f] = "lookup" /\ f \in CandFiles
  /\ IF hval[f] \in set
     THEN at' = [at EXCEPT ![f] = "done"] /\ UNCHANGED count
     ELSE /\ at' = [at EXCEPT ![f] = "missed"]
          /\ count' = [count EXCEPT !.nMisses = @ + 1]
  /\ Returns(f)
  /\ UNCHANGED <<tool, main, todo, dirAt, content, hval, set, freed, disk, changes>>

--------------------------------------------------------------------------------
(* copy_file_hash, and copy_file for the partner                           *)
Place(f) == <<Name[f], seq[f]>>
CR2Err   == [count EXCEPT !.nCR2Err = @ + 1]

\* The file gets its number, and is created unless there is one of that name.
Create(f) ==
  /\ at[f] = "create"
  /\ seq' = [seq EXCEPT ![f] = nextSeq] /\ nextSeq' = nextSeq + 1
  /\ LET p == <<Name[f], nextSeq>>
     IN  \/ /\ p \notin DOMAIN dst
            /\ dst' = [q \in DOMAIN dst \cup {p} |-> IF q = p THEN Partial ELSE dst[q]]
            /\ at' = [at EXCEPT ![f] = "write"] /\ UNCHANGED count
         \/ \* it exists, or the source cannot be opened
            /\ at' = [at EXCEPT ![f] = "jpg"] /\ count' = CR2Err /\ UNCHANGED dst
  /\ UNCHANGED <<tool, walks, content, hval, set, freed, copied, changes>>

Write(f) ==
  /\ at[f] = "write"
  /\ \/ /\ dst' = [dst EXCEPT ![Place(f)] = content[f]]
        /\ at' = [at EXCEPT ![f] = "verify"] /\ UNCHANGED count
     \/ \* fstat or mmap fails, with the file left behind
        /\ at' = [at EXCEPT ![f] = "jpg"] /\ count' = CR2Err /\ UNCHANGED dst
  /\ UNCHANGED <<tool, walks, content, hval, set, freed, nextSeq, seq, copied, changes>>

Verified(f) == Md5[dst[Place(f)]] = hval[f]

\* The hash of the copy.  Where it differs, copy_file_hash frees the string it was
\* given, which md5set holds.
Verify(f) ==
  /\ at[f] = "verify" /\ at' = [at EXCEPT ![f] = "jpg"]
  /\ IF Verified(f)
     THEN copied' = copied \cup {f} /\ UNCHANGED <<freed, count>>
     ELSE freed' = freed \cup {hval[f]} /\ count' = CR2Err /\ UNCHANGED copied
  /\ UNCHANGED <<tool, walks, content, hval, set, nextSeq, dst, seq, changes>>

\* The JPG is copied, by the number of the CR2, even if the CR2 was not.
CopyJpg(f) ==
  /\ at[f] = "jpg" /\ at' = [at EXCEPT ![f] = "done"]
  /\ \/ f \in HasJpg /\ UNCHANGED count
     \/ count' = [count EXCEPT !.nJPGErr = @ + 1]
  /\ UNCHANGED <<tool, walks, content, hval, set, freed, disk, changes>>

--------------------------------------------------------------------------------
\* Somebody writes to a file, while the program may still read it.
Change(f) ==
  /\ changes < MaxChanges /\ changes' = changes + 1
  /\ f \in DOMAIN content /\ at[f] \notin {"jpg", "done", "missed"}
  /\ \E x \in Contents \ {content[f]} : content' = [content EXCEPT ![f] = x]
  /\ UNCHANGED <<tool, walks, at, hval, set, freed, disk, count>>

callback(f) == \/ md5sum(f) \/ Lookup(f) \/ LookupCandidate(f)
               \/ Create(f) \/ Write(f) \/ Verify(f) \/ CopyJpg(f)
Main == Bwait \/ BwaitDirs \/ \E d \in Dirs : SubmitDir(d)

Next == \/ Main
        \/ \E d \in Dirs : DirStarts(d) \/ DirEnds(d)
        \/ \E w \in Walkers, f \in Files : Visit(w, f)
        \/ \E f \in Files : callback(f) \/ Change(f)

Spec == Init /\ [][Next]_vars

--------------------------------------------------------------------------------
\* However the callbacks interleave, no two verified copies are of one hash: not
\* those that looked it up at the same time, nor those after a copy that failed and
\* freed the string of the hash.
CopiesDistinct ==
  \A f, g \in copied : f # g => hval[f] # hval[g] /\ Place(f) # Place(g)

\* When cpcr2 ends, what it prints adds up, and if no copy failed every file it has
\* met has a copy of its hash at the destination.
Accounted ==
  tool = "cpcr2" /\ main = "done" =>
    /\ count.nFiles = count.nUnique + count.nDuplicate
    /\ count.nUnique = Cardinality(copied) + count.nCR2Err
    /\ count.nCR2Err = 0 =>
         \A f \in Cr2Files : \E g \in copied :
           hval[g] = hval[f] /\ Md5[dst[Place(g)]] = hval[f]

\* transactor prints a candidate if and only if the reference has no file of its hash,
\* the misses it counts are those it prints, and it has visited every file.
MissesTrue ==
  LET known == {hval[f] : f \in RefFiles}
      missed == {f \in CandFiles : at[f] = "missed"}
  IN  /\ \A f \in missed : hval[f] \notin known /\ \A r \in RefFiles : at[r] = "done"
      /\ tool = "transactor" /\ main = "done" =>
           /\ missed = {f \in CandFiles : hval[f] \notin known}
           /\ count.nMisses = Cardinality(missed)
           /\ count.nRecords = Cardinality(CandFiles)
           /\ count.nFiles = Cardinality(set) + count.nDuplicate
================================================================================
