--------------------------------- MODULE HashDb ---------------------------------
(***************************************************************************)
(* The hash databases: programs that are run one after the other on the    *)
(* same stores, each of which maps keys to hashes.                         *)
(*                                                                         *)
(*   ftwdb2, ftwdb2_fnv, ftwdb_bdb   the files of a tree, by path          *)
(*   ftwdb2log                       their hashes alone, as lines of a log *)
(*   log2leveldb                     the lines of the log, by number       *)
(*   dbmerge                         one store into another                *)
(*   dbtransactor                    is every hash of a store in another?  *)
(*   leveldb_to_bdb, bdb_to_leveldb  one kind of store into the other      *)
(*                                                                         *)
(* LevelDB and Berkeley DB are external: maps that are iterated in the     *)
(* order of their keys, and of whose unsynced writes a crash may lose      *)
(* some, for LevelDB the last ones.  The log is a file that ftwdb2log      *)
(* syncs at its end alone.                                                 *)
(***************************************************************************)
EXTENDS FiniteSets, Integers, Sequences

CONSTANTS
  Paths, MaxPath, Contents, NoFile,
  Hash,                           (* md5sum and xhash of a content             *)
  Trees, Maps, Logs,              (* trees, stores and logs to start from      *)
  MaxRuns, MaxChanges, MaxErrors  (* bounds: programs run, files changed, and  *)
                                  (* crashes and calls that fail               *)

Hashes   == {Hash[x] : x \in Contents}
LevelDBs == {"A", "B"}
Stores   == LevelDBs \cup {"bdb"}

\* A line is written in three parts: the halves of the hash, and the newline.
NL         == <<"nl">>
Halves(h)  == <<<<h, 1>>, <<h, 2>>>>
Line(h)    == Append(Halves(h), NL)
\* The i-th line of t is that of h.
IsLine(t, i, h) == \A j \in 1 .. 3 : t[3 * (i - 1) + j] = Line(h)[j]
\* What the value of a line is: a hash, if it has the halves of one.
Decoded(t) == IF \E h \in Hashes : t = Halves(h) THEN CHOOSE h \in Hashes : t = Halves(h) ELSE t
LinesOf(t) == {k \in 1 .. Len(t) : t[k] = NL}
Parts      == {NL} \cup (Hashes \X {1, 2})
\* All of t is lines of hashes.
Whole(t)   == /\ Len(t) = 3 * (Len(t) \div 3)
              /\ \A i \in 1 .. Len(t) \div 3 : \E h \in Hashes : IsLine(t, i, h)

ASSUME HashDbAssumption ==
  /\ MaxPath \in Nat /\ Paths \subseteq 1 .. MaxPath
  /\ NoFile \notin Contents /\ Hash \in [Contents -> Hashes]
  /\ Trees \subseteq [Paths -> Contents \cup {NoFile}]
  /\ \A t \in Maps : DOMAIN t \subseteq Paths /\ \A p \in DOMAIN t : t[p] \in Hashes
  /\ \A t \in Logs : t \in Seq(Parts) /\ Whole(t)
  /\ MaxRuns \in Nat /\ MaxChanges \in Nat /\ MaxErrors \in Nat

Programs ==
  {[name |-> "ftwdb", src |-> "tree", dst |-> s] : s \in Stores} \cup
  {[name |-> "ftwdb2log", src |-> "tree", dst |-> "log"],
   [name |-> "log2leveldb", src |-> "log", dst |-> "A"],
   [name |-> "dbmerge", src |-> "B", dst |-> "A"],
   [name |-> "dbtransactor", src |-> "B", dst |-> "A"],  \* A is the reference
   [name |-> "leveldb_to_bdb", src |-> "A", dst |-> "bdb"],
   [name |-> "bdb_to_leveldb", src |-> "bdb", dst |-> "B"]}

VARIABLES
  files,     (* the tree; NoFile stands for an empty file too                   *)
  db, log,   (* the stores, and the log                                         *)
  prog, pc,  (* the program, and its loop: "ref", "loop", or "idle" if it ended *)
  ended,     (* how: "ok", "error" or "aborted"                                 *)
  todo,      (* the files, or the keys, the loop has not come to                *)
  bad,       (* the status of the iterator                                      *)
  off,       (* the offset in the log                                           *)
  refs,      (* ref_hashes                                                      *)
  count,     (* the counters that are printed                                   *)
  missed,    (* the keys that dbtransactor prints                               *)
  runs, changes, errors,
  start,     (* history: the stores when the program was started                *)
  logStart,  (* history: the log then                                           *)
  puts,      (* history: the keys it has put, in order                          *)
  found,     (* history: the hashes its walk has made                           *)
  lost       (* history: an iterator has passed over a key it could not read,   *)
             (* or a line of the log was not written in full                    *)

loop    == <<pc, ended, todo, bad, off>>
output  == <<refs, count, missed>>
history == <<start, logStart, puts, found, lost>>
bounds  == <<runs, changes, errors>>
vars    == <<files, db, log, prog, loop, output, bounds, history>>

NoCounts == [nFiles |-> 0, seq |-> 0, nRecordsSrc |-> 0, nRecordsMerged |-> 0,
             nRefFiles |-> 0, nDuplicates |-> 0, nMisses |-> 0]
NoMap    == [p \in {} |-> NoFile]

Init ==
  /\ files \in Trees /\ db \in [Stores -> Maps] /\ log \in Logs
  /\ prog = [name |-> "none", src |-> "none", dst |-> "none"]
  /\ pc = "idle" /\ ended = "ok" /\ todo = {} /\ bad = FALSE /\ off = 0
  /\ refs = {} /\ count = NoCounts /\ missed = {}
  /\ runs = 0 /\ changes = 0 /\ errors = 0
  /\ start = db /\ logStart = log /\ puts = <<>> /\ found = NoMap /\ lost = FALSE

--------------------------------------------------------------------------------
\* The hash of the file, by md5sum or by xhash; 32 or 16 digits of it.
md5sum(f)       == Hash[files[f]]
Least(S)        == CHOOSE k \in S : \A j \in S : k <= j
With(t, k, v)   == [x \in DOMAIN t \cup {k} |-> IF x = k THEN v ELSE t[x]]
Counted(c)      == [count EXCEPT ![c] = @ + 1]
Runs(names)     == pc = "loop" /\ prog.name \in names
Ends(how)       == pc' = "idle" /\ ended' = how
Stays           == pc' = pc /\ ended' = ended

Start(p) ==
  /\ pc = "idle" /\ runs < MaxRuns /\ runs' = runs + 1
  /\ prog' = p /\ ended' = "ok" /\ pc' = IF p.name = "dbtransactor" THEN "ref" ELSE "loop"
  /\ todo' = CASE p.src = "tree" -> {q \in Paths : files[q] # NoFile}
               [] p.src = "log" -> {}
               [] p.name = "dbtransactor" -> DOMAIN db["A"]
               [] OTHER -> DOMAIN db[p.src]
  /\ bad' = FALSE /\ off' = 0 /\ refs' = {} /\ count' = NoCounts /\ missed' = {}
  /\ start' = db /\ logStart' = log /\ puts' = <<>> /\ found' = NoMap /\ lost' = FALSE
  /\ UNCHANGED <<files, db, log, changes, errors>>

\* A put into the store that the program writes.
Put(k, v) ==
  /\ db' = [db EXCEPT ![prog.dst] = With(@, k, v)]
  /\ puts' = Append(puts, k)

\* A call fails, or the machine.
Fails == errors < MaxErrors /\ errors' = errors + 1

\* What is left of the store if only the puts of the keys in S have reached the disk.
Survived(S) ==
  LET old == start[prog.dst]
  IN  [k \in DOMAIN old \cup S |-> IF k \in S THEN db[prog.dst][k] ELSE old[k]]

\* What is left of the log if, of the parts before the offset, those in S have reached the
\* disk where they were written over an older log, and the first ones behind its end, up
\* to the n-th.
SurvivedLog(S, n) ==
  [k \in 1 .. n |-> IF k \in S \/ k > Len(logStart) THEN log[k] ELSE logStart[k]]

\* The program ends without closing what it writes, or the machine goes down: of LevelDB
\* the last puts may be lost, of Berkeley DB and the log any.
Aborts ==
  /\ Ends("aborted") /\ todo' = {}
  /\ \/ /\ prog.dst \in Stores /\ log' = log
        /\ \E S \in IF prog.dst = "bdb" THEN SUBSET {puts[i] : i \in DOMAIN puts}
                    ELSE {{puts[i] : i \in 1 .. n} : n \in 0 .. Len(puts)} :
             db' = [db EXCEPT ![prog.dst] = Survived(S)]
     \/ /\ prog.dst = "log" /\ db' = db
        /\ \E S \in SUBSET {k \in 1 .. off : k <= Len(logStart)},
              n \in {Len(logStart)} \cup (Len(logStart) .. off) : log' = SurvivedLog(S, n)

--------------------------------------------------------------------------------
(* Walks of a tree: cb of ftwdb2, ftwdb2_fnv, ftwdb_bdb and ftwdb2log      *)
Visit(f) ==
  /\ Runs({"ftwdb"}) /\ f \in todo /\ files[f] # NoFile
  /\ todo' = todo \ {f} /\ Stays
  /\ count' = Counted("nFiles")
  /\ found' = With(found, f, md5sum(f))
  /\ Put(f, md5sum(f))
  /\ UNCHANGED <<files, log, prog, bad, off, refs, missed, bounds, start, logStart, lost>>

VisitFailsIgnored(f) ==
  /\ Runs({"ftwdb", "ftwdb2log"}) /\ f \in todo /\ Fails
  /\ \/ Stays /\ todo' = todo \ {f} /\ db' = db
     \/ prog.dst = "bdb" /\ Aborts
  /\ count' \in {count, Counted("nFiles")}
  /\ UNCHANGED <<files, log, prog, bad, off, refs, missed, runs, changes, history>>

\* The hash cannot be made, or put.  ftwdb_bdb does not look: it goes on after a put
\* that failed, and crashes where there is no hash.
VisitFails(f) ==
  /\ Runs({"ftwdb", "ftwdb2log"}) /\ f \in todo /\ Fails
  /\ \/ prog.dst # "bdb" /\ Ends("error") /\ todo' = {} /\ db' = db
     \/ prog.dst = "bdb" /\ Stays /\ todo' = todo \ {f} /\ db' = db
     \/ prog.dst = "bdb" /\ Aborts
  /\ count' \in {count, Counted("nFiles")} \* a file is counted before it is put
  /\ UNCHANGED <<files, log, prog, bad, off, refs, missed, runs, changes, history>>

\* The file is written at the offset, over what an earlier log has there.
Over(t)       == [k \in 1 .. (IF off + Len(t) > Len(log) THEN off + Len(t) ELSE Len(log)) |->
                    IF k \in off + 1 .. off + Len(t) THEN t[k - off] ELSE log[k]]
WrittenNoNL(h) == Halves(h)
Written(h)     == Line(h)

\* One write of a line.  What it returns is compared with -1 only.
VisitLog(f) ==
  /\ Runs({"ftwdb2log"}) /\ f \in todo /\ files[f] # NoFile
  /\ todo' = todo \ {f}
  /\ count' = Counted("nFiles") /\ found' = With(found, f, md5sum(f))
  /\ LET t == Written(md5sum(f))
     IN  \/ log' = Over(t) /\ off' = off + Len(t) /\ UNCHANGED <<errors, lost>>
         \/ \* a short write
            /\ Fails /\ lost' = TRUE
            /\ \E n \in 1 .. Len(t) - 1 : log' = Over(SubSeq(t, 1, n)) /\ off' = off + n
  /\ Stays
  /\ UNCHANGED <<files, db, prog, bad, refs, missed, runs, changes, start, logStart, puts>>

--------------------------------------------------------------------------------
(* log2leveldb                                                             *)
\* What fgets reads at the offset, without the newline.
LineEnd  == IF \E k \in LinesOf(log) : k > off THEN Least({k \in LinesOf(log) : k > off})
            ELSE Len(log) + 1
fgets    == SubSeq(log, off + 1, LineEnd - 1)
SeqKey(n) == MaxPath + n

\* A line is put under its number; the program asserts that it has 32 characters.
LogLine ==
  /\ Runs({"log2leveldb"}) /\ off < Len(log)
  /\ off' = LineEnd /\ todo' = {}
  /\ IF Len(fgets) = 2
     THEN Put(SeqKey(count.seq + 1), Decoded(fgets)) /\ count' = Counted("seq") /\ Stays
     ELSE Aborts /\ UNCHANGED <<puts, count>>
  /\ UNCHANGED <<files, log, prog, bad, refs, missed, bounds, start, logStart, found, lost>>

--------------------------------------------------------------------------------
(* Loops over a store                                                      *)
\* The next key; a program that looks at the status stops at a bad one.
Looks   == prog.name \in {"dbmerge", "dbtransactor"}
At(k)   == todo # {} /\ k = Least(todo) /\ (Looks => ~bad)

\* The iterator passes over a key that it cannot read; that of Berkeley DB ends.
Unreadable ==
  /\ pc # "idle" /\ prog.src \in Stores /\ todo # {}
  /\ Fails /\ bad' = TRUE /\ lost' = TRUE
  /\ todo' = IF prog.src = "bdb" THEN {} ELSE todo \ {Least(todo)}
  /\ UNCHANGED <<files, db, log, prog, pc, ended, off, output, runs, changes,
                 start, logStart, puts, found>>

\* "Iteration error!": the loop is left.
IterationError ==
  /\ pc # "idle" /\ Looks /\ bad /\ todo # {} /\ todo' = {}
  /\ UNCHANGED <<files, db, log, prog, pc, ended, bad, off, output, bounds, history>>

MatchesAlways(k) == TRUE
\* A key that is there must have the same hash.
Matches(k) == k \in DOMAIN db["A"] => db["A"][k] = db["B"][k]

Merge(k) ==
  /\ Runs({"dbmerge"}) /\ At(k)
  /\ IF Matches(k)
     THEN /\ Put(k, db["B"][k]) /\ todo' = todo \ {k} /\ Stays
          /\ count' = [count EXCEPT !.nRecordsSrc = @ + 1,
                                    !.nRecordsMerged = @ + IF k \in DOMAIN db["A"] THEN 0 ELSE 1]
     ELSE /\ Ends("error") /\ todo' = {}
          /\ count' = Counted("nRecordsSrc") /\ UNCHANGED <<db, puts>>
  /\ UNCHANGED <<files, log, prog, bad, off, refs, missed, bounds, start, logStart, found, lost>>

Convert(k) ==
  /\ Runs({"leveldb_to_bdb", "bdb_to_leveldb"}) /\ At(k)
  /\ Put(k, db[prog.src][k]) /\ todo' = todo \ {k} /\ Stays
  /\ count' = Counted("nFiles")
  /\ UNCHANGED <<files, log, prog, bad, off, refs, missed, bounds, start, logStart, found, lost>>

\* A get or a put fails.  leveldb_to_bdb returns without closing its store.
StoreFails(k) ==
  /\ Runs({"dbmerge", "leveldb_to_bdb", "bdb_to_leveldb"}) /\ At(k) /\ Fails
  /\ IF prog.name = "leveldb_to_bdb" THEN Aborts ELSE Ends("error") /\ todo' = {} /\ db' = db
  /\ count' \in IF prog.name # "dbmerge" THEN {count}
               ELSE {[count EXCEPT !.nRecordsSrc = @ + 1, !.nRecordsMerged = @ + n] :
                       n \in {0, IF k \in DOMAIN db["A"] THEN 0 ELSE 1}}
  /\ UNCHANGED <<files, log, prog, bad, off, refs, missed, runs, changes, history>>

RefsWithLast(h) == {h}
RefsWith(h)     == refs \cup {h}

RefHash(k) ==
  /\ pc = "ref" /\ At(k) /\ todo' = todo \ {k}
  /\ refs' = RefsWith(db["A"][k])
  /\ count' = [count EXCEPT !.nRefFiles = @ + 1,
                            !.nDuplicates = @ + IF db["A"][k] \in refs THEN 1 ELSE 0]
  /\ UNCHANGED <<files, db, log, prog, pc, ended, bad, off, missed, bounds, history>>

\* The second loop, with an iterator of its own.
Candidates ==
  /\ pc = "ref" /\ todo = {}
  /\ pc' = "loop" /\ todo' = DOMAIN db["B"] /\ bad' = FALSE
  /\ UNCHANGED <<files, db, log, prog, ended, off, output, bounds, history>>

Candidate(k) ==
  /\ Runs({"dbtransactor"}) /\ At(k) /\ todo' = todo \ {k}
  /\ IF db["B"][k] \in refs
     THEN UNCHANGED <<count, missed>>
     ELSE missed' = missed \cup {k} /\ count' = Counted("nMisses")
  /\ UNCHANGED <<files, db, log, prog, pc, ended, bad, off, refs, bounds, history>>

--------------------------------------------------------------------------------
Finish ==
  /\ pc = "loop" /\ todo = {} /\ (prog.src = "log" => off >= Len(log))
  /\ Ends("ok")
  /\ UNCHANGED <<files, db, log, prog, todo, bad, off, output, bounds, history>>

\* A crash, or an assertion on a put.
Crash ==
  /\ pc # "idle" /\ Fails /\ Aborts
  /\ UNCHANGED <<files, prog, bad, off, output, runs, changes, history>>

\* Somebody writes, makes or removes a file (it makes no difference to other programs
\* than walks).
Change(f) ==
  /\ prog.src = "tree" /\ pc = "loop"
  /\ changes < MaxChanges /\ changes' = changes + 1
  /\ \E x \in (Contents \cup {NoFile}) \ {files[f]} : files' = [files EXCEPT ![f] = x]
  /\ UNCHANGED <<db, log, prog, loop, output, runs, errors, history>>

\* A file that is gone, or empty, when the walk comes to it.
Gone(f) ==
  /\ Runs({"ftwdb", "ftwdb2log"}) /\ f \in todo /\ files[f] = NoFile
  /\ todo' = todo \ {f}
  /\ UNCHANGED <<files, db, log, prog, pc, ended, bad, off, output, bounds, history>>

Step(k) == \/ Visit(k) \/ VisitFails(k) \/ VisitLog(k) \/ Gone(k)
           \/ Merge(k) \/ Convert(k) \/ StoreFails(k) \/ RefHash(k) \/ Candidate(k)

Next == \/ \E p \in Programs : Start(p)
        \/ \E k \in todo : Step(k)
        \/ LogLine \/ Unreadable \/ IterationError \/ Candidates \/ Finish \/ Crash
        \/ \E f \in Paths : Change(f)

Spec == Init /\ [][Next]_vars

--------------------------------------------------------------------------------
EndedWell == pc = "idle" /\ ended = "ok"
\* What the program reads: the hashes its walk has made, or a store.
Source    == IF prog.src = "tree" THEN found ELSE db[prog.src]

\* A program that writes a store from a tree or from another store, killed or not,
\* leaves each key with the hash it had or with that of the source, and loses none.  If it
\* ends well every key of the source has arrived, unless it could not be read, or was put
\* by ftwdb_bdb, which does not look.
SourceArrives ==
  prog.dst \in Stores /\ prog.src \in Stores \cup {"tree"} /\ prog.name # "dbtransactor" =>
    LET old == start[prog.dst]
        new == db[prog.dst]
    IN  /\ DOMAIN old \subseteq DOMAIN new
        /\ \A k \in DOMAIN new : \/ k \in DOMAIN old /\ new[k] = old[k]
                                 \/ k \in DOMAIN Source /\ new[k] = Source[k]
        /\ EndedWell /\ ~lost =>
             /\ \A k \in DOMAIN Source : k \in DOMAIN new /\ new[k] = Source[k]
             /\ prog.src = "tree" /\ changes = 0 /\ (prog.dst = "bdb" => errors = 0) =>
                  DOMAIN found = {p \in Paths : files[p] # NoFile}

\* dbmerge changes no hash that is there, counts what it adds, and stops only at a
\* hash that differs, with all keys before it merged and none behind; so it can be run again
\* after a crash, and finds the same.
MergeKeeps ==
  prog.name = "dbmerge" =>
    LET old == start["A"]
        new == db["A"]
    IN  /\ \A k \in DOMAIN old : k \in DOMAIN new /\ new[k] = old[k]
        /\ EndedWell =>
             /\ count.nRecordsMerged = Cardinality(DOMAIN new) - Cardinality(DOMAIN old)
             /\ ~lost => count.nRecordsSrc = Cardinality(DOMAIN db["B"])
        /\ ended = "error" /\ errors = 0 =>
             \E k \in DOMAIN old \cap DOMAIN db["B"] :
               /\ old[k] # db["B"][k]
               /\ \A j \in DOMAIN db["B"] : IF j < k THEN j \in DOMAIN new /\ new[j] = db["B"][j]
                                            ELSE j \in DOMAIN new => j \in DOMAIN old

\* dbtransactor prints just the candidates whose hash no key of the reference has, if
\* both could be read; and the comment of its counters holds even if they could not:
\* "nDuplicates + this == nRefFiles".
TransactorTrue ==
  prog.name = "dbtransactor" /\ EndedWell =>
    /\ count.nDuplicates + Cardinality(refs) = count.nRefFiles
    /\ count.nMisses = Cardinality(missed)
    /\ ~lost => /\ count.nRefFiles = Cardinality(DOMAIN db["A"])
                /\ missed = {k \in DOMAIN db["B"] :
                               \A j \in DOMAIN db["A"] : db["A"][j] # db["B"][k]}

\* Behind the offset the log is what it was when the program was started.
RestIsOld ==
  /\ Len(logStart) <= Len(log)
  /\ \A k \in off + 1 .. Len(log) : k <= Len(logStart) /\ log[k] = logStart[k]

\* However torn the log was before by crashes and short writes: a walk of ftwdb2log that
\* writes each of its lines in full, and is not aborted before it syncs them, leaves them
\* first in the log, as often as it has met each hash; and all of the log is lines if all
\* of the log before it was.  It is not "a log mapping every file" alone, as the comment
\* before main has it: the file is not truncated, and behind the lines of the walk those
\* of an earlier, longer one remain, in their places, and nothing else.  On a log that is
\* lines of hashes log2leveldb meets no assertion, and stores all of them in order, the
\* earlier ones with the others.
LogReplays ==
  LET line(i) == Decoded(SubSeq(log, 3 * i - 2, 3 * i - 1))
      walked  == Cardinality(DOMAIN found)
      lines   == Len(log) \div 3
  IN  /\ prog.name = "ftwdb2log" /\ ended # "aborted" /\ ~lost =>
           /\ 3 * walked <= Len(log)
           /\ \A i \in 1 .. walked : line(i) \in Hashes /\ log[3 * i] = NL
           /\ \A h \in Hashes : Cardinality({i \in 1 .. walked : line(i) = h})
                                = Cardinality({f \in DOMAIN found : found[f] = h})
           /\ Whole(logStart) => Whole(log)
           /\ RestIsOld
      /\ prog.name = "log2leveldb" /\ Whole(log) =>
           /\ ended = "aborted" => errors > 0
           /\ EndedWell =>
                /\ count.seq = lines
                /\ \A i \in 1 .. lines : db["A"][SeqKey(i)] = line(i)
====
