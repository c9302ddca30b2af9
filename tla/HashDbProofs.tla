------------------------------ MODULE HashDbProofs ------------------------------
(***************************************************************************)
(* Proofs about HashDb, for any stores, trees and logs, and any number of  *)
(* programs, of changes to the tree, of crashes and of calls that fail.    *)
(*                                                                         *)
(* The invariant says what each kind of program has done so far: what has  *)
(* been read has arrived (Arrives), what dbmerge has counted and where it  *)
(* has come to (Merged), what dbtransactor knows (Compared), and that the  *)
(* log is lines, those of a walk first (Logged).                           *)
(***************************************************************************)
EXTENDS HashDb, SequenceTheorems, FiniteSetTheorems, TLAPS

\* The programs, and what they read and write.
LEMMA ProgramFacts ==
  ASSUME NEW p \in Programs
  PROVE  /\ p.name \in {"ftwdb", "ftwdb2log", "log2leveldb", "dbmerge", "dbtransactor",
                        "leveldb_to_bdb", "bdb_to_leveldb"}
         /\ p.name = "ftwdb" => p.src = "tree" /\ p.dst \in Stores
         /\ p.name = "ftwdb2log" => p.src = "tree" /\ p.dst = "log"
         /\ p.name = "log2leveldb" => p.src = "log" /\ p.dst = "A"
         /\ p.name = "dbmerge" => p.src = "B" /\ p.dst = "A"
         /\ p.name = "dbtransactor" => p.src = "B" /\ p.dst = "A"
         /\ p.name = "leveldb_to_bdb" => p.src = "A" /\ p.dst = "bdb"
         /\ p.name = "bdb_to_leveldb" => p.src = "bdb" /\ p.dst = "B"
  BY DEF Programs

LEMMA StoreNames ==
  /\ Stores = {"A", "B", "bdb"} /\ "log" \notin Stores /\ "tree" \notin Stores
  BY DEF Stores, LevelDBs

\* Programs that write a store from a tree or from another store.
Writes ==
  prog.dst \in Stores /\ prog.src \in Stores \cup {"tree"} /\ prog.name # "dbtransactor"

DbTypeOK ==
  /\ pc \in {"idle", "ref", "loop"} /\ ended \in {"ok", "error", "aborted"}
  /\ prog \in Programs \/ (pc = "idle" /\ prog.name = "none" /\ prog.src = "none" /\ prog.dst = "none")
  /\ (pc = "ref" => prog.name = "dbtransactor") /\ (pc # "idle" => ended = "ok")
  /\ files \in [Paths -> Contents \cup {NoFile}]
  /\ db = [s \in Stores |-> db[s]]
  /\ \A s \in Stores : DOMAIN db[s] \subseteq Nat /\ IsFiniteSet(DOMAIN db[s])
  /\ \A s \in Stores : DOMAIN start[s] \subseteq Nat /\ IsFiniteSet(DOMAIN start[s])
  /\ todo \subseteq Nat /\ IsFiniteSet(todo)
  /\ (bad => lost) /\ (lost => errors > 0) /\ errors \in Nat /\ changes \in Nat
  /\ puts \in Seq(Nat) /\ IsFiniteSet(refs) /\ IsFiniteSet(missed)
  /\ count \in [nFiles : Nat, seq : Nat, nRecordsSrc : Nat, nRecordsMerged : Nat,
                nRefFiles : Nat, nDuplicates : Nat, nMisses : Nat]
  /\ IsFiniteSet(DOMAIN found) /\ (prog.src = "tree" => DOMAIN found \cap todo = {})
  /\ pc # "idle" /\ prog.dst \in Stores =>
       /\ DOMAIN start[prog.dst] \subseteq DOMAIN db[prog.dst]
       /\ \A i \in 1 .. Len(puts) : puts[i] \in DOMAIN db[prog.dst]

\* The keys that a program which writes a store has read.
Read == IF prog.src = "tree" THEN DOMAIN found ELSE DOMAIN db[prog.src] \ todo

\* What has been read has arrived, and all the rest is as it was.
Arrives ==
  Writes =>
    /\ DOMAIN start[prog.dst] \subseteq DOMAIN db[prog.dst]
    /\ \A k \in DOMAIN db[prog.dst] :
         \/ k \in DOMAIN start[prog.dst] /\ db[prog.dst][k] = start[prog.dst][k]
         \/ k \in DOMAIN Source /\ db[prog.dst][k] = Source[k]
    /\ (pc = "loop" \/ EndedWell) /\ ~lost =>
         \A k \in Read : k \in DOMAIN db[prog.dst] /\ db[prog.dst][k] = Source[k]
    /\ EndedWell => todo = {}
    /\ pc = "loop" /\ prog.src # "tree" => todo \subseteq DOMAIN db[prog.src]
    /\ prog.src = "tree" /\ changes = 0 /\ (prog.dst = "bdb" => errors = 0)
       /\ (pc = "loop" \/ EndedWell) =>
         {p \in Paths : files[p] # NoFile} = DOMAIN found \cup todo

\* dbmerge: the keys before those to come are merged, and of those to come only what was
\* there before is there.
Merged ==
  prog.name = "dbmerge" =>
    LET old == start["A"]
        new == db["A"]
    IN  /\ \A k \in DOMAIN old : k \in DOMAIN new /\ new[k] = old[k]
        /\ pc = "loop" \/ EndedWell =>
             /\ count.nRecordsMerged + Cardinality(DOMAIN old) = Cardinality(DOMAIN new)
             /\ ~lost => count.nRecordsSrc + Cardinality(todo) = Cardinality(DOMAIN db["B"])
        /\ pc = "loop" /\ errors = 0 =>
             /\ \A k \in todo, j \in DOMAIN db["B"] \ todo : j < k
             /\ \A k \in todo : k \in DOMAIN new => k \in DOMAIN old
        /\ ended = "error" /\ errors = 0 =>
             \E k \in DOMAIN old \cap DOMAIN db["B"] :
               /\ old[k] # db["B"][k]
               /\ \A j \in DOMAIN db["B"] : IF j < k THEN j \in DOMAIN new /\ new[j] = db["B"][j]
                                            ELSE j \in DOMAIN new => j \in DOMAIN old

\* dbtransactor: the hashes and the misses of the keys it has read.
Compared ==
  prog.name = "dbtransactor" =>
    LET done == DOMAIN db["A"] \ todo
        tested == DOMAIN db["B"] \ todo
    IN  /\ count.nDuplicates + Cardinality(refs) = count.nRefFiles
        /\ count.nMisses = Cardinality(missed)
        /\ pc = "ref" =>
             /\ missed = {} /\ todo \subseteq DOMAIN db["A"]
             /\ ~lost => /\ count.nRefFiles + Cardinality(todo) = Cardinality(DOMAIN db["A"])
                         /\ \A j \in done : db["A"][j] \in refs
                         /\ \A h \in refs : \E j \in done : db["A"][j] = h
        /\ EndedWell => todo = {}
        /\ pc = "loop" => todo \subseteq DOMAIN db["B"] /\ missed \cap todo = {}
        /\ (pc = "loop" \/ EndedWell) /\ ~lost =>
             /\ count.nRefFiles = Cardinality(DOMAIN db["A"])
             /\ \A j \in DOMAIN db["A"] : db["A"][j] \in refs
             /\ \A h \in refs : \E j \in DOMAIN db["A"] : db["A"][j] = h
             /\ missed \subseteq DOMAIN db["B"]
             /\ \A k \in tested : k \in missed <=> db["B"][k] \notin refs

LineAt(t, i) == Decoded(SubSeq(t, 3 * i - 2, 3 * i - 1))

\* The first m lines of t are those of the walk w.
Lines(t, w, m) ==
  /\ \A i \in 1 .. m : \E h \in Hashes : IsLine(t, i, h)
  /\ \A h \in Hashes : Cardinality({i \in 1 .. m : LineAt(t, i) = h})
                       = Cardinality({f \in DOMAIN w : w[f] = h})

\* A walk that has written each of its lines in full has left them first in the log, and
\* what was lines of hashes before is so; a line that is read from such a log is stored.
Logged ==
  /\ log \in Seq(Parts) /\ logStart \in Seq(Parts)
  /\ prog.name = "ftwdb2log" =>
       LET m == Cardinality(DOMAIN found)
       IN  /\ todo \subseteq Paths /\ off \in Nat /\ off <= 3 * m
           /\ ended # "aborted" =>
                /\ ~lost => off = 3 * m
                /\ Len(logStart) <= Len(log) /\ off <= Len(log) /\ RestIsOld
                /\ off = 3 * m => Lines(log, found, m) /\ (Whole(logStart) => Whole(log))
  /\ prog.name = "log2leveldb" /\ Whole(log) =>
       /\ ended = "aborted" => errors > 0
       /\ pc = "loop" => off = 3 * count.seq /\ 3 * count.seq <= Len(log)
       /\ EndedWell => 3 * count.seq = Len(log)
       /\ pc = "loop" \/ EndedWell =>
            \A i \in 1 .. count.seq : SeqKey(i) \in DOMAIN db["A"] /\ db["A"][SeqKey(i)] = LineAt(log, i)

DbInv == DbTypeOK /\ Arrives /\ Merged /\ Compared /\ Logged

--------------------------------------------------------------------------------
(* Steps that every program takes                                          *)

\* A put: one key of the store that is written has the new value, all else stays.
LEMMA PutStep ==
  ASSUME DbTypeOK, pc # "idle", prog.dst \in Stores, NEW k \in Nat, NEW v, Put(k, v)
  PROVE  /\ db' = [s \in Stores |-> db'[s]]
         /\ \A s \in Stores : s # prog.dst => db'[s] = db[s]
         /\ DOMAIN db'[prog.dst] = DOMAIN db[prog.dst] \cup {k}
         /\ db'[prog.dst][k] = v
         /\ \A x \in DOMAIN db[prog.dst] : x # k => db'[prog.dst][x] = db[prog.dst][x]
         /\ \A s \in Stores : DOMAIN db'[s] \subseteq Nat /\ IsFiniteSet(DOMAIN db'[s])
         /\ puts' \in Seq(Nat)
         /\ \A i \in 1 .. Len(puts') : puts'[i] \in DOMAIN db'[prog.dst]
         /\ DOMAIN start[prog.dst] \subseteq DOMAIN db'[prog.dst]
<1> DEFINE d == prog.dst
           t == [x \in DOMAIN db[d] \cup {k} |-> IF x = k THEN v ELSE db[d][x]]
<1>1. /\ db = [s \in Stores |-> db[s]] /\ d \in Stores
      /\ \A s \in Stores : DOMAIN db[s] \subseteq Nat /\ IsFiniteSet(DOMAIN db[s])
      /\ puts \in Seq(Nat)
      /\ DOMAIN start[d] \subseteq DOMAIN db[d]
      /\ \A i \in 1 .. Len(puts) : puts[i] \in DOMAIN db[d]
  BY DEF DbTypeOK
<1>2. db' = [db EXCEPT ![d] = t] /\ puts' = Append(puts, k)
  BY DEF Put, With
<1>3. DOMAIN t = DOMAIN db[d] \cup {k} /\ t[k] = v /\ \A x \in DOMAIN db[d] : x # k => t[x] = db[d][x]
  OBVIOUS
<1> HIDE DEF t, d
<1>4. db' = [s \in Stores |-> db'[s]] /\ db'[d] = t /\ \A s \in Stores : s # d => db'[s] = db[s]
  BY <1>1, <1>2
<1>5. IsFiniteSet(DOMAIN t) /\ DOMAIN t \subseteq Nat
  <2> DEFINE D == DOMAIN db[d]
  <2>1. IsFiniteSet(D) /\ D \subseteq Nat /\ DOMAIN t = D \cup {k}
    BY <1>1, <1>3
  <2> HIDE DEF D
  <2> QED BY <2>1, FS_AddElement
<1>6. /\ puts' \in Seq(Nat) /\ Len(puts') = Len(puts) + 1
      /\ \A i \in 1 .. Len(puts') : puts'[i] = k \/ (i \in 1 .. Len(puts) /\ puts'[i] = puts[i])
  BY <1>1, <1>2
<1>7. \A i \in 1 .. Len(puts') : puts'[i] \in DOMAIN t
  BY <1>1, <1>3, <1>6
<1>8. \A s \in Stores : DOMAIN db'[s] \subseteq Nat /\ IsFiniteSet(DOMAIN db'[s])
  BY <1>1, <1>4, <1>5
<1> QED BY <1>1, <1>3, <1>4, <1>6, <1>7, <1>8 DEF d

\* What a program that was killed leaves: each key has what it had, or what was put.
LEMMA AbortStep ==
  ASSUME DbTypeOK, pc # "idle", Aborts
  PROVE  /\ pc' = "idle" /\ ended' = "aborted" /\ todo' = {}
         /\ db' = [s \in Stores |-> db'[s]]
         /\ \A s \in Stores : s # prog.dst => db'[s] = db[s]
         /\ \A s \in Stores : DOMAIN db'[s] \subseteq DOMAIN db[s]
         /\ \A s \in Stores : DOMAIN db'[s] \subseteq Nat /\ IsFiniteSet(DOMAIN db'[s])
         /\ prog.dst \in Stores =>
              /\ DOMAIN start[prog.dst] \subseteq DOMAIN db'[prog.dst]
              /\ \A x \in DOMAIN db'[prog.dst] :
                   \/ x \in DOMAIN start[prog.dst] /\ db'[prog.dst][x] = start[prog.dst][x]
                   \/ db'[prog.dst][x] = db[prog.dst][x]
<1> DEFINE d == prog.dst
<1>1. /\ db = [s \in Stores |-> db[s]] /\ puts \in Seq(Nat)
      /\ \A s \in Stores : DOMAIN db[s] \subseteq Nat /\ IsFiniteSet(DOMAIN db[s])
      /\ d \in Stores => /\ DOMAIN start[d] \subseteq DOMAIN db[d]
                         /\ \A i \in 1 .. Len(puts) : puts[i] \in DOMAIN db[d]
  BY DEF DbTypeOK
<1>2. pc' = "idle" /\ ended' = "aborted" /\ todo' = {}
  BY DEF Aborts, Ends
<1>3. CASE d \notin Stores
  <2>1. db' = db
    BY <1>3 DEF Aborts
  <2> QED BY <1>1, <1>2, <1>3, <2>1
<1>4. CASE d \in Stores
  <2> DEFINE P == {puts[i] : i \in 1 .. Len(puts)}
  <2>1. \E S \in SUBSET P : db' = [db EXCEPT ![d] = Survived(S)]
    <3>1. DOMAIN puts = 1 .. Len(puts)
      BY <1>1
    <3>2. CASE d = "bdb"
      BY <1>4, <3>1, <3>2, StoreNames DEF Aborts
    <3>3. CASE d # "bdb"
      <4>1. PICK n \in 0 .. Len(puts) : db' = [db EXCEPT ![d] = Survived({puts[i] : i \in 1 .. n})]
        BY <1>4, <3>3, StoreNames DEF Aborts
      <4>2. {puts[i] : i \in 1 .. n} \in SUBSET P
        BY <1>1
      <4> QED BY <4>1, <4>2
    <3> QED BY <3>2, <3>3
  <2>2. PICK S \in SUBSET P : db' = [db EXCEPT ![d] = Survived(S)]
    BY <2>1
  <2> DEFINE t == [x \in DOMAIN start[d] \cup S |-> IF x \in S THEN db[d][x] ELSE start[d][x]]
  <2>3. Survived(S) = t
    BY DEF Survived
  <2>4. S \subseteq DOMAIN db[d]
    BY <1>1, <1>4
  <2> HIDE DEF P
  <2>5. /\ DOMAIN t = DOMAIN start[d] \cup S /\ DOMAIN t \subseteq DOMAIN db[d]
        /\ \A x \in DOMAIN t : (x \in DOMAIN start[d] /\ t[x] = start[d][x]) \/ t[x] = db[d][x]
    BY <1>1, <1>4, <2>4
  <2> HIDE DEF t
  <2>6. IsFiniteSet(DOMAIN t) /\ DOMAIN t \subseteq Nat
    BY <1>1, <1>4, <2>5, FS_Subset
  <2> HIDE DEF d
  <2>7. db' = [s \in Stores |-> db'[s]] /\ db'[d] = t /\ \A s \in Stores : s # d => db'[s] = db[s]
    BY <1>1, <1>4, <2>2, <2>3
  <2>8. \A s \in Stores : DOMAIN db'[s] \subseteq DOMAIN db[s] /\ DOMAIN db'[s] \subseteq Nat /\ IsFiniteSet(DOMAIN db'[s])
    BY <1>1, <2>5, <2>6, <2>7
  <2> QED BY <1>2, <2>5, <2>7, <2>8 DEF d
<1> QED BY <1>3, <1>4

\* A set of numbers that is not empty has a least one.
LEMMA LeastOfSet ==
  ASSUME NEW T \in SUBSET Nat, T # {}
  PROVE  Least(T) \in T /\ \A j \in T : Least(T) <= j
<1> DEFINE LessPairs == {p \in Nat \X Nat : p[1] < p[2]}
<1>1. IsWellFoundedOn(LessPairs, Nat)
  BY NatLessThanWellFounded, Zenon DEF OpToRel
<1>2. PICK x \in T : \A y \in T : ~ (<<y, x>> \in LessPairs)
  BY <1>1, WFMin, Zenon
<1>3. ASSUME NEW y \in T  PROVE x <= y
  <2>1. ~ (<<y, x>> \in LessPairs) /\ x \in Nat /\ y \in Nat
    BY <1>2
  <2>2. ~ (y < x)
    BY <2>1
  <2> QED BY <2>1, <2>2
<1> QED BY <1>3 DEF Least

--------------------------------------------------------------------------------
(* DbTypeOK                                                                *)

LEMMA PathsFinite == IsFiniteSet(Paths) /\ Paths \subseteq Nat
<1>1. Paths \subseteq 1 .. MaxPath /\ MaxPath \in Nat
  BY HashDbAssumption
<1>2. IsFiniteSet(1 .. MaxPath)
  BY <1>1, FS_Interval
<1>3. Paths \in SUBSET (1 .. MaxPath)
  BY <1>1
<1>4. IsFiniteSet(Paths)
  BY <1>2, <1>3, FS_Subset
<1> QED BY <1>1, <1>4

LEMMA TypeInit == Init => DbTypeOK
<1> SUFFICES ASSUME Init  PROVE DbTypeOK
  OBVIOUS
<1>1. /\ files \in [Paths -> Contents \cup {NoFile}] /\ db \in [Stores -> Maps] /\ start = db
      /\ \A t \in Maps : DOMAIN t \subseteq Paths
  BY HashDbAssumption DEF Init
<1>2. \A s \in Stores : DOMAIN db[s] \subseteq Paths
  BY <1>1
<1>3. \A s \in Stores : DOMAIN db[s] \subseteq Nat /\ IsFiniteSet(DOMAIN db[s])
  BY <1>2, PathsFinite, FS_Subset
<1>4. db = [s \in Stores |-> db[s]]
  BY <1>1
<1>5. DOMAIN found = {}
  BY DEF Init, NoMap
<1>6. /\ pc = "idle" /\ ended = "ok" /\ todo = {} /\ bad = FALSE /\ refs = {} /\ missed = {}
      /\ prog.name = "none" /\ prog.src = "none" /\ prog.dst = "none"
      /\ puts = <<>> /\ lost = FALSE /\ errors = 0 /\ changes = 0
      /\ count \in [nFiles : Nat, seq : Nat, nRecordsSrc : Nat, nRecordsMerged : Nat,
                    nRefFiles : Nat, nDuplicates : Nat, nMisses : Nat]
  BY DEF Init, NoCounts
<1> QED BY <1>1, <1>3, <1>4, <1>5, <1>6, FS_EmptySet DEF DbTypeOK

LEMMA TypeStart ==
  ASSUME DbTypeOK, NEW p \in Programs, Start(p)  PROVE DbTypeOK'
<1>1. /\ pc' \in {"ref", "loop"} /\ ended' = "ok" /\ prog' = p
      /\ pc' = "ref" => p.name = "dbtransactor"
      /\ UNCHANGED <<files, db, changes, errors>> /\ start' = db
      /\ bad' = FALSE /\ lost' = FALSE /\ refs' = {} /\ missed' = {} /\ puts' = <<>>
  BY DEF Start
<1>2. count' \in [nFiles : Nat, seq : Nat, nRecordsSrc : Nat, nRecordsMerged : Nat,
                  nRefFiles : Nat, nDuplicates : Nat, nMisses : Nat]
  BY DEF Start, NoCounts
<1>3. DOMAIN found' = {}
  BY DEF Start, NoMap
<1>4. todo' \subseteq Nat /\ IsFiniteSet(todo')
  <2> DEFINE Present == {q \in Paths : files[q] # NoFile}
  <2>1. todo' = Present \/ todo' = {} \/ \E s \in Stores : todo' = DOMAIN db[s]
    <3>1. p.src \in {"tree", "log"} \cup Stores /\ "A" \in Stores
      BY ProgramFacts, StoreNames
    <3>2. todo' = CASE p.src = "tree" -> Present
                    [] p.src = "log" -> {}
                    [] p.name = "dbtransactor" -> DOMAIN db["A"]
                    [] OTHER -> DOMAIN db[p.src]
      BY DEF Start
    <3> HIDE DEF Present
    <3>3. p.src = "tree" => p.name # "dbtransactor"
      BY ProgramFacts
    <3>4. p.src = "log" => p.name # "dbtransactor"
      BY ProgramFacts
    <3> QED BY <3>1, <3>2, <3>3, <3>4, StoreNames
  <2>2. Present \subseteq Nat /\ IsFiniteSet(Present)
    <3>1. Present \in SUBSET Paths
      OBVIOUS
    <3> QED BY <3>1, PathsFinite, FS_Subset
  <2> HIDE DEF Present
  <2>3. \A s \in Stores : DOMAIN db[s] \subseteq Nat /\ IsFiniteSet(DOMAIN db[s])
    BY DEF DbTypeOK
  <2> QED BY <2>1, <2>2, <2>3, FS_EmptySet
<1>5. /\ files' \in [Paths -> Contents \cup {NoFile}] /\ errors' \in Nat /\ changes' \in Nat
      /\ db' = [s \in Stores |-> db'[s]]
      /\ \A s \in Stores : DOMAIN db'[s] \subseteq Nat /\ IsFiniteSet(DOMAIN db'[s])
      /\ \A s \in Stores : DOMAIN start'[s] \subseteq Nat /\ IsFiniteSet(DOMAIN start'[s])
  BY <1>1 DEF DbTypeOK
<1>6. IsFiniteSet({}) /\ puts' \in Seq(Nat) /\ DOMAIN found' \cap todo' = {}
  BY <1>1, <1>3, FS_EmptySet
<1>7. \A s \in Stores : DOMAIN start'[s] = DOMAIN db'[s]
  BY <1>1
<1>8. 1 .. Len(puts') = {}
  BY <1>1
<1> QED BY <1>1, <1>2, <1>3, <1>4, <1>5, <1>6, <1>7, <1>8 DEF DbTypeOK

\* The steps that put a key: the walks, LogLine, Merge and Convert.
LEMMA TypePut ==
  ASSUME DbTypeOK, pc = "loop", prog.dst \in Stores, NEW k \in Nat, NEW v, Put(k, v),
         prog' = prog, pc' = pc, ended' = ended, todo' \in SUBSET todo, files' = files,
         start' = start, refs' = refs, missed' = missed, bad' = bad, lost' = lost,
         errors' = errors, changes' = changes,
         count' \in [nFiles : Nat, seq : Nat, nRecordsSrc : Nat, nRecordsMerged : Nat,
                     nRefFiles : Nat, nDuplicates : Nat, nMisses : Nat],
         IsFiniteSet(DOMAIN found'), prog.src = "tree" => DOMAIN found' \cap todo' = {}
  PROVE  DbTypeOK'
<1>1. /\ db' = [s \in Stores |-> db'[s]]
      /\ \A s \in Stores : DOMAIN db'[s] \subseteq Nat /\ IsFiniteSet(DOMAIN db'[s])
      /\ puts' \in Seq(Nat)
      /\ \A i \in 1 .. Len(puts') : puts'[i] \in DOMAIN db'[prog.dst]
      /\ DOMAIN start[prog.dst] \subseteq DOMAIN db'[prog.dst]
  BY PutStep
<1>2. todo' \subseteq Nat /\ IsFiniteSet(todo')
  BY FS_Subset DEF DbTypeOK
<1> QED BY <1>1, <1>2 DEF DbTypeOK

\* The steps that leave the stores alone.
LEMMA TypeQuiet ==
  ASSUME DbTypeOK,
         prog' = prog, files' \in [Paths -> Contents \cup {NoFile}], db' = db, start' = start,
         puts' = puts, pc' \in {pc, "idle"} \/ (pc = "ref" /\ pc' = "loop"), ended' \in {"ok", "error", "aborted"},
         pc' # "idle" => ended' = "ok",
         todo' \subseteq Nat, IsFiniteSet(todo'), IsFiniteSet(refs'), IsFiniteSet(missed'),
         bad' => lost', lost' => errors' > 0, errors' \in Nat, changes' \in Nat,
         count' \in [nFiles : Nat, seq : Nat, nRecordsSrc : Nat, nRecordsMerged : Nat,
                     nRefFiles : Nat, nDuplicates : Nat, nMisses : Nat],
         IsFiniteSet(DOMAIN found'), prog.src = "tree" => DOMAIN found' \cap todo' = {}
  PROVE  DbTypeOK'
BY DEF DbTypeOK

\* A program that was killed.
LEMMA TypeAborts ==
  ASSUME DbTypeOK, pc # "idle", Aborts,
         prog' = prog, files' = files, start' = start, puts' = puts, refs' = refs,
         missed' = missed, bad' = bad, lost' = lost, errors' \in {errors, errors + 1},
         changes' = changes, found' = found,
         count' \in [nFiles : Nat, seq : Nat, nRecordsSrc : Nat, nRecordsMerged : Nat,
                     nRefFiles : Nat, nDuplicates : Nat, nMisses : Nat]
  PROVE  DbTypeOK'
<1>1. /\ pc' = "idle" /\ ended' = "aborted" /\ todo' = {}
      /\ db' = [s \in Stores |-> db'[s]]
      /\ \A s \in Stores : DOMAIN db'[s] \subseteq Nat /\ IsFiniteSet(DOMAIN db'[s])
  BY AbortStep
<1>2. IsFiniteSet({}) /\ todo' \subseteq Nat
  BY <1>1, FS_EmptySet
<1>0. errors \in Nat /\ (lost => errors > 0)
  BY DEF DbTypeOK
<1>3. errors' \in Nat /\ errors' >= errors
  BY <1>0
<1>4. lost' => errors' > 0
  BY <1>0, <1>3
<1> QED BY <1>1, <1>2, <1>3, <1>4 DEF DbTypeOK

Counters == [nFiles : Nat, seq : Nat, nRecordsSrc : Nat, nRecordsMerged : Nat,
             nRefFiles : Nat, nDuplicates : Nat, nMisses : Nat]

\* Counting leaves counters.
LEMMA CountersStep ==
  ASSUME count \in Counters
  PROVE  /\ Counted("nFiles") \in Counters /\ Counted("seq") \in Counters
         /\ Counted("nRecordsSrc") \in Counters /\ Counted("nMisses") \in Counters
         /\ \A n \in {0, 1} :
              /\ [count EXCEPT !.nRecordsSrc = @ + 1, !.nRecordsMerged = @ + n] \in Counters
              /\ [count EXCEPT !.nRefFiles = @ + 1, !.nDuplicates = @ + n] \in Counters
<1>1. Counted("nFiles") \in Counters /\ Counted("seq") \in Counters
  BY DEF Counters, Counted
<1>2. Counted("nRecordsSrc") \in Counters /\ Counted("nMisses") \in Counters
  BY DEF Counters, Counted
<1>3. ASSUME NEW n \in {0, 1}
      PROVE  /\ [count EXCEPT !.nRecordsSrc = @ + 1, !.nRecordsMerged = @ + n] \in Counters
             /\ [count EXCEPT !.nRefFiles = @ + 1, !.nDuplicates = @ + n] \in Counters
  <2>1. [count EXCEPT !.nRecordsSrc = @ + 1, !.nRecordsMerged = @ + n] \in Counters
    <3>1. count.nRecordsSrc + 1 \in Nat /\ count.nRecordsMerged + n \in Nat
      BY DEF Counters
    <3> QED BY <3>1 DEF Counters
  <2>2. [count EXCEPT !.nRefFiles = @ + 1, !.nDuplicates = @ + n] \in Counters
    <3>1. count.nRefFiles + 1 \in Nat /\ count.nDuplicates + n \in Nat
      BY DEF Counters
    <3> QED BY <3>1 DEF Counters
  <2> QED BY <2>1, <2>2
<1> QED BY <1>1, <1>2, <1>3

\* The sets of the state, with an element more or less, are finite.
LEMMA TodoStep ==
  ASSUME DbTypeOK, NEW k
  PROVE  /\ todo \ {k} \subseteq Nat /\ IsFiniteSet(todo \ {k}) /\ IsFiniteSet(todo)
         /\ IsFiniteSet({}) /\ IsFiniteSet(refs \cup {k}) /\ IsFiniteSet(missed \cup {k})
         /\ IsFiniteSet(DOMAIN found \cup {k})
<1>1. IsFiniteSet(todo) /\ IsFiniteSet(refs) /\ IsFiniteSet(missed) /\ IsFiniteSet(DOMAIN found)
      /\ todo \subseteq Nat
  BY DEF DbTypeOK
<1>2. IsFiniteSet(todo \ {k})
  BY <1>1, FS_RemoveElement
<1>3. IsFiniteSet(refs \cup {k}) /\ IsFiniteSet(missed \cup {k})
  BY <1>1, FS_AddElement
<1>4. IsFiniteSet(DOMAIN found \cup {k})
  <2> DEFINE D == DOMAIN found
  <2>1. IsFiniteSet(D)
    BY <1>1
  <2> HIDE DEF D
  <2>2. IsFiniteSet(D \cup {k})
    BY <2>1, FS_AddElement
  <2> QED BY <2>2 DEF D
<1> QED BY <1>1, <1>2, <1>3, <1>4, FS_EmptySet

LEMMA TypeWalks ==
  ASSUME DbTypeOK, NEW k \in todo,
         Visit(k) \/ VisitFails(k) \/ VisitLog(k) \/ Gone(k)
  PROVE  DbTypeOK'
<1>0. /\ count \in Counters /\ k \in Nat /\ errors \in Nat /\ changes \in Nat
      /\ files \in [Paths -> Contents \cup {NoFile}]
      /\ pc = "loop" => prog \in Programs
  BY DEF DbTypeOK, Counters
<1>a. /\ IsFiniteSet(refs) /\ IsFiniteSet(missed) /\ IsFiniteSet(DOMAIN found)
      /\ (bad => lost) /\ (lost => errors > 0) /\ (pc # "idle" => ended = "ok")
  BY DEF DbTypeOK
<1>1. CASE Visit(k)
  <2>1. pc = "loop" /\ prog.name = "ftwdb" /\ prog.dst \in Stores /\ prog.src = "tree"
    BY <1>0, <1>1, ProgramFacts DEF Visit, Runs
  <2>2. count' \in Counters
    BY <1>0, <1>1, CountersStep DEF Visit
  <2>3. Put(k, md5sum(k)) /\ todo' = todo \ {k} /\ DOMAIN found' = DOMAIN found \cup {k}
    BY <1>1 DEF Visit, With
  <2>4. IsFiniteSet(DOMAIN found') /\ DOMAIN found' \cap todo' = {}
    <3>1. DOMAIN found \cap todo = {}
      BY <2>1 DEF DbTypeOK
    <3>2. IsFiniteSet(DOMAIN found \cup {k})
      BY TodoStep
    <3> QED BY <2>3, <3>1, <3>2
  <2>5. /\ prog' = prog /\ pc' = pc /\ ended' = ended /\ todo' \in SUBSET todo /\ files' = files
        /\ start' = start /\ refs' = refs /\ missed' = missed /\ bad' = bad /\ lost' = lost
        /\ errors' = errors /\ changes' = changes
    BY <1>1, <2>3 DEF Visit, Stays, bounds
  <2> QED BY <1>0, <2>1, <2>2, <2>3, <2>4, <2>5, TypePut DEF Counters
<1>2. CASE VisitFails(k)
  <2>1. /\ prog' = prog /\ files' = files /\ start' = start /\ puts' = puts /\ refs' = refs
        /\ missed' = missed /\ bad' = bad /\ lost' = lost /\ errors' = errors + 1
        /\ changes' = changes /\ found' = found /\ pc = "loop"
    BY <1>2 DEF VisitFails, Fails, history, Runs
  <2>2. count' \in Counters
    <3>1. count' \in {count, Counted("nFiles")}
      BY <1>2 DEF VisitFails
    <3> QED BY <1>0, <3>1, CountersStep
  <2>3. CASE Aborts
    BY <2>1, <2>2, <2>3, TypeAborts DEF Counters
  <2>4. CASE (Ends("error") /\ todo' = {} /\ db' = db) \/ (Stays /\ todo' = todo \ {k} /\ db' = db)
    <3>1. pc' \in {pc, "idle"} /\ ended' \in {ended, "error"} /\ todo' \in {{}, todo \ {k}} /\ db' = db
      BY <2>4 DEF Ends, Stays
    <3>2. todo' \subseteq Nat /\ IsFiniteSet(todo')
      BY <2>1, <3>1, TodoStep
    <3>3. (prog.src = "tree" => DOMAIN found' \cap todo' = {}) /\ (lost' => errors' > 0)
      BY <1>0, <2>1, <3>1 DEF DbTypeOK
    <3>4. ended' \in {"ok", "error", "aborted"} /\ errors' \in Nat /\ (pc' # "idle" => ended' = "ok")
      <4>1. ended = "ok" /\ errors' \in Nat
        BY <1>0, <1>a, <2>1
      <4>2. (Ends("error") \/ Stays) => (pc' = "idle" /\ ended' = "error") \/ (pc' = pc /\ ended' = ended)
        BY DEF Ends, Stays
      <4> QED BY <2>4, <4>1, <4>2
    <3>5. /\ IsFiniteSet(refs') /\ IsFiniteSet(missed') /\ IsFiniteSet(DOMAIN found')
          /\ (bad' => lost') /\ files' \in [Paths -> Contents \cup {NoFile}] /\ changes' \in Nat
      BY <1>0, <1>a, <2>1
    <3> QED BY <2>1, <2>2, <3>1, <3>2, <3>3, <3>4, <3>5, TypeQuiet DEF Counters
  <2> QED BY <1>2, <2>3, <2>4 DEF VisitFails
<1>3. CASE VisitLog(k)
  <2>1. /\ prog' = prog /\ files' = files /\ start' = start /\ puts' = puts /\ refs' = refs
        /\ missed' = missed /\ bad' = bad /\ errors' \in {errors, errors + 1}
        /\ (lost' = lost /\ errors' = errors) \/ (lost' = TRUE /\ errors' = errors + 1)
        /\ changes' = changes /\ DOMAIN found' = DOMAIN found \cup {k} /\ pc = "loop"
        /\ db' = db /\ pc' \in {pc, "idle"} /\ ended' \in {ended, "aborted"} /\ todo' = todo \ {k}
    BY <1>3 DEF VisitLog, Fails, With, Runs, Stays, Ends
  <2>2. count' \in Counters
    BY <1>0, <1>3, CountersStep DEF VisitLog
  <2>5. errors' \in Nat /\ errors' >= errors
    BY <1>0, <2>1
  <2>6. todo' \subseteq Nat /\ IsFiniteSet(todo') /\ IsFiniteSet(DOMAIN found')
    BY <2>1, TodoStep
  <2>3. prog.src = "tree" => DOMAIN found' \cap todo' = {}
    BY <2>1 DEF DbTypeOK
  <2>4. (lost' => errors' > 0) /\ (bad' => lost')
    BY <1>0, <1>a, <2>1, <2>5
  <2>7. ended' \in {"ok", "error", "aborted"} /\ (pc' # "idle" => ended' = "ok")
    <3>1. (pc' = pc /\ ended' = ended) \/ (pc' = "idle" /\ ended' = "aborted")
      BY <1>3 DEF VisitLog, Stays, Ends
    <3> QED BY <1>a, <2>1, <3>1
  <2>8. /\ IsFiniteSet(refs') /\ IsFiniteSet(missed')
        /\ files' \in [Paths -> Contents \cup {NoFile}] /\ changes' \in Nat
    BY <1>0, <1>a, <2>1
  <2> QED BY <2>1, <2>2, <2>3, <2>4, <2>5, <2>6, <2>7, <2>8, TypeQuiet DEF Counters
<1>4. CASE Gone(k)
  <2>1. /\ todo' = todo \ {k}
        /\ UNCHANGED <<files, db, prog, pc, ended, bad, refs, count, missed, changes,
                       errors, start, puts, found, lost>>
    BY <1>4 DEF Gone, output, bounds, history
  <2>2. todo' \subseteq Nat /\ IsFiniteSet(todo')
        /\ (prog.src = "tree" => DOMAIN found' \cap todo' = {})
    BY <2>1, TodoStep DEF DbTypeOK
  <2> QED BY <2>1, <2>2, TypeQuiet DEF DbTypeOK
<1> QED BY <1>1, <1>2, <1>3, <1>4

LEMMA TypeChange ==
  ASSUME DbTypeOK, NEW f \in Paths, Change(f)  PROVE DbTypeOK'
<1>1. /\ changes' = changes + 1
      /\ UNCHANGED <<db, prog, pc, ended, todo, bad, refs, count, missed, errors, start,
                     puts, found, lost>>
  BY DEF Change, output, history, loop
<1>2. files \in [Paths -> Contents \cup {NoFile}] /\ changes \in Nat
  BY DEF DbTypeOK
<1>3. files' \in [Paths -> Contents \cup {NoFile}]
  <2>1. PICK x \in Contents \cup {NoFile} : files' = [files EXCEPT ![f] = x]
    BY DEF Change
  <2> QED BY <1>2, <2>1
<1>4. changes' \in Nat
  BY <1>1, <1>2
<1> QED BY <1>1, <1>3, <1>4 DEF DbTypeOK

LEMMA TypeLogLine ==
  ASSUME DbTypeOK, LogLine  PROVE DbTypeOK'
<1>0. /\ count \in Counters /\ pc = "loop" /\ prog.name = "log2leveldb" /\ prog.dst \in Stores
      /\ MaxPath \in Nat /\ prog.src = "log"
  BY ProgramFacts, StoreNames, HashDbAssumption DEF DbTypeOK, Counters, LogLine, Runs
<1>1. /\ UNCHANGED <<files, prog, bad, refs, missed, start, found, lost, changes, errors>>
  BY DEF LogLine, bounds
<1>2. CASE Len(fgets) = 2
  <2>1. /\ Put(SeqKey(count.seq + 1), Decoded(fgets)) /\ count' = Counted("seq") /\ Stays /\ todo' = {}
    BY <1>2 DEF LogLine
  <2>2. SeqKey(count.seq + 1) \in Nat
    BY <1>0 DEF SeqKey, Counters
  <2>3. count' \in Counters
    BY <1>0, <2>1, CountersStep
  <2>4. todo' \in SUBSET todo /\ pc' = pc /\ ended' = ended
        /\ IsFiniteSet(DOMAIN found') /\ (prog.src = "tree" => DOMAIN found' \cap todo' = {})
    BY <1>1, <2>1 DEF Stays, DbTypeOK
  <2> QED BY <1>0, <1>1, <2>1, <2>2, <2>3, <2>4, TypePut DEF Counters
<1>3. CASE ~(Len(fgets) = 2)
  <2>1. Aborts /\ UNCHANGED <<puts, count>>
    BY <1>3 DEF LogLine
  <2> QED BY <1>0, <1>1, <2>1, TypeAborts DEF Counters
<1> QED BY <1>2, <1>3

LEMMA TypeLoops ==
  ASSUME DbTypeOK, NEW k \in todo,
         Merge(k) \/ Convert(k) \/ StoreFails(k) \/ RefHash(k) \/ Candidate(k)
  PROVE  DbTypeOK'
<1>0. /\ count \in Counters /\ k \in Nat /\ errors \in Nat /\ todo \subseteq Nat
      /\ pc # "idle" => prog \in Programs
      /\ pc = "ref" => prog.name = "dbtransactor"
  BY DEF DbTypeOK, Counters
<1>1. CASE Merge(k)
  <2>1. /\ pc = "loop" /\ prog.name = "dbmerge" /\ prog.dst \in Stores
        /\ UNCHANGED <<files, prog, bad, refs, missed, changes, errors, start, found, lost>>
    BY <1>0, <1>1, ProgramFacts, StoreNames DEF Merge, Runs, bounds
  <2>2. CASE Matches(k)
    <3>1. Put(k, db["B"][k]) /\ todo' = todo \ {k} /\ Stays
      BY <1>1, <2>2 DEF Merge
    <3>2. count' \in Counters
      <4>1. PICK n \in {0, 1} : count' = [count EXCEPT !.nRecordsSrc = @ + 1, !.nRecordsMerged = @ + n]
        BY <1>1, <2>2 DEF Merge
      <4> QED BY <1>0, <4>1, CountersStep
    <3>3. todo' \in SUBSET todo /\ pc' = pc /\ ended' = ended
          /\ IsFiniteSet(DOMAIN found') /\ (prog.src = "tree" => DOMAIN found' \cap todo' = {})
      BY <2>1, <3>1 DEF Stays, DbTypeOK
    <3> QED BY <1>0, <2>1, <3>1, <3>2, <3>3, TypePut DEF Counters
  <2>3. CASE ~Matches(k)
    <3>1. Ends("error") /\ todo' = {} /\ count' = Counted("nRecordsSrc") /\ UNCHANGED <<db, puts>>
      BY <1>1, <2>3 DEF Merge
    <3>2. count' \in Counters
      BY <1>0, <3>1, CountersStep
    <3>3. IsFiniteSet(todo') /\ todo' \subseteq Nat
      BY <3>1, TodoStep
    <3> QED BY <2>1, <3>1, <3>2, <3>3, TypeQuiet DEF Counters, DbTypeOK, Ends
  <2> QED BY <2>2, <2>3
<1>2. CASE Convert(k)
  <2>1. /\ pc = "loop" /\ prog.dst \in Stores /\ prog.src \in Stores
        /\ UNCHANGED <<files, prog, bad, refs, missed, changes, errors, start, found, lost>>
        /\ Put(k, db[prog.src][k]) /\ todo' = todo \ {k} /\ Stays
    BY <1>0, <1>2, ProgramFacts, StoreNames DEF Convert, Runs, bounds
  <2>2. count' \in Counters
    BY <1>0, <1>2, CountersStep DEF Convert
  <2>3. todo' \in SUBSET todo /\ pc' = pc /\ ended' = ended
        /\ IsFiniteSet(DOMAIN found') /\ (prog.src = "tree" => DOMAIN found' \cap todo' = {})
    BY <2>1 DEF Stays, DbTypeOK
  <2> QED BY <1>0, <2>1, <2>2, <2>3, TypePut DEF Counters
<1>3. CASE StoreFails(k)
  <2>1. /\ UNCHANGED <<files, prog, bad, refs, missed, changes, start, puts, found, lost>>
        /\ pc = "loop" /\ errors' = errors + 1
    BY <1>3 DEF StoreFails, Fails, history, Runs
  <2>2. count' \in Counters
    <3>1. count' = count \/ \E n \in {0, 1} : count' = [count EXCEPT !.nRecordsSrc = @ + 1, !.nRecordsMerged = @ + n]
      BY <1>3 DEF StoreFails
    <3> QED BY <1>0, <3>1, CountersStep
  <2>3. CASE Aborts
    BY <2>1, <2>2, <2>3, TypeAborts DEF Counters
  <2>4. CASE Ends("error") /\ todo' = {} /\ db' = db
    <3>3. IsFiniteSet(todo') /\ todo' \subseteq Nat
      BY <2>4, TodoStep
    <3>4. (lost' => errors' > 0) /\ errors' \in Nat
      BY <1>0, <2>1 DEF DbTypeOK
    <3> QED BY <2>1, <2>2, <2>4, <3>3, <3>4, TypeQuiet DEF Counters, DbTypeOK, Ends
  <2> QED BY <1>3, <2>3, <2>4 DEF StoreFails
<1>4. CASE RefHash(k)
  <2>1. /\ todo' = todo \ {k} /\ refs' = refs \cup {db["A"][k]}
        /\ UNCHANGED <<files, db, prog, pc, ended, bad, missed, changes, errors, start,
                       puts, found, lost>>
    BY <1>4 DEF RefHash, RefsWith, bounds, history
  <2>2. count' \in Counters
    <3>1. \E n \in {0, 1} : count' = [count EXCEPT !.nRefFiles = @ + 1, !.nDuplicates = @ + n]
      BY <1>4 DEF RefHash
    <3> QED BY <1>0, <3>1, CountersStep
  <2>3. todo' \subseteq Nat /\ IsFiniteSet(todo') /\ IsFiniteSet(refs')
        /\ (prog.src = "tree" => DOMAIN found' \cap todo' = {})
    BY <2>1, TodoStep DEF DbTypeOK
  <2> QED BY <2>1, <2>2, <2>3, TypeQuiet DEF Counters, DbTypeOK
<1>5. CASE Candidate(k)
  <2>1. /\ todo' = todo \ {k} /\ missed' \in {missed, missed \cup {k}}
        /\ UNCHANGED <<files, db, prog, pc, ended, bad, refs, changes, errors, start, puts,
                       found, lost>>
        /\ count' \in {count, Counted("nMisses")}
    BY <1>5 DEF Candidate, bounds, history
  <2>2. count' \in Counters
    BY <1>0, <2>1, CountersStep
  <2>3. todo' \subseteq Nat /\ IsFiniteSet(todo') /\ IsFiniteSet(missed')
        /\ (prog.src = "tree" => DOMAIN found' \cap todo' = {})
    BY <2>1, TodoStep DEF DbTypeOK
  <2> QED BY <2>1, <2>2, <2>3, TypeQuiet DEF Counters, DbTypeOK
<1> QED BY <1>1, <1>2, <1>3, <1>4, <1>5

LEMMA TypeOthers ==
  ASSUME DbTypeOK,
         Unreadable \/ IterationError \/ Candidates \/ Finish \/ Crash \/ UNCHANGED vars
  PROVE  DbTypeOK'
<1>0. /\ count \in Counters /\ errors \in Nat /\ todo \subseteq Nat
      /\ pc # "idle" => prog \in Programs
  BY DEF DbTypeOK, Counters
<1>1. CASE Unreadable
  <2>1. /\ errors' = errors + 1 /\ bad' = TRUE /\ lost' = TRUE
        /\ todo' \in {{}, todo \ {Least(todo)}}
        /\ UNCHANGED <<files, db, prog, pc, ended, refs, missed, count, changes, start, puts, found>>
    BY <1>1 DEF Unreadable, Fails, output
  <2>2. todo' \subseteq Nat /\ IsFiniteSet(todo')
        /\ (prog.src = "tree" => DOMAIN found' \cap todo' = {})
    BY <2>1, TodoStep DEF DbTypeOK
  <2>3. errors' > 0 /\ errors' \in Nat
    BY <1>0, <2>1
  <2> QED BY <2>1, <2>2, <2>3, TypeQuiet DEF DbTypeOK
<1>2. CASE IterationError
  <2>1. /\ todo' = {}
        /\ UNCHANGED <<files, db, prog, pc, ended, bad, lost, refs, missed, count, changes,
                       errors, start, puts, found>>
    BY <1>2 DEF IterationError, output, bounds, history
  <2>2. todo' \subseteq Nat /\ IsFiniteSet(todo')
    BY <2>1, TodoStep
  <2> QED BY <2>1, <2>2, TypeQuiet DEF DbTypeOK
<1>3. CASE Candidates
  <2>1. /\ pc = "ref" /\ pc' = "loop" /\ todo' = DOMAIN db["B"] /\ bad' = FALSE
        /\ UNCHANGED <<files, db, prog, ended, lost, refs, missed, count, changes, errors,
                       start, puts, found>>
    BY <1>3 DEF Candidates, output, bounds, history
  <2>2. prog.name = "dbtransactor" /\ prog \in Programs
    BY <1>0, <2>1 DEF DbTypeOK
  <2>3. prog.src = "B"
    BY <2>2, ProgramFacts
  <2>4. todo' \subseteq Nat /\ IsFiniteSet(todo')
    BY <2>1, StoreNames DEF DbTypeOK
  <2> QED BY <2>1, <2>3, <2>4, TypeQuiet DEF DbTypeOK
<1>4. CASE Finish
  <2>1. /\ pc' = "idle" /\ ended' = "ok"
        /\ UNCHANGED <<files, db, prog, todo, bad, lost, refs, missed, count, changes,
                       errors, start, puts, found>>
    BY <1>4 DEF Finish, Ends, output, bounds, history
  <2> QED BY <2>1, TypeQuiet DEF DbTypeOK
<1>5. CASE Crash
  <2>1. /\ pc # "idle" /\ errors' = errors + 1 /\ Aborts
        /\ UNCHANGED <<files, prog, bad, lost, refs, missed, count, changes, start, puts, found>>
    BY <1>5 DEF Crash, Fails, output, history
  <2> QED BY <1>0, <2>1, TypeAborts DEF Counters
<1>6. CASE UNCHANGED vars
  BY <1>6 DEF vars, loop, output, bounds, history, DbTypeOK
<1> QED BY <1>1, <1>2, <1>3, <1>4, <1>5, <1>6

--------------------------------------------------------------------------------
(* Arrives: programs that write a store from a tree or from another store  *)

\* The programs that Arrives is about.
LEMMA WritesFacts ==
  ASSUME DbTypeOK, Writes
  PROVE  /\ prog \in Programs /\ prog.dst \in Stores /\ prog.src # prog.dst
         /\ prog.name \in {"ftwdb", "dbmerge", "leveldb_to_bdb", "bdb_to_leveldb"}
         /\ prog.name = "ftwdb" <=> prog.src = "tree"
         /\ prog.src \in Stores \cup {"tree"}
<1>1. prog \in Programs
  BY StoreNames DEF DbTypeOK, Writes
<1>2. prog.name \in {"ftwdb", "dbmerge", "leveldb_to_bdb", "bdb_to_leveldb"}
  BY <1>1, ProgramFacts, StoreNames DEF Writes
<1> QED BY <1>1, <1>2, ProgramFacts, StoreNames DEF Writes

LEMMA ArrivesStart ==
  ASSUME DbTypeOK, NEW p \in Programs, Start(p)  PROVE Arrives'
<1> SUFFICES ASSUME Writes'  PROVE Arrives'
  BY DEF Arrives
<1>1. /\ prog' = p /\ pc' \in {"ref", "loop"} /\ start' = db /\ db' = db /\ files' = files
      /\ found' = NoMap /\ DOMAIN NoMap = {}
      /\ (p.name # "dbtransactor" => pc' = "loop")
  BY DEF Start, NoMap
<1>2. p.src \in Stores \cup {"tree"} /\ p.name # "dbtransactor"
  BY <1>1 DEF Writes
<1>3. ~EndedWell'
  BY <1>1 DEF EndedWell
<1>4. CASE p.src = "tree"
  <2>1. todo' = {q \in Paths : files[q] # NoFile}
    <3> DEFINE Present == {q \in Paths : files[q] # NoFile}
    <3>1. todo' = CASE p.src = "tree" -> Present
                    [] p.src = "log" -> {}
                    [] p.name = "dbtransactor" -> DOMAIN db["A"]
                    [] OTHER -> DOMAIN db[p.src]
      BY DEF Start
    <3> HIDE DEF Present
    <3>2. todo' = Present
      BY <1>2, <1>4, <3>1
    <3> QED BY <3>2 DEF Present
  <2>2. Read' = {}
    BY <1>1, <1>4 DEF Read
  <2> QED BY <1>1, <1>3, <1>4, <2>1, <2>2 DEF Arrives
<1>5. CASE p.src # "tree"
  <2>1. p.src \in Stores /\ p.src # "log"
    BY <1>2, <1>5, StoreNames
  <2>2. todo' = DOMAIN db[p.src]
    BY <1>2, <1>5, <2>1 DEF Start
  <2>3. Read' = {}
    BY <1>1, <1>5, <2>2 DEF Read
  <2> QED BY <1>1, <1>3, <1>5, <2>2, <2>3 DEF Arrives
<1> QED BY <1>4, <1>5

\* A step that puts the hash of a key it has come to.
LEMMA ArrivesPut ==
  ASSUME DbTypeOK, Arrives, Writes, pc = "loop", NEW k \in todo, NEW v, Put(k, v),
         todo' = todo \ {k}, prog' = prog, pc' = pc, ended' = ended, start' = start,
         lost' = lost, files' = files, errors' = errors, changes' = changes,
         \/ prog.src = "tree" /\ found' = With(found, k, v)
         \/ prog.src # "tree" /\ found' = found /\ v = db[prog.src][k]
  PROVE  Arrives'
<1> DEFINE d == prog.dst
<1>1. /\ d \in Stores /\ prog.src # d /\ k \in Nat
      /\ prog.src \in Stores \cup {"tree"} /\ Writes'
  BY WritesFacts DEF DbTypeOK, Writes
<1>2. /\ \A s \in Stores : s # d => db'[s] = db[s]
      /\ DOMAIN db'[d] = DOMAIN db[d] \cup {k} /\ db'[d][k] = v
      /\ \A x \in DOMAIN db[d] : x # k => db'[d][x] = db[d][x]
      /\ DOMAIN start[d] \subseteq DOMAIN db'[d]
  BY <1>1, PutStep
<1>3. /\ \A x \in DOMAIN db[d] : \/ x \in DOMAIN start[d] /\ db[d][x] = start[d][x]
                                 \/ x \in DOMAIN Source /\ db[d][x] = Source[x]
      /\ ~lost => \A x \in Read : x \in DOMAIN db[d] /\ db[d][x] = Source[x]
      /\ prog.src # "tree" => todo \subseteq DOMAIN db[prog.src]
      /\ prog.src = "tree" /\ changes = 0 /\ (d = "bdb" => errors = 0) =>
           {p \in Paths : files[p] # NoFile} = DOMAIN found \cup todo
  BY DEF Arrives
<1>4. ~EndedWell'
  BY DEF EndedWell
<1>5. CASE prog.src = "tree"
  <2>1. /\ Source = found /\ Source' = found' /\ Read = DOMAIN found /\ Read' = DOMAIN found'
        /\ DOMAIN found' = DOMAIN found \cup {k} /\ found'[k] = v
        /\ \A x \in DOMAIN found : x # k => found'[x] = found[x]
    BY <1>5 DEF Source, Read, With
  <2> HIDE DEF d
  <2>2. \A x \in DOMAIN db'[d] : \/ x \in DOMAIN start[d] /\ db'[d][x] = start[d][x]
                                 \/ x \in DOMAIN Source' /\ db'[d][x] = Source'[x]
    BY <1>2, <1>3, <2>1
  <2>3. ~lost => \A x \in Read' : x \in DOMAIN db'[d] /\ db'[d][x] = Source'[x]
    BY <1>2, <1>3, <2>1
  <2>4. DOMAIN found' \cup todo' = DOMAIN found \cup todo
    BY <2>1
  <2> QED BY <1>1, <1>2, <1>3, <1>4, <1>5, <2>2, <2>3, <2>4 DEF Arrives, d
<1>6. CASE prog.src # "tree"
  <2>1. /\ Source = db[prog.src] /\ Source' = Source /\ prog.src \in Stores
        /\ db'[prog.src] = db[prog.src] /\ v = Source[k] /\ k \in DOMAIN Source
        /\ Read = DOMAIN Source \ todo /\ Read' = DOMAIN Source \ todo'
    BY <1>1, <1>2, <1>3, <1>6 DEF Source, Read
  <2> HIDE DEF d
  <2>2. \A x \in DOMAIN db'[d] : \/ x \in DOMAIN start[d] /\ db'[d][x] = start[d][x]
                                 \/ x \in DOMAIN Source' /\ db'[d][x] = Source'[x]
    BY <1>2, <1>3, <2>1
  <2>3. ~lost => \A x \in Read' : x \in DOMAIN db'[d] /\ db'[d][x] = Source'[x]
    BY <1>2, <1>3, <2>1
  <2> QED BY <1>1, <1>2, <1>3, <1>4, <1>6, <2>1, <2>2, <2>3 DEF Arrives, d
<1> QED BY <1>5, <1>6

\* A program that is killed: each key has what it had, or what was read.
LEMMA ArrivesAborts ==
  ASSUME DbTypeOK, Arrives, pc # "idle", Aborts,
         prog' = prog, start' = start, found' = found
  PROVE  Arrives'
<1> SUFFICES ASSUME Writes  PROVE Arrives'
  BY DEF Arrives, Writes
<1> DEFINE d == prog.dst
<1>1. d \in Stores /\ prog.src # d /\ prog.src \in Stores \cup {"tree"}
  BY WritesFacts
<1>2. /\ pc' = "idle" /\ ended' = "aborted"
      /\ \A s \in Stores : s # d => db'[s] = db[s]
      /\ DOMAIN db'[d] \subseteq DOMAIN db[d] /\ DOMAIN start[d] \subseteq DOMAIN db'[d]
      /\ \A x \in DOMAIN db'[d] : \/ x \in DOMAIN start[d] /\ db'[d][x] = start[d][x]
                                  \/ db'[d][x] = db[d][x]
  BY <1>1, AbortStep
<1>3. \A x \in DOMAIN db[d] : \/ x \in DOMAIN start[d] /\ db[d][x] = start[d][x]
                              \/ x \in DOMAIN Source /\ db[d][x] = Source[x]
  BY DEF Arrives
<1>4. Source' = Source
  BY <1>1, <1>2 DEF Source
<1>5. ~EndedWell' /\ pc' # "loop"
  BY <1>2 DEF EndedWell
<1> HIDE DEF d
<1>6. \A x \in DOMAIN db'[d] : \/ x \in DOMAIN start[d] /\ db'[d][x] = start[d][x]
                               \/ x \in DOMAIN Source' /\ db'[d][x] = Source'[x]
  BY <1>2, <1>3, <1>4
<1> QED BY <1>2, <1>5, <1>6 DEF Arrives, d

\* A step that ends the program with an error, or goes on without the key.
LEMMA ArrivesQuiet ==
  ASSUME DbTypeOK, Arrives, prog' = prog, start' = start, found' = found, db' = db,
         \/ pc' = "idle" /\ ended' = "error"
         \/ pc' = pc /\ ended' = ended /\ (lost => lost') /\ todo' = todo /\ files' = files
            /\ changes' = changes /\ errors' = errors
  PROVE  Arrives'
<1>1. Source' = Source /\ Writes' = Writes
  BY DEF Source, Writes
<1>2. CASE pc' = "idle" /\ ended' = "error"
  BY <1>1, <1>2 DEF Arrives, EndedWell
<1>3. CASE pc' = pc /\ ended' = ended /\ (lost => lost') /\ todo' = todo /\ files' = files
            /\ changes' = changes /\ errors' = errors
  BY <1>1, <1>3 DEF Arrives, EndedWell, Read
<1> QED BY <1>2, <1>3

LEMMA ArrivesWalks ==
  ASSUME DbTypeOK, Arrives, NEW k \in todo,
         Visit(k) \/ VisitFails(k) \/ VisitLog(k) \/ Gone(k)
  PROVE  Arrives'
<1> SUFFICES ASSUME Writes  PROVE Arrives'
  <2>1. prog' = prog
    BY DEF Visit, VisitFails, VisitLog, Gone
  <2> QED BY <2>1 DEF Arrives, Writes
<1>0. /\ prog \in Programs /\ prog.dst \in Stores /\ prog.name # "ftwdb2log"
      /\ prog.name = "ftwdb" <=> prog.src = "tree"
      /\ files \in [Paths -> Contents \cup {NoFile}] /\ errors \in Nat
  BY WritesFacts DEF DbTypeOK
<1>1. CASE Visit(k)
  <2>1. /\ pc = "loop" /\ prog.src = "tree" /\ Put(k, md5sum(k)) /\ todo' = todo \ {k}
        /\ prog' = prog /\ pc' = pc /\ ended' = ended /\ start' = start /\ lost' = lost
        /\ files' = files /\ errors' = errors /\ changes' = changes
        /\ found' = With(found, k, md5sum(k))
    BY <1>0, <1>1 DEF Visit, Runs, Stays, bounds
  <2> QED BY <2>1, ArrivesPut
<1>2. CASE VisitFails(k)
  <2>1. /\ pc = "loop" /\ prog.src = "tree" /\ prog' = prog /\ start' = start /\ found' = found
        /\ errors' = errors + 1 /\ lost' = lost /\ files' = files /\ changes' = changes
    BY <1>0, <1>2 DEF VisitFails, Runs, Fails, history
  <2>2. CASE Aborts
    BY <2>1, <2>2, ArrivesAborts
  <2>3. CASE Ends("error") /\ db' = db
    BY <2>1, <2>3, ArrivesQuiet DEF Ends
  <2>4. CASE prog.dst = "bdb" /\ Stays /\ db' = db
    <3>1. /\ pc' = pc /\ ended' = ended /\ Source' = Source /\ Read' = Read /\ errors' # 0 /\ Writes'
          /\ ~EndedWell'
      BY <1>0, <2>1, <2>4 DEF Stays, Source, Read, Writes, EndedWell
    <3> QED BY <2>1, <2>4, <3>1 DEF Arrives
  <2> QED BY <1>2, <2>2, <2>3, <2>4 DEF VisitFails
<1>3. CASE VisitLog(k)
  BY <1>0, <1>3 DEF VisitLog, Runs
<1>4. CASE Gone(k)
  <2>1. /\ pc = "loop" /\ prog.src = "tree" /\ prog' = prog /\ start' = start /\ found' = found
        /\ lost' = lost /\ files' = files /\ changes' = changes /\ errors' = errors
        /\ pc' = pc /\ ended' = ended /\ db' = db
        /\ files[k] = NoFile /\ todo' = todo \ {k}
    BY <1>0, <1>4 DEF Gone, Runs, bounds, history
  <2>2. Source' = Source /\ Read' = Read /\ Writes' /\ ~EndedWell'
    BY <2>1 DEF Source, Read, Writes, EndedWell
  <2>3. prog.src = "tree" /\ changes = 0 /\ (prog.dst = "bdb" => errors = 0) =>
          {p \in Paths : files[p] # NoFile} = DOMAIN found \cup todo'
    <3> DEFINE P == {p \in Paths : files[p] # NoFile}
    <3>1. k \notin P
      BY <2>1
    <3>2. changes = 0 /\ (prog.dst = "bdb" => errors = 0) => P = DOMAIN found \cup todo
      BY <2>1 DEF Arrives
    <3> HIDE DEF P
    <3>3. changes = 0 /\ (prog.dst = "bdb" => errors = 0) => P = DOMAIN found \cup todo'
      BY <2>1, <3>1, <3>2
    <3> QED BY <3>3 DEF P
  <2> QED BY <2>1, <2>2, <2>3 DEF Arrives
<1> QED BY <1>1, <1>2, <1>3, <1>4

LEMMA ArrivesLoops ==
  ASSUME DbTypeOK, Arrives, NEW k \in todo,
         Merge(k) \/ Convert(k) \/ StoreFails(k) \/ RefHash(k) \/ Candidate(k)
  PROVE  Arrives'
<1> SUFFICES ASSUME Writes  PROVE Arrives'
  <2>1. prog' = prog
    BY DEF Merge, Convert, StoreFails, RefHash, Candidate
  <2> QED BY <2>1 DEF Arrives, Writes
<1>0. /\ prog \in Programs /\ prog.name # "dbtransactor"
      /\ prog.name = "ftwdb" <=> prog.src = "tree"
      /\ prog.name = "dbmerge" => prog.src = "B"
      /\ pc # "ref"
  BY WritesFacts, ProgramFacts DEF DbTypeOK
<1>1. CASE Merge(k)
  <2>1. /\ pc = "loop" /\ prog.src = "B" /\ prog.src # "tree"
        /\ prog' = prog /\ start' = start /\ lost' = lost /\ found' = found
        /\ files' = files /\ errors' = errors /\ changes' = changes
    BY <1>0, <1>1 DEF Merge, Runs, bounds
  <2>2. CASE Matches(k)
    <3>1. Put(k, db["B"][k]) /\ todo' = todo \ {k} /\ pc' = pc /\ ended' = ended
      BY <1>1, <2>2 DEF Merge, Stays
    <3> QED BY <2>1, <3>1, ArrivesPut
  <2>3. CASE ~Matches(k)
    <3>1. pc' = "idle" /\ ended' = "error" /\ db' = db
      BY <1>1, <2>3 DEF Merge, Ends
    <3> QED BY <2>1, <3>1, ArrivesQuiet
  <2> QED BY <2>2, <2>3
<1>2. CASE Convert(k)
  <2>1. /\ pc = "loop" /\ prog.src # "tree"
        /\ prog' = prog /\ start' = start /\ lost' = lost /\ found' = found
        /\ files' = files /\ errors' = errors /\ changes' = changes
        /\ Put(k, db[prog.src][k]) /\ todo' = todo \ {k} /\ pc' = pc /\ ended' = ended
    BY <1>0, <1>2 DEF Convert, Runs, bounds, Stays
  <2> QED BY <2>1, ArrivesPut
<1>3. CASE StoreFails(k)
  <2>1. /\ pc = "loop" /\ prog' = prog /\ start' = start /\ found' = found
    BY <1>3 DEF StoreFails, Runs, history
  <2>2. CASE Aborts
    BY <2>1, <2>2, ArrivesAborts
  <2>3. CASE Ends("error") /\ db' = db
    BY <2>1, <2>3, ArrivesQuiet DEF Ends
  <2> QED BY <1>3, <2>2, <2>3 DEF StoreFails
<1>4. CASE RefHash(k) \/ Candidate(k)
  BY <1>0, <1>4 DEF RefHash, Candidate, Runs
<1> QED BY <1>1, <1>2, <1>3, <1>4

LEMMA ArrivesOthers ==
  ASSUME DbTypeOK, Arrives,
         LogLine \/ Unreadable \/ IterationError \/ Candidates \/ Finish \/ Crash \/ UNCHANGED vars
         \/ \E f \in Paths : Change(f)
  PROVE  Arrives'
<1> SUFFICES ASSUME Writes  PROVE Arrives'
  <2>1. prog' = prog
    BY DEF LogLine, Unreadable, IterationError, Candidates, Finish, Crash, vars, Change
  <2> QED BY <2>1 DEF Arrives, Writes
<1>0. /\ prog \in Programs /\ prog.name \notin {"dbtransactor", "log2leveldb"}
      /\ prog.name = "ftwdb" <=> prog.src = "tree"
      /\ pc # "ref" /\ pc \in {"idle", "loop"} /\ prog.src # "log"
      /\ changes \in Nat /\ (bad => lost)
  BY WritesFacts, StoreNames DEF DbTypeOK
<1>1. CASE LogLine
  BY <1>0, <1>1 DEF LogLine, Runs
<1>2. CASE Unreadable \/ IterationError
  <2>1. /\ prog' = prog /\ start' = start /\ found' = found /\ db' = db /\ pc' = pc /\ ended' = ended
        /\ lost' /\ todo' \subseteq todo /\ pc = "loop" /\ prog.src # "tree"
    BY <1>0, <1>2, StoreNames DEF Unreadable, IterationError, history, Looks
  <2>2. Source' = Source /\ Writes' /\ ~EndedWell'
    BY <2>1 DEF Source, Writes, EndedWell
  <2> QED BY <2>1, <2>2 DEF Arrives
<1>3. CASE Candidates
  BY <1>0, <1>3 DEF Candidates
<1>4. CASE Finish
  <2>1. /\ prog' = prog /\ start' = start /\ found' = found /\ db' = db /\ pc = "loop" /\ pc' = "idle"
        /\ ended' = "ok" /\ lost' = lost /\ todo = {} /\ todo' = todo /\ files' = files
        /\ changes' = changes /\ errors' = errors
    BY <1>4 DEF Finish, Ends, bounds, history
  <2>2. Source' = Source /\ Writes' /\ Read' = Read
    BY <2>1 DEF Source, Writes, Read
  <2> QED BY <2>1, <2>2 DEF Arrives, EndedWell
<1>5. CASE Crash
  <2>1. pc # "idle" /\ Aborts /\ prog' = prog /\ start' = start /\ found' = found
    BY <1>5 DEF Crash, history
  <2> QED BY <2>1, ArrivesAborts
<1>6. CASE UNCHANGED vars
  BY <1>6, ArrivesQuiet DEF vars, loop, history, bounds
<1>7. CASE \E f \in Paths : Change(f)
  <2>1. /\ prog' = prog /\ start' = start /\ found' = found /\ db' = db /\ pc' = pc /\ ended' = ended
        /\ lost' = lost /\ todo' = todo /\ errors' = errors /\ changes' = changes + 1 /\ prog.src = "tree"
    BY <1>7 DEF Change, loop, output, history
  <2>2. Source' = Source /\ Writes' /\ Read' = Read /\ EndedWell' = EndedWell /\ changes' # 0
    BY <1>0, <2>1 DEF Source, Writes, Read, EndedWell
  <2> QED BY <2>1, <2>2 DEF Arrives
<1> QED BY <1>1, <1>2, <1>3, <1>4, <1>5, <1>6, <1>7

LEMMA ArrivesInit == Init => Arrives
  BY StoreNames DEF Init, Arrives, Writes

--------------------------------------------------------------------------------
(* Merged: dbmerge                                                         *)

\* What a program starts with.
LEMMA TodoOfStart ==
  ASSUME NEW p \in Programs, Start(p)
  PROVE  /\ p.name = "dbmerge" => todo' = DOMAIN db["B"]
         /\ p.name = "dbtransactor" => todo' = DOMAIN db["A"]
         /\ p.name = "ftwdb2log" => todo' \subseteq Paths
<1> DEFINE Present == {q \in Paths : files[q] # NoFile}
<1>1. todo' = CASE p.src = "tree" -> Present
                [] p.src = "log" -> {}
                [] p.name = "dbtransactor" -> DOMAIN db["A"]
                [] OTHER -> DOMAIN db[p.src]
  BY DEF Start
<1>4. Present \subseteq Paths
  OBVIOUS
<1> HIDE DEF Present
<1>5. p.name = "ftwdb2log" => p.src = "tree"
  BY ProgramFacts
<1>2. p.name = "dbmerge" => p.src = "B"
  BY ProgramFacts
<1>3. p.name = "dbtransactor" => p.src = "B"
  BY ProgramFacts
<1> QED BY <1>1, <1>2, <1>3, <1>4, <1>5

\* What the counters are compared with are numbers.
LEMMA SizesOfStores ==
  ASSUME DbTypeOK
  PROVE  /\ \A s \in {"A", "B"} : /\ s \in Stores /\ IsFiniteSet(DOMAIN db[s])
                                 /\ Cardinality(DOMAIN db[s]) \in Nat
                                 /\ Cardinality(DOMAIN start[s]) \in Nat
         /\ IsFiniteSet(todo) /\ Cardinality(todo) \in Nat
         /\ \A k \in todo : Cardinality(todo \ {k}) + 1 = Cardinality(todo) /\ Cardinality(todo \ {k}) \in Nat
         /\ IsFiniteSet(refs) /\ Cardinality(refs) \in Nat
         /\ IsFiniteSet(missed) /\ Cardinality(missed) \in Nat
         /\ count.nRecordsSrc \in Nat /\ count.nRecordsMerged \in Nat /\ count.nRefFiles \in Nat
         /\ count.nDuplicates \in Nat /\ count.nMisses \in Nat /\ count.seq \in Nat
<1>1. /\ \A s \in Stores : IsFiniteSet(DOMAIN db[s])
      /\ \A s \in Stores : IsFiniteSet(DOMAIN start[s])
      /\ IsFiniteSet(todo) /\ IsFiniteSet(refs) /\ IsFiniteSet(missed)
      /\ "A" \in Stores /\ "B" \in Stores
  BY StoreNames DEF DbTypeOK
<1>2. ASSUME NEW s \in Stores
      PROVE  Cardinality(DOMAIN db[s]) \in Nat /\ Cardinality(DOMAIN start[s]) \in Nat
  <2> DEFINE D == DOMAIN db[s]
             S == DOMAIN start[s]
  <2>1. IsFiniteSet(D) /\ IsFiniteSet(S)
    BY <1>1
  <2> HIDE DEF D, S
  <2>2. Cardinality(D) \in Nat /\ Cardinality(S) \in Nat
    BY <2>1, FS_CardinalityType
  <2> QED BY <2>2 DEF D, S
<1>3. Cardinality(todo) \in Nat /\ Cardinality(refs) \in Nat /\ Cardinality(missed) \in Nat
  BY <1>1, FS_CardinalityType
<1>4. ASSUME NEW k \in todo
      PROVE  Cardinality(todo \ {k}) + 1 = Cardinality(todo) /\ Cardinality(todo \ {k}) \in Nat
  <2>1. IsFiniteSet(todo \ {k}) /\ Cardinality(todo \ {k}) = Cardinality(todo) - 1
    BY <1>1, FS_RemoveElement
  <2>2. Cardinality(todo \ {k}) \in Nat
    BY <2>1, FS_CardinalityType
  <2> QED BY <1>3, <2>1, <2>2
<1>5. /\ count.nRecordsSrc \in Nat /\ count.nRecordsMerged \in Nat /\ count.nRefFiles \in Nat
      /\ count.nDuplicates \in Nat /\ count.nMisses \in Nat /\ count.seq \in Nat
  BY DEF DbTypeOK
<1> QED BY <1>1, <1>2, <1>3, <1>4, <1>5

LEMMA MergedStart ==
  ASSUME DbTypeOK, NEW p \in Programs, Start(p)  PROVE Merged'
<1> SUFFICES ASSUME p.name = "dbmerge"  PROVE Merged'
  BY DEF Merged, Start
<1>1. /\ prog' = p /\ start' = db /\ db' = db /\ ended' = "ok" /\ pc' = "loop"
      /\ count' = NoCounts /\ errors' = errors /\ ~EndedWell'
  BY DEF Start, EndedWell
<1>2. todo' = DOMAIN db["B"]
  BY TodoOfStart
<1>3. NoCounts.nRecordsMerged = 0 /\ NoCounts.nRecordsSrc = 0
  BY DEF NoCounts
<1>4. Cardinality(DOMAIN db["A"]) \in Nat /\ Cardinality(DOMAIN db["B"]) \in Nat
  BY SizesOfStores
<1>5. 0 + Cardinality(DOMAIN db["A"]) = Cardinality(DOMAIN db["A"])
      /\ 0 + Cardinality(DOMAIN db["B"]) = Cardinality(DOMAIN db["B"])
  BY <1>4
<1> QED BY <1>1, <1>2, <1>3, <1>5 DEF Merged

\* A key is merged, or the loop is left at a hash that differs: as the keys come in
\* their order, those before it have arrived and none of those behind it.
LEMMA MergedMerge ==
  ASSUME DbTypeOK, Arrives, Merged, NEW k \in todo, Merge(k)  PROVE Merged'
<1>0. /\ pc = "loop" /\ prog.name = "dbmerge" /\ prog.src = "B" /\ prog.dst = "A" /\ Writes
      /\ prog \in Programs /\ "A" \in Stores /\ "B" \in Stores
      /\ UNCHANGED <<prog, errors, start, lost>> /\ todo \subseteq Nat /\ k \in Nat
  BY ProgramFacts, StoreNames DEF Merge, Runs, bounds, DbTypeOK, Writes
<1>1. /\ \A x \in DOMAIN start["A"] : x \in DOMAIN db["A"] /\ db["A"][x] = start["A"][x]
      /\ count.nRecordsMerged + Cardinality(DOMAIN start["A"]) = Cardinality(DOMAIN db["A"])
      /\ ~lost => count.nRecordsSrc + Cardinality(todo) = Cardinality(DOMAIN db["B"])
      /\ errors = 0 =>
           /\ \A x \in todo, j \in DOMAIN db["B"] \ todo : j < x
           /\ \A x \in todo : x \in DOMAIN db["A"] => x \in DOMAIN start["A"]
  BY <1>0 DEF Merged
<1>2. k = Least(todo) /\ \A j \in todo : k <= j
  BY <1>0, LeastOfSet DEF Merge, At
<1>3. todo \subseteq DOMAIN db["B"]
  BY <1>0 DEF Arrives
<1>4. lost => errors > 0
  BY DEF DbTypeOK
<1>5. CASE Matches(k)
  <2>1. /\ Put(k, db["B"][k]) /\ todo' = todo \ {k} /\ pc' = pc /\ ended' = ended
        /\ count' = [count EXCEPT !.nRecordsSrc = @ + 1,
                                  !.nRecordsMerged = @ + IF k \in DOMAIN db["A"] THEN 0 ELSE 1]
    BY <1>5 DEF Merge, Stays
  <2>2. /\ db'["B"] = db["B"] /\ DOMAIN db'["A"] = DOMAIN db["A"] \cup {k} /\ db'["A"][k] = db["B"][k]
        /\ \A x \in DOMAIN db["A"] : x # k => db'["A"][x] = db["A"][x]
    BY <1>0, <2>1, PutStep
  <2>3. \A x \in DOMAIN start["A"] : x \in DOMAIN db'["A"] /\ db'["A"][x] = start["A"][x]
    BY <1>1, <1>5, <2>2 DEF Matches
  <2>4. count'.nRecordsMerged + Cardinality(DOMAIN start["A"]) = Cardinality(DOMAIN db'["A"])
    <3> DEFINE D == DOMAIN db["A"]
    <3>1. Cardinality(D \cup {k}) = IF k \in D THEN Cardinality(D) ELSE Cardinality(D) + 1
      <4>1. IsFiniteSet(D)
        BY SizesOfStores
      <4> HIDE DEF D
      <4> QED BY <4>1, FS_AddElement
    <3>2. count'.nRecordsMerged = count.nRecordsMerged + IF k \in D THEN 0 ELSE 1
      BY <2>1 DEF DbTypeOK
    <3>3. Cardinality(D) \in Nat /\ Cardinality(DOMAIN start["A"]) \in Nat /\ count.nRecordsMerged \in Nat
      BY SizesOfStores
    <3> QED BY <1>1, <2>2, <3>1, <3>2, <3>3
  <2>5. ~lost => count'.nRecordsSrc + Cardinality(todo') = Cardinality(DOMAIN db'["B"])
    <3>1. count'.nRecordsSrc = count.nRecordsSrc + 1
      BY <2>1 DEF DbTypeOK
    <3>2. Cardinality(todo') + 1 = Cardinality(todo) /\ count.nRecordsSrc \in Nat
          /\ Cardinality(todo) \in Nat /\ Cardinality(todo') \in Nat
      <4>1. Cardinality(todo \ {k}) + 1 = Cardinality(todo) /\ IsFiniteSet(todo)
        BY SizesOfStores
      <4>2. Cardinality(todo \ {k}) \in Nat
        BY <4>1, FS_RemoveElement, FS_CardinalityType
      <4> QED BY <2>1, <4>1, <4>2, SizesOfStores
    <3> QED BY <1>1, <2>2, <3>1, <3>2
  <2>6. errors = 0 =>
           /\ \A x \in todo', j \in DOMAIN db'["B"] \ todo' : j < x
           /\ \A x \in todo' : x \in DOMAIN db'["A"] => x \in DOMAIN start["A"]
    <3> SUFFICES ASSUME errors = 0, NEW x \in todo'
                 PROVE  /\ \A j \in DOMAIN db["B"] \ todo' : j < x
                        /\ x \in DOMAIN db'["A"] => x \in DOMAIN start["A"]
      BY <2>2
    <3>1. x \in todo /\ x # k /\ k < x
      BY <1>0, <1>2, <2>1
    <3>2. \A j \in DOMAIN db["B"] \ todo' : j = k \/ j \in DOMAIN db["B"] \ todo
      BY <2>1
    <3> QED BY <1>1, <2>2, <3>1, <3>2
  <2>8. ended' # "error"
    BY <1>0, <2>1 DEF DbTypeOK
  <2>9. ~EndedWell'
    BY <1>0, <2>1 DEF EndedWell
  <2> QED BY <1>0, <2>1, <2>2, <2>3, <2>4, <2>5, <2>6, <2>8, <2>9 DEF Merged
<1>6. CASE ~Matches(k)
  <2>1. pc' = "idle" /\ ended' = "error" /\ todo' = {} /\ UNCHANGED db
    BY <1>6 DEF Merge, Ends
  <2>2. k \in DOMAIN db["A"] /\ db["A"][k] # db["B"][k]
    BY <1>6 DEF Matches
  <2>3. ASSUME errors = 0
        PROVE  /\ k \in DOMAIN start["A"] \cap DOMAIN db["B"] /\ start["A"][k] # db["B"][k]
               /\ \A j \in DOMAIN db["B"] :
                    IF j < k THEN j \in DOMAIN db["A"] /\ db["A"][j] = db["B"][j]
                    ELSE j \in DOMAIN db["A"] => j \in DOMAIN start["A"]
    <3>1. k \in DOMAIN start["A"] \cap DOMAIN db["B"] /\ start["A"][k] # db["B"][k]
      BY <1>1, <1>3, <2>2, <2>3
    <3>2. ~lost /\ Source = db["B"] /\ Read = DOMAIN db["B"] \ todo
      BY <1>0, <1>4, <2>3 DEF Source, Read
    <3>3. \A j \in DOMAIN db["B"] \ todo : j \in DOMAIN db["A"] /\ db["A"][j] = db["B"][j]
      BY <1>0, <3>2 DEF Arrives
    <3>4. \A j \in DOMAIN db["B"] : j \in Nat
      BY <1>0 DEF DbTypeOK
    <3>5. ASSUME NEW j \in DOMAIN db["B"], j < k  PROVE j \in DOMAIN db["A"] /\ db["A"][j] = db["B"][j]
      <4>1. j \notin todo
        BY <1>0, <1>2, <3>4, <3>5
      <4> QED BY <3>3, <4>1
    <3>6. ASSUME NEW j \in DOMAIN db["B"], ~(j < k), j \in DOMAIN db["A"]  PROVE j \in DOMAIN start["A"]
      <4>1. j \in todo
        BY <1>1, <2>3, <3>6
      <4> QED BY <1>1, <2>3, <3>6, <4>1
    <3> QED BY <3>1, <3>5, <3>6
  <2>4. ~EndedWell' /\ pc' # "loop"
    BY <2>1 DEF EndedWell
  <2> QED BY <1>0, <1>1, <2>1, <2>3, <2>4 DEF Merged
<1> QED BY <1>5, <1>6

\* A merge that is cut short.
LEMMA MergedCut ==
  ASSUME Merged, prog.name = "dbmerge", prog' = prog, start' = start, errors' # 0,
         pc' = "idle", ended' # "ok",
         \A x \in DOMAIN start["A"] : x \in DOMAIN db'["A"] /\ db'["A"][x] = start["A"][x]
  PROVE  Merged'
BY DEF Merged, EndedWell

LEMMA MergedAborts ==
  ASSUME DbTypeOK, Merged, prog.name = "dbmerge", pc # "idle", Aborts,
         prog' = prog, start' = start, errors' # 0
  PROVE  Merged'
<1>1. prog \in Programs /\ prog.dst = "A" /\ "A" \in Stores
  BY ProgramFacts, StoreNames DEF DbTypeOK
<1>2. /\ DOMAIN start["A"] \subseteq DOMAIN db'["A"] /\ pc' = "idle" /\ ended' = "aborted"
      /\ \A x \in DOMAIN db'["A"] :
           \/ x \in DOMAIN start["A"] /\ db'["A"][x] = start["A"][x]
           \/ db'["A"][x] = db["A"][x]
  BY <1>1, AbortStep
<1>3. \A x \in DOMAIN start["A"] : x \in DOMAIN db["A"] /\ db["A"][x] = start["A"][x]
  BY DEF Merged
<1>4. \A x \in DOMAIN start["A"] : x \in DOMAIN db'["A"] /\ db'["A"][x] = start["A"][x]
  BY <1>2, <1>3
<1> QED BY <1>2, <1>4, MergedCut

LEMMA MergedOthers ==
  ASSUME DbTypeOK, Merged, prog.name = "dbmerge",
         Unreadable \/ IterationError \/ Finish \/ Crash \/ \E k \in todo : StoreFails(k)
  PROVE  Merged'
<1>0. /\ prog \in Programs /\ errors \in Nat /\ (bad => lost) /\ (lost => errors > 0)
      /\ (pc # "idle" => ended = "ok") /\ pc \in {"idle", "loop"} /\ prog.src = "B"
  BY ProgramFacts DEF DbTypeOK
<1>a. errors + 1 # 0
  BY <1>0
<1>1. CASE Unreadable
  <2>1. /\ errors' # 0 /\ lost' /\ pc' = pc /\ ended' = "ok" /\ pc = "loop"
        /\ prog' = prog /\ db' = db /\ start' = start /\ count' = count
    BY <1>0, <1>a, <1>1 DEF Unreadable, Fails, output
  <2> QED BY <2>1 DEF Merged, EndedWell
<1>2. CASE IterationError
  <2>1. /\ errors' # 0 /\ lost' /\ pc' = pc /\ ended' = "ok" /\ pc = "loop"
        /\ prog' = prog /\ db' = db /\ start' = start /\ count' = count
    BY <1>0, <1>2 DEF IterationError, output, bounds, history
  <2> QED BY <2>1 DEF Merged, EndedWell
<1>3. CASE Finish
  <2>1. /\ pc = "loop" /\ pc' = "idle" /\ ended' = "ok" /\ todo' = todo /\ lost' = lost
        /\ prog' = prog /\ db' = db /\ start' = start /\ count' = count
    BY <1>3 DEF Finish, Ends, output, history
  <2> QED BY <2>1 DEF Merged, EndedWell
<1>4. CASE Crash
  <2>1. pc # "idle" /\ Aborts /\ prog' = prog /\ start' = start /\ errors' # 0
    BY <1>a, <1>4 DEF Crash, Fails, history
  <2> QED BY <2>1, MergedAborts
<1>5. ASSUME NEW k \in todo, StoreFails(k)  PROVE Merged'
  <2>1. pc' = "idle" /\ ended' = "error" /\ db' = db /\ prog' = prog /\ start' = start /\ errors' # 0
    BY <1>a, <1>5 DEF StoreFails, Fails, history, Ends
  <2>2. \A x \in DOMAIN start["A"] : x \in DOMAIN db["A"] /\ db["A"][x] = start["A"][x]
    BY DEF Merged
  <2> QED BY <2>1, <2>2, MergedCut
<1> QED BY <1>1, <1>2, <1>3, <1>4, <1>5

LEMMA MergedStep ==
  ASSUME DbTypeOK, Arrives, Merged, [Next]_vars  PROVE Merged'
<1>1. ASSUME NEW p \in Programs, Start(p)  PROVE Merged'
  BY <1>1, MergedStart
<1>2. ASSUME UNCHANGED vars  PROVE Merged'
  <2>1. UNCHANGED <<db, prog, pc, ended, todo, count, errors, start, lost>>
    BY <1>2 DEF vars, loop, output, bounds, history
  <2> QED BY <2>1 DEF Merged, EndedWell
<1>3. ASSUME prog' = prog, prog.name # "dbmerge"  PROVE Merged'
  BY <1>3 DEF Merged
<1>4. ASSUME prog.name = "dbmerge", NEW k \in todo, Step(k)  PROVE Merged'
  <2>1. Merge(k) \/ StoreFails(k)
    <3>1. pc # "ref"
      BY <1>4 DEF DbTypeOK
    <3> QED BY <1>4, <3>1 DEF Step, Visit, VisitFails, VisitLog, Gone, Convert, RefHash, Candidate, Runs
  <2> QED BY <1>4, <2>1, MergedMerge, MergedOthers
<1>5. ASSUME NEW k \in todo, Step(k)  PROVE prog' = prog
  BY <1>5 DEF Step, Visit, VisitFails, VisitLog, Gone, Merge, Convert, StoreFails, RefHash, Candidate
<1>6. ASSUME LogLine \/ Candidates \/ \E f \in Paths : Change(f)
      PROVE  prog' = prog /\ prog.name # "dbmerge"
  <2>1. pc = "ref" => prog.name = "dbtransactor"
    BY DEF DbTypeOK
  <2>2. prog.src = "tree" => prog.name # "dbmerge"
    BY ProgramFacts DEF DbTypeOK
  <2> QED BY <1>6, <2>1, <2>2 DEF LogLine, Candidates, Change, Runs
<1>7. ASSUME Unreadable \/ IterationError \/ Finish \/ Crash  PROVE Merged'
  <2>1. prog' = prog
    BY <1>7 DEF Unreadable, IterationError, Finish, Crash
  <2> QED BY <1>3, <1>7, <2>1, MergedOthers
<1> QED BY <1>1, <1>2, <1>3, <1>4, <1>5, <1>6, <1>7 DEF Next

LEMMA MergedInit == Init => Merged
  BY DEF Init, Merged

--------------------------------------------------------------------------------
(* Compared: dbtransactor                                                  *)

LEMMA ComparedStart ==
  ASSUME DbTypeOK, NEW p \in Programs, Start(p)  PROVE Compared'
<1> SUFFICES ASSUME p.name = "dbtransactor"  PROVE Compared'
  BY DEF Compared, Start
<1>1. /\ prog' = p /\ db' = db /\ ended' = "ok" /\ pc' = "ref"
      /\ count' = NoCounts /\ refs' = {} /\ missed' = {} /\ ~EndedWell'
  BY DEF Start, EndedWell
<1>2. todo' = DOMAIN db["A"]
  BY TodoOfStart
<1>3. NoCounts.nDuplicates = 0 /\ NoCounts.nRefFiles = 0 /\ NoCounts.nMisses = 0
  BY DEF NoCounts
<1>4. Cardinality({}) = 0 /\ 0 + 0 = 0
  BY FS_EmptySet
<1>5. 0 + Cardinality(DOMAIN db["A"]) = Cardinality(DOMAIN db["A"])
  <2>1. Cardinality(DOMAIN db["A"]) \in Nat
    BY SizesOfStores
  <2> QED BY <2>1
<1> QED BY <1>1, <1>2, <1>3, <1>4, <1>5 DEF Compared

\* One more hash of the reference: a duplicate, or one more in refs.
LEMMA ComparedRefHash ==
  ASSUME DbTypeOK, Compared, NEW k \in todo, RefHash(k)  PROVE Compared'
<1> DEFINE h == db["A"][k]
<1>0. /\ pc = "ref" /\ prog.name = "dbtransactor" /\ pc' = pc /\ prog' = prog /\ ended' = ended
      /\ db' = db /\ missed' = missed /\ lost' = lost /\ todo' = todo \ {k} /\ refs' = refs \cup {h}
      /\ count' = [count EXCEPT !.nRefFiles = @ + 1,
                                !.nDuplicates = @ + IF h \in refs THEN 1 ELSE 0]
  BY DEF RefHash, RefsWith, bounds, history, DbTypeOK
<1>1. /\ count.nDuplicates + Cardinality(refs) = count.nRefFiles
      /\ count.nMisses = Cardinality(missed) /\ missed = {} /\ todo \subseteq DOMAIN db["A"]
      /\ ~lost => count.nRefFiles + Cardinality(todo) = Cardinality(DOMAIN db["A"])
      /\ ~lost => \A j \in DOMAIN db["A"] \ todo : db["A"][j] \in refs
      /\ ~lost => \A g \in refs : \E j \in DOMAIN db["A"] \ todo : db["A"][j] = g
  BY <1>0 DEF Compared
<1>2. /\ count'.nRefFiles = count.nRefFiles + 1 /\ count'.nMisses = count.nMisses
      /\ count'.nDuplicates = count.nDuplicates + IF h \in refs THEN 1 ELSE 0
  BY <1>0 DEF DbTypeOK
<1>3. /\ Cardinality(todo \ {k}) + 1 = Cardinality(todo) /\ Cardinality(todo \ {k}) \in Nat
      /\ Cardinality(todo) \in Nat /\ Cardinality(refs) \in Nat /\ IsFiniteSet(refs)
      /\ count.nRefFiles \in Nat /\ count.nDuplicates \in Nat
  BY SizesOfStores
<1> HIDE DEF h
<1>4. Cardinality(refs \cup {h}) = IF h \in refs THEN Cardinality(refs) ELSE Cardinality(refs) + 1
  BY <1>3, FS_AddElement
<1>5. count'.nDuplicates + Cardinality(refs') = count'.nRefFiles
  BY <1>0, <1>1, <1>2, <1>3, <1>4
<1>6. ~lost => count'.nRefFiles + Cardinality(todo') = Cardinality(DOMAIN db["A"])
  BY <1>0, <1>1, <1>2, <1>3
<1>7. ASSUME ~lost  PROVE /\ \A j \in DOMAIN db["A"] \ todo' : db["A"][j] \in refs'
                          /\ \A g \in refs' : \E j \in DOMAIN db["A"] \ todo' : db["A"][j] = g
  BY <1>0, <1>1, <1>7 DEF h
<1>8. ~EndedWell' /\ pc' = "ref"
  BY <1>0 DEF EndedWell
<1> QED BY <1>0, <1>1, <1>2, <1>5, <1>6, <1>7, <1>8 DEF Compared

\* One more candidate: its hash is in refs, or it is a miss.
LEMMA ComparedCandidate ==
  ASSUME DbTypeOK, Compared, NEW k \in todo, Candidate(k)  PROVE Compared'
<1>0. /\ pc = "loop" /\ prog.name = "dbtransactor" /\ pc' = pc /\ prog' = prog /\ ended' = ended
      /\ db' = db /\ lost' = lost /\ todo' = todo \ {k} /\ refs' = refs
  BY DEF Candidate, Runs, bounds, history
<1>1. /\ count.nDuplicates + Cardinality(refs) = count.nRefFiles
      /\ count.nMisses = Cardinality(missed)
      /\ todo \subseteq DOMAIN db["B"] /\ missed \cap todo = {}
      /\ ~lost => /\ count.nRefFiles = Cardinality(DOMAIN db["A"])
                  /\ \A j \in DOMAIN db["A"] : db["A"][j] \in refs
                  /\ \A g \in refs : \E j \in DOMAIN db["A"] : db["A"][j] = g
                  /\ missed \subseteq DOMAIN db["B"]
                  /\ \A x \in DOMAIN db["B"] \ todo : x \in missed <=> db["B"][x] \notin refs
  BY <1>0 DEF Compared
<1>2. /\ (db["B"][k] \in refs /\ UNCHANGED <<count, missed>>)
         \/ (db["B"][k] \notin refs /\ missed' = missed \cup {k} /\ count' = Counted("nMisses"))
  BY DEF Candidate
<1>3. /\ count'.nDuplicates = count.nDuplicates /\ count'.nRefFiles = count.nRefFiles
      /\ count'.nMisses = Cardinality(missed')
  <2>1. CASE UNCHANGED <<count, missed>>
    BY <1>1, <2>1
  <2>2. CASE missed' = missed \cup {k} /\ count' = Counted("nMisses")
    <3>1. /\ count'.nDuplicates = count.nDuplicates /\ count'.nRefFiles = count.nRefFiles
          /\ count'.nMisses = count.nMisses + 1
      BY <2>2 DEF Counted, DbTypeOK
    <3>2. IsFiniteSet(missed) /\ k \notin missed
      BY <1>1, SizesOfStores
    <3>3. Cardinality(missed \cup {k}) = Cardinality(missed) + 1
      BY <3>2, FS_AddElement
    <3> QED BY <1>1, <2>2, <3>1, <3>3
  <2> QED BY <1>2, <2>1, <2>2
<1>4. todo' \subseteq DOMAIN db["B"] /\ missed' \cap todo' = {}
  BY <1>0, <1>1, <1>2
<1>5. ASSUME ~lost
      PROVE  /\ missed' \subseteq DOMAIN db["B"]
             /\ \A x \in DOMAIN db["B"] \ todo' : x \in missed' <=> db["B"][x] \notin refs
  BY <1>0, <1>1, <1>2, <1>5
<1>6. ~EndedWell' /\ pc' = "loop"
  BY <1>0 DEF EndedWell
<1> QED BY <1>0, <1>1, <1>3, <1>4, <1>5, <1>6 DEF Compared

LEMMA ComparedOthers ==
  ASSUME DbTypeOK, Compared, prog.name = "dbtransactor",
         Unreadable \/ IterationError \/ Candidates \/ Finish \/ Crash
  PROVE  Compared'
<1>0. /\ (bad => lost) /\ (pc # "idle" => ended = "ok") /\ pc \in {"idle", "ref", "loop"}
  BY DEF DbTypeOK
<1>b. /\ count.nDuplicates + Cardinality(refs) = count.nRefFiles
      /\ count.nMisses = Cardinality(missed)
      /\ pc = "ref" => missed = {} /\ todo \subseteq DOMAIN db["A"]
      /\ pc = "loop" => todo \subseteq DOMAIN db["B"] /\ missed \cap todo = {}
  BY DEF Compared
<1>1. CASE Unreadable
  <2>1. /\ lost' /\ pc' = pc /\ ended' = ended /\ pc # "idle" /\ todo' \subseteq todo
        /\ prog' = prog /\ db' = db /\ count' = count /\ refs' = refs /\ missed' = missed
    BY <1>1 DEF Unreadable, output
  <2>2. ~EndedWell'
    BY <2>1 DEF EndedWell
  <2>3. /\ pc = "ref" => todo' \subseteq DOMAIN db["A"]
        /\ pc = "loop" => todo' \subseteq DOMAIN db["B"] /\ missed \cap todo' = {}
    BY <1>b, <2>1
  <2> QED BY <1>b, <2>1, <2>2, <2>3 DEF Compared
<1>2. CASE IterationError
  <2>1. /\ lost' /\ pc' = pc /\ ended' = ended /\ pc # "idle" /\ todo' = {}
        /\ prog' = prog /\ db' = db /\ count' = count /\ refs' = refs /\ missed' = missed
    BY <1>0, <1>2 DEF IterationError, output, history
  <2>2. ~EndedWell'
    BY <2>1 DEF EndedWell
  <2> QED BY <1>b, <2>1, <2>2 DEF Compared
<1>3. CASE Candidates
  <2>1. /\ pc = "ref" /\ todo = {} /\ pc' = "loop" /\ todo' = DOMAIN db["B"] /\ lost' = lost
        /\ prog' = prog /\ db' = db /\ count' = count /\ refs' = refs /\ missed' = missed
    BY <1>3 DEF Candidates, output, history
  <2>2. /\ missed = {}
        /\ ~lost => count.nRefFiles = Cardinality(DOMAIN db["A"])
        /\ ~lost => \A j \in DOMAIN db["A"] : db["A"][j] \in refs
        /\ ~lost => \A h \in refs : \E j \in DOMAIN db["A"] : db["A"][j] = h
    <3>1. /\ missed = {}
          /\ ~lost => count.nRefFiles + Cardinality(todo) = Cardinality(DOMAIN db["A"])
          /\ ~lost => \A j \in DOMAIN db["A"] \ todo : db["A"][j] \in refs
          /\ ~lost => \A h \in refs : \E j \in DOMAIN db["A"] \ todo : db["A"][j] = h
      BY <2>1 DEF Compared
    <3>2. Cardinality(todo) = 0 /\ count.nRefFiles \in Nat
      BY <2>1, FS_EmptySet, SizesOfStores
    <3> QED BY <2>1, <3>1, <3>2
  <2>3. ~EndedWell'
    BY <2>1 DEF EndedWell
  <2> QED BY <1>b, <2>1, <2>2, <2>3 DEF Compared
<1>4. CASE Finish
  <2>1. /\ pc = "loop" /\ pc' = "idle" /\ todo = {} /\ todo' = todo /\ lost' = lost
        /\ prog' = prog /\ db' = db /\ count' = count /\ refs' = refs /\ missed' = missed
    BY <1>4 DEF Finish, Ends, output, history
  <2> QED BY <2>1 DEF Compared
<1>5. CASE Crash
  <2>1. /\ pc' = "idle" /\ ended' = "aborted" /\ prog' = prog
        /\ count' = count /\ refs' = refs /\ missed' = missed
    BY <1>5 DEF Crash, Aborts, Ends, output
  <2> QED BY <1>b, <2>1 DEF Compared, EndedWell
<1> QED BY <1>1, <1>2, <1>3, <1>4, <1>5

LEMMA ComparedStep ==
  ASSUME DbTypeOK, Compared, [Next]_vars  PROVE Compared'
<1>1. ASSUME NEW p \in Programs, Start(p)  PROVE Compared'
  BY <1>1, ComparedStart
<1>2. ASSUME UNCHANGED vars  PROVE Compared'
  <2>1. UNCHANGED <<db, prog, pc, ended, todo, count, refs, missed, lost>>
    BY <1>2 DEF vars, loop, output, bounds, history
  <2> QED BY <2>1 DEF Compared, EndedWell
<1>3. ASSUME prog' = prog, prog.name # "dbtransactor"  PROVE Compared'
  BY <1>3 DEF Compared
<1>4. ASSUME prog.name = "dbtransactor", NEW k \in todo, Step(k)  PROVE Compared'
  <2>1. RefHash(k) \/ Candidate(k)
    BY <1>4 DEF Step, Visit, VisitFails, VisitLog, Gone, Merge, StoreFails, Convert, Runs
  <2> QED BY <2>1, ComparedRefHash, ComparedCandidate
<1>5. ASSUME NEW k \in todo, Step(k)  PROVE prog' = prog
  BY <1>5 DEF Step, Visit, VisitFails, VisitLog, Gone, Merge, Convert, StoreFails, RefHash, Candidate
<1>6. ASSUME LogLine \/ \E f \in Paths : Change(f)
      PROVE  prog' = prog /\ prog.name # "dbtransactor"
  <2>2. prog.src = "tree" => prog.name # "dbtransactor"
    BY ProgramFacts DEF DbTypeOK
  <2> QED BY <1>6, <2>2 DEF LogLine, Change, Runs
<1>7. ASSUME Unreadable \/ IterationError \/ Candidates \/ Finish \/ Crash  PROVE Compared'
  <2>1. prog' = prog
    BY <1>7 DEF Unreadable, IterationError, Candidates, Finish, Crash
  <2> QED BY <1>3, <1>7, <2>1, ComparedOthers
<1> QED BY <1>1, <1>2, <1>3, <1>4, <1>5, <1>6, <1>7 DEF Next

LEMMA ComparedInit == Init => Compared
  BY DEF Init, Compared

--------------------------------------------------------------------------------
(* Logged: ftwdb2log and log2leveldb                                       *)

\* What a line is made of.
LEMMA LineParts ==
  ASSUME NEW h \in Hashes
  PROVE  /\ Line(h) \in Seq(Parts) /\ Len(Line(h)) = 3
         /\ Line(h)[1] = <<h, 1>> /\ Line(h)[2] = <<h, 2>> /\ Line(h)[3] = NL
         /\ Halves(h) = <<<<h, 1>>, <<h, 2>>>>
         /\ <<h, 1>> # NL /\ <<h, 2>> # NL
         /\ Line(h)[1] \in Parts /\ Line(h)[2] \in Parts /\ Line(h)[3] \in Parts
<1>1. <<h, 1>> \in Parts /\ <<h, 2>> \in Parts /\ NL \in Parts
  BY DEF Parts
<1>2. Halves(h) = <<<<h, 1>>, <<h, 2>>>>
  BY DEF Halves
<1>3. <<h, 1>> # NL /\ <<h, 2>> # NL
  <2>1. Len(NL) = 1 /\ Len(<<h, 1>>) = 2 /\ Len(<<h, 2>>) = 2
    BY DEF NL
  <2> QED BY <2>1
<1> HIDE DEF Parts
<1> DEFINE a == <<h, 1>>
           b == <<h, 2>>
           L == Line(h)
<1>4. L = Append(<<a, b>>, NL)
  BY <1>2 DEF Line
<1>5. a \in Parts /\ b \in Parts /\ NL \in Parts
  BY <1>1
<1> HIDE DEF a, b, L
<1>6. L \in Seq(Parts) /\ Len(L) = 3 /\ L[1] = a /\ L[2] = b /\ L[3] = NL
  BY <1>4, <1>5
<1> QED BY <1>2, <1>3, <1>5, <1>6 DEF a, b, L

\* A line is read back as its hash.
LEMMA LineRead ==
  ASSUME NEW t \in Seq(Parts), NEW i \in Nat, 1 <= i, 3 * i <= Len(t),
         NEW h \in Hashes, IsLine(t, i, h)
  PROVE  /\ LineAt(t, i) = h /\ t[3 * i] = NL
         /\ t[3 * i - 2] # NL /\ t[3 * i - 1] # NL
<1>1. t[3 * i - 2] = <<h, 1>> /\ t[3 * i - 1] = <<h, 2>> /\ t[3 * i] = NL
  <2>1. 3 * (i - 1) + 1 = 3 * i - 2 /\ 3 * (i - 1) + 2 = 3 * i - 1 /\ 3 * (i - 1) + 3 = 3 * i
    OBVIOUS
  <2>2. t[3 * (i - 1) + 1] = Line(h)[1] /\ t[3 * (i - 1) + 2] = Line(h)[2] /\ t[3 * (i - 1) + 3] = Line(h)[3]
    BY DEF IsLine
  <2> QED BY <2>1, <2>2, LineParts
<1>2. SubSeq(t, 3 * i - 2, 3 * i - 1) = <<t[3 * i - 2], t[3 * i - 1]>>
  <2> DEFINE a == 3 * i - 2
             b == 3 * i - 1
             s == SubSeq(t, a, b)
  <2>1. a \in Nat /\ b = a + 1 /\ 1 <= a /\ b <= Len(t)
    OBVIOUS
  <2> HIDE DEF a, b
  <2>2. s \in Seq(Parts) /\ Len(s) = 2 /\ s[1] = t[a] /\ s[2] = t[b]
    <3>1. b - a + 1 = 2 /\ a + 1 - 1 = a /\ a + 2 - 1 = b
      BY <2>1
    <3>2. s \in Seq(Parts) /\ Len(s) = 2
      BY <2>1, <3>1, SubSeqProperties
    <3>3. s[1] = t[a] /\ s[2] = t[b]
      BY <2>1, <3>1, SubSeqProperties
    <3> QED BY <3>2, <3>3
  <2> HIDE DEF s
  <2> DEFINE r == <<t[a], t[b]>>
  <2>3. r \in Seq(Parts) /\ Len(r) = 2 /\ r[1] = t[a] /\ r[2] = t[b]
    <3>1. t[a] \in Parts /\ t[b] \in Parts
      BY <2>1
    <3> QED BY <3>1
  <2> HIDE DEF r
  <2>4. \A j \in 1 .. Len(s) : s[j] = r[j]
    BY <2>2, <2>3
  <2>5. s = r
    BY <2>2, <2>3, <2>4, SeqEqual
  <2> QED BY <2>5 DEF s, r, a, b
<1>3. SubSeq(t, 3 * i - 2, 3 * i - 1) = Halves(h)
  BY <1>1, <1>2, LineParts
<1>4. \A g \in Hashes : Halves(h) = Halves(g) => g = h
  BY DEF Halves
<1>5. Decoded(Halves(h)) = h
  BY <1>4 DEF Decoded
<1> QED BY <1>1, <1>3, <1>5, LineParts DEF LineAt

\* The lines of a log of 3 * n parts are n.
LEMMA Thirds ==
  ASSUME NEW n \in Nat
  PROVE  (3 * n) \div 3 = n
OBVIOUS

\* A text written at the offset: the log has it there, and all else is as it was.
LEMMA TextWritten ==
  ASSUME log \in Seq(Parts), off \in Nat, off <= Len(log), NEW t \in Seq(Parts)
  PROVE  /\ Over(t) \in Seq(Parts)
         /\ Len(Over(t)) = IF off + Len(t) > Len(log) THEN off + Len(t) ELSE Len(log)
         /\ \A k \in 1 .. Len(t) : Over(t)[off + k] = t[k]
         /\ \A k \in 1 .. Len(log) : k <= off \/ k > off + Len(t) => Over(t)[k] = log[k]
<1> DEFINE top == IF off + Len(t) > Len(log) THEN off + Len(t) ELSE Len(log)
           new == [k \in 1 .. top |-> IF k \in off + 1 .. off + Len(t) THEN t[k - off] ELSE log[k]]
<1>1. Over(t) = new
  BY DEF Over
<1>2. Len(t) \in Nat /\ Len(log) \in Nat /\ top \in Nat /\ off + Len(t) <= top /\ Len(log) <= top
  OBVIOUS
<1>3. \A k \in off + 1 .. off + Len(t) : k - off \in 1 .. Len(t) /\ t[k - off] \in Parts
  <2> SUFFICES ASSUME NEW k \in off + 1 .. off + Len(t)
               PROVE  k - off \in 1 .. Len(t) /\ t[k - off] \in Parts
    OBVIOUS
  <2>1. k - off \in 1 .. Len(t)
    BY <1>2
  <2> QED BY <2>1
<1>4. \A k \in 1 .. top : k \notin off + 1 .. off + Len(t) => k \in 1 .. Len(log)
  BY <1>2
<1>a. top = IF off + Len(t) > Len(log) THEN off + Len(t) ELSE Len(log)
  OBVIOUS
<1> HIDE DEF top
<1>5. \A k \in 1 .. Len(log) : log[k] \in Parts
  OBVIOUS
<1>6. new \in [1 .. top -> Parts]
  BY <1>3, <1>4, <1>5
<1>7. ASSUME NEW k \in 1 .. Len(t)  PROVE new[off + k] = t[k]
  <2>1. off + k \in 1 .. top /\ off + k \in off + 1 .. off + Len(t) /\ (off + k) - off = k
    BY <1>2
  <2> QED BY <2>1
<1>8. ASSUME NEW k \in 1 .. Len(log), k <= off \/ k > off + Len(t)  PROVE new[k] = log[k]
  <2>1. k \in 1 .. top /\ k \notin off + 1 .. off + Len(t)
    BY <1>2, <1>8
  <2> QED BY <2>1
<1> HIDE DEF new
<1>9. new \in Seq(Parts) /\ Len(new) = top
  BY <1>2, <1>6
<1> QED BY <1>1, <1>7, <1>8, <1>9, <1>a

\* A text written at the offset, which is then behind it: what is behind that is as it was.
LEMMA RestStays ==
  ASSUME log \in Seq(Parts), off \in Nat, off <= Len(log), NEW t \in Seq(Parts), RestIsOld,
         logStart \in Seq(Parts), logStart' = logStart, log' = Over(t), off' = off + Len(t)
  PROVE  RestIsOld'
<1>1. /\ Len(log') = IF off + Len(t) > Len(log) THEN off + Len(t) ELSE Len(log)
      /\ \A k \in 1 .. Len(log) : k <= off \/ k > off + Len(t) => log'[k] = log[k]
  BY TextWritten
<1>2. Len(t) \in Nat /\ Len(log) \in Nat /\ Len(logStart) \in Nat
  OBVIOUS
<1>3. ASSUME NEW k \in off' + 1 .. Len(log')
      PROVE  k <= Len(logStart') /\ log'[k] = logStart'[k]
  <2>1. k \in 1 .. Len(log) /\ k > off + Len(t) /\ k \in off + 1 .. Len(log)
    BY <1>1, <1>2
  <2> QED BY <1>1, <2>1 DEF RestIsOld
<1>4. Len(logStart') <= Len(log')
  BY <1>1, <1>2 DEF RestIsOld
<1> QED BY <1>3, <1>4 DEF RestIsOld

\* A line written behind the first m: it is the next one, the others stay, and all is
\* lines if it was.
LEMMA LineWritten ==
  ASSUME log \in Seq(Parts), NEW m \in Nat, off = 3 * m, off <= Len(log), NEW h \in Hashes,
         NEW new, new = Over(Line(h))
  PROVE  /\ new \in Seq(Parts) /\ off + 3 <= Len(new) /\ Len(log) <= Len(new)
         /\ IsLine(new, m + 1, h)
         /\ \A i \in Nat \ {0}, g \in Hashes :
              i # m + 1 /\ 3 * i <= Len(log) /\ IsLine(log, i, g) => IsLine(new, i, g)
         /\ Whole(log) => Whole(new)
<1> DEFINE L == Line(h)
<1>1. L \in Seq(Parts) /\ Len(L) = 3
  BY LineParts
<1> HIDE DEF L
<1>2. off \in Nat /\ Len(log) \in Nat /\ new = Over(L)
  BY DEF L
<1>3. /\ new \in Seq(Parts) /\ Len(new) = IF off + 3 > Len(log) THEN off + 3 ELSE Len(log)
      /\ \A k \in 1 .. 3 : new[off + k] = L[k]
      /\ \A k \in 1 .. Len(log) : k <= off \/ k > off + 3 => new[k] = log[k]
  <2> HIDE DEF L
  <2>1. off + Len(L) = off + 3 /\ 1 .. Len(L) = 1 .. 3
    BY <1>1
  <2>2. /\ Over(L) \in Seq(Parts)
        /\ Len(Over(L)) = IF off + Len(L) > Len(log) THEN off + Len(L) ELSE Len(log)
        /\ \A k \in 1 .. Len(L) : Over(L)[off + k] = L[k]
        /\ \A k \in 1 .. Len(log) : k <= off \/ k > off + Len(L) => Over(L)[k] = log[k]
    BY <1>1, <1>2, TextWritten
  <2> QED BY <1>2, <2>1, <2>2
<1>4. IsLine(new, m + 1, h)
  <2>1. \A j \in 1 .. 3 : 3 * ((m + 1) - 1) + j = off + j
    OBVIOUS
  <2> QED BY <1>3, <2>1 DEF IsLine, L
<1>5. ASSUME NEW i \in Nat \ {0}, NEW g \in Hashes, i # m + 1, 3 * i <= Len(log), IsLine(log, i, g)
      PROVE  IsLine(new, i, g)
  <2>1. ASSUME NEW j \in 1 .. 3  PROVE new[3 * (i - 1) + j] = log[3 * (i - 1) + j]
    <3> DEFINE k == 3 * (i - 1) + j
    <3>1. k \in 1 .. Len(log) /\ (k <= off \/ k > off + 3)
      BY <1>2, <1>5
    <3> HIDE DEF k
    <3>2. new[k] = log[k]
      BY <1>3, <3>1
    <3> QED BY <3>2 DEF k
  <2> QED BY <1>5, <2>1 DEF IsLine
<1>6. ASSUME Whole(log)  PROVE Whole(new)
  <2> DEFINE n == Len(log) \div 3
             n1 == IF m + 1 > n THEN m + 1 ELSE n
  <2>1. n \in Nat /\ Len(log) = 3 * n /\ \A i \in 1 .. n : \E g \in Hashes : IsLine(log, i, g)
    BY <1>2, <1>6 DEF Whole
  <2> HIDE DEF n
  <2>2. m <= n /\ n1 \in Nat
    BY <2>1
  <2>3. Len(new) = 3 * n1
    BY <1>3, <2>1, <2>2
  <2>4. ASSUME NEW i \in 1 .. n1  PROVE \E g \in Hashes : IsLine(new, i, g)
    <3>1. CASE i = m + 1
      BY <1>4, <3>1
    <3>2. CASE i # m + 1
      <4>1. i \in 1 .. n /\ i \in Nat \ {0} /\ 3 * i <= Len(log)
        BY <2>1, <2>2, <3>2
      <4>2. PICK g \in Hashes : IsLine(log, i, g)
        BY <2>1, <4>1
      <4> QED BY <1>5, <3>2, <4>1, <4>2
    <3> QED BY <3>1, <3>2
  <2> HIDE DEF n1
  <2>5. Len(new) \div 3 = n1
    BY <2>2, <2>3, Thirds
  <2> QED BY <2>3, <2>4, <2>5 DEF Whole
<1>7. off + 3 <= Len(new) /\ Len(log) <= Len(new)
  BY <1>2, <1>3
<1> QED BY <1>3, <1>4, <1>5, <1>6, <1>7

\* Where the line at off ends.
LEMMA LineEndsThree ==
  ASSUME log \in Seq(Parts), NEW n \in Nat, Len(log) = 3 * n, NEW m \in Nat, m < n, off = 3 * m,
         NEW h \in Hashes, IsLine(log, m + 1, h)
  PROVE  LineEnd = off + 3 /\ Len(fgets) = 2 /\ Decoded(fgets) = LineAt(log, m + 1)
<1>1. /\ log[3 * (m + 1)] = NL /\ log[3 * (m + 1) - 2] # NL /\ log[3 * (m + 1) - 1] # NL
  BY LineRead
<1>2. 3 * (m + 1) = off + 3 /\ 3 * (m + 1) - 2 = off + 1 /\ 3 * (m + 1) - 1 = off + 2
  OBVIOUS
<1> DEFINE K == {k \in LinesOf(log) : k > off}
<1>3. off + 3 \in K /\ \A k \in K : k \in Nat /\ off + 3 <= k
  <2>1. off + 3 \in 1 .. Len(log)
    OBVIOUS
  <2>2. ASSUME NEW k \in K  PROVE k \in Nat /\ off + 3 <= k
    <3>1. k \in 1 .. Len(log) /\ log[k] = NL /\ k > off
      BY DEF LinesOf
    <3>2. k # off + 1 /\ k # off + 2
      BY <1>1, <1>2, <3>1
    <3> QED BY <3>1, <3>2
  <2> QED BY <1>1, <1>2, <2>1, <2>2 DEF LinesOf
<1> HIDE DEF K
<1>4. Least(K) = off + 3
  <2>1. \A k \in K : (\A j \in K : k <= j) => k = off + 3
    BY <1>3
  <2> QED BY <1>3, <2>1 DEF Least
<1>5. LineEnd = off + 3
  <2>1. \E k \in LinesOf(log) : k > off
    BY <1>3 DEF K
  <2> QED BY <1>4, <2>1 DEF LineEnd, K
<1>6. fgets = SubSeq(log, 3 * (m + 1) - 2, 3 * (m + 1) - 1)
  <2>1. LineEnd - 1 = off + 2
    BY <1>5
  <2> QED BY <1>2, <2>1 DEF fgets
<1>7. Len(fgets) = 2
  <2> DEFINE a == 3 * (m + 1) - 2
             b == 3 * (m + 1) - 1
  <2>1. a \in Nat /\ b = a + 1 /\ 1 <= a /\ b <= Len(log)
    OBVIOUS
  <2> HIDE DEF a, b
  <2>2. Len(SubSeq(log, a, b)) = 2
    BY <2>1
  <2> QED BY <1>6, <2>2 DEF a, b
<1> QED BY <1>5, <1>6, <1>7 DEF LineAt

LEMMA LoggedInit == Init => Logged
<1> SUFFICES ASSUME Init  PROVE Logged
  OBVIOUS
<1>1. log \in Logs /\ logStart = log /\ prog.name = "none"
  BY DEF Init
<1>2. \A t \in Logs : t \in Seq(Parts)
  BY HashDbAssumption
<1> QED BY <1>1, <1>2 DEF Logged

LEMMA LoggedStart ==
  ASSUME DbTypeOK, Logged, NEW p \in Programs, Start(p)  PROVE Logged'
<1>1. /\ prog' = p /\ log' = log /\ logStart' = log /\ off' = 0 /\ count' = NoCounts
      /\ ended' = "ok" /\ found' = NoMap /\ pc' # "idle" /\ lost' = FALSE
  BY DEF Start
<1>2. log \in Seq(Parts) /\ Len(log) \in Nat
  BY DEF Logged
<1>3. DOMAIN found' = {} /\ Cardinality(DOMAIN found') = 0 /\ Cardinality({}) = 0
  BY <1>1, FS_EmptySet DEF NoMap
<1>4. \A i : i \notin 1 .. 0
  OBVIOUS
<1>5. NoCounts.seq = 0 /\ 3 * 0 = 0
  BY DEF NoCounts
<1>6. p.name = "ftwdb2log" => todo' \subseteq Paths
  BY TodoOfStart
<1>7. Lines(log', found', 0)
  <2>1. \A h : /\ {i \in 1 .. 0 : LineAt(log', i) = h} = {}
               /\ {f \in DOMAIN found' : found'[f] = h} = {}
    BY <1>3, <1>4
  <2> QED BY <1>4, <2>1 DEF Lines
<1>8. /\ log' \in Seq(Parts) /\ logStart' \in Seq(Parts) /\ Len(logStart') <= Len(log') /\ off' <= Len(log')
      /\ off' \in Nat /\ off' <= 3 * 0
  BY <1>1, <1>2
<1>9. ~EndedWell' /\ ended' # "aborted" /\ (Whole(logStart') => Whole(log'))
  BY <1>1 DEF EndedWell
<1>10. off' = 3 * count'.seq /\ 3 * count'.seq <= Len(log') /\ \A i : i \notin 1 .. count'.seq
  BY <1>1, <1>2, <1>4, <1>5
<1>11. RestIsOld'
  BY <1>1, <1>2 DEF RestIsOld
<1> HIDE DEF Lines, Whole
<1> QED BY <1>1, <1>3, <1>6, <1>7, <1>8, <1>9, <1>10, <1>11 DEF Logged

\* A line is written behind those of the walk: one more line has its hash, and one more
\* file.  After a short write the offset stays behind the lines.
LEMMA LoggedVisit ==
  ASSUME DbTypeOK, Logged, NEW k \in todo, VisitLog(k)  PROVE Logged'
<1> DEFINE D == DOMAIN found
           m == Cardinality(D)
           h == md5sum(k)
           L == Line(h)
<1>1. /\ prog.name = "ftwdb2log" /\ pc = "loop" /\ prog' = prog /\ todo' = todo \ {k}
      /\ found' = With(found, k, h) /\ files[k] # NoFile /\ logStart' = logStart
      /\ pc' = pc /\ ended' = ended
      /\ \/ log' = Over(L) /\ off' = off + Len(L) /\ lost' = lost
         \/ /\ \E n \in 1 .. Len(L) - 1 : log' = Over(SubSeq(L, 1, n)) /\ off' = off + n
            /\ lost' = TRUE
  BY DEF VisitLog, Runs, Written, Stays
<1>2. /\ log \in Seq(Parts) /\ logStart \in Seq(Parts) /\ todo \subseteq Paths
      /\ off \in Nat /\ off <= 3 * m /\ ended # "aborted" /\ (~lost => off = 3 * m)
      /\ Len(logStart) <= Len(log) /\ off <= Len(log) /\ RestIsOld
      /\ off = 3 * m => Lines(log, found, m) /\ (Whole(logStart) => Whole(log))
  BY <1>1 DEF Logged, DbTypeOK
<1>3. h \in Hashes
  <2>1. k \in Paths /\ files \in [Paths -> Contents \cup {NoFile}]
    BY <1>2 DEF DbTypeOK
  <2>2. files[k] \in Contents
    BY <1>1, <2>1
  <2> QED BY <2>2, HashDbAssumption DEF md5sum
<1>4. IsFiniteSet(D) /\ k \notin D
  <2>1. prog.src = "tree"
    BY <1>1, ProgramFacts DEF DbTypeOK
  <2> QED BY <2>1 DEF DbTypeOK
<1>5. DOMAIN found' = D \cup {k} /\ found'[k] = h /\ \A f \in D : found'[f] = found[f]
  BY <1>1, <1>4 DEF With
<1> HIDE DEF D, h
<1>6. m \in Nat /\ Cardinality(DOMAIN found') = m + 1
  BY <1>4, <1>5, FS_AddElement, FS_CardinalityType
<1>7. L \in Seq(Parts) /\ Len(L) = 3 /\ L[1] \in Parts /\ L[2] \in Parts
  BY <1>3, LineParts
<1> HIDE DEF m, L
<1>8. CASE /\ \E n \in 1 .. Len(L) - 1 : log' = Over(SubSeq(L, 1, n)) /\ off' = off + n
           /\ lost' = TRUE
  <2>1. PICK n \in 1 .. 2 : log' = Over(SubSeq(L, 1, n)) /\ off' = off + n
    BY <1>7, <1>8
  <2> DEFINE t == SubSeq(L, 1, n)
  <2>2. t \in Seq(Parts) /\ Len(t) = n
    <3>1. n \in {1, 2}
      OBVIOUS
    <3>2. \A i \in 1 .. n : L[i] \in Parts
      BY <1>7, <3>1
    <3> QED BY <1>7, <3>1, <3>2
  <2>7. log' = Over(t) /\ off' = off + n
    BY <2>1
  <2> HIDE DEF t
  <2>8. RestIsOld'
    BY <1>1, <1>2, <2>2, <2>7, RestStays
  <2>3. /\ log' \in Seq(Parts)
        /\ Len(log') = IF off + n > Len(log) THEN off + n ELSE Len(log)
    BY <1>2, <2>1, <2>2, TextWritten DEF t
  <2>4. Len(logStart') <= Len(log') /\ off' <= Len(log') /\ off' \in Nat
    BY <1>1, <1>2, <2>1, <2>3
  <2>5. off' < 3 * (m + 1) /\ off' <= 3 * (m + 1) /\ off' # 3 * (m + 1)
    BY <1>2, <1>6, <2>1
  <2>6. todo' \subseteq Paths /\ prog'.name # "log2leveldb"
    BY <1>1, <1>2
  <2> QED BY <1>1, <1>2, <1>6, <1>8, <2>3, <2>4, <2>5, <2>6, <2>8 DEF Logged
<1>9. CASE log' = Over(L) /\ off' = off + Len(L) /\ lost' = lost
  <2>1. off' = off + 3 /\ off' \in Nat /\ off' <= 3 * (m + 1) /\ (off' = 3 * (m + 1) => off = 3 * m)
    BY <1>2, <1>6, <1>7, <1>9
  <2>2. /\ log' \in Seq(Parts)
        /\ Len(log') = IF off + 3 > Len(log) THEN off + 3 ELSE Len(log)
    BY <1>2, <1>7, <1>9, TextWritten
  <2>3. Len(logStart') <= Len(log') /\ off' <= Len(log')
    BY <1>1, <1>2, <2>1, <2>2
  <2>4. ASSUME off = 3 * m  PROVE Lines(log', found', m + 1) /\ (Whole(logStart') => Whole(log'))
    <3>1. /\ IsLine(log', m + 1, h)
          /\ \A i \in Nat \ {0}, g \in Hashes :
               i # m + 1 /\ 3 * i <= Len(log) /\ IsLine(log, i, g) => IsLine(log', i, g)
          /\ Whole(log) => Whole(log')
          /\ off + 3 <= Len(log') /\ Len(log) <= Len(log')
      BY <1>2, <1>3, <1>6, <1>9, <2>4, LineWritten DEF L
    <3>2. Lines(log, found, m)
      BY <1>2, <2>4
    <3>3. ASSUME NEW i \in 1 .. m
          PROVE  \E g \in Hashes : IsLine(log', i, g) /\ IsLine(log, i, g)
      <4>1. PICK g \in Hashes : IsLine(log, i, g)
        BY <3>2 DEF Lines
      <4>2. i \in Nat \ {0} /\ i # m + 1 /\ 3 * i <= Len(log)
        BY <1>2, <1>6, <2>4
      <4> QED BY <3>1, <4>1, <4>2
    <3>4. \A i \in 1 .. m : LineAt(log', i) = LineAt(log, i)
      <4> SUFFICES ASSUME NEW i \in 1 .. m  PROVE LineAt(log', i) = LineAt(log, i)
        OBVIOUS
      <4>1. PICK g \in Hashes : IsLine(log', i, g) /\ IsLine(log, i, g)
        BY <3>3
      <4>2. i \in Nat /\ 1 <= i /\ 3 * i <= Len(log) /\ 3 * i <= Len(log')
        BY <1>2, <1>6, <2>2, <2>4, <3>1
      <4> QED BY <1>2, <2>2, <4>1, <4>2, LineRead
    <3>5. LineAt(log', m + 1) = h
      <4>1. m + 1 \in Nat /\ 1 <= m + 1 /\ 3 * (m + 1) <= Len(log')
        BY <1>6, <2>4, <3>1
      <4> QED BY <1>3, <2>2, <3>1, <4>1, LineRead
    <3>6. \A i \in 1 .. m + 1 : \E g \in Hashes : IsLine(log', i, g)
      <4> SUFFICES ASSUME NEW i \in 1 .. m + 1  PROVE \E g \in Hashes : IsLine(log', i, g)
        OBVIOUS
      <4>1. i = m + 1 \/ i \in 1 .. m
        BY <1>6
      <4> QED BY <1>3, <3>1, <3>3, <4>1
    <3>7. ASSUME NEW g \in Hashes
          PROVE  Cardinality({i \in 1 .. m + 1 : LineAt(log', i) = g})
                 = Cardinality({f \in DOMAIN found' : found'[f] = g})
      <4> DEFINE I == {i \in 1 .. m : LineAt(log, i) = g}
                 F == {f \in D : found[f] = g}
                 I1 == {i \in 1 .. m + 1 : LineAt(log', i) = g}
                 F1 == {f \in DOMAIN found' : found'[f] = g}
      <4>1. Cardinality(I) = Cardinality(F)
        BY <3>2 DEF Lines, D
      <4>2. IsFiniteSet(I) /\ IsFiniteSet(F)
        <5>1. I \in SUBSET (1 .. m) /\ F \in SUBSET D
          OBVIOUS
        <5>2. IsFiniteSet(1 .. m)
          BY <1>6, FS_Interval
        <5> HIDE DEF I, F
        <5> QED BY <1>4, <5>1, <5>2, FS_Subset
      <4>3. 1 .. m + 1 = (1 .. m) \cup {m + 1} /\ m + 1 \notin 1 .. m
        BY <1>6
      <4>4. I1 = IF g = h THEN I \cup {m + 1} ELSE I
        BY <3>4, <3>5, <4>3
      <4>5. F1 = IF g = h THEN F \cup {k} ELSE F
        BY <1>4, <1>5
      <4>6. m + 1 \notin I /\ k \notin F
        BY <1>4, <4>3
      <4> HIDE DEF I, F, I1, F1
      <4>7. Cardinality(I \cup {m + 1}) = Cardinality(I) + 1 /\ Cardinality(F \cup {k}) = Cardinality(F) + 1
        BY <4>2, <4>6, FS_AddElement
      <4>8. Cardinality(I1) = Cardinality(F1)
        BY <4>1, <4>4, <4>5, <4>7
      <4> QED BY <4>8 DEF I1, F1
    <3> QED BY <1>1, <1>2, <2>4, <3>1, <3>6, <3>7 DEF Lines
  <2>5. todo' \subseteq Paths /\ prog'.name # "log2leveldb"
    BY <1>1, <1>2
  <2>6. off' = 3 * (m + 1) => Lines(log', found', m + 1) /\ (Whole(logStart') => Whole(log'))
    BY <2>1, <2>4
  <2>7. RestIsOld'
    BY <1>1, <1>2, <1>7, <1>9, RestStays
  <2>8. ~lost' => off' = 3 * (m + 1)
    BY <1>2, <1>6, <1>9, <2>1
  <2> HIDE DEF Lines, Whole
  <2> QED BY <1>1, <1>2, <1>6, <2>1, <2>2, <2>3, <2>5, <2>6, <2>7, <2>8 DEF Logged
<1> QED BY <1>1, <1>8, <1>9

\* A line is read whole, and put under a number that no earlier one has.
LEMMA LoggedLogLine ==
  ASSUME DbTypeOK, Logged, LogLine  PROVE Logged'
<1>0. /\ prog.name = "log2leveldb" /\ pc = "loop" /\ prog' = prog /\ off < Len(log) /\ log' = log
      /\ logStart' = logStart /\ off' = LineEnd /\ prog.dst = "A" /\ prog.dst \in Stores
  BY ProgramFacts, StoreNames DEF LogLine, Runs, DbTypeOK
<1>1. log \in Seq(Parts) /\ logStart \in Seq(Parts)
  BY DEF Logged
<1> SUFFICES ASSUME Whole(log)
             PROVE  /\ ended' = "aborted" => errors' > 0
                    /\ pc' = "loop" => off' = 3 * count'.seq /\ 3 * count'.seq <= Len(log)
                    /\ EndedWell' => 3 * count'.seq = Len(log)
                    /\ pc' = "loop" \/ EndedWell' =>
                         \A i \in 1 .. count'.seq :
                            SeqKey(i) \in DOMAIN db'["A"] /\ db'["A"][SeqKey(i)] = LineAt(log, i)
  BY <1>0, <1>1 DEF Logged
<1> DEFINE n == Len(log) \div 3
           m == count.seq
<1>2. /\ Len(log) = 3 * n /\ \A i \in 1 .. n : \E h \in Hashes : IsLine(log, i, h)
      /\ off = 3 * m /\ 3 * m <= Len(log)
      /\ \A i \in 1 .. m : SeqKey(i) \in DOMAIN db["A"] /\ db["A"][SeqKey(i)] = LineAt(log, i)
  BY <1>0 DEF Logged, Whole
<1>3. n \in Nat /\ m \in Nat
  <2>1. Len(log) \in Nat /\ count.seq \in Nat
    BY <1>1, SizesOfStores
  <2> QED BY <2>1
<1>a. count'.seq = count.seq + 1 \/ ~(Len(fgets) = 2)
  BY DEF LogLine, Counted, DbTypeOK
<1> HIDE DEF n, m
<1>4. m < n /\ m + 1 \in 1 .. n
  BY <1>0, <1>2, <1>3
<1>5. PICK h \in Hashes : IsLine(log, m + 1, h)
  BY <1>2, <1>4
<1>6. LineEnd = off + 3 /\ Len(fgets) = 2 /\ Decoded(fgets) = LineAt(log, m + 1)
  BY <1>1, <1>2, <1>3, <1>4, <1>5, LineEndsThree
<1>7. /\ Put(SeqKey(m + 1), LineAt(log, m + 1)) /\ pc' = pc /\ ended' = ended
  BY <1>6 DEF LogLine, Stays, m
<1>8. SeqKey(m + 1) \in Nat /\ \A i \in 1 .. m : SeqKey(i) # SeqKey(m + 1)
  BY <1>3, HashDbAssumption DEF SeqKey
<1>9. /\ DOMAIN db'["A"] = DOMAIN db["A"] \cup {SeqKey(m + 1)}
      /\ db'["A"][SeqKey(m + 1)] = LineAt(log, m + 1)
      /\ \A x \in DOMAIN db["A"] : x # SeqKey(m + 1) => db'["A"][x] = db["A"][x]
  BY <1>0, <1>7, <1>8, PutStep
<1>10. count'.seq = m + 1
  BY <1>6, <1>a DEF m
<1>11. \A i \in 1 .. m + 1 : SeqKey(i) \in DOMAIN db'["A"] /\ db'["A"][SeqKey(i)] = LineAt(log, i)
  <2> SUFFICES ASSUME NEW i \in 1 .. m + 1
               PROVE  SeqKey(i) \in DOMAIN db'["A"] /\ db'["A"][SeqKey(i)] = LineAt(log, i)
    OBVIOUS
  <2>1. CASE i = m + 1
    BY <1>9, <2>1
  <2>2. CASE i # m + 1
    <3>1. i \in 1 .. m
      BY <1>3, <2>2
    <3> QED BY <1>2, <1>8, <1>9, <3>1
  <2> QED BY <2>1, <2>2
<1>12. off' = 3 * (m + 1) /\ 3 * (m + 1) <= Len(log)
  BY <1>0, <1>2, <1>3, <1>4, <1>6
<1>13. ended' # "aborted" /\ ~EndedWell' /\ pc' = "loop"
  BY <1>0, <1>7 DEF DbTypeOK, EndedWell
<1> QED BY <1>10, <1>11, <1>12, <1>13

\* A walk, or a load, that is cut short by a call that fails.
LEMMA LoggedCut ==
  ASSUME Logged, UNCHANGED <<log, logStart, prog, found, lost, off>>, todo' \subseteq todo,
         ended # "aborted", pc' = "idle", ended' # "ok", ended' = "aborted" => errors' > 0
  PROVE  Logged'
BY DEF Logged, EndedWell, RestIsOld

\* The machine goes down in a walk: what is left of the log is old and new parts.
LEMMA LoggedCrash ==
  ASSUME DbTypeOK, Logged, pc # "idle", Aborts, prog.name = "ftwdb2log",
         UNCHANGED <<logStart, prog, found, off>>
  PROVE  Logged'
<1>1. /\ prog.dst = "log" /\ prog.dst \notin Stores /\ ended # "aborted"
  BY ProgramFacts, StoreNames DEF DbTypeOK
<1>2. PICK S \in SUBSET {k \in 1 .. off : k <= Len(logStart)},
           n \in {Len(logStart)} \cup (Len(logStart) .. off) : log' = SurvivedLog(S, n)
  BY <1>1 DEF Aborts
<1>3. /\ log \in Seq(Parts) /\ logStart \in Seq(Parts) /\ off \in Nat /\ off <= Len(log)
      /\ todo \subseteq Paths
  BY <1>1 DEF Logged
<1>4. n \in Nat /\ (n = Len(logStart) \/ n <= off)
  BY <1>3
<1>5. ASSUME NEW k \in 1 .. n
      PROVE  (IF k \in S \/ k > Len(logStart) THEN log[k] ELSE logStart[k]) \in Parts
  <2>1. CASE k \in S \/ k > Len(logStart)
    <3>1. k \in 1 .. Len(log)
      BY <1>3, <1>4, <2>1
    <3> QED BY <1>3, <2>1, <3>1
  <2>2. CASE k \notin S /\ ~(k > Len(logStart))
    <3>1. k \in 1 .. Len(logStart)
      BY <1>3, <1>4, <2>2
    <3> QED BY <1>3, <2>2, <3>1
  <2> QED BY <2>1, <2>2
<1>6. log' \in Seq(Parts)
  <2>1. SurvivedLog(S, n) \in [1 .. n -> Parts]
    BY <1>5 DEF SurvivedLog
  <2> QED BY <1>2, <1>4, <2>1
<1>7. todo' = {} /\ ended' = "aborted"
  BY DEF Aborts, Ends
<1> QED BY <1>1, <1>3, <1>6, <1>7 DEF Logged

LEMMA LoggedStep ==
  ASSUME DbTypeOK, Logged, [Next]_vars  PROVE Logged'
<1>a. /\ prog.name = "ftwdb2log" => prog.src = "tree" /\ prog.dst = "log" /\ pc # "ref"
      /\ prog.name = "log2leveldb" => prog.src = "log" /\ prog.dst = "A" /\ pc # "ref"
      /\ "log" \notin Stores /\ "tree" \notin Stores
      /\ pc # "idle" => ended # "aborted" /\ (prog.dst \notin Stores => prog.name = "ftwdb2log")
  BY ProgramFacts, StoreNames DEF DbTypeOK
<1>b. errors + 1 > 0
  BY DEF DbTypeOK
<1>1. ASSUME NEW p \in Programs, Start(p)  PROVE Logged'
  BY <1>1, LoggedStart
<1>2. ASSUME UNCHANGED <<db, log, logStart, prog, pc, ended, todo, off, count, errors, found, lost>>
      PROVE  Logged'
  BY <1>2 DEF Logged, EndedWell, RestIsOld
<1>3. ASSUME UNCHANGED <<log, logStart, prog>>, prog.name \notin {"ftwdb2log", "log2leveldb"}  PROVE Logged'
  BY <1>3 DEF Logged
<1>4. ASSUME NEW k \in todo, Step(k)  PROVE Logged'
  <2>1. CASE VisitLog(k)
    BY <2>1, LoggedVisit
  <2>2. CASE VisitFails(k) /\ prog.name = "ftwdb2log"
    <3>1. prog.dst # "bdb" /\ pc = "loop"
      BY <1>a, <2>2 DEF VisitFails, Runs
    <3>2. /\ UNCHANGED <<log, logStart, prog, found, lost, off>> /\ todo' = {}
          /\ pc' = "idle" /\ ended' = "error"
      BY <2>2, <3>1 DEF VisitFails, history, Ends
    <3> QED BY <1>a, <3>1, <3>2, LoggedCut
  <2>3. CASE Gone(k) /\ prog.name = "ftwdb2log"
    <3>1. /\ UNCHANGED <<log, logStart, prog, found, lost, pc, ended, off>> /\ todo' \subseteq todo
      BY <2>3 DEF Gone, history
    <3> HIDE DEF Lines, Whole
    <3> QED BY <2>3, <3>1 DEF Logged, RestIsOld
  <2>4. CASE Visit(k) \/ VisitFails(k) \/ Gone(k) \/ Merge(k) \/ Convert(k) \/ StoreFails(k) \/ RefHash(k) \/ Candidate(k)
    <3>1. UNCHANGED <<log, logStart, prog>>
      BY <2>4 DEF Visit, VisitFails, Gone, Merge, Convert, StoreFails, RefHash, Candidate, history
    <3>2. prog.name # "log2leveldb"
      BY <1>a, <2>4 DEF Visit, VisitFails, Gone, Merge, Convert, StoreFails, RefHash, Candidate, Runs
    <3>3. prog.name = "ftwdb2log" => VisitFails(k) \/ Gone(k)
      BY <1>a, <2>4 DEF Visit, VisitFails, Gone, Merge, Convert, StoreFails, RefHash, Candidate, Runs
    <3> QED BY <1>3, <2>2, <2>3, <2>4, <3>1, <3>2, <3>3
  <2> QED BY <1>4, <2>1, <2>4 DEF Step
<1>5. ASSUME LogLine  PROVE Logged'
  BY <1>5, LoggedLogLine
<1>6. ASSUME Unreadable \/ IterationError \/ Candidates  PROVE Logged'
  <2>1. UNCHANGED <<log, logStart, prog>>
    BY <1>6 DEF Unreadable, IterationError, Candidates, history
  <2>2. prog.name \notin {"ftwdb2log", "log2leveldb"}
    BY <1>a, <1>6 DEF Unreadable, IterationError, Candidates, Looks
  <2> QED BY <1>3, <2>1, <2>2
<1>7. ASSUME Crash  PROVE Logged'
  <2>1. /\ UNCHANGED <<logStart, prog, found, lost, off>> /\ todo' = {} /\ pc # "idle" /\ pc' = "idle"
        /\ ended' = "aborted" /\ errors' = errors + 1 /\ Aborts
    BY <1>7 DEF Crash, Aborts, Fails, Ends, history
  <2>2. CASE prog.name = "ftwdb2log"
    BY <2>1, <2>2, LoggedCrash
  <2>3. CASE prog.name # "ftwdb2log"
    <3>1. log' = log
      BY <1>a, <2>1, <2>3 DEF Aborts
    <3> QED BY <1>a, <1>b, <2>1, <3>1, LoggedCut
  <2> QED BY <2>2, <2>3
<1>8. ASSUME Finish  PROVE Logged'
  <2>1. /\ UNCHANGED <<db, log, logStart, prog, found, lost, todo, off, count>> /\ pc = "loop"
        /\ pc' = "idle" /\ ended' = "ok" /\ (prog.src = "log" => off >= Len(log))
    BY <1>8 DEF Finish, Ends, output, history
  <2>2. ASSUME prog.name = "log2leveldb", Whole(log)  PROVE 3 * count.seq = Len(log)
    <3>1. log \in Seq(Parts) /\ off = 3 * count.seq /\ 3 * count.seq <= Len(log) /\ off >= Len(log)
      BY <1>a, <2>1, <2>2 DEF Logged
    <3>2. Len(log) \in Nat /\ count.seq \in Nat
      BY <3>1, SizesOfStores
    <3> QED BY <3>1, <3>2
  <2>3. ended # "aborted" /\ ended' # "aborted" /\ pc' # "loop"
    BY <1>a, <2>1
  <2> HIDE DEF Lines, Whole
  <2> QED BY <2>1, <2>2, <2>3 DEF Logged, EndedWell, RestIsOld
<1>9. ASSUME NEW f \in Paths, Change(f)  PROVE Logged'
  <2>1. UNCHANGED <<db, log, logStart, prog, pc, ended, todo, off, count, errors, found, lost>>
    BY <1>9 DEF Change, loop, output, history
  <2> QED BY <1>2, <2>1
<1>10. ASSUME UNCHANGED vars  PROVE Logged'
  <2>1. UNCHANGED <<db, log, logStart, prog, pc, ended, todo, off, count, errors, found, lost>>
    BY <1>10 DEF vars, loop, output, bounds, history
  <2> QED BY <1>2, <2>1
<1> QED BY <1>1, <1>4, <1>5, <1>6, <1>7, <1>8, <1>9, <1>10 DEF Next

--------------------------------------------------------------------------------
(* The theorems                                                            *)

\* Every step keeps the invariant.
LEMMA DbInvStep == DbInv /\ [Next]_vars => DbInv'
<1> SUFFICES ASSUME DbInv, [Next]_vars  PROVE DbInv'
  OBVIOUS
<1>1. DbTypeOK /\ Arrives /\ Merged /\ Compared /\ Logged
  BY DEF DbInv
<1>2. DbTypeOK' /\ Arrives'
  <2>1. ASSUME NEW p \in Programs, Start(p)  PROVE DbTypeOK' /\ Arrives'
    BY <1>1, <2>1, TypeStart, ArrivesStart
  <2>2. ASSUME NEW k \in todo, Step(k)  PROVE DbTypeOK' /\ Arrives'
    <3>1. CASE Visit(k) \/ VisitFails(k) \/ VisitLog(k) \/ Gone(k)
      BY <1>1, <3>1, TypeWalks, ArrivesWalks
    <3>2. CASE Merge(k) \/ Convert(k) \/ StoreFails(k) \/ RefHash(k) \/ Candidate(k)
      BY <1>1, <3>2, TypeLoops, ArrivesLoops
    <3> QED BY <2>2, <3>1, <3>2 DEF Step
  <2>3. CASE LogLine
    BY <1>1, <2>3, TypeLogLine, ArrivesOthers
  <2>4. CASE Unreadable \/ IterationError \/ Candidates \/ Finish \/ Crash \/ UNCHANGED vars
    BY <1>1, <2>4, TypeOthers, ArrivesOthers
  <2>5. ASSUME NEW f \in Paths, Change(f)  PROVE DbTypeOK' /\ Arrives'
    BY <1>1, <2>5, TypeChange, ArrivesOthers
  <2> QED BY <2>1, <2>2, <2>3, <2>4, <2>5 DEF Next
<1>3. Merged' /\ Compared' /\ Logged'
  BY <1>1, MergedStep, ComparedStep, LoggedStep
<1> QED BY <1>2, <1>3 DEF DbInv

\* The invariant of the stores, the counters and the log.
THEOREM DbInvariance == Spec => []DbInv
<1>1. Init => DbInv
  BY TypeInit, ArrivesInit, MergedInit, ComparedInit, LoggedInit DEF DbInv
<1> QED BY <1>1, DbInvStep, PTL DEF Spec

\* A program that writes a store leaves each key with the hash it had or with that of the
\* source, killed or not, and if it ends well everything that could be read has arrived
\* (cb of ftwdb2 and ftwdb_bdb, the loops of dbmerge and of the converters): EndedWell
\* means that the loop has left nothing, and then Arrives says it of all keys.
THEOREM SourcesArrive == Spec => []SourceArrives
<1>1. DbInv => SourceArrives
  <2> SUFFICES ASSUME DbInv, Writes  PROVE SourceArrives
    BY DEF SourceArrives, Writes
  <2>1. Arrives /\ DbTypeOK
    BY DEF DbInv
  <2>2. EndedWell => Read = DOMAIN Source
    BY <2>1 DEF Arrives, Read, Source
  <2>3. prog.src = "tree" => Source = found
    BY DEF Source
  <2>4. EndedWell => todo = {}
    BY <2>1 DEF Arrives
  <2>5. EndedWell /\ prog.src = "tree" /\ changes = 0 /\ (prog.dst = "bdb" => errors = 0) =>
          DOMAIN found = {p \in Paths : files[p] # NoFile}
    BY <2>1, <2>4 DEF Arrives
  <2>6. EndedWell /\ ~lost =>
          \A k \in DOMAIN Source : k \in DOMAIN db[prog.dst] /\ db[prog.dst][k] = Source[k]
    BY <2>1, <2>2 DEF Arrives
  <2>7. /\ DOMAIN start[prog.dst] \subseteq DOMAIN db[prog.dst]
        /\ \A k \in DOMAIN db[prog.dst] :
             \/ k \in DOMAIN start[prog.dst] /\ db[prog.dst][k] = start[prog.dst][k]
             \/ k \in DOMAIN Source /\ db[prog.dst][k] = Source[k]
    BY <2>1 DEF Arrives
  <2> QED BY <2>5, <2>6, <2>7 DEF SourceArrives
<1> QED BY <1>1, DbInvariance, PTL

\* dbmerge changes no hash that is there, counts what it adds, and stops only at a hash
\* that differs, with the keys before it merged and none behind it.
THEOREM MergesKeep == Spec => []MergeKeeps
<1>1. DbInv => MergeKeeps
  <2> SUFFICES ASSUME DbInv, prog.name = "dbmerge"  PROVE MergeKeeps
    BY DEF MergeKeeps
  <2>1. Merged /\ DbTypeOK /\ Arrives
    BY DEF DbInv
  <2>2. Writes
    <3>1. prog.src = "B" /\ prog.dst = "A"
      BY <2>1, ProgramFacts DEF DbTypeOK
    <3> QED BY <3>1, StoreNames DEF Writes
  <2>3. ASSUME EndedWell
        PROVE  /\ count.nRecordsMerged = Cardinality(DOMAIN db["A"]) - Cardinality(DOMAIN start["A"])
               /\ ~lost => count.nRecordsSrc = Cardinality(DOMAIN db["B"])
    <3>1. todo = {} /\ Cardinality(todo) = 0
      BY <2>1, <2>2, <2>3, FS_EmptySet DEF Arrives
    <3>2. /\ count.nRecordsMerged + Cardinality(DOMAIN start["A"]) = Cardinality(DOMAIN db["A"])
          /\ ~lost => count.nRecordsSrc + Cardinality(todo) = Cardinality(DOMAIN db["B"])
      BY <2>1, <2>3 DEF Merged
    <3>3. /\ count.nRecordsMerged \in Nat /\ count.nRecordsSrc \in Nat
          /\ Cardinality(DOMAIN start["A"]) \in Nat /\ Cardinality(DOMAIN db["A"]) \in Nat
      BY <2>1, SizesOfStores
    <3> QED BY <3>1, <3>2, <3>3
  <2> QED BY <2>1, <2>3 DEF MergeKeeps, Merged
<1> QED BY <1>1, DbInvariance, PTL

\* What dbtransactor prints: the counts agree, and the misses are the candidates whose
\* hash no key of the reference has.
THEOREM TransactorIsTrue == Spec => []TransactorTrue
<1>1. DbInv => TransactorTrue
  <2> SUFFICES ASSUME DbInv, prog.name = "dbtransactor", EndedWell  PROVE TransactorTrue
    BY DEF TransactorTrue
  <2>1. Compared /\ todo = {}
    BY DEF DbInv, Compared
  <2>2. /\ count.nDuplicates + Cardinality(refs) = count.nRefFiles
        /\ count.nMisses = Cardinality(missed)
    BY <2>1 DEF Compared
  <2>3. ASSUME ~lost
        PROVE  /\ count.nRefFiles = Cardinality(DOMAIN db["A"])
               /\ missed = {k \in DOMAIN db["B"] : \A j \in DOMAIN db["A"] : db["A"][j] # db["B"][k]}
    <3>1. /\ count.nRefFiles = Cardinality(DOMAIN db["A"])
          /\ \A j \in DOMAIN db["A"] : db["A"][j] \in refs
          /\ \A h \in refs : \E j \in DOMAIN db["A"] : db["A"][j] = h
          /\ missed \subseteq DOMAIN db["B"]
          /\ \A k \in DOMAIN db["B"] \ todo : k \in missed <=> db["B"][k] \notin refs
      BY <2>1, <2>3 DEF Compared
    <3>2. \A k \in DOMAIN db["B"] :
            k \in missed <=> \A j \in DOMAIN db["A"] : db["A"][j] # db["B"][k]
      BY <2>1, <3>1
    <3> QED BY <3>1, <3>2
  <2> QED BY <2>2, <2>3 DEF TransactorTrue
<1> QED BY <1>1, DbInvariance, PTL

\* Whatever was torn in it before, a walk of ftwdb2log that writes each line in full and
\* is not aborted leaves its lines first in the log, once for each file; what an earlier
\* walk wrote behind them stays as it was, and a log that was lines of hashes is one still.
\* log2leveldb stores all lines of such a log in order without meeting its assertion.
THEOREM LogsReplay == Spec => []LogReplays
<1>1. DbInv => LogReplays
  <2> SUFFICES ASSUME DbInv  PROVE LogReplays
    OBVIOUS
  <2> DEFINE line(i) == Decoded(SubSeq(log, 3 * i - 2, 3 * i - 1))
             walked  == Cardinality(DOMAIN found)
             lines   == Len(log) \div 3
  <2>1. Logged /\ DbTypeOK
    BY DEF DbInv
  <2>2. \A i : LineAt(log, i) = line(i)
    BY DEF LineAt
  <2>3. log \in Seq(Parts) /\ walked \in Nat /\ Len(log) \in Nat /\ lines \in Nat
    <3> DEFINE D == DOMAIN found
    <3>1. IsFiniteSet(D) /\ log \in Seq(Parts)
      BY <2>1 DEF DbTypeOK, Logged
    <3> HIDE DEF D
    <3>2. Cardinality(D) \in Nat /\ Len(log) \in Nat
      BY <3>1, FS_CardinalityType
    <3> QED BY <3>1, <3>2 DEF D
  <2> HIDE DEF line, walked
  <2>4. ASSUME prog.name = "ftwdb2log", ended # "aborted", ~lost
        PROVE  /\ 3 * walked <= Len(log)
               /\ \A i \in 1 .. walked : line(i) \in Hashes /\ log[3 * i] = NL
               /\ \A h \in Hashes : Cardinality({i \in 1 .. walked : line(i) = h})
                                    = Cardinality({f \in DOMAIN found : found[f] = h})
               /\ Whole(logStart) => Whole(log)
               /\ RestIsOld
    <3>1. /\ Lines(log, found, walked) /\ (Whole(logStart) => Whole(log)) /\ 3 * walked <= Len(log)
          /\ RestIsOld
      <4> HIDE DEF Lines, Whole
      <4> QED BY <2>1, <2>4 DEF Logged, walked
    <3>2. ASSUME NEW i \in 1 .. walked  PROVE LineAt(log, i) \in Hashes /\ log[3 * i] = NL
      <4>1. PICK h \in Hashes : IsLine(log, i, h)
        BY <3>1 DEF Lines
      <4>2. i \in Nat /\ 1 <= i /\ 3 * i <= Len(log)
        BY <2>3, <3>1
      <4> QED BY <2>3, <4>1, <4>2, LineRead
    <3>3. \A h : {i \in 1 .. walked : LineAt(log, i) = h} = {i \in 1 .. walked : line(i) = h}
      BY <2>2
    <3> QED BY <2>2, <3>1, <3>2, <3>3 DEF Lines
  <2>5. ASSUME prog.name = "log2leveldb", Whole(log)
        PROVE  /\ ended = "aborted" => errors > 0
               /\ EndedWell => /\ count.seq = lines
                               /\ \A i \in 1 .. lines : db["A"][SeqKey(i)] = line(i)
    <3>1. /\ ended = "aborted" => errors > 0
          /\ EndedWell => /\ 3 * count.seq = Len(log)
                          /\ \A i \in 1 .. count.seq : db["A"][SeqKey(i)] = line(i)
      <4> HIDE DEF Whole
      <4> QED BY <2>1, <2>2, <2>5 DEF Logged
    <3>2. 3 * count.seq = Len(log) => count.seq = lines
      <4>1. count.seq \in Nat
        BY <2>1, SizesOfStores
      <4> QED BY <2>3, <4>1
    <3> QED BY <3>1, <3>2
  <2> HIDE DEF Whole
  <2> QED BY <2>4, <2>5 DEF LogReplays, line, walked
<1> QED BY <1>1, DbInvariance, PTL
================================================================================
