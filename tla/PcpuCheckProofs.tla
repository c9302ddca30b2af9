----------------------------- MODULE PcpuCheckProofs -----------------------------
(***************************************************************************)
(* Proofs about PcpuCheck, for any finite set of CPUs, and any number of   *)
(* rounds, misalignments and faults: the types, that the rounds exclude    *)
(* each other, and that sound hardware is never blamed.                    *)
(*                                                                         *)
(* What makes it inductive: while main waits, g_ack is the number of the   *)
(* checkers that have still to acknowledge (Counted), so that zero means   *)
(* that all have, and a checker is at work only then (Placed).             *)
(***************************************************************************)
EXTENDS PcpuCheck, FiniteSetTheorems, TLAPS

\* The checkers that have not acknowledged the round of g_go.
Pending == {c \in Cpus : last[c] # g_go \/ pc[c] = "ack"}

InRound == {"hash", "mhash", "copy", "setack", "setargs", "setgo", "wait", "rehash"}

\* How far main is, and what that says of the counters.
MainAt ==
  /\ main \in InRound => loops < max_loops
  /\ g_go = IF main \in {"wait", "rehash"} THEN loops + 1 ELSE loops
  /\ g_should_exit <=> main \in {"join", "done"}
  /\ main \in {"setargs", "setgo"} => g_ack = cpus

\* g_ack counts the checkers that main waits for, and nobody is behind else.
Counted ==
  IF main = "wait" THEN g_ack = Cardinality(Pending) ELSE Pending = {}

\* Where a checker is agrees with the round it has done last.
Placed ==
  \A c \in Cpus :
    /\ pc[c] \in {"fnv", "murmur", "last"} => last[c] # g_go
    /\ pc[c] = "ack" => last[c] = g_go
    /\ pc[c] = "exited" => g_should_exit

\* The records have no other fields.
Records ==
  /\ data_dst = [off |-> data_dst.off, content |-> data_dst.content]
  /\ hash0 = [fnv |-> hash0.fnv, mhash |-> hash0.mhash]
  /\ hash = [c \in Cpus |-> hash[c]]

RInv == TypeOK /\ MainAt /\ Counted /\ Placed /\ Records

\* As long as the hardware has not failed, hashes, copy and arguments are those
\* of the source from where main has set them on.
Sound ==
  faults = 0 =>
    /\ ~aborted
    /\ witness = Pattern(1)
    /\ main \in InRound \ {"hash"} => hash0.fnv = FNV1A_64(data_src)
    /\ main \in InRound \ {"hash", "mhash"} => hash0.mhash = murmur3_32(data_src)
    /\ main \in InRound \ {"hash", "mhash", "copy"} =>
         data_dst = [off |-> misalign, content |-> data_src]
    /\ main \in {"setgo", "wait"} =>
         g_args = [hash |-> hash0.fnv, mhash |-> hash0.mhash, dst |-> misalign]
    /\ \A c \in Cpus : pc[c] = "murmur" => hash[c] = FNV1A_64(data_src)

IInv == RInv /\ Sound

--------------------------------------------------------------------------------
LEMMA Cards ==
  /\ cpus \in Nat /\ cpus < UINT
  /\ IsFiniteSet(Pending) /\ Cardinality(Pending) \in 0 .. cpus
  /\ Cardinality(Pending) = 0 <=> Pending = {}
  <1>1. Pending \subseteq Cpus
    BY DEF Pending
  <1>2. IsFiniteSet(Cpus)
    BY PcpuAssumption
  <1>3. IsFiniteSet(Pending) /\ Cardinality(Pending) <= cpus
    BY <1>1, <1>2, FS_Subset DEF cpus
  <1>4. cpus \in Nat /\ Cardinality(Pending) \in Nat
    BY <1>2, <1>3, FS_CardinalityType DEF cpus
  <1>5. Cardinality(Pending) = 0 <=> Pending = {}
    BY <1>3, FS_EmptySet
  <1> QED
    BY <1>3, <1>4, <1>5, PcpuAssumption DEF cpus

\* misalign, and randomize, stay in range.
LEMMA Ranges ==
  ASSUME loops \in Nat
  PROVE  misalign \in 0 .. MAX_MISALIGN - 1 /\ Pattern(loops) \in 0 .. PERIOD - 1
  BY PcpuAssumption DEF misalign, Pattern

LEMMA InitRInv == Init => RInv
  <1> SUFFICES ASSUME Init PROVE RInv
    OBVIOUS
  <1>1. cpus \in Nat /\ cpus < UINT
    BY Cards
  <1>2. Pending = {}
    BY DEF Init, Pending
  <1>3. TypeOK
    <2>1. /\ 0 \in 0 .. max_loops /\ 0 \in 0 .. UINT - 1 /\ 0 \in 0 .. MaxFaults
          /\ 0 \in 0 .. MAX_MISALIGN - 1 /\ 0 \in 0 .. PERIOD - 1
          /\ Pattern(1) \in 0 .. PERIOD - 1
      BY <1>1, PcpuAssumption DEF Pattern
    <2>2. data_dst.off = 0 /\ data_dst.content = 0 /\ g_args.dst = 0
      BY DEF Init
    <2>3. /\ {data_src, witness, data_dst.content} \subseteq 0 .. PERIOD - 1 \cup {Bad}
          /\ {data_dst.off, g_args.dst} \subseteq 0 .. MAX_MISALIGN - 1
      BY <2>1, <2>2 DEF Init
    <2>4. /\ loops \in 0 .. max_loops /\ g_go \in 0 .. max_loops /\ faults \in 0 .. MaxFaults
          /\ g_ack \in 0 .. UINT - 1 /\ g_ack <= cpus
      BY <1>1, <2>1 DEF Init
    <2>5. /\ pc \in [Cpus -> {"poll", "look", "fnv", "murmur", "last", "ack", "exited"}]
          /\ last \in [Cpus -> 0 .. max_loops]
      BY <2>1 DEF Init
    <2> QED
      BY <2>3, <2>4, <2>5 DEF Init, TypeOK
  <1>4. MainAt /\ Counted /\ Placed
    BY <1>2 DEF Init, MainAt, Counted, Placed, InRound
  <1>5. Records
    BY DEF Init, Records, Hashes
  <1> QED
    BY <1>3, <1>4, <1>5 DEF RInv

--------------------------------------------------------------------------------
\* The steps of a checker.
LEMMA CheckStep ==
  ASSUME RInv, NEW c \in Cpus, check(c)
  PROVE  RInv'
  <1> USE DEF RInv, TypeOK, MainAt, Placed, Records, InRound
  <1>0. cpus \in Nat /\ cpus < UINT /\ UINT \in Nat
    BY Cards, PcpuAssumption
  <1>1. CASE Poll(c)
    <2>1. pc[c] = "poll" /\ pc' \in [Cpus -> {"poll", "look", "fnv", "murmur", "last", "ack", "exited"}]
      BY <1>1 DEF Poll
    <2>2. Pending' = Pending
      BY <1>1 DEF Poll, Pending
    <2>3. CASE g_should_exit
      <3>1. g_ack' = Decremented(g_ack) /\ pc' = [pc EXCEPT ![c] = "exited"]
        BY <1>1, <2>3 DEF Poll
      <3>2. g_ack' \in 0 .. UINT - 1
        BY <1>0, <3>1 DEF Decremented
      <3> QED
        BY <1>1, <2>1, <2>2, <2>3, <3>1, <3>2 DEF Poll, Counted, mainVars, buffers, cpus
    <2>4. CASE ~g_should_exit
      BY <1>1, <2>1, <2>2, <2>4 DEF Poll, Counted, mainVars, buffers, cpus
    <2> QED
      BY <2>3, <2>4
  <1>2. CASE Look(c)
    <2>1. Pending' = Pending
      BY <1>2 DEF Look, Pending, shared
    <2> QED
      BY <1>2, <2>1 DEF Look, Counted, shared, mainVars, buffers, cpus
  <1>3. CASE HashCopy(c)
    <2>1. Pending' = Pending
      BY <1>3 DEF HashCopy, Pending, shared
    <2> QED
      BY <1>3, <2>1 DEF HashCopy, Counted, shared, mainVars, buffers, cpus
  <1>4. CASE Compare(c)
    <2>1. Pending' = Pending
      BY <1>4 DEF Compare, Pending, shared
    <2>2. pc' \in [Cpus -> {"poll", "look", "fnv", "murmur", "last", "ack", "exited"}]
          /\ aborted' \in BOOLEAN
      BY <1>4 DEF Compare
    <2> QED
      BY <1>4, <2>1, <2>2 DEF Compare, Counted, shared, mainVars, buffers, cpus
  <1>5. CASE SetLast(c)
    <2>1. Pending' = Pending
      BY <1>5 DEF SetLast, Pending, shared
    <2> QED
      BY <1>5, <2>1 DEF SetLast, Counted, shared, mainVars, buffers, cpus
  <1>6. CASE Ack(c)
    <2>1. c \in Pending
      BY <1>6 DEF Ack, Pending
    <2>2. main = "wait" /\ g_ack = Cardinality(Pending)
      BY <2>1 DEF Counted
    <2>3. g_ack # 0 /\ g_ack' = g_ack - 1
      BY <1>6, <2>1, <2>2, Cards DEF Ack, Decremented
    <2>4. Pending' = Pending \ {c}
      BY <1>6, <2>1 DEF Ack, Pending
    <2>5. Cardinality(Pending') = Cardinality(Pending) - 1
      BY <2>1, <2>4, Cards, FS_RemoveElement
    <2>6. Counted'
      BY <1>6, <2>2, <2>3, <2>5 DEF Ack, Counted, mainVars
    <2>7. g_ack' \in 0 .. UINT - 1 /\ (~g_should_exit => g_ack' <= cpus)
      BY <1>0, <2>3
    <2> QED
      BY <1>6, <2>2, <2>6, <2>7 DEF Ack, mainVars, buffers, cpus
  <1> QED
    BY <1>1, <1>2, <1>3, <1>4, <1>5, <1>6 DEF check

--------------------------------------------------------------------------------
\* The steps of main: only SetGo makes checkers pending, all of them.
LEMMA MainStep ==
  ASSUME RInv, Main
  PROVE  RInv'
  <1> USE DEF RInv, TypeOK, MainAt, Placed, Records, InRound
  <1>0. /\ cpus \in Nat /\ cpus < UINT /\ UINT \in Nat
        /\ misalign \in 0 .. MAX_MISALIGN - 1 /\ Pattern(loops) \in 0 .. PERIOD - 1
        /\ max_loops \in Nat /\ loops \in Nat
    BY Cards, Ranges, PcpuAssumption
  <1>1. CASE Randomize
    <2>1. Pending' = Pending
      BY <1>1 DEF Randomize, Pending, shared, checkerVars
    <2> QED
      BY <1>0, <1>1, <2>1 DEF Randomize, Counted, shared, checkerVars, buffers, cpus
  <1>2. CASE HashSource
    <2>1. Pending' = Pending
      BY <1>2 DEF HashSource, Pending, shared, checkerVars
    <2> QED
      BY <1>2, <2>1 DEF HashSource, Counted, shared, checkerVars, buffers, cpus
  <1>3. CASE MHashSource
    <2>1. Pending' = Pending
      BY <1>3 DEF MHashSource, Pending, shared, checkerVars
    <2> QED
      BY <1>3, <2>1 DEF MHashSource, Counted, shared, checkerVars, buffers, cpus
  <1>4. CASE Copy
    <2>1. Pending' = Pending
      BY <1>4 DEF Copy, Pending, shared, checkerVars
    <2> QED
      BY <1>0, <1>4, <2>1 DEF Copy, Counted, shared, checkerVars, cpus
  <1>5. CASE SetAck
    <2>1. Pending' = Pending
      BY <1>5 DEF SetAck, Pending, checkerVars
    <2> QED
      BY <1>0, <1>5, <2>1 DEF SetAck, Counted, checkerVars, buffers, cpus
  <1>6. CASE SetArgs
    <2>1. Pending' = Pending
      BY <1>6 DEF SetArgs, Pending, checkerVars
    <2> QED
      BY <1>0, <1>6, <2>1 DEF SetArgs, Counted, checkerVars, buffers, cpus
  <1>7. CASE SetGo
    <2>1. Pending = {} /\ g_go = loops /\ g_ack = cpus
      BY <1>7 DEF SetGo, Counted
    <2>2. \A c \in Cpus : last[c] = loops /\ pc[c] \in {"poll", "look", "exited"}
      BY <2>1 DEF Pending
    <2>3. Pending' = Cpus
      BY <1>0, <1>7, <2>2 DEF SetGo, Pending, checkerVars
    <2>4. Counted'
      BY <1>7, <2>1, <2>3 DEF SetGo, Counted, cpus
    <2>5. Placed'
      BY <1>7, <2>2 DEF SetGo, checkerVars
    <2> QED
      BY <1>0, <1>7, <2>1, <2>4, <2>5 DEF SetGo, checkerVars, buffers, cpus
  <1>8. CASE AwaitAcks
    <2>1. Pending = {}
      BY <1>8, Cards DEF AwaitAcks, Counted
    <2>2. Pending' = Pending
      BY <1>8 DEF AwaitAcks, Pending, shared, checkerVars
    <2> QED
      BY <1>8, <2>1, <2>2 DEF AwaitAcks, Counted, shared, checkerVars, buffers, cpus
  <1>9. CASE Rehash
    <2>1. Pending' = Pending
      BY <1>9 DEF Rehash, Pending, shared, checkerVars
    <2>2. aborted' \in BOOLEAN
      BY <1>9 DEF Rehash
    <2> QED
      BY <1>0, <1>9, <2>1, <2>2 DEF Rehash, Counted, shared, checkerVars, buffers, cpus
  <1>10. CASE AskToExit
    <2>1. Pending' = Pending
      BY <1>10 DEF AskToExit, Pending, checkerVars
    <2> QED
      BY <1>0, <1>10, <2>1 DEF AskToExit, Counted, checkerVars, buffers, cpus
  <1>11. CASE Join
    <2>1. Pending' = Pending
      BY <1>11 DEF Join, Pending, shared, checkerVars
    <2> QED
      BY <1>11, <2>1 DEF Join, Counted, shared, checkerVars, buffers, cpus
  <1> QED
    BY <1>1, <1>2, <1>3, <1>4, <1>5, <1>6, <1>7, <1>8, <1>9, <1>10, <1>11 DEF Main

\* Corruption touches neither counters nor checkers.
LEMMA CorruptStep ==
  ASSUME RInv, Corrupt
  PROVE  RInv'
  <1> USE DEF RInv, TypeOK
  <1>1. /\ UNCHANGED <<loops, hash0, main, g_go, g_ack, g_should_exit, g_args, pc, last,
                      hash, aborted>>
        /\ faults' \in 0 .. MaxFaults
    BY PcpuAssumption DEF Corrupt, shared, checkerVars
  <1>2. /\ {data_src, witness, data_dst.content}' \subseteq 0 .. PERIOD - 1 \cup {Bad}
        /\ data_dst'.off = data_dst.off
        /\ data_dst' = [off |-> data_dst'.off, content |-> data_dst'.content]
    BY DEF Corrupt, Records
  <1>3. Pending' = Pending /\ cpus' = cpus
    BY <1>1 DEF Pending, cpus
  <1>4. TypeOK'
    BY <1>1, <1>2 DEF cpus
  <1>5. MainAt' /\ Counted' /\ Placed' /\ Records'
    BY <1>1, <1>2, <1>3 DEF MainAt, Counted, Placed, Records, InRound, cpus
  <1> QED
    BY <1>4, <1>5

LEMMA StutterStep ==
  ASSUME RInv, UNCHANGED vars
  PROVE  RInv'
  BY DEF RInv, TypeOK, MainAt, Counted, Pending, Placed, Records, InRound, vars, mainVars,
         buffers, shared, checkerVars, cpus

LEMMA StepRInv == RInv /\ [Next]_vars => RInv'
  BY CheckStep, MainStep, CorruptStep, StutterStep DEF Next

--------------------------------------------------------------------------------
\* What main and the checkers compute from sound hardware.
LEMMA InitSound == Init => Sound
  BY DEF Init, Sound, InRound, Hashes

LEMMA CheckSound ==
  ASSUME RInv, Sound, NEW c \in Cpus, check(c)
  PROVE  Sound'
  <1> SUFFICES ASSUME faults = 0
               PROVE  Sound'
    BY DEF check, Poll, Look, HashCopy, Compare, SetLast, Ack, Sound
  <1> USE DEF Sound, InRound, RInv
  <1>1. CASE Poll(c)
    BY <1>1 DEF Poll, TypeOK, mainVars, buffers, misalign
  <1>2. CASE Look(c)
    BY <1>2 DEF Look, TypeOK, shared, mainVars, buffers, misalign
  <1>3. CASE HashCopy(c)
    <2>1. main = "wait"
      BY <1>3 DEF HashCopy, Counted, Placed, Pending
    <2>2. g_args.dst = misalign /\ data_dst.off = misalign /\ data_dst.content = data_src
      BY <2>1
    <2>3. CopyAt(g_args.dst) = data_src
      BY <2>2 DEF CopyAt
    <2> QED
      BY <1>3, <2>3 DEF HashCopy, TypeOK, Records, shared, mainVars, buffers, misalign
  <1>4. CASE Compare(c)
    <2>1. main = "wait"
      BY <1>4 DEF Compare, Counted, Placed, Pending
    <2>2. /\ g_args.dst = misalign /\ data_dst.off = misalign /\ data_dst.content = data_src
          /\ g_args.hash = FNV1A_64(data_src) /\ g_args.mhash = murmur3_32(data_src)
      BY <2>1
    <2>3. CopyAt(g_args.dst) = data_src /\ hash[c] = FNV1A_64(data_src)
      BY <1>4, <2>2 DEF CopyAt, Compare
    <2>4. ~aborted' /\ pc' = [pc EXCEPT ![c] = "last"]
      BY <1>4, <2>2, <2>3 DEF Compare
    <2> QED
      BY <1>4, <2>4 DEF Compare, TypeOK, shared, mainVars, buffers, misalign
  <1>5. CASE SetLast(c)
    BY <1>5 DEF SetLast, TypeOK, shared, mainVars, buffers, misalign
  <1>6. CASE Ack(c)
    BY <1>6 DEF Ack, TypeOK, mainVars, buffers, misalign
  <1> QED
    BY <1>1, <1>2, <1>3, <1>4, <1>5, <1>6 DEF check

LEMMA MainSound ==
  ASSUME RInv, Sound, Main
  PROVE  Sound'
  <1> SUFFICES ASSUME faults = 0
               PROVE  Sound'
    BY DEF Main, Randomize, HashSource, MHashSource, Copy, SetAck, SetArgs, SetGo, AwaitAcks,
           Rehash, AskToExit, Join, Sound
  <1>0. main # "wait" => \A c \in Cpus : pc[c] # "murmur"
    BY DEF RInv, Counted, Placed, Pending
  <1> USE DEF Sound, InRound, misalign
  <1>1. CASE Randomize
    BY <1>0, <1>1 DEF Randomize, shared, checkerVars, buffers
  <1>2. CASE HashSource
    BY <1>0, <1>2 DEF HashSource, RInv, Records, shared, checkerVars, buffers
  <1>3. CASE MHashSource
    BY <1>0, <1>3 DEF MHashSource, RInv, Records, shared, checkerVars, buffers
  <1>4. CASE Copy
    BY <1>0, <1>4 DEF Copy, shared, checkerVars
  <1>5. CASE SetAck
    BY <1>0, <1>5 DEF SetAck, checkerVars, buffers
  <1>6. CASE SetArgs
    BY <1>0, <1>6 DEF SetArgs, checkerVars, buffers
  <1>7. CASE SetGo
    BY <1>0, <1>7 DEF SetGo, checkerVars, buffers
  <1>8. CASE AwaitAcks
    BY <1>8 DEF AwaitAcks, shared, checkerVars, buffers
  <1>9. CASE Rehash
    <2>1. ~aborted'
      BY <1>9 DEF Rehash
    <2> QED
      BY <1>0, <1>9, <2>1 DEF Rehash, shared, checkerVars, buffers
  <1>10. CASE AskToExit
    BY <1>0, <1>10 DEF AskToExit, checkerVars, buffers
  <1>11. CASE Join
    BY <1>0, <1>11 DEF Join, shared, checkerVars, buffers
  <1> QED
    BY <1>1, <1>2, <1>3, <1>4, <1>5, <1>6, <1>7, <1>8, <1>9, <1>10, <1>11 DEF Main

LEMMA StepSound == RInv /\ Sound /\ [Next]_vars => Sound'
  <1> SUFFICES ASSUME RInv, Sound, [Next]_vars
               PROVE  Sound'
    OBVIOUS
  <1>1. CASE Corrupt
    BY <1>1 DEF Corrupt, Sound, RInv, TypeOK
  <1>2. CASE UNCHANGED vars
    BY <1>2 DEF Sound, InRound, misalign, vars, mainVars, buffers, shared, checkerVars
  <1> QED
    BY <1>1, <1>2, CheckSound, MainSound DEF Next

--------------------------------------------------------------------------------
\* The inductive invariant holds throughout.
THEOREM Invariance == Spec => []IInv
  <1>1. Init => IInv
    BY InitRInv, InitSound DEF IInv
  <1>2. IInv /\ [Next]_vars => IInv'
    BY StepRInv, StepSound DEF IInv
  <1> QED
    BY <1>1, <1>2, PTL DEF Spec

\* The types, and that no checker acknowledges a round it was not counted in: g_ack
\* stays within cpus until main asks the checkers to exit.
THEOREM TypeCorrect == Spec => []TypeOK
  <1>1. IInv => TypeOK
    BY DEF IInv, RInv
  <1> QED
    BY <1>1, Invariance, PTL

\* main touches the copy and the arguments only while no checker is at work, and all
\* have done the round: as g_ack counts those that have still to acknowledge, the zero
\* that main waits for means all of them.
THEOREM RoundsExclude == Spec => []RoundsAreExclusive
  <1>1. IInv => RoundsAreExclusive
    BY DEF IInv, RInv, Counted, Placed, Pending, RoundsAreExclusive, Checking
  <1> QED
    BY <1>1, Invariance, PTL

\* CHECK_EQ fails only on hardware that has failed.
THEOREM SoundHardwarePasses == Spec => []NoFalseAlarm
  <1>1. IInv => NoFalseAlarm
    BY DEF IInv, RInv, TypeOK, Sound, NoFalseAlarm
  <1> QED
    BY <1>1, Invariance, PTL
================================================================================
