------------------------------- MODULE PcpuCheck -------------------------------
(***************************************************************************)
(* The CPU and memory tester of pcpucheck.cc: in every round main fills a  *)
(* source buffer, hashes it, copies it and releases one checker thread per *)
(* CPU, each of which hashes the copy and compares; they synchronise only  *)
(* through the atomics g_go, g_ack and g_should_exit.                      *)
(*                                                                         *)
(* Every access to an atomic and every use of a buffer is an action.  The  *)
(* hardware under test may corrupt a buffer at any time.  A buffer is the  *)
(* pattern it holds, Bad once corrupted, and the two hashes tell different *)
(* contents apart.                                                         *)
(***************************************************************************)
EXTENDS Integers, FiniteSets

CONSTANTS
  Cpus,           (* the checker threads                                    *)
  max_loops,      (* argv[2]                                                *)
  MAX_MISALIGN,   (* 64: the copy moves through as many misalignments       *)
  PERIOD,         (* 256: randomize() repeats its patterns                  *)
  UINT,           (* 2^32: g_ack counts modulo this                         *)
  MaxFaults       (* bound: corruptions of a buffer                         *)

ASSUME PcpuAssumption ==
  /\ IsFiniteSet(Cpus) /\ Cpus # {}
  /\ max_loops \in Nat /\ MaxFaults \in Nat
  /\ MAX_MISALIGN \in Nat \ {0} /\ PERIOD \in Nat \ {0, 1}
  /\ UINT \in Nat /\ UINT > Cardinality(Cpus)

VARIABLES
  loops, data_src, hash0,             (* main: the round, the source, its hashes *)
  data_dst,                           (* the copy, and where it starts           *)
  witness,                            (* a buffer that is only ever looked at    *)
  g_go, g_ack, g_should_exit, g_args, (* shared                                  *)
  main,                               (* main: where it is                       *)
  pc, last, hash,                     (* per checker: where it is, its locals    *)
  aborted,                            (* CHECK_EQ has failed                     *)
  faults                              (* corruptions so far                      *)

mainVars    == <<loops, data_src, hash0, main>>
buffers     == <<data_dst, witness>>
shared      == <<g_go, g_ack, g_should_exit, g_args>>
checkerVars == <<pc, last, hash>>
vars == <<mainVars, buffers, shared, checkerVars, aborted, faults>>

Bad == -1
cpus == Cardinality(Cpus)

\* An unsigned counter wraps around.
Decremented(n) == IF n = 0 THEN UINT - 1 ELSE n - 1

\* randomize(v, ref): every byte depends on ref modulo 256.
Pattern(ref) == ref % PERIOD

FNV1A_64(content) == <<"fnv", content>>
murmur3_32(content) == <<"murmur", content>>
Hashes(content) == [fnv |-> FNV1A_64(content), mhash |-> murmur3_32(content)]

\* What a thread reads that takes the copy to start at offset off.
CopyAt(off) == IF data_dst.off = off THEN data_dst.content ELSE Bad

misalign == loops % MAX_MISALIGN

Init ==
  /\ loops = 0 /\ data_src = 0 /\ hash0 = Hashes(0)
  /\ data_dst = [off |-> 0, content |-> 0] /\ witness = Pattern(1)
  /\ g_go = 0 /\ g_ack = 0 /\ g_should_exit = FALSE
  /\ g_args = [hash |-> FNV1A_64(Bad), mhash |-> murmur3_32(Bad), dst |-> 0]
  /\ main = "randomize"
  /\ pc = [c \in Cpus |-> "poll"] /\ last = [c \in Cpus |-> 0]
  /\ hash = [c \in Cpus |-> FNV1A_64(Bad)]
  /\ aborted = FALSE /\ faults = 0

--------------------------------------------------------------------------------
(* check(cpu)                                                              *)

PollGoOnly(c) ==
  /\ pc[c] = "poll"
  /\ pc' = [pc EXCEPT ![c] = IF last[c] = g_go THEN "poll" ELSE "look"]
  /\ UNCHANGED <<shared, last, hash, mainVars, buffers, aborted, faults>>

\* Leave when asked to; the count that nobody waits for any more wraps around.
Poll(c) ==
  /\ pc[c] = "poll"
  /\ IF g_should_exit
     THEN g_ack' = Decremented(g_ack) /\ pc' = [pc EXCEPT ![c] = "exited"]
     ELSE g_ack' = g_ack /\ pc' = [pc EXCEPT ![c] = "look"]
  /\ UNCHANGED <<g_go, g_should_exit, g_args, last, hash, mainVars, buffers,
                 aborted, faults>>

\* Sleep a little unless there is a new round.
Look(c) ==
  /\ pc[c] = "look"
  /\ pc' = [pc EXCEPT ![c] = IF last[c] = g_go THEN "poll" ELSE "fnv"]
  /\ UNCHANGED <<last, hash, shared, mainVars, buffers, aborted, faults>>

HashCopy(c) ==
  /\ pc[c] = "fnv"
  /\ hash' = [hash EXCEPT ![c] = FNV1A_64(CopyAt(g_args.dst))]
  /\ pc' = [pc EXCEPT ![c] = "murmur"]
  /\ UNCHANGED <<last, shared, mainVars, buffers, aborted, faults>>

CompareFnvOnly(c) ==
  /\ pc[c] = "murmur"
  /\ IF hash[c] = g_args.hash
     THEN pc' = [pc EXCEPT ![c] = "last"] /\ aborted' = aborted
     ELSE aborted' = TRUE /\ pc' = pc
  /\ UNCHANGED <<last, hash, shared, mainVars, buffers, faults>>

\* The second hash, and both comparisons.
Compare(c) ==
  /\ pc[c] = "murmur"
  /\ IF hash[c] = g_args.hash /\ murmur3_32(CopyAt(g_args.dst)) = g_args.mhash
     THEN pc' = [pc EXCEPT ![c] = "last"] /\ aborted' = aborted
     ELSE aborted' = TRUE /\ pc' = pc
  /\ UNCHANGED <<last, hash, shared, mainVars, buffers, faults>>

\* g_go is read once more, not remembered from Look.
SetLast(c) ==
  /\ pc[c] = "last"
  /\ last' = [last EXCEPT ![c] = g_go]
  /\ pc' = [pc EXCEPT ![c] = "ack"]
  /\ UNCHANGED <<hash, shared, mainVars, buffers, aborted, faults>>

Ack(c) ==
  /\ pc[c] = "ack"
  /\ g_ack' = Decremented(g_ack)
  /\ pc' = [pc EXCEPT ![c] = "poll"]
  /\ UNCHANGED <<g_go, g_should_exit, g_args, last, hash, mainVars, buffers,
                 aborted, faults>>

check(c) ==
  Poll(c) \/ Look(c) \/ HashCopy(c) \/ Compare(c) \/ SetLast(c) \/ Ack(c)

--------------------------------------------------------------------------------
(* main()                                                                  *)

Randomize ==
  /\ main = "randomize" /\ loops < max_loops
  /\ data_src' = Pattern(loops)
  /\ main' = "hash"
  /\ UNCHANGED <<loops, hash0, buffers, shared, checkerVars, aborted, faults>>

HashSource ==
  /\ main = "hash"
  /\ hash0' = [hash0 EXCEPT !.fnv = FNV1A_64(data_src)]
  /\ main' = "mhash"
  /\ UNCHANGED <<loops, data_src, buffers, shared, checkerVars, aborted, faults>>

MHashSource ==
  /\ main = "mhash"
  /\ hash0' = [hash0 EXCEPT !.mhash = murmur3_32(data_src)]
  /\ main' = "copy"
  /\ UNCHANGED <<loops, data_src, buffers, shared, checkerVars, aborted, faults>>

\* pickmemcpy, to the misalignment of this round.
Copy ==
  /\ main = "copy"
  /\ data_dst' = [off |-> misalign, content |-> data_src]
  /\ main' = "setack"
  /\ UNCHANGED <<loops, data_src, hash0, witness, shared, checkerVars, aborted, faults>>

SetAckOneShort ==
  /\ main = "setack"
  /\ g_ack' = cpus - 1
  /\ main' = "setargs"
  /\ UNCHANGED <<loops, data_src, hash0, g_go, g_should_exit, g_args, buffers,
                 checkerVars, aborted, faults>>

SetAck ==
  /\ main = "setack"
  /\ g_ack' = cpus
  /\ main' = "setargs"
  /\ UNCHANGED <<loops, data_src, hash0, g_go, g_should_exit, g_args, buffers,
                 checkerVars, aborted, faults>>

SetArgsKeepDst ==
  /\ main = "setargs"
  /\ g_args' = [hash |-> hash0.fnv, mhash |-> hash0.mhash, dst |-> g_args.dst]
  /\ main' = "setgo"
  /\ UNCHANGED <<loops, data_src, hash0, g_go, g_ack, g_should_exit, buffers,
                 checkerVars, aborted, faults>>

SetArgs ==
  /\ main = "setargs"
  /\ g_args' = [hash |-> hash0.fnv, mhash |-> hash0.mhash, dst |-> misalign]
  /\ main' = "setgo"
  /\ UNCHANGED <<loops, data_src, hash0, g_go, g_ack, g_should_exit, buffers,
                 checkerVars, aborted, faults>>

\* Release the checkers.
SetGo ==
  /\ main = "setgo"
  /\ g_go' = loops + 1
  /\ main' = "wait"
  /\ UNCHANGED <<loops, data_src, hash0, g_ack, g_should_exit, g_args, buffers,
                 checkerVars, aborted, faults>>

AwaitAcks ==
  /\ main = "wait" /\ g_ack = 0
  /\ main' = "rehash"
  /\ UNCHANGED <<loops, data_src, hash0, shared, buffers, checkerVars, aborted, faults>>

\* The source is hashed once more, and at every turn of the misalignment the
\* witness.
Rehash ==
  /\ main = "rehash"
  /\ loops' = loops + 1
  /\ main' = "randomize"
  /\ aborted' = \/ FNV1A_64(data_src) # hash0.fnv
                \/ (loops + 1) % MAX_MISALIGN = 0 /\ FNV1A_64(witness) # FNV1A_64(Pattern(1))
  /\ UNCHANGED <<data_src, hash0, shared, buffers, checkerVars, faults>>

AskToExit ==
  /\ main = "randomize" /\ loops = max_loops
  /\ g_should_exit' = TRUE
  /\ main' = "join"
  /\ UNCHANGED <<loops, data_src, hash0, g_go, g_ack, g_args, buffers, checkerVars,
                 aborted, faults>>

Join ==
  /\ main = "join" /\ \A c \in Cpus : pc[c] = "exited"
  /\ main' = "done"
  /\ UNCHANGED <<loops, data_src, hash0, shared, buffers, checkerVars, aborted, faults>>

Main ==
  \/ Randomize \/ HashSource \/ MHashSource \/ Copy \/ SetAck \/ SetArgs \/ SetGo \/ AwaitAcks
  \/ Rehash \/ AskToExit \/ Join

--------------------------------------------------------------------------------
\* The hardware corrupts one of the buffers.
Corrupt ==
  /\ faults < MaxFaults
  /\ faults' = faults + 1
  /\ \/ data_src' = Bad /\ UNCHANGED <<data_dst, witness>>
     \/ data_dst' = [data_dst EXCEPT !.content = Bad] /\ UNCHANGED <<data_src, witness>>
     \/ witness' = Bad /\ UNCHANGED <<data_src, data_dst>>
  /\ UNCHANGED <<loops, hash0, main, shared, checkerVars, aborted>>

Stopped == aborted \/ main = "done"

Next ==
  \/ ~Stopped /\ (Main \/ Corrupt \/ \E c \in Cpus : check(c))
  \/ Stopped /\ UNCHANGED vars

Spec == Init /\ [][Next]_vars

\* main and every checker are scheduled; the hardware need not fail.
FairSpec ==
  /\ Spec
  /\ WF_vars(~Stopped /\ Main)
  /\ \A c \in Cpus : WF_vars(~Stopped /\ check(c))

--------------------------------------------------------------------------------
\* The types of all variables; until the end, no checker acknowledges a round it
\* was not counted in.
TypeOK ==
  /\ loops \in 0 .. max_loops /\ g_go \in 0 .. max_loops
  /\ {data_src, witness, data_dst.content} \subseteq 0 .. PERIOD - 1 \cup {Bad}
  /\ {data_dst.off, g_args.dst} \subseteq 0 .. MAX_MISALIGN - 1
  /\ g_ack \in 0 .. UINT - 1
  /\ ~g_should_exit => g_ack <= cpus
  /\ main \in {"randomize", "hash", "mhash", "copy", "setack", "setargs", "setgo",
               "wait", "rehash", "join", "done"}
  /\ pc \in [Cpus -> {"poll", "look", "fnv", "murmur", "last", "ack", "exited"}]
  /\ last \in [Cpus -> 0 .. max_loops]
  /\ g_should_exit \in BOOLEAN /\ aborted \in BOOLEAN /\ faults \in 0 .. MaxFaults

Checking(c) == pc[c] \in {"fnv", "murmur", "last", "ack"}

\* main touches the copy and the arguments of a round only while no checker is at
\* work on them, and passes from round to round only after every checker has
\* done the round: no checker lags behind, skips a round or does one twice.
RoundsAreExclusive ==
  main # "wait" => \A c \in Cpus : ~Checking(c) /\ last[c] = g_go

\* The tester blames the hardware only when the hardware has failed: no
\* interleaving makes CHECK_EQ compare hashes of different rounds.
NoFalseAlarm == aborted => faults > 0

\* The copy is not what main has hashed.
CopyDiffers == Hashes(data_dst.content) # hash0

\* A copy that differs while at least one checker of the round has still to
\* compute its second hash does not pass.
CorruptionDetected ==
  (/\ main = "wait" /\ CopyDiffers
   /\ \E c \in Cpus : last[c] # g_go /\ pc[c] \in {"poll", "look", "fnv", "murmur"})
  ~> aborted

\* The rounds come to an end and all threads are joined, or the process aborts.
Finishes == <>Stopped
================================================================================
