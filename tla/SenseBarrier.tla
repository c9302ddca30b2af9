----------------------------- MODULE SenseBarrier -----------------------------
(***************************************************************************)
(* The sense-reversed asymmetric barrier with closure of sense.c, with the *)
(* callers its header comment describes: workers that await() after every  *)
(* phase and stop when await() reports closure, and one coordinator that   *)
(* bwait()s for them, aggregates, and then either bgo()es or bclose()s.    *)
(* Any other thread may also bclose(), at any time.                        *)
(*                                                                         *)
(* Each function holds the mutex from start to end, but for the waits on   *)
(* the condition variable, so each stretch between waits is one action.    *)
(***************************************************************************)
EXTENDS Integers, FiniteSets

CONSTANT Workers

ASSUME WorkersAssumption == IsFiniteSet(Workers) /\ Workers # {}

VARIABLES
  val, sense, closed,   (* struct barrier                                   *)
  ws,                   (* per worker, the bool behind await's `sense`      *)
  cs,                   (* the coordinator's bool, behind bgo's `sense`     *)
  pc,                   (* per worker                                       *)
  cpc                   (* the coordinator                                  *)

vars == <<val, sense, closed, ws, cs, pc, cpc>>

max == Cardinality(Workers)

\* pthread_cond_broadcast: everybody who sleeps on the variable is made to look
\* again.
Awake(p) == [w \in Workers |-> IF p[w] = "asleep" THEN "woken" ELSE p[w]]
CAwake(c) == IF c = "asleep" THEN "woken" ELSE c

--------------------------------------------------------------------------------
(* binit(), and every participant's own sense still false                  *)
Init ==
  /\ val = max /\ sense = TRUE /\ closed = FALSE
  /\ ws = [w \in Workers |-> FALSE] /\ cs = FALSE
  /\ pc = [w \in Workers |-> "working"]
  /\ cpc = "bwait"

AwaitLate(w) ==
  /\ pc[w] = "working"
  /\ IF closed
     THEN pc' = [pc EXCEPT ![w] = "gone"] /\ UNCHANGED <<val, ws, cpc>>
     ELSE /\ val' = val - 1
          /\ cpc' = IF val = 0 THEN CAwake(cpc) ELSE cpc
          /\ pc' = [pc EXCEPT ![w] = "asleep"]
          /\ ws' = ws
  /\ UNCHANGED <<sense, closed, cs>>

\* await(), from the call to the first wait.
Await(w) ==
  /\ pc[w] = "working"
  /\ IF closed
     THEN pc' = [pc EXCEPT ![w] = "gone"] /\ UNCHANGED <<val, ws, cpc>>
     ELSE /\ val' = val - 1
          /\ cpc' = IF val = 1 THEN CAwake(cpc) ELSE cpc
          /\ IF sense # ws[w]
             THEN /\ pc' = [(IF val = 1 THEN Awake(pc) ELSE pc) EXCEPT ![w] = "asleep"]
                  /\ ws' = ws
             ELSE /\ pc' = (IF val = 1 THEN Awake(pc) ELSE pc)
                  /\ ws' = [ws EXCEPT ![w] = ~@]
  /\ UNCHANGED <<sense, closed, cs>>

AwaitOnce(w) ==
  /\ pc[w] = "woken"
  /\ pc' = [pc EXCEPT ![w] = "working"]
  /\ ws' = IF closed THEN ws ELSE [ws EXCEPT ![w] = ~@]
  /\ UNCHANGED <<val, sense, closed, cs, cpc>>

\* await(), back from the wait: closure first, then the sense.
AwaitAgain(w) ==
  /\ pc[w] = "woken"
  /\ \/ closed /\ pc' = [pc EXCEPT ![w] = "working"] /\ ws' = ws
     \/ ~closed /\ sense # ws[w] /\ pc' = [pc EXCEPT ![w] = "asleep"] /\ ws' = ws
     \/ /\ ~closed /\ sense = ws[w]
        /\ pc' = [pc EXCEPT ![w] = "working"]
        /\ ws' = [ws EXCEPT ![w] = ~@]
  /\ UNCHANGED <<val, sense, closed, cs, cpc>>

\* bwait(): wait, in a loop, until the count is zero.
Bwait ==
  /\ cpc \in {"bwait", "woken"}
  /\ cpc' = IF val # 0 THEN "asleep" ELSE "aggregating"
  /\ UNCHANGED <<val, sense, closed, ws, cs, pc>>

\* bgo(): a new count, the other sense, and a broadcast.
Bgo ==
  /\ cpc = "aggregating"
  /\ val' = max
  /\ sense' = cs
  /\ cs' = ~cs
  /\ pc' = Awake(pc)
  /\ cpc' = "bwait"
  /\ UNCHANGED <<closed, ws>>

BcloseNoBroadcast ==
  /\ closed' = TRUE
  /\ pc' = pc
  /\ \/ cpc = "aggregating" /\ cpc' = "done"
     \/ cpc' = CAwake(cpc)
  /\ UNCHANGED <<val, sense, ws, cs>>

\* bclose(), by the coordinator, which then stops, or by any other thread.
Bclose ==
  /\ closed' = TRUE
  /\ pc' = Awake(pc)
  /\ \/ cpc = "aggregating" /\ cpc' = "done"
     \/ cpc' = CAwake(cpc)
  /\ UNCHANGED <<val, sense, ws, cs>>

\* pthread_cond_wait may return without a broadcast.
SpuriousWakeup ==
  \/ /\ \E w \in Workers : pc[w] = "asleep" /\ pc' = [pc EXCEPT ![w] = "woken"]
     /\ UNCHANGED <<val, sense, closed, ws, cs, cpc>>
  \/ /\ cpc = "asleep" /\ cpc' = "woken"
     /\ UNCHANGED <<val, sense, closed, ws, cs, pc>>

Worker(w) == Await(w) \/ AwaitAgain(w)

\* No worker is left.  A coordinator that bwait()s for them sleeps for ever:
\* bwait() does not look at `closed`.
Finished == (\A w \in Workers : pc[w] = "gone") /\ UNCHANGED vars

Next ==
  \/ \E w \in Workers : Worker(w)
  \/ Bwait \/ Bgo \/ Bclose \/ SpuriousWakeup \/ Finished

Spec == Init /\ [][Next]_vars

\* Workers finish their phase and come to the barrier, the coordinator its
\* aggregation; nobody is obliged to close.
Fairness ==
  /\ \A w \in Workers : WF_vars(Worker(w))
  /\ WF_vars(Bwait)
  /\ WF_vars(Bgo)

FairSpec == Spec /\ Fairness

--------------------------------------------------------------------------------
\* The types of all variables; the count stays between 0 and max, although
\* nothing in await() checks it.
TypeOK ==
  /\ val \in 0 .. max
  /\ sense \in BOOLEAN /\ closed \in BOOLEAN /\ cs \in BOOLEAN
  /\ ws \in [Workers -> BOOLEAN]
  /\ pc \in [Workers -> {"working", "asleep", "woken", "gone"}]
  /\ cpc \in {"bwait", "asleep", "woken", "aggregating", "done"}

\* The workers inside await() that have not been released by bgo() or bclose():
\* those that have still to see the other sense.
Inside == {w \in Workers : pc[w] \in {"asleep", "woken"} /\ sense # ws[w] /\ ~closed}

\* While the coordinator aggregates, between bwait() and bgo(), every worker is
\* inside await() and cannot leave it: no worker that is still on its way out of
\* the previous phase is counted in this one.
AggregationIsExclusive == cpc = "aggregating" /\ ~closed => Inside = Workers

\* Nobody sleeps through the broadcast meant for it: a sleeping worker has yet to
\* be released, and a sleeping coordinator has still a worker to wait for.
NoLostWakeup ==
  /\ \A w \in Workers : pc[w] = "asleep" => sense # ws[w] /\ ~closed
  /\ cpc = "asleep" => val # 0

\* The workers' view of the barrier.
at == [w \in Workers |-> IF pc[w] = "gone" THEN "gone"
                         ELSE IF w \in Inside THEN "in" ELSE "out"]
coord == CASE cpc = "aggregating" -> "holding"
           [] cpc = "done" -> "done"
           [] OTHER -> "waiting"

\* sense.c keeps the promise of PhaseBarrier: the workers pass from phase to
\* phase in lock step, and only bgo() or bclose() lets them out of await().
PB == INSTANCE PhaseBarrier WITH Workers <- Workers, at <- at, coord <- coord
PhaseBarrierSpec == PB!PSpec

\* The coordinator's bwait() returns, again and again, unless the barrier is
\* closed: all workers of the phase do arrive and do wake it.
BwaitReturns == (cpc \in {"bwait", "asleep", "woken"}) ~> (cpc = "aggregating" \/ closed)

\* Once the barrier is closed, no worker hangs in it: all leave for good.
ClosedWorkersLeave == closed ~> (\A w \in Workers : pc[w] = "gone")
================================================================================
