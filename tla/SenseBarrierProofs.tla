-------------------------- MODULE SenseBarrierProofs --------------------------
(***************************************************************************)
(* Proofs about SenseBarrier for any finite set of workers: the type       *)
(* invariant, exclusive aggregation, no lost wakeup, and that it           *)
(* implements PhaseBarrier.                                                *)
(***************************************************************************)
EXTENDS SenseBarrier, FiniteSetTheorems, TLAPS

\* The coordinator's bool is always opposite to the barrier's, and before closure
\* a worker outside await() has the coordinator's.
SenseInv ==
  /\ sense = ~cs
  /\ \A w \in Workers : pc[w] = "gone" => closed
  /\ \A w \in Workers : ~closed /\ pc[w] = "working" => ws[w] # sense

\* The count is what is missing to all workers being inside.
CountInv == ~closed => val = max - Cardinality(Inside)

IInv == TypeOK /\ SenseInv /\ CountInv /\ AggregationIsExclusive /\ NoLostWakeup

LEMMA Cards ==
  /\ max \in Nat \ {0}
  /\ IsFiniteSet(Inside) /\ Inside \subseteq Workers
  /\ Cardinality(Inside) \in 0 .. max
  /\ Cardinality(Inside) = max <=> Inside = Workers
  <1>1. Inside \subseteq Workers
    BY DEF Inside
  <1>2. IsFiniteSet(Workers)
    BY WorkersAssumption
  <1>3. IsFiniteSet(Inside) /\ Cardinality(Inside) <= max
        /\ (Cardinality(Inside) = max => Inside = Workers)
    BY <1>1, <1>2, FS_Subset DEF max
  <1>4. max \in Nat /\ Cardinality(Inside) \in Nat
    BY <1>2, <1>3, FS_CardinalityType DEF max
  <1>5. max # 0
    BY <1>2, FS_EmptySet, WorkersAssumption DEF max
  <1> QED
    BY <1>1, <1>3, <1>4, <1>5 DEF max

--------------------------------------------------------------------------------
LEMMA AwaitStep ==
  ASSUME IInv, NEW w \in Workers, Await(w)
  PROVE  IInv'
  <1> USE DEF IInv, TypeOK, SenseInv
  <1>1. CASE closed
    <2>1. /\ pc' = [pc EXCEPT ![w] = "gone"]
          /\ UNCHANGED <<val, ws, cpc, sense, closed, cs>>
      BY <1>1 DEF Await
    <2> QED
      BY <1>1, <2>1 DEF CountInv, AggregationIsExclusive, NoLostWakeup, max
  <1>2. CASE ~closed
    <2>1. sense # ws[w] /\ pc[w] = "working"
      BY <1>2 DEF Await
    <2>2. /\ val' = val - 1
          /\ cpc' = IF val = 1 THEN CAwake(cpc) ELSE cpc
          /\ pc' = [(IF val = 1 THEN Awake(pc) ELSE pc) EXCEPT ![w] = "asleep"]
          /\ UNCHANGED <<ws, sense, closed, cs>>
      BY <1>2, <2>1 DEF Await
    <2>3. /\ pc' \in [Workers -> {"working", "asleep", "woken", "gone"}]
          /\ pc'[w] = "asleep"
          /\ \A u \in Workers : u # w => \/ pc'[u] = pc[u]
                                         \/ pc[u] = "asleep" /\ pc'[u] = "woken"
      BY <2>2 DEF Awake
    <2>4. w \notin Inside /\ Inside' = Inside \cup {w}
      BY <1>2, <2>1, <2>2, <2>3 DEF Inside
    <2>5. /\ Cardinality(Inside \cup {w}) = Cardinality(Inside) + 1
      BY <2>4, Cards, FS_AddElement
    <2>6. CountInv'
      BY <1>2, <2>2, <2>4, <2>5, Cards DEF CountInv, max
    <2>7. Cardinality(Inside) # max
      BY <2>4, Cards
    <2>8. val' \in 0 .. max
      BY <1>2, <2>2, <2>7, Cards DEF CountInv
    <2>9. cpc' \in {"bwait", "asleep", "woken", "aggregating", "done"}
      BY <2>2 DEF CAwake
    <2>10. TypeOK' /\ SenseInv'
      BY <2>1, <2>2, <2>3, <2>8, <2>9 DEF max
    <2>11. cpc' = "aggregating" => cpc = "aggregating"
      BY <2>2 DEF CAwake
    <2>12. AggregationIsExclusive'
      BY <1>2, <2>4, <2>11 DEF AggregationIsExclusive
    <2>13. cpc' = "asleep" => val' # 0
      BY <2>2 DEF NoLostWakeup, CAwake
    <2>14. NoLostWakeup'
      BY <1>2, <2>1, <2>2, <2>3, <2>13 DEF NoLostWakeup
    <2> QED
      BY <2>6, <2>10, <2>12, <2>14
  <1> QED
    BY <1>1, <1>2

LEMMA AwaitAgainStep ==
  ASSUME IInv, NEW w \in Workers, AwaitAgain(w)
  PROVE  IInv'
  <1> USE DEF IInv, TypeOK, SenseInv
  <1>1. /\ pc[w] = "woken" /\ UNCHANGED <<val, sense, closed, cs, cpc>>
        /\ \A u \in Workers : u # w => pc'[u] = pc[u] /\ ws'[u] = ws[u]
        /\ pc'[w] \in {"working", "asleep"}
        /\ pc' \in [Workers -> {"working", "asleep", "woken", "gone"}]
        /\ ws' \in [Workers -> BOOLEAN]
    BY DEF AwaitAgain
  <1>2. /\ ~closed /\ pc'[w] = "asleep" => sense # ws[w] /\ ws'[w] = ws[w]
        /\ ~closed /\ pc'[w] = "working" => sense = ws[w] /\ ws'[w] # sense
        /\ closed => pc'[w] = "working"
    BY DEF AwaitAgain
  <1>3. Inside' = Inside
    BY <1>1, <1>2 DEF Inside
  <1>4. TypeOK' /\ SenseInv'
    BY <1>1, <1>2 DEF max
  <1>5. CountInv' /\ AggregationIsExclusive'
    BY <1>1, <1>3 DEF CountInv, AggregationIsExclusive, max
  <1>6. NoLostWakeup'
    BY <1>1, <1>2 DEF NoLostWakeup
  <1> QED
    BY <1>4, <1>5, <1>6

LEMMA BwaitStep ==
  ASSUME IInv, Bwait
  PROVE  IInv'
  <1> USE DEF IInv, TypeOK, SenseInv, Bwait
  <1>1. Inside' = Inside
    BY DEF Inside
  <1>2. TypeOK' /\ SenseInv' /\ CountInv'
    BY <1>1 DEF CountInv, max
  <1>3. AggregationIsExclusive'
    BY <1>1, Cards DEF AggregationIsExclusive, CountInv
  <1>4. NoLostWakeup'
    BY DEF NoLostWakeup
  <1> QED
    BY <1>2, <1>3, <1>4

LEMMA BgoStep ==
  ASSUME IInv, Bgo
  PROVE  IInv'
  <1> USE DEF IInv, TypeOK, SenseInv, Bgo
  <1>1. /\ pc' \in [Workers -> {"working", "asleep", "woken", "gone"}]
        /\ \A w \in Workers : pc'[w] # "asleep" /\ (pc'[w] # "woken" => pc'[w] = pc[w])
    BY DEF Awake
  <1>2. ~closed => Inside = Workers
    BY DEF AggregationIsExclusive
  <1>3. Inside' = {}
    BY <1>2 DEF Inside
  <1>4. ~closed => \A w \in Workers : pc[w] \in {"asleep", "woken"}
    BY <1>2 DEF Inside
  <1>5. TypeOK'
    BY <1>1, Cards DEF max
  <1>6. SenseInv'
    BY <1>1, <1>4
  <1>7. CountInv'
    BY <1>3, Cards, FS_EmptySet DEF CountInv, max
  <1>8. AggregationIsExclusive' /\ NoLostWakeup'
    BY <1>1 DEF AggregationIsExclusive, NoLostWakeup
  <1> QED
    BY <1>5, <1>6, <1>7, <1>8

LEMMA BcloseStep ==
  ASSUME IInv, Bclose
  PROVE  IInv'
  <1> USE DEF IInv, TypeOK, SenseInv, Bclose
  <1>1. /\ pc' \in [Workers -> {"working", "asleep", "woken", "gone"}]
        /\ \A w \in Workers : pc'[w] # "asleep"
    BY DEF Awake
  <1>2. cpc' \in {"bwait", "woken", "aggregating", "done"}
    BY DEF CAwake
  <1> QED
    BY <1>1, <1>2 DEF CountInv, AggregationIsExclusive, NoLostWakeup, max

LEMMA SpuriousStep ==
  ASSUME IInv, SpuriousWakeup
  PROVE  IInv'
  <1> USE DEF IInv, TypeOK, SenseInv
  <1>1. CASE /\ \E w \in Workers : pc[w] = "asleep" /\ pc' = [pc EXCEPT ![w] = "woken"]
             /\ UNCHANGED <<val, sense, closed, ws, cs, cpc>>
    <2>1. Inside' = Inside
      BY <1>1 DEF Inside
    <2> QED
      BY <1>1, <2>1 DEF CountInv, AggregationIsExclusive, NoLostWakeup, max
  <1>2. CASE /\ cpc = "asleep" /\ cpc' = "woken"
             /\ UNCHANGED <<val, sense, closed, ws, cs, pc>>
    <2>1. Inside' = Inside
      BY <1>2 DEF Inside
    <2> QED
      BY <1>2, <2>1 DEF CountInv, AggregationIsExclusive, NoLostWakeup, max
  <1> QED
    BY <1>1, <1>2 DEF SpuriousWakeup

LEMMA Initially == Init => IInv
  <1> SUFFICES ASSUME Init
               PROVE  IInv
    OBVIOUS
  <1>1. Inside = {}
    BY DEF Init, Inside
  <1>2. max \in Nat /\ Cardinality(Inside) = 0
    BY <1>1, Cards, FS_EmptySet
  <1>3. TypeOK
    <2>1. val \in 0 .. max
      BY <1>2 DEF Init
    <2>2. ws \in [Workers -> BOOLEAN]
      BY Zenon DEF Init
    <2>3. pc \in [Workers -> {"working", "asleep", "woken", "gone"}]
      BY DEF Init
    <2> QED
      BY <2>1, <2>2, <2>3 DEF Init, TypeOK
  <1>4. SenseInv
    BY DEF Init, SenseInv
  <1>5. CountInv
    BY <1>2 DEF Init, CountInv
  <1>6. AggregationIsExclusive /\ NoLostWakeup
    BY DEF Init, AggregationIsExclusive, NoLostWakeup
  <1> QED
    BY <1>3, <1>4, <1>5, <1>6 DEF IInv

\* Every reachable state satisfies the inductive invariant.
THEOREM Invariance == Spec => []IInv
  <1>1. IInv /\ [Next]_vars => IInv'
    <2> SUFFICES ASSUME IInv, [Next]_vars
                 PROVE  IInv'
      OBVIOUS
    <2>1. CASE UNCHANGED vars
      <3>1. Inside' = Inside
        BY <2>1 DEF Inside, vars
      <3> QED
        BY <2>1, <3>1 DEF vars, IInv, TypeOK, SenseInv, CountInv, AggregationIsExclusive,
           NoLostWakeup, max
    <2> QED
      BY <2>1, AwaitStep, AwaitAgainStep, BwaitStep, BgoStep, BcloseStep, SpuriousStep
      DEF Next, Worker, Finished
  <1> QED
    BY Initially, <1>1, PTL DEF Spec

\* Type correctness: in particular the count stays between zero and max.
THEOREM TypeCorrect == Spec => []TypeOK
  <1>1. IInv => TypeOK
    BY DEF IInv
  <1> QED
    BY Invariance, <1>1, PTL

\* Between bwait() and bgo(), the coordinator has all the workers inside await().
THEOREM AggregationCorrect == Spec => []AggregationIsExclusive
  <1>1. IInv => AggregationIsExclusive
    BY DEF IInv
  <1> QED
    BY Invariance, <1>1, PTL

\* Nobody sleeps through the broadcast that concerns it.
THEOREM WakeupCorrect == Spec => []NoLostWakeup
  <1>1. IInv => NoLostWakeup
    BY DEF IInv
  <1> QED
    BY Invariance, <1>1, PTL

--------------------------------------------------------------------------------
LEMMA PInitially == Init => PB!PInit
  BY DEF Init, PB!PInit, at, coord, Inside

LEMMA PStep ==
  ASSUME IInv, [Next]_vars
  PROVE  [PB!PNext]_<<at, coord, closed>>
  <1> USE DEF IInv, TypeOK, SenseInv
  <1>1. ASSUME NEW w \in Workers, Await(w)
        PROVE  PB!Arrive(w) \/ PB!Leave(w)
    <2>1. CASE closed
      <3>1. Inside = {} /\ Inside' = {}
        BY <2>1, <1>1 DEF Inside, Await
      <3>2. pc[w] = "working" /\ pc' = [pc EXCEPT ![w] = "gone"] /\ UNCHANGED <<closed, cpc>>
        BY <2>1, <1>1 DEF Await
      <3>3. at[w] = "out" /\ at' = [at EXCEPT ![w] = "gone"]
        BY <3>1, <3>2 DEF at
      <3> QED
        BY <2>1, <3>2, <3>3 DEF PB!Leave, coord
    <2>2. CASE ~closed
      <3>1. sense # ws[w] /\ pc[w] = "working"
        BY <1>1, <2>2 DEF Await
      <3>2. /\ pc' = [(IF val = 1 THEN Awake(pc) ELSE pc) EXCEPT ![w] = "asleep"]
            /\ cpc' = IF val = 1 THEN CAwake(cpc) ELSE cpc
            /\ UNCHANGED <<ws, sense, closed>>
        BY <1>1, <2>2, <3>1 DEF Await
      <3>3. /\ pc'[w] = "asleep"
            /\ \A u \in Workers : u # w => \/ pc'[u] = pc[u]
                                           \/ pc[u] = "asleep" /\ pc'[u] = "woken"
        BY <3>2 DEF Awake
      <3>4. Inside' = Inside \cup {w} /\ w \notin Inside
        BY <2>2, <3>1, <3>2, <3>3 DEF Inside
      <3>5. at[w] = "out" /\ at' = [at EXCEPT ![w] = "in"]
        BY <2>2, <3>1, <3>3, <3>4 DEF at
      <3>6. coord' = coord
        BY <3>2 DEF coord, CAwake
      <3> QED
        BY <2>2, <3>2, <3>5, <3>6 DEF PB!Arrive
    <2> QED
      BY <2>1, <2>2
  <1>2. ASSUME NEW w \in Workers, AwaitAgain(w)
        PROVE  UNCHANGED <<at, coord, closed>>
    <2>1. UNCHANGED <<sense, closed, cpc>> /\ pc[w] = "woken"
      BY <1>2 DEF AwaitAgain
    <2>2. Inside' = Inside /\ \A u \in Workers : pc[u] = "gone" <=> pc'[u] = "gone"
      BY <1>2 DEF AwaitAgain, Inside
    <2> QED
      BY <2>1, <2>2 DEF at, coord
  <1>3. ASSUME Bwait
        PROVE  PB!Gather \/ UNCHANGED <<at, coord, closed>>
    <2>1. Inside' = Inside /\ at' = at /\ closed' = closed
      BY <1>3 DEF Bwait, Inside, at
    <2>2. CASE val # 0
      BY <1>3, <2>1, <2>2 DEF Bwait, coord
    <2>3. CASE val = 0
      <3>1. ~closed => Inside = Workers
        BY <2>3, Cards DEF CountInv
      <3>2. ~closed => \A w \in Workers : at[w] = "in"
        BY <3>1 DEF at, Inside
      <3>3. coord = "waiting" /\ coord' = "holding"
        BY <1>3, <2>3 DEF Bwait, coord
      <3> QED
        BY <2>1, <3>2, <3>3 DEF PB!Gather
    <2> QED
      BY <2>2, <2>3
  <1>4. ASSUME Bgo
        PROVE  PB!Release
    <2>1. \A w \in Workers : pc[w] = "gone" <=> pc'[w] = "gone"
      BY <1>4 DEF Bgo, Awake
    <2>2. Inside' = {}
      BY <1>4 DEF Bgo, Inside, AggregationIsExclusive
    <2>3. at' = [w \in Workers |-> IF at[w] = "in" THEN "out" ELSE at[w]]
      BY <2>1, <2>2 DEF at, Inside
    <2>4. coord = "holding" /\ coord' = "waiting" /\ closed' = closed
      BY <1>4 DEF Bgo, coord
    <2> QED
      BY <2>3, <2>4 DEF PB!Release
  <1>5. ASSUME Bclose
        PROVE  PB!Close
    <2>1. \A w \in Workers : pc[w] = "gone" <=> pc'[w] = "gone"
      BY <1>5 DEF Bclose, Awake
    <2>2. Inside' = {} /\ closed' = TRUE
      BY <1>5 DEF Bclose, Inside
    <2>3. at' = [w \in Workers |-> IF at[w] = "in" THEN "out" ELSE at[w]]
      BY <2>1, <2>2 DEF at, Inside
    <2>4. coord' \in {coord, "done"}
      BY <1>5 DEF Bclose, coord, CAwake
    <2> QED
      BY <2>2, <2>3, <2>4 DEF PB!Close
  <1>6. ASSUME SpuriousWakeup
        PROVE  UNCHANGED <<at, coord, closed>>
    <2>1. Inside' = Inside /\ \A u \in Workers : pc[u] = "gone" <=> pc'[u] = "gone"
      BY <1>6 DEF SpuriousWakeup, Inside
    <2>2. coord' = coord /\ closed' = closed
      BY <1>6 DEF SpuriousWakeup, coord
    <2> QED
      BY <2>1, <2>2 DEF at
  <1>7. ASSUME UNCHANGED vars
        PROVE  UNCHANGED <<at, coord, closed>>
    BY <1>7 DEF vars, at, coord, Inside
  <1> QED
    BY <1>1, <1>2, <1>3, <1>4, <1>5, <1>6, <1>7 DEF Next, Worker, Finished, PB!PNext

\* sense.c implements the abstract phase barrier.
THEOREM Refinement == Spec => PhaseBarrierSpec
  <1>1. IInv /\ [Next]_vars => [PB!PNext]_<<at, coord, closed>>
    BY PStep
  <1> QED
    BY PInitially, <1>1, Invariance, PTL DEF Spec, PhaseBarrierSpec, PB!PSpec, PB!pvars
================================================================================
