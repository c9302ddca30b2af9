---------------------------- MODULE WorkQueueProofs ----------------------------
(***************************************************************************)
(* Proofs about WorkQueue for every program, every number of items, of     *)
(* clients and of barriers, and every value of NUMPROC.                    *)
(***************************************************************************)
EXTENDS WorkQueue, FiniteSetTheorems, TLAPS

\* An item between binc and the insertion belongs to the thread in the call.
CallInv ==
  \A t \in Threads :
    InCall(t) => /\ sub[t] \in Items
                 /\ st[sub[t]] = "counted" /\ where[sub[t]] = t

\* The items of a queue are queued, there, and once.
QueueInv ==
  \A q \in Queues : \A n \in 1 .. Len(wq_entries[q]) :
    /\ st[wq_entries[q][n]] = "queued" /\ where[wq_entries[q][n]] = q
    /\ \A m \in 1 .. Len(wq_entries[q]) :
         wq_entries[q][m] = wq_entries[q][n] => m = n

\* The item of a worker is running while its callback does, and has run with its
\* barrier still to be decremented afterwards.
RunInv ==
  \A q \in Queues :
    /\ InCallback(q) => /\ cur[q] \in Items
                        /\ st[cur[q]] = "running" /\ where[cur[q]] = q
    /\ pc[q] = "bdec" => /\ cur[q] \in Items /\ Bar[cur[q]] # None
                         /\ st[cur[q]] = "ran" /\ where[cur[q]] = q

\* A callback that has returned has made all its calls of workqueue().
SubmitInv ==
  \A i \in Items : Parent[i] \in Items /\ st[Parent[i]] \in {"ran", "freed"}
                   => st[i] # "new"

\* A client has made the calls of its past stages, and those of its stage when
\* it waits.
StageInv ==
  \A c \in Clients :
    /\ stage[c] <= Len(WaitFor[c]) + 1
    /\ pc[c] \in {"bsleep", "bwait"} =>
         stage[c] <= Len(WaitFor[c]) /\ WaitFor[c][stage[c]] \in Barriers
    /\ \A i \in Items :
         /\ Parent[i] = c
         /\ \/ Stage[i] < stage[c]
            \/ Stage[i] = stage[c] /\ pc[c] \in {"bsleep", "bwait"}
         => st[i] # "new"

\* workqueue_exit starts with the first queue and indexes only queues.
ExitInv ==
  /\ pc[Main] \in {"exit", "join"} => exiting < nproc
  /\ pc[Main] \notin {"exit", "join", "terminated"} => exiting = 0

\* TypeOK but for the counters being natural numbers.
Types ==
  /\ started \in BOOLEAN
  /\ rover \in Nat
  /\ wq_entries \in [Queues -> Seq(Items)]
  /\ wq_items \in [Queues -> Int]
  /\ wq_should_exit \in [Queues -> BOOLEAN]
  /\ b_count \in [Barriers -> Int]
  /\ pc \in [Threads -> ThreadStates]
  /\ sub \in [Threads -> Items \cup {None}]
  /\ reg \in [Threads -> Nat]
  /\ cur \in [Queues -> Items \cup {None}]
  /\ stage \in [Clients -> Nat \ {0}]
  /\ exiting \in 0 .. nproc
  /\ st \in [Items -> ItemStates]
  /\ where \in [Items -> Threads \cup {None}]

\* wq_items counts the entries of the queue.
ItemCount == \A q \in Queues : wq_items[q] = Len(wq_entries[q])

\* An item with a key is where its key says.
KeyInv ==
  \A i \in Items :
    st[i] \in {"queued", "running", "ran", "freed"} /\ wi_key(i) # 0
    => where[i] = wi_key(i) % nproc

IInv ==
  /\ Types
  /\ CallInv
  /\ QueueInv
  /\ RunInv
  /\ SubmitInv
  /\ StageInv
  /\ ExitInv
  /\ ItemCount
  /\ KeyInv
  /\ WorkerNotForgotten
  /\ BarrierCount
  /\ BwaitCovers

--------------------------------------------------------------------------------
LEMMA NProc == nproc \in 1 .. 4 /\ Queues = 0 .. nproc - 1 /\ Queues # {}
  <1>1. NUMPROC = None \/ NUMPROC \in Int
    BY ProgramAssumption
  <1>2. nproc \in 1 .. 4
    BY <1>1 DEF nproc, SCHED_WORKQUEUES
  <1>3. Queues = 0 .. nproc - 1
    BY DEF Queues
  <1> HIDE DEF nproc, Queues
  <1>4. 0 \in Queues
    BY <1>2, <1>3
  <1> QED
    BY <1>2, <1>3, <1>4

\* What selqueue selects is a queue.
LEMMA Selected ==
  ASSUME Types, CallInv, NEW t \in Threads, pc[t] = "insert"
  PROVE  selqueue(t) \in Queues
  <1>1. sub[t] \in Items
    BY DEF CallInv, InCall
  <1>2. wi_key(sub[t]) \in Nat /\ reg[t] \in Nat
    BY <1>1, ProgramAssumption DEF wi_key, Types
  <1> QED
    BY <1>2, NProc DEF selqueue

--------------------------------------------------------------------------------
(* The elementary steps every action of Next consists of.                  *)

\* A worker takes the first item of its queue.
Take(q) ==
  pc[q] \in {"top", "woken", "relock"} /\ wq_entries[q] # <<>> /\ TakeFirst(q)

\* A worker moves between its loop, its wait and its end.
WorkerMoves(q) ==
  /\ pc[q] \in {"top", "sleep", "woken", "relock"}
  /\ \E l \in {"top", "sleep", "woken", "exited"} :
       /\ l = "sleep" => wq_items[q] = 0 /\ ~wq_should_exit[q]
       /\ l = "exited" => wq_items[q] = 0 /\ wq_should_exit[q]
       /\ Goto(q, l)

\* A client goes to sleep in bwait, or is back from its wait.
ClientMoves(c) ==
  /\ Waiting(c) \/ pc[c] \in {"bwait", "bsleep"}
  /\ WaitFor[c][stage[c]] \in Barriers
  /\ \/ Goto(c, "bwait")
     \/ b_count[WaitFor[c][stage[c]]] > 0 /\ Goto(c, "bsleep")

\* A client ends a stage.
ClientAdvances(c) ==
  /\ stage[c] <= Len(WaitFor[c])
  /\ Waiting(c) \/ pc[c] = "bwait"
  /\ WaitFor[c][stage[c]] \in Barriers => b_count[WaitFor[c][stage[c]]] <= 0
  /\ WaitFor[c][stage[c]] \in Items => st[WaitFor[c][stage[c]]] \in {"ran", "freed"}
  /\ NextStage(c)

LEMMA Cases ==
  ASSUME IInv, [Next]_vars
  PROVE  \/ \E t \in Threads : \/ \E i \in Items : workqueue(t, i)
                              \/ LoadRover(t) \/ StoreRover(t) \/ Insert(t)
         \/ \E q \in Queues : \/ Take(q) \/ WorkerMoves(q)
                             \/ CallbackReturns(q) \/ bdec(q)
         \/ \E c \in Clients : ClientMoves(c) \/ ClientAdvances(c)
         \/ MainReturns \/ workqueue_exit \/ Join
         \/ UNCHANGED vars
  <1>1. ASSUME NEW t \in Threads, SpuriousWakeup(t)
        PROVE  \/ \E q \in Queues : WorkerMoves(q)
               \/ \E c \in Clients : ClientMoves(c)
    <2>1. CASE t \in Queues /\ pc[t] = "sleep" /\ Goto(t, "woken")
      BY <2>1 DEF WorkerMoves
    <2>2. CASE t \in Clients /\ pc[t] = "bsleep" /\ Goto(t, "bwait")
      BY <2>2 DEF ClientMoves, IInv, StageInv
    <2> QED
      BY <1>1, <2>1, <2>2 DEF SpuriousWakeup
  <1>2. ASSUME NEW q \in Queues, LoopTop(q) \/ Woken(q) \/ Relock(q)
        PROVE  Take(q) \/ WorkerMoves(q)
    BY <1>2 DEF LoopTop, Woken, Relock, Take, WorkerMoves, TakeFirst
  <1>3. ASSUME NEW c \in Clients, EndStage(c)
        PROVE  ClientMoves(c) \/ ClientAdvances(c)
    <2> DEFINE target == WaitFor[c][stage[c]]
    <2>1. CASE target \in Barriers /\ bwait(c, target)
      BY <1>3, <2>1, ProgramAssumption DEF EndStage, bwait, ClientMoves, ClientAdvances
    <2>2. CASE target \notin Barriers
      BY <1>3, <2>2, ProgramAssumption DEF EndStage, ClientAdvances
    <2>3. CASE target \in Barriers /\ ~bwait(c, target)
      BY <1>3, <2>3, ProgramAssumption DEF EndStage
    <2> QED
      BY <2>1, <2>2, <2>3
  <1> QED
    BY <1>1, <1>2, <1>3 DEF Next, Call, Worker, Exit, Terminated

--------------------------------------------------------------------------------
LEMMA ThreadFacts ==
  /\ Clients \cap Queues = {} /\ Clients \subseteq Threads /\ Queues \subseteq Threads
  /\ Main \in Clients
  /\ \A i \in Items : Bar[i] \in Barriers \cup {None}
  /\ None \notin Items /\ None \notin Barriers
  BY ProgramAssumption DEF Threads

LEMMA TypesStep ==
  ASSUME IInv, [Next]_vars
  PROVE  Types'
  <1>0. Types
    BY DEF IInv
  <1> USE <1>0, ThreadFacts DEF Types
  <1>1. ASSUME NEW t \in Threads, NEW i \in Items, workqueue(t, i)
        PROVE  Types'
    BY <1>1 DEF workqueue, Submits, Caller, ItemStates, ThreadStates
  <1>2. ASSUME NEW t \in Threads, LoadRover(t) \/ StoreRover(t)
        PROVE  Types'
    <2>1. CASE LoadRover(t)
      BY <2>1 DEF LoadRover, ThreadStates
    <2>2. CASE StoreRover(t)
      <3>1. rover' \in Nat
        BY <2>2 DEF StoreRover
      <3> QED
        BY <2>2, <3>1 DEF StoreRover, ThreadStates
    <2> QED
      BY <1>2, <2>1, <2>2
  <1>3. ASSUME NEW t \in Threads, Insert(t)
        PROVE  Types'
    <2>1. selqueue(t) \in Queues /\ sub[t] \in Items
      BY <1>3, Selected DEF CallInv, InCall, Insert, IInv
    <2>2. /\ pc' \in [Threads -> ThreadStates]
      BY <1>3 DEF Insert, Caller, ThreadStates
    <2>3. /\ wq_entries' \in [Queues -> Seq(Items)]
          /\ wq_items' \in [Queues -> Int]
          /\ st' \in [Items -> ItemStates]
          /\ where' \in [Items -> Threads \cup {None}]
      BY <1>3, <2>1 DEF Insert, ItemStates
    <2> QED
      BY <1>3, <2>2, <2>3 DEF Insert
  <1>4. ASSUME NEW q \in Queues, Take(q)
        PROVE  Types'
    BY <1>4 DEF Take, TakeFirst, ItemStates, ThreadStates
  <1>5. ASSUME NEW q \in Queues, WorkerMoves(q)
        PROVE  Types'
    BY <1>5 DEF WorkerMoves, Goto, ThreadStates
  <1>6. ASSUME NEW q \in Queues, CallbackReturns(q)
        PROVE  Types'
    <2>1. /\ pc' \in [Threads -> ThreadStates]
      <3>1. pc' = [pc EXCEPT ![q] = "bdec"] \/ pc' = [pc EXCEPT ![q] = "relock"]
        BY <1>6, Zenon DEF CallbackReturns
      <3>2. "bdec" \in ThreadStates /\ "relock" \in ThreadStates /\ q \in Threads
        BY DEF ThreadStates
      <3>3. pc \in [Threads -> ThreadStates]
        OBVIOUS
      <3> QED
        BY ONLY <3>1, <3>2, <3>3
    <2>2. st' \in [Items -> ItemStates]
      BY <1>6 DEF CallbackReturns, ItemStates
    <2> QED
      BY <1>6, <2>1, <2>2 DEF CallbackReturns
  <1>7. ASSUME NEW q \in Queues, bdec(q)
        PROVE  Types'
    <2>1. /\ pc' \in [Threads -> ThreadStates]
      BY <1>7 DEF bdec, Sleepers, ThreadStates
    <2>2. st' \in [Items -> ItemStates]
      BY <1>7 DEF bdec, ItemStates
    <2>3. PICK b \in Barriers : b_count' = [b_count EXCEPT ![b] = b_count[b] - 1]
      BY <1>7 DEF bdec, IInv, RunInv
    <2>4. b_count[b] - 1 \in Int
      BY DEF Types
    <2> QED
      BY <1>7, <2>1, <2>2, <2>3, <2>4 DEF bdec
  <1>8. ASSUME NEW c \in Clients, ClientMoves(c)
        PROVE  Types'
    BY <1>8 DEF ClientMoves, Goto, ThreadStates
  <1>9. ASSUME NEW c \in Clients, ClientAdvances(c)
        PROVE  Types'
    BY <1>9 DEF ClientAdvances, NextStage, ThreadStates
  <1>10. CASE MainReturns
    BY <1>10 DEF MainReturns, Goto, ThreadStates
  <1>11. CASE workqueue_exit \/ Join
    <2>1. CASE workqueue_exit
      BY <2>1 DEF workqueue_exit, ThreadStates
    <2>2. CASE Join
      <3>1. exiting' \in 0 .. nproc
        BY <2>2, NProc DEF Join, IInv, ExitInv
      <3> QED
        BY <2>2, <3>1 DEF Join, ThreadStates
    <2> QED
      BY <1>11, <2>1, <2>2
  <1>12. CASE UNCHANGED vars
    BY <1>12 DEF vars
  <1> QED
    BY <1>1, <1>2, <1>3, <1>4, <1>5, <1>6, <1>7, <1>8, <1>9, <1>10, <1>11, <1>12, Cases

\* What the first item of a queue is, and what remains when it is taken.
LEMMA FirstItem ==
  ASSUME Types, QueueInv, NEW q \in Queues, wq_entries[q] # <<>>
  PROVE  LET i == Head(wq_entries[q]) IN
         /\ i \in Items /\ st[i] = "queued" /\ where[i] = q
         /\ Len(Tail(wq_entries[q])) = Len(wq_entries[q]) - 1
         /\ \A n \in 1 .. Len(wq_entries[q]) - 1 :
              Tail(wq_entries[q])[n] = wq_entries[q][n + 1] /\ wq_entries[q][n + 1] # i
  <1>1. wq_entries[q] \in Seq(Items) /\ Len(wq_entries[q]) \in Nat \ {0}
    BY DEF Types
  <1>2. Head(wq_entries[q]) = wq_entries[q][1] /\ wq_entries[q][1] \in Items
    BY <1>1
  <1> QED
    BY <1>1, <1>2 DEF QueueInv

LEMMA CallStep ==
  ASSUME IInv, [Next]_vars
  PROVE  CallInv'
  <1>0. Types /\ CallInv /\ QueueInv /\ RunInv
    BY DEF IInv
  <1> USE <1>0, ThreadFacts DEF Types, CallInv, InCall
  <1>1. ASSUME NEW t \in Threads, NEW i \in Items, workqueue(t, i)
        PROVE  CallInv'
    BY <1>1 DEF workqueue, Submits
  <1>2. ASSUME NEW t \in Threads, LoadRover(t) \/ StoreRover(t)
        PROVE  CallInv'
    BY <1>2 DEF LoadRover, StoreRover
  <1>3. ASSUME NEW t \in Threads, Insert(t)
        PROVE  CallInv'
    BY <1>3, Selected DEF Insert, Caller
  <1>4. ASSUME NEW q \in Queues, Take(q)
        PROVE  CallInv'
    BY <1>4, FirstItem DEF Take, TakeFirst
  <1>5. ASSUME NEW q \in Queues, WorkerMoves(q)
        PROVE  CallInv'
    BY <1>5 DEF WorkerMoves, Goto
  <1>6. ASSUME NEW q \in Queues, CallbackReturns(q)
        PROVE  CallInv'
    BY <1>6 DEF CallbackReturns, RunInv, InCallback
  <1>7. ASSUME NEW q \in Queues, bdec(q)
        PROVE  CallInv'
    BY <1>7 DEF bdec, Sleepers, RunInv
  <1>8. ASSUME NEW c \in Clients, ClientMoves(c) \/ ClientAdvances(c)
        PROVE  CallInv'
    BY <1>8 DEF ClientMoves, ClientAdvances, NextStage, Goto
  <1>9. CASE MainReturns \/ workqueue_exit \/ Join
    <2>1. CASE MainReturns
      BY <2>1 DEF MainReturns, Goto
    <2>2. CASE workqueue_exit
      BY <2>2 DEF workqueue_exit
    <2>3. CASE Join
      BY <2>3 DEF Join
    <2> QED
      BY <1>9, <2>1, <2>2, <2>3
  <1>10. CASE UNCHANGED vars
    BY <1>10 DEF vars
  <1> QED
    BY <1>1, <1>2, <1>3, <1>4, <1>5, <1>6, <1>7, <1>8, <1>9, <1>10, Cases

LEMMA QueueStep ==
  ASSUME IInv, [Next]_vars
  PROVE  QueueInv'
  <1>0. Types /\ CallInv /\ QueueInv /\ RunInv
    BY DEF IInv
  <1> USE <1>0, ThreadFacts DEF Types, QueueInv
  <1>1. ASSUME NEW t \in Threads, NEW i \in Items, workqueue(t, i)
        PROVE  QueueInv'
    BY <1>1 DEF workqueue, Submits
  <1>2. ASSUME NEW t \in Threads, LoadRover(t) \/ StoreRover(t)
        PROVE  QueueInv'
    BY <1>2 DEF LoadRover, StoreRover
  <1>3. ASSUME NEW t \in Threads, Insert(t)
        PROVE  QueueInv'
    <2> DEFINE p == selqueue(t)
    <2>1. p \in Queues /\ sub[t] \in Items /\ st[sub[t]] = "counted"
      BY <1>3, Selected DEF Insert, CallInv, InCall
    <2>2. /\ Len(Append(wq_entries[p], sub[t])) = Len(wq_entries[p]) + 1
          /\ Append(wq_entries[p], sub[t])[Len(wq_entries[p]) + 1] = sub[t]
          /\ \A n \in 1 .. Len(wq_entries[p]) :
               Append(wq_entries[p], sub[t])[n] = wq_entries[p][n]
      BY <2>1
    <2>3. \A r \in Queues : \A n \in 1 .. Len(wq_entries[r]) :
            wq_entries[r][n] \in Items /\ wq_entries[r][n] # sub[t]
      BY <2>1
    <2>4. /\ wq_entries' = [wq_entries EXCEPT ![p] = Append(wq_entries[p], sub[t])]
          /\ st' = [st EXCEPT ![sub[t]] = "queued"]
          /\ where' = [where EXCEPT ![sub[t]] = p]
      BY <1>3 DEF Insert
    <2> HIDE DEF p
    <2>5. ASSUME NEW r \in Queues, NEW n \in 1 .. Len(wq_entries'[r])
          PROVE  /\ st'[wq_entries'[r][n]] = "queued" /\ where'[wq_entries'[r][n]] = r
                 /\ \A m \in 1 .. Len(wq_entries'[r]) :
                      wq_entries'[r][m] = wq_entries'[r][n] => m = n
      <3>1. CASE r # p
        BY <3>1, <2>1, <2>3, <2>4
      <3>2. CASE r = p
        <4>1. wq_entries'[r] = Append(wq_entries[p], sub[t])
          BY <3>2, <2>1, <2>4
        <4>2. Len(wq_entries[p]) \in Nat
          BY <2>1
        <4>3. CASE n = Len(wq_entries[p]) + 1
          BY <3>2, <4>1, <4>2, <4>3, <2>1, <2>2, <2>3, <2>4
        <4>4. CASE n \in 1 .. Len(wq_entries[p])
          <5>1. /\ wq_entries'[r][n] = wq_entries[p][n]
                /\ wq_entries[p][n] \in Items /\ wq_entries[p][n] # sub[t]
            BY <4>1, <4>4, <2>1, <2>2, <2>3
          <5>2. ASSUME NEW m \in 1 .. Len(wq_entries'[r]), wq_entries'[r][m] = wq_entries'[r][n]
                PROVE  m = n
            <6>1. m # Len(wq_entries[p]) + 1
              BY <5>1, <5>2, <4>1, <2>2
            <6>2. m \in 1 .. Len(wq_entries[p])
              BY <6>1, <4>1, <4>2, <2>2
            <6> QED
              BY <6>2, <5>1, <5>2, <4>1, <4>4, <2>1, <2>2
          <5>3. st[wq_entries[p][n]] = "queued" /\ where[wq_entries[p][n]] = p
            BY <4>4, <2>1
          <5>4. st'[wq_entries[p][n]] = "queued" /\ where'[wq_entries[p][n]] = p
            BY <5>1, <5>3, <2>4
          <5> QED
            BY <5>1, <5>2, <5>4, <3>2
        <4> QED
          BY SMTT(30), <4>1, <4>2, <4>3, <4>4, <2>2
      <3> QED
        BY <3>1, <3>2
    <2> QED
      BY <2>5
  <1>4. ASSUME NEW q \in Queues, Take(q)
        PROVE  QueueInv'
    <2> DEFINE i == Head(wq_entries[q])
    <2>1. /\ i \in Items /\ st[i] = "queued" /\ where[i] = q
          /\ Len(Tail(wq_entries[q])) = Len(wq_entries[q]) - 1
          /\ \A n \in 1 .. Len(wq_entries[q]) - 1 :
               Tail(wq_entries[q])[n] = wq_entries[q][n + 1] /\ wq_entries[q][n + 1] # i
      BY <1>4, FirstItem DEF Take
    <2>2. /\ wq_entries' = [wq_entries EXCEPT ![q] = Tail(wq_entries[q])]
          /\ st' = [st EXCEPT ![i] = "running"]
          /\ where' = where
      BY <1>4 DEF Take, TakeFirst
    <2> HIDE DEF i
    <2>3. ASSUME NEW r \in Queues, NEW n \in 1 .. Len(wq_entries'[r])
          PROVE  /\ st'[wq_entries'[r][n]] = "queued" /\ where'[wq_entries'[r][n]] = r
                 /\ \A m \in 1 .. Len(wq_entries'[r]) :
                      wq_entries'[r][m] = wq_entries'[r][n] => m = n
      <3>1. CASE r # q
        BY <3>1, <2>1, <2>2
      <3>2. CASE r = q
        <4>1. wq_entries'[r] = Tail(wq_entries[q])
          BY <3>2, <2>2
        <4>2. Len(wq_entries[q]) \in Nat /\ n + 1 \in 1 .. Len(wq_entries[q])
          BY <3>2, <4>1, <2>1
        <4> QED
          BY <3>2, <4>1, <4>2, <2>1, <2>2
      <3> QED
        BY <3>1, <3>2
    <2> QED
      BY <2>3
  <1>5. ASSUME NEW q \in Queues, WorkerMoves(q)
        PROVE  QueueInv'
    <2>1. UNCHANGED <<wq_entries, st, where>>
      BY <1>5 DEF WorkerMoves, Goto
    <2> QED
      BY <2>1
  <1>6. ASSUME NEW q \in Queues, CallbackReturns(q)
        PROVE  QueueInv'
    BY <1>6 DEF CallbackReturns, RunInv, InCallback
  <1>7. ASSUME NEW q \in Queues, bdec(q)
        PROVE  QueueInv'
    BY <1>7 DEF bdec, Sleepers, RunInv
  <1>8. ASSUME NEW c \in Clients, ClientMoves(c)
        PROVE  QueueInv'
    <2>1. UNCHANGED <<wq_entries, st, where>>
      BY <1>8 DEF ClientMoves, Goto
    <2> QED
      BY <2>1
  <1>9. ASSUME NEW c \in Clients, ClientAdvances(c)
        PROVE  QueueInv'
    BY <1>9 DEF ClientAdvances, NextStage
  <1>10. CASE MainReturns
    BY <1>10 DEF MainReturns, Goto
  <1>11. CASE workqueue_exit
    BY <1>11 DEF workqueue_exit
  <1>12. CASE Join
    BY <1>12 DEF Join
  <1>13. CASE UNCHANGED vars
    BY <1>13 DEF vars
  <1> QED
    BY <1>1, <1>2, <1>3, <1>4, <1>5, <1>6, <1>7, <1>8,
       <1>9, <1>10, <1>11, <1>12, <1>13, Cases

LEMMA RunStep ==
  ASSUME IInv, [Next]_vars
  PROVE  RunInv'
  <1>0. Types /\ CallInv /\ QueueInv /\ RunInv
    BY DEF IInv
  <1> USE <1>0, ThreadFacts DEF Types, RunInv, InCallback, InCall
  <1>1. ASSUME NEW t \in Threads, NEW i \in Items, workqueue(t, i)
        PROVE  RunInv'
    <2>1. \A r \in Queues : r = t \/ pc'[r] \notin {"load", "store", "insert", "cb", "bdec"}
                              \/ pc'[r] = pc[r]
      BY <1>1 DEF workqueue
    <2>2. \A r \in Queues : r = t => pc[r] = "cb" /\ pc'[r] # "bdec"
      BY <1>1 DEF workqueue, Submits, Caller
    <2>3. /\ cur' = cur
          /\ \A j \in Items : j # i => st'[j] = st[j] /\ where'[j] = where[j]
          /\ st[i] = "new"
      BY <1>1 DEF workqueue, Submits
    <2>4. ASSUME NEW r \in Queues, pc'[r] \in {"load", "store", "insert", "cb", "bdec"}
          PROVE  /\ r # t => pc'[r] = pc[r]
                 /\ cur[r] \in Items /\ cur[r] # i
                 /\ st'[cur'[r]] = st[cur[r]] /\ where'[cur'[r]] = where[cur[r]]
      BY <2>1, <2>2, <2>3, <2>4
    <2>5. ASSUME NEW r \in Queues
          PROVE  /\ pc'[r] \in {"load", "store", "insert", "cb"} =>
                      /\ cur'[r] \in Items
                      /\ st'[cur'[r]] = "running" /\ where'[cur'[r]] = r
                 /\ pc'[r] = "bdec" =>
                      /\ cur'[r] \in Items /\ Bar[cur'[r]] # None
                      /\ st'[cur'[r]] = "ran" /\ where'[cur'[r]] = r
      <3>1. CASE r = t
        BY <3>1, <2>2, <2>3, <2>4
      <3>2. CASE r # t
        BY <3>2, <2>3, <2>4
      <3> QED
        BY <3>1, <3>2
    <2> QED
      BY <2>5
  <1>2. ASSUME NEW t \in Threads, LoadRover(t) \/ StoreRover(t)
        PROVE  RunInv'
    BY <1>2 DEF LoadRover, StoreRover
  <1>3. ASSUME NEW t \in Threads, Insert(t)
        PROVE  RunInv'
    BY <1>3, Selected DEF Insert, Caller, CallInv
  <1>4. ASSUME NEW q \in Queues, Take(q)
        PROVE  RunInv'
    BY SMTT(30), <1>4, FirstItem DEF Take, TakeFirst
  <1>5. ASSUME NEW q \in Queues, WorkerMoves(q)
        PROVE  RunInv'
    BY <1>5 DEF WorkerMoves, Goto
  <1>6. ASSUME NEW q \in Queues, CallbackReturns(q)
        PROVE  RunInv'
    <2>1. \A r \in Queues : r # q => pc'[r] = pc[r]
      BY <1>6 DEF CallbackReturns
    <2>2. cur' = cur /\ where' = where /\ \A j \in Items : j # cur[q] => st'[j] = st[j]
      BY <1>6 DEF CallbackReturns
    <2>3. pc'[q] \in {"bdec", "relock"}
      BY <1>6 DEF CallbackReturns
    <2>4. pc'[q] = "bdec" => Bar[cur[q]] # None /\ st'[cur[q]] = "ran"
      BY <1>6 DEF CallbackReturns
    <2>5. cur[q] \in Items /\ where[cur[q]] = q
      BY <1>6 DEF CallbackReturns
    <2>6. ASSUME NEW r \in Queues, r # q
          PROVE  /\ InCallback(r) => /\ cur[r] \in Items /\ cur[r] # cur[q]
                                    /\ st'[cur[r]] = st[cur[r]]
                 /\ pc[r] = "bdec" => /\ cur[r] \in Items /\ cur[r] # cur[q]
                                       /\ st'[cur[r]] = st[cur[r]]
      BY <2>2, <2>5, <2>6
    <2>7. ASSUME NEW r \in Queues
          PROVE  /\ pc'[r] \in {"load", "store", "insert", "cb"} =>
                      /\ cur'[r] \in Items
                      /\ st'[cur'[r]] = "running" /\ where'[cur'[r]] = r
                 /\ pc'[r] = "bdec" =>
                      /\ cur'[r] \in Items /\ Bar[cur'[r]] # None
                      /\ st'[cur'[r]] = "ran" /\ where'[cur'[r]] = r
      <3>1. CASE r = q
        BY <3>1, <2>2, <2>3, <2>4, <2>5
      <3>2. CASE r # q
        BY <3>2, <2>1, <2>2, <2>6
      <3> QED
        BY <3>1, <3>2
    <2> QED
      BY <2>7
  <1>7. ASSUME NEW q \in Queues, bdec(q)
        PROVE  RunInv'
    BY <1>7 DEF bdec, Sleepers
  <1>8. ASSUME NEW c \in Clients, ClientMoves(c)
        PROVE  RunInv'
    BY <1>8 DEF ClientMoves, Goto
  <1>9. ASSUME NEW c \in Clients, ClientAdvances(c)
        PROVE  RunInv'
    BY <1>9 DEF ClientAdvances, NextStage
  <1>10. CASE MainReturns
    BY <1>10 DEF MainReturns, Goto
  <1>11. CASE workqueue_exit
    BY <1>11 DEF workqueue_exit
  <1>12. CASE Join
    BY <1>12 DEF Join
  <1>13. CASE UNCHANGED vars
    BY <1>13 DEF vars
  <1> QED
    BY <1>1, <1>2, <1>3, <1>4, <1>5, <1>6, <1>7, <1>8,
       <1>9, <1>10, <1>11, <1>12, <1>13, Cases

LEMMA CountOfItems ==
  ASSUME IInv, [Next]_vars
  PROVE  ItemCount'
  <1>0. Types /\ CallInv /\ QueueInv /\ ItemCount
    BY DEF IInv
  <1> USE <1>0, ThreadFacts DEF Types, ItemCount
  <1>1. ASSUME NEW t \in Threads, NEW i \in Items, workqueue(t, i)
        PROVE  ItemCount'
    BY <1>1 DEF workqueue, Submits
  <1>2. ASSUME NEW t \in Threads, LoadRover(t) \/ StoreRover(t)
        PROVE  ItemCount'
    BY <1>2 DEF LoadRover, StoreRover
  <1>3. ASSUME NEW t \in Threads, Insert(t)
        PROVE  ItemCount'
    BY <1>3, Selected DEF Insert, Caller, CallInv, InCall
  <1>4. ASSUME NEW q \in Queues, Take(q)
        PROVE  ItemCount'
    BY <1>4, FirstItem DEF Take, TakeFirst
  <1>5. ASSUME NEW q \in Queues, WorkerMoves(q)
        PROVE  ItemCount'
    BY <1>5 DEF WorkerMoves, Goto
  <1>6. ASSUME NEW q \in Queues, CallbackReturns(q)
        PROVE  ItemCount'
    BY <1>6 DEF CallbackReturns
  <1>7. ASSUME NEW q \in Queues, bdec(q)
        PROVE  ItemCount'
    BY <1>7 DEF bdec, Sleepers
  <1>8. ASSUME NEW c \in Clients, ClientMoves(c)
        PROVE  ItemCount'
    BY <1>8 DEF ClientMoves, Goto
  <1>9. ASSUME NEW c \in Clients, ClientAdvances(c)
        PROVE  ItemCount'
    BY <1>9 DEF ClientAdvances, NextStage
  <1>10. CASE MainReturns
    BY <1>10 DEF MainReturns, Goto
  <1>11. CASE workqueue_exit
    BY <1>11 DEF workqueue_exit
  <1>12. CASE Join
    BY <1>12 DEF Join
  <1>13. CASE UNCHANGED vars
    BY <1>13 DEF vars
  <1> QED
    BY <1>1, <1>2, <1>3, <1>4, <1>5, <1>6, <1>7, <1>8,
       <1>9, <1>10, <1>11, <1>12, <1>13, Cases

LEMMA ExitStep ==
  ASSUME IInv, [Next]_vars
  PROVE  ExitInv'
  <1>0. Types /\ ExitInv
    BY DEF IInv
  <1> USE <1>0, ThreadFacts DEF Types, ExitInv
  <1>1. ASSUME NEW t \in Threads, NEW i \in Items, workqueue(t, i)
        PROVE  ExitInv'
    BY <1>1 DEF workqueue, Submits, Caller
  <1>2. ASSUME NEW t \in Threads, LoadRover(t) \/ StoreRover(t)
        PROVE  ExitInv'
    BY <1>2 DEF LoadRover, StoreRover
  <1>3. ASSUME NEW t \in Threads, Insert(t)
        PROVE  ExitInv'
    BY <1>3 DEF Insert, Caller
  <1>4. ASSUME NEW q \in Queues, Take(q)
        PROVE  ExitInv'
    BY <1>4 DEF Take, TakeFirst
  <1>5. ASSUME NEW q \in Queues, WorkerMoves(q)
        PROVE  ExitInv'
    BY <1>5 DEF WorkerMoves, Goto
  <1>6. ASSUME NEW q \in Queues, CallbackReturns(q)
        PROVE  ExitInv'
    BY <1>6 DEF CallbackReturns
  <1>7. ASSUME NEW q \in Queues, bdec(q)
        PROVE  ExitInv'
    BY <1>7 DEF bdec, Sleepers
  <1>8. ASSUME NEW c \in Clients, ClientMoves(c)
        PROVE  ExitInv'
    BY <1>8 DEF ClientMoves, Goto, Waiting
  <1>9. ASSUME NEW c \in Clients, ClientAdvances(c)
        PROVE  ExitInv'
    BY <1>9 DEF ClientAdvances, NextStage, Waiting
  <1>10. CASE MainReturns
    BY <1>10, NProc DEF MainReturns, Goto
  <1>11. CASE workqueue_exit
    BY <1>11 DEF workqueue_exit
  <1>12. CASE Join
    BY <1>12, NProc DEF Join
  <1>13. CASE UNCHANGED vars
    BY <1>13 DEF vars
  <1> QED
    BY <1>1, <1>2, <1>3, <1>4, <1>5, <1>6, <1>7, <1>8,
       <1>9, <1>10, <1>11, <1>12, <1>13, Cases

LEMMA SubmitStep ==
  ASSUME IInv, [Next]_vars
  PROVE  SubmitInv'
  <1>0. Types /\ CallInv /\ QueueInv /\ RunInv /\ SubmitInv
    BY DEF IInv
  <1> USE <1>0, ThreadFacts DEF Types, SubmitInv
  <1>1. ASSUME NEW t \in Threads, NEW i \in Items, workqueue(t, i)
        PROVE  SubmitInv'
    BY <1>1 DEF workqueue, Submits
  <1>2. ASSUME NEW t \in Threads, LoadRover(t) \/ StoreRover(t)
        PROVE  SubmitInv'
    BY <1>2 DEF LoadRover, StoreRover
  <1>3. ASSUME NEW t \in Threads, Insert(t)
        PROVE  SubmitInv'
    BY <1>3, Selected DEF Insert, Caller, CallInv, InCall
  <1>4. ASSUME NEW q \in Queues, Take(q)
        PROVE  SubmitInv'
    BY <1>4, FirstItem DEF Take, TakeFirst
  <1>5. ASSUME NEW q \in Queues, WorkerMoves(q)
        PROVE  SubmitInv'
    BY <1>5 DEF WorkerMoves, Goto
  <1>6. ASSUME NEW q \in Queues, CallbackReturns(q)
        PROVE  SubmitInv'
    BY SMTT(30), <1>6 DEF CallbackReturns
  <1>7. ASSUME NEW q \in Queues, bdec(q)
        PROVE  SubmitInv'
    BY <1>7 DEF bdec, Sleepers, RunInv
  <1>8. ASSUME NEW c \in Clients, ClientMoves(c)
        PROVE  SubmitInv'
    BY <1>8 DEF ClientMoves, Goto
  <1>9. ASSUME NEW c \in Clients, ClientAdvances(c)
        PROVE  SubmitInv'
    BY <1>9 DEF ClientAdvances, NextStage
  <1>10. CASE MainReturns
    BY <1>10 DEF MainReturns, Goto
  <1>11. CASE workqueue_exit
    BY <1>11 DEF workqueue_exit
  <1>12. CASE Join
    BY <1>12 DEF Join
  <1>13. CASE UNCHANGED vars
    BY <1>13 DEF vars
  <1> QED
    BY <1>1, <1>2, <1>3, <1>4, <1>5, <1>6, <1>7, <1>8,
       <1>9, <1>10, <1>11, <1>12, <1>13, Cases

LEMMA StageStep ==
  ASSUME IInv, [Next]_vars
  PROVE  StageInv'
  <1>0. Types /\ CallInv /\ QueueInv /\ RunInv /\ StageInv
    BY DEF IInv
  <1> USE <1>0, ThreadFacts DEF Types, StageInv
  <1>1. ASSUME NEW t \in Threads, NEW i \in Items, workqueue(t, i)
        PROVE  StageInv'
    BY <1>1 DEF workqueue, Submits
  <1>2. ASSUME NEW t \in Threads, LoadRover(t) \/ StoreRover(t)
        PROVE  StageInv'
    BY <1>2 DEF LoadRover, StoreRover
  <1>3. ASSUME NEW t \in Threads, Insert(t)
        PROVE  StageInv'
    BY <1>3, Selected DEF Insert, Caller, CallInv, InCall
  <1>4. ASSUME NEW q \in Queues, Take(q)
        PROVE  StageInv'
    BY <1>4, FirstItem DEF Take, TakeFirst
  <1>5. ASSUME NEW q \in Queues, WorkerMoves(q)
        PROVE  StageInv'
    BY <1>5 DEF WorkerMoves, Goto
  <1>6. ASSUME NEW q \in Queues, CallbackReturns(q)
        PROVE  StageInv'
    BY <1>6 DEF CallbackReturns
  <1>7. ASSUME NEW q \in Queues, bdec(q)
        PROVE  StageInv'
    BY <1>7 DEF bdec, Sleepers, RunInv
  <1>8. ASSUME NEW c \in Clients, ClientMoves(c)
        PROVE  StageInv'
    BY <1>8 DEF ClientMoves, Goto, Waiting
  <1>9. ASSUME NEW c \in Clients, ClientAdvances(c)
        PROVE  StageInv'
    <2>1. /\ stage' = [stage EXCEPT ![c] = stage[c] + 1] /\ st' = st
          /\ pc'[c] \in {"done", "main"} /\ \A d \in Clients : d # c => pc'[d] = pc[d]
          /\ stage[c] <= Len(WaitFor[c])
      BY <1>9 DEF ClientAdvances, NextStage
    <2>2. \A i \in Items : Parent[i] = c /\ Stage[i] = stage[c] => st[i] # "new"
      BY <1>9 DEF ClientAdvances, Waiting
    <2>3. stage[c] \in Nat /\ Len(WaitFor[c]) \in Nat /\ \A i \in Items : Stage[i] \in Nat
      BY ProgramAssumption
    <2>4. ASSUME NEW d \in Clients, d # c
          PROVE  stage'[d] = stage[d] /\ pc'[d] = pc[d]
      BY <2>1, <2>4
    <2>5. stage'[c] = stage[c] + 1
      BY <2>1
    <2> QED
      BY SMTT(30), <2>1, <2>2, <2>3, <2>4, <2>5
  <1>10. CASE MainReturns
    BY <1>10 DEF MainReturns, Goto
  <1>11. CASE workqueue_exit
    BY <1>11 DEF workqueue_exit
  <1>12. CASE Join
    BY <1>12 DEF Join
  <1>13. CASE UNCHANGED vars
    BY <1>13 DEF vars
  <1> QED
    BY <1>1, <1>2, <1>3, <1>4, <1>5, <1>6, <1>7, <1>8,
       <1>9, <1>10, <1>11, <1>12, <1>13, Cases

LEMMA KeyStep ==
  ASSUME IInv, [Next]_vars
  PROVE  KeyInv'
  <1>0. Types /\ CallInv /\ QueueInv /\ RunInv /\ KeyInv
    BY DEF IInv
  <1> USE <1>0, ThreadFacts DEF Types, KeyInv
  <1>1. ASSUME NEW t \in Threads, NEW i \in Items, workqueue(t, i)
        PROVE  KeyInv'
    BY <1>1 DEF workqueue, Submits
  <1>2. ASSUME NEW t \in Threads, LoadRover(t) \/ StoreRover(t)
        PROVE  KeyInv'
    BY <1>2 DEF LoadRover, StoreRover
  <1>3. ASSUME NEW t \in Threads, Insert(t)
        PROVE  KeyInv'
    BY <1>3, Selected DEF Insert, Caller, CallInv, InCall, selqueue
  <1>4. ASSUME NEW q \in Queues, Take(q)
        PROVE  KeyInv'
    BY SMTT(30), <1>4, FirstItem DEF Take, TakeFirst
  <1>5. ASSUME NEW q \in Queues, WorkerMoves(q)
        PROVE  KeyInv'
    BY <1>5 DEF WorkerMoves, Goto
  <1>6. ASSUME NEW q \in Queues, CallbackReturns(q)
        PROVE  KeyInv'
    BY <1>6 DEF CallbackReturns, RunInv, InCallback
  <1>7. ASSUME NEW q \in Queues, bdec(q)
        PROVE  KeyInv'
    BY <1>7 DEF bdec, Sleepers, RunInv
  <1>8. ASSUME NEW c \in Clients, ClientMoves(c)
        PROVE  KeyInv'
    BY <1>8 DEF ClientMoves, Goto
  <1>9. ASSUME NEW c \in Clients, ClientAdvances(c)
        PROVE  KeyInv'
    BY <1>9 DEF ClientAdvances, NextStage
  <1>10. CASE MainReturns
    BY <1>10 DEF MainReturns, Goto
  <1>11. CASE workqueue_exit
    BY <1>11 DEF workqueue_exit
  <1>12. CASE Join
    BY <1>12 DEF Join
  <1>13. CASE UNCHANGED vars
    BY <1>13 DEF vars
  <1> QED
    BY <1>1, <1>2, <1>3, <1>4, <1>5, <1>6, <1>7, <1>8,
       <1>9, <1>10, <1>11, <1>12, <1>13, Cases

LEMMA WorkerStep ==
  ASSUME IInv, [Next]_vars
  PROVE  WorkerNotForgotten'
  <1>0. Types /\ CallInv /\ WorkerNotForgotten
    BY DEF IInv
  <1> USE <1>0, ThreadFacts DEF Types, WorkerNotForgotten
  <1>1. ASSUME NEW t \in Threads, NEW i \in Items, workqueue(t, i)
        PROVE  WorkerNotForgotten'
    BY <1>1 DEF workqueue, Submits, Caller
  <1>2. ASSUME NEW t \in Threads, LoadRover(t) \/ StoreRover(t)
        PROVE  WorkerNotForgotten'
    BY <1>2 DEF LoadRover, StoreRover
  <1>3. ASSUME NEW t \in Threads, Insert(t)
        PROVE  WorkerNotForgotten'
    BY <1>3, Selected DEF Insert, Caller, CallInv, InCall
  <1>4. ASSUME NEW q \in Queues, Take(q)
        PROVE  WorkerNotForgotten'
    BY <1>4 DEF Take, TakeFirst
  <1>5. ASSUME NEW q \in Queues, WorkerMoves(q)
        PROVE  WorkerNotForgotten'
    BY <1>5 DEF WorkerMoves, Goto
  <1>6. ASSUME NEW q \in Queues, CallbackReturns(q)
        PROVE  WorkerNotForgotten'
    BY <1>6 DEF CallbackReturns
  <1>7. ASSUME NEW q \in Queues, bdec(q)
        PROVE  WorkerNotForgotten'
    BY <1>7 DEF bdec, Sleepers
  <1>8. ASSUME NEW c \in Clients, ClientMoves(c)
        PROVE  WorkerNotForgotten'
    BY <1>8 DEF ClientMoves, Goto
  <1>9. ASSUME NEW c \in Clients, ClientAdvances(c)
        PROVE  WorkerNotForgotten'
    BY <1>9 DEF ClientAdvances, NextStage
  <1>10. CASE MainReturns
    BY <1>10 DEF MainReturns, Goto
  <1>11. CASE workqueue_exit
    BY <1>11 DEF workqueue_exit
  <1>12. CASE Join
    BY <1>12 DEF Join
  <1>13. CASE UNCHANGED vars
    BY <1>13 DEF vars
  <1> QED
    BY <1>1, <1>2, <1>3, <1>4, <1>5, <1>6, <1>7, <1>8,
       <1>9, <1>10, <1>11, <1>12, <1>13, Cases

LEMMA OutstandingFinite ==
  ASSUME NEW b \in Barriers
  PROVE  IsFiniteSet(Outstanding(b)) /\ Cardinality(Outstanding(b)) \in Nat
  BY FS_Subset, FS_CardinalityType, ProgramAssumption DEF Outstanding

LEMMA CountStep ==
  ASSUME IInv, [Next]_vars
  PROVE  BarrierCount'
  <1>0. Types /\ CallInv /\ QueueInv /\ RunInv /\ BarrierCount
    BY DEF IInv
  <1> USE <1>0, ThreadFacts DEF Types, BarrierCount
  <1>1. ASSUME NEW t \in Threads, NEW i \in Items, workqueue(t, i)
        PROVE  BarrierCount'
    <2>1. \A j \in Items : j # i => st'[j] = st[j]
      BY <1>1 DEF workqueue
    <2>2. st[i] = "new" /\ st'[i] = "counted"
      BY <1>1 DEF workqueue, Submits
    <2>3. ASSUME NEW b \in Barriers
          PROVE  b_count'[b] = Cardinality(Outstanding(b)')
      <3>1. CASE Bar[i] = b
        <4>1. Outstanding(b)' = Outstanding(b) \cup {i} /\ i \notin Outstanding(b)
          BY <3>1, <2>1, <2>2 DEF Outstanding
        <4>2. Cardinality(Outstanding(b)') = Cardinality(Outstanding(b)) + 1
          <5>1. IsFiniteSet(Outstanding(b)) /\ i \notin Outstanding(b)
            BY <4>1, OutstandingFinite
          <5>2. Cardinality(Outstanding(b) \cup {i}) = Cardinality(Outstanding(b)) + 1
            BY <5>1, FS_AddElement
          <5> QED
            BY <4>1, <5>2
        <4>3. b_count'[b] = b_count[b] + 1
          BY <1>1, <3>1 DEF workqueue
        <4> QED
          BY <4>2, <4>3
      <3>2. CASE Bar[i] # b
        <4>1. Outstanding(b)' = Outstanding(b)
          BY <3>2, <2>1, <2>2 DEF Outstanding
        <4>2. b_count'[b] = b_count[b]
          BY <1>1, <3>2 DEF workqueue
        <4> QED
          BY <4>1, <4>2
      <3> QED
        BY <3>1, <3>2
    <2> QED
      BY <2>3
  <1>2. ASSUME NEW t \in Threads, LoadRover(t) \/ StoreRover(t)
        PROVE  BarrierCount'
    <2>1. st' = st /\ b_count' = b_count
      BY <1>2 DEF LoadRover, StoreRover
    <2> QED
      BY <2>1 DEF Outstanding
  <1>3. ASSUME NEW t \in Threads, Insert(t)
        PROVE  BarrierCount'
    <2>1. \A b \in Barriers : Outstanding(b)' = Outstanding(b)
      BY <1>3, Selected DEF Insert, Caller, Outstanding, CallInv, InCall
    <2> QED
      BY <1>3, <2>1 DEF Insert
  <1>4. ASSUME NEW q \in Queues, Take(q)
        PROVE  BarrierCount'
    <2>1. \A b \in Barriers : Outstanding(b)' = Outstanding(b)
      BY <1>4, FirstItem DEF Take, TakeFirst, Outstanding
    <2> QED
      BY <1>4, <2>1 DEF Take, TakeFirst
  <1>5. ASSUME NEW q \in Queues, WorkerMoves(q)
        PROVE  BarrierCount'
    BY <1>5 DEF WorkerMoves, Goto, Outstanding
  <1>6. ASSUME NEW q \in Queues, CallbackReturns(q)
        PROVE  BarrierCount'
    <2>1. \A b \in Barriers : Outstanding(b)' = Outstanding(b)
      BY <1>6 DEF CallbackReturns, Outstanding, RunInv, InCallback
    <2> QED
      BY <1>6, <2>1 DEF CallbackReturns
  <1>7. ASSUME NEW q \in Queues, bdec(q)
        PROVE  BarrierCount'
    <2> DEFINE i == cur[q]
    <2>1. i \in Items /\ st[i] = "ran" /\ Bar[i] \in Barriers
      BY <1>7 DEF bdec, RunInv
    <2>2. st' = [st EXCEPT ![i] = "freed"]
      BY <1>7 DEF bdec
    <2>3. b_count' = [b_count EXCEPT ![Bar[i]] = b_count[Bar[i]] - 1]
      BY <1>7 DEF bdec
    <2> HIDE DEF i
    <2>4. ASSUME NEW b \in Barriers
          PROVE  b_count'[b] = Cardinality(Outstanding(b)')
      <3>1. CASE Bar[i] = b
        <4>1. Outstanding(b)' = Outstanding(b) \ {i} /\ i \in Outstanding(b)
          BY <3>1, <2>1, <2>2 DEF Outstanding
        <4>2. Cardinality(Outstanding(b)') = Cardinality(Outstanding(b)) - 1
          BY <4>1, OutstandingFinite, FS_RemoveElement
        <4> QED
          BY <4>2, <3>1, <2>3
      <3>2. CASE Bar[i] # b
        <4>1. Outstanding(b)' = Outstanding(b)
          BY <3>2, <2>1, <2>2 DEF Outstanding
        <4> QED
          BY <4>1, <3>2, <2>3
      <3> QED
        BY <3>1, <3>2
    <2> QED
      BY <2>4
  <1>8. ASSUME NEW c \in Clients, ClientMoves(c)
        PROVE  BarrierCount'
    <2>1. UNCHANGED <<b_count, st>>
      BY <1>8 DEF ClientMoves, Goto
    <2> QED
      BY <2>1 DEF Outstanding
  <1>9. ASSUME NEW c \in Clients, ClientAdvances(c)
        PROVE  BarrierCount'
    BY <1>9 DEF ClientAdvances, NextStage, Outstanding
  <1>10. CASE MainReturns
    BY <1>10 DEF MainReturns, Goto, Outstanding
  <1>11. CASE workqueue_exit
    BY <1>11 DEF workqueue_exit, Outstanding
  <1>12. CASE Join
    BY <1>12 DEF Join, Outstanding
  <1>13. CASE UNCHANGED vars
    BY <1>13 DEF vars, Outstanding
  <1> QED
    BY <1>1, <1>2, <1>3, <1>4, <1>5, <1>6, <1>7, <1>8,
       <1>9, <1>10, <1>11, <1>12, <1>13, Cases

\* A step never takes an item back that was freed.
FreedStays == \A i \in Items : st[i] = "freed" => st'[i] = "freed"

LEMMA FreedStep ==
  ASSUME IInv, [Next]_vars
  PROVE  FreedStays
  <1>0. Types /\ CallInv /\ QueueInv /\ RunInv
    BY DEF IInv
  <1> USE <1>0, ThreadFacts DEF Types, FreedStays
  <1>1. ASSUME NEW t \in Threads, NEW i \in Items, workqueue(t, i)
        PROVE  FreedStays
    BY <1>1 DEF workqueue, Submits
  <1>2. ASSUME NEW t \in Threads, LoadRover(t) \/ StoreRover(t)
        PROVE  FreedStays
    BY <1>2 DEF LoadRover, StoreRover
  <1>3. ASSUME NEW t \in Threads, Insert(t)
        PROVE  FreedStays
    BY <1>3 DEF Insert, Caller, CallInv, InCall
  <1>4. ASSUME NEW q \in Queues, Take(q)
        PROVE  FreedStays
    BY <1>4, FirstItem DEF Take, TakeFirst
  <1>5. ASSUME NEW q \in Queues, WorkerMoves(q)
        PROVE  FreedStays
    BY <1>5 DEF WorkerMoves, Goto
  <1>6. ASSUME NEW q \in Queues, CallbackReturns(q)
        PROVE  FreedStays
    BY <1>6 DEF CallbackReturns, RunInv, InCallback
  <1>7. ASSUME NEW q \in Queues, bdec(q)
        PROVE  FreedStays
    BY <1>7 DEF bdec, Sleepers, RunInv
  <1>8. ASSUME NEW c \in Clients, ClientMoves(c)
        PROVE  FreedStays
    BY <1>8 DEF ClientMoves, Goto
  <1>9. ASSUME NEW c \in Clients, ClientAdvances(c)
        PROVE  FreedStays
    BY <1>9 DEF ClientAdvances, NextStage
  <1>10. CASE MainReturns
    BY <1>10 DEF MainReturns, Goto
  <1>11. CASE workqueue_exit
    BY <1>11 DEF workqueue_exit
  <1>12. CASE Join
    BY <1>12 DEF Join
  <1>13. CASE UNCHANGED vars
    BY <1>13 DEF vars
  <1> QED
    BY <1>1, <1>2, <1>3, <1>4, <1>5, <1>6, <1>7, <1>8,
       <1>9, <1>10, <1>11, <1>12, <1>13, Cases

\* Only the end of a stage moves a client to the next one.
LEMMA StageMoves ==
  ASSUME IInv, [Next]_vars
  PROVE  stage' = stage \/ \E c \in Clients : ClientAdvances(c)
  BY Cases DEF workqueue, LoadRover, StoreRover, Insert, Take, TakeFirst, WorkerMoves,
     CallbackReturns, bdec, ClientMoves, MainReturns, workqueue_exit, Join, Goto, vars

\* With the count at zero nothing is owed that has not been freed: the freed
\* items of the barrier contain what the caller submitted and are closed under
\* the calls their callbacks made.
LEMMA ZeroCovers ==
  ASSUME Types, SubmitInv, StageInv, BarrierCount,
         NEW c \in Clients, NEW b \in Barriers, b_count[b] <= 0,
         \A i \in Items : Parent[i] = c /\ Stage[i] = stage[c] => st[i] # "new"
  PROVE  \A i \in Owed(c, stage[c], b) : st[i] = "freed"
  <1> DEFINE T == {i \in Items : Bar[i] = b /\ st[i] = "freed"}
  <1>1. Outstanding(b) = {}
    <2>1. Cardinality(Outstanding(b)) = 0
      BY OutstandingFinite DEF BarrierCount
    <2> QED
      BY <2>1, OutstandingFinite, FS_EmptySet
  <1>2. \A i \in Items : Bar[i] = b /\ st[i] # "new" => i \in T
    BY <1>1 DEF Outstanding, Types, ItemStates
  <1>3. \A i \in Items : Parent[i] = c /\ Stage[i] <= stage[c] => st[i] # "new"
    BY ProgramAssumption DEF StageInv, Types
  <1>4. \A i \in Items : Parent[i] \in T /\ Bar[i] = b => i \in T
    BY <1>2 DEF SubmitInv
  <1>5. T \in SUBSET Items
    OBVIOUS
  <1>6. {i \in Items : Parent[i] = c /\ Stage[i] <= stage[c] /\ Bar[i] = b} \subseteq T
    BY <1>2, <1>3
  <1>7. \A i \in Owed(c, stage[c], b) : i \in T
    BY <1>4, <1>5, <1>6 DEF Owed
  <1> QED
    BY <1>7

LEMMA CoversStep ==
  ASSUME IInv, [Next]_vars
  PROVE  BwaitCovers'
  <1>0. Types /\ SubmitInv /\ StageInv /\ BarrierCount /\ BwaitCovers
    BY DEF IInv
  <1>1. FreedStays
    BY FreedStep
  <1>2. CASE stage' = stage
    <2>1. \A c \in Clients, k \in Nat, b \in Barriers : Owed(c, k, b) \subseteq Items
      BY DEF Owed
    <2> QED
      BY <1>0, <1>1, <1>2, <2>1 DEF BwaitCovers, FreedStays, Types
  <1>3. ASSUME NEW c \in Clients, ClientAdvances(c)
        PROVE  BwaitCovers'
    <2>1. /\ stage' = [stage EXCEPT ![c] = stage[c] + 1] /\ st' = st
          /\ WaitFor[c][stage[c]] \in Barriers => b_count[WaitFor[c][stage[c]]] <= 0
      BY <1>3 DEF ClientAdvances, NextStage
    <2>2. \A i \in Items : Parent[i] = c /\ Stage[i] = stage[c] => st[i] # "new"
      BY <1>0, <1>3 DEF ClientAdvances, Waiting, StageInv
    <2>3. WaitFor[c][stage[c]] \in Barriers =>
            \A i \in Owed(c, stage[c], WaitFor[c][stage[c]]) : st[i] = "freed"
      BY <1>0, <2>1, <2>2, ZeroCovers
    <2>4. ASSUME NEW d \in Clients, NEW k \in 1 .. stage'[d] - 1, WaitFor[d][k] \in Barriers
          PROVE  \A i \in Owed(d, k, WaitFor[d][k]) : st[i] = "freed"
      <3>1. stage[c] \in Nat \ {0} /\ stage[d] \in Nat \ {0}
        BY <1>0 DEF Types
      <3>2. CASE d = c /\ k = stage[c]
        BY <3>2, <2>3, <2>4
      <3>3. CASE ~(d = c /\ k = stage[c])
        <4>1. k \in 1 .. stage[d] - 1
          BY <3>1, <3>3, <2>1, <1>0 DEF Types
        <4> QED
          BY <4>1, <1>0, <2>4 DEF BwaitCovers
      <3> QED
        BY <3>2, <3>3
    <2> QED
      BY <2>1, <2>4 DEF BwaitCovers, Owed
  <1> QED
    BY <1>2, <1>3, StageMoves

--------------------------------------------------------------------------------
LEMMA Initially == Init => IInv
  <1> SUFFICES ASSUME Init
               PROVE  IInv
    OBVIOUS
  <1> USE ThreadFacts DEF Init
  <1>1. Types
    <2>1. exiting \in 0 .. nproc
      BY NProc
    <2>2. pc \in [Threads -> ThreadStates]
      BY DEF ThreadStates
    <2>3. wq_entries \in [Queues -> Seq(Items)]
      OBVIOUS
    <2>4. st \in [Items -> ItemStates]
      BY DEF ItemStates
    <2>5. wq_items \in [Queues -> Int] /\ b_count \in [Barriers -> Int]
      OBVIOUS
    <2>6. reg \in [Threads -> Nat] /\ stage \in [Clients -> Nat \ {0}]
      OBVIOUS
    <2>7. /\ sub \in [Threads -> Items \cup {None}]
          /\ cur \in [Queues -> Items \cup {None}]
          /\ where \in [Items -> Threads \cup {None}]
      OBVIOUS
    <2>8. /\ started \in BOOLEAN /\ rover \in Nat
          /\ wq_should_exit \in [Queues -> BOOLEAN]
      OBVIOUS
    <2> HIDE DEF Init
    <2> QED
      BY <2>1, <2>2, <2>3, <2>4, <2>5, <2>6, <2>7, <2>8 DEF Types
  <1>2. CallInv /\ QueueInv /\ RunInv /\ SubmitInv /\ ItemCount /\ KeyInv /\ WorkerNotForgotten
    BY ProgramAssumption DEF CallInv, QueueInv, RunInv, SubmitInv, ItemCount, KeyInv,
       WorkerNotForgotten, InCallback, InCall, Threads
  <1>3. StageInv
    BY ProgramAssumption DEF StageInv, Threads
  <1>4. ExitInv
    BY NProc DEF ExitInv, Threads
  <1>5. BarrierCount
    <2>1. \A b \in Barriers : Outstanding(b) = {}
      BY DEF Outstanding
    <2> QED
      BY <2>1, FS_EmptySet DEF BarrierCount
  <1>6. BwaitCovers
    BY DEF BwaitCovers
  <1> QED
    BY <1>1, <1>2, <1>3, <1>4, <1>5, <1>6 DEF IInv

\* Every reachable state satisfies the inductive invariant.
THEOREM Invariance == Spec => []IInv
  <1>1. IInv /\ [Next]_vars => IInv'
    BY TypesStep, CallStep, QueueStep, RunStep, CountOfItems, ExitStep, SubmitStep,
       StageStep, KeyStep, WorkerStep, CountStep, CoversStep DEF IInv
  <1> QED
    BY Initially, <1>1, PTL DEF Spec

\* Type correctness; in particular no barrier and no queue ever counts below
\* zero, and workqueue_exit indexes only existing queues.
THEOREM TypeCorrect == Spec => []TypeOK
  <1>1. IInv => TypeOK
    <2> SUFFICES ASSUME IInv
                 PROVE  TypeOK
      OBVIOUS
    <2>1. \A b \in Barriers : b_count[b] \in Nat
      BY OutstandingFinite DEF IInv, BarrierCount
    <2>2. \A q \in Queues : wq_items[q] \in Nat
      BY DEF IInv, ItemCount, Types
    <2>3. b_count \in [Barriers -> Nat] /\ wq_items \in [Queues -> Nat]
      BY <2>1, <2>2 DEF IInv, Types
    <2> QED
      BY <2>3 DEF IInv, Types, TypeOK
  <1> QED
    BY Invariance, <1>1, PTL

\* The count of a barrier is the number of items submitted with it that have not
\* been through bdec, whatever order the threads run in.
THEOREM BarrierCountCorrect == Spec => []BarrierCount
  <1>1. IInv => BarrierCount
    BY DEF IInv
  <1> QED
    BY Invariance, <1>1, PTL

\* When bwait(b) returns, all that the caller submitted with b, and all that the
\* callbacks submitted with b in turn, has been executed and freed.
THEOREM BwaitCorrect == Spec => []BwaitCovers
  <1>1. IInv => BwaitCovers
    BY DEF IInv
  <1> QED
    BY Invariance, <1>1, PTL

\* A worker never sleeps through a signal.
THEOREM NoWorkerForgotten == Spec => []WorkerNotForgotten
  <1>1. IInv => WorkerNotForgotten
    BY DEF IInv
  <1> QED
    BY Invariance, <1>1, PTL

\* Items with the same non-zero key in their workqueue_item share a worker.
THEOREM KeysCorrect == Spec => []KeyedItemsShareWorker
  <1>1. IInv => KeyedItemsShareWorker
    BY DEF IInv, KeyInv, KeyedItemsShareWorker
  <1> QED
    BY Invariance, <1>1, PTL

--------------------------------------------------------------------------------
(* Who has an item.                                                        *)

\* Nothing happens in the pool before the first call of workqueue().
Started ==
  ~started => /\ \A i \in Items : st[i] = "new"
              /\ \A q \in Queues : pc[q] = "unborn"

\* Who has an item: the thread in the call that submits it, then its queue, then the
\* worker that runs it.
Owned(i) ==
  LET t == where[i] IN
  CASE st[i] = "counted" -> t \in Threads /\ InCall(t) /\ sub[t] = i
    [] st[i] = "queued" -> t \in Queues /\ \E n \in 1 .. Len(wq_entries[t]) : wq_entries[t][n] = i
    [] st[i] = "running" -> t \in Queues /\ InCallback(t) /\ cur[t] = i
    [] st[i] = "ran" -> t \in Queues /\ pc[t] = "bdec" /\ cur[t] = i
    [] OTHER -> TRUE

Owners == \A i \in Items : Owned(i)

LEMMA StartedStep ==
  ASSUME IInv, Started, [Next]_vars
  PROVE  Started'
  <1>0. Types /\ CallInv /\ RunInv
    BY DEF IInv
  <1> USE <1>0, ThreadFacts DEF Types, Started
  <1>1. ASSUME NEW t \in Threads, NEW i \in Items, workqueue(t, i)
        PROVE  Started'
    BY <1>1 DEF workqueue
  <1>2. ASSUME NEW t \in Threads, LoadRover(t) \/ StoreRover(t) \/ Insert(t)
        PROVE  Started'
    <2>1. started' = started /\ InCall(t)
      BY <1>2 DEF LoadRover, StoreRover, Insert, InCall
    <2> QED
      BY <2>1 DEF CallInv
  <1>3. ASSUME NEW q \in Queues,
               Take(q) \/ WorkerMoves(q) \/ CallbackReturns(q) \/ bdec(q)
        PROVE  Started'
    <2>1. started' = started /\ pc[q] # "unborn"
      BY <1>3 DEF Take, TakeFirst, WorkerMoves, Goto, CallbackReturns, bdec
    <2> QED
      BY <2>1
  <1>4. ASSUME NEW c \in Clients, ClientMoves(c) \/ ClientAdvances(c)
        PROVE  Started'
    <2>1. /\ UNCHANGED <<started, st>>
          /\ \A u \in Threads : u # c => pc'[u] = pc[u]
      BY <1>4 DEF ClientMoves, ClientAdvances, NextStage, Goto
    <2> QED
      BY <2>1
  <1>5. CASE MainReturns \/ workqueue_exit \/ Join
    <2>1. /\ UNCHANGED <<started, st>>
          /\ \A u \in Threads : u # Main /\ pc[u] # "sleep" => pc'[u] = pc[u]
      BY <1>5 DEF MainReturns, workqueue_exit, Join, Goto
    <2> QED
      BY <2>1
  <1>6. CASE UNCHANGED vars
    BY <1>6 DEF vars
  <1> QED
    BY <1>1, <1>2, <1>3, <1>4, <1>5, <1>6, Cases

\* What keeps the owner of an item.
LEMMA KeepsOwner ==
  ASSUME Types, NEW i \in Items, Owned(i), st'[i] = st[i], where'[i] = where[i],
         st[i] = "counted" => InCall(where[i])' /\ sub'[where[i]] = sub[where[i]],
         st[i] = "queued" => wq_entries'[where[i]] = wq_entries[where[i]],
         st[i] = "running" => InCallback(where[i])' /\ cur'[where[i]] = cur[where[i]],
         st[i] = "ran" => pc'[where[i]] = "bdec" /\ cur'[where[i]] = cur[where[i]]
  PROVE  Owned(i)'
  <1>1. CASE st[i] = "counted"
    BY <1>1 DEF Owned
  <1>2. CASE st[i] = "queued"
    BY <1>2 DEF Owned
  <1>3. CASE st[i] = "running"
    BY <1>3 DEF Owned
  <1>4. CASE st[i] = "ran"
    BY <1>4 DEF Owned
  <1>5. CASE st[i] \notin {"counted", "queued", "running", "ran"}
    BY <1>5 DEF Owned
  <1> QED
    BY <1>1, <1>2, <1>3, <1>4, <1>5

\* The steps of threads that hold no item.
LEMMA IdleStep ==
  ASSUME Types, Owners, UNCHANGED <<st, where, sub, cur, wq_entries>>,
         \A u \in Threads : InCall(u) => InCall(u)',
         \A q \in Queues : pc[q] \in {"cb", "bdec"} => pc'[q] = pc[q]
  PROVE  Owners'
  <1>1. \A q \in Queues : InCallback(q) => InCallback(q)'
    BY ThreadFacts DEF InCallback
  <1>2. ASSUME NEW i \in Items
        PROVE  Owned(i)'
    <2>1. Owned(i)
      BY DEF Owners
    <2>2. st[i] = "counted" => InCall(where[i])'
      BY <2>1 DEF Owned
    <2>3. st[i] = "running" => InCallback(where[i])'
      BY <1>1, <2>1 DEF Owned
    <2>4. st[i] = "ran" => pc'[where[i]] = "bdec"
      BY <2>1 DEF Owned
    <2> QED
      BY <2>1, <2>2, <2>3, <2>4, KeepsOwner
  <1> QED
    BY <1>2 DEF Owners

LEMMA OwnersStep ==
  ASSUME IInv, Started, Owners, [Next]_vars
  PROVE  Owners'
  <1>0. Types /\ CallInv /\ QueueInv /\ RunInv
    BY DEF IInv
  <1> USE <1>0, ThreadFacts DEF Types
  <1>1. ASSUME NEW t \in Threads, NEW i \in Items, workqueue(t, i)
        PROVE  Owners'
    <2>1. /\ st' = [st EXCEPT ![i] = "counted"] /\ where' = [where EXCEPT ![i] = t]
          /\ sub' = [sub EXCEPT ![t] = i] /\ cur' = cur /\ wq_entries' = wq_entries
          /\ pc'[t] \in {"load", "insert"}
          /\ pc[t] \in {"main", "cb"}
      BY <1>1 DEF workqueue, Submits, Caller
    <2>2. \A u \in Threads : u # t /\ pc[u] # "unborn" => pc'[u] = pc[u]
      BY <1>1 DEF workqueue, Started
    <2>3. Owned(i)'
      BY <2>1 DEF Owned, InCall
    <2>4. ASSUME NEW j \in Items, j # i
          PROVE  Owned(j)'
      <3>1. Owned(j) /\ st'[j] = st[j] /\ where'[j] = where[j]
        BY <2>1, <2>4 DEF Owners
      <3>2. st[j] = "counted" => InCall(where[j])' /\ sub'[where[j]] = sub[where[j]]
        BY <2>1, <2>2, <3>1 DEF Owned, InCall
      <3>3. st[j] = "running" => InCallback(where[j])'
        BY <2>1, <2>2, <3>1 DEF Owned, InCallback, InCall
      <3>4. st[j] = "ran" => pc'[where[j]] = "bdec"
        BY <2>1, <2>2, <3>1 DEF Owned
      <3> QED
        BY <2>1, <3>1, <3>2, <3>3, <3>4, KeepsOwner
    <2> QED
      BY <2>3, <2>4 DEF Owners
  <1>2. ASSUME NEW t \in Threads, LoadRover(t) \/ StoreRover(t)
        PROVE  Owners'
    <2>1. /\ UNCHANGED <<st, where, sub, cur, wq_entries>>
          /\ InCall(t)' /\ InCall(t) /\ \A u \in Threads : u # t => pc'[u] = pc[u]
      BY <1>2 DEF LoadRover, StoreRover, InCall
    <2> QED
      BY <2>1, IdleStep DEF InCall
  <1>3. ASSUME NEW t \in Threads, Insert(t)
        PROVE  Owners'
    <2>0. PICK i \in Items, p \in Queues : i = sub[t] /\ p = selqueue(t)
      BY <1>3, Selected DEF Insert, CallInv, InCall
    <2>1. st[i] = "counted" /\ where[i] = t
      BY <1>3, <2>0 DEF Insert, CallInv, InCall
    <2>2. /\ wq_entries' = [wq_entries EXCEPT ![p] = Append(@, i)]
          /\ st' = [st EXCEPT ![i] = "queued"]
          /\ where' = [where EXCEPT ![i] = p]
          /\ sub' = sub /\ cur' = cur /\ pc[t] = "insert" /\ pc'[t] = Caller(t)
          /\ \A u \in Threads : u # t /\ pc[u] # "sleep" => pc'[u] = pc[u]
      BY <1>3, <2>0 DEF Insert
    <2>3. /\ Len(wq_entries'[p]) = Len(wq_entries[p]) + 1 /\ Len(wq_entries[p]) \in Nat
          /\ wq_entries'[p][Len(wq_entries[p]) + 1] = i
          /\ \A n \in 1 .. Len(wq_entries[p]) : wq_entries'[p][n] = wq_entries[p][n]
      BY <2>1, <2>2
    <2>4. Owned(i)'
      <3>1. where'[i] = p /\ st'[i] = "queued"
        BY <2>1, <2>2
      <3>2. \E n \in 1 .. Len(wq_entries'[p]) : wq_entries'[p][n] = i
        BY <2>3
      <3> QED
        BY <2>1, <2>2, <3>1, <3>2 DEF Owned
    <2>5. ASSUME NEW j \in Items, j # i
          PROVE  Owned(j)'
      <3>1. Owned(j) /\ st'[j] = st[j] /\ where'[j] = where[j]
        BY <2>2, <2>5 DEF Owners
      <3>2. CASE st[j] = "queued"
        <4>1. where[j] \in Queues
          BY <3>1, <3>2 DEF Owned
        <4>2. PICK n \in 1 .. Len(wq_entries[where[j]]) : wq_entries[where[j]][n] = j
          BY <3>1, <3>2 DEF Owned
        <4>3. CASE where[j] = p
          <5>1. n \in 1 .. Len(wq_entries'[p]) /\ wq_entries'[p][n] = j
            BY <2>3, <4>2, <4>3
          <5> QED
            BY <5>1, <3>1, <3>2, <4>1, <4>3 DEF Owned
        <4>4. CASE where[j] # p
          BY <4>1, <4>4, <2>2, <3>1, <3>2, KeepsOwner
        <4> QED
          BY <4>3, <4>4
      <3>3. CASE st[j] # "queued"
        <4>1. st[j] = "counted" => InCall(where[j])'
          BY <2>0, <2>2, <2>5, <3>1 DEF Owned, InCall
        <4>2. st[j] = "running" => InCallback(where[j])'
          BY <2>2, <3>1 DEF Owned, InCallback, InCall, Caller
        <4>3. st[j] = "ran" => pc'[where[j]] = "bdec"
          BY <2>2, <3>1 DEF Owned
        <4> QED
          BY <2>2, <3>1, <3>3, <4>1, <4>2, <4>3, KeepsOwner
      <3> QED
        BY <3>2, <3>3
    <2> QED
      BY <2>4, <2>5 DEF Owners
  <1>4. ASSUME NEW q \in Queues, Take(q)
        PROVE  Owners'
    <2>0. PICK i \in Items : i = Head(wq_entries[q])
      BY <1>4, FirstItem DEF Take
    <2>1. /\ st[i] = "queued" /\ where[i] = q
          /\ Len(Tail(wq_entries[q])) = Len(wq_entries[q]) - 1
          /\ \A n \in 1 .. Len(wq_entries[q]) - 1 :
               Tail(wq_entries[q])[n] = wq_entries[q][n + 1]
          /\ i = wq_entries[q][1]
      BY <1>4, <2>0, FirstItem DEF Take
    <2>2. /\ wq_entries' = [wq_entries EXCEPT ![q] = Tail(@)]
          /\ st' = [st EXCEPT ![i] = "running"] /\ cur' = [cur EXCEPT ![q] = i]
          /\ pc' = [pc EXCEPT ![q] = "cb"] /\ pc[q] \in {"top", "woken", "relock"}
          /\ where' = where /\ sub' = sub
      BY <1>4, <2>0 DEF Take, TakeFirst
    <2>3. Owned(i)'
      BY <2>1, <2>2 DEF Owned, InCallback
    <2>4. ASSUME NEW j \in Items, j # i
          PROVE  Owned(j)'
      <3>1. Owned(j) /\ st'[j] = st[j] /\ where'[j] = where[j]
        BY <2>2, <2>4 DEF Owners
      <3>2. CASE st[j] = "queued" /\ where[j] = q
        <4>1. PICK n \in 1 .. Len(wq_entries[q]) : wq_entries[q][n] = j
          BY <3>1, <3>2 DEF Owned
        <4>2. n - 1 \in 1 .. Len(wq_entries'[q]) /\ wq_entries'[q][n - 1] = j
          BY <4>1, <2>1, <2>2, <2>4
        <4> QED
          BY <4>2, <3>1, <3>2 DEF Owned
      <3>3. CASE ~(st[j] = "queued" /\ where[j] = q)
        <4>1. st[j] = "queued" => wq_entries'[where[j]] = wq_entries[where[j]]
          BY <2>2, <3>1, <3>3 DEF Owned
        <4>2. st[j] = "counted" => InCall(where[j])'
          BY <2>2, <3>1 DEF Owned, InCall
        <4>3. st[j] = "running" => InCallback(where[j])' /\ cur'[where[j]] = cur[where[j]]
          BY <2>2, <3>1 DEF Owned, InCallback, InCall
        <4>4. st[j] = "ran" => pc'[where[j]] = "bdec" /\ cur'[where[j]] = cur[where[j]]
          BY <2>2, <3>1 DEF Owned
        <4> QED
          BY <2>2, <3>1, <4>1, <4>2, <4>3, <4>4, KeepsOwner
      <3> QED
        BY <3>2, <3>3
    <2> QED
      BY <2>3, <2>4 DEF Owners
  <1>5. ASSUME NEW q \in Queues, WorkerMoves(q)
        PROVE  Owners'
    <2>1. /\ \A u \in Threads : u # q => pc'[u] = pc[u]
          /\ UNCHANGED <<st, where, sub, cur, wq_entries>>
          /\ pc[q] \in {"top", "sleep", "woken", "relock"}
      BY <1>5 DEF WorkerMoves, Goto
    <2> QED
      BY <2>1, IdleStep DEF InCall
  <1>6. ASSUME NEW q \in Queues, CallbackReturns(q) \/ bdec(q)
        PROVE  Owners'
    <2>0. PICK i \in Items : i = cur[q]
      BY <1>6 DEF CallbackReturns, bdec, RunInv, InCallback
    <2>1. /\ UNCHANGED <<where, sub, cur, wq_entries>>
          /\ \A j \in Items : j # i => st'[j] = st[j]
          /\ pc[q] \in {"cb", "bdec"} /\ cur[q] = i
      BY <1>6, <2>0 DEF CallbackReturns, bdec
    <2>2. where[i] = q
      BY <2>0, <2>1 DEF RunInv, InCallback
    <2>3. \A u \in Threads : u # q /\ pc[u] # "bsleep" => pc'[u] = pc[u]
      BY <1>6, <2>0 DEF CallbackReturns, bdec, Sleepers
    <2>4. \/ st'[i] = "ran" /\ pc'[q] = "bdec"
          \/ st'[i] = "freed"
      BY <1>6, <2>0 DEF CallbackReturns, bdec
    <2>5. Owned(i)'
      BY <2>1, <2>2, <2>4 DEF Owned
    <2>6. ASSUME NEW j \in Items, j # i
          PROVE  Owned(j)'
      <3>1. Owned(j) /\ st'[j] = st[j] /\ where'[j] = where[j]
        BY <2>1, <2>6 DEF Owners
      <3>2. st[j] = "counted" => InCall(where[j])'
        BY <2>1, <2>3, <3>1 DEF Owned, InCall
      <3>3. st[j] = "running" => InCallback(where[j])'
        BY <2>1, <2>3, <2>6, <3>1 DEF Owned, InCallback, InCall
      <3>4. st[j] = "ran" => pc'[where[j]] = "bdec"
        BY <2>1, <2>3, <2>6, <3>1 DEF Owned
      <3> QED
        BY <2>1, <3>1, <3>2, <3>3, <3>4, KeepsOwner
    <2> QED
      BY <2>5, <2>6 DEF Owners
  <1>7. ASSUME NEW c \in Clients, ClientMoves(c) \/ ClientAdvances(c)
        PROVE  Owners'
    <2>1. /\ UNCHANGED <<st, where, sub, cur, wq_entries>>
          /\ \A u \in Threads : u # c => pc'[u] = pc[u]
      BY <1>7 DEF ClientMoves, ClientAdvances, NextStage, Goto
    <2>2. pc[c] \in {"main", "bwait", "bsleep"}
      BY <1>7 DEF ClientMoves, ClientAdvances, Waiting
    <2> QED
      BY <2>1, <2>2, IdleStep DEF InCall
  <1>8. CASE MainReturns \/ workqueue_exit \/ Join
    <2>1. UNCHANGED <<st, where, sub, cur, wq_entries>>
      BY <1>8 DEF MainReturns, workqueue_exit, Join, Goto
    <2>2. pc[Main] \in {"done", "exit", "join"}
      BY <1>8 DEF MainReturns, workqueue_exit, Join
    <2>3. \A u \in Threads : u # Main /\ pc[u] # "sleep" => pc'[u] = pc[u]
      BY <1>8 DEF MainReturns, workqueue_exit, Join, Goto
    <2> QED
      BY <2>1, <2>2, <2>3, IdleStep DEF InCall
  <1>9. CASE UNCHANGED vars
    <2>1. UNCHANGED <<st, where, sub, cur, wq_entries, pc>>
      BY <1>9 DEF vars
    <2> QED
      BY <2>1, IdleStep DEF InCall
  <1> QED
    BY <1>1, <1>2, <1>3, <1>4, <1>5, <1>6, <1>7, <1>8, <1>9, Cases

\* Owners holds throughout.
THEOREM Ownership == Spec => [](Started /\ Owners)
  <1>1. Init => Started /\ Owners
    BY ThreadFacts DEF Init, Started, Owners, Owned, Threads
  <1>2. IInv /\ Started /\ Owners /\ [Next]_vars => (Started /\ Owners)'
    BY StartedStep, OwnersStep
  <1> QED
    BY <1>1, <1>2, Invariance, PTL DEF Spec

--------------------------------------------------------------------------------
(* The pool implements Pool.                                               *)

Shown == [i \in Items |-> Progress(i)]

\* What a step of one item looks like in Pool.
LEMMA ItemMoves ==
  ASSUME Types, NEW i \in Items, NEW s \in ItemStates, st' = [st EXCEPT ![i] = s]
  PROVE  /\ s \in {"counted", "queued"} => Shown' = [Shown EXCEPT ![i] = "pending"]
         /\ s = "running" => Shown' = [Shown EXCEPT ![i] = "running"]
         /\ s \in {"ran", "freed"} => Shown' = [Shown EXCEPT ![i] = "done"]
  <1>1. \A j \in Items : j # i => Progress(j)' = Progress(j)
    BY DEF Types, Progress
  <1>2. /\ s \in {"counted", "queued"} => Progress(i)' = "pending"
        /\ s = "running" => Progress(i)' = "running"
        /\ s \in {"ran", "freed"} => Progress(i)' = "done"
    BY DEF Types, Progress
  <1> QED
    BY <1>1, <1>2 DEF Shown

\* Two items of one key are with one worker, which runs one at a time.
LEMMA KeyFree ==
  ASSUME IInv, Owners, NEW q \in Queues, Take(q), NEW j \in Items,
         wi_key(j) = wi_key(Head(wq_entries[q])), wi_key(j) # 0
  PROVE  Progress(j) # "running"
  <1>1. PICK i \in Items : i = Head(wq_entries[q]) /\ st[i] = "queued" /\ where[i] = q
    BY FirstItem DEF Take, IInv
  <1>2. where[i] = wi_key(i) % nproc
    BY <1>1 DEF IInv, KeyInv
  <1>3. SUFFICES ASSUME st[j] = "running" PROVE FALSE
    BY DEF Progress, IInv, Types, ItemStates
  <1>4. where[j] = q
    BY <1>1, <1>2, <1>3 DEF IInv, KeyInv
  <1>5. InCallback(q)
    BY <1>3, <1>4 DEF Owners, Owned
  <1> QED
    BY <1>5 DEF Take, InCallback, InCall

LEMMA PoolStep ==
  ASSUME IInv, Owners, [Next]_vars
  PROVE  [Abstract!PoolNext]_(Abstract!poolVars)
  <1>0. Types
    BY DEF IInv
  <1> USE <1>0, ThreadFacts
  <1>a. ASSUME UNCHANGED <<st, stage>>
        PROVE  UNCHANGED Abstract!poolVars
    BY <1>a DEF Abstract!poolVars, Progress
  <1>1. ASSUME NEW t \in Threads, NEW i \in Items, workqueue(t, i)
        PROVE  Abstract!Submit(i)
    <2>1. st[i] = "new" /\ st' = [st EXCEPT ![i] = "counted"] /\ stage' = stage
      BY <1>1 DEF workqueue, Submits
    <2>2. Shown' = [Shown EXCEPT ![i] = "pending"] /\ Progress(i) = "new"
      BY <2>1, ItemMoves DEF Progress, ItemStates
    <2> QED
      BY <2>1, <2>2 DEF Abstract!Submit, Abstract!Becomes, Shown
  <1>2. ASSUME NEW t \in Threads, LoadRover(t) \/ StoreRover(t)
        PROVE  UNCHANGED Abstract!poolVars
    BY <1>2, <1>a DEF LoadRover, StoreRover
  <1>3. ASSUME NEW t \in Threads, Insert(t)
        PROVE  UNCHANGED Abstract!poolVars
    <2>1. PICK i \in Items : /\ st[i] = "counted" /\ st' = [st EXCEPT ![i] = "queued"]
                             /\ stage' = stage
      BY <1>3 DEF Insert, IInv, CallInv, InCall
    <2>2. Shown' = [Shown EXCEPT ![i] = "pending"] /\ Progress(i) = "pending"
      BY <2>1, ItemMoves DEF Progress, ItemStates
    <2>3. Shown' = Shown
      BY <2>2 DEF Shown
    <2> QED
      BY <2>1, <2>3 DEF Abstract!poolVars, Shown
  <1>4. ASSUME NEW q \in Queues, Take(q)
        PROVE  \E i \in Items : Abstract!Start(i)
    <2>1. PICK i \in Items : i = Head(wq_entries[q]) /\ st[i] = "queued"
      BY <1>4, FirstItem DEF Take, IInv
    <2>2. st' = [st EXCEPT ![i] = "running"] /\ stage' = stage
      BY <1>4, <2>1 DEF Take, TakeFirst
    <2>3. Shown' = [Shown EXCEPT ![i] = "running"] /\ Progress(i) = "pending"
      BY <2>1, <2>2, ItemMoves DEF Progress, ItemStates
    <2>4. \A j \in Items : wi_key(i) # 0 /\ wi_key(j) = wi_key(i) => Progress(j) # "running"
      BY <1>4, <2>1, KeyFree
    <2> QED
      BY <2>2, <2>3, <2>4 DEF Abstract!Start, Abstract!Becomes, Shown
  <1>5. ASSUME NEW q \in Queues, WorkerMoves(q)
        PROVE  UNCHANGED Abstract!poolVars
    BY <1>5, <1>a DEF WorkerMoves, Goto
  <1>6. ASSUME NEW q \in Queues, CallbackReturns(q)
        PROVE  \E i \in Items : Abstract!Finish(i)
    <2>1. PICK i \in Items : i = cur[q] /\ st[i] = "running"
      BY <1>6 DEF CallbackReturns, IInv, RunInv, InCallback
    <2>2. PICK s \in {"ran", "freed"} : st' = [st EXCEPT ![i] = s]
      BY <1>6, <2>1 DEF CallbackReturns
    <2>3. Shown' = [Shown EXCEPT ![i] = "done"] /\ Progress(i) = "running"
      BY <2>1, <2>2, ItemMoves DEF Progress, ItemStates
    <2>4. stage' = stage
      BY <1>6 DEF CallbackReturns
    <2> QED
      BY <2>3, <2>4 DEF Abstract!Finish, Abstract!Becomes, Shown
  <1>7. ASSUME NEW q \in Queues, bdec(q)
        PROVE  UNCHANGED Abstract!poolVars
    <2>1. PICK i \in Items : /\ st[i] = "ran" /\ st' = [st EXCEPT ![i] = "freed"]
                             /\ stage' = stage
      BY <1>7 DEF bdec, IInv, RunInv
    <2>2. Shown' = [Shown EXCEPT ![i] = "done"] /\ Progress(i) = "done"
      BY <2>1, ItemMoves DEF Progress, ItemStates
    <2>3. Shown' = Shown
      BY <2>2 DEF Shown
    <2> QED
      BY <2>1, <2>3 DEF Abstract!poolVars, Shown
  <1>8. ASSUME NEW c \in Clients, ClientMoves(c)
        PROVE  UNCHANGED Abstract!poolVars
    BY <1>8, <1>a DEF ClientMoves, Goto
  <1>9. ASSUME NEW c \in Clients, ClientAdvances(c)
        PROVE  Abstract!Pass(c)
    <2> DEFINE target == WaitFor[c][stage[c]]
    <2>1. /\ stage[c] <= Len(WaitFor[c]) /\ st' = st
          /\ stage' = [stage EXCEPT ![c] = stage[c] + 1]
      BY <1>9 DEF ClientAdvances, NextStage
    <2>2. Shown' = Shown
      BY <2>1 DEF Shown, Progress
    <2>3. ASSUME target \in Items
          PROVE  Progress(target) = "done"
      BY <1>9, <2>3 DEF ClientAdvances, Progress
    <2>4. ASSUME target \in Barriers
          PROVE  Abstract!Outstanding(target) = {}
      <3>1. Cardinality(Outstanding(target)) = 0
        BY <1>9, <2>4, OutstandingFinite DEF ClientAdvances, IInv, BarrierCount
      <3>2. Outstanding(target) = {}
        BY <2>4, <3>1, OutstandingFinite, FS_EmptySet
      <3>3. \A i \in Items : Progress(i) \in {"pending", "running"} =>
                               st[i] \in {"counted", "queued", "running"}
        BY DEF Progress, Types, ItemStates
      <3> QED
        BY <3>2, <3>3 DEF Outstanding, Abstract!Outstanding
    <2> QED
      BY <2>1, <2>2, <2>3, <2>4 DEF Abstract!Pass, Shown
  <1>10. CASE MainReturns \/ workqueue_exit \/ Join
    <2>1. UNCHANGED <<st, stage>>
      BY <1>10 DEF MainReturns, workqueue_exit, Join, Goto
    <2> QED
      BY <2>1, <1>a
  <1>11. CASE UNCHANGED vars
    BY <1>11, <1>a DEF vars
  <1> QED
    BY <1>1, <1>2, <1>3, <1>4, <1>5, <1>6, <1>7, <1>8, <1>9, <1>10, <1>11, Cases
       DEF Abstract!PoolNext

\* The queues, the workers and the counting barrier implement the abstract pool:
\* every item runs once, items of one key one after the other, and no wait, on a
\* barrier or a future, is over before what it waits for is.
THEOREM PoolImplemented == Spec => IsPool
  <1>1. Init => Abstract!PoolInit
    BY DEF Init, Abstract!PoolInit, Progress
  <1>2. IInv /\ Owners /\ [Next]_vars => [Abstract!PoolNext]_(Abstract!poolVars)
    BY PoolStep
  <1> QED
    BY <1>1, <1>2, Invariance, Ownership, PTL DEF Spec, IsPool, Abstract!PoolSpec

--------------------------------------------------------------------------------
(* bwait with one waiter.                                                  *)

\* At most one client ever waits on a barrier: bdec signals one.
OneWaiter ==
  \A c, d \in Clients : \A k \in 1 .. Len(WaitFor[c]), l \in 1 .. Len(WaitFor[d]) :
    WaitFor[c][k] \in Barriers /\ WaitFor[d][l] = WaitFor[c][k] => c = d

LEMMA WaiterStep ==
  ASSUME OneWaiter, IInv, WaiterNotForgotten, [Next]_vars
  PROVE  WaiterNotForgotten'
  <1>0. Types /\ RunInv /\ StageInv /\ BarrierCount
    BY DEF IInv
  <1> USE <1>0, ThreadFacts DEF Types, WaiterNotForgotten
  <1>1. ASSUME NEW t \in Threads, NEW i \in Items, workqueue(t, i)
        PROVE  WaiterNotForgotten'
    <2>1. \A b \in Barriers : b_count'[b] >= b_count[b]
      BY <1>1 DEF workqueue
    <2>2. \A c \in Clients : pc'[c] = "bsleep" => pc[c] = "bsleep"
      BY <1>1 DEF workqueue
    <2>3. stage' = stage
      BY <1>1 DEF workqueue
    <2>4. ASSUME NEW c \in Clients, pc'[c] = "bsleep"
          PROVE  b_count'[WaitFor[c][stage'[c]]] > 0
      <3>1. PICK b \in Barriers : b = WaitFor[c][stage[c]] /\ b_count[b] > 0
        BY <2>2, <2>4 DEF StageInv
      <3>2. b_count'[b] >= b_count[b] /\ b_count[b] \in Int /\ b_count'[b] \in Int
        BY <1>1, <2>1, <3>1 DEF workqueue
      <3> QED
        BY <2>3, <3>1, <3>2
    <2> QED
      BY <2>4
  <1>2. ASSUME NEW t \in Threads, LoadRover(t) \/ StoreRover(t) \/ Insert(t)
        PROVE  WaiterNotForgotten'
    <2>1. UNCHANGED <<b_count, stage>>
      BY <1>2 DEF LoadRover, StoreRover, Insert
    <2>2. \A c \in Clients : pc'[c] = "bsleep" => pc[c] = "bsleep"
      BY <1>2 DEF LoadRover, StoreRover, Insert, Caller
    <2> QED
      BY <2>1, <2>2
  <1>3. ASSUME NEW q \in Queues, Take(q) \/ WorkerMoves(q) \/ CallbackReturns(q)
        PROVE  WaiterNotForgotten'
    <2>1. UNCHANGED <<b_count, stage>>
      BY <1>3 DEF Take, TakeFirst, WorkerMoves, Goto, CallbackReturns
    <2>2. \A c \in Clients : pc'[c] = pc[c]
      BY <1>3 DEF Take, TakeFirst, WorkerMoves, Goto, CallbackReturns
    <2> QED
      BY <2>1, <2>2
  <1>4. ASSUME NEW q \in Queues, bdec(q)
        PROVE  WaiterNotForgotten'
    <2>1. PICK b \in Barriers : b = Bar[cur[q]]
      BY <1>4 DEF bdec, RunInv
    <2>2. /\ b_count' = [b_count EXCEPT ![b] = b_count[b] - 1] /\ stage' = stage
          /\ \A c \in Clients : pc'[c] = "bsleep" => pc[c] = "bsleep"
      BY <1>4, <2>1 DEF bdec
    <2>3. ASSUME NEW c \in Clients, pc'[c] = "bsleep"
          PROVE  b_count'[WaitFor[c][stage'[c]]] > 0
      <3>1. pc[c] = "bsleep" /\ WaitFor[c][stage[c]] \in Barriers
        BY <2>2, <2>3 DEF StageInv
      <3>2. b_count[WaitFor[c][stage[c]]] > 0
        BY <3>1
      <3>3. CASE WaitFor[c][stage[c]] # b
        BY <3>1, <3>2, <3>3, <2>2
      <3>4. CASE WaitFor[c][stage[c]] = b
        <4>1. \A d \in Sleepers(b) : d = c
          <5>1. \A d \in Clients : pc[d] = "bsleep" =>
                  stage[d] \in 1 .. Len(WaitFor[d]) /\ WaitFor[d][stage[d]] \in Barriers
            BY ProgramAssumption DEF StageInv
          <5> QED
            BY <3>1, <3>4, <5>1 DEF Sleepers, OneWaiter
        <4>2. c \in Sleepers(b)
          BY <3>1, <3>4 DEF Sleepers
        <4>3. b_count[b] # 1
          <5>1. SUFFICES ASSUME b_count[b] = 1 PROVE FALSE
            OBVIOUS
          <5>2. PICK d \in Sleepers(b) : pc' = [pc EXCEPT ![q] = "relock", ![d] = "bwait"]
            BY <1>4, <2>1, <4>2, <5>1 DEF bdec
          <5> QED
            BY <2>3, <4>1, <5>2
        <4> QED
          BY <2>2, <3>2, <3>4, <4>3
      <3> QED
        BY <3>3, <3>4
    <2> QED
      BY <2>3
  <1>5. ASSUME NEW c \in Clients, ClientMoves(c)
        PROVE  WaiterNotForgotten'
    <2>1. /\ UNCHANGED <<b_count, stage>>
          /\ \A d \in Clients : d # c => pc'[d] = pc[d]
          /\ pc'[c] = "bsleep" => b_count[WaitFor[c][stage[c]]] > 0
      BY <1>5 DEF ClientMoves, Goto
    <2> QED
      BY <2>1
  <1>6. ASSUME NEW c \in Clients, ClientAdvances(c)
        PROVE  WaiterNotForgotten'
    <2>1. /\ b_count' = b_count /\ pc'[c] # "bsleep"
          /\ \A d \in Clients : d # c => pc'[d] = pc[d] /\ stage'[d] = stage[d]
      BY <1>6 DEF ClientAdvances, NextStage
    <2> QED
      BY <2>1
  <1>7. CASE MainReturns \/ workqueue_exit \/ Join
    <2>1. /\ UNCHANGED <<b_count, stage>>
          /\ \A d \in Clients : pc'[d] = "bsleep" => pc[d] = "bsleep"
      BY <1>7 DEF MainReturns, workqueue_exit, Join, Goto
    <2> QED
      BY <2>1
  <1>8. CASE UNCHANGED vars
    BY <1>8 DEF vars
  <1> QED
    BY <1>1, <1>2, <1>3, <1>4, <1>5, <1>6, <1>7, <1>8, Cases

\* With one waiter for each barrier, no client sleeps through the signal of the bdec
\* that reached zero.
THEOREM NoWaiterForgotten ==
  ASSUME OneWaiter
  PROVE  Spec => []WaiterNotForgotten
  <1>1. Init => WaiterNotForgotten
    BY ThreadFacts DEF Init, WaiterNotForgotten
  <1>2. IInv /\ WaiterNotForgotten /\ [Next]_vars => WaiterNotForgotten'
    BY WaiterStep
  <1> QED
    BY <1>1, <1>2, Invariance, PTL DEF Spec

--------------------------------------------------------------------------------
(* workqueue_exit.                                                         *)

\* Main is past the end of its program.
Leaving == pc[Main] \in {"exit", "join", "terminated"}

\* Who makes the call that is under way.
CallerInv ==
  \A t \in Threads :
    InCall(t) => Parent[sub[t]] = IF t \in Clients THEN t ELSE cur[t]

\* A client is done when it has been through all its stages; main() returns last.
DoneInv ==
  /\ \A c \in Clients :
       /\ pc[c] \in {"done", "exit", "join", "terminated"} => stage[c] > Len(WaitFor[c])
       /\ c # Main => pc[c] \notin {"exit", "join", "terminated"}
       /\ c # Main /\ Leaving => pc[c] = "done"
  /\ pc[Main] = "terminated" => exiting = nproc \/ ~started

\* workqueue_exit asks the workers one by one and joins each before the next.
OrderInv ==
  \A q \in Queues :
    /\ wq_should_exit[q] => Leaving /\ q <= exiting
    /\ q < exiting => pc[q] = "exited"
    /\ pc[q] = "exited" => wq_should_exit[q]

\* What is in the queue of a worker that has exited came later, from the callback of
\* an item of a later worker.
LateInv ==
  \A q \in Queues : pc[q] = "exited" =>
    \A n \in 1 .. Len(wq_entries[q]) :
      /\ Parent[wq_entries[q][n]] \in Items
      /\ st[Parent[wq_entries[q][n]]] \in {"running", "ran", "freed"}
      /\ q < where[Parent[wq_entries[q][n]]]

\* The threads that move with bdec.
LEMMA BdecMoves ==
  ASSUME Types, NEW q \in Queues, bdec(q)
  PROVE  /\ pc[q] = "bdec" /\ pc'[q] = "relock"
         /\ \A u \in Threads : \/ u = q \/ pc'[u] = pc[u]
                               \/ u \in Clients /\ pc[u] = "bsleep" /\ pc'[u] = "bwait"
  <1>1. pc[q] = "bdec" /\ q \in Threads /\ pc \in [Threads -> ThreadStates]
    BY ThreadFacts DEF bdec, Types
  <1>2. CASE pc' = [pc EXCEPT ![q] = "relock"]
    BY <1>1, <1>2
  <1>3. ASSUME NEW c \in Sleepers(Bar[cur[q]]),
               pc' = [pc EXCEPT ![q] = "relock", ![c] = "bwait"]
        PROVE  /\ pc'[q] = "relock"
               /\ \A u \in Threads : u = q \/ pc'[u] = pc[u] \/ (u = c /\ pc'[u] = "bwait")
    BY <1>1, <1>3, ThreadFacts DEF Sleepers
  <1>4. \/ pc' = [pc EXCEPT ![q] = "relock"]
        \/ \E c \in Sleepers(Bar[cur[q]]) : pc' = [pc EXCEPT ![q] = "relock", ![c] = "bwait"]
    BY Zenon DEF bdec
  <1>5. \A c \in Sleepers(Bar[cur[q]]) : c \in Clients /\ pc[c] = "bsleep"
    BY DEF Sleepers
  <1> QED
    BY <1>1, <1>2, <1>3, <1>4, <1>5

LEMMA CallerStep ==
  ASSUME IInv, CallerInv, [Next]_vars
  PROVE  CallerInv'
  <1>0. Types /\ RunInv
    BY DEF IInv
  <1> USE <1>0, ThreadFacts DEF Types, CallerInv, InCall
  <1>1. ASSUME NEW t \in Threads, NEW i \in Items, workqueue(t, i)
        PROVE  CallerInv'
    <2>1. /\ sub' = [sub EXCEPT ![t] = i] /\ cur' = cur
          /\ Parent[i] = IF t \in Clients THEN t ELSE cur[t]
      BY <1>1 DEF workqueue, Submits
    <2>2. \A u \in Threads : u # t /\ pc'[u] \in {"load", "store", "insert"} => pc'[u] = pc[u]
      BY <1>1 DEF workqueue
    <2> QED
      BY <2>1, <2>2
  <1>2. ASSUME NEW t \in Threads, LoadRover(t) \/ StoreRover(t) \/ Insert(t)
        PROVE  CallerInv'
    <2>1. UNCHANGED <<sub, cur>> /\ pc[t] \in {"load", "store", "insert"}
      BY <1>2 DEF LoadRover, StoreRover, Insert
    <2>2. \A u \in Threads : u # t /\ pc'[u] \in {"load", "store", "insert"} => pc'[u] = pc[u]
      BY <1>2 DEF LoadRover, StoreRover, Insert
    <2> QED
      BY <2>1, <2>2
  <1>3. ASSUME NEW q \in Queues, Take(q)
        PROVE  CallerInv'
    BY <1>3 DEF Take, TakeFirst
  <1>4. ASSUME NEW q \in Queues, WorkerMoves(q) \/ CallbackReturns(q) \/ bdec(q)
        PROVE  CallerInv'
    <2>1. UNCHANGED <<sub, cur>>
      BY <1>4 DEF WorkerMoves, Goto, CallbackReturns, bdec
    <2>2. \A u \in Threads : pc'[u] \in {"load", "store", "insert"} => pc'[u] = pc[u]
      BY <1>4, BdecMoves DEF WorkerMoves, Goto, CallbackReturns
    <2> QED
      BY <2>1, <2>2
  <1>5. ASSUME NEW c \in Clients, ClientMoves(c) \/ ClientAdvances(c)
        PROVE  CallerInv'
    <2>1. UNCHANGED <<sub, cur>>
      BY <1>5 DEF ClientMoves, ClientAdvances, NextStage, Goto
    <2>2. \A u \in Threads : pc'[u] \in {"load", "store", "insert"} => pc'[u] = pc[u]
      BY <1>5 DEF ClientMoves, ClientAdvances, NextStage, Goto
    <2> QED
      BY <2>1, <2>2
  <1>6. CASE MainReturns \/ workqueue_exit \/ Join
    <2>1. UNCHANGED <<sub, cur>>
      BY <1>6 DEF MainReturns, workqueue_exit, Join, Goto
    <2>2. \A u \in Threads : pc'[u] \in {"load", "store", "insert"} => pc'[u] = pc[u]
      BY <1>6 DEF MainReturns, workqueue_exit, Join, Goto
    <2> QED
      BY <2>1, <2>2
  <1>7. CASE UNCHANGED vars
    BY <1>7 DEF vars
  <1> QED
    BY <1>1, <1>2, <1>3, <1>4, <1>5, <1>6, <1>7, Cases

\* Only main() and workqueue_exit go on once main() has returned.
LEMMA DoneStep ==
  ASSUME IInv, DoneInv, Started, OrderInv, [Next]_vars
  PROVE  DoneInv'
  <1>0. Types /\ ExitInv
    BY DEF IInv
  <1> USE <1>0, ThreadFacts DEF Types, DoneInv, Leaving
  <1>1. ASSUME UNCHANGED <<stage, exiting, started>>,
               NEW u \in Threads, pc[u] \notin {"done", "exit", "join", "terminated"},
               \A c \in Clients : pc'[c] = pc[c] \/ (c = u /\ pc'[c] \notin {"done", "exit", "join", "terminated"})
        PROVE  DoneInv'
    BY <1>1
  <1>2. ASSUME NEW t \in Threads, NEW i \in Items, workqueue(t, i)
        PROVE  DoneInv'
    <2>1. /\ UNCHANGED <<stage, exiting>> /\ pc[t] \in {"main", "cb"}
          /\ \A c \in Clients : c # t => pc'[c] = pc[c]
          /\ pc'[t] \in {"load", "insert"}
      BY <1>2 DEF workqueue, Submits, Caller
    <2>2. pc[Main] = "terminated" => started' = started
      <3>1. CASE t \in Clients
        BY <2>1, <3>1
      <3>2. CASE t \in Queues
        BY <1>2, <2>1, <3>2 DEF workqueue, Started
      <3> QED
        BY <3>1, <3>2 DEF Threads
    <2>3. \A c \in Clients : pc'[c] = pc[c] \/ (c = t /\ pc[c] = "main" /\ pc'[c] \in {"load", "insert"})
      BY <2>1, <1>2 DEF workqueue, Submits, Caller
    <2>4. pc'[Main] = "terminated" => pc[Main] = "terminated" /\ started' = started
      BY <2>2, <2>3
    <2>5. Leaving' => Leaving /\ \A c \in Clients : c # Main => pc[c] = "done" /\ pc'[c] = "done"
      BY <2>3
    <2>6. \A c \in Clients : pc'[c] \in {"done", "exit", "join", "terminated"} => pc'[c] = pc[c]
      BY <2>3
    <2> QED
      BY <2>1, <2>4, <2>5, <2>6
  <1>3. ASSUME NEW t \in Threads, LoadRover(t) \/ StoreRover(t) \/ Insert(t)
        PROVE  DoneInv'
    <2>1. /\ UNCHANGED <<stage, exiting, started>> /\ pc[t] \in {"load", "store", "insert"}
      BY <1>3 DEF LoadRover, StoreRover, Insert
    <2>2. \A c \in Clients : c # t => pc'[c] = pc[c]
      BY <1>3, Selected DEF LoadRover, StoreRover, Insert, IInv
    <2>3. pc'[t] \in {"store", "insert", "main", "cb"}
      BY <1>3 DEF LoadRover, StoreRover, Insert, Caller
    <2> QED
      BY <2>1, <2>2, <2>3, <1>1
  <1>4. ASSUME NEW q \in Queues, Take(q) \/ WorkerMoves(q) \/ CallbackReturns(q)
        PROVE  DoneInv'
    <2>1. UNCHANGED <<stage, exiting, started>>
      BY <1>4 DEF Take, TakeFirst, WorkerMoves, Goto, CallbackReturns
    <2>2. \A c \in Clients : pc'[c] = pc[c]
      BY <1>4 DEF Take, TakeFirst, WorkerMoves, Goto, CallbackReturns
    <2> QED
      BY <2>1, <2>2
  <1>5. ASSUME NEW q \in Queues, bdec(q)
        PROVE  DoneInv'
    <2>1. UNCHANGED <<stage, exiting, started>>
      BY <1>5 DEF bdec
    <2>2. \A c \in Clients : pc'[c] = pc[c] \/ (pc[c] = "bsleep" /\ pc'[c] = "bwait")
      <3>1. \A u \in Threads : u = q \/ pc'[u] = pc[u] \/ (pc[u] = "bsleep" /\ pc'[u] = "bwait")
        BY ONLY <1>0, <1>5, q \in Queues, BdecMoves
      <3> QED
        BY ONLY <3>1, ThreadFacts, q \in Queues
    <2> QED
      BY <2>1, <2>2
  <1>6. ASSUME NEW c \in Clients, ClientMoves(c)
        PROVE  DoneInv'
    <2>1. /\ UNCHANGED <<stage, exiting, started>> /\ pc[c] \in {"main", "bwait", "bsleep"}
          /\ \A d \in Clients : d # c => pc'[d] = pc[d]
          /\ pc'[c] \in {"bwait", "bsleep"}
      BY <1>6 DEF ClientMoves, Goto, Waiting
    <2> QED
      BY <2>1, <1>1
  <1>7. ASSUME NEW c \in Clients, ClientAdvances(c)
        PROVE  DoneInv'
    <2>1. /\ UNCHANGED <<exiting, started>> /\ pc[c] \in {"main", "bwait"}
          /\ stage' = [stage EXCEPT ![c] = @ + 1]
          /\ \A d \in Clients : d # c => pc'[d] = pc[d]
          /\ pc'[c] = IF stage[c] = Len(WaitFor[c]) THEN "done" ELSE "main"
      BY <1>7 DEF ClientAdvances, NextStage, Waiting
    <2>2. Len(WaitFor[c]) \in Nat /\ stage[c] \in Nat
      BY ProgramAssumption
    <2>3. pc'[c] = "done" => stage'[c] > Len(WaitFor[c])
      BY <2>1, <2>2
    <2>4. \A d \in Clients : d # c => stage'[d] = stage[d]
      BY <2>1
    <2>5. c = Main => ~Leaving'
      BY <2>1
    <2>6. c # Main => ~Leaving /\ ~Leaving'
      BY <2>1
    <2> QED
      BY <2>1, <2>3, <2>4, <2>5, <2>6
  <1>8. CASE MainReturns
    <2>1. /\ UNCHANGED <<stage, exiting, started>>
          /\ \A c \in Clients : pc[c] = "done"
          /\ pc' = [pc EXCEPT ![Main] = IF started THEN "exit" ELSE "terminated"]
      BY <1>8 DEF MainReturns, Goto
    <2> QED
      BY <2>1
  <1>9. CASE workqueue_exit
    <2>1. /\ UNCHANGED <<stage, exiting, started>> /\ pc[Main] = "exit" /\ pc'[Main] = "join"
          /\ \A c \in Clients : c # Main => pc'[c] = pc[c] \/ c = exiting
      BY <1>9 DEF workqueue_exit
    <2>2. exiting \in Queues
      BY <2>1, NProc DEF ExitInv
    <2> QED
      BY <2>1, <2>2
  <1>10. CASE Join
    <2>1. /\ UNCHANGED <<stage, started>> /\ pc[Main] = "join" /\ exiting' = exiting + 1
          /\ pc' = [pc EXCEPT ![Main] = IF exiting + 1 = nproc THEN "terminated" ELSE "exit"]
      BY <1>10 DEF Join
    <2> QED
      BY <2>1
  <1>11. CASE UNCHANGED vars
    BY <1>11 DEF vars
  <1> QED
    BY <1>2, <1>3, <1>4, <1>5, <1>6, <1>7, <1>8, <1>9, <1>10, <1>11, Cases

LEMMA OrderStep ==
  ASSUME IInv, DoneInv, Started, OrderInv, [Next]_vars
  PROVE  OrderInv'
  <1>0. Types /\ ExitInv
    BY DEF IInv
  <1>q. \A q \in Queues : q \in Nat /\ q < nproc
    BY NProc
  <1> USE <1>0, <1>q, ThreadFacts DEF Types, OrderInv, Leaving
  <1>1. ASSUME UNCHANGED <<wq_should_exit, exiting>>, Leaving => Leaving',
               \A q \in Queues : (pc[q] = "exited") = (pc'[q] = "exited")
        PROVE  OrderInv'
    BY <1>1
  <1>2. ASSUME NEW t \in Threads, NEW i \in Items, workqueue(t, i)
        PROVE  OrderInv'
    <2>1. /\ UNCHANGED <<wq_should_exit, exiting>> /\ pc[t] \in {"main", "cb"}
      BY <1>2 DEF workqueue, Submits, Caller
    <2>4. pc' = [u \in Threads |->
                   IF u = t THEN IF wi_key(i) = 0 THEN "load" ELSE "insert"
                   ELSE IF u \in Queues /\ ~started THEN "top" ELSE pc[u]]
      BY <1>2 DEF workqueue
    <2>2. \A q \in Queues : ~started => pc[q] = "unborn"
      BY DEF Started
    <2>3. \A q \in Queues : (pc[q] = "exited") = (pc'[q] = "exited")
      BY <2>1, <2>2, <2>4
    <2>5. Leaving => Leaving'
      BY <2>1, <2>4
    <2> QED
      BY <2>1, <2>3, <2>5, <1>1
  <1>3. ASSUME NEW t \in Threads, LoadRover(t) \/ StoreRover(t) \/ Insert(t)
        PROVE  OrderInv'
    <2>1. UNCHANGED <<wq_should_exit, exiting>> /\ pc[t] \in {"load", "store", "insert"}
      BY <1>3 DEF LoadRover, StoreRover, Insert
    <2>2. \A u \in Threads : u # t => pc'[u] = pc[u] \/ (pc[u] = "sleep" /\ pc'[u] = "woken")
      <3>1. CASE LoadRover(t) \/ StoreRover(t)
        BY <3>1 DEF LoadRover, StoreRover
      <3>2. CASE Insert(t)
        BY <3>2 DEF Insert
      <3> QED
        BY <1>3, <3>1, <3>2
    <2>3. pc'[t] \in {"store", "insert", "main", "cb"}
      BY <1>3 DEF LoadRover, StoreRover, Insert, Caller
    <2> QED
      BY <2>1, <2>2, <2>3, <1>1
  <1>4. ASSUME NEW q \in Queues, Take(q) \/ CallbackReturns(q)
        PROVE  OrderInv'
    <2>1. UNCHANGED <<wq_should_exit, exiting>> /\ pc[q] \in {"top", "woken", "relock", "cb"}
      BY <1>4 DEF Take, TakeFirst, CallbackReturns
    <2>2. /\ \A u \in Threads : u # q => pc'[u] = pc[u]
          /\ pc'[q] \in {"cb", "bdec", "relock"}
      BY <1>4 DEF Take, TakeFirst, CallbackReturns
    <2> QED
      BY <2>1, <2>2, <1>1
  <1>5. ASSUME NEW q \in Queues, WorkerMoves(q)
        PROVE  OrderInv'
    <2>1. /\ UNCHANGED <<wq_should_exit, exiting>> /\ pc[q] # "exited"
          /\ \A u \in Threads : u # q => pc'[u] = pc[u]
          /\ pc'[q] = "exited" => wq_should_exit[q]
      BY <1>5 DEF WorkerMoves, Goto
    <2> QED
      BY <2>1
  <1>6. ASSUME NEW q \in Queues, bdec(q)
        PROVE  OrderInv'
    <2>1. UNCHANGED <<wq_should_exit, exiting>>
      BY <1>6 DEF bdec
    <2>2. /\ pc[q] = "bdec" /\ pc'[q] = "relock"
          /\ \A u \in Threads : u = q \/ pc'[u] = pc[u] \/ (u \in Clients /\ pc[u] = "bsleep" /\ pc'[u] = "bwait")
      BY <1>6, BdecMoves
    <2> QED
      BY <2>1, <2>2, <1>1
  <1>7. ASSUME NEW c \in Clients, ClientMoves(c) \/ ClientAdvances(c)
        PROVE  OrderInv'
    <2>1. UNCHANGED <<wq_should_exit, exiting>> /\ pc[c] \in {"main", "bwait", "bsleep"}
      BY <1>7 DEF ClientMoves, ClientAdvances, NextStage, Goto, Waiting
    <2>2. \A u \in Threads : u # c => pc'[u] = pc[u]
      BY <1>7 DEF ClientMoves, ClientAdvances, NextStage, Goto
    <2> QED
      BY <2>1, <2>2, <1>1
  <1>8. CASE MainReturns
    BY <1>8 DEF MainReturns, Goto
  <1>9. CASE workqueue_exit
    <2>1. /\ exiting' = exiting /\ pc'[Main] = "join" /\ pc[Main] = "exit"
          /\ wq_should_exit' = [wq_should_exit EXCEPT ![exiting] = TRUE]
          /\ \A q \in Queues : (pc[q] = "exited") = (pc'[q] = "exited")
      BY <1>9 DEF workqueue_exit
    <2> QED
      BY <2>1
  <1>10. CASE Join
    <2>1. /\ wq_should_exit' = wq_should_exit /\ exiting' = exiting + 1
          /\ pc[exiting] = "exited" /\ pc'[Main] \in {"exit", "terminated"}
          /\ \A q \in Queues : pc'[q] = pc[q]
      BY <1>10 DEF Join
    <2> QED
      BY <2>1
  <1>11. CASE UNCHANGED vars
    BY <1>11 DEF vars
  <1> QED
    BY <1>2, <1>3, <1>4, <1>5, <1>6, <1>7, <1>8, <1>9, <1>10, <1>11, Cases

\* An item that has been queued stays where it is, and what was taken never comes back.
LEMMA Settled ==
  ASSUME IInv, [Next]_vars
  PROVE  \A i \in Items : st[i] \in {"running", "ran", "freed"} =>
           where'[i] = where[i] /\ st'[i] \in {"running", "ran", "freed"}
  <1>0. Types /\ CallInv /\ QueueInv /\ RunInv
    BY DEF IInv
  <1> USE <1>0, ThreadFacts DEF Types
  <1>1. ASSUME NEW t \in Threads, NEW i \in Items, workqueue(t, i)
        PROVE  \A j \in Items : st[j] \in {"running", "ran", "freed"} =>
                 where'[j] = where[j] /\ st'[j] = st[j]
    BY <1>1 DEF workqueue, Submits
  <1>2. ASSUME NEW t \in Threads, LoadRover(t) \/ StoreRover(t)
        PROVE  UNCHANGED <<st, where>>
    BY <1>2 DEF LoadRover, StoreRover
  <1>3. ASSUME NEW t \in Threads, Insert(t)
        PROVE  \A j \in Items : st[j] \in {"running", "ran", "freed"} =>
                 where'[j] = where[j] /\ st'[j] = st[j]
    BY <1>3 DEF Insert, CallInv, InCall
  <1>4. ASSUME NEW q \in Queues, Take(q) \/ CallbackReturns(q) \/ bdec(q)
        PROVE  /\ where' = where
               /\ \A j \in Items : st'[j] = st[j] \/ st'[j] \in {"running", "ran", "freed"}
    BY <1>4 DEF Take, TakeFirst, CallbackReturns, bdec
  <1>5. ASSUME NEW q \in Queues, WorkerMoves(q)
        PROVE  UNCHANGED <<st, where>>
    BY <1>5 DEF WorkerMoves, Goto
  <1>6. ASSUME NEW c \in Clients, ClientMoves(c) \/ ClientAdvances(c)
        PROVE  UNCHANGED <<st, where>>
    BY <1>6 DEF ClientMoves, ClientAdvances, NextStage, Goto
  <1>7. CASE MainReturns \/ workqueue_exit \/ Join
    <2>1. UNCHANGED <<st, where>>
      BY <1>7 DEF MainReturns, workqueue_exit, Join, Goto
    <2> QED
      BY <2>1
  <1>8. CASE UNCHANGED vars
    BY <1>8 DEF vars
  <1> QED
    BY <1>1, <1>2, <1>3, <1>4, <1>5, <1>6, <1>7, <1>8, Cases

\* How the entries of the queue of an exited worker change.
LEMMA ExitedQueue ==
  ASSUME IInv, [Next]_vars, NEW q \in Queues, pc'[q] = "exited"
  PROVE  \/ pc[q] = "exited" /\ wq_entries'[q] = wq_entries[q]
         \/ wq_entries'[q] = <<>>
         \/ pc[q] = "exited" /\ \E t \in Threads : Insert(t) /\ selqueue(t) = q
  <1>0. Types /\ ItemCount
    BY DEF IInv
  <1> USE <1>0, ThreadFacts DEF Types
  <1>1. ASSUME NEW t \in Threads, NEW i \in Items, workqueue(t, i)
        PROVE  pc[q] = "exited" /\ wq_entries'[q] = wq_entries[q]
    BY <1>1 DEF workqueue
  <1>2. ASSUME NEW t \in Threads, LoadRover(t) \/ StoreRover(t)
        PROVE  pc[q] = "exited" /\ wq_entries'[q] = wq_entries[q]
    BY <1>2 DEF LoadRover, StoreRover
  <1>3. ASSUME NEW t \in Threads, Insert(t), selqueue(t) # q
        PROVE  pc[q] = "exited" /\ wq_entries'[q] = wq_entries[q]
    BY <1>3 DEF Insert, Caller
  <1>4. ASSUME NEW t \in Threads, Insert(t), selqueue(t) = q
        PROVE  pc[q] = "exited"
    BY <1>4 DEF Insert, Caller
  <1>5. ASSUME NEW r \in Queues, Take(r)
        PROVE  pc[q] = "exited" /\ wq_entries'[q] = wq_entries[q]
    BY <1>5 DEF Take, TakeFirst
  <1>6. ASSUME NEW r \in Queues, CallbackReturns(r) \/ bdec(r)
        PROVE  pc[q] = "exited" /\ wq_entries'[q] = wq_entries[q]
    BY <1>6 DEF CallbackReturns, bdec, Sleepers
  <1>7. ASSUME NEW r \in Queues, WorkerMoves(r)
        PROVE  \/ pc[q] = "exited" /\ wq_entries'[q] = wq_entries[q]
               \/ wq_entries'[q] = <<>>
    <2>1. /\ wq_entries' = wq_entries
          /\ pc[q] = "exited" \/ (r = q /\ wq_items[q] = 0)
      BY <1>7 DEF WorkerMoves, Goto
    <2>2. wq_items[q] = 0 => wq_entries[q] = <<>>
      BY DEF ItemCount
    <2> QED
      BY <2>1, <2>2
  <1>8. ASSUME NEW c \in Clients, ClientMoves(c) \/ ClientAdvances(c)
        PROVE  pc[q] = "exited" /\ wq_entries'[q] = wq_entries[q]
    BY <1>8 DEF ClientMoves, ClientAdvances, NextStage, Goto
  <1>9. CASE MainReturns \/ workqueue_exit \/ Join
    BY <1>9 DEF MainReturns, workqueue_exit, Join, Goto
  <1>10. CASE UNCHANGED vars
    BY <1>10 DEF vars
  <1> QED
    BY <1>1, <1>2, <1>3, <1>4, <1>5, <1>6, <1>7, <1>8, <1>9, <1>10, Cases

LEMMA LateStep ==
  ASSUME IInv, CallerInv, DoneInv, OrderInv, LateInv, [Next]_vars
  PROVE  LateInv'
  <1>0. Types /\ CallInv /\ RunInv /\ QueueInv
    BY DEF IInv
  <1> USE <1>0, ThreadFacts DEF Types
  <1>1. ASSUME NEW q \in Queues, pc'[q] = "exited", NEW n \in 1 .. Len(wq_entries'[q])
        PROVE  /\ Parent[wq_entries'[q][n]] \in Items
               /\ st'[Parent[wq_entries'[q][n]]] \in {"running", "ran", "freed"}
               /\ q < where'[Parent[wq_entries'[q][n]]]
    <2>1. ASSUME NEW i \in Items, Parent[i] \in Items,
                 st[Parent[i]] \in {"running", "ran", "freed"}, q < where[Parent[i]],
                 wq_entries'[q][n] = i
          PROVE  /\ Parent[wq_entries'[q][n]] \in Items
                 /\ st'[Parent[wq_entries'[q][n]]] \in {"running", "ran", "freed"}
                 /\ q < where'[Parent[wq_entries'[q][n]]]
      BY <2>1, Settled
    <2>2. CASE pc[q] = "exited" /\ wq_entries'[q] = wq_entries[q]
      <3>1. wq_entries[q][n] \in Items
        BY <2>2
      <3> QED
        BY <2>1, <2>2, <3>1 DEF LateInv
    <2>3. CASE wq_entries'[q] = <<>>
      BY <2>3
    <2>4. ASSUME pc[q] = "exited", NEW t \in Threads, Insert(t), selqueue(t) = q
          PROVE  /\ Parent[wq_entries'[q][n]] \in Items
                 /\ st'[Parent[wq_entries'[q][n]]] \in {"running", "ran", "freed"}
                 /\ q < where'[Parent[wq_entries'[q][n]]]
      <3>1. /\ InCall(t) /\ pc[t] = "insert"
            /\ wq_entries'[q] = Append(wq_entries[q], sub[t])
        BY <2>4 DEF Insert, InCall
      <3>2. sub[t] \in Items
        BY <3>1 DEF CallInv
      <3>3. CASE n = Len(wq_entries[q]) + 1
        <4>1. wq_entries'[q][n] = sub[t]
          BY <3>1, <3>2, <3>3
        <4>2. q \in Nat /\ Leaving /\ q <= exiting
          BY <2>4, NProc DEF OrderInv
        <4>3. t \in Queues
          <5>1. t \notin Clients
            BY <3>1, <4>2 DEF DoneInv, Leaving
          <5> QED
            BY <5>1 DEF Threads
        <4>4. t \in Nat /\ ~(t < exiting) /\ t # q
          <5>1. t \in Nat /\ pc[t] # "exited"
            BY <3>1, <4>3, NProc
          <5> QED
            BY <2>4, <4>3, <5>1 DEF OrderInv
        <4>5. Parent[sub[t]] = cur[t] /\ cur[t] \in Items /\ where[cur[t]] = t /\ st[cur[t]] = "running"
          BY <3>1, <4>3 DEF CallerInv, RunInv, InCallback
        <4>6. q < t
          BY <4>2, <4>4
        <4> QED
          BY <2>1, <3>2, <4>1, <4>5, <4>6
      <3>4. CASE n # Len(wq_entries[q]) + 1
        <4>1. n \in 1 .. Len(wq_entries[q]) /\ wq_entries'[q][n] = wq_entries[q][n]
          BY <3>1, <3>2, <3>4
        <4> QED
          BY <2>1, <2>4, <4>1 DEF LateInv
      <3> QED
        BY <3>3, <3>4
    <2> QED
      BY <1>1, <2>2, <2>3, <2>4, ExitedQueue
  <1> QED
    BY <1>1 DEF LateInv

\* At the end every worker has exited and every client is done.
LEMMA AtTheEnd ==
  ASSUME IInv, Owners, Started, DoneInv, OrderInv, LateInv
  PROVE  ExitDrains
  <1>0. Types /\ SubmitInv /\ StageInv
    BY DEF IInv
  <1> SUFFICES ASSUME pc[Main] = "terminated", NEW i \in Items, st[i] # "freed"
               PROVE  \/ st[i] = "queued" /\ Parent[i] \in Items /\ where[i] < where[Parent[i]]
                      \/ st[i] = "new" /\ Parent[i] \in Items /\ st[Parent[i]] # "freed"
    BY DEF ExitDrains
  <1>1. \A c \in Clients : pc[c] \in {"done", "terminated"} /\ stage[c] > Len(WaitFor[c])
    BY DEF DoneInv, Leaving
  <1>2. CASE st[i] = "new"
    <2>1. Parent[i] \notin Clients
      <3>1. SUFFICES ASSUME Parent[i] \in Clients PROVE FALSE
        OBVIOUS
      <3>2. Stage[i] \in 1 .. Len(WaitFor[Parent[i]]) /\ Len(WaitFor[Parent[i]]) \in Nat
        BY <3>1, ProgramAssumption
      <3>3. Stage[i] < stage[Parent[i]]
        BY <1>0, <1>1, <3>1, <3>2 DEF Types
      <3> QED
        BY <1>0, <1>2, <3>1, <3>3 DEF StageInv
    <2>2. Parent[i] \in Items
      BY <2>1, ProgramAssumption
    <2> QED
      BY <1>0, <1>2, <2>2 DEF SubmitInv
  <1>3. CASE st[i] # "new"
    <2>1. \A q \in Queues : pc[q] = "exited"
      BY <1>3, NProc DEF DoneInv, OrderInv, Started
    <2>2. \A t \in Threads : ~InCall(t)
      BY <1>1, <2>1 DEF InCall, Threads
    <2>3. Owned(i)
      BY DEF Owners
    <2>4. st[i] = "queued"
      BY <1>0, <1>3, <2>1, <2>2, <2>3, ThreadFacts DEF Owned, InCallback, Types, ItemStates
    <2>5. where[i] \in Queues /\ \E n \in 1 .. Len(wq_entries[where[i]]) : wq_entries[where[i]][n] = i
      BY <2>3, <2>4 DEF Owned
    <2> QED
      BY <2>1, <2>4, <2>5 DEF LateInv
  <1> QED
    BY <1>2, <1>3

\* workqueue_exit leaves nothing behind but what callbacks submit to workers that
\* have already been joined: every other item is run and freed, for any program and
\* any number of queues.
THEOREM ExitCorrect == Spec => []ExitDrains
  <1> DEFINE Inv == CallerInv /\ DoneInv /\ OrderInv /\ LateInv
  <1>1. Init => Inv
    <2> SUFFICES ASSUME Init PROVE Inv
      OBVIOUS
    <2>1. \A c \in Clients : pc[c] = IF WaitFor[c] = <<>> THEN "done" ELSE "main"
      BY ThreadFacts DEF Init
    <2>2. \A q \in Queues : pc[q] = "unborn"
      BY ThreadFacts DEF Init
    <2>3. CallerInv
      BY <2>1, <2>2 DEF CallerInv, InCall, Threads
    <2>4. DoneInv
      BY <2>1, ThreadFacts DEF DoneInv, Leaving, Init
    <2>5. OrderInv /\ LateInv
      BY <2>2, NProc DEF OrderInv, LateInv, Init
    <2> QED
      BY <2>3, <2>4, <2>5
  <1>2. IInv /\ Started /\ Inv /\ [Next]_vars => Inv'
    BY CallerStep, DoneStep, OrderStep, LateStep
  <1>3. IInv /\ Started /\ Owners /\ Inv => ExitDrains
    BY AtTheEnd
  <1> QED
    BY <1>1, <1>2, <1>3, Invariance, Ownership, PTL DEF Spec
================================================================================
