------------------------------- MODULE WorkQueue -------------------------------
(***************************************************************************)
(* The process-wide thread pool of workqueue.c, the counting barrier of    *)
(* barrier.c that it decrements after every callback, and the C++ wrapper  *)
(* PWQ::Run of pwq.cc through which most programs submit.                  *)
(*                                                                         *)
(* A workqueue_item is one call of workqueue(); what the program around    *)
(* the pool submits, and from where, is given by constants.  Every stretch *)
(* of code between a lock and its unlock (or the release inside            *)
(* pthread_cond_wait) is one action: the mutexes protect all of its state. *)
(* `rover`, which no mutex protects, is loaded and stored in two actions.  *)
(***************************************************************************)
EXTENDS Integers, Sequences, FiniteSets

CONSTANTS
  Items,      (* the calls of workqueue() the program makes               *)
  Clients,    (* threads of the program that are not workers              *)
  Main,       (* the client that returns from main() and runs atexit()    *)
  Barriers,   (* struct barrier objects of the program                    *)
  None,       (* NULL                                                     *)
  NUMPROC,    (* atoi() of the environment variable, None when it is unset*)
  Parent,     (* who makes the call: a client, or the callback of an item *)
  Stage,      (* in which stage of its program a client makes the call    *)
  WaitFor,    (* what a client waits for at the end of each stage: bwait()*)
              (* on a barrier, the future of an item, or nothing          *)
  Bar,        (* the barrier passed with an item, or None                 *)
  Key,        (* the key passed with an item                              *)
  PwqItems    (* the items submitted through PWQ::Run                     *)

SCHED_WORKQUEUES == 4

\* workqueue_init: the number of queues, and of worker threads.
nproc == IF NUMPROC = None THEN SCHED_WORKQUEUES
         ELSE IF NUMPROC < 1 THEN 1
         ELSE IF NUMPROC > SCHED_WORKQUEUES THEN SCHED_WORKQUEUES ELSE NUMPROC

Queues  == 0 .. nproc - 1           \* a queue and the worker serving it
Threads == Clients \cup Queues

ASSUME ProgramAssumption ==
  /\ NUMPROC = None \/ NUMPROC \in Int
  /\ None \notin Items \cup Barriers \cup Threads
  /\ Main \in Clients
  /\ IsFiniteSet(Items)
  /\ Items \cap Barriers = {}
  /\ Clients \cap Queues = {}
  /\ Clients \cap Items = {}
  /\ Parent \in [Items -> Items \cup Clients]
  /\ Stage \in [Items -> Nat]
  /\ WaitFor \in [Clients -> Seq(Barriers \cup Items \cup {None})]
  /\ \A i \in Items :
       Parent[i] \in Clients => Stage[i] \in 1 .. Len(WaitFor[Parent[i]])
  /\ Bar \in [Items -> Barriers \cup {None}]
  /\ Key \in [Items -> Nat]
  /\ PwqItems \subseteq Items

VARIABLES
  started,          (* workqueue_once has run                                  *)
  rover,            (* static int rover of selqueue                            *)
  wq_entries,       (* per queue, the TAILQ                                    *)
  wq_items,         (* per queue, the item count                               *)
  wq_should_exit,   (* per queue                                               *)
  b_count,          (* per barrier                                             *)
  pc,               (* per thread, where it is                                 *)
  sub,              (* per thread, the item it is submitting                   *)
  reg,              (* per thread, the value of rover it loaded                *)
  cur,              (* per worker, the item it processes                       *)
  stage,            (* per client, the stage of its program                    *)
  exiting,          (* the loop index of workqueue_exit                        *)
  st,               (* per item, how far it is: from malloc to free            *)
  where             (* per item, the thread that submits it, then its queue    *)

vars == <<started, rover, wq_entries, wq_items, wq_should_exit, b_count, pc,
          sub, reg, cur, stage, exiting, st, where>>

ItemStates == {"new", "counted", "queued", "running", "ran", "freed"}

Outstanding(b) ==
  {i \in Items : Bar[i] = b /\ st[i] \in {"counted", "queued", "running", "ran"}}

--------------------------------------------------------------------------------
(* Submission: workqueue() -> add_workqueue_item() -> selqueue()           *)

\* PWQ::Run(fn) and PWQ::Run(fn, b, key) both pass key 0 on to workqueue().
wi_key(i) == IF i \in PwqItems THEN 0 ELSE Key[i]

\* Where a call of workqueue() by thread t returns to.
Caller(t) == IF t \in Clients THEN "main" ELSE "cb"

\* Thread t has item i to submit next: a client in the stage it is in, a worker
\* from the callback of the item it runs.
Submits(t, i) ==
  /\ pc[t] = Caller(t)
  /\ st[i] = "new"
  /\ IF t \in Clients THEN Parent[i] = t /\ Stage[i] = stage[t]
                      ELSE Parent[i] = cur[t]

\* workqueue(): pthread_once starts the workers on the first call; the item is
\* allocated, and add_workqueue_item counts it in its barrier before the item
\* can be seen by any worker.
workqueue(t, i) ==
  /\ Submits(t, i)
  /\ started' = TRUE
  /\ st' = [st EXCEPT ![i] = "counted"]
  /\ where' = [where EXCEPT ![i] = t]
  /\ sub' = [sub EXCEPT ![t] = i]
  /\ b_count' = IF Bar[i] = None THEN b_count
                ELSE [b_count EXCEPT ![Bar[i]] = @ + 1]
  /\ pc' = [u \in Threads |->
              IF u = t THEN IF wi_key(i) = 0 THEN "load" ELSE "insert"
              ELSE IF u \in Queues /\ ~started THEN "top" ELSE pc[u]]
  /\ UNCHANGED <<rover, wq_entries, wq_items, wq_should_exit, reg, cur, stage,
                 exiting>>

\* selqueue: rover++ without a lock, first half.
LoadRover(t) ==
  /\ pc[t] = "load"
  /\ reg' = [reg EXCEPT ![t] = rover]
  /\ pc' = [pc EXCEPT ![t] = "store"]
  /\ UNCHANGED <<started, rover, wq_entries, wq_items, wq_should_exit, b_count,
                 sub, cur, stage, exiting, st, where>>

\* selqueue: rover++ without a lock, second half.
StoreRover(t) ==
  /\ pc[t] = "store"
  /\ rover' = reg[t] + 1
  /\ pc' = [pc EXCEPT ![t] = "insert"]
  /\ UNCHANGED <<started, wq_entries, wq_items, wq_should_exit, b_count, sub,
                 reg, cur, stage, exiting, st, where>>

selqueueRoverOnly(t) == IF wi_key(sub[t]) = 0 THEN reg[t] % nproc ELSE rover % nproc
selqueue(t) ==
  IF wi_key(sub[t]) = 0 THEN reg[t] % nproc ELSE wi_key(sub[t]) % nproc

InsertNoSignal(t) ==
  LET q == selqueue(t) IN
  /\ pc[t] = "insert"
  /\ wq_entries' = [wq_entries EXCEPT ![q] = Append(@, sub[t])]
  /\ wq_items' = [wq_items EXCEPT ![q] = @ + 1]
  /\ st' = [st EXCEPT ![sub[t]] = "queued"]
  /\ where' = [where EXCEPT ![sub[t]] = q]
  /\ pc' = [pc EXCEPT ![t] = Caller(t)]
  /\ UNCHANGED <<started, rover, wq_should_exit, b_count, sub, reg, cur, stage,
                 exiting>>

\* add_workqueue_item, under wq_mtx: insert at the tail and signal the worker.
Insert(t) ==
  LET q == selqueue(t) IN
  /\ pc[t] = "insert"
  /\ wq_entries' = [wq_entries EXCEPT ![q] = Append(@, sub[t])]
  /\ wq_items' = [wq_items EXCEPT ![q] = @ + 1]
  /\ st' = [st EXCEPT ![sub[t]] = "queued"]
  /\ where' = [where EXCEPT ![sub[t]] = q]
  /\ pc' = [u \in Threads |-> IF u = t THEN Caller(t)
                              ELSE IF u = q /\ pc[q] = "sleep" THEN "woken"
                              ELSE pc[u]]
  /\ UNCHANGED <<started, rover, wq_should_exit, b_count, sub, reg, cur, stage,
                 exiting>>

--------------------------------------------------------------------------------
(* The worker threads: workqueue_thread() and process_workqueue()          *)

\* process_workqueue, under wq_mtx: unlink the first item and unlock to run it.
TakeFirst(q) ==
  LET i == Head(wq_entries[q]) IN
  /\ wq_entries[q] # <<>>
  /\ cur' = [cur EXCEPT ![q] = i]
  /\ wq_entries' = [wq_entries EXCEPT ![q] = Tail(@)]
  /\ wq_items' = [wq_items EXCEPT ![q] = @ - 1]
  /\ st' = [st EXCEPT ![i] = "running"]
  /\ pc' = [pc EXCEPT ![q] = "cb"]
  /\ UNCHANGED <<started, rover, wq_should_exit, b_count, sub, reg, stage,
                 exiting, where>>

\* Thread t goes to l; nothing else changes.
Goto(t, l) ==
  /\ pc' = [pc EXCEPT ![t] = l]
  /\ UNCHANGED <<started, rover, wq_entries, wq_items, wq_should_exit, b_count,
                 sub, reg, cur, stage, exiting, st, where>>

LoopTopExitFirst(q) ==
  /\ pc[q] = "top"
  /\ \/ wq_should_exit[q] /\ Goto(q, "exited")
     \/ ~wq_should_exit[q] /\ wq_items[q] = 0 /\ Goto(q, "sleep")
     \/ ~wq_should_exit[q] /\ wq_items[q] # 0 /\ TakeFirst(q)

\* workqueue_thread: the top of the loop up to the wait or the first item.
LoopTop(q) ==
  /\ pc[q] = "top"
  /\ \/ wq_items[q] = 0 /\ wq_should_exit[q] /\ Goto(q, "exited")
     \/ wq_items[q] = 0 /\ ~wq_should_exit[q] /\ Goto(q, "sleep")
     \/ wq_items[q] # 0 /\ TakeFirst(q)

\* workqueue_thread: back from pthread_cond_wait, which is not in a loop.
Woken(q) ==
  /\ pc[q] = "woken"
  /\ \/ wq_items[q] # 0 /\ TakeFirst(q)
     \/ wq_items[q] = 0 /\ Goto(q, "top")

\* pthread_cond_wait may return without a signal.
SpuriousWakeup(t) ==
  \/ t \in Queues /\ pc[t] = "sleep" /\ Goto(t, "woken")
  \/ t \in Clients /\ pc[t] = "bsleep" /\ Goto(t, "bwait")

\* process_workqueue_item: the callback, having submitted all it submits,
\* returns; an item without a barrier is freed at once.
CallbackReturns(q) ==
  /\ pc[q] = "cb"
  /\ \A i \in Items : Parent[i] = cur[q] => st[i] # "new"
  /\ IF Bar[cur[q]] # None
     THEN /\ st' = [st EXCEPT ![cur[q]] = "ran"]
          /\ pc' = [pc EXCEPT ![q] = "bdec"]
     ELSE /\ st' = [st EXCEPT ![cur[q]] = "freed"]
          /\ pc' = [pc EXCEPT ![q] = "relock"]
  /\ UNCHANGED <<started, rover, wq_entries, wq_items, wq_should_exit, b_count,
                 sub, reg, cur, stage, exiting, where>>

\* The clients blocked in bwait(b) that have not been signalled.
Sleepers(b) == {c \in Clients : pc[c] = "bsleep" /\ WaitFor[c][stage[c]] = b}

bdecNoSignal(q) ==
  LET b == Bar[cur[q]] IN
  /\ pc[q] = "bdec"
  /\ b_count' = [b_count EXCEPT ![b] = @ - 1]
  /\ st' = [st EXCEPT ![cur[q]] = "freed"]
  /\ pc' = [pc EXCEPT ![q] = "relock"]
  /\ UNCHANGED <<started, rover, wq_entries, wq_items, wq_should_exit, sub,
                 reg, cur, stage, exiting, where>>

\* process_workqueue_item: bdec() signals one waiter when the count reaches
\* zero; then the item is freed.
bdec(q) ==
  LET b == Bar[cur[q]] IN
  /\ pc[q] = "bdec"
  /\ b_count' = [b_count EXCEPT ![b] = @ - 1]
  /\ st' = [st EXCEPT ![cur[q]] = "freed"]
  /\ \/ /\ b_count[b] # 1 \/ Sleepers(b) = {}
        /\ pc' = [pc EXCEPT ![q] = "relock"]
     \/ /\ b_count[b] = 1
        /\ \E c \in Sleepers(b) :
             pc' = [pc EXCEPT ![q] = "relock", ![c] = "bwait"]
  /\ UNCHANGED <<started, rover, wq_entries, wq_items, wq_should_exit, sub,
                 reg, cur, stage, exiting, where>>

\* process_workqueue: lock again; the next item, or out to the top of the loop.
Relock(q) ==
  /\ pc[q] = "relock"
  /\ \/ wq_entries[q] # <<>> /\ TakeFirst(q)
     \/ wq_entries[q] = <<>> /\ Goto(q, "top")

Worker(q) ==
  \/ LoopTop(q) \/ Woken(q) \/ CallbackReturns(q) \/ bdec(q) \/ Relock(q)

--------------------------------------------------------------------------------
(* The program: submit, wait, and leave through exit()                     *)

\* Client c has made all the calls of its stage.
Waiting(c) ==
  /\ pc[c] = "main" /\ stage[c] <= Len(WaitFor[c])
  /\ \A i \in Items : Parent[i] = c /\ Stage[i] = stage[c] => st[i] # "new"

NextStage(c) ==
  /\ stage' = [stage EXCEPT ![c] = @ + 1]
  /\ pc' = [pc EXCEPT ![c] = IF stage[c] = Len(WaitFor[c]) THEN "done" ELSE "main"]
  /\ UNCHANGED <<started, rover, wq_entries, wq_items, wq_should_exit, b_count,
                 sub, reg, cur, exiting, st, where>>

bwaitIf(c, b) ==
  \/ /\ Waiting(c)
     /\ \/ b_count[b] > 0 /\ Goto(c, "bsleep")
        \/ b_count[b] <= 0 /\ NextStage(c)
  \/ pc[c] = "bwait" /\ NextStage(c)

\* bwait(), under b_mtx: wait, in a loop, while the count is positive.
bwait(c, b) ==
  /\ Waiting(c) \/ pc[c] = "bwait"
  /\ \/ b_count[b] > 0 /\ Goto(c, "bsleep")
     \/ b_count[b] <= 0 /\ NextStage(c)

\* The end of a stage: bwait() on a barrier, the future of an item (its callback
\* has run), or nothing.
EndStage(c) ==
  LET target == WaitFor[c][stage[c]] IN
  /\ stage[c] <= Len(WaitFor[c])
  /\ \/ target \in Barriers /\ bwait(c, target)
     \/ target \in Items /\ Waiting(c) /\ st[target] \in {"ran", "freed"} /\ NextStage(c)
     \/ target = None /\ Waiting(c) /\ NextStage(c)

\* main() returns once every other client has finished; atexit() has a handler
\* only when the pool was started.
MainReturns ==
  /\ \A c \in Clients : pc[c] = "done"
  /\ Goto(Main, IF started THEN "exit" ELSE "terminated")

workqueue_exitNoSignal ==
  /\ pc[Main] = "exit"
  /\ wq_should_exit' = [wq_should_exit EXCEPT ![exiting] = TRUE]
  /\ pc' = [pc EXCEPT ![Main] = "join"]
  /\ UNCHANGED <<started, rover, wq_entries, wq_items, b_count, sub, reg, cur,
                 stage, exiting, st, where>>

\* workqueue_exit, under wq_mtx: ask the worker of one queue to exit.
workqueue_exit ==
  /\ pc[Main] = "exit"
  /\ wq_should_exit' = [wq_should_exit EXCEPT ![exiting] = TRUE]
  /\ pc' = [u \in Threads |-> IF u = Main THEN "join"
                              ELSE IF u = exiting /\ pc[u] = "sleep" THEN "woken"
                              ELSE pc[u]]
  /\ UNCHANGED <<started, rover, wq_entries, wq_items, b_count, sub, reg, cur,
                 stage, exiting, st, where>>

\* workqueue_exit: pthread_join of that worker, then the next queue.
Join ==
  /\ pc[Main] = "join" /\ pc[exiting] = "exited"
  /\ exiting' = exiting + 1
  /\ pc' = [pc EXCEPT ![Main] = IF exiting + 1 = nproc THEN "terminated" ELSE "exit"]
  /\ UNCHANGED <<started, rover, wq_entries, wq_items, wq_should_exit, b_count,
                 sub, reg, cur, stage, st, where>>

--------------------------------------------------------------------------------
Init ==
  /\ started = FALSE
  /\ rover = 0
  /\ wq_entries = [q \in Queues |-> <<>>]
  /\ wq_items = [q \in Queues |-> 0]
  /\ wq_should_exit = [q \in Queues |-> FALSE]
  /\ b_count = [b \in Barriers |-> 0]
  /\ pc = [t \in Threads |-> IF t \in Queues THEN "unborn"
                             ELSE IF WaitFor[t] = <<>> THEN "done" ELSE "main"]
  /\ sub = [t \in Threads |-> None]
  /\ reg = [t \in Threads |-> 0]
  /\ cur = [q \in Queues |-> None]
  /\ stage = [c \in Clients |-> 1]
  /\ exiting = 0
  /\ st = [i \in Items |-> "new"]
  /\ where = [i \in Items |-> None]

Call(t) ==
  \/ \E i \in Items : workqueue(t, i)
  \/ LoadRover(t)
  \/ StoreRover(t)
  \/ Insert(t)

Exit == MainReturns \/ workqueue_exit \/ Join

\* The process is gone; nothing happens any more.
Terminated == pc[Main] = "terminated" /\ UNCHANGED vars

Next ==
  \/ \E t \in Threads : Call(t) \/ SpuriousWakeup(t)
  \/ \E q \in Queues : Worker(q)
  \/ \E c \in Clients : EndStage(c)
  \/ Exit
  \/ Terminated

Spec == Init /\ [][Next]_vars

\* Every thread runs; a mutex that is released is eventually granted.  Nothing
\* obliges pthread_cond_wait to wake up by itself.
Fairness ==
  /\ \A t \in Threads : WF_vars(Call(t))
  /\ \A q \in Queues : WF_vars(Worker(q))
  /\ \A c \in Clients : WF_vars(EndStage(c))
  /\ WF_vars(Exit)

FairSpec == Spec /\ Fairness

--------------------------------------------------------------------------------
ThreadStates ==
  {"unborn", "top", "sleep", "woken", "cb", "bdec", "relock", "exited",   \* workers
   "load", "store", "insert",                                             \* in workqueue()
   "main", "bwait", "bsleep", "done", "exit", "join", "terminated"}       \* clients

\* The types of all variables; counters are never negative, and the index of
\* workqueue_exit stays within the array of queues.
TypeOK ==
  /\ started \in BOOLEAN
  /\ rover \in Nat
  /\ wq_entries \in [Queues -> Seq(Items)]
  /\ wq_items \in [Queues -> Nat]
  /\ wq_should_exit \in [Queues -> BOOLEAN]
  /\ b_count \in [Barriers -> Nat]
  /\ pc \in [Threads -> ThreadStates]
  /\ sub \in [Threads -> Items \cup {None}]
  /\ reg \in [Threads -> Nat]
  /\ cur \in [Queues -> Items \cup {None}]
  /\ stage \in [Clients -> Nat \ {0}]
  /\ exiting \in 0 .. nproc
  /\ st \in [Items -> ItemStates]
  /\ where \in [Items -> Threads \cup {None}]

\* Thread t is inside workqueue(), between binc and the insertion.
InCall(t) == pc[t] \in {"load", "store", "insert"}

\* Worker q runs a callback, which may itself be inside workqueue().
InCallback(q) == pc[q] = "cb" \/ InCall(q)

\* The count of a barrier is the number of items that were submitted with it and
\* whose worker has not yet called bdec: binc comes before the item is visible
\* and bdec after the callback, whatever the callback submits meanwhile.
BarrierCount == \A b \in Barriers : b_count[b] = Cardinality(Outstanding(b))

\* What a client that calls bwait(b) at the end of stage k is owed: the items it
\* submitted with b up to that stage and, from callback to callback, all the
\* items these submit with b.
Owed(c, k, b) ==
  LET own == {i \in Items : Parent[i] = c /\ Stage[i] <= k /\ Bar[i] = b}
      closed(T) == /\ own \subseteq T
                   /\ \A i \in Items : Parent[i] \in T /\ Bar[i] = b => i \in T
  IN {i \in Items : \A T \in SUBSET Items : closed(T) => i \in T}

\* When bwait(b) has returned, every item owed to the caller has been processed
\* and freed, those that callbacks submitted from other threads included: the
\* count never touches zero while part of the work is still to be submitted.
BwaitCovers ==
  \A c \in Clients : \A k \in 1 .. stage[c] - 1 :
    WaitFor[c][k] \in Barriers =>
      \A i \in Owed(c, k, WaitFor[c][k]) : st[i] = "freed"

\* A worker that sleeps unsignalled has nothing to do: neither an item nor the
\* request to exit can have been missed between its test and its wait.
WorkerNotForgotten ==
  \A q \in Queues : pc[q] = "sleep" => wq_items[q] = 0 /\ ~wq_should_exit[q]

\* A client that sleeps unsignalled in bwait(b) still has an item to wait for:
\* the signal of the bdec that reached zero cannot have been lost.
WaiterNotForgotten ==
  \A c \in Clients :
    pc[c] = "bsleep" => b_count[WaitFor[c][stage[c]]] > 0

\* Items whose workqueue_item carries the same non-zero key are queued to, and
\* run by, one and the same worker, so they never run at the same time.
KeyedItemsShareWorker ==
  \A i, j \in Items :
    /\ wi_key(i) = wi_key(j) /\ wi_key(i) # 0
    /\ {st[i], st[j]} \subseteq {"queued", "running", "ran", "freed"}
    => where[i] = where[j]

\* pwq.h, of PWQ::Run(fn, b, key): "all callbacks with the same key run on the
\* same thread".
SameKeySameThread ==
  \A i, j \in Items :
    /\ Key[i] = Key[j] /\ Key[i] # 0
    /\ {st[i], st[j]} \subseteq {"running", "ran", "freed"}
    => where[i] = where[j]

\* When the process has gone through workqueue_exit, an item is left behind only if a
\* callback submitted it, to a worker that had been joined while its own was still to
\* be asked: the workers drain their queues before they exit, also of items nobody
\* waits for, and nothing is half done.
ExitDrains ==
  pc[Main] = "terminated" =>
    \A i \in Items :
      \/ st[i] = "freed"
      \/ st[i] = "queued" /\ Parent[i] \in Items /\ where[i] < where[Parent[i]]
      \/ st[i] = "new" /\ Parent[i] \in Items /\ st[Parent[i]] # "freed"

\* The program gets to its end: every bwait returns, every future is set, every
\* worker leaves its loop and is joined.
Terminates == <>(pc[Main] = "terminated")

\* How far item i is for its submitter.
Progress(i) == CASE st[i] = "new" -> "new"
                 [] st[i] \in {"counted", "queued"} -> "pending"
                 [] st[i] = "running" -> "running"
                 [] OTHER -> "done"

Abstract == INSTANCE Pool WITH item <- [i \in Items |-> Progress(i)],
                               Key <- [i \in Items |-> wi_key(i)]

\* The queues, the workers and the counting barrier are a pool: every item is run
\* once, items of one key never at the same time, and no wait is over too early.
IsPool == Abstract!PoolSpec
================================================================================
