---------------------------------- MODULE Pool ----------------------------------
(***************************************************************************)
(* What a program may rely on of the thread pool of workqueue.c: an item   *)
(* it submits is run once, beside any others except those of its key, and  *)
(* a wait at the end of a stage is over when there is nothing left to wait *)
(* for.  Nothing is said of queues, workers, counts, signals or locks:     *)
(* WorkQueue implements this, and Fftw and PoolTools take the pool for it. *)
(***************************************************************************)
EXTENDS Naturals, Sequences

CONSTANTS
  Items, Clients, Barriers, (* as in WorkQueue                                   *)
  WaitFor,                  (* what a client waits for at the end of each stage  *)
  Bar, Key                  (* per item, its barrier, and its key or 0           *)

VARIABLES
  item,                     (* per item: "new", "pending", "running" or "done"   *)
  stage                     (* per client, its stage: the earlier waits are over *)

poolVars == <<item, stage>>

Outstanding(b) == {i \in Items : Bar[i] = b /\ item[i] \in {"pending", "running"}}

PoolInit ==
  /\ item = [i \in Items |-> "new"]
  /\ stage = [c \in Clients |-> 1]

Becomes(i, from, to) ==
  /\ item[i] = from /\ item' = [item EXCEPT ![i] = to]
  /\ UNCHANGED stage

Submit(i) == Becomes(i, "new", "pending")

Start(i) ==
  /\ \A j \in Items : Key[i] # 0 /\ Key[j] = Key[i] => item[j] # "running"
  /\ Becomes(i, "pending", "running")

Finish(i) == Becomes(i, "running", "done")

\* Client c leaves its stage: what it waited for, all the items of a barrier or one
\* item, is over.
Pass(c) ==
  LET target == WaitFor[c][stage[c]] IN
  /\ stage[c] <= Len(WaitFor[c])
  /\ target \in Barriers => Outstanding(target) = {}
  /\ target \in Items => item[target] = "done"
  /\ stage' = [stage EXCEPT ![c] = @ + 1]
  /\ UNCHANGED item

PoolNext ==
  \/ \E i \in Items : Submit(i) \/ Start(i) \/ Finish(i)
  \/ \E c \in Clients : Pass(c)

PoolSpec == PoolInit /\ [][PoolNext]_poolVars
================================================================================
