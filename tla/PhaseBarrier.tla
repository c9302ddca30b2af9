----------------------------- MODULE PhaseBarrier -----------------------------
(***************************************************************************)
(* What the asymmetric barrier of sense.c promises its callers: a set of   *)
(* workers goes through phases in lock step; between two phases one        *)
(* coordinator has them all inside the barrier, and lets them all out at   *)
(* once; closing the barrier lets everybody go.                            *)
(***************************************************************************)
CONSTANT Workers

VARIABLES
  at,       (* per worker: outside the barrier, inside it, or gone for good *)
  coord,    (* the coordinator: waiting for the workers, or holding them    *)
  closed

pvars == <<at, coord, closed>>

PInit ==
  /\ at = [w \in Workers |-> "out"]
  /\ coord = "waiting"
  /\ closed = FALSE

\* A worker arrives.
Arrive(w) ==
  /\ ~closed /\ at[w] = "out"
  /\ at' = [at EXCEPT ![w] = "in"]
  /\ UNCHANGED <<coord, closed>>

\* The coordinator has seen everybody arrive; a closed barrier promises nothing.
Gather ==
  /\ coord = "waiting"
  /\ closed \/ \A w \in Workers : at[w] = "in"
  /\ coord' = "holding"
  /\ UNCHANGED <<at, closed>>

\* The coordinator, and nobody else, lets them out, all of them at once.
Release ==
  /\ coord = "holding"
  /\ coord' = "waiting"
  /\ at' = [w \in Workers |-> IF at[w] = "in" THEN "out" ELSE at[w]]
  /\ UNCHANGED closed

\* Closing lets everybody out who is inside.
Close ==
  /\ closed' = TRUE
  /\ at' = [w \in Workers |-> IF at[w] = "in" THEN "out" ELSE at[w]]
  /\ coord' \in {coord, "done"}

\* A worker that comes back to a closed barrier is told so, and stops.
Leave(w) ==
  /\ closed /\ at[w] = "out"
  /\ at' = [at EXCEPT ![w] = "gone"]
  /\ UNCHANGED <<coord, closed>>

PNext ==
  \/ \E w \in Workers : Arrive(w) \/ Leave(w)
  \/ Gather \/ Release \/ Close

PSpec == PInit /\ [][PNext]_pvars
================================================================================
