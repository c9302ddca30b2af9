-------------------------------- MODULE SquareSum --------------------------------
(***************************************************************************)
(* The search of 211.c, under OpenMP: the threads share the iterations of  *)
(* the loop and add what they find by reduction.  v is declared outside    *)
(* the loop, so that there is one for all.                                 *)
(*                                                                         *)
(* A step is one store or load of v; the call that needs it has its value. *)
(***************************************************************************)
EXTENDS Integers, FiniteSetsExt

CONSTANTS
  First, Last,    (* the range of the loop, 1 .. 63999999                      *)
  NThreads        (* of the team                                               *)

Threads == 0 .. NThreads - 1

VARIABLES
  v,              (* the shared variable                                       *)
  pc, n, s        (* per thread, where it is, its loop variable and its sum    *)

vars == <<v, pc, n, s>>

--------------------------------------------------------------------------------
Root(m) == CHOOSE r \in 0 .. m : r * r <= m /\ (r + 1) * (r + 1) > m

\* The sum of the squares of the divisors, which come in pairs.
sqd(m) ==
  LET small == {i \in 1 .. Root(m) : m % i = 0}
  IN  MapThenSumSet(LAMBDA i : i * i + IF m \div i = i THEN 0 ELSE (m \div i) * (m \div i), small)

jacobi(a, b) ==
  LET J[p \in (0 .. b) \X (1 .. b)] ==
        LET u == p[1]
            w == p[2]
        IN  IF u = 0 THEN IF w = 1 THEN 1 ELSE 0
            ELSE IF u % 2 = 0 THEN (IF w % 8 \in {3, 5} THEN -1 ELSE 1) * J[<<u \div 2, w>>]
            ELSE (IF u % 4 = 3 /\ w % 4 = 3 THEN -1 ELSE 1) * J[<<w % u, u>>]
  IN  J[<<a % b, b>>]

\* No square is congruent to 2 or 3 mod 4, or 5 mod 8, or a non-residue of 11 or 17.
issquare(m) ==
  /\ IF m % 2 = 0 THEN m % 4 = 0 ELSE m % 8 = 1
  /\ jacobi(m, 11) # -1 /\ jacobi(m, 17) # -1
  /\ Root(m) * Root(m) = m

--------------------------------------------------------------------------------
\* A static schedule: each thread has a stretch of the range.
Share    == (Last - First + NThreads) \div NThreads
From(t)  == First + t * Share
Until(t) == IF From(t) + Share - 1 > Last THEN Last ELSE From(t) + Share - 1

Init ==
  /\ v \in {0}
  /\ pc = [t \in Threads |-> "sqd"] /\ n = [t \in Threads |-> From(t)]
  /\ s = [t \in Threads |-> 0]

\* v = sqd(n)
Assign(t) ==
  /\ pc[t] = "sqd" /\ n[t] <= Until(t)
  /\ v' = sqd(n[t]) /\ pc' = [pc EXCEPT ![t] = "issquare"]
  /\ UNCHANGED <<n, s>>

\* if (issquare(v)) s += n
Test(t) ==
  /\ pc[t] = "issquare" /\ pc' = [pc EXCEPT ![t] = "sqd"]
  /\ s' = IF issquare(v) THEN [s EXCEPT ![t] = @ + n[t]] ELSE s
  /\ n' = [n EXCEPT ![t] = @ + 1]
  /\ UNCHANGED v

Next == \E t \in Threads : Assign(t) \/ Test(t)

Spec == Init /\ [][Next]_vars

--------------------------------------------------------------------------------
Over  == \A t \in Threads : n[t] > Until(t)
Total == MapThenSumSet(LAMBDA t : s[t], Threads)

\* 211.c, of the loop: "Find the sum of all 0 < n < 64 000 000 s.t. sqd(n) is a perfect
\* square".
SumTrue ==
  Over => LET square(m) == \E r \in 1 .. m : r * r = m
              squares(k) == MapThenSumSet(LAMBDA d : d * d, {d \in 1 .. k : k % d = 0})
          IN  Total = MapThenSumSet(LAMBDA k : k, {k \in First .. Last : square(squares(k))})
================================================================================
