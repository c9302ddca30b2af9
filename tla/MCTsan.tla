--------------------------------- MODULE MCTsan ---------------------------------
(***************************************************************************)
(* Programs for Tsan.                                                      *)
(***************************************************************************)
EXTENDS Tsan

CONSTANTS f, g, x, y

\* CPU 0 stores to f and g, CPU 1 loads f and stores to g, CPU 2 loads both: no CPU
\* loads a byte it also stores to.
MCStores == [c \in Cpus |-> IF c = 0 THEN {f, g} ELSE IF c = 1 THEN {g} ELSE {}]
MCLoads  == [c \in Cpus |-> IF c = 1 THEN {f} ELSE IF c = 2 THEN {f, g} ELSE {}]

\* Every CPU loads and stores everything.
MCAll == [c \in Cpus |-> Atomic]
================================================================================
