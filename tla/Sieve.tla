-------------------------------- MODULE Sieve --------------------------------
(***************************************************************************)
(* The sieves of Eratosthenes over a bit array of the odd numbers that the *)
(* prime searches share, each file with its own copy:                      *)
(*                                                                         *)
(*   "plain"  sieve of test_prime.c, 35.c, 37.c, 381.c, 387.c and 216.c    *)
(*   "odd"    sieve of 387b.c, which leaves the even numbers out           *)
(*   "wheel"  sieve2 of test_prime.c, 35.c, 37.c and 381.c, which sweeps   *)
(*            3 and 5 first and then tries the numbers prime to 30 only    *)
(*                                                                         *)
(* main of test_prime.c asserts that the first and the last leave the same *)
(* bytes.  The array holds bits(limit) = limit/2/8 bytes, bit k of it      *)
(* standing for 2k + 1: it covers the odd numbers below limit exactly when *)
(* 16 divides limit, which is so for every limit written in the sources.   *)
(***************************************************************************)
EXTENDS Integers, Sequences

CONSTANT Limit          \* limit, and invIdxLimit of the callers

ASSUME LimitAssumption == Limit \in Nat \ {0} /\ Limit % 16 = 0

VARIABLES
    variant,    \* which of the three functions runs
    invIdx,     \* the odd numbers whose bit is set
    i,          \* the number tried
    gapIdx,     \* the position on the wheel (sieve2 only)
    pc          \* "memset", "loop", "done", or "search": the caller goes on

sieveVars == <<variant, invIdx, i, gapIdx, pc>>

Variants == {"plain", "odd", "wheel"}

(* What the three loops differ in: where i starts, what is added to it and *)
(* how far apart the multiples of i are that are swept.                    *)
FirstTried(v) == CASE v = "plain" -> 2 [] v = "odd" -> 3 [] v = "wheel" -> 7
gapsSwapped == <<4, 2, 4, 2, 6, 4, 2, 6>>      \* a wheel that skips 23
gaps == <<4, 2, 4, 2, 4, 6, 2, 6>>
Gap(v, g) == CASE v = "plain" -> 1 [] v = "odd" -> 2 [] v = "wheel" -> gaps[g + 1]
NextGap(v, g) == IF v = "wheel" THEN (g + 1) % 8 ELSE g
Stride(v, n) == IF v = "plain" THEN n ELSE 2 * n

(* The numbers whose bit the array holds.                                  *)
Odds == {m \in 1..(Limit - 1) : m % 2 = 1}

(* for (j = from; j < limit; j += step) setbit(invIdx, j, 0): setbit and   *)
(* bit pass over even numbers.                                             *)
Sweep(S, from, step) == S \ {from + k * step : k \in 0..Limit}
bit(S, n) == n \in S

(* memset(invIdx, 0xff, ...), and the sweep of 3 and 5 in sieve2, each set *)
(* again afterwards.                                                       *)
Swept3 == Sweep(Odds, 3, 6) \cup {3}
Swept5 == Sweep(Swept3, 5, 10) \cup {5}
FirstBits(v) == IF v = "wheel" THEN Swept5 ELSE Odds

Init ==
    /\ variant \in Variants
    /\ invIdx = {}                  \* calloc
    /\ i = FirstTried(variant)
    /\ gapIdx = 0
    /\ pc = "memset"

Memset ==
    /\ pc = "memset"
    /\ invIdx' = FirstBits(variant)
    /\ pc' = "loop"
    /\ UNCHANGED <<variant, i, gapIdx>>

Try ==
    /\ pc = "loop"
    /\ i * i < Limit
    /\ invIdx' = IF bit(invIdx, i)
                 THEN Sweep(invIdx, i * i, Stride(variant, i))
                 ELSE invIdx
    /\ i' = i + Gap(variant, gapIdx)
    /\ gapIdx' = NextGap(variant, gapIdx)
    /\ UNCHANGED <<variant, pc>>

Finished ==
    /\ pc = "loop"
    /\ i * i >= Limit
    /\ pc' = "done"
    /\ UNCHANGED <<variant, invIdx, i, gapIdx>>

Next == Memset \/ Try \/ Finished

Spec == Init /\ [][Next]_sieveVars

-----------------------------------------------------------------------------
(* The type of the variables.                                              *)
SieveTypeOK ==
    /\ variant \in Variants
    /\ invIdx \subseteq Odds
    /\ i \in Nat /\ i >= 2
    /\ gapIdx \in 0..7
    /\ pc \in {"memset", "loop", "done", "search"}

Composite(m) == \E a \in 2..(m - 1) : m % a = 0

(* A bit is never cleared for a prime, however the sweeps overlap.         *)
NoPrimeCleared == pc # "memset" => \A m \in Odds \ invIdx : Composite(m)

(* When the loop ends at i*i >= limit the bits left are those of the odd   *)
(* primes and of 1, so that every variant leaves the same bytes: the       *)
(* memcmp that main of test_prime.c asserts.                               *)
SieveCorrect ==
    pc = "done" => \A m \in Odds : bit(invIdx, m) <=> ~Composite(m)
=============================================================================
