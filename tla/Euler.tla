-------------------------------- MODULE Euler --------------------------------
(***************************************************************************)
(* The search programs: each fills the bit array with one of the sieves,   *)
(* then runs a loop over num that tests numbers with isprime (a look up   *)
(* below limit, Miller-Rabin above it) and adds to sum.                    *)
(*                                                                         *)
(*   35    circular primes                 37    truncatable primes        *)
(*   216   primes of the form 2n^2 - 1     381   factorials modulo primes  *)
(*   387   strong, right truncatable Harshad primes                        *)
(*   387b  the same, remembering in a ring (memo2) what it found           *)
(*   443   a recurrence on gcd, with a memo of one entry (gtabi, gtab)     *)
(*   92    chains of digit squares, remembering where 1 was reached (ones) *)
(*   jacobi  counts squares                                                *)
(*   146, 146y  n whose n^2 + 1, 3, 7, 9, 13, 27 are consecutive primes    *)
(*   27      the quadratic that gives the most primes in a row             *)
(*   primeyr the primes of a range                                         *)
(*                                                                         *)
(* The last four, with sieve.c and prime.c, which only sieve, use the byte *)
(* arrays of ByteSieve, or none (146y).  381.c and 146y.c sum over an omp  *)
(* parallel for, with a reduction or an atomic add: their iterations share *)
(* nothing else, and are taken in order here.                              *)
(***************************************************************************)
EXTENDS Sieve, ByteSieve, NumberTheory

CONSTANTS
    Upto,       \* Upto[p]: where the loop of program p stops
    Starts387b, \* values of llimit in 387b.c, the #if 0 branches included
    MemoN,      \* MEMO_N
    MaxA, MaxB  \* 999 and 1000 in 27.c

ASSUME MemoAssumption == MemoN \in Nat \ {0} /\ Limit > 17 /\ MaxA \in Nat /\ MaxB \in Nat

(* 27.c looks up nothing behind its array: every quadratic has a value     *)
(* that is no prime before it gets to the limit, and no other is tried.    *)
ASSUME RowAssumption ==
    /\ Upto["p27"] \in Nat /\ Upto["p27"] <= (2 * MaxA + 1) * (2 * MaxB + 1)
    /\ \A a \in -MaxA..MaxA, b \in -MaxB..MaxB :
          \E m \in Row : /\ ~IsPrime(poly(a, b, m))
                         /\ \A k \in 0..m : poly(a, b, k) < ByteLimit

ASSUME StartAssumption == Starts387b \subseteq Nat

VARIABLES
    prog,       \* the program
    num,        \* its loop variable
    sum,
    memo2, memo2_i,     \* 387b
    gtabi, gtab,        \* 443
    ones, t,            \* 92
    max_a, max_b        \* 27, whose max_in_a_row is sum

memos == <<memo2, memo2_i, gtabi, gtab, ones, t, max_a, max_b>>
searchVars == <<num, sum, memos>>
vars == <<sieveVars, byteVars, prog, searchVars>>

Sieving == [p35 |-> "wheel", p37 |-> "wheel", p381 |-> "wheel",
            p216 |-> "plain", p387 |-> "plain", p387b |-> "odd"]
ByteSieving == [p146 |-> "square", sieve |-> "root", prime |-> "list",
                primeyr |-> "list", p27 |-> "list"]
Others == {"test_prime", "p443", "p92", "jacobi", "p146y"}
Programs == DOMAIN Sieving \cup DOMAIN ByteSieving \cup Others
OnlySieve == {"test_prime", "sieve", "prime"}

FirstN(p) ==
    CASE p = "p35" -> {2}  [] p = "p37" -> {11}  [] p = "p216" -> {1}
      [] p = "p381" -> {5} [] p = "p387" -> {11} [] p = "p387b" -> Starts387b
      [] p = "p443" -> {4} [] p = "p92" -> {1}   [] p \in {"p146", "p146y"} -> {9}
      [] p = "primeyr" -> {ByteLimit - 124}      [] OTHER -> {0}
StepN(p) == IF p \in {"p381", "p387", "p387b"} THEN 2 ELSE 1

-----------------------------------------------------------------------------
(* isprime of 35.c, 37.c, 381.c, 387.c and 216.c.                          *)
smallPrimes == {3, 5, 7, 11, 13, 17}
isprime(k) ==
    \/ k = 2
    \/ /\ k > 1 /\ k % 2 = 1
       /\ IF k < Limit THEN bit(invIdx, k)
          ELSE (\A p \in smallPrimes : k % p # 0) /\ AllBasesPass(k)

(* isprimefast and isprime of 387b.c.                                      *)
quickcheck == {2, 3, 5, 7, 11}
isprimefast(k) ==
    /\ k \notin {0, 1}
    /\ \/ k \in quickcheck
       \/ (\A q \in quickcheck : k % q # 0) /\ (k < Limit => bit(invIdx, k))
isprime387b(k) == isprimefast(k) /\ AllBasesPass(k)

(* The loop of 35.c: rotate until the number is back or is not prime.      *)
RotatesBack(orig) ==
    LET back[tmp \in Nat] == LET r == rotate(tmp) IN isprime(r) /\ (r = orig \/ back[r])
    IN  back[orig]

(* The two loops of 37.c, each shortening the number to a single digit.    *)
PrimeCutRight[tmp \in Nat] ==
    LET c == tmp \div 10 IN isprime(c) /\ (c < 10 \/ PrimeCutRight[c])
PrimeCutLeft[tmp \in Nat] ==
    LET c == BehindFirst(tmp) IN isprime(c) /\ (c < 10 \/ PrimeCutLeft[c])

Search35 == sum' = sum + (IF isprime(num) /\ RotatesBack(num) THEN 1 ELSE 0)
Search37 ==
    sum' = sum + (IF isprime(num) /\ PrimeCutRight[num] /\ PrimeCutLeft[num] THEN num ELSE 0)
Search216 == sum' = sum + (IF isprime(t216(num)) THEN 1 ELSE 0)
Search381 == sum' = sum + (IF isprime(num) THEN t381(num) ELSE 0)
Search387 ==
    LET trunc == num \div 10
    IN  sum' = sum + (IF /\ isprime(num)
                         /\ isprime(trunc \div sum_digs[trunc])
                         /\ HarshadDown[trunc]
                      THEN num ELSE 0)

(* is_right_truncatable of 387b.c: what is in the ring is known, what the  *)
(* loop finds is put into it.  The ring starts out zeroed.                 *)
mfind2(k) == \E s \in DOMAIN memo2 : memo2[s] = k
Slot(k) == k % MemoN
is_right_truncatable(k) == mfind2(k) \/ HarshadDown[k]
madd2(k) ==
    /\ memo2' = [memo2 EXCEPT ![Slot(memo2_i)] = k]
    /\ memo2_i' = Slot(memo2_i + 1)     \* only its low bits are ever used

Search387b ==
    LET trunc == num \div 10
        candidate == isprimefast(num) /\ is_harshad(trunc)
    IN  /\ sum' = sum + (IF /\ candidate
                            /\ is_right_truncatable(trunc)
                            /\ isprime387b(num)
                            /\ isprime387b(trunc \div sum_digs[trunc])
                         THEN num ELSE 0)
        /\ IF candidate /\ ~mfind2(trunc) /\ HarshadDown[trunc]
           THEN madd2(trunc)
           ELSE UNCHANGED <<memo2, memo2_i>>

(* gfast of 443.c: its value, gdown where k is not the number remembered.  *)
(* The second call with k - 1 finds what the first one has left.           *)
gdown[k \in Nat \ 0..4] ==
    LET v == IF k = 5 THEN 13 ELSE IF gtabi = k - 1 THEN gtab ELSE gdown[k - 1]
    IN  v + gcdfast[<<k, v>>]
gfast(k) == IF k = 4 THEN 13 ELSE IF gtabi = k THEN gtab ELSE gdown[k]
(* gfast(num) itself, called for 4, 5, 6, ...                              *)
Search443 ==
    IF num = 4 \/ gtabi = num THEN UNCHANGED <<gtabi, gtab>>
    ELSE /\ gtab' = gfast(num - 1) + gcdfast[<<num, gfast(num - 1)>>]
         /\ gtabi' = num

(* The inner loop of 92.cc follows the chain of num, at t now, to a number  *)
(* that is known to reach 1, or has 1 or 89 next.                          *)
Follow92 ==
    /\ t \notin ones /\ sum_digs_sq[t] \notin {1, 89}
    /\ t' = sum_digs_sq[t]
Search92 ==
    /\ t \in ones \/ sum_digs_sq[t] \in {1, 89}
    /\ sum' = sum + (IF t \notin ones /\ sum_digs_sq[t] = 89 THEN 1 ELSE 0)
    /\ ones' = IF t \notin ones /\ sum_digs_sq[t] = 1 THEN ones \cup {t} ELSE ones
    /\ t' = num + 1

SearchJacobi == sum' = sum + (IF issquare(num) THEN 1 ELSE 0)

(* isprime of 146.c, whose trial division asks isprime for each i in turn: *)
(* for the numbers it is called with, i stays below invIdxLimit.           *)
smallFactors == {2, 3, 5, 7, 11, 13, 17}
isprime146(k) ==
    IF k < ByteLimit THEN k \in bytes
    ELSE /\ \A p \in smallFactors : k % p # 0
         /\ modexp(2, k - 1, k) = 1
         /\ \A d \in bytes : d * d <= k => k % d # 0
(* isprime of 146y.c: Fermat's test, to four bases.                        *)
isprime146y(k) ==
    /\ k % 2 # 0 /\ k % 3 # 0 /\ k > 1
    /\ \/ k \in smallFactors
       \/ /\ \A p \in smallFactors : k % p # 0
          /\ \A b \in {2, 3, 5, 13} : modexp(b, k - 1, k) = 1

(* check: the loop over i = 1, 3, ..., 27.                                 *)
offsets == {1, 3, 7, 9, 13, 27}
OddUpTo27 == {m \in 1..27 : m % 2 = 1}
check146 == \A m \in OddUpTo27 : isprime146(num * num + m) <=> m \in offsets
check146y == \A m \in OddUpTo27 : isprime146y(num * num + m) <=> m \in offsets
Search146 == sum' = sum + (IF check146 THEN num ELSE 0)
Search146y == sum' = sum + (IF check146y THEN num ELSE 0)

(* 27.c: the loops over a and b as one, and primes_in_a_row.  Entries that *)
(* were struck out have set byte 0, so the test for l < 1 matters.         *)
isprime27OfZero(l) == l \in bytes     \* a variant without the test
isprime27(l) == l >= 1 /\ l \in bytes
a27 == (num \div (2 * MaxB + 1)) - MaxA
b27 == (num % (2 * MaxB + 1)) - MaxB
primes_in_a_row ==
    CHOOSE m \in Row : /\ ~isprime27(poly(a27, b27, m))
                       /\ \A k \in 0..(m - 1) : isprime27(poly(a27, b27, k))
Search27 ==
    IF primes_in_a_row > sum
    THEN sum' = primes_in_a_row /\ max_a' = a27 /\ max_b' = b27
    ELSE UNCHANGED <<sum, max_a, max_b>>

(* primeyr.c prints the primes; sum stands for what was printed.           *)
SearchPrimeyr == sum' = sum + (IF num \in bytes THEN num ELSE 0)

-----------------------------------------------------------------------------
SearchInit ==
    /\ prog \in Programs
    /\ num \in FirstN(prog)
    /\ sum = 0
    /\ memo2 = [s \in 0..(MemoN - 1) |-> 0]
    /\ memo2_i = 0
    /\ gtabi = 0 /\ gtab = 0
    /\ ones = {} /\ t = 1
    /\ max_a = 0 /\ max_b = 0

EulerInit ==
    /\ Init /\ ByteInit
    /\ SearchInit
    /\ prog \in DOMAIN Sieving => variant = Sieving[prog]
    /\ prog \notin DOMAIN Sieving \cup {"test_prime"} => variant = "plain"
    /\ kind = IF prog \in DOMAIN ByteSieving THEN ByteSieving[prog] ELSE "square"

(* The sieve runs first, in the programs that have one.  prime.c has done  *)
(* all it does once the list is struck out.                                *)
SieveStep ==
    \/ /\ prog \in DOMAIN Sieving \cup {"test_prime"}
       /\ Next
       /\ UNCHANGED <<byteVars, prog, searchVars>>
    \/ /\ prog \in DOMAIN ByteSieving /\ ~(prog = "prime" /\ bpc = "index")
       /\ ByteNext
       /\ UNCHANGED <<sieveVars, prog, searchVars>>

(* One iteration of the loop of main.                                      *)
Search ==
    /\ prog \notin OnlySieve
    /\ prog \in DOMAIN Sieving => pc \in {"done", "search"}
    /\ prog \in DOMAIN ByteSieving => bpc \in {"done", "search"}
    /\ num < Upto[prog]
    /\ num' = num + StepN(prog)
    /\ pc' = IF prog \in DOMAIN Sieving THEN "search" ELSE pc
    /\ bpc' = IF prog \in DOMAIN ByteSieving THEN "search" ELSE bpc
    /\ UNCHANGED <<variant, invIdx, i, gapIdx, kind, bytes, list, bi, prog>>
    /\ \/ prog = "p35" /\ Search35 /\ UNCHANGED memos
       \/ prog = "p37" /\ Search37 /\ UNCHANGED memos
       \/ prog = "p216" /\ Search216 /\ UNCHANGED memos
       \/ prog = "p381" /\ Search381 /\ UNCHANGED memos
       \/ prog = "p387" /\ Search387 /\ UNCHANGED memos
       \/ prog = "p387b" /\ Search387b /\ UNCHANGED <<gtabi, gtab, ones, t, max_a, max_b>>
       \/ prog = "p443" /\ Search443 /\ UNCHANGED <<sum, memo2, memo2_i, ones, t, max_a, max_b>>
       \/ prog = "p92" /\ Search92 /\ UNCHANGED <<memo2, memo2_i, gtabi, gtab, max_a, max_b>>
       \/ prog = "jacobi" /\ SearchJacobi /\ UNCHANGED memos
       \/ prog = "p146" /\ Search146 /\ UNCHANGED memos
       \/ prog = "p146y" /\ Search146y /\ UNCHANGED memos
       \/ prog = "p27" /\ Search27 /\ UNCHANGED <<memo2, memo2_i, gtabi, gtab, ones, t>>
       \/ prog = "primeyr" /\ SearchPrimeyr /\ UNCHANGED memos

(* A step along the chain of 92.cc.                                        *)
InnerLoop ==
    /\ prog = "p92" /\ num < Upto[prog] /\ Follow92
    /\ UNCHANGED <<sieveVars, byteVars, prog, num, sum, memo2, memo2_i, gtabi, gtab, ones,
                   max_a, max_b>>

EulerNext == SieveStep \/ Search \/ InnerLoop

EulerSpec == EulerInit /\ [][EulerNext]_vars

-----------------------------------------------------------------------------
(* Look up, trial division and Miller-Rabin together decide primality of   *)
(* every number the searches pass, on both sides of limit, strong          *)
(* pseudoprimes to single bases (2047 to base 2) included; so does the     *)
(* faster test of 387b.c, and the test of 146.c.  That of 146y.c, which is *)
(* to four bases only, does so in the range it is checked on.              *)
PrimeTestCorrect ==
    (prog = "p146y" \/ {pc, bpc} \cap {"done", "search"} # {}) /\ prog \notin {"sieve", "prime"} =>
        CASE prog = "p387b" -> isprime387b(num) <=> IsPrime(num)
          [] prog = "p146" -> \A m \in OddUpTo27 : isprime146(num * num + m) <=> IsPrime(num * num + m)
          [] prog = "p146y" -> \A m \in OddUpTo27 : isprime146y(num * num + m) <=> IsPrime(num * num + m)
          [] prog = "p27" -> isprime27(b27) <=> IsPrime(b27)
          [] prog = "primeyr" -> num \in bytes <=> IsPrime(num)
          [] OTHER -> isprime(num) <=> IsPrime(num)

(* What an iteration is to add to sum, from the problem it solves.         *)
Contribution(k) ==
    CASE prog = "p35" -> IF CircularPrime(k) THEN 1 ELSE 0
      [] prog = "p37" -> IF TruncatablePrime(k) THEN k ELSE 0
      [] prog = "p216" -> IF IsPrime(2 * k * k - 1) THEN 1 ELSE 0
      [] prog = "p381" -> IF IsPrime(k) THEN FactorialResidue(k) ELSE 0
      [] prog \in {"p387", "p387b"} -> IF StrongHarshadPrime(k) THEN k ELSE 0
      [] prog = "p92" -> IF Chain[sum_digs_sq[k]] = 89 THEN 1 ELSE 0
      [] prog = "jacobi" -> IF Square(k) THEN 1 ELSE 0
      [] prog \in {"p146", "p146y"} ->
           IF \A m \in 1..27 : IsPrime(k * k + m) <=> m \in offsets THEN k ELSE 0
      [] prog = "p27" -> IF PrimesInARow(a27, b27) > sum
                         THEN PrimesInARow(a27, b27) - sum ELSE 0
      [] prog = "primeyr" -> IF IsPrime(k) THEN k ELSE 0
      [] OTHER -> 0

(* Every iteration adds what its problem asks for: rotations and           *)
(* truncations taken by arithmetic agree with those of the digits, the     *)
(* order of the filters and the memos change nothing.                      *)
SearchCorrect == [][num' # num => sum' = sum + Contribution(num)]_vars

(* What is remembered is true: the ring holds right truncatable Harshad    *)
(* numbers only (or the 0 it started with), the one entry of 443.c is the  *)
(* value of the recurrence there, ones holds numbers that reach 1, and     *)
(* max_a and max_b are those that gave max_in_a_row.                       *)
MemosTrue ==
    /\ \A s \in DOMAIN memo2 : memo2[s] # 0 => RightTruncatableHarshad(memo2[s])
    /\ gtabi # 0 => gtab = g[gtabi]
    /\ \A k \in ones : Chain[k] = 1
    /\ prog = "p27" /\ sum > 0 => PrimesInARow(max_a, max_b) = sum
=============================================================================
