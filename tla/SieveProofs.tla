----------------------------- MODULE SieveProofs -----------------------------
(***************************************************************************)
(* Every variant of the sieve over bits leaves exactly the odd primes and  *)
(* 1, for every limit that 16 divides, the three older sieves leave        *)
(* exactly the primes, and the searches that use them read right tables    *)
(* and remember nothing that is not so.                                    *)
(*                                                                         *)
(* The invariant that carries the proofs is Covered: no product a * b with *)
(* 2 <= a <= b and a already passed by the loop has its bit set.  A number *)
(* i whose bit is found cleared needs no sweep of its own, as i = c * d    *)
(* with c <= d (NoPrimeCleared) makes i * b the product of c, which is     *)
(* already passed, and d * b; no induction over the numbers is needed.     *)
(* The numbers that sieve2 never tries are multiples of 2, 3 or 5, by      *)
(* OnWheel.                                                                *)
(*                                                                         *)
(* The older sieves follow.  Two of them work on bytes as the others do on *)
(* bits.  The list of candidates needs the formula of its entries (Cand):  *)
(* by it every odd number that 3 does not divide has a place in the list,  *)
(* and a product lies past the square of the index of its smaller factor,  *)
(* which is where that factor starts to strike.                            *)
(*                                                                         *)
(* The functions of NumberTheory recur.  That there is a function that     *)
(* obeys its recursion (RecursionExists), and what it computes (ByMeasure) *)
(* follow from the least element of a set of numbers, with the functions   *)
(* given as values: no operator has to be passed to a theorem.  So the     *)
(* digits of a number have its value, gcdfast is the gcd, the loop of      *)
(* is_right_truncatable accepts what its name says, the loops of 37.c and  *)
(* 35.c go through the truncations and rotations of the digits, and no     *)
(* filter of issquare stops a square; EulerInv joins these to the tables   *)
(* and memos of the search programs, and CountsAreTrue to what they count. *)
(***************************************************************************)
EXTENDS Euler, SequenceTheorems, WellFoundedInduction, TLAPS

(* The products the loop has dealt with.                                   *)
Covered ==
    pc # "memset" =>
        \A a, b \in Nat : 2 <= a /\ a < i /\ a <= b /\ a * b \in Odds
                              => a * b \notin invIdx

residues == <<7, 11, 13, 17, 19, 23, 29, 1>>

(* Where the wheel stands, and what sieve2 sweeps before its loop.         *)
OnWheel ==
    /\ variant = "plain" => gapIdx = 0
    /\ variant = "odd" => i % 2 = 1 /\ i >= 3
    /\ variant = "wheel" =>
         /\ i >= 7
         /\ i % 30 = residues[gapIdx + 1]
         /\ pc # "memset" =>
              \A c \in Nat : c >= 2 => 3 * c \notin invIdx /\ 5 * c \notin invIdx

(* Where the loop starts and ends.                                         *)
Bounds ==
    /\ pc = "memset" => i = FirstTried(variant) /\ gapIdx = 0
    /\ pc = "done" => i * i >= Limit

IInv == SieveTypeOK /\ NoPrimeCleared /\ Covered /\ OnWheel /\ Bounds

-----------------------------------------------------------------------------
(* A product with an even factor is even, so both factors of an odd one    *)
(* are odd.                                                                *)
LEMMA EvenProduct ==
    ASSUME NEW x \in Nat, NEW y \in Nat, x % 2 # 1
    PROVE  \E d \in Nat : x * y = 2 * d
<1>1. PICK c \in Nat : x = 2 * c
  <2>1. x \div 2 \in Nat /\ x = 2 * (x \div 2)
    OBVIOUS
  <2> QED BY <2>1
<1>2. c * y \in Nat /\ x * y = 2 * (c * y)
  BY <1>1
<1> QED BY <1>2

LEMMA OddFactors ==
    ASSUME NEW a \in Nat, NEW b \in Nat, (a * b) % 2 = 1
    PROVE  a % 2 = 1 /\ b % 2 = 1
<1>1. ASSUME NEW d \in Nat PROVE (2 * d) % 2 = 0
  OBVIOUS
<1>2. CASE a % 2 # 1
  <2>1. PICK d \in Nat : a * b = 2 * d
    BY <1>2, EvenProduct
  <2>2. (a * b) % 2 = 0
    BY <1>1, <2>1
  <2> QED BY <2>2
<1>3. CASE b % 2 # 1
  <2>1. PICK d \in Nat : b * a = 2 * d
    BY <1>3, EvenProduct
  <2>2. a * b = 2 * d
    BY <2>1
  <2>3. (a * b) % 2 = 0
    BY <1>1, <2>2
  <2> QED BY <2>3
<1> QED BY <1>2, <1>3

(* The sweep of a number i, from i * i on, reaches the odd product of i    *)
(* and any b from i on.                                                    *)
LEMMA SweepReaches ==
    ASSUME NEW v \in Variants, NEW n \in Nat, n >= 2, NEW b \in Nat, n <= b,
           n * b \in Odds
    PROVE  \E k \in 0..Limit : n * b = n * n + k * Stride(v, n)
<1>1. b < Limit /\ b - n \in 0..Limit
  <2>1. n * b < Limit /\ n * b \in Nat
    BY LimitAssumption DEF Odds
  <2>2. b <= n * b
    OBVIOUS
  <2> QED BY <2>1, <2>2, LimitAssumption
<1>2. CASE v = "plain"
  <2>1. n * b = n * n + (b - n) * n
    BY <1>1
  <2> QED BY <1>1, <1>2, <2>1 DEF Stride
<1>3. CASE v # "plain"
  <2>1. n % 2 = 1 /\ b % 2 = 1
    BY OddFactors DEF Odds
  <2>2. PICK k \in Nat : b = n + 2 * k
    <3>1. (b - n) \div 2 \in Nat /\ b = n + 2 * ((b - n) \div 2)
      BY <2>1
    <3> QED BY <3>1
  <2>3. n * b = n * n + k * (2 * n)
    BY <2>2
  <2>4. k \in 0..Limit
    BY <1>1, <2>2, LimitAssumption
  <2> QED BY <1>3, <2>3, <2>4 DEF Stride
<1> QED BY <1>2, <1>3

(* A factor leaves no remainder.                                           *)
LEMMA Divides ==
    ASSUME NEW a \in Nat, NEW b \in Nat, a >= 1  PROVE (a * b) % a = 0
OBVIOUS

(* What the sweep of a number clears is composite.                         *)
LEMMA SweptIsComposite ==
    ASSUME NEW v \in Variants, NEW n \in Nat, n >= 2, NEW k \in 0..Limit
    PROVE  Composite(n * n + k * Stride(v, n))
<1>1. PICK c \in Nat : n * n + k * Stride(v, n) = n * (n + c)
  <2>1. CASE v = "plain"
    <3>1. n * n + k * n = n * (n + k)
      OBVIOUS
    <3> QED BY <2>1, <3>1 DEF Stride
  <2>2. CASE v # "plain"
    <3>1. n * n + k * (2 * n) = n * (n + 2 * k) /\ 2 * k \in Nat
      OBVIOUS
    <3> QED BY <2>2, <3>1 DEF Stride
  <2> QED BY <2>1, <2>2
<1>2. n < n * (n + c) /\ n + c < n * (n + c)
  <2>1. n + c >= 2 /\ n + c \in Nat
    BY <1>1
  <2>2. ASSUME NEW x \in Nat, NEW y \in Nat, x >= 2, y >= 2
        PROVE  x < x * y /\ y < x * y
    BY <2>2
  <2> QED BY <2>1, <2>2
<1>3. n * (n + c) \in Nat /\ n \in 2..(n * (n + c) - 1) /\ n + c \in 2..(n * (n + c) - 1)
  BY <1>1, <1>2
<1> QED BY <1>1, <1>3, Divides DEF Composite

(* A composite number is a product of two numbers from 2 on, taken in      *)
(* order, the smaller one below it.                                        *)
LEMMA CompositeInOrder ==
    ASSUME NEW m \in Nat, Composite(m)
    PROVE  \E c, d \in Nat : 2 <= c /\ c <= d /\ c < m /\ m = c * d
<1>1. PICK a \in 2..(m - 1), b \in Nat : m = a * b /\ b >= 2
  <2>1. PICK a \in 2..(m - 1) : m % a = 0
    BY DEF Composite
  <2>2. m \div a \in Nat /\ m = a * (m \div a)
    BY <2>1
  <2>3. PICK b \in Nat : m = a * b
    BY <2>2
  <2>4. b # 0 /\ b # 1
    BY <2>1, <2>3
  <2> QED BY <2>3, <2>4
<1>2. CASE a <= b
  BY <1>1, <1>2
<1>3. CASE b < a
  <2>1. m = b * a
    BY <1>1
  <2> QED BY <1>1, <1>3, <2>1
<1> QED BY <1>1, <1>2, <1>3

-----------------------------------------------------------------------------
(* Where the wheel goes: its position follows from i % 30, and what it     *)
(* passes over is a multiple of 2, 3 or 5.                                 *)
LEMMA WheelTurns ==
    ASSUME NEW n \in Nat, NEW w \in 0..7, n % 30 = residues[w + 1]
    PROVE  /\ gaps[w + 1] \in {2, 4, 6}
           /\ (n + gaps[w + 1]) % 30 = residues[((w + 1) % 8) + 1]
           /\ n % 2 = 1
           /\ \A a \in Nat : n < a /\ a < n + gaps[w + 1]
                             => a % 2 = 0 \/ a % 3 = 0 \/ a % 5 = 0
<1>1. CASE w = 0
  BY <1>1 DEF residues, gaps
<1>2. CASE w = 1
  BY <1>2 DEF residues, gaps
<1>3. CASE w = 2
  BY <1>3 DEF residues, gaps
<1>4. CASE w = 3
  BY <1>4 DEF residues, gaps
<1>5. CASE w = 4
  BY <1>5 DEF residues, gaps
<1>6. CASE w = 5
  BY <1>6 DEF residues, gaps
<1>7. CASE w = 6
  BY <1>7 DEF residues, gaps
<1>8. CASE w = 7
  BY <1>8 DEF residues, gaps
<1> QED BY <1>1, <1>2, <1>3, <1>4, <1>5, <1>6, <1>7, <1>8

(* sieve2 clears the multiples of 3 and of 5 but for 3 and 5, and nothing  *)
(* that is not composite.                                                  *)
LEMMA WheelStart ==
    /\ \A c \in Nat : c >= 2 => 3 * c \notin Swept5 /\ 5 * c \notin Swept5
    /\ \A m \in Odds \ Swept5 : Composite(m)
<1>1. ASSUME NEW m \in Odds, NEW p \in {3, 5}, NEW c \in Nat, c >= 2, m = p * c
      PROVE  (\E k \in 0..Limit : m = p + k * (2 * p)) /\ m # 3 /\ m # 5
  <2>1. c % 2 = 1
    BY <1>1, OddFactors DEF Odds
  <2>2. PICK k \in Nat : c = 1 + 2 * k
    <3>1. (c - 1) \div 2 \in Nat /\ c = 1 + 2 * ((c - 1) \div 2)
      BY <1>1, <2>1
    <3> QED BY <3>1
  <2>3. m = p + k * (2 * p) /\ k <= m
    BY <1>1, <2>2
  <2>4. m < Limit /\ m \in Nat
    BY LimitAssumption DEF Odds
  <2>5. k \in 0..Limit
    BY <2>3, <2>4, LimitAssumption
  <2>6. c >= 3
    BY <1>1, <2>1
  <2>7. m # 3 /\ m # 5
    BY <1>1, <2>6
  <2> QED BY <2>3, <2>5, <2>7
<1>2. ASSUME NEW p \in {3, 5}, NEW k \in 0..Limit, NEW m \in Odds, m = p + k * (2 * p), m # p
      PROVE  Composite(m)
  <2>1. m = p * (1 + 2 * k) /\ k >= 1
    BY <1>2
  <2>2. p \in 2..(m - 1) /\ m % p = 0
    BY <1>2, <2>1
  <2> QED BY <2>2 DEF Composite
<1>3. Swept3 = (Odds \ {3 + k * 6 : k \in 0..Limit}) \cup {3}
  BY DEF Swept3, Sweep
<1>4. Swept5 = (Swept3 \ {5 + k * 10 : k \in 0..Limit}) \cup {5}
  BY DEF Swept5, Sweep
<1>5. 3 \in Odds /\ 5 \in Odds
  BY LimitAssumption DEF Odds
<1>6. ASSUME NEW m \in Odds, NEW p \in {3, 5}, NEW c \in Nat, c >= 2, m = p * c
      PROVE  m \notin Swept5
  <2>1. PICK k \in 0..Limit : m = p + k * (2 * p)
    BY <1>1, <1>6
  <2>2. m # 3 /\ m # 5
    BY <1>1, <1>6
  <2>3. CASE p = 3
    BY <1>3, <1>4, <2>1, <2>2, <2>3
  <2>4. CASE p = 5
    BY <1>4, <2>1, <2>2, <2>4
  <2> QED BY <2>3, <2>4
<1>7. ASSUME NEW m \in Odds, m \notin Swept5  PROVE Composite(m)
  <2>1. m # 3 /\ m # 5
    BY <1>3, <1>4, <1>7
  <2>2. (\E k \in 0..Limit : m = 3 + k * 6) \/ (\E k \in 0..Limit : m = 5 + k * 10)
    BY <1>3, <1>4, <1>7
  <2> QED BY <1>2, <2>1, <2>2
<1>8. Swept5 \subseteq Odds
  BY <1>3, <1>4, <1>5
<1> QED BY <1>6, <1>7, <1>8

-----------------------------------------------------------------------------
LEMMA InitInvariant == Init => IInv
BY DEF Init, IInv, SieveTypeOK, NoPrimeCleared, Covered, OnWheel, Bounds,
       FirstTried, Variants, residues

(* The numbers below the first one tried are dealt with by parity and, in  *)
(* sieve2, by the sweeps of 3 and 5.                                       *)
LEMMA MemsetInvariant ==
    ASSUME IInv, Memset  PROVE IInv'
<1>0. /\ variant \in Variants /\ i \in Nat /\ i >= 2 /\ gapIdx \in 0..7
      /\ pc = "memset" /\ pc' = "loop"
      /\ variant' = variant /\ i' = i /\ gapIdx' = gapIdx
      /\ invIdx' = FirstBits(variant)
      /\ i = FirstTried(variant)
      /\ OnWheel
  BY DEF IInv, Memset, SieveTypeOK, Bounds
<1>1. SieveTypeOK'
  <2>1. {3, 5} \subseteq Odds
    BY LimitAssumption DEF Odds
  <2>2. invIdx' \subseteq Odds
    BY <1>0, <2>1 DEF FirstBits, Swept5, Swept3, Sweep
  <2> QED BY <1>0, <2>2 DEF SieveTypeOK
<1>2. NoPrimeCleared'
  BY <1>0, WheelStart DEF NoPrimeCleared, FirstBits
<1>3. Covered'
  <2> SUFFICES ASSUME NEW a \in Nat, NEW b \in Nat, 2 <= a, a < i, a <= b, a * b \in Odds
               PROVE  a * b \notin invIdx'
    BY <1>0 DEF Covered
  <2>1. a % 2 = 1
    BY OddFactors DEF Odds
  <2>2. a >= 3 /\ variant = "wheel" /\ (a = 3 \/ a = 5)
    BY <1>0, <2>1 DEF FirstTried, Variants
  <2> QED BY <1>0, <2>2, WheelStart DEF FirstBits
<1>4. OnWheel'
  BY <1>0, WheelStart DEF OnWheel, FirstBits
<1>5. Bounds'
  BY <1>0 DEF Bounds
<1> QED BY <1>1, <1>2, <1>3, <1>4, <1>5 DEF IInv

LEMMA FinishedInvariant ==
    ASSUME IInv, Finished  PROVE IInv'
BY DEF IInv, Finished, SieveTypeOK, NoPrimeCleared, Covered, OnWheel, Bounds

(* What the loop passes over: nothing, the even numbers, or the multiples  *)
(* of 2, 3 and 5.                                                          *)
LEMMA PassedOver ==
    ASSUME IInv, NEW a \in Nat, i < a, a < i + Gap(variant, gapIdx)
    PROVE  \/ a % 2 = 0
           \/ variant = "wheel" /\ (a % 3 = 0 \/ a % 5 = 0)
<1>0. variant \in Variants /\ i \in Nat /\ gapIdx \in 0..7 /\ OnWheel
  BY DEF IInv, SieveTypeOK
<1>1. CASE variant = "plain"
  BY <1>0, <1>1 DEF Gap
<1>2. CASE variant = "odd"
  <2>1. Gap(variant, gapIdx) = 2 /\ i % 2 = 1
    BY <1>0, <1>2 DEF Gap, OnWheel
  <2>2. a = i + 1
    BY <1>0, <2>1
  <2> QED BY <1>0, <2>1, <2>2
<1>3. CASE variant = "wheel"
  <2>1. Gap(variant, gapIdx) = gaps[gapIdx + 1] /\ i % 30 = residues[gapIdx + 1]
    BY <1>0, <1>3 DEF Gap, OnWheel
  <2> QED BY <1>0, <1>3, <2>1, WheelTurns
<1> QED BY <1>0, <1>1, <1>2, <1>3 DEF Variants

(* The step of the loop.                                                   *)
LEMMA TryInvariant ==
    ASSUME IInv, Try  PROVE IInv'
<1>0. /\ variant \in Variants /\ i \in Nat /\ i >= 2 /\ gapIdx \in 0..7
      /\ invIdx \subseteq Odds
      /\ pc = "loop" /\ pc' = pc /\ variant' = variant
      /\ i' = i + Gap(variant, gapIdx) /\ gapIdx' = NextGap(variant, gapIdx)
  BY DEF IInv, Try, SieveTypeOK
<1>1. invIdx' \subseteq invIdx
  BY DEF Try, Sweep
<1>2. Gap(variant, gapIdx) \in 1..6 /\ i' \in Nat /\ i' > i /\ gapIdx' \in 0..7
  <2>1. CASE variant = "wheel"
    BY <1>0, <2>1, WheelTurns DEF IInv, OnWheel, Gap, NextGap
  <2>2. CASE variant # "wheel"
    BY <1>0, <2>2 DEF Gap, NextGap, Variants
  <2> QED BY <1>0, <2>1, <2>2
<1>3. SieveTypeOK'
  BY <1>0, <1>1, <1>2 DEF SieveTypeOK
<1>4. NoPrimeCleared'
  <2> SUFFICES ASSUME NEW m \in Odds, m \notin invIdx'  PROVE Composite(m)
    BY <1>0 DEF NoPrimeCleared
  <2>1. CASE m \notin invIdx
    BY <1>0, <2>1 DEF IInv, NoPrimeCleared
  <2>2. CASE m \in invIdx
    <3>1. PICK k \in 0..Limit : m = i * i + k * Stride(variant, i)
      BY <2>2 DEF Try, Sweep
    <3> QED BY <1>0, <3>1, SweptIsComposite
  <2> QED BY <2>1, <2>2
<1>5. Covered'
  <2> SUFFICES ASSUME NEW a \in Nat, NEW b \in Nat, 2 <= a, a < i', a <= b, a * b \in Odds
               PROVE  a * b \notin invIdx'
    BY <1>0 DEF Covered
  <2>1. CASE a < i
    BY <1>0, <1>1, <2>1 DEF IInv, Covered
  <2>2. CASE a = i /\ i \in invIdx
    <3>1. \E k \in 0..Limit : a * b = i * i + k * Stride(variant, i)
      BY <1>0, <2>2, SweepReaches
    <3>2. invIdx' = invIdx \ {i * i + k * Stride(variant, i) : k \in 0..Limit}
      BY <2>2 DEF Try, Sweep, bit
    <3> QED BY <3>1, <3>2
  <2>3. CASE a = i /\ i \notin invIdx
    <3>1. a % 2 = 1
      BY OddFactors DEF Odds
    <3>2. a < Limit
      <4>1. a * b < Limit /\ a <= a * b
        BY <1>0, <2>3, LimitAssumption DEF Odds
      <4> QED BY <4>1, LimitAssumption
    <3>3. i \in Odds
      BY <1>0, <2>3, <3>1, <3>2, LimitAssumption DEF Odds
    <3>4. Composite(i)
      BY <1>0, <2>3, <3>3 DEF IInv, NoPrimeCleared
    <3>5. PICK c \in Nat, d \in Nat : 2 <= c /\ c <= d /\ c < i /\ i = c * d
      BY <1>0, <3>4, CompositeInOrder
    <3>6. a * b = c * (d * b) /\ d * b \in Nat /\ c <= d * b
      <4>1. a * b = c * (d * b)
        BY <2>3, <3>5
      <4>2. d <= d * b
        BY <3>5
      <4> QED BY <3>5, <4>1, <4>2
    <3>7. a * b \notin invIdx
      BY <1>0, <3>5, <3>6 DEF IInv, Covered
    <3> QED BY <1>1, <3>7
  <2>4. CASE a > i
    <3>1. a % 2 = 1
      BY OddFactors DEF Odds
    <3>2. variant = "wheel" /\ (a % 3 = 0 \/ a % 5 = 0)
      BY <1>0, <2>4, <3>1, PassedOver
    <3>3. ASSUME NEW p \in {3, 5}, a % p = 0
          PROVE  \E c \in Nat : c >= 2 /\ a * b = p * c
      <4>1. a \div p \in Nat /\ a = p * (a \div p) /\ a \div p >= 1
        BY <3>3
      <4>2. PICK q \in Nat : q >= 1 /\ a = p * q
        BY <4>1
      <4>3. a * b = p * (q * b) /\ q * b \in Nat /\ q * b >= 2
        BY <4>2
      <4> QED BY <4>3
    <3>4. \A c \in Nat : c >= 2 => 3 * c \notin invIdx /\ 5 * c \notin invIdx
      BY <1>0, <3>2 DEF IInv, OnWheel
    <3>5. a * b \notin invIdx
      <4>1. CASE a % 3 = 0
        BY <3>3, <3>4, <4>1
      <4>2. CASE a % 5 = 0
        BY <3>3, <3>4, <4>2
      <4> QED BY <3>2, <4>1, <4>2
    <3> QED BY <1>1, <3>5
  <2> QED BY <1>0, <1>2, <2>1, <2>2, <2>3, <2>4
<1>6. OnWheel'
  <2>1. CASE variant = "plain"
    BY <1>0, <2>1 DEF OnWheel, NextGap, IInv
  <2>2. CASE variant = "odd"
    BY <1>0, <2>2 DEF OnWheel, Gap, IInv
  <2>3. CASE variant = "wheel"
    <3>1. i >= 7 /\ i % 30 = residues[gapIdx + 1]
      BY <2>3 DEF IInv, OnWheel
    <3>2. i' = i + gaps[gapIdx + 1] /\ gapIdx' = (gapIdx + 1) % 8
      BY <1>0, <2>3 DEF Gap, NextGap
    <3>3. i' % 30 = residues[gapIdx' + 1] /\ i' >= 7
      <4>1. (i + gaps[gapIdx + 1]) % 30 = residues[((gapIdx + 1) % 8) + 1]
        BY <1>0, <3>1, WheelTurns
      <4>2. i' >= 7
        BY <1>0, <1>2, <3>1
      <4> QED BY <3>2, <4>1, <4>2
    <3>4. \A c \in Nat : c >= 2 => 3 * c \notin invIdx' /\ 5 * c \notin invIdx'
      BY <1>0, <1>1, <2>3 DEF IInv, OnWheel
    <3> QED BY <1>0, <2>3, <3>3, <3>4 DEF OnWheel
  <2> QED BY <1>0, <2>1, <2>2, <2>3 DEF Variants
<1>7. Bounds'
  BY <1>0 DEF Bounds
<1> QED BY <1>3, <1>4, <1>5, <1>6, <1>7 DEF IInv

(* Every step of the three sieves keeps the invariant.                     *)
LEMMA SieveKeeps == IInv /\ [Next]_sieveVars => IInv'
<1> SUFFICES ASSUME IInv, [Next]_sieveVars  PROVE IInv'
  OBVIOUS
<1>1. CASE Memset
  BY <1>1, MemsetInvariant
<1>2. CASE Try
  BY <1>2, TryInvariant
<1>3. CASE Finished
  BY <1>3, FinishedInvariant
<1>4. CASE UNCHANGED sieveVars
  BY <1>4 DEF IInv, sieveVars, SieveTypeOK, NoPrimeCleared, Covered, OnWheel, Bounds
<1> QED BY <1>1, <1>2, <1>3, <1>4 DEF Next

(* The invariant holds in every behaviour of every variant.                *)
THEOREM SieveInvariance == Spec => []IInv
BY InitInvariant, SieveKeeps, PTL DEF Spec

(* When it ends the array holds exactly the odd primes and 1: a composite  *)
(* number a * b below limit, a <= b, has a * a < limit <= i * i.           *)
LEMMA EndsCorrect == IInv => SieveCorrect
<1> SUFFICES ASSUME IInv, pc = "done", NEW m \in Odds
             PROVE  m \in invIdx <=> ~Composite(m)
  BY DEF SieveCorrect, bit
<1>1. m \notin invIdx => Composite(m)
  BY DEF IInv, NoPrimeCleared
<1>2. ASSUME Composite(m)  PROVE m \notin invIdx
  <2>0. m \in Nat /\ m < Limit /\ Limit \in Nat /\ i \in Nat /\ i * i >= Limit
    BY LimitAssumption DEF IInv, SieveTypeOK, Bounds, Odds
  <2>1. PICK a \in Nat, b \in Nat : 2 <= a /\ a <= b /\ a < m /\ m = a * b
    BY <1>2, <2>0, CompositeInOrder
  <2>2. a * a <= a * b
    BY <2>1
  <2>3. ~(a >= i)
    <3>1. ASSUME a >= i  PROVE i * i <= a * a
      <4>1. i * i <= i * a /\ i * a <= a * a
        BY <2>0, <2>1, <3>1
      <4> QED BY <2>0, <2>1, <4>1
    <3> QED BY <2>0, <2>1, <2>2, <3>1
  <2>4. a < i /\ a * b \in Odds /\ pc # "memset"
    BY <2>0, <2>1, <2>3
  <2>5. a * b \notin invIdx
    BY <2>1, <2>4 DEF IInv, Covered
  <2> QED BY <2>1, <2>5
<1> QED BY <1>1, <1>2

(* A sieve that is done has left the primes and 1.                         *)
THEOREM SieveLeavesPrimes == Spec => []SieveCorrect
BY SieveInvariance, EndsCorrect, PTL

(* No sweep ever clears a prime.                                           *)
THEOREM SieveClearsComposites == Spec => []NoPrimeCleared
<1>1. IInv => NoPrimeCleared
  BY DEF IInv
<1> QED BY SieveInvariance, <1>1, PTL

-----------------------------------------------------------------------------
(* The older sieves.  First the square root that one of them ends at.      *)

(* Less than, as a relation between numbers.                              *)
Below == {p \in Nat \X Nat : p[1] < p[2]}

(* Every set of numbers that is not empty has a least one.                 *)
LEMMA LeastNumber ==
    ASSUME NEW T \in SUBSET Nat, T # {}
    PROVE  \E x \in T : \A y \in T : x <= y
<1>1. IsWellFoundedOn(Below, Nat)
  BY NatLessThanWellFounded, Zenon DEF OpToRel, Below
<1>2. PICK x \in T : \A y \in T : ~ (<<y, x>> \in Below)
  BY <1>1, WFMin, Zenon
<1>3. ASSUME NEW y \in T  PROVE x <= y
  <2>1. ~ (<<y, x>> \in Below) /\ x \in Nat /\ y \in Nat
    BY <1>2
  <2>2. ~ (y < x)
    BY <2>1 DEF Below
  <2> QED BY <2>1, <2>2
<1> QED BY <1>3

(* There is a whole square root: one less than the least number whose      *)
(* square is larger.                                                       *)
LEMMA RootIsRoot ==
    ASSUME NEW x \in Nat
    PROVE  /\ Root(x) \in Nat
           /\ Root(x) * Root(x) <= x
           /\ x < (Root(x) + 1) * (Root(x) + 1)
<1> DEFINE T == {n \in Nat : n * n > x}
<1>1. T \in SUBSET Nat /\ x + 1 \in T
  <2>1. (x + 1) * (x + 1) > x
    <3>1. (x + 1) * (x + 1) = x * x + 2 * x + 1
      OBVIOUS
    <3>2. x * x >= 0
      OBVIOUS
    <3> QED BY <3>1, <3>2
  <2> QED BY <2>1
<1>2. PICK n \in T : \A y \in T : n <= y
  BY <1>1, LeastNumber, Zenon
<1>3. n \in Nat /\ n * n > x /\ n # 0
  BY <1>2
<1> DEFINE r == n - 1
<1>4. r \in Nat /\ r + 1 = n
  BY <1>3
<1>5. r * r <= x
  <2>1. r \notin T
    BY <1>2, <1>4
  <2> QED BY <2>1, <1>4
<1>6. r \in 0..x
  <2>1. r = 0 \/ r <= r * r
    BY <1>4
  <2> QED BY <1>4, <1>5, <2>1
<1>7. r * r <= x /\ (r + 1) * (r + 1) > x
  BY <1>3, <1>4, <1>5
<1>8. \E q \in 0..x : q * q <= x /\ (q + 1) * (q + 1) > x
  BY <1>6, <1>7
<1>9. Root(x) \in 0..x /\ Root(x) * Root(x) <= x /\ (Root(x) + 1) * (Root(x) + 1) > x
  <2> HIDE DEF r
  <2> QED BY <1>8, Zenon DEF Root
<1> QED BY <1>9
-----------------------------------------------------------------------------
(* The candidates of the list: 2, 3, and the odd numbers that 3 does not   *)
(* divide, by their place in it.                                           *)
Cand(k) == IF k <= 2 THEN k + 1 ELSE (3 * k - 5) + (k % 2)

LEMMA CandRange ==
    ASSUME NEW k \in Nat, k >= 1
    PROVE  /\ Cand(k) \in Nat /\ Cand(k) >= 2
           /\ k >= 2 => Cand(k) >= 3 * k - 5 /\ Cand(k) <= 3 * k - 3
           /\ k >= 3 => Cand(k) <= 3 * k - 4 /\ Cand(k) % 2 = 1 /\ Cand(k) % 3 # 0
           /\ Cand(k) < Cand(k + 1)
<1>1. PICK q \in Nat : (k = 2 * q \/ k = 2 * q + 1)
  <2>1. k \div 2 \in Nat /\ (k = 2 * (k \div 2) \/ k = 2 * (k \div 2) + 1)
    OBVIOUS
  <2> QED BY <2>1
<1>2. CASE k <= 2
  BY <1>2 DEF Cand
<1>3. CASE k >= 3 /\ k = 2 * q
  <2>1. k % 2 = 0 /\ (k + 1) % 2 = 1
    BY <1>3
  <2>2. Cand(k) = 6 * q - 5 /\ Cand(k + 1) = 6 * q - 1
    BY <1>3, <2>1 DEF Cand
  <2>3. Cand(k) % 2 = 1 /\ Cand(k) % 3 # 0
    BY <1>3, <2>2
  <2> QED BY <1>3, <2>2, <2>3
<1>4. CASE k >= 3 /\ k = 2 * q + 1
  <2>1. k % 2 = 1 /\ (k + 1) % 2 = 0
    BY <1>4
  <2>2. Cand(k) = 6 * q - 1 /\ Cand(k + 1) = 6 * q + 1
    BY <1>4, <2>1 DEF Cand
  <2>3. Cand(k) % 2 = 1 /\ Cand(k) % 3 # 0
    BY <1>4, <2>2
  <2> QED BY <1>4, <2>2, <2>3
<1> QED BY <1>1, <1>2, <1>3, <1>4

(* Between two candidates, and at the second of them, there is no other    *)
(* odd number that 3 does not divide.                                      *)
LEMMA CandNext ==
    ASSUME NEW k \in Nat, k >= 2, NEW v \in Nat, v % 2 = 1, v % 3 # 0,
           Cand(k) < v, v <= Cand(k + 1)
    PROVE  v = Cand(k + 1)
<1>1. PICK q \in Nat : (k = 2 * q \/ k = 2 * q + 1)
  <2>1. k \div 2 \in Nat /\ (k = 2 * (k \div 2) \/ k = 2 * (k \div 2) + 1)
    OBVIOUS
  <2> QED BY <2>1
<1>2. CASE k = 2
  <2>1. Cand(2) = 3 /\ Cand(3) = 5
    BY DEF Cand
  <2> QED BY <1>2, <2>1
<1>3. CASE k >= 3 /\ k = 2 * q
  <2>1. k % 2 = 0 /\ (k + 1) % 2 = 1
    BY <1>3
  <2>2. Cand(k) = 6 * q - 5 /\ Cand(k + 1) = 6 * q - 1
    BY <1>3, <2>1 DEF Cand
  <2>3. v # 6 * q - 4 /\ v # 6 * q - 3 /\ v # 6 * q - 2
    BY <1>3
  <2> QED BY <1>3, <2>2, <2>3
<1>4. CASE k >= 3 /\ k = 2 * q + 1
  <2>1. k % 2 = 1 /\ (k + 1) % 2 = 0
    BY <1>4
  <2>2. Cand(k) = 6 * q - 1 /\ Cand(k + 1) = 6 * q + 1
    BY <1>4, <2>1 DEF Cand
  <2>3. v # 6 * q
    BY <1>4
  <2> QED BY <1>4, <2>2, <2>3
<1> QED BY <1>1, <1>2, <1>3, <1>4

(* A divisor from 2 on of a candidate from 5 on is a candidate too.        *)
LEMMA CandFactors ==
    ASSUME NEW k \in Nat, k >= 3, NEW a \in Nat, NEW b \in Nat, Cand(k) = a * b
    PROVE  a % 2 = 1 /\ a % 3 # 0 /\ b % 2 = 1 /\ b % 3 # 0
<1>1. (a * b) % 2 = 1 /\ (a * b) % 3 # 0
  BY CandRange
<1>2. ASSUME NEW x \in Nat, NEW y \in Nat, x % 3 = 0  PROVE (x * y) % 3 = 0
  <2>1. PICK c \in Nat : x = 3 * c
    <3>1. x \div 3 \in Nat /\ x = 3 * (x \div 3)
      BY <1>2
    <3> QED BY <3>1
  <2>2. x * y = 3 * (c * y) /\ c * y \in Nat
    BY <2>1
  <2>3. ASSUME NEW d \in Nat  PROVE (3 * d) % 3 = 0
    OBVIOUS
  <2> QED BY <2>2, <2>3
<1>3. a % 3 # 0
  BY <1>1, <1>2
<1>4. b % 3 # 0
  <2>1. b * a = a * b
    OBVIOUS
  <2> QED BY <1>1, <1>2, <2>1
<1> QED BY <1>1, <1>3, <1>4, OddFactors

(* A product of two numbers from 2 on is composite.                        *)
LEMMA ProductIsComposite ==
    ASSUME NEW a \in Nat, NEW b \in Nat, a >= 2, b >= 2
    PROVE  Composite(a * b)
<1>1. a < a * b /\ a * b \in Nat
  OBVIOUS
<1>2. a \in 2..(a * b - 1) /\ (a * b) % a = 0
  BY <1>1, Divides
<1> QED BY <1>2 DEF Composite

(* The index of a product is far enough: the candidate at index j, counted *)
(* from 0, is at least 3 * j - 2, and a square of it is at least 3 * j * j *)
(* indexes away.                                                           *)
LEMMA SquareIndex ==
    ASSUME NEW j \in Nat, j >= 1, NEW k \in Nat, k >= 3, NEW b \in Nat,
           Cand(j + 1) <= b, Cand(k) = Cand(j + 1) * b
    PROVE  j * j <= k - 1
<1> DEFINE a == Cand(j + 1)
<1>1. a \in Nat /\ a >= 3 * j - 2 /\ Cand(k) <= 3 * k - 4
  BY CandRange
<1>2. j # 1
  <2>1. SUFFICES ASSUME j = 1  PROVE FALSE
    OBVIOUS
  <2>2. a = 3
    BY <2>1 DEF Cand
  <2>3. a % 3 # 0
    BY <1>1, CandFactors
  <2> QED BY <2>2, <2>3
<1>3. a * a <= 3 * k - 4
  <2>1. a * a <= a * b
    BY <1>1
  <2> QED BY <1>1, <2>1
<1>4. (3 * j - 2) * (3 * j - 2) <= a * a
  <2>1. 3 * j - 2 \in Nat
    OBVIOUS
  <2>2. ASSUME NEW x \in Nat, NEW y \in Nat, x <= y  PROVE x * x <= y * y
    <3>1. x * x <= x * y /\ x * y <= y * y
      BY <2>2
    <3> QED BY <3>1
  <2> HIDE DEF a
  <2> QED BY <1>1, <2>1, <2>2
<1>5. (3 * j - 2) * (3 * j - 2) = 9 * (j * j) - 12 * j + 4
  OBVIOUS
<1>6. j * j >= 2 * j
  BY <1>2
<1> HIDE DEF a
<1> QED BY <1>1, <1>3, <1>4, <1>5, <1>6

-----------------------------------------------------------------------------
ByteTypeOK ==
    /\ kind \in Kinds
    /\ bytes \in SUBSET Nat
    /\ list \in Seq(Nat)
    /\ bi \in Nat /\ bi >= 1
    /\ bpc \in {"fill", "loop", "index", "done"}

(* The two sieves over an array of bytes: what is set, and the products    *)
(* that the loop has dealt with, as in the sieves over bits.               *)
FirstBytes == {2} \cup {m \in 3..(ByteLimit - 1) : m % 2 = 1}

BytesStruck ==
    kind # "list" =>
        /\ bpc # "index"
        /\ bi >= 2
        /\ bpc = "fill" => bi = 2
        /\ bpc # "fill" =>
             /\ bytes \subseteq FirstBytes
             /\ \A m \in FirstBytes \ bytes : Composite(m)
             /\ \A a, b \in Nat : 2 <= a /\ a < bi /\ a <= b /\ a * b < ByteLimit
                                      => a * b \notin bytes
        /\ bpc = "done" => ~Going

(* The list while it is filled, and then: what is struck out of it is      *)
(* composite, and the products of a candidate that the loop has passed are *)
(* struck out.                                                             *)
ListFilled ==
    kind = "list" /\ bpc = "fill" =>
        /\ Len(list) >= 2
        /\ \A k \in 1..Len(list) : list[k] = Cand(k)
        /\ bi % 2 = 1 /\ bi <= Cand(Len(list) + 1)
        /\ (bi = 3 /\ Len(list) = 2) \/ Cand(Len(list)) < bi

ListStruck ==
    kind = "list" /\ bpc # "fill" =>
        /\ Len(list) >= 2
        /\ ByteLimit <= Cand(Len(list) + 1)
        /\ \A k \in 1..Len(list) :
             /\ list[k] = Cand(k) \/ (list[k] = 0 /\ Composite(Cand(k)))
             /\ \A a, b \in Nat : 2 <= a /\ a < Cand(bi + 1) /\ a <= b /\ a * b = Cand(k)
                                      => list[k] = 0
        /\ bpc # "loop" => bi >= Len(list)
        /\ bpc = "done" => bytes = {list[k] : k \in 1..Len(list)}

ByteInv == ByteTypeOK /\ BytesStruck /\ ListFilled /\ ListStruck

LEMMA ByteInitInvariant == ByteInit => ByteInv
<1> SUFFICES ASSUME ByteInit  PROVE ByteInv
  OBVIOUS
<1>1. ByteTypeOK
  BY DEF ByteInit, ByteTypeOK, Kinds
<1>2. BytesStruck /\ ListStruck
  BY DEF ByteInit, BytesStruck, ListStruck
<1>3. ListFilled
  <2>1. Cand(1) = 2 /\ Cand(2) = 3 /\ Cand(3) = 5
    BY DEF Cand
  <2>2. SUFFICES ASSUME kind = "list"  PROVE ListFilled
    BY DEF ListFilled
  <2>3. list = <<2, 3>> /\ bi = 3
    BY <2>2 DEF ByteInit
  <2> QED BY <2>1, <2>3 DEF ListFilled
<1> QED BY <1>1, <1>2, <1>3 DEF ByteInv

LEMMA FillInvariant ==
    ASSUME ByteInv, Fill  PROVE ByteInv'
<1>0. /\ kind # "list" /\ bpc = "fill" /\ bpc' = "loop" /\ bi = 2
      /\ bytes' = FirstBytes
      /\ kind' = kind /\ list' = list /\ bi' = bi
  BY DEF ByteInv, BytesStruck, Fill, FirstBytes
<1>1. ByteTypeOK'
  <2>1. FirstBytes \in SUBSET Nat
    BY ByteLimitAssumption DEF FirstBytes
  <2> QED BY <1>0, <2>1 DEF ByteInv, ByteTypeOK
<1>2. BytesStruck'
  BY <1>0 DEF BytesStruck
<1>3. ListFilled' /\ ListStruck'
  BY <1>0 DEF ListFilled, ListStruck
<1> QED BY <1>1, <1>2, <1>3 DEF ByteInv

(* The next number is a candidate if 6 leaves 1 or 5 of it, and then it is *)
(* the next one.                                                           *)
LEMMA AddelInvariant ==
    ASSUME ByteInv, addel  PROVE ByteInv'
<1>0. /\ kind = "list" /\ bpc = "fill" /\ list \in Seq(Nat) /\ bi \in Nat
      /\ kind' = kind /\ bpc' = bpc /\ bytes' = bytes
      /\ bi' = bi + 2
      /\ Len(list) >= 2 /\ Len(list) \in Nat
      /\ \A k \in 1..Len(list) : list[k] = Cand(k)
      /\ bi % 2 = 1 /\ bi <= Cand(Len(list) + 1)
      /\ (bi = 3 /\ Len(list) = 2) \/ Cand(Len(list)) < bi
  BY DEF ByteInv, ByteTypeOK, ListFilled, addel
<1> DEFINE n == Len(list)
<1>1. /\ Cand(n) \in Nat /\ Cand(n + 1) \in Nat /\ Cand(n + 2) \in Nat
      /\ Cand(n + 1) < Cand(n + 2) /\ Cand(n + 1) % 2 = 1
      /\ Cand(n + 2) % 2 = 1 /\ Cand(n + 1) % 3 # 0
  <2>1. n \in Nat /\ n >= 2 /\ (n + 1) + 1 = n + 2
    BY <1>0
  <2> HIDE DEF n
  <2>2. n + 1 \in Nat /\ n + 2 \in Nat /\ n + 1 >= 3 /\ n + 2 >= 3
    BY <2>1
  <2>3. Cand(n) \in Nat
    BY <2>1, CandRange
  <2>4. /\ Cand(n + 1) \in Nat /\ Cand(n + 1) < Cand((n + 1) + 1)
        /\ Cand(n + 1) % 2 = 1 /\ Cand(n + 1) % 3 # 0
    BY <2>2, CandRange
  <2>5. Cand(n + 2) \in Nat /\ Cand(n + 2) % 2 = 1
    BY <2>2, CandRange
  <2> QED BY <2>1, <2>3, <2>4, <2>5
<1>o. ASSUME NEW x \in Nat, NEW y \in Nat, x % 2 = 1, y % 2 = 1, x < y
      PROVE  x + 2 <= y /\ (x + 2) % 2 = 1
  BY <1>o
<1>2. BytesStruck' /\ ListStruck'
  BY <1>0 DEF BytesStruck, ListStruck
<1> HIDE DEF n
<1>3. CASE bi % 6 \in {1, 5}
  <2>1. list' = Append(list, bi) /\ list' \in Seq(Nat) /\ Len(list') = n + 1
    BY <1>0, <1>3 DEF addel, n
  <2>2. bi = Cand(n + 1)
    <3>0. ASSUME NEW x \in Nat, x % 6 = 1 \/ x % 6 = 5  PROVE x % 3 # 0 /\ x # 3
      BY <3>0
    <3>1. bi % 3 # 0 /\ bi # 3
      <4>1. bi \in Nat /\ (bi % 6 = 1 \/ bi % 6 = 5)
        BY <1>0, <1>3
      <4> QED BY <3>0, <4>1
    <3>2. n \in Nat /\ n >= 2 /\ Cand(n) < bi /\ bi <= Cand(n + 1) /\ bi % 2 = 1
      BY <1>0, <3>1 DEF n
    <3> HIDE <1>0
    <3> QED BY <1>0, <3>1, <3>2, CandNext
  <2>3. \A k \in 1..Len(list') : list'[k] = Cand(k)
    BY <1>0, <2>1, <2>2 DEF n
  <2>4. bi + 2 <= Cand(n + 2) /\ (bi + 2) % 2 = 1
    BY <1>0, <1>1, <1>o, <2>2
  <2>5. Len(list') + 1 = n + 2 /\ Cand(Len(list')) < bi + 2
    BY <1>0, <1>1, <2>1, <2>2 DEF n
  <2>6. ListFilled'
    <3>1. Len(list') >= 2 /\ bi' % 2 = 1 /\ bi' <= Cand(Len(list') + 1) /\ Cand(Len(list')) < bi'
      BY <1>0, <2>1, <2>4, <2>5 DEF n
    <3> QED BY <2>3, <3>1 DEF ListFilled
  <2>7. ByteTypeOK'
    BY <1>0, <2>1 DEF ByteInv, ByteTypeOK
  <2> QED BY <1>2, <2>6, <2>7 DEF ByteInv
<1>4. CASE bi % 6 \notin {1, 5}
  <2>1. list' = list
    BY <1>4 DEF addel
  <2>2. bi % 3 = 0
    BY <1>0, <1>4
  <2>3. bi # Cand(n + 1)
    BY <1>1, <2>2
  <2>4. bi + 2 <= Cand(n + 1) /\ (bi + 2) % 2 = 1
    <3>1. bi < Cand(n + 1)
      BY <1>0, <1>1, <2>3 DEF n
    <3> QED BY <1>0, <1>1, <1>o, <3>1
  <2>5. Cand(n) < bi + 2
    <3>1. Cand(2) = 3
      BY DEF Cand
    <3>2. CASE bi = 3 /\ n = 2
      BY <3>1, <3>2
    <3>3. CASE Cand(n) < bi
      <4>1. bi \in Nat /\ Cand(n) \in Nat
        BY <1>0, <1>1
      <4> QED BY <3>3, <4>1
    <3> QED BY <1>0, <3>2, <3>3 DEF n
  <2>6. ListFilled'
    BY <1>0, <2>1, <2>4, <2>5 DEF ListFilled, n
  <2>7. ByteTypeOK'
    BY <1>0, <2>1 DEF ByteInv, ByteTypeOK
  <2> QED BY <1>2, <2>6, <2>7 DEF ByteInv
<1> QED BY <1>3, <1>4

LEMMA FilledInvariant ==
    ASSUME ByteInv, Filled  PROVE ByteInv'
<1>0. /\ kind = "list" /\ bpc = "fill" /\ list \in Seq(Nat) /\ bi \in Nat
      /\ kind' = kind /\ bpc' = "loop" /\ bytes' = bytes /\ list' = list
      /\ bi' = 1 /\ bi >= ByteLimit
      /\ Len(list) >= 2 /\ Len(list) \in Nat
      /\ \A k \in 1..Len(list) : list[k] = Cand(k)
      /\ bi <= Cand(Len(list) + 1)
  BY DEF ByteInv, ByteTypeOK, ListFilled, Filled
<1>1. ByteTypeOK' /\ BytesStruck' /\ ListFilled'
  BY <1>0 DEF ByteInv, ByteTypeOK, BytesStruck, ListFilled
<1>2. ByteLimit <= Cand(Len(list) + 1)
  <2>1. Len(list) + 1 \in Nat /\ Len(list) + 1 >= 1
    BY <1>0
  <2>2. Cand(Len(list) + 1) \in Nat
    BY <2>1, CandRange
  <2> QED BY <1>0, <2>2, ByteLimitAssumption
<1>3. ASSUME NEW k \in 1..Len(list), NEW a \in Nat, NEW b \in Nat,
             2 <= a, a < Cand(2), a <= b, a * b = Cand(k)
      PROVE  FALSE
  <2>1. a = 2 /\ Cand(1) = 2 /\ Cand(2) = 3
    BY <1>3 DEF Cand
  <2>2. a * b >= 4
    BY <1>3, <2>1
  <2>3. k >= 3
    BY <1>0, <1>3, <2>1, <2>2
  <2>4. k \in Nat /\ Cand(k) = a * b
    BY <1>0, <1>3
  <2>5. a % 2 = 1
    BY <2>3, <2>4, CandFactors
  <2> QED BY <2>1, <2>5
<1>4. ListStruck'
  <2>1. bi' + 1 = 2
    BY <1>0
  <2>2. \A k \in 1..Len(list) : \A a, b \in Nat :
            2 <= a /\ a < Cand(2) /\ a <= b /\ a * b = Cand(k) => list[k] = 0
    BY <1>3
  <2>3. \A k \in 1..Len(list') :
          /\ list'[k] = Cand(k) \/ (list'[k] = 0 /\ Composite(Cand(k)))
          /\ \A a, b \in Nat : 2 <= a /\ a < Cand(bi' + 1) /\ a <= b /\ a * b = Cand(k)
                                   => list'[k] = 0
    <3>1. Cand(bi' + 1) = Cand(2) /\ list' = list
      BY <1>0, <2>1
    <3> SUFFICES ASSUME NEW k \in 1..Len(list)
                 PROVE  /\ list[k] = Cand(k) \/ (list[k] = 0 /\ Composite(Cand(k)))
                        /\ \A a, b \in Nat : 2 <= a /\ a < Cand(2) /\ a <= b /\ a * b = Cand(k)
                                                => list[k] = 0
      BY <3>1
    <3>2. list[k] = Cand(k)
      BY <1>0
    <3>3. \A a, b \in Nat : 2 <= a /\ a < Cand(2) /\ a <= b /\ a * b = Cand(k) => list[k] = 0
      BY <1>3
    <3> QED BY <3>2, <3>3
  <2> QED BY <1>0, <1>2, <2>3 DEF ListStruck
<1> QED BY <1>1, <1>4 DEF ByteInv

(* The candidates grow with their place, and all the odd numbers from 5 on *)
(* that 3 does not divide are among them.                                  *)
LEMMA CandGrows ==
    ASSUME NEW k \in Nat, k >= 1, NEW n \in Nat, k < n
    PROVE  Cand(k) <= Cand(n)
<1>1. CASE n = k + 1
  BY <1>1, CandRange
<1>2. CASE n >= k + 2
  <2>1. Cand(k) <= 3 * k /\ Cand(n) >= 3 * n - 5
    <3>1. CASE k = 1
      BY <1>2, <3>1, CandRange DEF Cand
    <3>2. CASE k >= 2
      BY <1>2, <3>2, CandRange
    <3> QED BY <3>1, <3>2
  <2>2. Cand(k) \in Nat /\ Cand(n) \in Nat
    BY CandRange
  <2> QED BY <1>2, <2>1, <2>2
<1> QED BY <1>1, <1>2

LEMMA CandReaches ==
    ASSUME NEW v \in Nat, v > 3, v % 2 = 1, v % 3 # 0, NEW n \in Nat, v < Cand(n + 1)
    PROVE  \E k \in 1..n : v = Cand(k)
<1>1. PICK q \in Nat : v = 6 * q + 1 \/ v = 6 * q + 5
  <2>1. v \div 6 \in Nat /\ (v = 6 * (v \div 6) + 1 \/ v = 6 * (v \div 6) + 5)
    OBVIOUS
  <2> QED BY <2>1
<1>2. PICK k \in Nat : k >= 3 /\ v = Cand(k)
  <2>1. CASE v = 6 * q + 1
    <3>1. q >= 1 /\ (2 * q + 2) % 2 = 0
      BY <2>1
    <3>2. v = Cand(2 * q + 2)
      BY <2>1, <3>1 DEF Cand
    <3> QED BY <3>1, <3>2
  <2>2. CASE v = 6 * q + 5
    <3>1. (2 * q + 3) % 2 = 1
      OBVIOUS
    <3>2. v = Cand(2 * q + 3)
      BY <3>1, <2>2 DEF Cand
    <3> QED BY <3>2
  <2> QED BY <1>1, <2>1, <2>2
<1>3. k <= n
  <2>1. SUFFICES ASSUME n + 1 <= k  PROVE FALSE
    BY <1>2
  <2>2. n + 1 \in Nat /\ n + 1 >= 1 /\ Cand(n + 1) \in Nat /\ Cand(k) \in Nat
    BY <1>2, CandRange
  <2>3. Cand(n + 1) <= Cand(k)
    BY <1>2, <2>1, <2>2, CandGrows
  <2> QED BY <1>2, <2>2, <2>3
<1> QED BY <1>2, <1>3

(* The step of the loop over the bytes: the sweep of bi, or none if its    *)
(* byte is cleared and a smaller factor of it has swept already.           *)
LEMMA StrikeBytes ==
    ASSUME ByteInv, Strike, kind # "list"  PROVE ByteInv'
<1>0. /\ bpc = "loop" /\ bpc' = bpc /\ kind' = kind /\ list' = list
      /\ bi \in Nat /\ bi >= 2 /\ bi' = bi + 1
      /\ bytes' = IF bi \in bytes THEN bytes \ Struck(bi) ELSE bytes
      /\ bytes \subseteq FirstBytes /\ bytes \in SUBSET Nat
      /\ \A m \in FirstBytes \ bytes : Composite(m)
      /\ \A a, b \in Nat : 2 <= a /\ a < bi /\ a <= b /\ a * b < ByteLimit => a * b \notin bytes
  BY DEF ByteInv, ByteTypeOK, BytesStruck, Strike
<1>1. bytes' \subseteq bytes
  BY <1>0
<1>t. /\ bpc = "loop" /\ bpc' = "loop" /\ bi' \in Nat /\ bi' >= 2 /\ bi' >= 1
      /\ bytes' \in SUBSET Nat /\ bytes' \subseteq FirstBytes
  <2>1. bi \in Nat /\ bi >= 2 /\ bi' = bi + 1
    BY <1>0, Zenon
  <2>2. bytes \in SUBSET Nat /\ bytes \subseteq FirstBytes /\ bpc = "loop" /\ bpc' = bpc
    BY <1>0, Zenon
  <2> QED BY <1>1, <2>1, <2>2
<1>2. ByteTypeOK' /\ ListFilled' /\ ListStruck'
  <2>1. kind \in Kinds /\ list \in Seq(Nat) /\ kind # "list"
    BY DEF ByteInv, ByteTypeOK
  <2>2. ByteTypeOK'
    BY <1>0, <1>t, <2>1, Zenon DEF ByteTypeOK
  <2>3. ListFilled' /\ ListStruck'
    BY <1>0, <2>1 DEF ListFilled, ListStruck
  <2> QED BY <2>2, <2>3
<1>3. ASSUME NEW m \in FirstBytes, m \notin bytes'  PROVE Composite(m)
  <2>1. CASE m \notin bytes
    BY <1>0, <2>1
  <2>2. CASE m \in bytes
    <3>1. m \in Struck(bi)
      BY <1>0, <1>3, <2>2
    <3>2. m \in Nat /\ bi * bi <= m /\ m % bi = 0
      <4>1. bi * bi \in Nat /\ ByteLimit \in Nat
        BY <1>0, ByteLimitAssumption
      <4> QED BY <3>1, <4>1 DEF Struck
    <3>3. bi < m
      <4>1. bi < bi * bi
        BY <1>0
      <4> QED BY <1>0, <3>2, <4>1
    <3> QED BY <1>0, <3>2, <3>3 DEF Composite
  <2> QED BY <2>1, <2>2
<1>4. ASSUME NEW a \in Nat, NEW b \in Nat, 2 <= a, a < bi', a <= b, a * b < ByteLimit
      PROVE  a * b \notin bytes'
  <2>1. CASE a < bi
    BY <1>0, <1>1, <1>4, <2>1
  <2>2. CASE a = bi /\ bi \in bytes
    <3>1. bi * bi <= a * b /\ a * b \in Nat
      BY <1>0, <1>4, <2>2
    <3>2. (a * b) % bi = 0
      BY <1>0, <1>4, <2>2, Divides
    <3>3. a * b \in Struck(bi)
      <4>1. bi * bi \in Nat /\ ByteLimit \in Nat
        BY <1>0, ByteLimitAssumption
      <4>2. a * b \in (bi * bi)..(ByteLimit - 1)
        BY <1>4, <3>1, <4>1
      <4> QED BY <3>2, <4>2 DEF Struck
    <3> QED BY <1>0, <2>2, <3>3
  <2>3. CASE a = bi /\ bi \notin bytes
    <3>1. SUFFICES ASSUME a * b \in bytes  PROVE FALSE
      BY <1>1
    <3>2. a < ByteLimit /\ a * b # 2
      <4>1. a <= a * b /\ a * b >= 4
        BY <1>4
      <4> QED BY <1>4, <4>1, ByteLimitAssumption
    <3>3. a = 2 \/ a \in FirstBytes
      <4>1. (a * b) % 2 = 1
        BY <1>0, <3>1, <3>2 DEF FirstBytes
      <4>2. a % 2 = 1
        BY <1>4, <4>1, OddFactors
      <4> QED BY <1>4, <3>2, <4>2, ByteLimitAssumption DEF FirstBytes
    <3>4. Composite(a)
      BY <1>0, <2>3, <3>3 DEF FirstBytes
    <3>5. PICK c \in Nat, e \in Nat : 2 <= c /\ c <= e /\ c < a /\ a = c * e
      BY <3>4, CompositeInOrder
    <3>6. a * b = c * (e * b) /\ e * b \in Nat /\ c <= e * b
      <4>1. a * b = c * (e * b)
        BY <3>5
      <4>2. e <= e * b
        BY <1>4, <3>5
      <4> QED BY <3>5, <4>1, <4>2
    <3>7. a * b \notin bytes
      BY <1>0, <1>4, <2>3, <3>5, <3>6
    <3> QED BY <3>1, <3>7
  <2> QED BY <1>0, <1>4, <2>1, <2>2, <2>3
<1>5. BytesStruck'
  <2>2. \A m \in FirstBytes \ bytes' : Composite(m)
    BY <1>3
  <2>3. \A a, b \in Nat : 2 <= a /\ a < bi' /\ a <= b /\ a * b < ByteLimit => a * b \notin bytes'
    BY <1>4
  <2> QED BY <1>t, <2>2, <2>3, Zenon DEF BytesStruck
<1> QED BY <1>2, <1>5 DEF ByteInv

(* The step of the loop over the list.  It strikes out from the index of   *)
(* the square of an index on, or before where that wraps around; no        *)
(* composite candidate has a smaller index (SquareIndex).                  *)
LEMMA StrikeList ==
    ASSUME ByteInv, Strike, kind = "list"  PROVE ByteInv'
<1>0. /\ bpc = "loop" /\ bpc' = bpc /\ kind' = kind /\ bytes' = bytes
      /\ bi \in Nat /\ bi >= 1 /\ bi' = bi + 1
      /\ list \in Seq(Nat) /\ Len(list) \in Nat /\ bi < Len(list)
      /\ Len(list) >= 2
      /\ ByteLimit <= Cand(Len(list) + 1)
  BY DEF ByteInv, ByteTypeOK, ListStruck, Strike, Going
<1> DEFINE p == list[bi + 1]
<1>1. ASSUME NEW k \in 1..Len(list)
      PROVE  /\ list[k] = Cand(k) \/ (list[k] = 0 /\ Composite(Cand(k)))
             /\ \A a, b \in Nat : 2 <= a /\ a < Cand(bi + 1) /\ a <= b /\ a * b = Cand(k)
                                     => list[k] = 0
  BY <1>0 DEF ByteInv, ListStruck
<1>2. list' = IF p # 0 THEN StruckOut(p) ELSE list
  BY <1>0 DEF Strike
<1>3. FirstIndex(bi) \in Nat /\ FirstIndex(bi) <= bi * bi
  <2>1. UintRange \in Nat /\ UintRange > 0 /\ bi * bi \in Nat
    BY <1>0, ByteLimitAssumption
  <2>2. ASSUME NEW x \in Nat, NEW u \in Nat, u > 0  PROVE x % u \in Nat /\ x % u <= x
    BY <2>2
  <2> QED BY <2>1, <2>2 DEF FirstIndex
<1>4. bi + 1 \in 1..Len(list)
  BY <1>0
<1>5. p \in Nat /\ (p # 0 => p = Cand(bi + 1) /\ p >= 3)
  <2>1. p \in Nat /\ (p # 0 => p = Cand(bi + 1))
    BY <1>0, <1>1, <1>4
  <2>2. Cand(bi + 1) >= 3
    <3>1. CASE bi = 1
      BY <3>1 DEF Cand
    <3>2. CASE bi >= 2
      BY <1>0, <3>2 DEF Cand
    <3> QED BY <1>0, <3>1, <3>2
  <2> QED BY <2>1, <2>2
<1> HIDE DEF p
<1>6. list' \in Seq(Nat) /\ Len(list') = Len(list)
  <2>1. CASE p = 0
    BY <1>0, <1>2, <2>1
  <2>2. CASE p # 0
    <3>1. \A k \in 1..Len(list) : list[k] \in Nat
      BY <1>0
    <3>2. list' = [k \in 1..Len(list) |->
                     IF k - 1 >= FirstIndex(bi) /\ list[k] % p = 0 /\ list[k] # p
                     THEN 0 ELSE list[k]]
      BY <1>0, <1>2, <2>2 DEF StruckOut
    <3> QED BY <1>0, <3>1, <3>2
  <2> QED BY <2>1, <2>2
<1>7. ASSUME NEW k \in 1..Len(list)
      PROVE  /\ list[k] = 0 => list'[k] = 0
             /\ list'[k] = list[k] \/ (list'[k] = 0 /\ Composite(Cand(k)))
  <2>1. CASE p = 0
    BY <1>0, <1>2, <2>1
  <2>2. CASE p # 0
    <3>1. list'[k] = IF k - 1 >= FirstIndex(bi) /\ list[k] % p = 0 /\ list[k] # p
                     THEN 0 ELSE list[k]
      BY <1>0, <1>2, <2>2 DEF StruckOut
    <3>2. ASSUME list'[k] # list[k]  PROVE list'[k] = 0 /\ Composite(Cand(k))
      <4>1. list'[k] = 0 /\ list[k] # 0 /\ list[k] % p = 0 /\ list[k] # p
        BY <3>1, <3>2
      <4>2. list[k] = Cand(k) /\ Cand(k) \in Nat /\ Cand(k) >= 2
        <5>1. k \in Nat /\ k >= 1 /\ list[k] = Cand(k)
          BY <1>1, <4>1
        <5>2. Cand(k) \in Nat /\ Cand(k) >= 2
          BY <5>1, CandRange
        <5> QED BY <5>1, <5>2
      <4>3. p < Cand(k)
        <5>1. ASSUME NEW x \in Nat, NEW y \in Nat, x >= 2, x % y = 0, x < y  PROVE FALSE
          <6>1. x % y = x
            BY <5>1
          <6> QED BY <5>1, <6>1
        <5> QED BY <1>5, <2>2, <4>1, <4>2, <5>1
      <4> QED BY <1>5, <2>2, <4>1, <4>2, <4>3 DEF Composite
    <3> QED BY <3>1, <3>2
  <2> QED BY <2>1, <2>2
<1>8. ASSUME NEW k \in 1..Len(list), NEW a \in Nat, NEW b \in Nat,
             2 <= a, a < Cand(bi + 2), a <= b, a * b = Cand(k)
      PROVE  list'[k] = 0
  <2>1. CASE a < Cand(bi + 1)
    BY <1>1, <1>7, <1>8, <2>1
  <2>2. CASE a >= Cand(bi + 1)
    <3>1. k \in Nat /\ k >= 3
      <4>1. a * b >= 4 /\ Cand(1) = 2 /\ Cand(2) = 3
        BY <1>8 DEF Cand
      <4> QED BY <1>8, <4>1
    <3>2. a % 2 = 1 /\ a % 3 # 0
      BY <1>8, <3>1, CandFactors
    <3>3. a = Cand(bi + 1)
      <4>1. CASE bi = 1
        <5>1. Cand(bi + 1) = 3 /\ Cand(bi + 2) = 5
          BY <4>1 DEF Cand
        <5> QED BY <1>8, <2>2, <3>2, <5>1
      <4>2. CASE bi >= 2
        <5>1. bi + 1 \in Nat /\ (bi + 1) + 1 = bi + 2 /\ bi + 1 >= 2
          BY <1>0, <4>2
        <5>2. Cand(bi + 1) \in Nat /\ Cand(bi + 2) \in Nat
          BY <1>0, CandRange
        <5>3. SUFFICES ASSUME Cand(bi + 1) < a  PROVE FALSE
          BY <1>8, <2>2, <5>2
        <5>4. a = Cand((bi + 1) + 1)
          <6>1. a <= Cand((bi + 1) + 1)
            BY <1>8, <5>1, <5>2
          <6> HIDE <1>8, <5>2
          <6> QED BY <3>2, <5>1, <5>3, <6>1, CandNext
        <5> QED BY <1>8, <5>1, <5>2, <5>4
      <4> QED BY <1>0, <4>1, <4>2
    <3>4. CASE p # 0
      <4>1. p = a
        BY <1>5, <3>3, <3>4
      <4>2. CASE list[k] = 0
        BY <1>7, <4>2
      <4>3. CASE list[k] # 0
        <5>1. list[k] = a * b /\ list[k] % p = 0 /\ list[k] # p
          <6>1. list[k] = a * b
            BY <1>1, <1>8, <4>3
          <6>2. (a * b) % a = 0 /\ a * b # a
            BY <1>8, Divides
          <6> QED BY <4>1, <6>1, <6>2
        <5>2. k - 1 >= bi * bi
          BY <1>0, <1>8, <3>1, <3>3, SquareIndex
        <5>3. k - 1 >= FirstIndex(bi)
          <6>1. bi * bi \in Nat
            BY <1>0
          <6> QED BY <1>3, <3>1, <5>2, <6>1
        <5>4. list'[k] = IF k - 1 >= FirstIndex(bi) /\ list[k] % p = 0 /\ list[k] # p
                         THEN 0 ELSE list[k]
          BY <1>0, <1>2, <3>4 DEF StruckOut
        <5> QED BY <5>1, <5>3, <5>4
      <4> QED BY <4>2, <4>3
    <3>5. CASE p = 0
      <4>1. Composite(a)
        <5>1. Cand(bi + 1) # 0
          BY <1>0, CandRange
        <5>2. Composite(Cand(bi + 1))
          BY <1>1, <1>4, <3>5, <5>1 DEF p
        <5> QED BY <3>3, <5>2
      <4>2. PICK c \in Nat, e \in Nat : 2 <= c /\ c <= e /\ c < a /\ a = c * e
        BY <4>1, CompositeInOrder
      <4>3. a * b = c * (e * b) /\ e * b \in Nat /\ c <= e * b
        <5>1. a * b = c * (e * b)
          BY <4>2
        <5>2. e <= e * b
          BY <1>8, <4>2
        <5> QED BY <4>2, <5>1, <5>2
      <4>4. list[k] = 0
        BY <1>1, <1>8, <3>3, <4>2, <4>3
      <4> QED BY <1>7, <4>4
    <3> QED BY <3>4, <3>5
  <2>3. Cand(bi + 1) \in Nat
    BY <1>0, CandRange
  <2> QED BY <1>8, <2>1, <2>2, <2>3
<1>9. ListStruck'
  <2>1. Cand(bi' + 1) = Cand(bi + 2)
    <3>1. bi' + 1 = bi + 2
      BY <1>0
    <3> QED BY <3>1
  <2>2. ASSUME NEW k \in 1..Len(list)
        PROVE  list'[k] = Cand(k) \/ (list'[k] = 0 /\ Composite(Cand(k)))
    BY <1>1, <1>7
  <2>3. \A k \in 1..Len(list') :
          /\ list'[k] = Cand(k) \/ (list'[k] = 0 /\ Composite(Cand(k)))
          /\ \A a, b \in Nat : 2 <= a /\ a < Cand(bi' + 1) /\ a <= b /\ a * b = Cand(k)
                                   => list'[k] = 0
    BY <1>6, <1>8, <2>1, <2>2
  <2> QED BY <1>0, <1>6, <2>3 DEF ListStruck
<1>10. ByteTypeOK' /\ BytesStruck' /\ ListFilled'
  BY <1>0, <1>6 DEF ByteInv, ByteTypeOK, BytesStruck, ListFilled
<1> QED BY <1>9, <1>10 DEF ByteInv

LEMMA AllStruckInvariant ==
    ASSUME ByteInv, AllStruck  PROVE ByteInv'
<1>0. /\ bpc = "loop" /\ ~Going /\ bpc' = IF kind = "list" THEN "index" ELSE "done"
      /\ kind' = kind /\ bytes' = bytes /\ list' = list /\ bi' = bi
      /\ bi \in Nat /\ list \in Seq(Nat) /\ kind \in Kinds
  BY DEF ByteInv, ByteTypeOK, AllStruck
<1>1. ByteTypeOK' /\ ListFilled'
  BY <1>0 DEF ByteInv, ByteTypeOK, ListFilled
<1>2. ~Going'
  BY <1>0 DEF Going, Kinds
<1>3. BytesStruck'
  BY <1>0, <1>2 DEF ByteInv, BytesStruck
<1>4. ListStruck'
  <2>1. kind = "list" => bi >= Len(list)
    BY <1>0 DEF Going, Kinds
  <2> QED BY <1>0, <2>1 DEF ByteInv, ListStruck
<1> QED BY <1>1, <1>3, <1>4 DEF ByteInv

LEMMA IndexInvariant ==
    ASSUME ByteInv, Index  PROVE ByteInv'
<1>0. /\ bpc = "index" /\ bpc' = "done" /\ bytes' = {list[k] : k \in 1..Len(list)}
      /\ kind' = kind /\ list' = list /\ bi' = bi
      /\ list \in Seq(Nat) /\ kind = "list"
  BY DEF ByteInv, ByteTypeOK, BytesStruck, Index
<1>1. bytes' \in SUBSET Nat
  BY <1>0
<1> QED BY <1>0, <1>1 DEF ByteInv, ByteTypeOK, BytesStruck, ListFilled, ListStruck

(* Every step of the older sieves keeps theirs.                            *)
LEMMA BytesKeep == ByteInv /\ [ByteNext]_byteVars => ByteInv'
<1> SUFFICES ASSUME ByteInv, [ByteNext]_byteVars  PROVE ByteInv'
  OBVIOUS
<1>1. CASE Fill
  BY <1>1, FillInvariant
<1>2. CASE addel
  BY <1>2, AddelInvariant
<1>3. CASE Filled
  BY <1>3, FilledInvariant
<1>4. CASE Strike
  BY <1>4, StrikeBytes, StrikeList
<1>5. CASE AllStruck
  BY <1>5, AllStruckInvariant
<1>6. CASE Index
  BY <1>6, IndexInvariant
<1>7. CASE UNCHANGED byteVars
  <2>1. ByteTypeOK' /\ BytesStruck'
    BY <1>7 DEF ByteInv, byteVars, ByteTypeOK, BytesStruck, Going
  <2>2. ListFilled'
    BY <1>7 DEF ByteInv, byteVars, ListFilled
  <2>3. ListStruck'
    BY <1>7 DEF ByteInv, byteVars, ListStruck
  <2> QED BY <2>1, <2>2, <2>3 DEF ByteInv
<1> QED BY <1>1, <1>2, <1>3, <1>4, <1>5, <1>6, <1>7 DEF ByteNext

(* The invariant holds in every behaviour of the three older sieves.       *)
THEOREM ByteInvariance == ByteSpec => []ByteInv
BY ByteInitInvariant, BytesKeep, PTL DEF ByteSpec

(* When the loop over the bytes ends, every composite number below the     *)
(* limit has a factor that it has passed: the smaller one of a product is  *)
(* at most the root, and the root itself is needed for no limit that       *)
(* ByteLimitAssumption admits.                                             *)
LEMMA BytesEnd ==
    ASSUME ByteInv, kind # "list", bpc = "done", NEW m \in 1..(ByteLimit - 1), Composite(m)
    PROVE  m \notin bytes
<1>0. /\ m \in Nat /\ m < ByteLimit /\ ByteLimit \in Nat /\ bi \in Nat
      /\ kind \in {"square", "root"} /\ ~Going
      /\ \A a, b \in Nat : 2 <= a /\ a < bi /\ a <= b /\ a * b < ByteLimit => a * b \notin bytes
  BY ByteLimitAssumption DEF ByteInv, ByteTypeOK, BytesStruck, Kinds
<1>1. PICK a \in Nat, b \in Nat : 2 <= a /\ a <= b /\ a < m /\ m = a * b
  BY <1>0, CompositeInOrder
<1>2. a * a <= m
  BY <1>1
<1>3. CASE a < bi
  BY <1>0, <1>1, <1>3
<1>4. CASE a >= bi /\ kind = "square"
  <2>1. bi * bi >= ByteLimit
    BY <1>0, <1>4 DEF Going
  <2>2. bi * bi <= a * a
    <3>1. bi * bi <= bi * a /\ bi * a <= a * a
      BY <1>0, <1>1, <1>4
    <3> QED BY <1>0, <1>1, <3>1
  <2> QED BY <1>0, <1>1, <1>2, <2>1, <2>2
<1>5. CASE a >= bi /\ kind = "root"
  <2> DEFINE r == Root(ByteLimit)
  <2>1. r \in Nat /\ r * r <= ByteLimit /\ ByteLimit < (r + 1) * (r + 1)
    BY <1>0, RootIsRoot
  <2>a. \/ r * r = ByteLimit
        \/ \E c \in 2..(r - 1) : r % c = 0
    BY ByteLimitAssumption
  <2>b. bi >= r
    BY <1>0, <1>5, <2>1 DEF Going
  <2> HIDE DEF r
  <2>2. ASSUME NEW x \in Nat, NEW y \in Nat, x < y  PROVE (x + 1) * (x + 1) <= y * y
    <3>1. x + 1 <= y /\ x + 1 \in Nat
      BY <2>2
    <3>2. (x + 1) * (x + 1) <= (x + 1) * y /\ (x + 1) * y <= y * y
      BY <3>1
    <3> QED BY <3>1, <3>2
  <2>3. a = r
    <3>1. ~(r < a)
      BY <1>0, <1>1, <1>2, <2>1, <2>2
    <3> QED BY <1>0, <1>1, <1>5, <2>1, <2>b, <3>1
  <2>4. Composite(r)
    <3>1. r * r # ByteLimit
      BY <1>0, <1>2, <2>3
    <3> QED BY <2>a, <3>1 DEF Composite
  <2>5. PICK c \in Nat, e \in Nat : 2 <= c /\ c <= e /\ c < r /\ r = c * e
    BY <2>1, <2>4, CompositeInOrder
  <2>6. m = c * (e * b) /\ e * b \in Nat /\ c <= e * b
    <3>1. m = c * (e * b)
      BY <1>1, <2>3, <2>5
    <3>2. e <= e * b
      BY <1>1, <2>5
    <3> QED BY <1>1, <2>5, <3>1, <3>2
  <2>7. 2 <= c /\ c < bi /\ c * (e * b) < ByteLimit
    BY <1>0, <2>1, <2>b, <2>5, <2>6
  <2> QED BY <1>0, <2>5, <2>6, <2>7
<1> QED BY <1>0, <1>1, <1>3, <1>4, <1>5

(* When the list is done, a number below the limit has its byte set if it  *)
(* is an entry, and every prime is one.                                    *)
LEMMA ListEnd ==
    ASSUME ByteInv, kind = "list", bpc \in {"index", "done"}, NEW m \in 1..(ByteLimit - 1)
    PROVE  m \in Left <=> m > 1 /\ ~Composite(m)
<1>0. /\ m \in Nat /\ m >= 1 /\ m < ByteLimit /\ ByteLimit \in Nat /\ bi \in Nat
      /\ Len(list) \in Nat /\ Len(list) >= 2 /\ bi >= Len(list)
      /\ ByteLimit <= Cand(Len(list) + 1)
  BY ByteLimitAssumption DEF ByteInv, ByteTypeOK, ListStruck
<1>4. Left = {list[k] : k \in 1..Len(list)}
  <2>1. DOMAIN list = 1..Len(list)
    BY DEF ByteInv, ByteTypeOK
  <2>2. bpc = "done" => bytes = {list[k] : k \in 1..Len(list)}
    BY DEF ByteInv, ListStruck
  <2> QED BY <2>1, <2>2 DEF Left
<1>1. ASSUME NEW k \in 1..Len(list)
      PROVE  /\ list[k] = Cand(k) \/ (list[k] = 0 /\ Composite(Cand(k)))
             /\ \A a, b \in Nat : 2 <= a /\ a < Cand(bi + 1) /\ a <= b /\ a * b = Cand(k)
                                     => list[k] = 0
  BY DEF ByteInv, ListStruck
<1>2. ASSUME m \in Left  PROVE m > 1 /\ ~Composite(m)
  <2>1. PICK k \in 1..Len(list) : m = list[k]
    BY <1>2, <1>4
  <2>2. m = Cand(k) /\ m >= 2
    <3>1. k \in Nat /\ k >= 1 /\ m = Cand(k)
      BY <1>0, <1>1, <2>1
    <3> QED BY <3>1, CandRange
  <2>3. SUFFICES ASSUME Composite(m)  PROVE FALSE
    BY <2>2
  <2>4. PICK a \in Nat, b \in Nat : 2 <= a /\ a <= b /\ a < m /\ m = a * b
    BY <1>0, <2>3, CompositeInOrder
  <2>5. Cand(k) <= Cand(bi + 1)
    <3>1. k \in Nat /\ k >= 1 /\ k < bi + 1 /\ bi + 1 \in Nat
      BY <1>0
    <3> QED BY <3>1, CandGrows
  <2>6. Cand(bi + 1) \in Nat
    BY <1>0, CandRange
  <2>7. list[k] = 0
    <3>1. a < Cand(bi + 1)
      BY <1>0, <2>2, <2>4, <2>5, <2>6
    <3>2. \A x, y \in Nat : 2 <= x /\ x < Cand(bi + 1) /\ x <= y /\ x * y = Cand(k) => list[k] = 0
      BY <1>1
    <3>3. a * b = Cand(k)
      BY <2>2, <2>4
    <3> QED BY <2>4, <3>1, <3>2, <3>3
  <2> QED BY <1>0, <2>1, <2>7
<1>3. ASSUME m > 1, ~Composite(m)  PROVE m \in Left
  <2>1. \E k \in 1..Len(list) : m = Cand(k)
    <3>1. CASE m <= 3
      <4>1. Cand(1) = 2 /\ Cand(2) = 3
        BY DEF Cand
      <4> QED BY <1>0, <1>3, <3>1, <4>1
    <3>2. CASE m > 3
      <4>1. m % 2 = 1 /\ m % 3 # 0
        <5>1. \A a \in 2..(m - 1) : m % a # 0
          BY <1>3 DEF Composite
        <5>2. 2 \in 2..(m - 1) /\ 3 \in 2..(m - 1)
          BY <1>0, <3>2
        <5>3. m % 2 # 0 /\ m % 3 # 0
          BY <5>1, <5>2
        <5> QED BY <1>0, <5>3
      <4>2. m < Cand(Len(list) + 1)
        <5>1. Cand(Len(list) + 1) \in Nat
          BY <1>0, CandRange
        <5> QED BY <1>0, <5>1
      <4> QED BY <1>0, <3>2, <4>1, <4>2, CandReaches
    <3> QED BY <1>0, <3>1, <3>2
  <2>2. PICK k \in 1..Len(list) : m = Cand(k)
    BY <2>1
  <2>3. list[k] = m
    BY <1>1, <1>3, <2>2
  <2> QED BY <1>4, <2>3
<1> QED BY <1>2, <1>3

(* What the invariant of the older sieves says at the end.                 *)
LEMMA BytesDone == ByteInv => BytesCorrect
<1> SUFFICES ASSUME ByteInv, bpc \in {"index", "done"}, NEW m \in 1..(ByteLimit - 1)
             PROVE  m \in Left <=> m > 1 /\ ~Composite(m)
  BY DEF BytesCorrect, Composite
<1>1. CASE kind = "list"
  BY <1>1, ListEnd
<1>2. CASE kind # "list"
  <2>0. m \in Nat /\ m >= 1 /\ m < ByteLimit /\ ByteLimit \in Nat
    BY ByteLimitAssumption
  <2>1. /\ bytes \subseteq FirstBytes /\ \A n \in FirstBytes \ bytes : Composite(n)
        /\ bpc = "done" /\ Left = bytes
    BY <1>2 DEF ByteInv, BytesStruck, Left
  <2>2. ASSUME m \in Left  PROVE m > 1 /\ ~Composite(m)
    <3>1. m > 1
      BY <2>1, <2>2, ByteLimitAssumption DEF FirstBytes
    <3> QED BY <1>2, <2>1, <2>2, <3>1, BytesEnd
  <2>3. ASSUME m > 1, ~Composite(m)  PROVE m \in Left
    <3>1. CASE m = 2
      BY <2>1, <2>3, <3>1 DEF FirstBytes
    <3>2. CASE m > 2
      <4>1. m % 2 = 1
        BY <2>0, <2>3, <3>2 DEF Composite
      <4>2. m \in FirstBytes
        BY <2>0, <3>2, <4>1 DEF FirstBytes
      <4> QED BY <2>1, <2>3, <4>2
    <3> QED BY <2>0, <2>3, <3>1, <3>2
  <2> QED BY <2>2, <2>3
<1> QED BY <1>1, <1>2

(* Every one of the three sieves leaves the bytes of the primes.           *)
THEOREM ByteSieveLeavesPrimes == ByteSpec => []BytesCorrect
BY ByteInvariance, BytesDone, PTL

-----------------------------------------------------------------------------
(* Functions defined by recursion.  What follows is stated for functions   *)
(* given as values: base for the arguments in B, step for the others,      *)
(* where pred is the argument recurred to and measure what it lessens.     *)

(* A set of arguments that holds each one whose smaller ones it holds has  *)
(* all of them.                                                            *)
LEMMA ByMeasure ==
    ASSUME NEW I, NEW measure \in [I -> Nat], NEW Good,
           \A x \in I : (\A y \in I : measure[y] < measure[x] => y \in Good) => x \in Good
    PROVE  \A x \in I : x \in Good
<1> SUFFICES ASSUME NEW x0 \in I, x0 \notin Good  PROVE FALSE
  OBVIOUS
<1> DEFINE T == {measure[x] : x \in I \ Good}
<1>1. T \in SUBSET Nat /\ T # {}
  OBVIOUS
<1>2. PICK v \in T : \A w \in T : v <= w
  <2> HIDE DEF T
  <2> QED BY <1>1, LeastNumber
<1>3. PICK x \in I \ Good : v = measure[x]
  OBVIOUS
<1>4. ASSUME NEW y \in I, measure[y] < measure[x], y \notin Good  PROVE FALSE
  <2>1. measure[y] \in T /\ measure[y] \in Nat /\ measure[x] \in Nat
    BY <1>4
  <2>2. measure[x] <= measure[y]
    BY <1>2, <1>3, <2>1
  <2> QED BY <1>4, <2>1, <2>2
<1>5. x \in Good
  BY <1>4
<1> QED BY <1>3, <1>5

(* f obeys the recursion at x.                                             *)
Obeys(f, x, B, base, step, pred) ==
    /\ x \in B => f[x] = base[x]
    /\ x \notin B => f[x] = step[x, f[pred[x]]]

Descends(I, measure, B, pred) ==
    /\ measure \in [I -> Nat] /\ pred \in [I -> I]
    /\ \A x \in I : x \notin B => measure[pred[x]] < measure[x]
Recursion(I, measure, B, pred, S, base, step) ==
    /\ Descends(I, measure, B, pred)
    /\ base \in [I -> S] /\ step \in [I \X S -> S]
Solves(f, I, B, base, step, pred) ==
    \A x \in I : Obeys(f, x, B, base, step, pred)
ObeysBelow(f, n, I, measure, B, base, step, pred) ==
    \A x \in I : measure[x] < n => Obeys(f, x, B, base, step, pred)

(* Two functions that obey it wherever the measure is below n agree there. *)
LEMMA RecursionUnique ==
    ASSUME NEW I, NEW measure, NEW B, NEW base, NEW step, NEW pred,
           Descends(I, measure, B, pred), NEW n \in Nat, NEW f, NEW h,
           ObeysBelow(f, n, I, measure, B, base, step, pred),
           ObeysBelow(h, n, I, measure, B, base, step, pred)
    PROVE  \A x \in I : measure[x] < n => f[x] = h[x]
<1> USE DEF Descends, ObeysBelow
<1> DEFINE Good == {x \in I : measure[x] < n => f[x] = h[x]}
<1>1. ASSUME NEW x \in I, \A y \in I : measure[y] < measure[x] => y \in Good
      PROVE  x \in Good
  <2> SUFFICES ASSUME measure[x] < n  PROVE f[x] = h[x]
    OBVIOUS
  <2>1. Obeys(f, x, B, base, step, pred) /\ Obeys(h, x, B, base, step, pred)
    OBVIOUS
  <2>2. CASE x \in B
    BY <2>1, <2>2 DEF Obeys
  <2>3. CASE x \notin B
    <3>1. pred[x] \in I /\ measure[pred[x]] < measure[x]
      BY <2>3
    <3>2. measure[pred[x]] < n
      <4>1. measure[x] \in Nat /\ measure[pred[x]] \in Nat
        BY <3>1
      <4> QED BY <3>1, <4>1
    <3>3. f[pred[x]] = h[pred[x]]
      BY <1>1, <3>1, <3>2
    <3> QED BY <2>1, <2>3, <3>3 DEF Obeys
  <2> QED BY <2>2, <2>3
<1>2. \A x \in I : x \in Good
  <2> HIDE DEF Good
  <2> QED BY <1>1, ByMeasure
<1> QED BY <1>2

(* There is a function that obeys it everywhere: the functions that obey   *)
(* it below n agree there, and give the value at an argument of measure n. *)
LEMMA RecursionExists ==
    ASSUME NEW I, NEW measure, NEW B, NEW pred, NEW S, NEW base, NEW step,
           Recursion(I, measure, B, pred, S, base, step)
    PROVE  \E f \in [I -> S] : Solves(f, I, B, base, step, pred)
<1>0. /\ measure \in [I -> Nat] /\ pred \in [I -> I]
      /\ base \in [I -> S] /\ step \in [I \X S -> S]
      /\ \A x \in I : x \notin B => measure[pred[x]] < measure[x]
      /\ Descends(I, measure, B, pred)
  BY DEF Recursion, Descends
<1> USE <1>0
<1> DEFINE A == [n \in Nat |-> {f \in [I -> S] :
                  \A x \in I : measure[x] < n => Obeys(f, x, B, base, step, pred)}]
<1>1. base \in A[0]
  <2>1. \A x \in I : measure[x] \in Nat
    OBVIOUS
  <2>2. \A x \in I : ~ (measure[x] < 0)
    BY <2>1
  <2> QED BY <2>2
<1>2. ASSUME NEW n \in Nat, NEW f \in A[n]
      PROVE  \E h : h \in A[n + 1]
  <2> DEFINE h == [x \in I |-> IF x \in B THEN base[x] ELSE step[x, f[pred[x]]]]
  <2>1. f \in [I -> S] /\ \A x \in I : measure[x] < n => Obeys(f, x, B, base, step, pred)
    OBVIOUS
  <2>2. h \in [I -> S]
    BY <2>1
  <2>3. ASSUME NEW x \in I, measure[x] < n + 1
        PROVE  Obeys(h, x, B, base, step, pred)
    <3>1. CASE x \in B
      BY <3>1 DEF Obeys
    <3>2. CASE x \notin B
      <4>1. pred[x] \in I /\ measure[pred[x]] < measure[x]
        BY <3>2
      <4>2. measure[pred[x]] < n
        <5>1. measure[x] \in Nat /\ measure[pred[x]] \in Nat
          BY <4>1
        <5> QED BY <2>3, <4>1, <5>1
      <4>3. Obeys(f, pred[x], B, base, step, pred)
        BY <2>1, <4>1, <4>2
      <4>4. f[pred[x]] = h[pred[x]]
        BY <4>1, <4>3 DEF Obeys
      <4>5. h[x] = step[x, f[pred[x]]]
        BY <3>2
      <4> HIDE DEF h
      <4> QED BY <3>2, <4>4, <4>5 DEF Obeys
    <3> QED BY <3>1, <3>2
  <2>4. h \in A[n + 1]
    <3>1. n + 1 \in Nat
      OBVIOUS
    <3> HIDE DEF h
    <3> QED BY <2>2, <2>3, <3>1
  <2> HIDE DEF h, A
  <2> QED BY <2>4
<1>3. ASSUME NEW n \in Nat  PROVE A[n] # {}
  <2> DEFINE T == {k \in Nat : A[k] = {}}
  <2> HIDE DEF A
  <2>1. T = {}
    <3> SUFFICES ASSUME T # {}  PROVE FALSE
      OBVIOUS
    <3>1. T \in SUBSET Nat
      OBVIOUS
    <3>2. PICK k \in T : \A j \in T : k <= j
      <4> HIDE DEF T
      <4> QED BY <3>1, LeastNumber
    <3>3. k \in Nat /\ A[k] = {}
      OBVIOUS
    <3>4. k # 0
      BY <1>1, <3>3
    <3>5. k - 1 \in Nat /\ (k - 1) + 1 = k
      BY <3>3, <3>4
    <3>6. k - 1 \notin T
      <4> HIDE DEF T
      <4> QED BY <3>2, <3>3, <3>5
    <3>7. A[k - 1] # {}
      BY <3>5, <3>6
    <3>8. PICK f : f \in A[k - 1]
      BY <3>7
    <3>9. \E h : h \in A[(k - 1) + 1]
      BY <1>2, <3>5, <3>8
    <3> QED BY <3>3, <3>5, <3>9
  <2> QED BY <2>1
<1> DEFINE c(x) == CHOOSE f : f \in A[measure[x] + 1]
           F == [x \in I |-> c(x)[x]]
<1>4. ASSUME NEW x \in I  PROVE c(x) \in A[measure[x] + 1] /\ measure[x] + 1 \in Nat
  <2>1. measure[x] + 1 \in Nat
    <3>1. measure[x] \in Nat
      OBVIOUS
    <3> QED BY <3>1
  <2> HIDE DEF A
  <2>2. A[measure[x] + 1] # {}
    BY <1>3, <2>1
  <2> QED BY <2>1, <2>2
<1>5. ASSUME NEW x \in I
      PROVE  /\ c(x) \in [I -> S]
             /\ \A y \in I : measure[y] < measure[x] + 1 => Obeys(c(x), y, B, base, step, pred)
  <2> HIDE DEF c
  <2> QED BY <1>4
<1> HIDE DEF A, c
<1>6. F \in [I -> S]
  BY <1>5
<1>7. ASSUME NEW x \in I  PROVE Obeys(F, x, B, base, step, pred)
  <2>1. measure[x] \in Nat /\ measure[x] < measure[x] + 1
    <3>1. measure[x] \in Nat
      OBVIOUS
    <3> QED BY <3>1
  <2>2. Obeys(c(x), x, B, base, step, pred)
    BY <1>5, <2>1
  <2>3. CASE x \in B
    BY <2>2, <2>3 DEF Obeys
  <2>4. CASE x \notin B
    <3> DEFINE p == pred[x]
    <3>1. p \in I /\ measure[p] < measure[x] /\ measure[p] \in Nat
      BY <2>4
    <3>2. measure[p] + 1 \in Nat /\ measure[p] < measure[p] + 1
      BY <3>1
    <3>3. \A y \in I : measure[y] < measure[p] + 1 => measure[y] < measure[x] + 1
      <4>1. \A y \in I : measure[y] \in Nat
        OBVIOUS
      <4> HIDE DEF p
      <4> QED BY <2>1, <3>1, <4>1
    <3>4. \A y \in I : measure[y] < measure[p] + 1 => Obeys(c(x), y, B, base, step, pred)
      <4> HIDE DEF p
      <4> QED BY <1>5, <3>3
    <3>5. \A y \in I : measure[y] < measure[p] + 1 => Obeys(c(p), y, B, base, step, pred)
      <4> HIDE DEF p
      <4> QED BY <1>5, <3>1
    <3>6. \A y \in I : measure[y] < measure[p] + 1 => c(x)[y] = c(p)[y]
      <4> DEFINE f == c(x)
                 h == c(p)
                 n == measure[p] + 1
      <4>1. /\ n \in Nat
            /\ \A y \in I : measure[y] < n => Obeys(f, y, B, base, step, pred)
            /\ \A y \in I : measure[y] < n => Obeys(h, y, B, base, step, pred)
        BY <3>2, <3>4, <3>5
      <4> HIDE DEF f, h, n
      <4>2. /\ Descends(I, measure, B, pred)
            /\ ObeysBelow(f, n, I, measure, B, base, step, pred)
            /\ ObeysBelow(h, n, I, measure, B, base, step, pred)
        BY <4>1 DEF Descends, ObeysBelow
      <4>3. \A y \in I : measure[y] < n => f[y] = h[y]
        BY <4>1, <4>2, RecursionUnique
      <4> QED BY <4>3 DEF f, h, n
    <3>7. c(x)[p] = c(p)[p]
      <4> HIDE DEF p
      <4> QED BY <3>1, <3>2, <3>6
    <3>8. F[p] = c(p)[p] /\ F[x] = c(x)[x]
      BY <3>1
    <3> HIDE DEF F
    <3> QED BY <2>2, <2>4, <3>7, <3>8 DEF Obeys
  <2> QED BY <2>3, <2>4
<1> HIDE DEF F
<1> QED BY <1>6, <1>7 DEF Solves

(* Numbers without their last digit become smaller.                        *)
LEMMA TenthLess ==
    ASSUME NEW n \in Nat, n # 0  PROVE n \div 10 \in Nat /\ n \div 10 < n
OBVIOUS

Itself == [n \in Nat |-> n]
LastOff == [n \in Nat |-> n \div 10]

(* The measure of the recursions over the digits of a number.              *)
LEMMA ItselfType == Itself \in [Nat -> Nat]
BY DEF Itself

(* They end at the base, which 0 is part of.                               *)
LEMMA DigitsEnd ==
    ASSUME NEW B, 0 \in B  PROVE Descends(Nat, Itself, B, LastOff)
<1>2. \A n \in Nat : n \div 10 \in Nat
  OBVIOUS
<1>3. Itself \in [Nat -> Nat] /\ LastOff \in [Nat -> Nat]
  BY <1>2 DEF Itself, LastOff
<1>4. ASSUME NEW n \in Nat, n \notin B  PROVE Itself[LastOff[n]] < Itself[n]
  <2>1. n # 0
    BY <1>4
  <2>2. LastOff[n] = n \div 10 /\ Itself[n] = n /\ Itself[n \div 10] = n \div 10
    BY <1>2 DEF Itself, LastOff
  <2> QED BY <2>1, <2>2, TenthLess
<1> QED BY <1>3, <1>4 DEF Descends

(* sum_digs is defined for every number and obeys its recursion.           *)
LEMMA SumDigs ==
    /\ sum_digs \in [Nat -> Nat]
    /\ \A n \in Nat : sum_digs[n] = IF n = 0 THEN 0 ELSE (n % 10) + sum_digs[n \div 10]
<1> DEFINE B == {0}
           base == [n \in Nat |-> 0]
           step == [p \in Nat \X Nat |-> (p[1] % 10) + p[2]]
           Eq(f) == f = [n \in Nat |-> IF n = 0 THEN 0 ELSE (n % 10) + f[n \div 10]]
<1>1. Recursion(Nat, Itself, B, LastOff, Nat, base, step)
  <2>1. ASSUME NEW p \in Nat \X Nat  PROVE (p[1] % 10) + p[2] \in Nat
    <3>1. p[1] \in Nat /\ p[2] \in Nat
      OBVIOUS
    <3>2. p[1] % 10 \in Nat
      BY <3>1
    <3> QED BY <3>1, <3>2
  <2>2. base \in [Nat -> Nat] /\ step \in [Nat \X Nat -> Nat]
    BY <2>1
  <2> QED BY <2>2, DigitsEnd DEF Recursion
<1>2. ASSUME NEW n \in Nat, NEW v \in Nat
      PROVE  LastOff[n] = n \div 10 /\ base[n] = 0 /\ step[n, v] = (n % 10) + v
  BY DEF LastOff
<1> HIDE DEF base, step
<1>3. ASSUME NEW f, Eq(f)  PROVE f \in [Nat -> Nat]
  <2> DEFINE Good == {n \in Nat : f[n] \in Nat}
  <2>1. ASSUME NEW n \in Nat, \A m \in Nat : Itself[m] < Itself[n] => m \in Good
        PROVE  n \in Good
    <3>1. f[n] = IF n = 0 THEN 0 ELSE (n % 10) + f[n \div 10]
      BY <1>3
    <3>2. CASE n = 0
      BY <3>1, <3>2
    <3>3. CASE n # 0
      <4>1. n \div 10 \in Nat /\ Itself[n \div 10] < Itself[n] /\ n % 10 \in Nat
        BY <3>3, TenthLess DEF Itself
      <4>2. f[n \div 10] \in Nat
        BY <2>1, <4>1
      <4> QED BY <3>1, <3>3, <4>1, <4>2
    <3> QED BY <3>2, <3>3
  <2>2. \A n \in Nat : n \in Good
    <3> HIDE DEF Good
    <3> QED BY <2>1, ByMeasure, ItselfType
  <2> QED BY <1>3, <2>2
<1>4. \E f : Eq(f)
  <2>1. PICK f \in [Nat -> Nat] : Solves(f, Nat, B, base, step, LastOff)
    <3> HIDE DEF B
    <3> QED BY <1>1, RecursionExists
  <2>2. ASSUME NEW n \in Nat
        PROVE  f[n] = IF n = 0 THEN 0 ELSE (n % 10) + f[n \div 10]
    <3>1. Obeys(f, n, B, base, step, LastOff) /\ n \div 10 \in Nat
      BY <2>1 DEF Solves
    <3>2. f[n \div 10] \in Nat
      BY <3>1
    <3> QED BY <1>2, <3>1, <3>2 DEF Obeys
  <2> QED BY <2>2
<1>5. Eq(sum_digs)
  BY <1>4 DEF sum_digs
<1> QED BY <1>3, <1>5

(* So is sum_digs_sq.                                                      *)
LEMMA SumDigsSq ==
    /\ sum_digs_sq \in [Nat -> Nat]
    /\ \A n \in Nat : sum_digs_sq[n] =
           IF n = 0 THEN 0 ELSE ((n % 10) * (n % 10)) + sum_digs_sq[n \div 10]
<1> DEFINE B == {0}
           base == [n \in Nat |-> 0]
           step == [p \in Nat \X Nat |-> ((p[1] % 10) * (p[1] % 10)) + p[2]]
           Eq(f) == f = [n \in Nat |-> IF n = 0 THEN 0 ELSE ((n % 10) * (n % 10)) + f[n \div 10]]
<1>1. Recursion(Nat, Itself, B, LastOff, Nat, base, step)
  <2>1. ASSUME NEW p \in Nat \X Nat  PROVE ((p[1] % 10) * (p[1] % 10)) + p[2] \in Nat
    <3>1. p[1] \in Nat /\ p[2] \in Nat
      OBVIOUS
    <3>2. (p[1] % 10) * (p[1] % 10) \in Nat
      BY <3>1
    <3> QED BY <3>1, <3>2
  <2>2. base \in [Nat -> Nat] /\ step \in [Nat \X Nat -> Nat]
    BY <2>1
  <2> QED BY <2>2, DigitsEnd DEF Recursion
<1>2. ASSUME NEW n \in Nat, NEW v \in Nat
      PROVE  LastOff[n] = n \div 10 /\ base[n] = 0 /\ step[n, v] = ((n % 10) * (n % 10)) + v
  BY DEF LastOff
<1> HIDE DEF base, step
<1>3. ASSUME NEW f, Eq(f)  PROVE f \in [Nat -> Nat]
  <2> DEFINE Good == {n \in Nat : f[n] \in Nat}
  <2>1. ASSUME NEW n \in Nat, \A m \in Nat : Itself[m] < Itself[n] => m \in Good
        PROVE  n \in Good
    <3>1. f[n] = IF n = 0 THEN 0 ELSE ((n % 10) * (n % 10)) + f[n \div 10]
      BY <1>3
    <3>2. CASE n = 0
      BY <3>1, <3>2
    <3>3. CASE n # 0
      <4>1. n \div 10 \in Nat /\ Itself[n \div 10] < Itself[n] /\ (n % 10) * (n % 10) \in Nat
        BY <3>3, TenthLess DEF Itself
      <4>2. f[n \div 10] \in Nat
        BY <2>1, <4>1
      <4> QED BY <3>1, <3>3, <4>1, <4>2
    <3> QED BY <3>2, <3>3
  <2>2. \A n \in Nat : n \in Good
    <3> HIDE DEF Good
    <3> QED BY <2>1, ByMeasure, ItselfType
  <2> QED BY <1>3, <2>2
<1>4. \E f : Eq(f)
  <2>1. PICK f \in [Nat -> Nat] : Solves(f, Nat, B, base, step, LastOff)
    <3> HIDE DEF B
    <3> QED BY <1>1, RecursionExists
  <2>2. ASSUME NEW n \in Nat
        PROVE  f[n] = IF n = 0 THEN 0 ELSE ((n % 10) * (n % 10)) + f[n \div 10]
    <3>1. Obeys(f, n, B, base, step, LastOff) /\ n \div 10 \in Nat
      BY <2>1 DEF Solves
    <3>2. f[n \div 10] \in Nat
      BY <3>1
    <3> QED BY <1>2, <3>1, <3>2 DEF Obeys
  <2> QED BY <2>2
<1>5. Eq(sum_digs_sq)
  BY <1>4 DEF sum_digs_sq
<1> QED BY <1>3, <1>5

(* So are the digits, which there is always one of.                        *)
LEMMA DigitsType ==
    /\ Digits \in [Nat -> Seq(Nat)]
    /\ \A n \in Nat : n < 10 => Digits[n] = <<n>>
    /\ \A n \in Nat : n >= 10 => Digits[n] = Append(Digits[n \div 10], n % 10)
<1> DEFINE B == 0..9
           base == [n \in Nat |-> <<n>>]
           step == [p \in Nat \X Seq(Nat) |-> Append(p[2], p[1] % 10)]
           Eq(f) == f = [n \in Nat |-> IF n < 10 THEN <<n>> ELSE Append(f[n \div 10], n % 10)]
<1>0. \A n \in Nat : n \in B <=> n < 10
  OBVIOUS
<1>1. Recursion(Nat, Itself, B, LastOff, Seq(Nat), base, step)
  <2>1. ASSUME NEW p \in Nat \X Seq(Nat)  PROVE Append(p[2], p[1] % 10) \in Seq(Nat)
    <3>1. p[1] \in Nat /\ p[2] \in Seq(Nat)
      OBVIOUS
    <3>2. p[1] % 10 \in Nat
      BY <3>1
    <3> QED BY <3>1, <3>2
  <2>2. base \in [Nat -> Seq(Nat)] /\ step \in [Nat \X Seq(Nat) -> Seq(Nat)]
    BY <2>1
  <2> QED BY <2>2, DigitsEnd DEF Recursion
<1>2. ASSUME NEW n \in Nat, NEW v \in Seq(Nat)
      PROVE  LastOff[n] = n \div 10 /\ base[n] = <<n>> /\ step[n, v] = Append(v, n % 10)
  BY DEF LastOff
<1> HIDE DEF base, step, B
<1>3. ASSUME NEW f, Eq(f)  PROVE f \in [Nat -> Seq(Nat)]
  <2> DEFINE Good == {n \in Nat : f[n] \in Seq(Nat)}
  <2>1. ASSUME NEW n \in Nat, \A m \in Nat : Itself[m] < Itself[n] => m \in Good
        PROVE  n \in Good
    <3>1. f[n] = IF n < 10 THEN <<n>> ELSE Append(f[n \div 10], n % 10)
      BY <1>3
    <3>2. CASE n < 10
      <4>1. f[n] = <<n>> /\ <<n>> \in Seq(Nat)
        BY <3>1, <3>2
      <4> QED BY <4>1
    <3>3. CASE ~(n < 10)
      <4>1. n \div 10 \in Nat /\ Itself[n \div 10] < Itself[n] /\ n % 10 \in Nat
        BY <3>3, TenthLess DEF Itself
      <4>2. f[n \div 10] \in Seq(Nat)
        BY <2>1, <4>1
      <4>3. f[n] = Append(f[n \div 10], n % 10)
        BY <3>1, <3>3
      <4> HIDE <2>1, <1>3
      <4>4. Append(f[n \div 10], n % 10) \in Seq(Nat)
        BY <4>1, <4>2
      <4> QED BY <4>3, <4>4
    <3> QED BY <3>2, <3>3
  <2>2. \A n \in Nat : n \in Good
    <3> HIDE DEF Good
    <3> QED BY <2>1, ByMeasure, ItselfType
  <2> QED BY <1>3, <2>2
<1>4. \E f : Eq(f)
  <2>1. PICK f \in [Nat -> Seq(Nat)] : Solves(f, Nat, B, base, step, LastOff)
    BY <1>1, RecursionExists
  <2>2. ASSUME NEW n \in Nat
        PROVE  f[n] = IF n < 10 THEN <<n>> ELSE Append(f[n \div 10], n % 10)
    <3>1. Obeys(f, n, B, base, step, LastOff) /\ n \div 10 \in Nat
      BY <2>1 DEF Solves
    <3>2. f[n \div 10] \in Seq(Nat)
      BY <3>1
    <3> QED BY <1>0, <1>2, <3>1, <3>2 DEF Obeys
  <2> QED BY <2>2
<1>5. Eq(Digits)
  BY <1>4 DEF Digits
<1>6. \A n \in Nat : Digits[n] = IF n < 10 THEN <<n>> ELSE Append(Digits[n \div 10], n % 10)
  BY <1>5
<1>7. Digits \in [Nat -> Seq(Nat)]
  BY <1>3, <1>5
<1>8. \A n \in Nat : n < 10 => Digits[n] = <<n>>
  BY <1>6
<1>9. ASSUME NEW n \in Nat, n >= 10
      PROVE  Digits[n] = Append(Digits[n \div 10], n % 10)
  <2>1. ~(n < 10)
    BY <1>9
  <2> QED BY <1>6, <2>1
<1> HIDE <1>5, <1>6
<1> QED BY <1>7, <1>8, <1>9

(* A number whose digits are taken off from the right is one of multiples  *)
(* of their sums all the way.                                              *)
LEMMA HarshadDownIs ==
    \A n \in Nat : HarshadDown[n] <=> n = 0 \/ (is_harshad(n) /\ HarshadDown[n \div 10])
<1> DEFINE B == {0}
           base == [n \in Nat |-> TRUE]
           step == [p \in Nat \X BOOLEAN |-> is_harshad(p[1]) /\ p[2]]
           Eq(f) == f = [n \in Nat |-> n = 0 \/ (is_harshad(n) /\ f[n \div 10])]
<1>1. Recursion(Nat, Itself, B, LastOff, BOOLEAN, base, step)
  <2>1. ASSUME NEW p \in Nat \X BOOLEAN  PROVE (is_harshad(p[1]) /\ p[2]) \in BOOLEAN
    OBVIOUS
  <2>2. base \in [Nat -> BOOLEAN] /\ step \in [Nat \X BOOLEAN -> BOOLEAN]
    BY <2>1
  <2> QED BY <2>2, DigitsEnd DEF Recursion
<1>2. ASSUME NEW n \in Nat, NEW v \in BOOLEAN
      PROVE  LastOff[n] = n \div 10 /\ base[n] /\ (step[n, v] <=> (is_harshad(n) /\ v))
  BY DEF LastOff
<1> HIDE DEF base, step
<1>4. \E f : Eq(f)
  <2>1. PICK f \in [Nat -> BOOLEAN] : Solves(f, Nat, B, base, step, LastOff)
    <3> HIDE DEF B
    <3> QED BY <1>1, RecursionExists
  <2>2. ASSUME NEW n \in Nat
        PROVE  f[n] = (n = 0 \/ (is_harshad(n) /\ f[n \div 10]))
    <3>1. Obeys(f, n, B, base, step, LastOff) /\ n \div 10 \in Nat
      BY <2>1 DEF Solves
    <3>2. f[n \div 10] \in BOOLEAN
      BY <3>1
    <3> QED BY <1>2, <3>1, <3>2 DEF Obeys
  <2> QED BY <2>2
<1>5. Eq(HarshadDown)
  BY <1>4 DEF HarshadDown
<1> QED BY <1>5

-----------------------------------------------------------------------------
(* Digits by Horner's rule, as a relation.                                 *)
Weighs(f, digits, base) ==
    f = [k \in 0..Len(digits) |-> IF k = 0 THEN 0 ELSE base * f[k - 1] + digits[k]]

(* The partial values are numbers, each from the one before.               *)
LEMMA WeighsType ==
    ASSUME NEW digits \in Seq(Nat), NEW base \in Nat, NEW f, Weighs(f, digits, base)
    PROVE  /\ f \in [0..Len(digits) -> Nat] /\ f[0] = 0
           /\ \A k \in 1..Len(digits) : f[k] = base * f[k - 1] + digits[k]
<1> DEFINE I == 0..Len(digits)
           measure == [k \in I |-> k]
           Good == {k \in I : f[k] \in Nat}
<1>0. Len(digits) \in Nat /\ \A k \in 1..Len(digits) : digits[k] \in Nat
  OBVIOUS
<1>1. \A k \in I : f[k] = IF k = 0 THEN 0 ELSE base * f[k - 1] + digits[k]
  BY DEF Weighs
<1>2. ASSUME NEW k \in I, \A m \in I : measure[m] < measure[k] => m \in Good
      PROVE  k \in Good
  <2>1. CASE k = 0
    BY <1>1, <2>1
  <2>2. CASE k # 0
    <3>1. k - 1 \in I /\ k \in 1..Len(digits) /\ measure[k - 1] < measure[k]
      BY <1>0, <2>2
    <3>2. f[k - 1] \in Nat /\ digits[k] \in Nat
      BY <1>0, <1>2, <3>1
    <3>3. base * f[k - 1] + digits[k] \in Nat
      <4>1. ASSUME NEW x \in Nat, NEW y \in Nat  PROVE base * x + y \in Nat
        OBVIOUS
      <4> QED BY <3>2, <4>1
    <3> QED BY <1>1, <2>2, <3>3
  <2> QED BY <2>1, <2>2
<1>3. measure \in [I -> Nat]
  BY <1>0
<1>4. \A k \in I : k \in Good
  <2> HIDE DEF Good, I, measure
  <2> QED BY <1>2, <1>3, ByMeasure
<1>5. f \in [0..Len(digits) -> Nat]
  BY <1>4 DEF Weighs
<1>6. f[0] = 0
  BY <1>0, <1>1
<1>7. \A k \in 1..Len(digits) : f[k] = base * f[k - 1] + digits[k]
  BY <1>0, <1>1
<1> QED BY <1>5, <1>6, <1>7

(* There are partial values for every sequence of digits.                  *)
LEMMA WeighsExists ==
    ASSUME NEW digits \in Seq(Nat), NEW base \in Nat
    PROVE  \E f : Weighs(f, digits, base)
<1> DEFINE I == 0..Len(digits)
           measure == [k \in I |-> k]
           pred == [k \in I |-> IF k = 0 THEN 0 ELSE k - 1]
           B == {0}
           zero == [k \in I |-> 0]
           step == [p \in I \X Nat |-> IF p[1] = 0 THEN 0 ELSE base * p[2] + digits[p[1]]]
<1>0. Len(digits) \in Nat /\ \A k \in 1..Len(digits) : digits[k] \in Nat
  OBVIOUS
<1>1. \A k \in I : pred[k] \in I /\ (k # 0 => pred[k] = k - 1)
  BY <1>0
<1>2. Descends(I, measure, B, pred)
  <2>1. measure \in [I -> Nat] /\ pred \in [I -> I]
    BY <1>0, <1>1
  <2>2. ASSUME NEW k \in I, k \notin B  PROVE measure[pred[k]] < measure[k]
    <3>1. k # 0 /\ pred[k] = k - 1 /\ k - 1 \in I
      BY <1>0, <1>1, <2>2
    <3>2. measure[k - 1] = k - 1 /\ measure[k] = k /\ k - 1 < k
      BY <3>1
    <3> QED BY <3>1, <3>2
  <2> QED BY <2>1, <2>2 DEF Descends
<1>3. zero \in [I -> Nat] /\ step \in [I \X Nat -> Nat]
  <2>1. ASSUME NEW k \in I, NEW v \in Nat, k # 0  PROVE base * v + digits[k] \in Nat
    <3>1. digits[k] \in Nat
      BY <1>0, <2>1
    <3> QED BY <3>1
  <2>2. ASSUME NEW p \in I \X Nat
        PROVE  (IF p[1] = 0 THEN 0 ELSE base * p[2] + digits[p[1]]) \in Nat
    BY <2>1
  <2> HIDE DEF I
  <2> QED BY <2>2
<1>4. Recursion(I, measure, B, pred, Nat, zero, step)
  BY <1>2, <1>3 DEF Recursion
<1>5. PICK f \in [I -> Nat] : Solves(f, I, B, zero, step, pred)
  <2> HIDE DEF I, measure, B, pred, zero, step
  <2> QED BY <1>4, RecursionExists
<1>6. ASSUME NEW k \in I
      PROVE  f[k] = IF k = 0 THEN 0 ELSE base * f[k - 1] + digits[k]
  <2>1. Obeys(f, k, B, zero, step, pred)
    BY <1>5 DEF Solves
  <2>2. CASE k = 0
    BY <2>1, <2>2 DEF Obeys
  <2>3. CASE k # 0
    <3>1. pred[k] = k - 1 /\ k - 1 \in I
      BY <1>1, <2>3
    <3>2. f[k] = step[k, f[k - 1]]
      <4> HIDE DEF step, pred, I
      <4> QED BY <2>1, <2>3, <3>1 DEF Obeys
    <3>3. f[k - 1] \in Nat
      BY <3>1
    <3>4. step[k, f[k - 1]] = base * f[k - 1] + digits[k]
      <4> HIDE DEF I
      <4> QED BY <2>3, <3>3
    <3> QED BY <2>3, <3>2, <3>4
  <2> QED BY <2>2, <2>3
<1> QED BY <1>5, <1>6 DEF Weighs

(* A digit more multiplies what was there by the base.                     *)
LEMMA WeighsAppend ==
    ASSUME NEW digits \in Seq(Nat), NEW base \in Nat, NEW d \in Nat, NEW f, NEW h,
           Weighs(f, digits, base), Weighs(h, Append(digits, d), base)
    PROVE  h[Len(digits) + 1] = base * f[Len(digits)] + d
<1> DEFINE I == 0..Len(digits)
           measure == [k \in I |-> k]
           Good == {k \in I : h[k] = f[k]}
           more == Append(digits, d)
<1>0. /\ Len(digits) \in Nat /\ more \in Seq(Nat) /\ Len(more) = Len(digits) + 1
      /\ \A k \in 1..Len(digits) : more[k] = digits[k]
      /\ more[Len(digits) + 1] = d
  OBVIOUS
<1> HIDE DEF more
<1>1. /\ f[0] = 0 /\ \A k \in 1..Len(digits) : f[k] = base * f[k - 1] + digits[k]
      /\ h[0] = 0 /\ \A k \in 1..Len(digits) + 1 : h[k] = base * h[k - 1] + more[k]
  <2>1. f[0] = 0 /\ \A k \in 1..Len(digits) : f[k] = base * f[k - 1] + digits[k]
    BY WeighsType
  <2>2. Weighs(h, more, base)
    BY DEF more
  <2>3. h[0] = 0 /\ \A k \in 1..Len(more) : h[k] = base * h[k - 1] + more[k]
    <3>1. more \in Seq(Nat)
      BY <1>0
    <3> QED BY <2>2, <3>1, WeighsType
  <2> QED BY <1>0, <2>1, <2>3
<1>2. ASSUME NEW k \in I, \A m \in I : measure[m] < measure[k] => m \in Good
      PROVE  k \in Good
  <2>1. CASE k = 0
    BY <1>1, <2>1
  <2>2. CASE k # 0
    <3>1. k - 1 \in I /\ k \in 1..Len(digits) /\ measure[k - 1] < measure[k]
          /\ k \in 1..Len(digits) + 1
      BY <1>0, <2>2
    <3>2. h[k - 1] = f[k - 1] /\ more[k] = digits[k]
      BY <1>0, <1>2, <3>1
    <3> QED BY <1>1, <3>1, <3>2
  <2> QED BY <2>1, <2>2
<1>3. measure \in [I -> Nat]
  BY <1>0
<1>4. \A k \in I : k \in Good
  <2> HIDE DEF Good, I, measure
  <2> QED BY <1>2, <1>3, ByMeasure
<1>5. h[Len(digits)] = f[Len(digits)]
  BY <1>0, <1>4
<1>6. Len(digits) + 1 \in 1..Len(digits) + 1 /\ (Len(digits) + 1) - 1 = Len(digits)
  BY <1>0
<1>7. h[Len(digits) + 1] = base * h[(Len(digits) + 1) - 1] + more[Len(digits) + 1]
  BY <1>1, <1>6
<1> QED BY <1>0, <1>5, <1>6, <1>7

(* Horner takes the last of them.                                          *)
LEMMA HornerWeighs ==
    ASSUME NEW digits \in Seq(Nat), NEW base \in Nat
    PROVE  \E f : Weighs(f, digits, base) /\ Horner(digits, base) = f[Len(digits)]
<1> DEFINE v == CHOOSE f : f = [k \in 0..Len(digits) |->
                                  IF k = 0 THEN 0 ELSE base * f[k - 1] + digits[k]]
<1>1. v = [k \in 0..Len(digits) |-> IF k = 0 THEN 0 ELSE base * v[k - 1] + digits[k]]
  <2>1. \E f : f = [k \in 0..Len(digits) |->
                      IF k = 0 THEN 0 ELSE base * f[k - 1] + digits[k]]
    BY WeighsExists DEF Weighs
  <2> QED BY <2>1
<1>2. Horner(digits, base) = v[Len(digits)]
  BY DEF Horner
<1> QED BY <1>1, <1>2 DEF Weighs

(* One digit is its own value.                                             *)
LEMMA HornerOne ==
    ASSUME NEW n \in Nat, NEW base \in Nat  PROVE Horner(<<n>>, base) = n
<1> DEFINE one == <<n>>
<1>1. one \in Seq(Nat) /\ Len(one) = 1 /\ one[1] = n
  OBVIOUS
<1> HIDE DEF one
<1>2. PICK f : Weighs(f, one, base) /\ Horner(one, base) = f[Len(one)]
  BY <1>1, HornerWeighs
<1>3. f[0] = 0 /\ \A k \in 1..Len(one) : f[k] = base * f[k - 1] + one[k]
  BY <1>1, <1>2, WeighsType
<1>4. 1 \in 1..Len(one) /\ 1 - 1 = 0
  BY <1>1
<1>5. f[1] = base * f[0] + n
  BY <1>1, <1>3, <1>4
<1>6. Horner(one, base) = n
  BY <1>1, <1>2, <1>3, <1>5
<1> QED BY <1>6 DEF one

(* The value of a sequence with a digit more.                              *)
LEMMA HornerAppend ==
    ASSUME NEW digits \in Seq(Nat), NEW base \in Nat, NEW d \in Nat
    PROVE  /\ Horner(digits, base) \in Nat
           /\ Horner(Append(digits, d), base) = base * Horner(digits, base) + d
<1>1. Append(digits, d) \in Seq(Nat) /\ Len(Append(digits, d)) = Len(digits) + 1
      /\ Len(digits) \in Nat
  OBVIOUS
<1>2. PICK f : Weighs(f, digits, base) /\ Horner(digits, base) = f[Len(digits)]
  BY HornerWeighs
<1>3. PICK h : Weighs(h, Append(digits, d), base)
               /\ Horner(Append(digits, d), base) = h[Len(Append(digits, d))]
  BY <1>1, HornerWeighs
<1>4. h[Len(digits) + 1] = base * f[Len(digits)] + d
  BY <1>2, <1>3, WeighsAppend
<1>5. f[Len(digits)] \in Nat
  BY <1>1, <1>2, WeighsType
<1> QED BY <1>1, <1>2, <1>3, <1>4, <1>5

-----------------------------------------------------------------------------
(* The digits of a number have its value, and the sum of sum_digs.         *)
LEMMA DigitsRight ==
    \A n \in Nat : /\ Len(Digits[n]) \in Nat \ {0}
                   /\ Horner(Digits[n], 10) = n /\ Horner(Digits[n], 1) = sum_digs[n]
<1> DEFINE Right(n) == /\ Len(Digits[n]) \in Nat \ {0}
                       /\ Horner(Digits[n], 10) = n /\ Horner(Digits[n], 1) = sum_digs[n]
           Good == {n \in Nat : Right(n)}
<1>1. ASSUME NEW n \in Nat, \A m \in Nat : Itself[m] < Itself[n] => m \in Good
      PROVE  Right(n)
  <2>1. CASE n < 10
    <3>1. Digits[n] = <<n>>
      BY <2>1, DigitsType
    <3>2. Horner(<<n>>, 10) = n /\ Horner(<<n>>, 1) = n
      BY HornerOne
    <3>3. n % 10 = n /\ n \div 10 = 0
      BY <2>1
    <3>4. sum_digs[0] = 0 /\ (n # 0 => sum_digs[n] = n + sum_digs[0])
      BY <3>3, SumDigs
    <3>5. sum_digs[n] = n
      BY <3>4
    <3>6. Len(<<n>>) = 1
      OBVIOUS
    <3> QED BY <3>1, <3>2, <3>5, <3>6
  <2>2. CASE n >= 10
    <3> DEFINE m == n \div 10
               d == n % 10
    <3>1. m \in Nat /\ m < n /\ d \in Nat /\ n # 0 /\ n = 10 * m + d
      BY <2>2
    <3>2. Digits[n] = Append(Digits[m], d) /\ Digits[m] \in Seq(Nat)
      BY <2>2, <3>1, DigitsType
    <3>3. sum_digs[n] = d + sum_digs[m] /\ sum_digs[m] \in Nat
      BY <3>1, SumDigs
    <3>4. Itself[m] < Itself[n]
      BY <3>1 DEF Itself
    <3> HIDE DEF m, d
    <3>5. Right(m)
      BY <1>1, <3>1, <3>4
    <3> DEFINE D == Digits[m]
    <3>6. D \in Seq(Nat) /\ Horner(D, 10) = m /\ Horner(D, 1) = sum_digs[m]
          /\ Len(D) \in Nat
      BY <3>2, <3>5
    <3> HIDE DEF D
    <3>7. Horner(Append(D, d), 10) = 10 * Horner(D, 10) + d
      BY <3>1, <3>6, HornerAppend
    <3>8. Horner(Append(D, d), 1) = 1 * Horner(D, 1) + d
      BY <3>1, <3>6, HornerAppend
    <3>9. Len(Append(D, d)) = Len(D) + 1
      BY <3>1, <3>6
    <3>10. Digits[n] = Append(D, d)
      BY <3>2 DEF D
    <3>11. Horner(Digits[n], 10) = n
      BY <3>1, <3>6, <3>7, <3>10
    <3>12. Horner(Digits[n], 1) = sum_digs[n]
      BY <3>1, <3>3, <3>6, <3>8, <3>10
    <3>13. Len(Digits[n]) \in Nat \ {0}
      BY <3>6, <3>9, <3>10
    <3> QED BY <3>11, <3>12, <3>13
  <2> QED BY <2>1, <2>2
<1>2. \A n \in Nat : n \in Good
  <2>1. ASSUME NEW n \in Nat, \A m \in Nat : Itself[m] < Itself[n] => m \in Good
        PROVE  n \in Good
    BY <1>1, <2>1
  <2> HIDE DEF Good
  <2> QED BY <2>1, ByMeasure, ItselfType
<1> QED BY <1>2

(* What the loop of is_right_truncatable accepts is one.                   *)
LEMMA HarshadRight ==
    \A n \in Nat : n > 0 /\ HarshadDown[n] => RightTruncatableHarshad(n)
<1> DEFINE Right(n) == n > 0 /\ HarshadDown[n] => RightTruncatableHarshad(n)
           Good == {n \in Nat : Right(n)}
           Fits(p) == p > 0 /\ p % DigitSum(p) = 0
<1>0. ASSUME NEW n \in Nat, n > 0, HarshadDown[n]
      PROVE  /\ Value(Front(Digits[n], Len(Digits[n]))) = n /\ Fits(n)
             /\ HarshadDown[n \div 10]
  <2>1. is_harshad(n) /\ HarshadDown[n \div 10]
    <3>1. n # 0
      BY <1>0
    <3> QED BY <1>0, <3>1, HarshadDownIs
  <2> DEFINE D == Digits[n]
  <2>2. D \in Seq(Nat) /\ Horner(D, 10) = n /\ Horner(D, 1) = sum_digs[n]
    BY DigitsType, DigitsRight
  <2>3. SubSeq(D, 1, Len(D)) = D
    <3> HIDE DEF D
    <3> QED BY <2>2
  <2>4. Value(Front(D, Len(D))) = n
    BY <2>2, <2>3 DEF Value, Front
  <2>5. n % DigitSum(n) = 0
    BY <2>1, <2>2 DEF is_harshad, DigitSum
  <2> QED BY <1>0, <2>1, <2>4, <2>5
<1>1. ASSUME NEW n \in Nat, \A m \in Nat : Itself[m] < Itself[n] => m \in Good,
             n > 0, HarshadDown[n],
             NEW k \in 1..Len(Digits[n])
      PROVE  Fits(Value(Front(Digits[n], k)))
  <2>1. CASE k = Len(Digits[n])
    BY <1>0, <1>1, <2>1
  <2>2. CASE k # Len(Digits[n])
    <3>1. Len(Digits[n]) \in Nat /\ Len(Digits[n]) # 1 /\ k < Len(Digits[n])
      <4> DEFINE L == Len(Digits[n])
      <4>1. L \in Nat /\ k \in 1..L /\ k # L
        BY <2>2, DigitsRight
      <4> HIDE DEF L
      <4>2. L \in Nat /\ L # 1 /\ k < L
        BY <4>1
      <4> QED BY <4>2 DEF L
    <3>2. n >= 10
      <4>1. n < 10 => Digits[n] = <<n>>
        BY DigitsType
      <4>2. Len(<<n>>) = 1
        OBVIOUS
      <4>3. ~(n < 10)
        BY <3>1, <4>1, <4>2
      <4> QED BY <4>3
    <3> DEFINE m == n \div 10
               d == n % 10
               D == Digits[m]
    <3>3. m \in Nat /\ m < n /\ d \in Nat /\ m > 0
      BY <3>2
    <3>4. Digits[n] = Append(D, d) /\ D \in Seq(Nat)
      BY <3>2, <3>3, DigitsType
    <3>5. Itself[m] < Itself[n]
      BY <3>3 DEF Itself
    <3>6. HarshadDown[m]
      BY <1>0, <1>1
    <3>7. RightTruncatableHarshad(m)
      <4> HIDE DEF m, d, D
      <4> QED BY <1>1, <3>3, <3>5, <3>6
    <3>8. /\ k \in 1..Len(D) /\ SubSeq(Append(D, d), 1, k) = SubSeq(D, 1, k)
      <4> HIDE DEF m, d, D
      <4>1. Len(Append(D, d)) = Len(D) + 1 /\ Len(D) \in Nat
        BY <3>3, <3>4
      <4>2. k \in 1..Len(D)
        BY <3>1, <3>4, <4>1
      <4>3. \A j \in 1..k : Append(D, d)[j] = D[j]
        BY <3>3, <3>4, <4>1, <4>2
      <4>4. Append(D, d) \in Seq(Nat)
        BY <3>3, <3>4
      <4>5. SubSeq(Append(D, d), 1, k) = SubSeq(D, 1, k)
        BY <3>3, <3>4, <4>1, <4>2, <4>3, <4>4
      <4> QED BY <4>2, <4>5
    <3> QED BY <3>4, <3>7, <3>8 DEF RightTruncatableHarshad, Front
  <2> QED BY <2>1, <2>2
<1>2. ASSUME NEW n \in Nat, \A m \in Nat : Itself[m] < Itself[n] => m \in Good
      PROVE  n \in Good
  <2> SUFFICES ASSUME n > 0, HarshadDown[n]  PROVE RightTruncatableHarshad(n)
    OBVIOUS
  <2>1. \A k \in 1..Len(Digits[n]) : Fits(Value(Front(Digits[n], k)))
    <3> HIDE DEF Fits, Good
    <3> QED BY <1>1, <1>2
  <2> QED BY <2>1 DEF RightTruncatableHarshad
<1>3. \A n \in Nat : n \in Good
  <2> HIDE DEF Good
  <2> QED BY <1>2, ByMeasure, ItselfType
<1> QED BY <1>3

-----------------------------------------------------------------------------
(* Euclid's recursion, on the pairs of numbers.                            *)
Pairs == Nat \X Nat
Second == [p \in Pairs |-> p[2]]
Turned == [p \in Pairs |-> IF p[2] = 0 THEN p ELSE <<p[2], p[1] % p[2]>>]

(* The second number of the pair becomes smaller.                          *)
LEMMA EuclidDescends ==
    Descends(Pairs, Second, {p \in Pairs : p[2] = 0}, Turned)
<1>1. ASSUME NEW p \in Pairs, p[2] # 0
      PROVE  <<p[2], p[1] % p[2]>> \in Pairs /\ p[1] % p[2] < p[2]
  <2>1. p[1] \in Nat /\ p[2] \in Nat
    BY DEF Pairs
  <2>2. p[1] % p[2] \in Nat /\ p[1] % p[2] < p[2]
    BY <1>1, <2>1
  <2> QED BY <2>1, <2>2 DEF Pairs
<1>2. Second \in [Pairs -> Nat]
  <2>1. \A p \in Pairs : p[2] \in Nat
    BY DEF Pairs
  <2> QED BY <2>1 DEF Second
<1>3. Turned \in [Pairs -> Pairs]
  BY <1>1 DEF Turned
<1>4. ASSUME NEW p \in Pairs, p[2] # 0  PROVE Second[Turned[p]] < Second[p]
  <2>1. Turned[p] = <<p[2], p[1] % p[2]>> /\ Turned[p] \in Pairs
    BY <1>1, <1>4 DEF Turned
  <2>2. Second[Turned[p]] = p[1] % p[2] /\ Second[p] = p[2]
    BY <2>1 DEF Second
  <2> QED BY <1>1, <1>4, <2>2
<1> QED BY <1>2, <1>3, <1>4 DEF Descends

(* gcdfast is defined for every pair and obeys its recursion.              *)
LEMMA GcdFastIs ==
    /\ gcdfast \in [Pairs -> Nat]
    /\ \A p \in Pairs : gcdfast[p] = IF p[2] = 0 THEN p[1] ELSE gcdfast[<<p[2], p[1] % p[2]>>]
<1> DEFINE B == {p \in Pairs : p[2] = 0}
           base == [p \in Pairs |-> p[1]]
           step == [q \in Pairs \X Nat |-> q[2]]
           Eq(f) == f = [p \in Nat \X Nat |-> IF p[2] = 0 THEN p[1] ELSE f[<<p[2], p[1] % p[2]>>]]
<1>1. Recursion(Pairs, Second, B, Turned, Nat, base, step)
  <2>1. \A p \in Pairs : p[1] \in Nat
    BY DEF Pairs
  <2>2. base \in [Pairs -> Nat] /\ step \in [Pairs \X Nat -> Nat]
    BY <2>1
  <2> QED BY <2>2, EuclidDescends DEF Recursion
<1>2. \E f : Eq(f)
  <2>1. PICK f \in [Pairs -> Nat] : Solves(f, Pairs, B, base, step, Turned)
    <3> HIDE DEF B, base, step
    <3> QED BY <1>1, RecursionExists
  <2>2. ASSUME NEW p \in Pairs
        PROVE  f[p] = IF p[2] = 0 THEN p[1] ELSE f[<<p[2], p[1] % p[2]>>]
    <3>2. Obeys(f, p, B, base, step, Turned)
      BY <2>1 DEF Solves
    <3>3. CASE p[2] = 0
      BY <3>2, <3>3 DEF Obeys
    <3>4. CASE p[2] # 0
      <4>1. Turned[p] = <<p[2], p[1] % p[2]>> /\ Turned[p] \in Pairs
        BY <3>4, EuclidDescends DEF Turned, Descends
      <4>2. f[Turned[p]] \in Nat
        BY <4>1
      <4>3. step[p, f[Turned[p]]] = f[Turned[p]]
        <5> HIDE DEF Pairs
        <5> QED BY <4>2
      <4>4. p \notin B
        BY <3>4
      <4>5. f[p] = f[Turned[p]]
        <5> HIDE DEF B, step, base
        <5> QED BY <3>2, <4>3, <4>4 DEF Obeys
      <4> QED BY <3>4, <4>1, <4>5
    <3> QED BY <3>3, <3>4
  <2> HIDE DEF base, step, B
  <2>3. f = [p \in Pairs |-> f[p]]
    OBVIOUS
  <2>4. Eq(f)
    BY <2>2, <2>3 DEF Pairs
  <2> QED BY <2>4
<1>3. ASSUME NEW f, Eq(f)  PROVE f \in [Pairs -> Nat]
  <2> DEFINE Good == {p \in Pairs : f[p] \in Nat}
  <2>0. ASSUME NEW p \in Pairs
        PROVE  f[p] = IF p[2] = 0 THEN p[1] ELSE f[<<p[2], p[1] % p[2]>>]
    BY <1>3 DEF Pairs
  <2>1. ASSUME NEW p \in Pairs, \A q \in Pairs : Second[q] < Second[p] => q \in Good
        PROVE  p \in Good
    <3>1. CASE p[2] = 0
      <4>1. p[1] \in Nat
        BY DEF Pairs
      <4> QED BY <2>0, <3>1, <4>1
    <3>2. CASE p[2] # 0
      <4>1. Turned[p] \in Pairs /\ Second[Turned[p]] < Second[p]
        BY <3>2, EuclidDescends DEF Descends
      <4>2. Turned[p] = <<p[2], p[1] % p[2]>>
        BY <3>2 DEF Turned
      <4>3. f[Turned[p]] \in Nat
        BY <2>1, <4>1
      <4> QED BY <2>0, <3>2, <4>2, <4>3
    <3> QED BY <3>1, <3>2
  <2>2. \A p \in Pairs : p \in Good
    <3>1. Second \in [Pairs -> Nat]
      BY EuclidDescends DEF Descends
    <3> HIDE DEF Good
    <3> QED BY <2>1, <3>1, ByMeasure
  <2>3. f = [p \in Pairs |-> f[p]]
    BY <1>3 DEF Pairs
  <2> QED BY <2>2, <2>3
<1>4. Eq(gcdfast)
  BY <1>2 DEF gcdfast
<1>5. gcdfast \in [Pairs -> Nat]
  BY <1>3, <1>4
<1>6. ASSUME NEW p \in Pairs
      PROVE  gcdfast[p] = IF p[2] = 0 THEN p[1] ELSE gcdfast[<<p[2], p[1] % p[2]>>]
  BY <1>4 DEF Pairs
<1> QED BY <1>5, <1>6

(* d is the greatest number that divides both, and gcdfast finds it.       *)
Multiple(x, d) == \E q \in Nat : x = d * q
Greatest(d, x, y) ==
    /\ d \in Nat \ {0} /\ Multiple(x, d) /\ Multiple(y, d)
    /\ \A e \in Nat \ {0} : Multiple(x, e) /\ Multiple(y, e) => e <= d

(* Multiples are the numbers without remainder.                            *)
LEMMA MultipleIs ==
    ASSUME NEW x \in Nat, NEW d \in Nat \ {0}
    PROVE  Multiple(x, d) <=> x % d = 0
<1>1. ASSUME NEW q \in Nat  PROVE (d * q) % d = 0
  OBVIOUS
<1>2. ASSUME x % d = 0  PROVE x = d * (x \div d) /\ x \div d \in Nat
  BY <1>2
<1> QED BY <1>1, <1>2 DEF Multiple

(* The pairs of Euclid's algorithm have the same common divisors.          *)
LEMMA SameDivisors ==
    ASSUME NEW x \in Nat, NEW y \in Nat \ {0}, NEW d \in Nat \ {0}, Multiple(y, d)
    PROVE  Multiple(x, d) <=> Multiple(x % y, d)
<1> DEFINE r == x % y
           k == x \div y
<1>1. r \in Nat /\ k \in Nat /\ x = y * k + r
  OBVIOUS
<1> HIDE DEF r, k
<1>2. PICK b \in Nat : y = d * b
  BY DEF Multiple
<1>3. y * k = d * (b * k) /\ b * k \in Nat
  <2>1. (d * b) * k = d * (b * k)
    BY <1>1
  <2> QED BY <1>1, <1>2, <2>1
<1>4. ASSUME NEW a \in Nat, x = d * a  PROVE Multiple(r, d)
  <2> DEFINE c == b * k
  <2>1. c \in Nat /\ d * a = d * c + r
    BY <1>1, <1>3, <1>4
  <2> HIDE DEF c
  <2>2. r = d * (a - c)
    <3>1. d * (a - c) = d * a - d * c
      BY <2>1
    <3> QED BY <1>1, <2>1, <3>1
  <2>3. a - c \in Nat
    <3>1. a - c \in Int /\ r >= 0 /\ d >= 1
      BY <1>1, <2>1
    <3>2. ASSUME NEW z \in Int, z < 0  PROVE d * z < 0
      BY <3>2
    <3> QED BY <2>2, <3>1, <3>2
  <2> QED BY <2>2, <2>3 DEF Multiple
<1>5. ASSUME NEW a \in Nat, r = d * a  PROVE Multiple(x, d)
  <2> DEFINE c == b * k
  <2>1. c \in Nat /\ x = d * c + d * a
    BY <1>1, <1>3, <1>5
  <2> HIDE DEF c
  <2>2. x = d * (c + a) /\ c + a \in Nat
    BY <2>1
  <2> QED BY <2>2 DEF Multiple
<1> QED BY <1>4, <1>5 DEF r, Multiple

(* gcdfast finds the greatest common divisor, down the pairs of Euclid.    *)
LEMMA GcdFastGreatest ==
    \A x \in Nat \ {0}, y \in Nat : Greatest(gcdfast[<<x, y>>], x, y)
<1> DEFINE Right(p) == p[1] # 0 => Greatest(gcdfast[p], p[1], p[2])
           Good == {p \in Pairs : Right(p)}
<1>1. ASSUME NEW p \in Pairs, \A q \in Pairs : Second[q] < Second[p] => q \in Good, p[1] # 0
      PROVE  Greatest(gcdfast[p], p[1], p[2])
  <2> DEFINE x == p[1]
             y == p[2]
  <2>1. x \in Nat \ {0} /\ y \in Nat /\ p = <<x, y>>
    BY <1>1 DEF Pairs
  <2>2. gcdfast[p] = IF y = 0 THEN x ELSE gcdfast[<<y, x % y>>]
    BY GcdFastIs
  <2>3. CASE y = 0
    <3>1. gcdfast[p] = x
      BY <2>2, <2>3
    <3> HIDE DEF x, y
    <3>2. x = x * 1 /\ y = x * 0
      BY <2>1, <2>3
    <3>3. ASSUME NEW e \in Nat \ {0}, Multiple(x, e)  PROVE e <= x
      <4>1. PICK q \in Nat : x = e * q
        BY <3>3 DEF Multiple
      <4>2. q # 0
        BY <2>1, <4>1
      <4>3. e * q >= e
        BY <4>2
      <4> QED BY <4>1, <4>3
    <3>4. Greatest(x, x, y)
      BY <2>1, <3>2, <3>3 DEF Greatest, Multiple
    <3> QED BY <3>1, <3>4 DEF x, y
  <2>4. CASE y # 0
    <3> DEFINE r == x % y
               q == <<y, r>>
               d == gcdfast[q]
    <3>1. q = Turned[p]
      BY <2>4 DEF Turned
    <3>2. q \in Pairs /\ Second[q] < Second[p]
      <4>1. Turned[p] \in Pairs /\ Second[Turned[p]] < Second[p]
        BY <2>4, EuclidDescends DEF Descends
      <4> HIDE DEF q
      <4> QED BY <3>1, <4>1
    <3>3. q \in Good
      <4> HIDE DEF q, Good
      <4> QED BY <1>1, <3>2
    <3>4. Greatest(d, y, r)
      <4>1. q[1] = y /\ q[2] = r /\ Right(q)
        BY <3>3
      <4> HIDE DEF q
      <4> QED BY <2>4, <4>1
    <3>5. gcdfast[p] = d
      BY <2>2, <2>4
    <3>6. y \in Nat \ {0} /\ r = x % y
      BY <2>1, <2>4
    <3> HIDE DEF x, y, r, q, d
    <3>7. \A e \in Nat \ {0} : Multiple(y, e) => (Multiple(x, e) <=> Multiple(r, e))
      BY <2>1, <3>6, SameDivisors
    <3>8. Greatest(d, x, y)
      BY <3>4, <3>7 DEF Greatest
    <3> QED BY <3>5, <3>8 DEF x, y
  <2> QED BY <2>3, <2>4
<1>2. \A p \in Pairs : p \in Good
  <2>1. Second \in [Pairs -> Nat]
    BY EuclidDescends DEF Descends
  <2>2. ASSUME NEW p \in Pairs, \A q \in Pairs : Second[q] < Second[p] => q \in Good
        PROVE  p \in Good
    BY <1>1, <2>2
  <2> HIDE DEF Good
  <2> QED BY <2>1, <2>2, ByMeasure
<1>3. ASSUME NEW x \in Nat \ {0}, NEW y \in Nat  PROVE Greatest(gcdfast[<<x, y>>], x, y)
  <2> DEFINE p == <<x, y>>
  <2>1. p \in Pairs /\ p[1] = x /\ p[2] = y
    BY DEF Pairs
  <2>2. Right(p)
    BY <1>2, <2>1
  <2> QED BY <2>1, <2>2
<1> QED BY <1>3

(* gcdfast of 443.c is the gcd searched for there.                         *)
LEMMA GcdFastIsGcd ==
    ASSUME NEW x \in Nat \ {0}, NEW y \in Nat
    PROVE  gcdfast[<<x, y>>] = gcd(x, y) /\ gcd(x, y) \in Nat \ {0}
<1> DEFINE d == gcdfast[<<x, y>>]
           Common(c) == /\ x % c = 0 /\ y % c = 0
                        /\ \A e \in (c + 1)..x : x % e # 0 \/ y % e # 0
<1>1. Greatest(d, x, y)
  BY GcdFastGreatest
<1> HIDE DEF d
<1>2. d \in Nat \ {0} /\ x % d = 0 /\ y % d = 0
  BY <1>1, MultipleIs DEF Greatest
<1>3. \A e \in Nat \ {0} : x % e = 0 /\ y % e = 0 => e <= d
  BY <1>1, MultipleIs DEF Greatest
<1>4. d <= x
  <2>1. PICK q \in Nat : x = d * q
    BY <1>1 DEF Greatest, Multiple
  <2>2. q # 0
    BY <1>2, <2>1
  <2>3. d * q >= d
    BY <1>2, <2>2
  <2> QED BY <2>1, <2>3
<1>5. d \in 1..x
  BY <1>2, <1>4
<1>6. Common(d)
  <2>1. ASSUME NEW e \in (d + 1)..x, x % e = 0, y % e = 0  PROVE FALSE
    <3>1. e \in Nat \ {0} /\ e > d
      BY <1>2
    <3> QED BY <1>2, <1>3, <2>1, <3>1
  <2> QED BY <1>2, <2>1
<1>7. ASSUME NEW c \in 1..x, Common(c)  PROVE c = d
  <2>1. c \in Nat \ {0} /\ c <= d
    BY <1>3, <1>7
  <2>2. ~(c < d)
    <3>1. SUFFICES ASSUME c < d  PROVE FALSE
      OBVIOUS
    <3>2. d \in (c + 1)..x
      BY <1>2, <1>4, <2>1, <3>1
    <3> QED BY <1>2, <1>7, <3>2
  <2> QED BY <1>2, <2>1, <2>2
<1>8. gcd(x, y) = CHOOSE c \in 1..x : Common(c)
  BY DEF gcd
<1>9. (CHOOSE c \in 1..x : Common(c)) = d
  <2> HIDE DEF Common
  <2> QED BY <1>5, <1>6, <1>7
<1> QED BY <1>2, <1>8, <1>9 DEF d

-----------------------------------------------------------------------------
(* The recurrence of 443.c, from 4 on.                                     *)
FromFour == Nat \ 0..3

(* It is defined there, and gcdfast may stand for gcd in it.               *)
LEMMA GIs ==
    /\ g \in [FromFour -> Nat] /\ g[4] = 13
    /\ \A n \in FromFour : n # 4 => g[n] = g[n - 1] + gcdfast[<<n, g[n - 1]>>]
<1> DEFINE I == FromFour
           measure == [n \in I |-> n]
           pred == [n \in I |-> IF n = 4 THEN n ELSE n - 1]
           B == {4}
           base == [n \in I |-> 13]
           step == [q \in I \X Nat |-> q[2] + gcd(q[1], q[2])]
           Eq(f) == f = [n \in Nat \ 0..3 |->
                           IF n = 4 THEN 13 ELSE LET h == f[n - 1] IN h + gcd(n, h)]
<1>0. /\ \A n \in I : n \in Nat \ {0} /\ (n # 4 => n - 1 \in I)
      /\ 4 \in I
  BY DEF FromFour
<1>1. ASSUME NEW n \in I, NEW h \in Nat  PROVE h + gcd(n, h) \in Nat /\ gcd(n, h) = gcdfast[<<n, h>>]
  <2>1. n \in Nat \ {0}
    BY <1>0
  <2>2. gcdfast[<<n, h>>] = gcd(n, h) /\ gcd(n, h) \in Nat \ {0}
    BY <2>1, GcdFastIsGcd
  <2>3. \A d \in Nat \ {0} : h + d \in Nat
    OBVIOUS
  <2> QED BY <2>2, <2>3
<1>2. Descends(I, measure, B, pred)
  <2>1. measure \in [I -> Nat] /\ pred \in [I -> I]
    <3>1. \A n \in I : n \in Nat /\ (IF n = 4 THEN n ELSE n - 1) \in I
      BY <1>0
    <3> HIDE DEF I
    <3> QED BY <3>1
  <2>2. ASSUME NEW n \in I, n \notin B  PROVE measure[pred[n]] < measure[n]
    <3>1. n # 4 /\ pred[n] = n - 1 /\ n - 1 \in I /\ n \in Nat
      BY <1>0, <2>2
    <3>2. measure[n - 1] = n - 1 /\ measure[n] = n /\ n - 1 < n
      BY <3>1
    <3> QED BY <3>1, <3>2
  <2> QED BY <2>1, <2>2 DEF Descends
<1>3. Recursion(I, measure, B, pred, Nat, base, step)
  <2>1. ASSUME NEW q \in I \X Nat  PROVE q[2] + gcd(q[1], q[2]) \in Nat
    <3>1. q[1] \in I /\ q[2] \in Nat
      OBVIOUS
    <3> QED BY <1>1, <3>1
  <2>2. base \in [I -> Nat] /\ step \in [I \X Nat -> Nat]
    BY <2>1
  <2> QED BY <1>2, <2>2 DEF Recursion
<1>4. ASSUME NEW n \in I, NEW h \in Nat
      PROVE  /\ n # 4 => pred[n] = n - 1
             /\ base[n] = 13 /\ step[n, h] = h + gcd(n, h)
  OBVIOUS
<1>5. PICK f0 \in [I -> Nat] : Solves(f0, I, B, base, step, pred)
  <2> HIDE DEF I, measure, B, pred, base, step
  <2> QED BY <1>3, RecursionExists
<1>6. ASSUME NEW n \in I
      PROVE  f0[n] = IF n = 4 THEN 13 ELSE f0[n - 1] + gcd(n, f0[n - 1])
  <2>1. Obeys(f0, n, B, base, step, pred)
    BY <1>5 DEF Solves
  <2>2. CASE n = 4
    BY <2>1, <2>2 DEF Obeys
  <2>3. CASE n # 4
    <3>1. pred[n] = n - 1 /\ n - 1 \in I
      BY <1>0, <2>3
    <3>2. f0[n - 1] \in Nat
      BY <3>1
    <3>3. step[n, f0[n - 1]] = f0[n - 1] + gcd(n, f0[n - 1])
      <4> HIDE DEF step
      <4> QED BY <1>4, <3>2
    <3> HIDE DEF pred, step, base
    <3> QED BY <2>1, <2>3, <3>1, <3>3 DEF Obeys
  <2> QED BY <2>2, <2>3
<1> HIDE DEF base, step, pred
<1>7. Eq(f0)
  <2>1. f0 = [n \in I |-> f0[n]]
    OBVIOUS
  <2> QED BY <1>6, <2>1 DEF FromFour
<1>8. Eq(g)
  <2>1. \E f : Eq(f)
    BY <1>7
  <2> HIDE <1>7
  <2> QED BY <2>1 DEF g
<1>9. ASSUME NEW n \in I
      PROVE  g[n] = IF n = 4 THEN 13 ELSE g[n - 1] + gcd(n, g[n - 1])
  BY <1>8 DEF FromFour
<1>10. g \in [I -> Nat]
  <2> DEFINE Good == {n \in I : g[n] \in Nat}
  <2>1. ASSUME NEW n \in I, \A m \in I : measure[m] < measure[n] => m \in Good
        PROVE  n \in Good
    <3>1. CASE n = 4
      BY <1>9, <3>1
    <3>2. CASE n # 4
      <4>1. n - 1 \in I /\ n - 1 < n
        BY <1>0, <3>2
      <4>2. measure[n - 1] < measure[n]
        BY <4>1
      <4>3. g[n - 1] \in Nat
        <5> HIDE DEF measure, I
        <5> QED BY <2>1, <4>1, <4>2
      <4>4. g[n - 1] + gcd(n, g[n - 1]) \in Nat
        BY <1>1, <4>3
      <4> QED BY <1>9, <3>2, <4>4
    <3> QED BY <3>1, <3>2
  <2>2. \A n \in I : n \in Good
    <3>1. measure \in [I -> Nat]
      BY <1>2 DEF Descends
    <3> HIDE DEF Good, measure, I
    <3> QED BY <2>1, <3>1, ByMeasure
  <2>3. g = [n \in I |-> g[n]]
    BY <1>8 DEF FromFour
  <2> QED BY <2>2, <2>3
<1>11. ASSUME NEW n \in I, n # 4  PROVE g[n] = g[n - 1] + gcdfast[<<n, g[n - 1]>>]
  <2>1. g[n - 1] \in Nat
    BY <1>0, <1>10, <1>11
  <2>2. gcd(n, g[n - 1]) = gcdfast[<<n, g[n - 1]>>]
    BY <1>1, <2>1
  <2> QED BY <1>9, <1>11, <2>2
<1>12. g[4] = 13
  BY <1>0, <1>9
<1> QED BY <1>10, <1>11, <1>12

-----------------------------------------------------------------------------
(* The chains of 92.cc: those that run into 89 are in every set that holds *)
(* 89 and, with a number, those that come before it.                       *)
Before89(T) ==
    /\ T \in SUBSET Nat /\ 89 \in T
    /\ \A k \in Nat \ {1, 89} : sum_digs_sq[k] \in T => k \in T

(* Chain obeys its recursion at every number, those included whose chain   *)
(* would never end.                                                        *)
LEMMA ChainIs ==
    /\ Chain[1] = 1 /\ Chain[89] = 89
    /\ \A n \in Nat \ {1, 89} : Chain[n] = Chain[sum_digs_sq[n]]
<1> DEFINE C == {n \in Nat : \A T \in SUBSET Nat : Before89(T) => n \in T}
           f0 == [n \in Nat |-> IF n \in C THEN 89 ELSE 1]
           Eq(f) == f = [n \in Nat |-> IF n \in {1, 89} THEN n ELSE f[sum_digs_sq[n]]]
<1>1. 89 \in C
  BY DEF Before89
<1>2. 1 \notin C
  <2>1. Before89(Nat \ {1})
    BY DEF Before89
  <2> QED BY <2>1
<1>3. ASSUME NEW n \in Nat \ {1, 89}  PROVE n \in C <=> sum_digs_sq[n] \in C
  <2>0. sum_digs_sq[n] \in Nat
    BY SumDigsSq
  <2>1. ASSUME sum_digs_sq[n] \in C  PROVE n \in C
    <3>1. ASSUME NEW T \in SUBSET Nat, Before89(T)  PROVE n \in T
      BY <2>1, <3>1 DEF Before89
    <3> QED BY <3>1
  <2>2. ASSUME n \in C, sum_digs_sq[n] \notin C  PROVE FALSE
    <3>1. PICK T \in SUBSET Nat : Before89(T) /\ sum_digs_sq[n] \notin T
      BY <2>0, <2>2
    <3>2. Before89(T \ {n})
      BY <3>1 DEF Before89
    <3> QED BY <2>2, <3>2
  <2> QED BY <2>1, <2>2
<1>4. Eq(f0)
  <2>1. ASSUME NEW n \in Nat
        PROVE  f0[n] = IF n \in {1, 89} THEN n ELSE f0[sum_digs_sq[n]]
    <3>1. sum_digs_sq[n] \in Nat
      BY SumDigsSq
    <3> HIDE DEF C
    <3> QED BY <1>1, <1>2, <1>3, <3>1
  <2>2. f0 = [n \in Nat |-> f0[n]]
    BY Zenon
  <2> HIDE DEF f0
  <2> QED BY <2>1, <2>2
<1>5. Eq(Chain)
  <2>1. \E f : Eq(f)
    BY <1>4
  <2> HIDE <1>4
  <2> HIDE DEF f0
  <2> QED BY <2>1 DEF Chain
<1>6. ASSUME NEW n \in Nat  PROVE Chain[n] = IF n \in {1, 89} THEN n ELSE Chain[sum_digs_sq[n]]
  BY <1>5
<1> HIDE <1>5
<1> QED BY <1>6

(* A number that has 1 next reaches it.                                    *)
LEMMA ReachesOne ==
    ASSUME NEW n \in Nat, sum_digs_sq[n] = 1  PROVE Chain[n] = 1
<1>1. n # 89
  <2>1. sum_digs_sq[89] = 81 + sum_digs_sq[8] /\ sum_digs_sq[8] \in Nat
    <3>1. 89 \div 10 = 8 /\ 89 % 10 = 9
      OBVIOUS
    <3> QED BY <3>1, SumDigsSq
  <2> QED BY <2>1
<1>2. CASE n = 1
  BY <1>2, ChainIs
<1>3. CASE n # 1
  <2>1. Chain[n] = Chain[sum_digs_sq[n]]
    BY <1>1, <1>3, ChainIs
  <2> QED BY <2>1, ChainIs
<1> QED BY <1>2, <1>3

-----------------------------------------------------------------------------
(* The rows of problem 27: on the numbers tried the bytes are the primes.  *)
RowOf(a, b, m) ==
    /\ ~IsPrime(poly(a, b, m))
    /\ \A k \in 0..(m - 1) : IsPrime(poly(a, b, k))

(* The first value that is no prime is there and only one is the first,    *)
(* and the values up to it are below the limit.                            *)
LEMMA RowIs ==
    ASSUME NEW a \in -MaxA..MaxA, NEW b \in -MaxB..MaxB
    PROVE  /\ PrimesInARow(a, b) \in Row /\ RowOf(a, b, PrimesInARow(a, b))
           /\ \A m \in Row : RowOf(a, b, m) => m = PrimesInARow(a, b)
           /\ \A k \in 0..PrimesInARow(a, b) : poly(a, b, k) < ByteLimit
<1>1. PICK m0 \in Row : /\ ~IsPrime(poly(a, b, m0))
                        /\ \A k \in 0..m0 : poly(a, b, k) < ByteLimit
  <2>1. \A x \in -MaxA..MaxA, y \in -MaxB..MaxB :
           \E m \in Row : /\ ~IsPrime(poly(x, y, m))
                          /\ \A k \in 0..m : poly(x, y, k) < ByteLimit
    BY RowAssumption, Zenon
  <2> QED BY <2>1
<1>2. Row \subseteq Nat /\ \A m \in Row : \A k \in 0..m : k \in Row
  <2>1. \A m : m \in Row <=> m \in 0..1000
    BY DEF Row, RowBound
  <2>2. ASSUME NEW m \in Row  PROVE m \in Nat /\ m <= 1000
    <3>1. m \in 0..1000
      BY <2>1
    <3> QED BY <3>1
  <2>3. ASSUME NEW m \in Row, NEW k \in 0..m  PROVE k \in Row
    <3>1. m \in Nat /\ m <= 1000
      BY <2>2
    <3>2. k \in 0..1000
      BY <3>1
    <3> QED BY <2>1, <3>2
  <2> QED BY <2>2, <2>3
<1> DEFINE T == {m \in Row : ~IsPrime(poly(a, b, m))}
<1>3. T \in SUBSET Nat /\ T # {}
  BY <1>1, <1>2
<1>4. PICK m1 \in T : \A m \in T : m1 <= m
  <2> HIDE DEF T
  <2> QED BY <1>3, LeastNumber
<1>5. m1 \in Row /\ m1 \in Nat /\ RowOf(a, b, m1) /\ m1 <= m0
  <2>1. m1 \in Row /\ m1 \in Nat /\ m0 \in T /\ m1 <= m0
    BY <1>1, <1>2, <1>4
  <2>2. ASSUME NEW k \in 0..(m1 - 1)  PROVE IsPrime(poly(a, b, k))
    <3>1. k \in 0..m1 /\ ~(m1 <= k)
      BY <2>1
    <3>2. k \in Row /\ k \notin T
      <4> HIDE DEF T
      <4> QED BY <1>2, <1>4, <2>1, <3>1
    <3> QED BY <3>2
  <2> QED BY <2>1, <2>2 DEF RowOf
<1> HIDE DEF T
<1>6. PrimesInARow(a, b) = CHOOSE m \in Row : RowOf(a, b, m)
  BY DEF PrimesInARow, RowOf
<1>7. PrimesInARow(a, b) \in Row /\ RowOf(a, b, PrimesInARow(a, b))
  BY <1>5, <1>6
<1>8. ASSUME NEW m \in Row, NEW n \in Row, RowOf(a, b, m), RowOf(a, b, n)  PROVE m = n
  <2>1. m \in Nat /\ n \in Nat
    BY <1>2
  <2>2. ~(m < n)
    <3>1. m < n => m \in 0..(n - 1)
      BY <2>1
    <3> QED BY <1>8, <3>1 DEF RowOf
  <2>3. ~(n < m)
    <3>1. n < m => n \in 0..(m - 1)
      BY <2>1
    <3> QED BY <1>8, <3>1 DEF RowOf
  <2> QED BY <2>1, <2>2, <2>3
<1>9. PrimesInARow(a, b) = m1
  BY <1>5, <1>7, <1>8
<1>10. \A k \in 0..m1 : poly(a, b, k) < ByteLimit
  <2>1. m0 \in Nat
    BY <1>2
  <2>2. \A k \in 0..m1 : k \in 0..m0
    BY <1>5, <2>1
  <2> QED BY <1>1, <2>2
<1> QED BY <1>5, <1>7, <1>8, <1>9, <1>10

(* primes_in_a_row finds it by the bytes.                                  *)
LEMMA RowFound ==
    ASSUME NEW a \in -MaxA..MaxA, NEW b \in -MaxB..MaxB,
           a27 = a, b27 = b,
           \A m \in 1..(ByteLimit - 1) : m \in bytes <=> IsPrime(m)
    PROVE  primes_in_a_row = PrimesInARow(a, b) /\ PrimesInARow(a, b) \in Nat
<1> DEFINE p == PrimesInARow(a, b)
           Found(m) == /\ ~isprime27(poly(a27, b27, m))
                       /\ \A k \in 0..(m - 1) : isprime27(poly(a27, b27, k))
<1>1. /\ p \in Row /\ RowOf(a, b, p)
      /\ \A m \in Row : RowOf(a, b, m) => m = p
      /\ \A k \in 0..p : poly(a, b, k) < ByteLimit
  BY RowIs
<1>2. Row \subseteq Nat
  BY DEF Row, RowBound
<1> HIDE DEF p
<1>3. p \in Nat
  BY <1>1, <1>2
<1>4. ASSUME NEW k \in 0..p  PROVE isprime27(poly(a27, b27, k)) <=> IsPrime(poly(a, b, k))
  <2> DEFINE l == poly(a, b, k)
  <2>1. l \in Int /\ l < ByteLimit
    <3>1. k \in Int /\ a \in Int /\ b \in Int
      BY <1>3, MemoAssumption
    <3>2. k * k \in Int /\ a * k \in Int
      BY <3>1
    <3>3. l \in Int
      BY <3>1, <3>2 DEF poly
    <3> QED BY <1>1, <3>3
  <2>2. poly(a27, b27, k) = l
    OBVIOUS
  <2> HIDE DEF l
  <2>3. l >= 1 => l \in 1..(ByteLimit - 1)
    BY <2>1, ByteLimitAssumption
  <2>4. l < 1 => ~IsPrime(l)
    BY <2>1 DEF IsPrime
  <2>5. isprime27(l) <=> IsPrime(l)
    BY <2>1, <2>3, <2>4 DEF isprime27
  <2> QED BY <2>2, <2>5 DEF l
<1>5. Found(p)
  <2>1. p \in 0..p /\ \A k \in 0..(p - 1) : k \in 0..p
    BY <1>3
  <2> HIDE <1>4
  <2>2. \A k \in 0..p : isprime27(poly(a27, b27, k)) <=> IsPrime(poly(a, b, k))
    BY <1>4
  <2> QED BY <1>1, <2>1, <2>2 DEF RowOf
<1>6. ASSUME NEW m \in Row, Found(m)  PROVE m = p
  <2>1. m \in Nat
    BY <1>2
  <2>2. ~(m < p)
    <3>1. m < p => m \in 0..(p - 1)
      BY <1>3, <2>1
    <3> QED BY <1>5, <1>6, <3>1
  <2>3. ~(p < m)
    <3>1. p < m => p \in 0..(m - 1)
      BY <1>3, <2>1
    <3> QED BY <1>5, <1>6, <3>1
  <2> QED BY <1>3, <2>1, <2>2, <2>3
<1>7. primes_in_a_row = CHOOSE m \in Row : Found(m)
  BY DEF primes_in_a_row
<1> HIDE DEF Found
<1>8. primes_in_a_row = p
  BY <1>1, <1>5, <1>6, <1>7
<1> QED BY <1>3, <1>8 DEF p

(* The loops over a and b of 27.c keep both in their ranges.               *)
LEMMA QuadraticsTried ==
    ASSUME num \in Nat, num < Upto["p27"]
    PROVE  a27 \in -MaxA..MaxA /\ b27 \in -MaxB..MaxB
<1> DEFINE w == 2 * MaxB + 1
           h == 2 * MaxA + 1
           q == num \div w
           r == num % w
<1>1. w \in Nat \ {0} /\ h \in Nat
  BY MemoAssumption
<1>2. num < h * w
  <2>1. h * w \in Nat /\ Upto["p27"] \in Nat /\ Upto["p27"] <= h * w
    BY <1>1, RowAssumption
  <2> QED BY <2>1
<1>3. a27 = q - MaxA /\ b27 = r - MaxB
  BY DEF a27, b27
<1>4. w = 2 * MaxB + 1 /\ h = 2 * MaxA + 1 /\ MaxA \in Nat /\ MaxB \in Nat
  BY MemoAssumption
<1> HIDE DEF w, h
<1>5. q \in Nat /\ r \in 0..(w - 1) /\ num = w * q + r
  BY <1>1
<1> HIDE DEF q, r
<1>6. q < h
  <2>1. SUFFICES ASSUME h <= q  PROVE FALSE
    BY <1>1, <1>5
  <2>2. w * h <= w * q
    BY <1>1, <1>5, <2>1
  <2>3. w * h = h * w /\ w * q <= num
    BY <1>1, <1>5
  <2>4. w * h \in Nat /\ w * q \in Nat
    BY <1>1, <1>5
  <2> QED BY <1>2, <2>2, <2>3, <2>4
<1> QED BY <1>1, <1>3, <1>4, <1>5, <1>6

(* A quotient and a remainder are the only ones.                           *)
LEMMA DivisionUnique ==
    ASSUME NEW y \in Nat \ {0}, NEW q \in Nat, NEW r \in Nat, r < y
    PROVE  (y * q + r) % y = r /\ (y * q + r) \div y = q
<1> DEFINE x == y * q + r
           Q == x \div y
           R == x % y
<1>1. x \in Nat /\ Q \in Nat /\ R \in Nat /\ R < y /\ x = y * Q + R
  <2>1. x \in Nat
    OBVIOUS
  <2> HIDE DEF x
  <2> QED BY <2>1
<1>2. y * Q + R = y * q + r
  BY <1>1
<1> HIDE DEF x, Q, R
<1>3. CASE Q >= q + 1
  <2>1. PICK c \in Nat : Q = q + 1 + c
    <3>1. Q - q - 1 \in Nat /\ Q = q + 1 + (Q - q - 1)
      BY <1>1, <1>3
    <3> QED BY <3>1
  <2>2. y * Q = y * q + y + y * c /\ y * c \in Nat /\ y * q \in Nat
    BY <2>1
  <2> QED BY <1>1, <1>2, <2>2
<1>4. CASE q >= Q + 1
  <2>1. PICK c \in Nat : q = Q + 1 + c
    <3>1. q - Q - 1 \in Nat /\ q = Q + 1 + (q - Q - 1)
      BY <1>1, <1>4
    <3> QED BY <3>1
  <2>2. y * q = y * Q + y + y * c /\ y * c \in Nat /\ y * Q \in Nat
    BY <1>1, <2>1
  <2> QED BY <1>1, <1>2, <2>2
<1>5. CASE Q = q
  <2>1. y * q \in Nat
    OBVIOUS
  <2>2. R = r
    BY <1>1, <1>2, <1>5, <2>1
  <2> QED BY <1>5, <2>2 DEF x, Q, R
<1> QED BY <1>1, <1>3, <1>4, <1>5

(* There is always a quotient and a remainder.                             *)
LEMMA Division ==
    ASSUME NEW x \in Nat, NEW y \in Nat \ {0}
    PROVE  /\ x \div y \in Nat /\ x % y \in Nat /\ x % y < y
           /\ x = y * (x \div y) + (x % y)
OBVIOUS

-----------------------------------------------------------------------------
(* The powers of ten.                                                      *)
LEMMA PowersOfTen ==
    /\ pow10 \in [Nat -> Nat \ {0}] /\ pow10[0] = 1
    /\ \A n \in Nat : pow10[n + 1] = 10 * pow10[n]
<1> DEFINE B == {0}
           pred == [n \in Nat |-> IF n = 0 THEN 0 ELSE n - 1]
           S == Nat \ {0}
           base == [n \in Nat |-> 1]
           step == [p \in Nat \X S |-> 10 * p[2]]
           Eq(f) == f = [n \in Nat |-> IF n = 0 THEN 1 ELSE 10 * f[n - 1]]
<1>1. Recursion(Nat, Itself, B, pred, S, base, step)
  <2>1. ASSUME NEW p \in Nat \X S  PROVE 10 * p[2] \in S
    <3>1. p[2] \in Nat /\ p[2] # 0
      OBVIOUS
    <3> QED BY <3>1
  <2>2. base \in [Nat -> S] /\ step \in [Nat \X S -> S]
    <3> HIDE DEF S
    <3>1. 1 \in S
      BY DEF S
    <3> QED BY <2>1, <3>1
  <2>3. Descends(Nat, Itself, B, pred)
    <3>1. \A n \in Nat : n # 0 => n - 1 \in Nat /\ n - 1 < n
      OBVIOUS
    <3>2. pred \in [Nat -> Nat]
      BY <3>1
    <3>3. ASSUME NEW n \in Nat, n \notin B  PROVE Itself[pred[n]] < Itself[n]
      BY <3>1, <3>3 DEF Itself
    <3> QED BY <3>2, <3>3, ItselfType DEF Descends
  <2> QED BY <2>2, <2>3 DEF Recursion
<1>2. ASSUME NEW n \in Nat, NEW v \in S
      PROVE  (n # 0 => pred[n] = n - 1) /\ base[n] = 1 /\ step[n, v] = 10 * v
  OBVIOUS
<1> HIDE DEF base, step, pred, S
<1>4. PICK h \in [Nat -> S] : Solves(h, Nat, B, base, step, pred)
  <2> HIDE DEF B
  <2> QED BY <1>1, RecursionExists
<1>5. ASSUME NEW n \in Nat  PROVE h[n] = IF n = 0 THEN 1 ELSE 10 * h[n - 1]
  <2>1. Obeys(h, n, B, base, step, pred)
    BY <1>4 DEF Solves
  <2>2. CASE n = 0
    BY <1>2, <1>4, <2>1, <2>2 DEF Obeys
  <2>3. CASE n # 0
    <3>1. n - 1 \in Nat /\ h[n - 1] \in S
      BY <1>4, <2>3
    <3> QED BY <1>2, <2>1, <2>3, <3>1 DEF Obeys
  <2> QED BY <2>2, <2>3
<1>6. Eq(h)
  BY <1>4, <1>5
<1>7. Eq(pow10)
  BY <1>6 DEF pow10
<1>8. ASSUME NEW n \in Nat  PROVE pow10[n] = IF n = 0 THEN 1 ELSE 10 * pow10[n - 1]
  BY <1>7
<1>9. \A n \in Nat : pow10[n] \in Nat \ {0}
  <2> DEFINE Good == {n \in Nat : pow10[n] \in Nat \ {0}}
  <2>1. ASSUME NEW n \in Nat, \A m \in Nat : Itself[m] < Itself[n] => m \in Good
        PROVE  n \in Good
    <3>1. CASE n = 0
      BY <1>8, <3>1
    <3>2. CASE n # 0
      <4>1. n - 1 \in Nat /\ Itself[n - 1] < Itself[n]
        BY <3>2 DEF Itself
      <4>2. pow10[n - 1] \in Nat /\ pow10[n - 1] # 0
        BY <2>1, <4>1
      <4>3. 10 * pow10[n - 1] \in Nat /\ 10 * pow10[n - 1] # 0
        BY <4>2
      <4> QED BY <1>8, <3>2, <4>3
    <3> QED BY <3>1, <3>2
  <2>2. \A n \in Nat : n \in Good
    <3> HIDE DEF Good
    <3> QED BY <2>1, ByMeasure, ItselfType
  <2> QED BY <2>2
<1>10. pow10 \in [Nat -> Nat \ {0}]
  BY <1>7, <1>9
<1>11. pow10[0] = 1
  BY <1>8
<1>12. ASSUME NEW n \in Nat  PROVE pow10[n + 1] = 10 * pow10[n]
  <2>1. n + 1 \in Nat /\ n + 1 # 0 /\ (n + 1) - 1 = n
    OBVIOUS
  <2>2. pow10[n + 1] = 10 * pow10[(n + 1) - 1]
    BY <1>8, <2>1
  <2> QED BY <2>1, <2>2
<1> QED BY <1>10, <1>11, <1>12

(* They multiply by adding exponents, so that they grow.                   *)
LEMMA PowersMultiply ==
    ASSUME NEW a \in Nat, NEW b \in Nat  PROVE pow10[a + b] = pow10[a] * pow10[b]
<1> DEFINE Good == {c \in Nat : pow10[a + c] = pow10[a] * pow10[c]}
<1>1. ASSUME NEW n \in Nat, \A m \in Nat : Itself[m] < Itself[n] => m \in Good
      PROVE  n \in Good
  <2>1. CASE n = 0
    <3>1. a + 0 = a /\ pow10[0] = 1 /\ pow10[a] \in Nat
      BY PowersOfTen
    <3>2. pow10[a] * 1 = pow10[a]
      BY <3>1
    <3> QED BY <2>1, <3>1, <3>2
  <2>2. CASE n # 0
    <3> DEFINE m == n - 1
    <3>1. m \in Nat /\ Itself[m] < Itself[n] /\ n = m + 1 /\ a + n = (a + m) + 1 /\ a + m \in Nat
      BY <2>2 DEF Itself
    <3> HIDE DEF m
    <3>2. pow10[a + m] = pow10[a] * pow10[m]
      BY <1>1, <3>1
    <3>3. pow10[a + n] = 10 * pow10[a + m] /\ pow10[n] = 10 * pow10[m]
      BY <3>1, PowersOfTen
    <3>4. pow10[a] \in Nat /\ pow10[m] \in Nat
      BY <3>1, PowersOfTen
    <3>5. \A x, y \in Nat : 10 * (x * y) = x * (10 * y)
      OBVIOUS
    <3>6. pow10[a + n] = pow10[a] * pow10[n]
      BY <3>2, <3>3, <3>4, <3>5
    <3> QED BY <3>6
  <2> QED BY <2>1, <2>2
<1>2. \A n \in Nat : n \in Good
  <2> HIDE DEF Good
  <2> QED BY <1>1, ByMeasure, ItselfType
<1> QED BY <1>2

(* A power of ten divides the greater ones, and is no greater than they    *)
(* are.                                                                    *)
LEMMA PowersGrow ==
    ASSUME NEW a \in Nat, NEW b \in Nat, a <= b
    PROVE  /\ b - a \in Nat /\ pow10[b] = pow10[a] * pow10[b - a]
           /\ pow10[a] <= pow10[b]
<1>1. b - a \in Nat /\ a + (b - a) = b
  OBVIOUS
<1>2. pow10[b] = pow10[a] * pow10[b - a]
  BY <1>1, PowersMultiply
<1>3. \A x, y \in Nat \ {0} : x <= x * y
  OBVIOUS
<1>4. pow10[a] \in Nat \ {0} /\ pow10[b - a] \in Nat \ {0}
  BY <1>1, PowersOfTen
<1> QED BY <1>1, <1>2, <1>3, <1>4

(* The number of digits says between which of them a number is.            *)
LEMMA NumDigitsIs ==
    /\ \A n \in Nat : n < 10 => NumDigits[n] = 1
    /\ \A n \in Nat : n >= 10 => NumDigits[n] = 1 + NumDigits[n \div 10]
<1> DEFINE B == 0..9
           base == [n \in Nat |-> 1]
           step == [p \in Nat \X Nat |-> 1 + p[2]]
           Eq(f) == f = [n \in Nat |-> IF n < 10 THEN 1 ELSE 1 + f[n \div 10]]
<1>0. \A n \in Nat : n \in B <=> n < 10
  OBVIOUS
<1>1. Recursion(Nat, Itself, B, LastOff, Nat, base, step)
  <2>1. ASSUME NEW p \in Nat \X Nat  PROVE 1 + p[2] \in Nat
    OBVIOUS
  <2>2. base \in [Nat -> Nat] /\ step \in [Nat \X Nat -> Nat]
    BY <2>1
  <2> QED BY <2>2, DigitsEnd DEF Recursion
<1>2. ASSUME NEW n \in Nat, NEW v \in Nat
      PROVE  LastOff[n] = n \div 10 /\ base[n] = 1 /\ step[n, v] = 1 + v
  BY DEF LastOff
<1> HIDE DEF base, step, B
<1>4. \E f : Eq(f)
  <2>1. PICK f \in [Nat -> Nat] : Solves(f, Nat, B, base, step, LastOff)
    BY <1>1, RecursionExists
  <2>2. ASSUME NEW n \in Nat
        PROVE  f[n] = IF n < 10 THEN 1 ELSE 1 + f[n \div 10]
    <3>1. Obeys(f, n, B, base, step, LastOff) /\ n \div 10 \in Nat
      BY <2>1 DEF Solves
    <3>2. f[n \div 10] \in Nat
      BY <3>1
    <3>3. CASE n \in B
      <4>1. f[n] = base[n]
        BY <3>1, <3>3 DEF Obeys
      <4> QED BY <1>0, <1>2, <3>3, <4>1
    <3>4. CASE n \notin B
      <4>1. f[n] = step[<<n, f[LastOff[n]]>>]
        BY <3>1, <3>4 DEF Obeys
      <4>2. LastOff[n] = n \div 10
        BY DEF LastOff
      <4>3. step[<<n, f[n \div 10]>>] = 1 + f[n \div 10]
        BY <1>2, <3>2
      <4> QED BY <1>0, <3>4, <4>1, <4>2, <4>3
    <3> QED BY <3>3, <3>4
  <2> QED BY <2>2
<1>5. Eq(NumDigits)
  BY <1>4 DEF NumDigits
<1>6. \A n \in Nat : NumDigits[n] = IF n < 10 THEN 1 ELSE 1 + NumDigits[n \div 10]
  BY <1>5
<1>7. \A n \in Nat : n >= 10 => ~(n < 10)
  OBVIOUS
<1> HIDE <1>5
<1> QED BY <1>6, <1>7

(* NumDigits counts the digits, and says between which powers of ten a     *)
(* number lies.                                                            *)
LEMMA NumDigitsRight ==
    \A n \in Nat : /\ NumDigits[n] \in Nat \ {0} /\ Len(Digits[n]) = NumDigits[n]
                   /\ n < pow10[NumDigits[n]]
                   /\ n # 0 => pow10[NumDigits[n] - 1] <= n
<1> DEFINE Right(n) == /\ NumDigits[n] \in Nat \ {0} /\ Len(Digits[n]) = NumDigits[n]
                       /\ n < pow10[NumDigits[n]]
                       /\ n # 0 => pow10[NumDigits[n] - 1] <= n
           Good == {n \in Nat : Right(n)}
<1>0. pow10[0] = 1 /\ pow10[1] = 10
  <2>1. 0 + 1 = 1 /\ pow10[0] = 1 /\ pow10[0 + 1] = 10 * pow10[0]
    BY PowersOfTen
  <2> QED BY <2>1
<1>1. ASSUME NEW n \in Nat, \A m \in Nat : Itself[m] < Itself[n] => m \in Good
      PROVE  Right(n)
  <2>1. CASE n < 10
    <3>1. NumDigits[n] = 1 /\ Digits[n] = <<n>> /\ Len(<<n>>) = 1 /\ 1 - 1 = 0
      BY <2>1, NumDigitsIs, DigitsType
    <3> QED BY <1>0, <2>1, <3>1
  <2>2. CASE n >= 10
    <3> DEFINE m == n \div 10
               d == n % 10
               L == NumDigits[m]
               D == Digits[m]
    <3>1. m \in Nat /\ m < n /\ d \in Nat /\ d < 10 /\ m # 0 /\ n = 10 * m + d
      BY <2>2
    <3>2. Digits[n] = Append(D, d) /\ D \in Seq(Nat) /\ NumDigits[n] = 1 + L
      BY <2>2, <3>1, DigitsType, NumDigitsIs
    <3>3. Itself[m] < Itself[n]
      BY <3>1 DEF Itself
    <3> HIDE DEF m, d
    <3>4. Right(m)
      BY <1>1, <3>1, <3>3
    <3>5. L \in Nat \ {0} /\ Len(D) = L /\ m < pow10[L] /\ pow10[L - 1] <= m
      BY <3>1, <3>4
    <3> HIDE DEF L, D
    <3>6. Len(Append(D, d)) = Len(D) + 1
      BY <3>1, <3>2
    <3>7. L \in Nat /\ L - 1 \in Nat /\ (L - 1) + 1 = L /\ (1 + L) - 1 = L /\ 1 + L = L + 1
          /\ L + 1 \in Nat \ {0}
      BY <3>5
    <3>8. /\ pow10[L + 1] = 10 * pow10[L] /\ pow10[L] \in Nat
          /\ pow10[(L - 1) + 1] = 10 * pow10[L - 1] /\ pow10[L - 1] \in Nat
      BY <3>7, PowersOfTen
    <3>9. n < 10 * pow10[L] /\ 10 * pow10[L - 1] <= n
      BY <3>1, <3>5, <3>8
    <3>10. Len(Digits[n]) = L + 1 /\ NumDigits[n] = L + 1
      BY <3>2, <3>5, <3>6, <3>7
    <3>11. n < pow10[L + 1] /\ pow10[(L + 1) - 1] <= n
      BY <3>7, <3>8, <3>9
    <3> QED BY <3>7, <3>10, <3>11
  <2> QED BY <2>1, <2>2
<1>2. \A n \in Nat : n \in Good
  <2>1. ASSUME NEW n \in Nat, \A m \in Nat : Itself[m] < Itself[n] => m \in Good
        PROVE  n \in Good
    BY <1>1, <2>1
  <2> HIDE DEF Good
  <2> QED BY <2>1, ByMeasure, ItselfType
<1> QED BY <1>2

(* And nothing else has that number of digits.                             *)
LEMMA NumDigitsUnique ==
    ASSUME NEW n \in Nat, NEW L \in Nat, pow10[L] <= n, n < pow10[L + 1]
    PROVE  NumDigits[n] = L + 1
<1> DEFINE N == NumDigits[n]
<1>1. n # 0
  <2>1. pow10[L] \in Nat \ {0}
    BY PowersOfTen
  <2> QED BY <2>1
<1>2. N \in Nat \ {0} /\ n < pow10[N] /\ pow10[N - 1] <= n
  BY <1>1, NumDigitsRight
<1> HIDE DEF N
<1>3. N - 1 \in Nat /\ pow10[N] \in Nat /\ pow10[L] \in Nat /\ pow10[N - 1] \in Nat
      /\ pow10[L + 1] \in Nat /\ L + 1 \in Nat /\ N \in Nat
  BY <1>2, PowersOfTen
<1>4. ASSUME N <= L  PROVE FALSE
  <2>1. pow10[N] <= pow10[L]
    BY <1>3, <1>4, PowersGrow
  <2> QED BY <1>2, <1>3, <2>1
<1>5. ASSUME L + 1 <= N - 1  PROVE FALSE
  <2>1. pow10[L + 1] <= pow10[N - 1]
    BY <1>3, <1>5, PowersGrow
  <2> QED BY <1>2, <1>3, <2>1
<1>6. N = L + 1
  BY <1>3, <1>4, <1>5
<1> QED BY <1>6 DEF N

-----------------------------------------------------------------------------
(* What is in front of a digit and what is behind it.                      *)
LEMMA CutsAppend ==
    ASSUME NEW D \in Seq(Nat), NEW d \in Nat, NEW k \in 0..Len(D)
    PROVE  /\ Front(Append(D, d), k) = Front(D, k)
           /\ Behind(Append(D, d), k) = Append(Behind(D, k), d)
           /\ Front(D, k) \in Seq(Nat) /\ Len(Front(D, k)) = k
           /\ Behind(D, k) \in Seq(Nat) /\ Len(Behind(D, k)) = Len(D) - k
<1>1. /\ Len(Append(D, d)) = Len(D) + 1 /\ Len(D) \in Nat /\ k \in Nat /\ k <= Len(D)
      /\ Append(D, d) \in Seq(Nat)
      /\ \A j \in 1..Len(D) : Append(D, d)[j] = D[j] /\ D[j] \in Nat
      /\ Append(D, d)[Len(D) + 1] = d
  OBVIOUS
<1> DEFINE E == Append(D, d)
           F == SubSeq(D, 1, k)
           G == SubSeq(D, k + 1, Len(D))
           H == SubSeq(E, k + 1, Len(E))
<1>2. F \in Seq(Nat) /\ Len(F) = k /\ \A j \in 1..k : F[j] = D[j]
  BY <1>1
<1>3. /\ G \in Seq(Nat) /\ Len(G) = Len(D) - k
      /\ \A j \in 1..(Len(D) - k) : G[j] = D[k + j]
  BY <1>1
<1>4. SubSeq(E, 1, k) = F
  BY <1>1
<1>5. /\ H \in Seq(Nat) /\ Len(H) = Len(D) + 1 - k
      /\ \A j \in 1..(Len(D) + 1 - k) : H[j] = E[k + j]
  <2> HIDE DEF E
  <2>1. Len(E) = Len(D) + 1 /\ E \in Seq(Nat) /\ Len(D) \in Nat
    BY <1>1 DEF E
  <2>2. k + 1 \in 1..(Len(E) + 1) /\ Len(E) \in ((k + 1) - 1)..Len(E)
    BY <1>1, <2>1
  <2>3. /\ H \in Seq(Nat)
        /\ Len(H) = (IF k + 1 <= Len(E) THEN Len(E) - (k + 1) + 1 ELSE 0)
        /\ \A j \in 1..(Len(E) - (k + 1) + 1) : H[j] = E[(k + 1) + j - 1]
    <3> DEFINE m == k + 1
               n == Len(E)
    <3>1. m \in Int /\ n \in Int /\ \A j \in m..n : E[j] \in Nat
      BY <1>1, <2>1
    <3>2. /\ SubSeq(E, m, n) \in Seq(Nat)
          /\ Len(SubSeq(E, m, n)) = (IF m <= n THEN n - m + 1 ELSE 0)
          /\ \A j \in 1..(n - m + 1) : SubSeq(E, m, n)[j] = E[m + j - 1]
      <4> HIDE DEF m, n
      <4> QED BY <3>1, SubSeqProperties
    <3> QED BY <3>2
  <2>4. /\ Len(H) = Len(D) + 1 - k /\ Len(E) - (k + 1) + 1 = Len(D) + 1 - k
        /\ \A j \in Int : (k + 1) + j - 1 = k + j
    BY <1>1, <2>1, <2>2, <2>3
  <2> HIDE DEF H
  <2> QED BY <2>3, <2>4
<1>6. H = Append(G, d)
  <2> DEFINE A == Append(G, d)
  <2>1. /\ A \in Seq(Nat) /\ Len(A) = Len(D) + 1 - k
        /\ \A j \in 1..(Len(D) - k) : A[j] = G[j]
        /\ A[Len(D) + 1 - k] = d
    <3> HIDE DEF G
    <3>1. (Len(D) - k) + 1 = Len(D) + 1 - k /\ Len(D) - k \in Nat
      BY <1>1
    <3>2. A \in Seq(Nat) /\ Len(A) = Len(G) + 1 /\ (\A j \in 1..Len(G) : A[j] = G[j])
          /\ A[Len(G) + 1] = d
      BY <1>3
    <3> QED BY <1>3, <3>1, <3>2
  <2>2. ASSUME NEW j \in 1..(Len(D) + 1 - k)  PROVE H[j] = A[j]
    <3>1. CASE j = Len(D) + 1 - k
      <4>1. H[j] = E[k + j] /\ k + j = Len(D) + 1
        BY <1>1, <1>5, <3>1
      <4> QED BY <1>1, <2>1, <3>1, <4>1
    <3>2. CASE j # Len(D) + 1 - k
      <4>1. j \in 1..(Len(D) - k) /\ k + j \in 1..Len(D)
        BY <1>1, <3>2
      <4>2. H[j] = E[k + j] /\ E[k + j] = D[k + j] /\ G[j] = D[k + j] /\ A[j] = G[j]
        BY <1>1, <1>3, <1>5, <2>1, <4>1
      <4> QED BY <4>2
    <3> QED BY <3>1, <3>2
  <2> HIDE DEF H, A
  <2>3. H \in Seq(Nat) /\ A \in Seq(Nat) /\ Len(H) = Len(A)
        /\ \A j \in 1..Len(H) : H[j] = A[j]
    BY <1>5, <2>1, <2>2
  <2>4. H = A
    BY <2>3, SeqEqual
  <2> QED BY <2>4 DEF A
<1> QED BY <1>2, <1>3, <1>4, <1>6 DEF Front, Behind

(* No digits have the value 0.                                             *)
LEMMA HornerEmpty ==
    ASSUME NEW D \in Seq(Nat), Len(D) = 0, NEW base \in Nat  PROVE Horner(D, base) = 0
<1>1. PICK f : Weighs(f, D, base) /\ Horner(D, base) = f[Len(D)]
  BY HornerWeighs
<1>2. f[0] = 0
  BY <1>1, WeighsType
<1> QED BY <1>1, <1>2

(* They are the quotient and the remainder of a division by a power of ten.*)
LEMMA CutsRight ==
    \A n \in Nat : \A k \in 0..NumDigits[n] :
        /\ NumDigits[n] - k \in Nat
        /\ Value(Front(Digits[n], k)) = n \div pow10[NumDigits[n] - k]
        /\ Value(Behind(Digits[n], k)) = n % pow10[NumDigits[n] - k]
<1> DEFINE Cut(n, k) == /\ Value(Front(Digits[n], k)) = n \div pow10[NumDigits[n] - k]
                        /\ Value(Behind(Digits[n], k)) = n % pow10[NumDigits[n] - k]
           Right(n) == \A k \in 0..NumDigits[n] : Cut(n, k)
           Good == {n \in Nat : Right(n)}
<1>0. pow10[0] = 1
  BY PowersOfTen
<1>1. ASSUME NEW n \in Nat, NEW k \in 0..NumDigits[n], k = NumDigits[n]
      PROVE  Cut(n, k)
  <2> DEFINE D == Digits[n]
             L == NumDigits[n]
  <2>1. D \in Seq(Nat) /\ Len(D) = L /\ L \in Nat /\ Horner(D, 10) = n /\ L - L = 0
    BY DigitsType, DigitsRight, NumDigitsRight
  <2> HIDE DEF D, L
  <2>2. Front(D, L) = D
    BY <2>1 DEF Front
  <2>3. Behind(D, L) \in Seq(Nat) /\ Len(Behind(D, L)) = 0
    BY <2>1 DEF Behind
  <2>4. Value(Behind(D, L)) = 0
    BY <2>3, HornerEmpty DEF Value
  <2>5. Value(Front(D, L)) = n
    BY <2>1, <2>2 DEF Value
  <2>6. n \div 1 = n /\ n % 1 = 0
    OBVIOUS
  <2>7. Value(Front(D, L)) = n \div pow10[L - L] /\ Value(Behind(D, L)) = n % pow10[L - L]
    BY <1>0, <2>1, <2>4, <2>5, <2>6
  <2> QED BY <1>1, <2>7 DEF D, L
<1>2. ASSUME NEW n \in Nat, n >= 10, \A m \in Nat : Itself[m] < Itself[n] => m \in Good,
             NEW k \in 0..NumDigits[n], k < NumDigits[n]
      PROVE  Cut(n, k)
  <2> DEFINE m == n \div 10
             d == n % 10
             D == Digits[m]
             L == NumDigits[m]
  <2>1. m \in Nat /\ m < n /\ d \in Nat /\ d < 10 /\ n = 10 * m + d
    BY <1>2
  <2>2. Digits[n] = Append(D, d) /\ D \in Seq(Nat) /\ NumDigits[n] = 1 + L
    BY <1>2, <2>1, DigitsType, NumDigitsIs
  <2>3. Itself[m] < Itself[n]
    BY <2>1 DEF Itself
  <2> HIDE DEF m, d
  <2>4. L \in Nat /\ Len(D) = L
    BY <2>1, NumDigitsRight
  <2>5. k \in 0..L /\ (1 + L) - k = (L - k) + 1 /\ L - k \in Nat
    BY <1>2, <2>2, <2>4
  <2> DEFINE e == L - k
             p == pow10[e]
  <2>6. Value(Front(D, k)) = m \div p /\ Value(Behind(D, k)) = m % p
    <3>1. Right(m)
      BY <1>2, <2>1, <2>3
    <3> QED BY <2>5, <3>1
  <2> HIDE DEF D, L
  <2>7. p \in Nat \ {0} /\ pow10[e + 1] = 10 * p
    BY <2>5, PowersOfTen
  <2>8. /\ Front(Append(D, d), k) = Front(D, k)
        /\ Behind(Append(D, d), k) = Append(Behind(D, k), d)
        /\ Behind(D, k) \in Seq(Nat)
    BY <2>1, <2>2, <2>4, <2>5, CutsAppend
  <2>9. Value(Append(Behind(D, k), d)) = 10 * Value(Behind(D, k)) + d
    BY <2>1, <2>8, HornerAppend DEF Value
  <2> HIDE DEF p
  <2>10. m \div p \in Nat /\ m % p \in Nat /\ m % p < p /\ m = p * (m \div p) + (m % p)
    BY <2>1, <2>7, Division
  <2>11. n % (10 * p) = 10 * (m % p) + d /\ n \div (10 * p) = m \div p
    <3> DEFINE q == m \div p
               s == m % p
               y == 10 * p
               r == 10 * s + d
    <3>1. q \in Nat /\ s \in Nat /\ s < p /\ m = p * q + s
      BY <2>10
    <3> HIDE DEF q, s
    <3>2. y \in Nat \ {0} /\ r \in Nat /\ r < y
      BY <2>1, <2>7, <3>1
    <3>3. n = y * q + r
      BY <2>1, <2>7, <3>1
    <3> HIDE DEF y, r
    <3>4. n % y = r /\ n \div y = q
      BY <3>1, <3>2, <3>3, DivisionUnique
    <3> QED BY <3>4 DEF y, r, q, s
  <2>12. Front(Digits[n], k) = Front(D, k) /\ Behind(Digits[n], k) = Append(Behind(D, k), d)
    BY <2>2, <2>8
  <2>13. pow10[NumDigits[n] - k] = 10 * p
    BY <2>2, <2>5, <2>7
  <2> QED BY <2>6, <2>9, <2>11, <2>12, <2>13
<1>3. ASSUME NEW n \in Nat, n < 10  PROVE Cut(n, 0)
  <2>1. Digits[n] = <<n>> /\ NumDigits[n] = 1 /\ 1 - 0 = 0 + 1
    BY <1>3, DigitsType, NumDigitsIs
  <2>2. pow10[1 - 0] = 10
    <3>1. pow10[0 + 1] = 10 * pow10[0]
      BY PowersOfTen
    <3> QED BY <1>0, <2>1, <3>1
  <2>3. Front(<<n>>, 0) \in Seq(Nat) /\ Len(Front(<<n>>, 0)) = 0
    BY DEF Front
  <2>4. Value(Front(<<n>>, 0)) = 0
    BY <2>3, HornerEmpty DEF Value
  <2>5. Behind(<<n>>, 0) = <<n>>
    <3>1. ASSUME NEW D \in Seq(Nat)  PROVE SubSeq(D, 0 + 1, Len(D)) = D
      OBVIOUS
    <3>2. <<n>> \in Seq(Nat)
      OBVIOUS
    <3> QED BY <3>1, <3>2 DEF Behind
  <2>6. Value(<<n>>) = n
    BY HornerOne DEF Value
  <2>7. n \div 10 = 0 /\ n % 10 = n
    BY <1>3
  <2> QED BY <2>1, <2>2, <2>4, <2>5, <2>6, <2>7
<1>4. ASSUME NEW n \in Nat, \A m \in Nat : Itself[m] < Itself[n] => m \in Good
      PROVE  Right(n)
  <2> SUFFICES ASSUME NEW k \in 0..NumDigits[n]  PROVE Cut(n, k)
    OBVIOUS
  <2>0. NumDigits[n] \in Nat \ {0}
    BY NumDigitsRight
  <2>1. CASE k = NumDigits[n]
    <3> HIDE DEF Cut
    <3> QED BY <1>1, <2>1
  <2>2. CASE k # NumDigits[n] /\ n >= 10
    <3>1. k < NumDigits[n]
      BY <2>0, <2>2
    <3> HIDE DEF Cut
    <3> QED BY <1>2, <1>4, <2>2, <3>1
  <2>3. CASE k # NumDigits[n] /\ n < 10
    <3>1. NumDigits[n] = 1
      BY <2>3, NumDigitsIs
    <3>2. k = 0
      BY <2>3, <3>1
    <3> HIDE DEF Cut
    <3> QED BY <1>3, <2>3, <3>2
  <2> HIDE DEF Cut
  <2> QED BY <2>1, <2>2, <2>3
<1>5. \A n \in Nat : n \in Good
  <2>1. ASSUME NEW n \in Nat, \A m \in Nat : Itself[m] < Itself[n] => m \in Good
        PROVE  n \in Good
    <3> HIDE DEF Cut
    <3> QED BY <1>4, <2>1
  <2> HIDE DEF Good
  <2> QED BY <2>1, ByMeasure, ItselfType
<1>6. ASSUME NEW n \in Nat, NEW k \in 0..NumDigits[n]
      PROVE  NumDigits[n] - k \in Nat /\ Cut(n, k)
  <2>1. NumDigits[n] \in Nat
    BY NumDigitsRight
  <2>2. NumDigits[n] - k \in Nat
    BY <2>1
  <2> HIDE DEF Cut
  <2> QED BY <1>5, <2>2
<1> QED BY <1>6

-----------------------------------------------------------------------------
(* Divisions by powers of ten one after the other.                         *)
LEMMA RemainderTwice ==
    ASSUME NEW n \in Nat, NEW a \in Nat, NEW b \in Nat, a <= b
    PROVE  (n % pow10[b]) % pow10[a] = n % pow10[a]
<1> DEFINE p == pow10[a]
           z == pow10[b - a]
           c == n % pow10[b]
           q == n \div pow10[b]
           r == c % p
           u == c \div p
<1>1. p \in Nat \ {0} /\ z \in Nat \ {0} /\ pow10[b] = p * z /\ pow10[b] \in Nat \ {0}
  BY PowersGrow, PowersOfTen
<1> HIDE DEF p, z
<1>2. c \in Nat /\ q \in Nat /\ n = (p * z) * q + c
  BY <1>1, Division
<1> HIDE DEF c, q
<1>3. r \in Nat /\ r < p /\ u \in Nat /\ c = p * u + r
  BY <1>1, <1>2, Division
<1> HIDE DEF r, u
<1>4. z * q + u \in Nat /\ n = p * (z * q + u) + r
  <2>1. \A x1, x2, x3, x4, x5 \in Nat : (x1 * x2) * x3 + (x1 * x4 + x5) = x1 * (x2 * x3 + x4) + x5
    OBVIOUS
  <2>2. z * q + u \in Nat
    BY <1>1, <1>2, <1>3
  <2> QED BY <1>1, <1>2, <1>3, <2>1, <2>2
<1>5. n % p = r
  <2> DEFINE w == z * q + u
  <2>1. w \in Nat /\ n = p * w + r
    BY <1>4
  <2> HIDE DEF w
  <2> QED BY <1>1, <1>3, <2>1, DivisionUnique
<1> QED BY <1>5 DEF p, r, c

(* A division by ten and one more are one division by the product.         *)
LEMMA QuotientTwice ==
    ASSUME NEW n \in Nat, NEW p \in Nat \ {0}
    PROVE  (n \div 10) \div p = n \div (10 * p)
<1> DEFINE m == n \div 10
           d == n % 10
           q == m \div p
           s == m % p
           y == 10 * p
           r == 10 * s + d
<1>1. m \in Nat /\ d \in Nat /\ d < 10 /\ n = 10 * m + d
  OBVIOUS
<1> HIDE DEF m, d
<1>2. q \in Nat /\ s \in Nat /\ s < p /\ m = p * q + s
  BY <1>1, Division
<1> HIDE DEF q, s
<1>3. y \in Nat \ {0} /\ r \in Nat /\ r < y
  BY <1>1, <1>2
<1>4. n = y * q + r
  BY <1>1, <1>2
<1> HIDE DEF y, r
<1>5. n \div y = q
  BY <1>2, <1>3, <1>4, DivisionUnique
<1> QED BY <1>5 DEF y, q, m

(* The loops of 37.c.  One takes the last digit off, the other the first.  *)
LEMMA BehindFirstLess ==
    \A n \in Nat : /\ BehindFirst(n) \in Nat
                   /\ n # 0 => BehindFirst(n) < n
<1> SUFFICES ASSUME NEW n \in Nat
             PROVE  BehindFirst(n) \in Nat /\ (n # 0 => BehindFirst(n) < n)
  OBVIOUS
<1> DEFINE p == pow10[NumDigits[n] - 1]
<1>1. NumDigits[n] - 1 \in Nat /\ (n # 0 => p <= n)
  BY NumDigitsRight
<1>2. p \in Nat \ {0}
  BY <1>1, PowersOfTen
<1> HIDE DEF p
<1>3. n % p \in Nat /\ n % p < p
  BY <1>2, Division
<1> QED BY <1>1, <1>2, <1>3 DEF BehindFirst, p

(* The first loop of 37.c takes off the last digit as long as what is left *)
(* is prime.                                                               *)
LEMMA PrimeCutRightIs ==
    \A n \in Nat : LET c == n \div 10
                   IN  PrimeCutRight[n] <=> isprime(c) /\ (c < 10 \/ PrimeCutRight[c])
<1> DEFINE B == {0}
           base == [n \in Nat |-> isprime(n \div 10)]
           step == [p \in Nat \X BOOLEAN |->
                      isprime(p[1] \div 10) /\ (p[1] \div 10 < 10 \/ p[2])]
           Eq(f) == f = [n \in Nat |-> isprime(n \div 10) /\ (n \div 10 < 10 \/ f[n \div 10])]
<1>0. \A n \in Nat : isprime(n) \in BOOLEAN
  BY DEF isprime
<1>1. Recursion(Nat, Itself, B, LastOff, BOOLEAN, base, step)
  <2>1. ASSUME NEW p \in Nat \X BOOLEAN
        PROVE  (isprime(p[1] \div 10) /\ (p[1] \div 10 < 10 \/ p[2])) \in BOOLEAN
    OBVIOUS
  <2>2. \A n \in Nat : n \div 10 \in Nat
    OBVIOUS
  <2>3. base \in [Nat -> BOOLEAN] /\ step \in [Nat \X BOOLEAN -> BOOLEAN]
    BY <1>0, <2>1, <2>2
  <2> QED BY <2>3, DigitsEnd DEF Recursion
<1>2. ASSUME NEW n \in Nat, NEW v \in BOOLEAN
      PROVE  /\ LastOff[n] = n \div 10 /\ base[n] = isprime(n \div 10)
             /\ step[n, v] = (isprime(n \div 10) /\ (n \div 10 < 10 \/ v))
  BY DEF LastOff
<1>3. 0 \div 10 = 0 /\ 0 < 10
  OBVIOUS
<1> HIDE DEF base, step
<1>4. \E f : Eq(f)
  <2>1. PICK f \in [Nat -> BOOLEAN] : Solves(f, Nat, B, base, step, LastOff)
    <3> HIDE DEF B
    <3> QED BY <1>1, RecursionExists
  <2>2. ASSUME NEW n \in Nat
        PROVE  f[n] = (isprime(n \div 10) /\ (n \div 10 < 10 \/ f[n \div 10]))
    <3>1. Obeys(f, n, B, base, step, LastOff) /\ n \div 10 \in Nat
      BY <2>1 DEF Solves
    <3>2. f[n \div 10] \in BOOLEAN /\ f[n] \in BOOLEAN /\ isprime(n \div 10) \in BOOLEAN
      BY <1>0, <2>1, <3>1
    <3>3. CASE n = 0
      <4>1. f[0] = isprime(0)
        BY <1>2, <1>3, <3>1, <3>3 DEF Obeys
      <4> QED BY <1>3, <3>2, <3>3, <4>1
    <3>4. CASE n # 0
      BY <1>2, <3>1, <3>2, <3>4 DEF Obeys
    <3> QED BY <3>3, <3>4
  <2> QED BY <2>1, <2>2
<1>5. Eq(PrimeCutRight)
  BY <1>4 DEF PrimeCutRight
<1> QED BY <1>5

FirstOff == [n \in Nat |-> BehindFirst(n)]
(* The second loop takes off the first digit.                              *)
LEMMA PrimeCutLeftIs ==
    \A n \in Nat : LET c == BehindFirst(n)
                   IN  PrimeCutLeft[n] <=> isprime(c) /\ (c < 10 \/ PrimeCutLeft[c])
<1> DEFINE B == {0}
           base == [n \in Nat |-> isprime(BehindFirst(n))]
           step == [p \in Nat \X BOOLEAN |->
                      isprime(BehindFirst(p[1])) /\ (BehindFirst(p[1]) < 10 \/ p[2])]
           Eq(f) == f = [n \in Nat |-> isprime(BehindFirst(n))
                                       /\ (BehindFirst(n) < 10 \/ f[BehindFirst(n)])]
<1>0. \A n \in Nat : isprime(n) \in BOOLEAN
  BY DEF isprime
<1>1. Recursion(Nat, Itself, B, FirstOff, BOOLEAN, base, step)
  <2>1. ASSUME NEW p \in Nat \X BOOLEAN
        PROVE  (isprime(BehindFirst(p[1])) /\ (BehindFirst(p[1]) < 10 \/ p[2])) \in BOOLEAN
    OBVIOUS
  <2>2. \A n \in Nat : BehindFirst(n) \in Nat
    BY BehindFirstLess
  <2>3. base \in [Nat -> BOOLEAN] /\ step \in [Nat \X BOOLEAN -> BOOLEAN]
    BY <1>0, <2>1, <2>2
  <2>4. FirstOff \in [Nat -> Nat]
    BY <2>2 DEF FirstOff
  <2>5. \A n \in Nat : n \notin B => Itself[FirstOff[n]] < Itself[n]
    BY BehindFirstLess DEF Itself, FirstOff
  <2> QED BY <2>3, <2>4, <2>5, ItselfType DEF Recursion, Descends
<1>2. ASSUME NEW n \in Nat, NEW v \in BOOLEAN
      PROVE  /\ FirstOff[n] = BehindFirst(n) /\ base[n] = isprime(BehindFirst(n))
             /\ step[n, v] = (isprime(BehindFirst(n)) /\ (BehindFirst(n) < 10 \/ v))
  BY DEF FirstOff
<1>3. BehindFirst(0) = 0 /\ 0 < 10
  <2>1. pow10[NumDigits[0] - 1] \in Nat \ {0}
    <3>1. NumDigits[0] - 1 \in Nat
      BY NumDigitsRight
    <3> QED BY <3>1, PowersOfTen
  <2>2. \A y \in Nat \ {0} : 0 % y = 0
    OBVIOUS
  <2> QED BY <2>1, <2>2 DEF BehindFirst
<1> HIDE DEF base, step
<1>4. \E f : Eq(f)
  <2>1. PICK f \in [Nat -> BOOLEAN] : Solves(f, Nat, B, base, step, FirstOff)
    <3> HIDE DEF B
    <3> QED BY <1>1, RecursionExists
  <2>2. ASSUME NEW n \in Nat
        PROVE  f[n] = (isprime(BehindFirst(n)) /\ (BehindFirst(n) < 10 \/ f[BehindFirst(n)]))
    <3>1. Obeys(f, n, B, base, step, FirstOff) /\ BehindFirst(n) \in Nat
      BY <2>1, BehindFirstLess DEF Solves
    <3>2. f[BehindFirst(n)] \in BOOLEAN /\ f[n] \in BOOLEAN /\ isprime(BehindFirst(n)) \in BOOLEAN
      BY <1>0, <2>1, <3>1
    <3>3. CASE n = 0
      <4>1. f[0] = isprime(0)
        BY <1>2, <1>3, <3>1, <3>3 DEF Obeys
      <4> QED BY <1>3, <3>2, <3>3, <4>1
    <3>4. CASE n # 0
      BY <1>2, <3>1, <3>2, <3>4 DEF Obeys
    <3> QED BY <3>3, <3>4
  <2> QED BY <2>1, <2>2
<1>5. Eq(PrimeCutLeft)
  BY <1>4 DEF PrimeCutLeft
<1> QED BY <1>5

(* What they ask about are the quotients and the remainders of divisions   *)
(* by powers of ten.                                                       *)
LEMMA RightCuts ==
    \A n \in Nat : n >= 10 =>
        (PrimeCutRight[n] <=> \A e \in 1..(NumDigits[n] - 1) : isprime(n \div pow10[e]))
<1> DEFINE All(n) == \A e \in 1..(NumDigits[n] - 1) : isprime(n \div pow10[e])
           Right(n) == n >= 10 => (PrimeCutRight[n] <=> All(n))
           Good == {n \in Nat : Right(n)}
<1>0. pow10[0] = 1 /\ pow10[1] = 10
  <2>1. 0 + 1 = 1 /\ pow10[0] = 1 /\ pow10[0 + 1] = 10 * pow10[0]
    BY PowersOfTen
  <2> QED BY <2>1
<1>1. ASSUME NEW n \in Nat, \A m \in Nat : Itself[m] < Itself[n] => m \in Good, n >= 10
      PROVE  PrimeCutRight[n] <=> All(n)
  <2> DEFINE m == n \div 10
             M == NumDigits[m]
  <2>1. m \in Nat /\ m < n /\ Itself[m] < Itself[n]
    BY <1>1 DEF Itself
  <2>2. M \in Nat \ {0} /\ NumDigits[n] - 1 = M
    <3>1. NumDigits[n] = 1 + M /\ M \in Nat \ {0}
      BY <1>1, <2>1, NumDigitsIs, NumDigitsRight
    <3> QED BY <3>1
  <2>3. PrimeCutRight[n] <=> isprime(m) /\ (m < 10 \/ PrimeCutRight[m])
    BY PrimeCutRightIs
  <2>4. n \div pow10[1] = m
    BY <1>0
  <2>5. ASSUME NEW e \in 1..(M - 1)
        PROVE  m \div pow10[e] = n \div pow10[e + 1] /\ e + 1 \in 2..M
    <3>1. e \in Nat /\ e + 1 \in 2..M
      BY <2>2
    <3>2. pow10[e] \in Nat \ {0} /\ pow10[e + 1] = 10 * pow10[e]
      BY <3>1, PowersOfTen
    <3> QED BY <3>1, <3>2, QuotientTwice
  <2>6. \A e \in 2..M : e - 1 \in 1..(M - 1) /\ (e - 1) + 1 = e
    BY <2>2
  <2>7. All(n) <=> isprime(m) /\ \A e \in 1..(M - 1) : isprime(m \div pow10[e])
    <3>1. 1..M = {1} \cup 2..M
      BY <2>2
    <3>2. All(n) <=> isprime(m) /\ \A e \in 2..M : isprime(n \div pow10[e])
      <4>1. All(n) <=> \A e \in 1..M : isprime(n \div pow10[e])
        BY <2>2
      <4> HIDE DEF All, m, M
      <4> QED BY <2>4, <3>1, <4>1
    <3>3. (\A e \in 2..M : isprime(n \div pow10[e]))
            <=> \A e \in 1..(M - 1) : isprime(m \div pow10[e])
      <4> HIDE DEF m, M
      <4>1. ASSUME \A e \in 2..M : isprime(n \div pow10[e]), NEW e \in 1..(M - 1)
            PROVE  isprime(m \div pow10[e])
        BY <2>5, <4>1
      <4>2. ASSUME \A e \in 1..(M - 1) : isprime(m \div pow10[e]), NEW e \in 2..M
            PROVE  isprime(n \div pow10[e])
        <5>1. e - 1 \in 1..(M - 1) /\ (e - 1) + 1 = e
          BY <2>6
        <5>2. isprime(m \div pow10[e - 1]) /\ m \div pow10[e - 1] = n \div pow10[(e - 1) + 1]
          BY <2>5, <4>2, <5>1
        <5> QED BY <5>1, <5>2
      <4> QED BY <4>1, <4>2
    <3> HIDE DEF All, m, M
    <3> QED BY <3>2, <3>3
  <2>8. CASE m < 10
    <3>1. M = 1
      BY <2>1, <2>8, NumDigitsIs
    <3>2. 1..(M - 1) = {}
      BY <3>1
    <3> HIDE DEF All, m, M
    <3> QED BY <2>3, <2>7, <2>8, <3>2
  <2>9. CASE ~(m < 10)
    <3>1. m >= 10
      BY <2>1, <2>9
    <3>2. PrimeCutRight[m] <=> \A e \in 1..(M - 1) : isprime(m \div pow10[e])
      <4>1. Right(m)
        <5> HIDE DEF Right, m
        <5> QED BY <1>1, <2>1
      <4> QED BY <3>1, <4>1
    <3> HIDE DEF All, m, M
    <3> QED BY <2>3, <2>7, <2>9, <3>2
  <2> QED BY <2>8, <2>9
<1>2. \A n \in Nat : n \in Good
  <2>1. ASSUME NEW n \in Nat, \A m \in Nat : Itself[m] < Itself[n] => m \in Good
        PROVE  n \in Good
    <3> HIDE DEF All
    <3>1. Right(n)
      BY <1>1, <2>1
    <3> QED BY <3>1
  <2> HIDE DEF Good
  <2> QED BY <2>1, ByMeasure, ItselfType
<1> QED BY <1>2

(* The second loop asks about the remainders.                              *)
LEMMA LeftCuts ==
    \A n \in Nat : n >= 10 =>
        (PrimeCutLeft[n] <=> \A e \in 1..(NumDigits[n] - 1) : isprime(n % pow10[e]))
<1> DEFINE All(n) == \A e \in 1..(NumDigits[n] - 1) : isprime(n % pow10[e])
           Right(n) == n >= 10 => (PrimeCutLeft[n] <=> All(n))
           Good == {n \in Nat : Right(n)}
<1>1. ASSUME NEW n \in Nat, \A m \in Nat : Itself[m] < Itself[n] => m \in Good, n >= 10
      PROVE  PrimeCutLeft[n] <=> All(n)
  <2> DEFINE N == NumDigits[n]
             c == BehindFirst(n)
             M == NumDigits[c]
             K == N - 1
  <2>1. c \in Nat /\ c < n /\ Itself[c] < Itself[n]
    BY <1>1, BehindFirstLess DEF Itself
  <2>2. K \in Nat \ {0}
    <3>1. n \div 10 \in Nat /\ N = 1 + NumDigits[n \div 10]
      BY <1>1, NumDigitsIs
    <3>2. NumDigits[n \div 10] \in Nat \ {0}
      BY <3>1, NumDigitsRight
    <3> QED BY <3>1, <3>2
  <2>3. c = n % pow10[K]
    BY DEF BehindFirst
  <2>4. M \in Nat \ {0} /\ c < pow10[M] /\ (c # 0 => pow10[M - 1] <= c) /\ (c < 10 => M = 1)
    BY <2>1, NumDigitsRight, NumDigitsIs
  <2>5. PrimeCutLeft[n] <=> isprime(c) /\ (c < 10 \/ PrimeCutLeft[c])
    BY PrimeCutLeftIs
  <2> HIDE DEF K, c
  <2>7. PrimeCutLeft[n] <=> isprime(c) /\ \A e \in 1..(M - 1) : isprime(c % pow10[e])
    <3>1. CASE c < 10
      <4>1. 1..(M - 1) = {}
        BY <2>4, <3>1
      <4> HIDE DEF M
      <4> QED BY <2>5, <3>1, <4>1
    <3>2. CASE ~(c < 10)
      <4>1. c >= 10
        BY <2>1, <3>2
      <4>2. Right(c)
        <5> HIDE DEF Right
        <5> QED BY <1>1, <2>1
      <4> QED BY <2>5, <3>2, <4>1, <4>2
    <3> QED BY <3>1, <3>2
  <2>8. M <= K
    <3>1. pow10[K] \in Nat \ {0}
      BY <2>2, PowersOfTen
    <3>2. c < pow10[K]
      BY <2>3, <3>1, Division
    <3>3. CASE c = 0
      BY <2>2, <2>4, <3>3
    <3>4. CASE c # 0 /\ M > K
      <4>1. M - 1 \in Nat /\ K \in Nat /\ K <= M - 1
        BY <2>2, <2>4, <3>4
      <4>2. pow10[K] <= pow10[M - 1] /\ pow10[M - 1] \in Nat
        BY <4>1, PowersGrow, PowersOfTen
      <4> QED BY <2>1, <2>4, <3>1, <3>2, <3>4, <4>2
    <3> QED BY <2>2, <2>4, <3>3, <3>4
  <2>9. ASSUME NEW e \in 1..K  PROVE c % pow10[e] = n % pow10[e]
    <3>1. e \in Nat /\ e <= K /\ K \in Nat
      BY <2>2
    <3> QED BY <2>3, <3>1, RemainderTwice
  <2>10. ASSUME NEW e \in 1..K, M <= e  PROVE c % pow10[e] = c
    <3>1. e \in Nat /\ M \in Nat
      BY <2>2, <2>4
    <3>2. pow10[M] <= pow10[e] /\ pow10[M] \in Nat /\ pow10[e] \in Nat \ {0}
      BY <2>10, <3>1, PowersGrow, PowersOfTen
    <3>3. c < pow10[e]
      BY <2>1, <2>4, <3>2
    <3>4. \A y \in Nat \ {0} : c < y => c % y = c
      BY <2>1
    <3> QED BY <3>2, <3>3, <3>4
  <2>11. All(n) <=> \A e \in 1..K : isprime(c % pow10[e])
    <3>1. All(n) <=> \A e \in 1..K : isprime(n % pow10[e])
      BY DEF K
    <3> HIDE DEF All
    <3> QED BY <2>9, <3>1
  <2> HIDE DEF M, All
  <2>12. ASSUME \A e \in 1..K : isprime(c % pow10[e])
         PROVE  isprime(c) /\ \A e \in 1..(M - 1) : isprime(c % pow10[e])
    <3>1. K \in 1..K /\ \A e \in 1..(M - 1) : e \in 1..K
      BY <2>2, <2>4, <2>8
    <3>2. c % pow10[K] = c
      BY <2>8, <2>10, <3>1
    <3> QED BY <2>12, <3>1, <3>2
  <2>13. ASSUME isprime(c), \A e \in 1..(M - 1) : isprime(c % pow10[e]), NEW e \in 1..K
         PROVE  isprime(c % pow10[e])
    <3>1. CASE M <= e
      BY <2>10, <2>13, <3>1
    <3>2. CASE ~(M <= e)
      <4>1. e \in 1..(M - 1)
        BY <2>2, <2>4, <3>2
      <4> QED BY <2>13, <4>1
    <3> QED BY <3>1, <3>2
  <2> QED BY <2>7, <2>11, <2>12, <2>13
<1>2. \A n \in Nat : n \in Good
  <2>1. ASSUME NEW n \in Nat, \A m \in Nat : Itself[m] < Itself[n] => m \in Good
        PROVE  n \in Good
    <3> HIDE DEF All
    <3>1. Right(n)
      BY <1>1, <2>1
    <3> QED BY <3>1
  <2> HIDE DEF Good
  <2> QED BY <2>1, ByMeasure, ItselfType
<1> QED BY <1>2

(* Together with the number itself they are what a truncatable prime is.   *)
LEMMA TruncatableFound ==
    ASSUME NEW n \in Nat, n >= 10, \A k \in 0..n : isprime(k) <=> IsPrime(k)
    PROVE  isprime(n) /\ PrimeCutRight[n] /\ PrimeCutLeft[n] <=> TruncatablePrime(n)
<1> DEFINE D == Digits[n]
           L == NumDigits[n]
<1>1. L \in Nat \ {0} /\ Len(D) = L
  BY NumDigitsRight
<1>2. ASSUME NEW k \in 1..(L - 1)
      PROVE  /\ L - k \in 1..(L - 1)
             /\ Value(Front(D, k)) = n \div pow10[L - k] /\ Value(Front(D, k)) \in 0..n
             /\ Value(Behind(D, k)) = n % pow10[L - k] /\ Value(Behind(D, k)) \in 0..n
  <2>1. L - k \in 1..(L - 1) /\ L - k \in Nat /\ k \in 0..L
    BY <1>1
  <2>2. Value(Front(D, k)) = n \div pow10[L - k] /\ Value(Behind(D, k)) = n % pow10[L - k]
    BY <2>1, CutsRight
  <2>3. ASSUME NEW y \in Nat \ {0}  PROVE n \div y \in 0..n /\ n % y \in 0..n
    <3>1. n \div y \in Nat /\ n % y \in Nat /\ n = y * (n \div y) + (n % y)
      BY Division
    <3>2. \A q, r \in Nat : q <= y * q + r /\ r <= y * q + r
      OBVIOUS
    <3> QED BY <3>1, <3>2
  <2>4. pow10[L - k] \in Nat \ {0}
    BY <2>1, PowersOfTen
  <2> HIDE DEF D, L
  <2>5. n \div pow10[L - k] \in 0..n /\ n % pow10[L - k] \in 0..n
    BY <2>3, <2>4
  <2> QED BY <2>1, <2>2, <2>5
<1>3. TruncatablePrime(n) <=>
        IsPrime(n) /\ \A k \in 1..(L - 1) : IsPrime(Value(Front(D, k))) /\ IsPrime(Value(Behind(D, k)))
  BY <1>1 DEF TruncatablePrime
<1>4. /\ PrimeCutRight[n] <=> \A e \in 1..(L - 1) : isprime(n \div pow10[e])
      /\ PrimeCutLeft[n] <=> \A e \in 1..(L - 1) : isprime(n % pow10[e])
  BY RightCuts, LeftCuts
<1> HIDE DEF D, L
<1>5. isprime(n) <=> IsPrime(n)
  <2>1. n \in 0..n
    OBVIOUS
  <2> QED BY <2>1
<1>6. ASSUME NEW k \in 1..(L - 1)
      PROVE  /\ IsPrime(Value(Front(D, k))) <=> isprime(n \div pow10[L - k])
             /\ IsPrime(Value(Behind(D, k))) <=> isprime(n % pow10[L - k])
  BY <1>2
<1>7. ASSUME NEW e \in 1..(L - 1)  PROVE L - e \in 1..(L - 1) /\ L - (L - e) = e
  BY <1>1
<1>8. ASSUME TruncatablePrime(n), NEW e \in 1..(L - 1)
      PROVE  isprime(n \div pow10[e]) /\ isprime(n % pow10[e])
  <2> DEFINE k == L - e
  <2>1. k \in 1..(L - 1) /\ L - k = e
    BY <1>7
  <2> HIDE DEF k
  <2> QED BY <1>3, <1>6, <1>8, <2>1
<1>9. ASSUME isprime(n), PrimeCutRight[n], PrimeCutLeft[n]  PROVE TruncatablePrime(n)
  <2>1. ASSUME NEW k \in 1..(L - 1)
        PROVE  IsPrime(Value(Front(D, k))) /\ IsPrime(Value(Behind(D, k)))
    BY <1>2, <1>4, <1>6, <1>9
  <2> QED BY <1>3, <1>5, <1>9, <2>1
<1> QED BY <1>3, <1>4, <1>5, <1>8, <1>9

-----------------------------------------------------------------------------
(* The value of one sequence of digits behind another.                     *)
LEMMA HornerConcat ==
    ASSUME NEW a \in Seq(Nat), NEW b \in Seq(Nat)
    PROVE  Value(a \o b) = Value(a) * pow10[Len(b)] + Value(b)
<1> DEFINE I == 0..Len(b)
           measure == [k \in I |-> k]
           v == Value(a)
           Right(k) == Value(a \o Front(b, k)) = v * pow10[k] + Value(Front(b, k))
           Good == {k \in I : Right(k)}
<1>0. Len(b) \in Nat /\ pow10[0] = 1 /\ v \in Nat
  <2>1. v \in Nat
    BY HornerAppend DEF Value
  <2> QED BY <2>1, PowersOfTen
<1>1. Right(0)
  <2>1. Front(b, 0) \in Seq(Nat) /\ Len(Front(b, 0)) = 0 /\ Front(b, 0) = << >>
    BY DEF Front
  <2>2. Value(Front(b, 0)) = 0
    BY <2>1, HornerEmpty DEF Value
  <2>3. a \o << >> = a
    OBVIOUS
  <2>4. v * 1 + 0 = v
    BY <1>0
  <2> QED BY <1>0, <2>1, <2>2, <2>3, <2>4
<1>2. ASSUME NEW k \in I, k # 0, Right(k - 1)  PROVE Right(k)
  <2> DEFINE m == k - 1
             F == Front(b, m)
             d == b[k]
  <2>1. m \in Nat /\ m \in 0..Len(b) /\ m + 1 = k /\ k \in 1..Len(b) /\ d \in Nat
    BY <1>0, <1>2
  <2>2. Front(b, k) = Append(F, d) /\ F \in Seq(Nat)
    <3> HIDE DEF d
    <3>1. /\ F \in Seq(Nat) /\ Len(F) = m /\ \A j \in 1..m : F[j] = b[j]
      BY <1>0, <2>1 DEF Front
    <3>2. /\ Front(b, k) \in Seq(Nat) /\ Len(Front(b, k)) = k
          /\ \A j \in 1..k : Front(b, k)[j] = b[j]
      BY <1>0, <2>1 DEF Front
    <3> HIDE DEF F
    <3>3. /\ Append(F, d) \in Seq(Nat) /\ Len(Append(F, d)) = k
          /\ (\A j \in 1..m : Append(F, d)[j] = F[j]) /\ Append(F, d)[k] = d
      BY <2>1, <3>1
    <3>4. ASSUME NEW j \in 1..k  PROVE Front(b, k)[j] = Append(F, d)[j]
      <4>1. CASE j = k
        BY <3>2, <3>3, <4>1 DEF d
      <4>2. CASE j # k
        <5>1. j \in 1..m
          BY <2>1, <4>2
        <5> QED BY <3>1, <3>2, <3>3, <5>1
      <4> QED BY <4>1, <4>2
    <3> HIDE DEF m
    <3>5. Front(b, k) = Append(F, d)
      BY <3>2, <3>3, <3>4, SeqEqual
    <3> QED BY <3>1, <3>5
  <2> HIDE DEF m, d, F, v
  <2>3. a \o Append(F, d) = Append(a \o F, d) /\ a \o F \in Seq(Nat)
    <3>1. <<d>> \in Seq(Nat) /\ a \o F \in Seq(Nat) /\ F \in Seq(Nat)
      BY <2>1, <2>2
    <3>2. Append(F, d) = F \o <<d>> /\ Append(a \o F, d) = (a \o F) \o <<d>>
      BY <2>1, <3>1, AppendIsConcat
    <3>3. a \o (F \o <<d>>) = (a \o F) \o <<d>>
      BY <3>1, ConcatAssociative
    <3> QED BY <3>1, <3>2, <3>3
  <2>4. /\ Value(Append(a \o F, d)) = 10 * Value(a \o F) + d
        /\ Value(Append(F, d)) = 10 * Value(F) + d /\ Value(F) \in Nat
    <3>1. Append(a \o F, d) \in Seq(Nat) /\ Append(F, d) \in Seq(Nat) /\ 10 \in Nat
      BY <2>1, <2>2, <2>3
    <3>2. Horner(Append(a \o F, d), 10) = 10 * Horner(a \o F, 10) + d
      BY <2>1, <2>3, <3>1, HornerAppend
    <3>3. Horner(Append(F, d), 10) = 10 * Horner(F, 10) + d /\ Horner(F, 10) \in Nat
      BY <2>1, <2>2, <3>1, HornerAppend
    <3> QED BY <3>2, <3>3 DEF Value
  <2>5. Value(a \o F) = v * pow10[m] + Value(F)
    BY <1>2 DEF m, F
  <2>6. pow10[k] = 10 * pow10[m] /\ pow10[m] \in Nat
    BY <2>1, PowersOfTen
  <2>8. 10 * (v * pow10[m] + Value(F)) + d = v * (10 * pow10[m]) + (10 * Value(F) + d)
    <3> DEFINE x == Value(F)
               p == pow10[m]
    <3>1. x \in Nat /\ p \in Nat /\ v \in Nat /\ d \in Nat
      BY <1>0, <2>1, <2>4, <2>6
    <3> HIDE DEF x, p
    <3>2. 10 * (v * p + x) + d = v * (10 * p) + (10 * x + d)
      BY <3>1
    <3> QED BY <3>2 DEF x, p
  <2> QED BY <2>2, <2>3, <2>4, <2>5, <2>6, <2>8
<1>3. ASSUME NEW k \in I, \A m \in I : measure[m] < measure[k] => m \in Good
      PROVE  k \in Good
  <2>1. CASE k = 0
    <3> HIDE DEF Right
    <3> QED BY <1>1, <2>1
  <2>2. CASE k # 0
    <3>1. k - 1 \in I /\ measure[k - 1] < measure[k]
      BY <1>0, <2>2
    <3>2. Right(k - 1)
      <4> HIDE DEF Right, I, measure
      <4> QED BY <1>3, <3>1
    <3> HIDE DEF Right, I
    <3> QED BY <1>2, <2>2, <3>2
  <2> QED BY <2>1, <2>2
<1>4. measure \in [I -> Nat]
  BY <1>0
<1>5. \A k \in I : k \in Good
  <2> HIDE DEF Good, I, measure
  <2> QED BY <1>3, <1>4, ByMeasure
<1>6. Right(Len(b))
  <2>1. Len(b) \in I
    BY <1>0
  <2> HIDE DEF Right, I
  <2> QED BY <1>5, <2>1
<1>7. Front(b, Len(b)) = b
  BY DEF Front
<1> QED BY <1>6, <1>7

(* The rotation by j digits, and by one digit of a number of L digits.     *)
Turned35(n, j) ==
    (n \div pow10[j]) + (n % pow10[j]) * pow10[NumDigits[n] - j]
TurnOf(x, L) == (x \div 10) + pow10[L - 1] * (x % 10)

(* The digits turned by k places have the value that Turned35 gives to the *)
(* arithmetic of k rotations.                                              *)
LEMMA RotationsAre ==
    ASSUME NEW n \in Nat, NEW k \in 1..NumDigits[n]
    PROVE  Value(Behind(Digits[n], k) \o Front(Digits[n], k)) = Turned35(n, NumDigits[n] - k)
<1> DEFINE L == NumDigits[n]
           D == Digits[n]
           j == L - k
           A == Behind(D, k)
           F == Front(D, k)
<1>1. L \in Nat \ {0} /\ D \in Seq(Nat) /\ Len(D) = L
  BY NumDigitsRight, DigitsType
<1>2. j \in Nat /\ L - j = k /\ k \in 0..L
  BY <1>1
<1>3. Value(F) = n \div pow10[j] /\ Value(A) = n % pow10[j]
  BY <1>2, CutsRight
<1>4. A \in Seq(Nat) /\ F \in Seq(Nat) /\ Len(F) = k
  <2> HIDE DEF D, L
  <2>1. k \in 0..Len(D) /\ 0 \in Nat
    BY <1>1, <1>2
  <2> QED BY <1>1, <2>1, CutsAppend
<1>5. Value(A \o F) = Value(A) * pow10[k] + Value(F)
  <2> HIDE DEF A, F
  <2> QED BY <1>4, HornerConcat
<1>6. Turned35(n, j) = (n \div pow10[j]) + (n % pow10[j]) * pow10[k]
  BY <1>2 DEF Turned35
<1> HIDE DEF A, F, j
<1>7. pow10[j] \in Nat \ {0} /\ pow10[k] \in Nat
  <2>1. k \in Nat
    BY <1>1, <1>2
  <2> QED BY <1>2, <2>1, PowersOfTen
<1>8. n \div pow10[j] \in Nat /\ n % pow10[j] \in Nat
  BY <1>7, Division
<1>9. \A x, y, z \in Nat : x * y + z = z + x * y
  OBVIOUS
<1>10. Value(A \o F) = Turned35(n, j)
  BY <1>3, <1>5, <1>6, <1>7, <1>8, <1>9
<1> QED BY <1>10 DEF A, F, j, D, L

(* One follows from the other, and none gets larger than its digits allow. *)
LEMMA RotationsFollow ==
    ASSUME NEW n \in Nat, NEW L \in Nat \ {0}, L = NumDigits[n]
    PROVE  /\ Turned35(n, 0) = n /\ Turned35(n, L) = n
           /\ \A j \in 0..(L - 1) : Turned35(n, j + 1) = TurnOf(Turned35(n, j), L)
           /\ \A j \in 0..L : Turned35(n, j) \in Nat /\ Turned35(n, j) < pow10[L]
<1>0. /\ L \in Nat /\ pow10[0] = 1 /\ pow10[L] \in Nat \ {0} /\ n < pow10[L] /\ L - L = 0
      /\ L - 0 = L
  <2>1. L \in Nat /\ L - L = 0 /\ L - 0 = L
    OBVIOUS
  <2>2. n < pow10[L]
    BY NumDigitsRight
  <2> QED BY <2>1, <2>2, PowersOfTen
<1>1. Turned35(n, 0) = n
  <2>1. n \div 1 = n /\ n % 1 = 0 /\ 0 * pow10[L] = 0 /\ n + 0 = n
    BY <1>0
  <2> QED BY <1>0, <2>1 DEF Turned35
<1>2. Turned35(n, L) = n
  <2>1. n \div pow10[L] = 0 /\ n % pow10[L] = n
    <3>1. \A y \in Nat \ {0} : n < y => n \div y = 0 /\ n % y = n
      OBVIOUS
    <3> QED BY <1>0, <3>1
  <2>2. NumDigits[n] - L = 0 /\ 0 + n * 1 = n
    BY <1>0
  <2> QED BY <1>0, <2>1, <2>2 DEF Turned35
<1>3. ASSUME NEW j \in 0..L
      PROVE  /\ Turned35(n, j) \in Nat /\ Turned35(n, j) < pow10[L]
  <2> DEFINE p == pow10[j]
             u == pow10[L - j]
             a == n \div p
             b == n % p
  <2>1. j \in Nat /\ L - j \in Nat /\ pow10[L] = p * u /\ p \in Nat \ {0} /\ u \in Nat \ {0}
    <3>1. j \in Nat /\ j <= L /\ L - j \in Nat
      OBVIOUS
    <3> QED BY <1>0, <3>1, PowersGrow, PowersOfTen
  <2>2. a \in Nat /\ b \in Nat /\ b < p /\ n = p * a + b
    <3> HIDE DEF p
    <3> QED BY <2>1, Division
  <2>3. Turned35(n, j) = a + b * u
    BY DEF Turned35
  <2> HIDE DEF p, u, a, b
  <2>4. a < u
    <3>1. ASSUME u <= a  PROVE p * u <= p * a
      BY <2>1, <2>2, <3>1
    <3>2. p * a \in Nat /\ p * u \in Nat
      BY <2>1, <2>2
    <3> QED BY <1>0, <2>1, <2>2, <3>1, <3>2
  <2>5. a + b * u < p * u /\ a + b * u \in Nat
    <3>1. b + 1 <= p
      BY <2>1, <2>2
    <3>2. (b + 1) * u <= p * u
      BY <2>1, <2>2, <3>1
    <3>3. (b + 1) * u = b * u + u /\ b * u \in Nat /\ p * u \in Nat
      BY <2>1, <2>2
    <3> QED BY <2>1, <2>2, <2>4, <3>2, <3>3
  <2> QED BY <2>1, <2>3, <2>5
<1>4. ASSUME NEW j \in 0..(L - 1)
      PROVE  Turned35(n, j + 1) = TurnOf(Turned35(n, j), L)
  <2> DEFINE p == pow10[j]
             u == pow10[L - (j + 1)]
             a == n \div p
             b == n % p
             c == a \div 10
             d == a % 10
  <2>1. /\ j \in Nat /\ L - (j + 1) \in Nat /\ j + (L - (j + 1)) = L - 1 /\ L - 1 \in Nat
        /\ L - j = (L - (j + 1)) + 1
    OBVIOUS
  <2>2. /\ p \in Nat \ {0} /\ u \in Nat \ {0} /\ pow10[L - 1] = p * u
        /\ pow10[j + 1] = 10 * p /\ pow10[L - j] = 10 * u
    <3> DEFINE k == L - (j + 1)
    <3>1. k \in Nat /\ j \in Nat /\ j + k = L - 1 /\ L - j = k + 1
      BY <2>1
    <3> HIDE DEF k
    <3>2. pow10[j] \in Nat \ {0} /\ pow10[k] \in Nat \ {0}
      BY <3>1, PowersOfTen
    <3>3. pow10[j + 1] = 10 * pow10[j] /\ pow10[k + 1] = 10 * pow10[k]
      BY <3>1, PowersOfTen
    <3>4. pow10[j + k] = pow10[j] * pow10[k]
      BY <3>1, PowersMultiply
    <3> QED BY <3>1, <3>2, <3>3, <3>4 DEF k
  <2>3. a \in Nat /\ b \in Nat /\ b < p /\ n = p * a + b
    <3> HIDE DEF p
    <3> QED BY <2>2, Division
  <2>4. Turned35(n, j) = a + b * (10 * u)
    BY <2>2 DEF Turned35
  <2>5. Turned35(n, j + 1) = (n \div (10 * p)) + (n % (10 * p)) * u
    BY <2>2 DEF Turned35
  <2> HIDE DEF p, u, a, b
  <2>6. c \in Nat /\ d \in Nat /\ d < 10 /\ a = 10 * c + d
    BY <2>3
  <2> HIDE DEF c, d
  <2>7. n \div (10 * p) = c /\ n % (10 * p) = p * d + b
    <3> DEFINE y == 10 * p
               r == p * d + b
    <3>1. y \in Nat \ {0} /\ r \in Nat
      BY <2>2, <2>3, <2>6
    <3>2. r < y
      <4>1. d + 1 <= 10
        BY <2>6
      <4>2. p * (d + 1) <= p * 10 /\ p * (d + 1) = p * d + p /\ p * d \in Nat
        BY <2>2, <2>6, <4>1
      <4> QED BY <2>2, <2>3, <4>2
    <3>3. n = y * c + r
      <4>1. \A x1, x2, x3, x4 \in Nat : x1 * (10 * x2 + x3) + x4 = (10 * x1) * x2 + (x1 * x3 + x4)
        OBVIOUS
      <4> QED BY <2>2, <2>3, <2>6, <4>1
    <3> HIDE DEF y, r
    <3>4. n \div y = c /\ n % y = r
      BY <2>6, <3>1, <3>2, <3>3, DivisionUnique
    <3> QED BY <3>4 DEF y, r
  <2> DEFINE x == a + b * (10 * u)
  <2>8. x \div 10 = c + b * u /\ x % 10 = d
    <3> DEFINE q == c + b * u
    <3>1. q \in Nat /\ x = 10 * q + d
      <4>1. \A x1, x2, x3, x4 \in Nat : (10 * x1 + x2) + x3 * (10 * x4) = 10 * (x1 + x3 * x4) + x2
        OBVIOUS
      <4>2. q \in Nat
        BY <2>2, <2>3, <2>6
      <4> QED BY <2>2, <2>3, <2>6, <4>1, <4>2
    <3> HIDE DEF q, x
    <3>2. x \div 10 = q /\ x % 10 = d
      <4>1. 10 \in Nat \ {0}
        OBVIOUS
      <4> QED BY <2>6, <3>1, <4>1, DivisionUnique
    <3> QED BY <3>2 DEF q
  <2>9. TurnOf(x, L) = (c + b * u) + (p * u) * d
    <3> HIDE DEF x
    <3> QED BY <2>2, <2>8 DEF TurnOf
  <2>10. \A x1, x2, x3, x4, x5 \in Nat : x1 + (x2 * x3 + x4) * x5 = (x1 + x4 * x5) + (x2 * x5) * x3
    OBVIOUS
  <2>11. c + (p * d + b) * u = (c + b * u) + (p * u) * d
    BY <2>2, <2>3, <2>6, <2>10
  <2>12. Turned35(n, j + 1) = c + (p * d + b) * u
    BY <2>5, <2>7
  <2> QED BY <2>4, <2>9, <2>11, <2>12
<1> QED BY <1>1, <1>2, <1>3, <1>4

(* rotate does that, and keeps the number of digits unless the last is 0,  *)
(* which no prime of two digits or more ends with.                         *)
LEMMA RotateTurns ==
    ASSUME NEW x \in Nat, NEW L \in Nat \ {0}, NumDigits[x] = L
    PROVE  rotate(x) = TurnOf(x, L)
<1>1. CASE x < 10
  <2>1. L - 1 = 0 /\ pow10[0] = 1 /\ x \div 10 = 0 /\ x % 10 = x /\ 0 + 1 * x = x
    <3>1. L = 1 /\ pow10[0] = 1
      BY <1>1, NumDigitsIs, PowersOfTen
    <3>2. x \div 10 = 0 /\ x % 10 = x /\ 0 + 1 * x = x
      BY <1>1
    <3> QED BY <3>1, <3>2
  <2> QED BY <1>1, <2>1 DEF rotate, TurnOf
<1>2. CASE x >= 10
  <2>1. x \div 10 \in Nat /\ ~(x < 10)
    BY <1>2
  <2>2. NumDigits[x \div 10] \in Nat /\ L = 1 + NumDigits[x \div 10]
    BY <1>2, <2>1, NumDigitsIs, NumDigitsRight
  <2>3. L - 1 = NumDigits[x \div 10]
    BY <2>2
  <2> QED BY <2>1, <2>3 DEF rotate, TurnOf
<1> QED BY <1>1, <1>2

(* A rotation of a prime keeps the number of digits: no digit 0 comes to   *)
(* the front, as a prime does not end in one, or the number has one digit. *)
LEMMA DigitsKept ==
    ASSUME NEW x \in Nat, NEW L \in Nat \ {0}, NumDigits[x] = L, isprime(x),
           TurnOf(x, L) < pow10[L]
    PROVE  NumDigits[TurnOf(x, L)] = L
<1>1. CASE x < 10
  <2>1. L - 1 = 0 /\ pow10[0] = 1 /\ x \div 10 = 0 /\ x % 10 = x /\ 0 + 1 * x = x
    <3>1. L = 1 /\ pow10[0] = 1
      BY <1>1, NumDigitsIs, PowersOfTen
    <3>2. x \div 10 = 0 /\ x % 10 = x /\ 0 + 1 * x = x
      BY <1>1
    <3> QED BY <3>1, <3>2
  <2> QED BY <2>1 DEF TurnOf
<1>2. CASE x >= 10
  <2>1. x % 10 \in Nat \ {0} /\ x \div 10 \in Nat
    <3>1. x % 2 = 1
      BY <1>2 DEF isprime
    <3>2. x % 10 = 0 => x % 2 = 0
      OBVIOUS
    <3>3. x % 10 \in Nat /\ x \div 10 \in Nat
      OBVIOUS
    <3> QED BY <3>1, <3>2, <3>3
  <2> DEFINE p == pow10[L - 1]
             d == x % 10
             c == x \div 10
  <2>2. L - 1 \in Nat /\ (L - 1) + 1 = L /\ p \in Nat
    BY PowersOfTen
  <2> HIDE DEF p, d, c
  <2>3. TurnOf(x, L) = c + p * d
    BY DEF TurnOf, p, d, c
  <2>4. d \in Nat \ {0} /\ c \in Nat
    BY <2>1 DEF d, c
  <2>5. p <= c + p * d /\ c + p * d \in Nat
    <3>1. p <= p * d /\ p * d \in Nat
      BY <2>2, <2>4
    <3> QED BY <2>2, <2>4, <3>1
  <2> DEFINE y == TurnOf(x, L)
             K == L - 1
  <2>6. y \in Nat /\ K \in Nat /\ pow10[K] <= y /\ y < pow10[K + 1] /\ K + 1 = L
    BY <2>2, <2>3, <2>5 DEF p
  <2> HIDE DEF y, K
  <2>7. NumDigits[y] = K + 1
    BY <2>6, NumDigitsUnique
  <2> QED BY <2>6, <2>7 DEF y
<1> QED BY <1>1, <1>2

-----------------------------------------------------------------------------
(* The loop of 35.c need not end, so that what it decides is given by the  *)
(* least set of numbers from which it would be back at n.                  *)
LeadsBack(n, T) ==
    /\ T \in SUBSET Nat
    /\ \A x \in Nat : isprime(rotate(x)) /\ (rotate(x) = n \/ rotate(x) \in T) => x \in T

(* A rotation of a number is a number.                                     *)
LEMMA rotateType == \A x \in Nat : rotate(x) \in Nat
<1> SUFFICES ASSUME NEW x \in Nat  PROVE rotate(x) \in Nat
  OBVIOUS
<1>1. NumDigits[x] \in Nat \ {0}
  BY NumDigitsRight
<1>2. rotate(x) = TurnOf(x, NumDigits[x])
  BY <1>1, RotateTurns
<1>3. pow10[NumDigits[x] - 1] \in Nat
  <2>1. NumDigits[x] - 1 \in Nat
    BY <1>1
  <2> QED BY <2>1, PowersOfTen
<1>4. \A p \in Nat : (x \div 10) + p * (x % 10) \in Nat
  OBVIOUS
<1> QED BY <1>2, <1>3, <1>4 DEF TurnOf

(* The loop of 35.c need not end, so its recursion does not define it; the *)
(* least set of numbers that lead back is a function that obeys it, and    *)
(* RotatesBack obeys it too.                                               *)
LEMMA RotatesBackIs ==
    ASSUME NEW n \in Nat
    PROVE  \E f : /\ RotatesBack(n) <=> f[n]
                  /\ \A x \in Nat : f[x] <=>
                        isprime(rotate(x)) /\ (rotate(x) = n \/ f[rotate(x)])
<1> DEFINE C == {x \in Nat : \A T \in SUBSET Nat : LeadsBack(n, T) => x \in T}
           f0 == [x \in Nat |-> x \in C]
           Eq(f) == f = [x \in Nat |-> isprime(rotate(x)) /\ (rotate(x) = n \/ f[rotate(x)])]
           back == CHOOSE f : Eq(f)
<1>0. \A x \in Nat : isprime(rotate(x)) \in BOOLEAN
  BY DEF isprime
<1>1. ASSUME NEW x \in Nat, isprime(rotate(x)), rotate(x) = n \/ rotate(x) \in C
      PROVE  x \in C
  <2>1. ASSUME NEW T \in SUBSET Nat, LeadsBack(n, T)  PROVE x \in T
    <3>1. rotate(x) = n \/ rotate(x) \in T
      BY <1>1, <2>1
    <3> QED BY <1>1, <2>1, <3>1 DEF LeadsBack
  <2> QED BY <2>1
<1>2. ASSUME NEW x \in C  PROVE isprime(rotate(x)) /\ (rotate(x) = n \/ rotate(x) \in C)
  <2> SUFFICES ASSUME ~(isprime(rotate(x)) /\ (rotate(x) = n \/ rotate(x) \in C))  PROVE FALSE
    OBVIOUS
  <2> DEFINE T == C \ {x}
  <2>1. T \in SUBSET Nat /\ x \in Nat
    OBVIOUS
  <2>2. ASSUME NEW y \in Nat, isprime(rotate(y)), rotate(y) = n \/ rotate(y) \in T
        PROVE  y \in T
    <3>1. y \in C
      <4>1. rotate(y) = n \/ rotate(y) \in C
        BY <2>2
      <4> HIDE DEF C
      <4> QED BY <1>1, <2>2, <4>1
    <3>2. y # x
      <4> HIDE DEF C
      <4> QED BY <2>2
    <3> HIDE DEF C
    <3> QED BY <3>1, <3>2
  <2>3. LeadsBack(n, T)
    <3> HIDE DEF T
    <3> QED BY <2>1, <2>2 DEF LeadsBack
  <2>4. x \in T
    <3> HIDE DEF T
    <3> QED BY <2>1, <2>3
  <2> QED BY <2>4
<1> HIDE DEF C
<1>3. Eq(f0)
  <2>1. ASSUME NEW x \in Nat
        PROVE  (x \in C) = (isprime(rotate(x)) /\ (rotate(x) = n \/ f0[rotate(x)]))
    <3>1. rotate(x) \in Nat
      BY rotateType
    <3>2. f0[rotate(x)] = (rotate(x) \in C)
      BY <3>1
    <3>3. x \in C <=> isprime(rotate(x)) /\ (rotate(x) = n \/ rotate(x) \in C)
      BY <1>1, <1>2
    <3> HIDE DEF f0
    <3>4. f0[rotate(x)] \in BOOLEAN /\ (x \in C) \in BOOLEAN
      <4>1. \A y, D : (y \in D) \in BOOLEAN
        OBVIOUS
      <4> QED BY <3>2, <4>1
    <3>5. x \in C <=> isprime(rotate(x)) /\ (rotate(x) = n \/ f0[rotate(x)])
      BY <3>2, <3>3
    <3> QED BY <1>0, <3>4, <3>5
  <2> QED BY <2>1
<1>4. Eq(back)
  <2> HIDE DEF f0
  <2> QED BY <1>3
<1>5. RotatesBack(n) = back[n]
  BY DEF RotatesBack
<1>6. \A x \in Nat : back[x] = (isprime(rotate(x)) /\ (rotate(x) = n \/ back[rotate(x)]))
  <2> HIDE DEF back
  <2> QED BY <1>4
<1> HIDE DEF back
<1> QED BY <1>5, <1>6

(* Below the limit the test tells the primes.                              *)
ToldBelow(limit) == \A k \in 0..(limit - 1) : isprime(k) <=> IsPrime(k)

(* What 35.c counts is what the digits define, for a number whose          *)
(* rotations the table holds.                                              *)
LEMMA CircularFound ==
    ASSUME NEW n \in Nat, ToldBelow(pow10[NumDigits[n]])
    PROVE  isprime(n) /\ RotatesBack(n) <=> CircularPrime(n)
<1> DEFINE L == NumDigits[n]
           S == [j \in 0..L |-> Turned35(n, j)]
           AllPrime == \A j \in 0..(L - 1) : isprime(S[j])
<1>1. L \in Nat \ {0} /\ Len(Digits[n]) = L /\ pow10[L] \in Nat
  BY NumDigitsRight, PowersOfTen
<1> HIDE DEF L
<1>2. /\ S[0] = n /\ S[L] = n
      /\ \A j \in 0..L : S[j] \in Nat /\ S[j] < pow10[L]
      /\ \A j \in 0..(L - 1) : S[j + 1] = TurnOf(S[j], L)
  <2>1. /\ Turned35(n, 0) = n /\ Turned35(n, L) = n
        /\ \A j \in 0..(L - 1) : Turned35(n, j + 1) = TurnOf(Turned35(n, j), L)
        /\ \A j \in 0..L : Turned35(n, j) \in Nat /\ Turned35(n, j) < pow10[L]
    BY <1>1, RotationsFollow DEF L
  <2>2. 0 \in 0..L /\ L \in 0..L /\ \A j \in 0..(L - 1) : j \in 0..L /\ j + 1 \in 0..L
    BY <1>1
  <2> QED BY <2>1, <2>2
<1>3. CircularPrime(n) <=> \A k \in 1..L : IsPrime(S[L - k])
  <2>1. ASSUME NEW k \in 1..L
        PROVE  Value(Behind(Digits[n], k) \o Front(Digits[n], k)) = S[L - k]
    <3>1. L - k \in 0..L
      BY <1>1
    <3> QED BY <3>1, RotationsAre DEF L
  <2> HIDE DEF S
  <2> QED BY <1>1, <2>1 DEF CircularPrime
<1> HIDE DEF S
<1>4. CircularPrime(n) <=> AllPrime
  <2>1. ASSUME NEW j \in 0..L  PROVE isprime(S[j]) <=> IsPrime(S[j])
    <3>1. S[j] \in 0..(pow10[L] - 1)
      BY <1>1, <1>2
    <3> QED BY <3>1 DEF L, ToldBelow
  <2>2. ASSUME NEW j \in 0..(L - 1)  PROVE j \in 0..L /\ L - j \in 1..L /\ L - (L - j) = j
    BY <1>1
  <2>3. ASSUME NEW k \in 1..L  PROVE L - k \in 0..(L - 1) /\ L - k \in 0..L
    BY <1>1
  <2>4. ASSUME AllPrime, NEW k \in 1..L  PROVE IsPrime(S[L - k])
    BY <2>1, <2>3, <2>4
  <2>5. ASSUME \A k \in 1..L : IsPrime(S[L - k]), NEW j \in 0..(L - 1)  PROVE isprime(S[j])
    <3> DEFINE k == L - j
    <3>1. k \in 1..L /\ L - k = j /\ j \in 0..L
      BY <2>2
    <3> HIDE DEF k
    <3> QED BY <2>1, <2>5, <3>1
  <2> QED BY <1>3, <2>4, <2>5
<1>5. PICK f : /\ RotatesBack(n) <=> f[n]
               /\ \A x \in Nat : f[x] <=> isprime(rotate(x)) /\ (rotate(x) = n \/ f[rotate(x)])
  BY RotatesBackIs
<1>6. ASSUME NEW j \in 0..(L - 1), isprime(S[j]), NumDigits[S[j]] = L
      PROVE  /\ S[j + 1] = rotate(S[j]) /\ NumDigits[S[j + 1]] = L
             /\ f[S[j]] <=> isprime(S[j + 1]) /\ (S[j + 1] = n \/ f[S[j + 1]])
  <2>1. S[j] \in Nat /\ S[j + 1] = TurnOf(S[j], L) /\ S[j + 1] < pow10[L]
    <3>1. j \in 0..L /\ j + 1 \in 0..L
      BY <1>1
    <3> QED BY <1>2, <3>1
  <2>2. S[j + 1] = rotate(S[j])
    BY <1>1, <1>6, <2>1, RotateTurns
  <2>3. NumDigits[S[j + 1]] = L
    BY <1>1, <1>6, <2>1, DigitsKept
  <2> QED BY <1>5, <2>1, <2>2, <2>3
<1> DEFINE I == 0..(L - 1)
           up == [j \in I |-> j]
           down == [j \in I |-> L - 1 - j]
<1>7. 0 \in I
  BY <1>1
<1>10. up \in [I -> Nat]
  BY <1>1
<1>11. down \in [I -> Nat]
  BY <1>1
<1>8. ASSUME isprime(n), RotatesBack(n)  PROVE AllPrime
  <2> DEFINE Good == {j \in I : isprime(S[j]) /\ NumDigits[S[j]] = L /\ f[S[j]]}
  <2>1. ASSUME NEW j \in I, \A m \in I : up[m] < up[j] => m \in Good
        PROVE  j \in Good
    <3>1. CASE j = 0
      BY <1>2, <1>5, <1>8, <3>1 DEF L
    <3>2. CASE j # 0
      <4>1. j - 1 \in I /\ up[j - 1] < up[j] /\ (j - 1) + 1 = j
        BY <1>1, <3>2
      <4>2. isprime(S[j - 1]) /\ NumDigits[S[j - 1]] = L /\ f[S[j - 1]]
        BY <2>1, <4>1
      <4>3. /\ NumDigits[S[j]] = L
            /\ f[S[j - 1]] <=> isprime(S[j]) /\ (S[j] = n \/ f[S[j]])
        BY <1>6, <4>1, <4>2
      <4> QED BY <1>5, <1>8, <4>2, <4>3
    <3> QED BY <3>1, <3>2
  <2>2. \A j \in I : j \in Good
    <3> HIDE DEF Good, I, up
    <3> QED BY <1>10, <2>1, ByMeasure
  <2> QED BY <2>2
<1>9. ASSUME AllPrime  PROVE isprime(n) /\ RotatesBack(n)
  <2> DEFINE Long == {j \in I : NumDigits[S[j]] = L}
             Good == {j \in I : f[S[j]]}
  <2>1. ASSUME NEW j \in I, \A m \in I : up[m] < up[j] => m \in Long
        PROVE  j \in Long
    <3>1. CASE j = 0
      BY <1>2, <3>1 DEF L
    <3>2. CASE j # 0
      <4>1. j - 1 \in I /\ up[j - 1] < up[j] /\ (j - 1) + 1 = j
        BY <1>1, <3>2
      <4>2. isprime(S[j - 1]) /\ NumDigits[S[j - 1]] = L
        BY <1>9, <2>1, <4>1
      <4> QED BY <1>6, <4>1, <4>2
    <3> QED BY <3>1, <3>2
  <2>2. \A j \in I : j \in Long
    <3> HIDE DEF Long, I, up
    <3> QED BY <1>10, <2>1, ByMeasure
  <2>3. isprime(n)
    BY <1>2, <1>7, <1>9
  <2>4. ASSUME NEW j \in I, \A m \in I : down[m] < down[j] => m \in Good
        PROVE  j \in Good
    <3>1. f[S[j]] <=> isprime(S[j + 1]) /\ (S[j + 1] = n \/ f[S[j + 1]])
      BY <1>6, <1>9, <2>2
    <3>2. CASE j = L - 1
      <4>1. S[j + 1] = n
        <5>1. j + 1 = L
          BY <1>1, <3>2
        <5> QED BY <1>2, <5>1
      <4> QED BY <2>3, <3>1, <4>1
    <3>3. CASE j # L - 1
      <4>1. j + 1 \in I /\ down[j + 1] < down[j]
        BY <1>1, <3>3
      <4>2. f[S[j + 1]] /\ isprime(S[j + 1])
        BY <1>9, <2>4, <4>1
      <4> QED BY <3>1, <4>2
    <3> QED BY <3>2, <3>3
  <2>5. \A j \in I : j \in Good
    <3> HIDE DEF Good, I, down
    <3> QED BY <1>11, <2>4, ByMeasure
  <2>6. f[n]
    BY <1>2, <1>7, <2>5
  <2> QED BY <1>5, <2>3, <2>6
<1> HIDE DEF AllPrime
<1> QED BY <1>4, <1>8, <1>9

-----------------------------------------------------------------------------
(* The loops of jacobi.                                                    *)
Signs == {-1, 1}
Triples == Nat \X Nat \X Signs
Positive == (Nat \ {0}) \X Nat \X Signs

(* The arguments of the two loops.                                         *)
LEMMA TripleIs ==
    /\ \A s \in Triples : /\ s[1] \in Nat /\ s[2] \in Nat /\ s[3] \in Signs
                          /\ s[1] # 0 => s \in Positive
    /\ \A s \in Positive : s[1] \in Nat \ {0} /\ s[2] \in Nat /\ s[3] \in Signs /\ s \in Triples
    /\ \A v \in Nat, n \in Nat, r \in Signs :
          /\ <<v, n, r>> \in Triples /\ (v # 0 => <<v, n, r>> \in Positive)
BY DEF Triples, Positive

Halved(s) == <<s[1] \div 2, s[2], IF s[2] % 8 \in {3, 5} THEN -s[3] ELSE s[3]>>
Odds3 == {s \in Positive : s[1] % 2 # 0}
Halve == [s \in Positive |-> IF s[1] % 2 # 0 THEN s ELSE Halved(s)]
FirstOf3 == [s \in Triples |-> s[1]]
FirstOfPositive == [s \in Positive |-> s[1]]
Outs == (Nat \ {0}) \X Signs

(* Halving comes down.                                                     *)
LEMMA HalvedIs ==
    ASSUME NEW s \in Positive, s[1] % 2 = 0
    PROVE  Halved(s) \in Positive /\ Halved(s)[1] = s[1] \div 2 /\ s[1] \div 2 < s[1]
<1> DEFINE r == IF s[2] % 8 \in {3, 5} THEN -s[3] ELSE s[3]
           h == s[1] \div 2
<1>1. s[1] \in Nat \ {0} /\ s[2] \in Nat /\ s[3] \in Signs
  BY TripleIs
<1>2. r \in Signs
  BY <1>1 DEF Signs
<1>3. h \in Nat /\ h # 0 /\ h < s[1]
  BY <1>1
<1> HIDE DEF r, h
<1>4. <<h, s[2], r>> \in Positive /\ <<h, s[2], r>>[1] = h
  BY <1>1, <1>2, <1>3, TripleIs
<1> QED BY <1>3, <1>4 DEF Halved, h, r

(* The inner loop of jacobi obeys its recursion and leaves no more than v. *)
LEMMA TwosOutIs ==
    \A s \in Positive :
        /\ TwosOut[s] \in Outs /\ TwosOut[s][1] <= s[1]
        /\ s[1] % 2 = 0 => TwosOut[s] = TwosOut[Halved(s)]
        /\ s[1] % 2 # 0 => TwosOut[s] = <<s[1], s[3]>>
<1> DEFINE base == [s \in Positive |-> <<s[1], s[3]>>]
           step == [p \in Positive \X Outs |-> p[2]]
           Eq(f) == f = [s \in Positive |->
                           IF s[1] % 2 = 0 THEN f[Halved(s)] ELSE <<s[1], s[3]>>]
<1>1. Recursion(Positive, FirstOfPositive, Odds3, Halve, Outs, base, step)
  <2>1. FirstOfPositive \in [Positive -> Nat]
    BY TripleIs DEF FirstOfPositive
  <2>2. Halve \in [Positive -> Positive]
    <3>1. \A s \in Positive : (IF s[1] % 2 # 0 THEN s ELSE Halved(s)) \in Positive
      BY HalvedIs
    <3> QED BY <3>1 DEF Halve
  <2>3. ASSUME NEW s \in Positive, s \notin Odds3
        PROVE  FirstOfPositive[Halve[s]] < FirstOfPositive[s]
    <3>1. s[1] % 2 = 0
      BY <2>3 DEF Odds3
    <3>2. Halve[s] = Halved(s) /\ Halved(s) \in Positive /\ Halved(s)[1] < s[1]
      BY <3>1, HalvedIs DEF Halve
    <3> QED BY <3>2 DEF FirstOfPositive
  <2>4. base \in [Positive -> Outs]
    <3>1. \A s \in Positive : <<s[1], s[3]>> \in Outs
      BY TripleIs DEF Outs
    <3> QED BY <3>1
  <2>5. step \in [Positive \X Outs -> Outs]
    OBVIOUS
  <2> HIDE DEF base, step
  <2> QED BY <2>1, <2>2, <2>3, <2>4, <2>5 DEF Recursion, Descends
<1>2. /\ \A s \in Positive : base[s] = <<s[1], s[3]>>
      /\ \A s \in Positive, v \in Outs : step[s, v] = v
  OBVIOUS
<1> HIDE DEF base, step
<1>3. PICK h \in [Positive -> Outs] : Solves(h, Positive, Odds3, base, step, Halve)
  BY <1>1, RecursionExists
<1>4. ASSUME NEW s \in Positive
      PROVE  h[s] = IF s[1] % 2 = 0 THEN h[Halved(s)] ELSE <<s[1], s[3]>>
  <2>1. Obeys(h, s, Odds3, base, step, Halve)
    BY <1>3 DEF Solves
  <2>2. CASE s[1] % 2 = 0
    <3>1. s \notin Odds3 /\ Halve[s] = Halved(s) /\ Halved(s) \in Positive
      BY <2>2, HalvedIs DEF Odds3, Halve
    <3>2. h[Halved(s)] \in Outs
      BY <3>1
    <3> QED BY <1>2, <2>1, <2>2, <3>1, <3>2 DEF Obeys
  <2>3. CASE s[1] % 2 # 0
    <3>1. s \in Odds3
      BY <2>3 DEF Odds3
    <3> QED BY <1>2, <2>1, <2>3, <3>1 DEF Obeys
  <2> QED BY <2>2, <2>3
<1>5. Eq(h)
  BY <1>3, <1>4
<1>6. Eq(TwosOut)
  BY <1>5 DEF TwosOut, Positive, Signs, Halved
<1>7. \A s \in Positive : TwosOut[s] = IF s[1] % 2 = 0 THEN TwosOut[Halved(s)] ELSE <<s[1], s[3]>>
  BY <1>6
<1> DEFINE Good == {s \in Positive : TwosOut[s] \in Outs /\ TwosOut[s][1] <= s[1]}
<1>8. ASSUME NEW s \in Positive,
             \A q \in Positive : FirstOfPositive[q] < FirstOfPositive[s] => q \in Good
      PROVE  s \in Good
  <2>1. CASE s[1] % 2 = 0
    <3>1. Halved(s) \in Positive /\ Halved(s)[1] < s[1] /\ Halved(s)[1] \in Nat /\ s[1] \in Nat
      BY <2>1, HalvedIs, TripleIs
    <3>2. FirstOfPositive[Halved(s)] < FirstOfPositive[s]
      BY <3>1 DEF FirstOfPositive
    <3>3. TwosOut[Halved(s)] \in Outs /\ TwosOut[Halved(s)][1] <= Halved(s)[1]
      BY <1>8, <3>1, <3>2
    <3>4. TwosOut[s] = TwosOut[Halved(s)]
      BY <1>7, <2>1
    <3>5. TwosOut[Halved(s)][1] \in Nat
      BY <3>3 DEF Outs
    <3>6. TwosOut[s][1] <= s[1]
      BY <3>1, <3>3, <3>4, <3>5
    <3> QED BY <3>3, <3>4, <3>6
  <2>2. CASE s[1] % 2 # 0
    <3>1. TwosOut[s] = <<s[1], s[3]>> /\ s[1] \in Nat \ {0} /\ s[3] \in Signs
      BY <1>7, <2>2, TripleIs
    <3> QED BY <3>1 DEF Outs
  <2> QED BY <2>1, <2>2
<1>9. \A s \in Positive : s \in Good
  <2>1. FirstOfPositive \in [Positive -> Nat]
    BY <1>1 DEF Recursion, Descends
  <2> HIDE DEF Good
  <2> QED BY <1>8, <2>1, ByMeasure
<1> HIDE <1>6
<1> QED BY <1>7, <1>9

Reciprocal(s) ==
    LET out == TwosOut[s]
        w   == out[1]
    IN  <<s[2] % w, w, IF w % 4 = 3 /\ s[2] % 4 = 3 THEN -out[2] ELSE out[2]>>
Reciprocate == [s \in Triples |-> IF s[1] = 0 THEN s ELSE Reciprocal(s)]
Zeros == {s \in Triples : s[1] = 0}

(* Reciprocity comes down, as v becomes a remainder modulo what was v.     *)
LEMMA ReciprocalIs ==
    ASSUME NEW s \in Triples, s[1] # 0
    PROVE  Reciprocal(s) \in Triples /\ Reciprocal(s)[1] < s[1]
<1> DEFINE out == TwosOut[s]
           w == out[1]
           x == s[2] % w
           r == IF w % 4 = 3 /\ s[2] % 4 = 3 THEN -out[2] ELSE out[2]
<1>1. s \in Positive /\ s[1] \in Nat /\ s[2] \in Nat
  BY TripleIs
<1>2. out \in Outs /\ w <= s[1]
  BY <1>1, TwosOutIs
<1>3. w \in Nat \ {0} /\ out[2] \in Signs
  BY <1>2 DEF Outs
<1>4. r \in Signs
  BY <1>3 DEF Signs
<1>5. x \in Nat /\ x < w
  <2> HIDE DEF out, w
  <2> QED BY <1>1, <1>3, Division
<1>6. Reciprocal(s) = <<x, w, r>>
  BY DEF Reciprocal
<1> HIDE DEF w, r, x, out
<1>7. x < s[1]
  BY <1>1, <1>2, <1>3, <1>5
<1>8. <<x, w, r>> \in Triples /\ <<x, w, r>>[1] = x
  BY <1>3, <1>4, <1>5, TripleIs
<1> QED BY <1>6, <1>7, <1>8

(* So the outer loop obeys its recursion.                                  *)
LEMMA JacobiLoopIs ==
    \A s \in Triples :
        JacobiLoop[s] = IF s[1] = 0 THEN IF s[2] = 1 THEN s[3] ELSE 0 ELSE JacobiLoop[Reciprocal(s)]
<1> DEFINE Results == {-1, 0, 1}
           base == [s \in Triples |-> IF s[2] = 1 THEN s[3] ELSE 0]
           step == [p \in Triples \X Results |-> p[2]]
           Eq(f) == f = [s \in Triples |-> IF s[1] = 0 THEN IF s[2] = 1 THEN s[3] ELSE 0
                                           ELSE f[Reciprocal(s)]]
<1>1. Recursion(Triples, FirstOf3, Zeros, Reciprocate, Results, base, step)
  <2>1. FirstOf3 \in [Triples -> Nat]
    BY TripleIs DEF FirstOf3
  <2>2. Reciprocate \in [Triples -> Triples]
    <3>1. \A s \in Triples : (IF s[1] = 0 THEN s ELSE Reciprocal(s)) \in Triples
      BY ReciprocalIs
    <3> QED BY <3>1 DEF Reciprocate
  <2>3. ASSUME NEW s \in Triples, s \notin Zeros
        PROVE  FirstOf3[Reciprocate[s]] < FirstOf3[s]
    <3>1. s[1] # 0
      BY <2>3 DEF Zeros
    <3>2. Reciprocate[s] = Reciprocal(s) /\ Reciprocal(s) \in Triples /\ Reciprocal(s)[1] < s[1]
      BY <3>1, ReciprocalIs DEF Reciprocate
    <3> QED BY <3>2 DEF FirstOf3
  <2>4. base \in [Triples -> Results]
    <3>1. \A s \in Triples : (IF s[2] = 1 THEN s[3] ELSE 0) \in Results
      BY TripleIs DEF Signs
    <3> HIDE DEF Results
    <3> QED BY <3>1
  <2>5. step \in [Triples \X Results -> Results]
    <3> HIDE DEF Results
    <3> QED OBVIOUS
  <2> HIDE DEF base, step, Results
  <2> QED BY <2>1, <2>2, <2>3, <2>4, <2>5 DEF Recursion, Descends
<1>2. /\ \A s \in Triples : base[s] = IF s[2] = 1 THEN s[3] ELSE 0
      /\ \A s \in Triples, v \in Results : step[s, v] = v
  <2> HIDE DEF Results
  <2> QED OBVIOUS
<1> HIDE DEF base, step, Results
<1>3. PICK h \in [Triples -> Results] : Solves(h, Triples, Zeros, base, step, Reciprocate)
  BY <1>1, RecursionExists
<1>4. ASSUME NEW s \in Triples
      PROVE  h[s] = IF s[1] = 0 THEN IF s[2] = 1 THEN s[3] ELSE 0 ELSE h[Reciprocal(s)]
  <2>1. Obeys(h, s, Zeros, base, step, Reciprocate)
    BY <1>3 DEF Solves
  <2>2. CASE s[1] # 0
    <3>1. s \notin Zeros /\ Reciprocate[s] = Reciprocal(s) /\ Reciprocal(s) \in Triples
      BY <2>2, ReciprocalIs DEF Zeros, Reciprocate
    <3>2. h[Reciprocal(s)] \in Results
      BY <3>1
    <3> QED BY <1>2, <2>1, <2>2, <3>1, <3>2 DEF Obeys
  <2>3. CASE s[1] = 0
    <3>1. s \in Zeros
      BY <2>3 DEF Zeros
    <3> QED BY <1>2, <2>1, <2>3, <3>1 DEF Obeys
  <2> QED BY <2>2, <2>3
<1>5. Eq(h)
  BY <1>3, <1>4
<1>6. Eq(JacobiLoop)
  BY <1>5 DEF JacobiLoop, Triples, Signs, Reciprocal
<1> QED BY <1>6

-----------------------------------------------------------------------------
(* The steps of the two loops on numbers.                                  *)
LEMMA TwoOut ==
    ASSUME NEW w \in Nat \ {0}, NEW n \in Nat, NEW r \in Signs
    PROVE  TwosOut[<<2 * w, n, r>>] = TwosOut[<<w, n, IF n % 8 \in {3, 5} THEN -r ELSE r>>]
<1> DEFINE v == 2 * w
           s == <<v, n, r>>
<1>1. v \in Nat /\ v # 0 /\ v % 2 = 0 /\ v \div 2 = w
  OBVIOUS
<1> HIDE DEF v
<1>2. s \in Positive
  BY <1>1, TripleIs
<1>3. Halved(s) = <<w, n, IF n % 8 \in {3, 5} THEN -r ELSE r>>
  BY <1>1 DEF Halved
<1>4. s[1] = v
  OBVIOUS
<1> HIDE DEF s
<1>5. TwosOut[s] = TwosOut[Halved(s)]
  BY <1>1, <1>2, <1>4, TwosOutIs
<1> QED BY <1>3, <1>5 DEF s, v

(* An odd number has no factor of two.                                     *)
LEMMA NoTwoOut ==
    ASSUME NEW v \in Nat, v % 2 = 1, NEW n \in Nat, NEW r \in Signs
    PROVE  TwosOut[<<v, n, r>>] = <<v, r>>
<1> DEFINE s == <<v, n, r>>
<1>1. v # 0 /\ v % 2 # 0
  OBVIOUS
<1>2. s \in Positive /\ s[1] = v /\ s[3] = r
  BY <1>1, TripleIs
<1> HIDE DEF s
<1>3. TwosOut[s] = <<s[1], s[3]>>
  BY <1>1, <1>2, TwosOutIs
<1> QED BY <1>2, <1>3 DEF s

(* jacobi ends at 0: with 1 if the modulus is 1, else with 0.              *)
LEMMA LoopEnds ==
    ASSUME NEW n \in Nat
    PROVE  JacobiLoop[<<0, n, 1>>] = IF n = 1 THEN 1 ELSE 0
<1> DEFINE s == <<0, n, 1>>
<1>1. s \in Triples /\ s[1] = 0 /\ s[2] = n /\ s[3] = 1
  <2>1. 0 \in Nat /\ 1 \in Signs
    BY DEF Signs
  <2> QED BY <2>1, TripleIs
<1> HIDE DEF s
<1>2. JacobiLoop[s] = IF n = 1 THEN 1 ELSE 0
  BY <1>1, JacobiLoopIs
<1> QED BY <1>2 DEF s

(* It goes on with the modulus over the odd part, with the same sign where *)
(* that part or the modulus is 1 modulo 4.                                 *)
LEMMA LoopGoesOn ==
    ASSUME NEW v \in Nat \ {0}, NEW n \in Nat, NEW w \in Nat \ {0},
           TwosOut[<<v, n, 1>>] = <<w, 1>>, w % 4 # 3 \/ n % 4 # 3
    PROVE  JacobiLoop[<<v, n, 1>>] = JacobiLoop[<<n % w, w, 1>>]
<1> DEFINE s == <<v, n, 1>>
<1>1. s \in Triples /\ s[1] = v /\ s[2] = n
  <2>1. v \in Nat /\ 1 \in Signs
    BY DEF Signs
  <2> QED BY <2>1, TripleIs
<1>2. TwosOut[s] = <<w, 1>>
  OBVIOUS
<1> HIDE DEF s
<1>3. Reciprocal(s) = <<n % w, w, 1>>
  <2>1. TwosOut[s][1] = w /\ TwosOut[s][2] = 1
    BY <1>2
  <2> QED BY <1>1, <2>1 DEF Reciprocal
<1>4. JacobiLoop[s] = JacobiLoop[Reciprocal(s)]
  BY <1>1, JacobiLoopIs
<1> QED BY <1>3, <1>4 DEF s

(* A power of two that keeps the sign gives 1.                             *)
LEMMA LoopAtPower ==
    ASSUME NEW v \in Nat \ {0}, NEW n \in Nat, TwosOut[<<v, n, 1>>] = <<1, 1>>
    PROVE  JacobiLoop[<<v, n, 1>>] = 1
<1>1. n % 1 = 0 /\ 1 % 4 # 3 /\ 1 \in Nat \ {0}
  OBVIOUS
<1>2. JacobiLoop[<<v, n, 1>>] = JacobiLoop[<<n % 1, 1, 1>>]
  BY <1>1, LoopGoesOn
<1>3. JacobiLoop[<<0, 1, 1>>] = 1
  BY LoopEnds
<1> QED BY <1>1, <1>2, <1>3

(* The squares modulo 17, and what jacobi says of them.                    *)
Residues17 == {0, 1, 2, 4, 8, 9, 13, 15, 16}

(* A square leaves one of these modulo 17.                                 *)
LEMMA SquareResidue ==
    ASSUME NEW r \in Nat  PROVE (r * r) % 17 \in Residues17
<1> DEFINE q == r \div 17
           s == r % 17
<1>1. q \in Nat /\ s \in 0..16 /\ r = 17 * q + s
  OBVIOUS
<1> HIDE DEF q, s
<1>2. PICK a \in Nat, b \in Residues17 : s * s = 17 * a + b
  <2> DEFINE Found(x, a, b) == x * x = 17 * a + b /\ a \in Nat /\ b \in Residues17
  <2>1. /\ Found(0, 0, 0) /\ Found(1, 0, 1) /\ Found(2, 0, 4) /\ Found(3, 0, 9)
        /\ Found(4, 0, 16) /\ Found(5, 1, 8) /\ Found(6, 2, 2) /\ Found(7, 2, 15)
        /\ Found(8, 3, 13)
    BY DEF Residues17
  <2>2. /\ Found(9, 4, 13) /\ Found(10, 5, 15) /\ Found(11, 7, 2) /\ Found(12, 8, 8)
        /\ Found(13, 9, 16) /\ Found(14, 11, 9) /\ Found(15, 13, 4) /\ Found(16, 15, 1)
    BY DEF Residues17
  <2>3. /\ s = 0 \/ s = 1 \/ s = 2 \/ s = 3 \/ s = 4 \/ s = 5 \/ s = 6 \/ s = 7 \/ s = 8 \/ s = 9
           \/ s = 10 \/ s = 11 \/ s = 12 \/ s = 13 \/ s = 14 \/ s = 15 \/ s = 16
    BY <1>1
  <2>4. \E a, b : Found(s, a, b)
    <3> HIDE DEF Found
    <3> QED BY <2>1, <2>2, <2>3
  <2> QED BY <2>4
<1> DEFINE c == 17 * (q * q) + 2 * (q * s) + a
<1>3. c \in Nat /\ r * r = 17 * c + b /\ b \in Nat /\ b < 17
  <2>1. c \in Nat /\ s \in Nat /\ b \in Nat /\ b < 17
    BY <1>1 DEF Residues17
  <2>2. (17 * q + s) * (17 * q + s) = 17 * (17 * (q * q) + 2 * (q * s)) + s * s
    BY <1>1, <2>1
  <2>3. q * q \in Nat /\ q * s \in Nat
    BY <1>1, <2>1
  <2> QED BY <1>1, <1>2, <2>1, <2>2, <2>3
<1> HIDE DEF c
<1>4. (r * r) % 17 = b
  <2>1. 17 \in Nat \ {0}
    OBVIOUS
  <2> QED BY <1>3, <2>1, DivisionUnique
<1> QED BY <1>4

(* For none of them jacobi is -1.                                          *)
LEMMA JacobiOfResidue ==
    ASSUME NEW u \in Residues17  PROVE JacobiLoop[<<u, 17, 1>>] # -1
<1> DEFINE At(v, n) == TwosOut[<<v, n, 1>>] = <<1, 1>>
<1>0. 1 \in Signs /\ 1 # -1 /\ 0 # -1
  <2>1. 1 \in Signs
    BY DEF Signs
  <2>2. 1 # -1 /\ 0 # -1
    OBVIOUS
  <2> QED BY <2>1, <2>2
<1>1. ASSUME NEW n \in Nat  PROVE At(1, n)
  <2>1. 1 \in Nat /\ 1 % 2 = 1
    OBVIOUS
  <2> QED BY <1>0, <2>1, NoTwoOut
<1>2. ASSUME NEW n \in Nat, n % 8 \notin {3, 5}, NEW w \in Nat \ {0}, At(w, n)
      PROVE  At(2 * w, n)
  BY <1>0, <1>2, TwoOut
<1>3. At(2, 17) /\ At(4, 17) /\ At(8, 17) /\ At(16, 17)
  <2>1. 17 \in Nat /\ 17 % 8 \notin {3, 5}
    OBVIOUS
  <2>2. 1 \in Nat \ {0} /\ 2 \in Nat \ {0} /\ 4 \in Nat \ {0} /\ 8 \in Nat \ {0}
        /\ 2 * 1 = 2 /\ 2 * 2 = 4 /\ 2 * 4 = 8 /\ 2 * 8 = 16
    OBVIOUS
  <2> HIDE DEF At
  <2>3. At(2 * 1, 17)
    BY <1>1, <1>2, <2>1, <2>2
  <2>4. At(2 * 2, 17)
    BY <1>2, <2>1, <2>2, <2>3
  <2>5. At(2 * 4, 17)
    BY <1>2, <2>1, <2>2, <2>4
  <2>6. At(2 * 8, 17)
    BY <1>2, <2>1, <2>2, <2>5
  <2> QED BY <2>2, <2>3, <2>4, <2>5, <2>6
<1>4. ASSUME NEW v \in Nat \ {0}, NEW n \in Nat, At(v, n)  PROVE JacobiLoop[<<v, n, 1>>] = 1
  BY <1>4, LoopAtPower
<1>5. JacobiLoop[<<9, 17, 1>>] = 1
  <2>1. At(8, 9)
    <3>1. 9 \in Nat /\ 9 % 8 \notin {3, 5} /\ 1 \in Nat \ {0} /\ 2 \in Nat \ {0} /\ 4 \in Nat \ {0}
          /\ 2 * 1 = 2 /\ 2 * 2 = 4 /\ 2 * 4 = 8
      OBVIOUS
    <3> HIDE DEF At
    <3>2. At(2 * 1, 9)
      BY <1>1, <1>2, <3>1
    <3>3. At(2 * 2, 9)
      BY <1>2, <3>1, <3>2
    <3>4. At(2 * 4, 9)
      BY <1>2, <3>1, <3>3
    <3> QED BY <3>1, <3>4
  <2>2. 9 \in Nat /\ 9 % 2 = 1 /\ 17 \in Nat /\ 9 \in Nat \ {0} /\ 9 % 4 # 3 /\ 17 % 9 = 8
        /\ 8 \in Nat \ {0}
    OBVIOUS
  <2>3. TwosOut[<<9, 17, 1>>] = <<9, 1>>
    BY <1>0, <2>2, NoTwoOut
  <2>4. JacobiLoop[<<9, 17, 1>>] = JacobiLoop[<<17 % 9, 9, 1>>]
    BY <2>2, <2>3, LoopGoesOn
  <2>5. JacobiLoop[<<8, 9, 1>>] = 1
    <3> HIDE DEF At
    <3> QED BY <1>4, <2>1, <2>2
  <2> QED BY <2>2, <2>4, <2>5
<1>6. JacobiLoop[<<15, 17, 1>>] = 1
  <2>1. At(2, 15)
    <3>1. 15 \in Nat /\ 15 % 8 \notin {3, 5} /\ 1 \in Nat \ {0} /\ 2 * 1 = 2
      OBVIOUS
    <3> HIDE DEF At
    <3>2. At(2 * 1, 15)
      BY <1>1, <1>2, <3>1
    <3> QED BY <3>1, <3>2
  <2>2. 15 \in Nat /\ 15 % 2 = 1 /\ 17 \in Nat /\ 15 \in Nat \ {0} /\ 17 % 4 # 3 /\ 17 % 15 = 2
        /\ 2 \in Nat \ {0}
    OBVIOUS
  <2>3. TwosOut[<<15, 17, 1>>] = <<15, 1>>
    BY <1>0, <2>2, NoTwoOut
  <2>4. JacobiLoop[<<15, 17, 1>>] = JacobiLoop[<<17 % 15, 15, 1>>]
    BY <2>2, <2>3, LoopGoesOn
  <2>5. JacobiLoop[<<2, 15, 1>>] = 1
    <3> HIDE DEF At
    <3> QED BY <1>4, <2>1, <2>2
  <2> QED BY <2>2, <2>4, <2>5
<1>7. JacobiLoop[<<13, 17, 1>>] = 1
  <2>1. At(4, 13)
    <3>1. 13 \in Nat /\ 13 % 8 \in {3, 5} /\ 1 \in Nat \ {0} /\ 2 * 1 = 2 /\ 2 \in Nat \ {0}
          /\ 2 * 2 = 4 /\ 1 \in Nat /\ 1 % 2 = 1
      OBVIOUS
    <3>2. TwosOut[<<2 * 2, 13, 1>>] = TwosOut[<<2, 13, -1>>]
      BY <1>0, <3>1, TwoOut
    <3>3. TwosOut[<<2 * 1, 13, -1>>] = TwosOut[<<1, 13, 1>>]
      <4>1. -1 \in Signs
        BY DEF Signs
      <4>2. -(-1) = 1
        <5>1. \A z \in Int : z + 1 = 0 => -z = 1
          OBVIOUS
        <5>2. -1 \in Int /\ -1 + 1 = 0
          OBVIOUS
        <5> QED BY <5>1, <5>2
      <4>3. TwosOut[<<2 * 1, 13, -1>>] = TwosOut[<<1, 13, -(-1)>>]
        BY <3>1, <4>1, TwoOut
      <4> QED BY <4>2, <4>3
    <3>4. TwosOut[<<1, 13, 1>>] = <<1, 1>>
      BY <1>0, <3>1, NoTwoOut
    <3> QED BY <3>1, <3>2, <3>3, <3>4
  <2>2. 13 \in Nat /\ 13 % 2 = 1 /\ 17 \in Nat /\ 13 \in Nat \ {0} /\ 13 % 4 # 3 /\ 17 % 13 = 4
        /\ 4 \in Nat \ {0}
    OBVIOUS
  <2>3. TwosOut[<<13, 17, 1>>] = <<13, 1>>
    BY <1>0, <2>2, NoTwoOut
  <2>4. JacobiLoop[<<13, 17, 1>>] = JacobiLoop[<<17 % 13, 13, 1>>]
    BY <2>2, <2>3, LoopGoesOn
  <2>5. JacobiLoop[<<4, 13, 1>>] = 1
    <3> HIDE DEF At
    <3> QED BY <1>4, <2>1, <2>2
  <2> QED BY <2>2, <2>4, <2>5
<1>8. JacobiLoop[<<0, 17, 1>>] = 0
  <2>1. 17 \in Nat /\ 17 # 1
    OBVIOUS
  <2> QED BY <2>1, LoopEnds
<1>9. CASE u \in {1, 2, 4, 8, 16}
  <2>1. u \in Nat \ {0} /\ 17 \in Nat
    BY <1>9
  <2>2. At(u, 17)
    <3> HIDE DEF At
    <3> QED BY <1>1, <1>3, <1>9, <2>1
  <2>3. JacobiLoop[<<u, 17, 1>>] = 1
    <3> HIDE DEF At
    <3> QED BY <1>4, <2>1, <2>2
  <2> QED BY <1>0, <2>3
<1>10. CASE u \notin {1, 2, 4, 8, 16}
  <2>1. u = 0 \/ u = 9 \/ u = 13 \/ u = 15
    BY <1>10 DEF Residues17
  <2> QED BY <1>0, <1>5, <1>6, <1>7, <1>8, <2>1
<1> QED BY <1>9, <1>10

(* issquare finds the squares: none of its filters stops one, and the root *)
(* tells the rest.                                                         *)
LEMMA IsSquareRight ==
    ASSUME NEW v \in Nat  PROVE issquare(v) <=> Square(v)
<1> DEFINE x == Sqrt(v)
<1>1. x \in 0..v /\ x * x <= v /\ v < (x + 1) * (x + 1)
  <2>1. x = Root(v)
    BY DEF Sqrt, Root
  <2>2. x \in Nat /\ x * x <= v /\ v < (x + 1) * (x + 1)
    BY <2>1, RootIsRoot
  <2> HIDE DEF x
  <2>3. x <= x * x
    BY <2>2
  <2> QED BY <2>2, <2>3
<1> HIDE DEF x
<1>2. ASSUME issquare(v)  PROVE Square(v)
  <2>1. x * x = v
    BY <1>2 DEF issquare, x
  <2> QED BY <1>1, <2>1 DEF Square
<1>3. ASSUME Square(v)  PROVE issquare(v)
  <2>1. PICK r \in 0..v : r * r = v
    BY <1>3 DEF Square
  <2>2. r = x
    <3>1. x \in Nat /\ r \in Nat
      BY <1>1
    <3>2. ASSUME r >= x + 1  PROVE FALSE
      <4>1. (x + 1) * (x + 1) <= r * r
        BY <3>1, <3>2
      <4> QED BY <1>1, <2>1, <3>1, <4>1
    <3>3. ASSUME x >= r + 1  PROVE FALSE
      <4>1. (r + 1) * (r + 1) <= x * x /\ (r + 1) * (r + 1) = r * r + 2 * r + 1
        BY <3>1, <3>3
      <4> QED BY <1>1, <2>1, <3>1, <4>1
    <3> QED BY <3>1, <3>2, <3>3
  <2>3. IF v % 2 = 0 THEN v % 4 = 0 ELSE v % 8 = 1
    <3> DEFINE c == r \div 2
    <3>1. r \in Nat /\ c \in Nat /\ (r = 2 * c \/ r = 2 * c + 1)
      OBVIOUS
    <3> HIDE DEF c
    <3>2. CASE r = 2 * c
      <4>1. v = 4 * (c * c) /\ c * c \in Nat
        BY <2>1, <3>1, <3>2
      <4>2. ASSUME NEW y \in Nat  PROVE (4 * y) % 2 = 0 /\ (4 * y) % 4 = 0
        OBVIOUS
      <4> QED BY <4>1, <4>2
    <3>3. CASE r = 2 * c + 1
      <4>1. PICK d \in Nat : c * (c + 1) = 2 * d
        <5>1. CASE c % 2 # 1
          <6>1. c + 1 \in Nat
            BY <3>1
          <6> QED BY <3>1, <5>1, <6>1, EvenProduct
        <5>2. CASE c % 2 = 1
          <6>1. c + 1 \in Nat /\ (c + 1) % 2 # 1
            BY <3>1, <5>2
          <6>2. PICK d \in Nat : (c + 1) * c = 2 * d
            BY <3>1, <6>1, EvenProduct
          <6>3. (c + 1) * c = c * (c + 1)
            BY <3>1
          <6> QED BY <6>2, <6>3
        <5> QED BY <5>1, <5>2
      <4>2. v = 8 * d + 1
        <5>1. (2 * c + 1) * (2 * c + 1) = 4 * (c * (c + 1)) + 1
          BY <3>1
        <5> QED BY <2>1, <3>3, <4>1, <5>1
      <4>3. (8 * d + 1) % 2 = 1 /\ (8 * d + 1) % 8 = 1
        OBVIOUS
      <4> QED BY <4>2, <4>3
    <3> QED BY <3>1, <3>2, <3>3
  <2>4. jacobi(v, 17) # -1
    <3>1. r \in Nat
      OBVIOUS
    <3>2. v % 17 \in Residues17
      BY <2>1, <3>1, SquareResidue
    <3>3. JacobiLoop[<<v % 17, 17, 1>>] # -1
      BY <3>2, JacobiOfResidue
    <3> QED BY <3>3 DEF jacobi
  <2>5. v = x * x
    BY <2>1, <2>2
  <2> QED BY <2>3, <2>4, <2>5 DEF issquare, x
<1> QED BY <1>2, <1>3

-----------------------------------------------------------------------------
(* Every right truncatable Harshad number passes the loop of               *)
(* is_right_truncatable.                                                   *)
LEMMA HarshadPasses ==
    \A n \in Nat : n > 0 /\ RightTruncatableHarshad(n) => HarshadDown[n]
<1> DEFINE Right(n) == n > 0 /\ RightTruncatableHarshad(n) => HarshadDown[n]
           Good == {n \in Nat : Right(n)}
<1>1. ASSUME NEW n \in Nat, \A m \in Nat : Itself[m] < Itself[n] => m \in Good,
             n > 0, RightTruncatableHarshad(n)
      PROVE  HarshadDown[n]
  <2> DEFINE m == n \div 10
             d == n % 10
             D == Digits[n]
             E == Digits[m]
  <2>1. D \in Seq(Nat) /\ Len(D) \in Nat \ {0} /\ Horner(D, 10) = n /\ Horner(D, 1) = sum_digs[n]
    BY DigitsType, DigitsRight
  <2>2. \A k \in 1..Len(D) : LET p == Value(Front(D, k)) IN p > 0 /\ p % DigitSum(p) = 0
    BY <1>1 DEF RightTruncatableHarshad
  <2>3. is_harshad(n)
    <3>1. SubSeq(D, 1, Len(D)) = D
      <4> HIDE DEF D
      <4> QED BY <2>1
    <3>2. Value(Front(D, Len(D))) = n /\ DigitSum(n) = sum_digs[n]
      BY <2>1, <3>1 DEF Value, Front, DigitSum
    <3>3. Len(D) \in 1..Len(D)
      <4> HIDE DEF D
      <4> QED BY <2>1
    <3> HIDE DEF D
    <3> QED BY <2>2, <3>2, <3>3 DEF is_harshad
  <2>4. m \in Nat /\ d \in Nat /\ m < n
    BY <1>1
  <2>5. CASE m = 0
    <3>1. HarshadDown[m]
      BY <2>4, <2>5, HarshadDownIs
    <3> QED BY <1>1, <2>3, <3>1, HarshadDownIs
  <2>6. CASE m # 0
    <3>1. n >= 10
      BY <2>6
    <3>2. D = Append(E, d) /\ E \in Seq(Nat)
      BY <2>4, <3>1, DigitsType
    <3> HIDE DEF m, d, D, E
    <3>3. ASSUME NEW k \in 1..Len(E)  PROVE k \in 1..Len(D) /\ Front(D, k) = Front(E, k)
      <4>1. Len(D) = Len(E) + 1 /\ Len(E) \in Nat
        BY <2>4, <3>2
      <4>2. k \in 1..Len(D) /\ k \in 0..Len(E)
        BY <4>1
      <4>3. Front(Append(E, d), k) = Front(E, k)
        BY <2>4, <3>2, <4>2, CutsAppend
      <4> QED BY <3>2, <4>2, <4>3
    <3>4. RightTruncatableHarshad(m)
      BY <2>2, <3>3 DEF RightTruncatableHarshad, E
    <3>5. m \in Good
      BY <1>1, <2>4 DEF Itself
    <3>6. HarshadDown[m]
      BY <2>4, <2>6, <3>4, <3>5
    <3> QED BY <1>1, <2>3, <3>6, HarshadDownIs DEF m
  <2> QED BY <2>5, <2>6
<1>2. ASSUME NEW n \in Nat, \A m \in Nat : Itself[m] < Itself[n] => m \in Good
      PROVE  n \in Good
  <2>1. Right(n)
    <3> HIDE DEF Good
    <3> QED BY <1>1, <1>2
  <2> QED BY <2>1
<1>3. \A n \in Nat : n \in Good
  <2> HIDE DEF Good
  <2> QED BY <1>2, ByMeasure, ItselfType
<1> QED BY <1>3

(* The digits of a number other than 0 have a sum other than 0.            *)
LEMMA SumPositive == \A n \in Nat : n > 0 => sum_digs[n] \in Nat \ {0}
<1> DEFINE Good == {n \in Nat : n > 0 => sum_digs[n] \in Nat \ {0}}
<1>1. ASSUME NEW n \in Nat, \A m \in Nat : Itself[m] < Itself[n] => m \in Good, n > 0
      PROVE  sum_digs[n] \in Nat \ {0}
  <2> DEFINE m == n \div 10
             d == n % 10
  <2>1. m \in Nat /\ d \in Nat /\ m < n /\ (m = 0 => d = n)
    BY <1>1
  <2>2. sum_digs[n] = d + sum_digs[m] /\ sum_digs[m] \in Nat
    <3>1. n # 0
      BY <1>1
    <3> QED BY <2>1, <3>1, SumDigs
  <2>3. m > 0 => sum_digs[m] \in Nat \ {0}
    BY <1>1, <2>1 DEF Itself
  <2> HIDE DEF m, d
  <2> QED BY <1>1, <2>1, <2>2, <2>3
<1>2. \A n \in Nat : n \in Good
  <2>1. ASSUME NEW n \in Nat, \A m \in Nat : Itself[m] < Itself[n] => m \in Good
        PROVE  n \in Good
    BY <1>1, <2>1
  <2> HIDE DEF Good
  <2> QED BY <2>1, ByMeasure, ItselfType
<1> QED BY <1>2

(* The filters of 387.c, in their order, let through the strong, right     *)
(* truncatable Harshad primes.                                             *)
LEMMA StrongFound ==
    ASSUME NEW n \in Nat, n >= 10, \A k \in 0..n : isprime(k) <=> IsPrime(k)
    PROVE  LET trunc == n \div 10
           IN  /\ isprime(n)
               /\ isprime(trunc \div sum_digs[trunc])
               /\ HarshadDown[trunc]
               <=> StrongHarshadPrime(n)
<1> DEFINE p == n \div 10
           s == sum_digs[p]
<1>1. p \in Nat /\ p > 0 /\ p <= n
  OBVIOUS
<1>2. DigitSum(p) = s
  BY <1>1, DigitsRight DEF DigitSum
<1>3. HarshadDown[p] <=> RightTruncatableHarshad(p)
  BY <1>1, HarshadRight, HarshadPasses
<1>4. s \in Nat \ {0}
  BY <1>1, SumPositive
<1>5. p \div s \in 0..n
  <2> HIDE DEF p, s
  <2>1. p \div s \in Nat /\ p % s \in Nat /\ p = s * (p \div s) + (p % s)
    BY <1>1, <1>4, Division
  <2>2. p \div s <= s * (p \div s)
    <3>1. ASSUME NEW q \in Nat  PROVE q <= s * q
      BY <1>4
    <3> QED BY <2>1, <3>1
  <2>3. s * (p \div s) \in Nat
    BY <1>4, <2>1
  <2> QED BY <1>1, <2>1, <2>2, <2>3
<1>6. isprime(n) <=> IsPrime(n)
  OBVIOUS
<1>7. isprime(p \div s) <=> IsPrime(p \div s)
  BY <1>5
<1>8. StrongHarshadPrime(n) <=>
        IsPrime(n) /\ RightTruncatableHarshad(p) /\ IsPrime(p \div DigitSum(p))
  BY DEF StrongHarshadPrime
<1>9. isprime(n) /\ isprime(p \div s) /\ HarshadDown[p]
      <=> IsPrime(n) /\ RightTruncatableHarshad(p) /\ IsPrime(p \div DigitSum(p))
  <2> HIDE DEF p, s
  <2>1. \A x, y : x = y => (IsPrime(p \div x) <=> IsPrime(p \div y))
    OBVIOUS
  <2> QED BY <1>2, <1>3, <1>6, <1>7, <2>1
<1> QED BY <1>8, <1>9

-----------------------------------------------------------------------------
(* An even number other than 2 is no prime.                                *)
LEMMA EvenIsNoPrime ==
    ASSUME NEW c \in Nat, c > 1  PROVE ~IsPrime(2 * c)
<1>1. (2 * c) % 2 = 0 /\ 2 \in 2..(2 * c - 1)
  OBVIOUS
<1> QED BY <1>1 DEF IsPrime

(* check of 146.c looks at the odd offsets only: with an even one the sum  *)
(* is even, or that with the offset 1 is, and is no prime.                 *)
LEMMA SixPrimes ==
    ASSUME NEW n \in Nat, n >= 9, \A m \in 1..27 : isprime146(n * n + m) <=> IsPrime(n * n + m)
    PROVE  (\A m \in OddUpTo27 : isprime146(n * n + m) <=> m \in offsets)
           <=> \A m \in 1..27 : IsPrime(n * n + m) <=> m \in offsets
<1> DEFINE c == n \div 2
<1>1. c \in Nat /\ (n = 2 * c \/ n = 2 * c + 1) /\ c >= 4
  OBVIOUS
<1> HIDE DEF c
<1>2. OddUpTo27 \subseteq 1..27 /\ 1 \in OddUpTo27 /\ 1 \in offsets
  <2>1. 1 % 2 = 1 /\ 1 \in 1..27
    OBVIOUS
  <2> QED BY <2>1 DEF OddUpTo27, offsets
<1>3. ASSUME \A m \in OddUpTo27 : isprime146(n * n + m) <=> m \in offsets, NEW m \in 1..27
      PROVE  IsPrime(n * n + m) <=> m \in offsets
  <2>1. CASE m % 2 = 1
    <3>1. m \in OddUpTo27
      BY <2>1 DEF OddUpTo27
    <3> QED BY <1>3, <3>1
  <2>2. CASE m % 2 # 1
    <3> DEFINE e == m \div 2
    <3>1. e \in Nat /\ m = 2 * e
      BY <2>2
    <3> HIDE DEF e
    <3>2. m \notin offsets
      BY <2>2 DEF offsets
    <3>3. ~IsPrime(n * n + m)
      <4>1. CASE n = 2 * c
        <5> DEFINE h == 2 * (c * c) + e
        <5>1. n * n + m = 2 * h /\ h \in Nat /\ h > 1
          <6>1. (2 * c) * (2 * c) = 4 * (c * c) /\ c * c \in Nat /\ c * c >= c
            BY <1>1
          <6> QED BY <1>1, <3>1, <4>1, <6>1
        <5> HIDE DEF h
        <5> QED BY <5>1, EvenIsNoPrime
      <4>2. CASE n = 2 * c + 1
        <5> DEFINE h == 2 * (c * c) + 2 * c + 1
        <5>1. n * n + 1 = 2 * h /\ h \in Nat /\ h > 1
          <6>1. (2 * c + 1) * (2 * c + 1) = 4 * (c * c) + 4 * c + 1 /\ c * c \in Nat
            BY <1>1
          <6> QED BY <1>1, <4>2, <6>1
        <5> HIDE DEF h
        <5>2. ~IsPrime(n * n + 1)
          BY <5>1, EvenIsNoPrime
        <5>3. isprime146(n * n + 1)
          BY <1>2, <1>3
        <5>4. 1 \in 1..27
          OBVIOUS
        <5> QED BY <5>2, <5>3, <5>4
      <4> QED BY <1>1, <4>1, <4>2
    <3> QED BY <3>2, <3>3
  <2> QED BY <2>1, <2>2
<1>4. ASSUME \A m \in 1..27 : IsPrime(n * n + m) <=> m \in offsets, NEW m \in OddUpTo27
      PROVE  isprime146(n * n + m) <=> m \in offsets
  BY <1>2, <1>4
<1> QED BY <1>3, <1>4

-----------------------------------------------------------------------------
(* The search programs.  Their tables are right when the search reads      *)
(* them, and stay so.                                                      *)
BitsRight == \A m \in Odds : m \in invIdx <=> ~Composite(m)
BytesRight == \A m \in 1..(ByteLimit - 1) : m \in bytes <=> IsPrime(m)

TablesRight ==
    /\ IF pc = "search" THEN BitsRight ELSE IInv
    /\ IF bpc = "search" THEN BytesRight ELSE ByteInv

(* What is remembered is true, with what says where each search is.        *)
RingRight ==
    /\ memo2 \in [0..(MemoN - 1) -> Nat] /\ memo2_i \in Nat
    /\ \A s \in 0..(MemoN - 1) : memo2[s] # 0 => RightTruncatableHarshad(memo2[s])

EntryRight ==
    /\ prog # "p443" => gtabi = 0
    /\ prog = "p443" =>
         /\ num >= 4
         /\ num <= 5 => gtabi = 0
         /\ num > 5 => gtabi = num - 1 /\ gtab = g[num - 1]

(* 92.cc is somewhere on the chain of num.                                 *)
OnesRight ==
    /\ t \in Nat /\ ones \subseteq Nat
    /\ \A k \in ones : Chain[k] = 1 /\ Chain[sum_digs_sq[k]] = 1
    /\ prog = "p92" => Chain[sum_digs_sq[t]] = Chain[sum_digs_sq[num]]

BestRight ==
    prog = "p27" => sum \in Nat /\ (sum > 0 => PrimesInARow(max_a, max_b) = sum)

(* How far the loop of main has come.                                       *)
PlaceRight ==
    /\ prog # "primeyr" => num \in Nat
    /\ prog = "primeyr" => num \in Int
    /\ prog \in {"p37", "p387"} => num >= 11
    /\ prog = "p216" => num >= 1
    /\ prog = "p146" => num >= 9

MemosRight ==
    /\ PlaceRight
    /\ RingRight /\ EntryRight /\ OnesRight /\ BestRight

EulerInv == TablesRight /\ MemosRight

(* A sieve that is done has filled its table rightly.                      *)
LEMMA TablesServe ==
    ASSUME TablesRight
    PROVE  /\ pc \in {"done", "search"} => BitsRight
           /\ bpc \in {"done", "search"} => BytesRight
<1>1. ASSUME pc = "done"  PROVE BitsRight
  <2>1. SieveCorrect
    BY <1>1, EndsCorrect DEF TablesRight
  <2> QED BY <1>1, <2>1 DEF SieveCorrect, BitsRight, bit
<1>2. ASSUME bpc = "done"  PROVE BytesRight
  <2>1. BytesCorrect
    BY <1>2, BytesDone DEF TablesRight
  <2> QED BY <1>2, <2>1 DEF BytesCorrect, Left, BytesRight, IsPrime
<1> QED BY <1>1, <1>2 DEF TablesRight

(* The invariant holds before a sieve has run.                             *)
LEMMA EulerInitInvariant == EulerInit => EulerInv
<1> SUFFICES ASSUME EulerInit  PROVE EulerInv
  OBVIOUS
<1>1. TablesRight
  <2>1. Init /\ ByteInit /\ pc # "search" /\ bpc # "search"
    BY DEF EulerInit, Init, ByteInit
  <2> QED BY <2>1, InitInvariant, ByteInitInvariant DEF TablesRight
<1>2. /\ num \in FirstN(prog) /\ sum = 0
      /\ memo2 = [s \in 0..(MemoN - 1) |-> 0] /\ memo2_i = 0
      /\ gtabi = 0 /\ ones = {} /\ t = 1
  BY DEF EulerInit, SearchInit
<1>3. PlaceRight /\ (prog = "p443" => num = 4)
  <2>1. prog = "p387b" => num \in Nat
    BY <1>2, StartAssumption DEF FirstN
  <2>2. prog = "p443" => num = 4
    BY <1>2 DEF FirstN
  <2>3. prog = "primeyr" => num \in Int
    BY <1>2, ByteLimitAssumption DEF FirstN
  <2>4. /\ prog \in {"p37", "p387"} => num = 11
        /\ prog = "p216" => num = 1
        /\ prog = "p146" => num = 9
    BY <1>2 DEF FirstN
  <2>5. prog \notin {"p387b", "primeyr"} => num \in Nat
    BY <1>2 DEF FirstN
  <2> QED BY <2>1, <2>2, <2>3, <2>4, <2>5 DEF PlaceRight
<1>4. RingRight /\ OnesRight /\ BestRight
  <2>1. prog = "p92" => num = 1
    BY <1>2 DEF FirstN
  <2>2. RingRight /\ BestRight
    BY <1>2 DEF RingRight, BestRight
  <2>3. OnesRight
    BY <1>2, <2>1 DEF OnesRight
  <2> QED BY <2>2, <2>3
<1>5. EntryRight
  BY <1>2, <1>3 DEF EntryRight
<1> QED BY <1>1, <1>3, <1>4, <1>5 DEF EulerInv, MemosRight

-----------------------------------------------------------------------------
(* A step of a sieve leaves the search alone; the search leaves the tables *)
(* alone.                                                                  *)
LEMMA SieveStepInvariant ==
    ASSUME EulerInv, SieveStep  PROVE EulerInv'
<1>1. UNCHANGED <<prog, searchVars>>
  BY DEF SieveStep
<1>2. MemosRight'
  BY <1>1 DEF EulerInv, MemosRight, searchVars, memos, PlaceRight, RingRight, EntryRight, OnesRight, BestRight
<1>3. TablesRight'
  <2>1. CASE Next /\ UNCHANGED byteVars
    <3>1. pc # "search" /\ pc' # "search"
      BY <2>1 DEF Next, Memset, Try, Finished
    <3>2. IInv'
      BY <2>1, <3>1, SieveKeeps DEF EulerInv, TablesRight
    <3>3. IF bpc' = "search" THEN BytesRight' ELSE ByteInv'
      <4>1. CASE bpc = "search"
        BY <2>1, <4>1 DEF EulerInv, TablesRight, byteVars, BytesRight
      <4>2. CASE bpc # "search"
        BY <2>1, <4>2, BytesKeep DEF EulerInv, TablesRight, byteVars
      <4> QED BY <4>1, <4>2
    <3> QED BY <3>1, <3>2, <3>3 DEF TablesRight
  <2>2. CASE ByteNext /\ UNCHANGED sieveVars
    <3>1. bpc # "search" /\ bpc' # "search"
      BY <2>2 DEF ByteNext, Fill, addel, Filled, Strike, AllStruck, Index
    <3>2. ByteInv'
      BY <2>2, <3>1, BytesKeep DEF EulerInv, TablesRight
    <3>3. IF pc' = "search" THEN BitsRight' ELSE IInv'
      <4>1. CASE pc = "search"
        BY <2>2, <4>1 DEF EulerInv, TablesRight, sieveVars, BitsRight
      <4>2. CASE pc # "search"
        BY <2>2, <4>2, SieveKeeps DEF EulerInv, TablesRight, sieveVars
      <4> QED BY <4>1, <4>2
    <3> QED BY <3>1, <3>2, <3>3 DEF TablesRight
  <2> QED BY <2>1, <2>2 DEF SieveStep
<1> QED BY <1>2, <1>3 DEF EulerInv

(* Tables that are left alone stay right.                                  *)
LEMMA TablesStay ==
    ASSUME TablesRight,
           UNCHANGED <<variant, invIdx, i, gapIdx, kind, bytes, list, bi>>,
           pc' = pc \/ (pc \in {"done", "search"} /\ pc' = "search"),
           bpc' = bpc \/ (bpc \in {"done", "search"} /\ bpc' = "search")
    PROVE  TablesRight'
<1>1. IF pc' = "search" THEN BitsRight' ELSE IInv'
  <2>1. CASE pc' = "search"
    <3>1. BitsRight
      BY <2>1, TablesServe
    <3> QED BY <2>1, <3>1 DEF BitsRight
  <2>2. CASE pc' # "search"
    BY <2>2, SieveKeeps DEF TablesRight, sieveVars
  <2> QED BY <2>1, <2>2
<1>2. IF bpc' = "search" THEN BytesRight' ELSE ByteInv'
  <2>1. CASE bpc' = "search"
    <3>1. BytesRight
      BY <2>1, TablesServe
    <3> QED BY <2>1, <3>1 DEF BytesRight
  <2>2. CASE bpc' # "search"
    BY <2>2, BytesKeep DEF TablesRight, byteVars
  <2> QED BY <2>1, <2>2
<1> QED BY <1>1, <1>2 DEF TablesRight

(* The ring gets what the loop of is_right_truncatable accepts.            *)
LEMMA RingStays ==
    ASSUME RingRight, num \in Nat, prog = "p387b", Search387b  PROVE RingRight'
<1> DEFINE trunc == num \div 10
<1>1. trunc \in Nat
  OBVIOUS
<1>2. CASE UNCHANGED <<memo2, memo2_i>>
  BY <1>2 DEF RingRight
<1>3. CASE HarshadDown[trunc] /\ madd2(trunc)
  <2>1. trunc # 0 => RightTruncatableHarshad(trunc)
    BY <1>1, <1>3, HarshadRight
  <2>2. /\ memo2' = [memo2 EXCEPT ![Slot(memo2_i)] = trunc]
        /\ memo2_i' = Slot(memo2_i + 1)
    BY <1>3 DEF madd2
  <2> HIDE DEF trunc
  <2>3. \A k \in Nat : Slot(k) \in 0..(MemoN - 1)
    BY MemoAssumption DEF Slot
  <2>4. memo2 \in [0..(MemoN - 1) -> Nat] /\ memo2_i \in Nat
    BY DEF RingRight
  <2>5. memo2_i' \in Nat
    <3>1. memo2_i + 1 \in Nat
      BY <2>4
    <3> QED BY <2>2, <2>3, <3>1
  <2>6. memo2' \in [0..(MemoN - 1) -> Nat]
    BY <1>1, <2>2, <2>4
  <2>7. \A s \in 0..(MemoN - 1) : memo2'[s] = memo2[s] \/ memo2'[s] = trunc
    BY <2>2, <2>4
  <2> QED BY <2>1, <2>5, <2>6, <2>7 DEF RingRight
<1> QED BY <1>2, <1>3 DEF Search387b

(* The one entry of 443.c is the value before.                             *)
LEMMA EntryStays ==
    ASSUME EntryRight, num \in Nat, prog = "p443", prog' = prog, num' = num + 1, Search443
    PROVE  EntryRight'
<1>1. num >= 4
  BY DEF EntryRight
<1>2. CASE num = 4
  BY <1>2 DEF EntryRight, Search443
<1>3. CASE num # 4
  <2>0. gtabi # num
    BY <1>1 DEF EntryRight
  <2>1. gtab' = gfast(num - 1) + gcdfast[<<num, gfast(num - 1)>>] /\ gtabi' = num
    BY <1>3, <2>0 DEF Search443
  <2>2. gfast(num - 1) = g[num - 1]
    <3>1. CASE num = 5
      <4>1. num - 1 = 4
        BY <3>1
      <4> QED BY <4>1, GIs DEF gfast
    <3>2. CASE num # 5
      <4>1. num > 5 /\ num - 1 # 4
        BY <1>1, <1>3, <3>2
      <4> QED BY <4>1 DEF gfast, EntryRight
    <3> QED BY <3>1, <3>2
  <2>3. num \in FromFour
    BY <1>1 DEF FromFour
  <2>4. g[num] = g[num - 1] + gcdfast[<<num, g[num - 1]>>]
    BY <1>3, <2>3, GIs
  <2>5. gtab' = g[num]
    BY <2>1, <2>2, <2>4
  <2>6. ~(num' <= 5) /\ num' - 1 = num /\ num' >= 4
    BY <1>1, <1>3
  <2>7. gtabi' = num' - 1 /\ gtab' = g[num' - 1]
    BY <2>1, <2>5, <2>6
  <2> HIDE <2>1, <2>5
  <2> QED BY <2>6, <2>7 DEF EntryRight
<1> QED BY <1>2, <1>3

(* What 92.cc adds to ones has 1 next.                                     *)
LEMMA OnesStay ==
    ASSUME OnesRight, num \in Nat, prog' = prog, num' = num + 1, Search92  PROVE OnesRight'
<1>1. t' \in Nat /\ t' = num'
  BY DEF Search92
<1>2. CASE ones' = ones
  BY <1>1, <1>2 DEF OnesRight
<1>3. CASE sum_digs_sq[t] = 1 /\ ones' = ones \cup {t}
  <2>1. t \in Nat /\ Chain[t] = 1 /\ Chain[sum_digs_sq[t]] = 1
    BY <1>3, ReachesOne, ChainIs DEF OnesRight
  <2> QED BY <1>1, <1>3, <2>1 DEF OnesRight
<1> QED BY <1>2, <1>3 DEF Search92

(* What 27.c keeps is the row of the quadratic it keeps.                   *)
LEMMA BestStays ==
    ASSUME BestRight, BytesRight, num \in Nat, num < Upto["p27"],
           prog = "p27", prog' = prog, Search27
    PROVE  BestRight'
<1>1. sum \in Nat
  BY DEF BestRight
<1>2. CASE UNCHANGED <<sum, max_a, max_b>>
  BY <1>2 DEF BestRight
<1>3. CASE primes_in_a_row > sum /\ sum' = primes_in_a_row /\ max_a' = a27 /\ max_b' = b27
  <2>1. a27 \in -MaxA..MaxA /\ b27 \in -MaxB..MaxB
    BY QuadraticsTried
  <2>2. primes_in_a_row = PrimesInARow(a27, b27) /\ primes_in_a_row \in Nat
    <3> DEFINE a == a27
               b == b27
    <3>1. a \in -MaxA..MaxA /\ b \in -MaxB..MaxB /\ a27 = a /\ b27 = b
      BY <2>1
    <3> HIDE DEF a, b
    <3>2. primes_in_a_row = PrimesInARow(a, b) /\ PrimesInARow(a, b) \in Nat
      BY <3>1, RowFound DEF BytesRight
    <3> QED BY <3>2 DEF a, b
  <2>3. sum' \in Nat /\ PrimesInARow(max_a', max_b') = sum'
    BY <1>3, <2>2
  <2> QED BY <2>3 DEF BestRight
<1> QED BY <1>2, <1>3 DEF Search27

-----------------------------------------------------------------------------
(* One iteration of the loop of main.                                      *)
LEMMA SearchInvariant ==
    ASSUME EulerInv, Search  PROVE EulerInv'
<1>0. /\ prog' = prog /\ num' = num + StepN(prog)
      /\ prog \in DOMAIN Sieving => pc \in {"done", "search"}
      /\ prog \in DOMAIN ByteSieving => bpc \in {"done", "search"}
      /\ num < Upto[prog]
      /\ TablesRight /\ MemosRight
  BY DEF EulerInv, Search
<1>1. TablesRight'
  <2>1. /\ UNCHANGED <<variant, invIdx, i, gapIdx, kind, bytes, list, bi>>
        /\ pc' = pc \/ (pc \in {"done", "search"} /\ pc' = "search")
        /\ bpc' = bpc \/ (bpc \in {"done", "search"} /\ bpc' = "search")
    BY DEF Search
  <2> QED BY <1>0, <2>1, TablesStay
<1>2. /\ prog \in {"p387b", "p443", "p92", "p27"} => num \in Nat
      /\ prog \in {"p443", "p92", "p27"} => num' = num + 1
      /\ PlaceRight'
  <2>1. StepN(prog) \in Nat /\ (prog \in {"p443", "p92", "p27"} => StepN(prog) = 1)
    BY DEF StepN
  <2>2. PlaceRight
    BY <1>0 DEF MemosRight
  <2>3. prog \in {"p387b", "p443", "p92", "p27"} => num \in Nat
    BY <2>2 DEF PlaceRight
  <2>4. PlaceRight'
    BY <1>0, <2>1, <2>2 DEF PlaceRight
  <2> QED BY <1>0, <2>1, <2>3, <2>4
<1>3. RingRight'
  <2>1. CASE prog = "p387b"
    <3>1. Search387b
      BY <2>1 DEF Search
    <3> QED BY <1>0, <1>2, <2>1, <3>1, RingStays DEF MemosRight
  <2>2. CASE prog # "p387b"
    <3>1. UNCHANGED <<memo2, memo2_i>>
      BY <2>2 DEF Search, memos
    <3> QED BY <1>0, <3>1 DEF MemosRight, RingRight
  <2> QED BY <2>1, <2>2
<1>4. EntryRight'
  <2>1. CASE prog = "p443"
    <3>1. Search443
      BY <2>1 DEF Search
    <3> QED BY <1>0, <1>2, <2>1, <3>1, EntryStays DEF MemosRight
  <2>2. CASE prog # "p443"
    <3>1. gtabi' = gtabi
      BY <2>2 DEF Search, memos
    <3> QED BY <1>0, <2>2, <3>1 DEF MemosRight, EntryRight
  <2> QED BY <2>1, <2>2
<1>5. OnesRight'
  <2>1. CASE prog = "p92"
    <3>1. Search92
      BY <2>1 DEF Search
    <3> QED BY <1>0, <1>2, <2>1, <3>1, OnesStay DEF MemosRight
  <2>2. CASE prog # "p92"
    <3>1. UNCHANGED <<ones, t>>
      BY <2>2 DEF Search, memos
    <3> QED BY <1>0, <2>2, <3>1 DEF MemosRight, OnesRight
  <2> QED BY <2>1, <2>2
<1>6. BestRight'
  <2>1. CASE prog = "p27"
    <3>1. Search27
      BY <2>1 DEF Search
    <3>2. BytesRight
      <4>1. "p27" \in DOMAIN ByteSieving
        BY DEF ByteSieving
      <4> QED BY <1>0, <2>1, <4>1, TablesServe
    <3> QED BY <1>0, <1>2, <2>1, <3>1, <3>2, BestStays DEF MemosRight
  <2>2. CASE prog # "p27"
    BY <1>0, <2>2 DEF BestRight
  <2> QED BY <2>1, <2>2
<1>7. MemosRight'
  BY <1>2, <1>3, <1>4, <1>5, <1>6 DEF MemosRight
<1> QED BY <1>1, <1>7 DEF EulerInv

(* The inner loop of 92.cc only moves along the chain.                     *)
LEMMA InnerInvariant ==
    ASSUME EulerInv, InnerLoop  PROVE EulerInv'
<1>0. /\ UNCHANGED <<sieveVars, byteVars, prog, num, sum, memo2, memo2_i, gtabi, gtab,
                     ones, max_a, max_b>>
      /\ t' = sum_digs_sq[t]
      /\ TablesRight /\ MemosRight
  BY DEF EulerInv, InnerLoop, Follow92
<1>1. TablesRight'
  <2>1. /\ UNCHANGED <<variant, invIdx, i, gapIdx, kind, bytes, list, bi>>
        /\ pc' = pc /\ bpc' = bpc
    BY <1>0 DEF sieveVars, byteVars
  <2> QED BY <1>0, <2>1, TablesStay
<1>2. OnesRight'
  <2>1. t \in Nat /\ OnesRight /\ t' \notin {1, 89}
    BY <1>0 DEF MemosRight, OnesRight, InnerLoop, Follow92
  <2>2. t' \in Nat
    BY <1>0, <2>1, SumDigsSq
  <2>3. Chain[sum_digs_sq[t']] = Chain[sum_digs_sq[t]]
    <3>1. t' \in Nat \ {1, 89}
      BY <2>1, <2>2
    <3>2. Chain[t'] = Chain[sum_digs_sq[t']]
      <4> HIDE <1>0
      <4> QED BY <3>1, ChainIs
    <3> QED BY <1>0, <3>2
  <2> QED BY <1>0, <2>1, <2>2, <2>3 DEF OnesRight
<1>3. MemosRight'
  BY <1>0, <1>2 DEF MemosRight, PlaceRight, RingRight, EntryRight, BestRight
<1> QED BY <1>1, <1>3 DEF EulerInv

(* The tables and the memos are right in every behaviour of every search.  *)
THEOREM EulerInvariance == EulerSpec => []EulerInv
<1>1. EulerInv /\ [EulerNext]_vars => EulerInv'
  <2> SUFFICES ASSUME EulerInv, [EulerNext]_vars  PROVE EulerInv'
    OBVIOUS
  <2>1. CASE SieveStep
    BY <2>1, SieveStepInvariant
  <2>2. CASE Search
    BY <2>2, SearchInvariant
  <2>3. CASE InnerLoop
    BY <2>3, InnerInvariant
  <2>4. CASE UNCHANGED vars
    <3>1. UNCHANGED <<sieveVars, byteVars, prog, searchVars>>
      BY <2>4 DEF vars
    <3>2. MemosRight'
      BY <3>1 DEF EulerInv, MemosRight, searchVars, memos, PlaceRight, RingRight, EntryRight,
                  OnesRight, BestRight
    <3>3. TablesRight'
      <4>1. /\ UNCHANGED <<variant, invIdx, i, gapIdx, kind, bytes, list, bi>>
            /\ pc' = pc /\ bpc' = bpc
        BY <3>1 DEF sieveVars, byteVars
      <4> QED BY <4>1, TablesStay DEF EulerInv
    <3> QED BY <3>2, <3>3 DEF EulerInv
  <2> QED BY <2>1, <2>2, <2>3, <2>4 DEF EulerNext
<1> QED BY EulerInitInvariant, <1>1, PTL DEF EulerSpec

(* What a search remembers is true: the ring of 387b.c, the entry of       *)
(* 443.c, the numbers of 92.cc that reach 1, the best quadratic of 27.c.   *)
THEOREM MemosAreTrue == EulerSpec => []MemosTrue
<1>1. EulerInv => MemosTrue
  <2> SUFFICES ASSUME EulerInv  PROVE MemosTrue
    OBVIOUS
  <2>1. RingRight /\ EntryRight /\ OnesRight /\ BestRight
    BY DEF EulerInv, MemosRight
  <2>2. \A s \in DOMAIN memo2 : memo2[s] # 0 => RightTruncatableHarshad(memo2[s])
    BY <2>1 DEF RingRight
  <2>3. ASSUME gtabi # 0  PROVE gtab = g[gtabi]
    <3>1. prog = "p443"
      BY <2>1, <2>3 DEF EntryRight
    <3>2. num \in Nat
      BY <3>1 DEF EulerInv, MemosRight, PlaceRight
    <3>3. num > 5
      BY <2>1, <2>3, <3>1, <3>2 DEF EntryRight
    <3> QED BY <2>1, <3>1, <3>3 DEF EntryRight
  <2>4. \A k \in ones : Chain[k] = 1
    BY <2>1 DEF OnesRight
  <2>5. prog = "p27" /\ sum > 0 => PrimesInARow(max_a, max_b) = sum
    BY <2>1 DEF BestRight
  <2> QED BY <2>2, <2>3, <2>4, <2>5 DEF MemosTrue
<1> QED BY EulerInvariance, <1>1, PTL

(* Below the limit isprime is right, as soon as the bits are.              *)
LEMMA BitsTell ==
    ASSUME BitsRight, NEW k \in 0..(Limit - 1)  PROVE isprime(k) <=> IsPrime(k)
<1>0. k \in Nat /\ k < Limit
  BY LimitAssumption
<1>1. CASE k <= 2
  <2>1. 2 % 2 = 0 /\ 0 % 2 = 0
    OBVIOUS
  <2> QED BY <1>0, <1>1, <2>1 DEF isprime, IsPrime
<1>2. CASE k > 2 /\ k % 2 = 1
  <2>1. k \in Odds
    BY <1>0, <1>2, LimitAssumption DEF Odds
  <2>2. isprime(k) <=> k \in invIdx
    BY <1>0, <1>2 DEF isprime, bit
  <2>3. IsPrime(k) <=> ~Composite(k)
    <3>1. k > 1
      BY <1>0, <1>2
    <3> QED BY <3>1 DEF IsPrime, Composite
  <2> QED BY <2>1, <2>2, <2>3 DEF BitsRight
<1>3. CASE k > 2 /\ k % 2 # 1
  <2>1. k % 2 = 0 /\ 2 \in 2..(k - 1)
    BY <1>0, <1>3
  <2> QED BY <1>0, <1>3, <2>1 DEF isprime, IsPrime
<1> QED BY <1>0, <1>1, <1>2, <1>3

(* While a search runs, every number below the limit that its test looks   *)
(* up is answered rightly: the bits of isprime and the bytes of the older  *)
(* programs tell the primes.                                               *)
LookupsTrue ==
    /\ pc \in {"done", "search"} => \A k \in 0..(Limit - 1) : isprime(k) <=> IsPrime(k)
    /\ bpc \in {"done", "search"} => \A k \in 1..(ByteLimit - 1) : k \in bytes <=> IsPrime(k)

(* So it is in every behaviour of every search.                            *)
THEOREM LookupsAreTrue == EulerSpec => []LookupsTrue
<1>1. EulerInv => LookupsTrue
  <2> SUFFICES ASSUME EulerInv  PROVE LookupsTrue
    OBVIOUS
  <2>1. /\ pc \in {"done", "search"} => BitsRight
        /\ bpc \in {"done", "search"} => BytesRight
    BY TablesServe DEF EulerInv
  <2>2. ASSUME BitsRight, NEW k \in 0..(Limit - 1)  PROVE isprime(k) <=> IsPrime(k)
    BY <2>2, BitsTell
  <2> QED BY <2>1, <2>2 DEF LookupsTrue, BytesRight
<1> QED BY EulerInvariance, <1>1, PTL

(* What an iteration can be told by the tables alone: each number of 92.cc,*)
(* 27.c and jacobi; a number of 35.c with all its rotations, one of 37.c   *)
(* or 387.c, one of 216.c with its square, one of 146.c with the numbers   *)
(* behind its square, and one that primeyr.c prints, below the limit of    *)
(* the table.  Beyond it Miller-Rabin or Fermat's test answers.            *)
Tabulated(k) ==
    \/ prog \in {"p92", "p27", "jacobi"}
    \/ prog = "p35" /\ pow10[NumDigits[k]] <= Limit
    \/ prog \in {"p37", "p387"} /\ k < Limit
    \/ prog = "p216" /\ t216(k) < Limit
    \/ prog = "p146" /\ k * k + 27 < ByteLimit
    \/ prog = "primeyr" /\ 1 <= k /\ k < ByteLimit

CountsTrue ==
    [][num' # num /\ Tabulated(num) => sum' = sum + Contribution(num)]_vars

(* 92.cc counts each number whose chain runs into 89, wherever on it the   *)
(* walk stops.                                                             *)
LEMMA CountOf92 ==
    ASSUME OnesRight, prog = "p92", Search92  PROVE sum' = sum + Contribution(num)
<1>1. Contribution(num) = IF Chain[sum_digs_sq[num]] = 89 THEN 1 ELSE 0
  BY DEF Contribution
<1>2. Chain[1] = 1 /\ Chain[89] = 89
  BY ChainIs
<1>3. Chain[sum_digs_sq[num]] = Chain[sum_digs_sq[t]]
  BY DEF OnesRight
<1>4. CASE t \in ones
  <2>1. Chain[sum_digs_sq[t]] = 1
    BY <1>4 DEF OnesRight
  <2> QED BY <1>1, <1>3, <1>4, <2>1 DEF Search92
<1>5. CASE t \notin ones
  <2>1. sum_digs_sq[t] \in {1, 89}
    BY <1>5 DEF Search92
  <2>2. sum' = sum + (IF sum_digs_sq[t] = 89 THEN 1 ELSE 0)
    BY <1>5 DEF Search92
  <2> QED BY <1>1, <1>2, <1>3, <2>1, <2>2
<1> QED BY <1>4, <1>5

(* 27.c keeps the best row of the quadratics so far.                       *)
LEMMA CountOf27 ==
    ASSUME BestRight, BytesRight, prog = "p27", num \in Nat, num < Upto["p27"], Search27
    PROVE  sum' = sum + Contribution(num)
<1> DEFINE a == a27
           b == b27
           row == PrimesInARow(a, b)
<1>1. a \in -MaxA..MaxA /\ b \in -MaxB..MaxB /\ a27 = a /\ b27 = b
  BY QuadraticsTried
<1>2. Contribution(num) = IF row > sum THEN row - sum ELSE 0
  BY DEF Contribution
<1>3. primes_in_a_row = row /\ row \in Nat
  <2> HIDE DEF a, b
  <2> QED BY <1>1, RowFound DEF BytesRight
<1>4. sum \in Nat
  BY DEF BestRight
<1>5. IF row > sum THEN sum' = row ELSE sum' = sum
  <2> HIDE DEF row
  <2> QED BY <1>3 DEF Search27
<1> HIDE DEF row
<1>6. sum + (row - sum) = row /\ sum + 0 = sum
  BY <1>3, <1>4
<1>7. CASE row > sum
  BY <1>2, <1>5, <1>6, <1>7
<1>8. CASE ~(row > sum)
  BY <1>2, <1>5, <1>6, <1>8
<1> QED BY <1>7, <1>8

(* The searches that look up bits, as long as they look up.                *)
LEMMA CountByBits ==
    ASSUME PlaceRight, BitsRight, Tabulated(num),
           \/ prog = "p35" /\ Search35
           \/ prog = "p37" /\ Search37
           \/ prog = "p216" /\ Search216
           \/ prog = "p387" /\ Search387
    PROVE  sum' = sum + Contribution(num)
<1>0. Limit \in Nat
  BY LimitAssumption
<1>1. CASE prog = "p35" /\ Search35
  <2>1. num \in Nat /\ pow10[NumDigits[num]] <= Limit
    BY <1>1 DEF PlaceRight, Tabulated
  <2>2. pow10[NumDigits[num]] \in Nat
    BY <2>1, NumDigitsRight, PowersOfTen
  <2>3. ToldBelow(pow10[NumDigits[num]])
    <3> DEFINE w == pow10[NumDigits[num]]
    <3>1. \A k \in 0..(w - 1) : k \in 0..(Limit - 1)
      <4>1. w \in Nat /\ w <= Limit
        BY <2>1, <2>2
      <4> HIDE DEF w
      <4> QED BY <1>0, <4>1
    <3> QED BY <3>1, BitsTell DEF ToldBelow
  <2>4. isprime(num) /\ RotatesBack(num) <=> CircularPrime(num)
    BY <2>1, <2>3, CircularFound
  <2>5. Contribution(num) = IF CircularPrime(num) THEN 1 ELSE 0
    BY <1>1 DEF Contribution
  <2> QED BY <1>1, <2>4, <2>5 DEF Search35
<1>2. CASE prog \in {"p37", "p387"}
  <2>1. num \in Nat /\ num >= 10 /\ num < Limit
    BY <1>2 DEF PlaceRight, Tabulated
  <2>2. \A k \in 0..num : isprime(k) <=> IsPrime(k)
    <3>1. \A k \in 0..num : k \in 0..(Limit - 1)
      BY <1>0, <2>1
    <3> QED BY <3>1, BitsTell
  <2>3. CASE prog = "p37" /\ Search37
    <3>1. isprime(num) /\ PrimeCutRight[num] /\ PrimeCutLeft[num] <=> TruncatablePrime(num)
      BY <2>1, <2>2, TruncatableFound
    <3>2. Contribution(num) = IF TruncatablePrime(num) THEN num ELSE 0
      BY <2>3 DEF Contribution
    <3> QED BY <2>3, <3>1, <3>2 DEF Search37
  <2>4. CASE prog = "p387" /\ Search387
    <3>1. LET trunc == num \div 10
          IN  /\ isprime(num)
              /\ isprime(trunc \div sum_digs[trunc])
              /\ HarshadDown[trunc]
              <=> StrongHarshadPrime(num)
      BY <2>1, <2>2, StrongFound
    <3>2. Contribution(num) = IF StrongHarshadPrime(num) THEN num ELSE 0
      BY <2>4 DEF Contribution
    <3> QED BY <2>4, <3>1, <3>2 DEF Search387
  <2> QED BY <1>2, <2>3, <2>4
<1>3. CASE prog = "p216" /\ Search216
  <2>1. num \in Nat /\ num >= 1 /\ t216(num) < Limit
    BY <1>3 DEF PlaceRight, Tabulated
  <2>2. t216(num) = 2 * num * num - 1 /\ t216(num) \in 0..(Limit - 1)
    <3>1. num * num \in Nat /\ num * num >= 1 /\ 2 * num * num = 2 * (num * num)
      BY <2>1
    <3> QED BY <1>0, <2>1, <3>1 DEF t216
  <2>3. isprime(t216(num)) <=> IsPrime(t216(num))
    BY <2>2, BitsTell
  <2>4. Contribution(num) = IF IsPrime(2 * num * num - 1) THEN 1 ELSE 0
    BY <1>3 DEF Contribution
  <2> QED BY <1>3, <2>2, <2>3, <2>4 DEF Search216
<1> QED BY <1>1, <1>2, <1>3

(* So do those that look up bytes.                                         *)
LEMMA CountByBytes ==
    ASSUME PlaceRight, BytesRight, Tabulated(num),
           \/ prog = "p146" /\ Search146
           \/ prog = "primeyr" /\ SearchPrimeyr
    PROVE  sum' = sum + Contribution(num)
<1>0. ByteLimit \in Nat
  BY ByteLimitAssumption
<1>1. CASE prog = "p146" /\ Search146
  <2>1. num \in Nat /\ num >= 9 /\ num * num + 27 < ByteLimit
    BY <1>1 DEF PlaceRight, Tabulated
  <2>2. ASSUME NEW m \in 1..27  PROVE isprime146(num * num + m) <=> IsPrime(num * num + m)
    <3> DEFINE k == num * num + m
    <3>1. k \in 1..(ByteLimit - 1) /\ k < ByteLimit
      <4>1. num * num \in Nat
        BY <2>1
      <4> QED BY <1>0, <2>1, <4>1
    <3> HIDE DEF k
    <3>2. isprime146(k) <=> k \in bytes
      BY <3>1 DEF isprime146
    <3>3. isprime146(k) <=> IsPrime(k)
      BY <3>1, <3>2 DEF BytesRight
    <3> QED BY <3>3 DEF k
  <2>3. check146 <=> \A m \in 1..27 : IsPrime(num * num + m) <=> m \in offsets
    BY <2>1, <2>2, SixPrimes DEF check146
  <2>4. Contribution(num)
          = IF \A m \in 1..27 : IsPrime(num * num + m) <=> m \in offsets THEN num ELSE 0
    BY <1>1 DEF Contribution
  <2> HIDE <2>2
  <2> QED BY <1>1, <2>3, <2>4 DEF Search146
<1>2. CASE prog = "primeyr" /\ SearchPrimeyr
  <2>1. num \in 1..(ByteLimit - 1)
    BY <1>0, <1>2 DEF PlaceRight, Tabulated
  <2>2. num \in bytes <=> IsPrime(num)
    BY <2>1 DEF BytesRight
  <2>3. Contribution(num) = IF IsPrime(num) THEN num ELSE 0
    BY <1>2 DEF Contribution
  <2> QED BY <1>2, <2>2, <2>3 DEF SearchPrimeyr
<1> QED BY <1>1, <1>2

(* Every iteration that the tables can tell adds what its problem asks     *)
(* for.                                                                    *)
THEOREM CountsAreTrue == EulerSpec => CountsTrue
<1>1. ASSUME EulerInv, [EulerNext]_vars, Tabulated(num), num' # num
      PROVE  sum' = sum + Contribution(num)
  <2>1. Search
    <3>1. EulerNext /\ num' # num
      BY <1>1 DEF vars, searchVars
    <3> QED BY <3>1 DEF EulerNext, SieveStep, InnerLoop, searchVars
  <2>2. /\ PlaceRight /\ OnesRight /\ BestRight /\ num < Upto[prog]
        /\ prog \in DOMAIN Sieving => BitsRight
        /\ prog \in DOMAIN ByteSieving => BytesRight
    <3>1. TablesRight /\ MemosRight
      BY <1>1 DEF EulerInv
    <3>2. /\ num < Upto[prog]
          /\ prog \in DOMAIN Sieving => pc \in {"done", "search"}
          /\ prog \in DOMAIN ByteSieving => bpc \in {"done", "search"}
      BY <2>1 DEF Search
    <3> QED BY <3>1, <3>2, TablesServe DEF MemosRight
  <2>3. CASE prog = "p92"
    <3>1. Search92
      BY <2>1, <2>3 DEF Search
    <3> QED BY <2>2, <2>3, <3>1, CountOf92
  <2>4. CASE prog = "p27"
    <3>1. Search27
      BY <2>1, <2>4 DEF Search
    <3>2. BytesRight /\ num \in Nat
      BY <2>2, <2>4 DEF ByteSieving, PlaceRight
    <3> QED BY <2>2, <2>4, <3>1, <3>2, CountOf27
  <2>5. CASE prog = "jacobi"
    <3>1. SearchJacobi
      BY <2>1, <2>5 DEF Search
    <3>2. num \in Nat
      BY <2>2, <2>5 DEF PlaceRight
    <3>3. issquare(num) <=> Square(num)
      BY <3>2, IsSquareRight
    <3>4. Contribution(num) = IF Square(num) THEN 1 ELSE 0
      BY <2>5 DEF Contribution
    <3> QED BY <3>1, <3>3, <3>4 DEF SearchJacobi
  <2>6. CASE prog \in {"p35", "p37", "p216", "p387"}
    <3>1. \/ prog = "p35" /\ Search35
          \/ prog = "p37" /\ Search37
          \/ prog = "p216" /\ Search216
          \/ prog = "p387" /\ Search387
      BY <2>1, <2>6 DEF Search
    <3>2. BitsRight
      BY <2>2, <2>6 DEF Sieving
    <3> QED BY <1>1, <2>2, <3>1, <3>2, CountByBits
  <2>7. CASE prog \in {"p146", "primeyr"}
    <3>1. \/ prog = "p146" /\ Search146
          \/ prog = "primeyr" /\ SearchPrimeyr
      BY <2>1, <2>7 DEF Search
    <3>2. BytesRight
      BY <2>2, <2>7 DEF ByteSieving
    <3> QED BY <1>1, <2>2, <3>1, <3>2, CountByBytes
  <2> QED BY <1>1, <2>3, <2>4, <2>5, <2>6, <2>7 DEF Tabulated
<1>2. EulerInv /\ [EulerNext]_vars =>
        [num' # num /\ Tabulated(num) => sum' = sum + Contribution(num)]_vars
  BY <1>1
<1> QED BY EulerInvariance, <1>2, PTL DEF CountsTrue, EulerSpec

(* 35.c and 37.c never ask beyond their table of 1024 * 1024 numbers: they *)
(* stop at 1000000, and a rotation has no more digits than its number.     *)
(* Where the loops stop like that, every iteration is counted rightly.     *)
THEOREM TablesSuffice ==
    ASSUME NEW d \in Nat, Upto["p35"] \in Nat, Upto["p35"] <= pow10[d], pow10[d] <= Limit,
           Upto["p37"] \in Nat, Upto["p37"] <= Limit
    PROVE  EulerSpec =>
             [][num' # num /\ prog \in {"p35", "p37"} => sum' = sum + Contribution(num)]_vars
<1>1. ASSUME EulerInv, [EulerNext]_vars, prog \in {"p35", "p37"}, num' # num
      PROVE  Tabulated(num)
  <2>1. num < Upto[prog]
    <3>1. EulerNext /\ num' # num
      BY <1>1 DEF vars, searchVars
    <3> QED BY <3>1 DEF EulerNext, SieveStep, InnerLoop, Search, searchVars
  <2>2. num \in Nat /\ Limit \in Nat
    BY <1>1, LimitAssumption DEF EulerInv, MemosRight, PlaceRight
  <2>3. CASE prog = "p37"
    BY <2>1, <2>2, <2>3 DEF Tabulated
  <2>4. CASE prog = "p35"
    <3> DEFINE e == NumDigits[num]
    <3>1. pow10[d] \in Nat /\ num < pow10[d]
      <4>1. pow10[d] \in Nat
        BY PowersOfTen
      <4> QED BY <2>1, <2>2, <2>4, <4>1
    <3>2. e \in Nat \ {0} /\ (num # 0 => pow10[e - 1] <= num)
      BY <2>2, NumDigitsRight
    <3>3. CASE e <= d
      <4>1. pow10[e] <= pow10[d] /\ pow10[e] \in Nat
        BY <3>2, <3>3, PowersGrow, PowersOfTen
      <4> HIDE DEF e
      <4>2. pow10[e] <= Limit
        BY <2>2, <3>1, <4>1
      <4> QED BY <2>4, <4>2 DEF Tabulated, e
    <3>4. CASE e > d /\ num # 0
      <4>1. e - 1 \in Nat /\ d <= e - 1
        BY <3>2, <3>4
      <4>2. pow10[d] <= pow10[e - 1] /\ pow10[e - 1] \in Nat
        BY <4>1, PowersGrow, PowersOfTen
      <4> HIDE DEF e
      <4> QED BY <2>2, <3>1, <3>2, <3>4, <4>2
    <3>5. CASE num = 0
      <4>1. e = 1
        BY <3>5, NumDigitsIs
      <4>2. pow10[1] = 10
        <5>1. 0 + 1 = 1 /\ pow10[0] = 1 /\ pow10[0 + 1] = 10 * pow10[0]
          BY PowersOfTen
        <5> QED BY <5>1
      <4>3. 10 <= Limit
        BY MemoAssumption, <2>2
      <4> QED BY <2>4, <4>1, <4>2, <4>3 DEF Tabulated
    <3> QED BY <3>2, <3>3, <3>4, <3>5
  <2> QED BY <1>1, <2>3, <2>4
<1>2. EulerInv /\ [EulerNext]_vars
        /\ [num' # num /\ Tabulated(num) => sum' = sum + Contribution(num)]_vars
        => [num' # num /\ prog \in {"p35", "p37"} => sum' = sum + Contribution(num)]_vars
  BY <1>1
<1> QED BY EulerInvariance, CountsAreTrue, <1>2, PTL DEF CountsTrue, EulerSpec
=============================================================================
