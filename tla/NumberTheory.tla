---------------------------- MODULE NumberTheory ----------------------------
(***************************************************************************)
(* The pure functions of the number searches, each written as the loop or  *)
(* recursion of its source, and the reference definitions they are checked *)
(* against.  Powers of ten taken with pow and log10 are exact here, which  *)
(* they are for the numbers below 2^53 the programs reach.  Arguments stay *)
(* below 46341, so that no product leaves 32 bits; the sources take such   *)
(* products in 128 bits.                                                   *)
(***************************************************************************)
EXTENDS Integers, Sequences, FiniteSets

(* b ^ exp % mod by squaring, result and b carried through the loop.       *)
SquareAndMultiply[result, b, exp, mod \in Nat] ==
    IF exp = 0 THEN result
    ELSE SquareAndMultiply[IF exp % 2 = 1 THEN (result * b) % mod ELSE result,
                           (b * b) % mod, exp \div 2, mod]

modexp(base, exp, mod) ==
    IF mod = 1 THEN 0 ELSE SquareAndMultiply[1, base % mod, exp, mod]

(* n - 1 = d * 2^s with d odd: the pair of s and d.                        *)
OddPart[s, d \in Nat] == IF d % 2 = 0 THEN OddPart[s + 1, d \div 2] ELSE <<s, d>>

miller_rabin_test(n, a) ==
    LET s == OddPart[0, n - 1][1]
        x[r \in 0..s] == IF r = 0 THEN modexp(a, OddPart[0, n - 1][2], n)
                         ELSE (x[r - 1] * x[r - 1]) % n
    IN  x[0] = 1 \/ x[0] = n - 1 \/ \E r \in 1..(s - 1) : x[r] = n - 1

basesOne == <<2>>               \* a variant: Fermat's base alone
bases == <<2, 3, 5, 7, 11, 13, 17, 19, 23>>

(* The bases are tried in order; a number equal to a base stops the loop.  *)
AllBasesPass(n) ==
    \A k \in DOMAIN bases :
        (\A j \in 1..k : bases[j] # n) => miller_rabin_test(n, bases[k])

pow10[n \in Nat] == IF n = 0 THEN 1 ELSE 10 * pow10[n - 1]
NumDigits[n \in Nat] == IF n < 10 THEN 1 ELSE 1 + NumDigits[n \div 10]

(* A variant that takes the power from l, not from what is left of it.     *)
rotateTooFar(l) ==
    IF l < 10 THEN l ELSE (l \div 10) + pow10[NumDigits[l]] * (l % 10)
rotate(l) ==
    IF l < 10 THEN l
    ELSE (l \div 10) + pow10[NumDigits[l \div 10]] * (l % 10)

(* tmp % 10^trunc(log10(tmp)): the number without its leading digit.       *)
BehindFirst(n) == n % pow10[NumDigits[n] - 1]

fact_mod(n, p) ==
    LET res[k \in 0..n] == IF k = 0 THEN 1 ELSE (res[k - 1] * k) % p
    IN  res[n]

t381(p) == (fact_mod(p - 1, p) + fact_mod(p - 2, p) + fact_mod(p - 3, p)
            + fact_mod(p - 4, p) + fact_mod(p - 5, p)) % p
t216(n) == 2 * (n * n) - 1

sum_digs[n \in Nat] == IF n = 0 THEN 0 ELSE (n % 10) + sum_digs[n \div 10]

is_harshad(n) == n % sum_digs[n] = 0

(* The loop of is_right_truncatable.                                        *)
HarshadDown[n \in Nat] == n = 0 \/ (is_harshad(n) /\ HarshadDown[n \div 10])

sum_digs_sq[n \in Nat] ==
    IF n = 0 THEN 0 ELSE ((n % 10) * (n % 10)) + sum_digs_sq[n \div 10]

(* gcdfast of 443.c, its two arguments as a pair.                          *)
gcdfast[p \in Nat \X Nat] == IF p[2] = 0 THEN p[1] ELSE gcdfast[<<p[2], p[1] % p[2]>>]

(* The loop of jacobi: factors of two out of v, reciprocity, then v and n  *)
(* change places.                                                          *)
TwosOut[s \in (Nat \ {0}) \X Nat \X {-1, 1}] ==
    IF s[1] % 2 = 0
    THEN TwosOut[<<s[1] \div 2, s[2], IF s[2] % 8 \in {3, 5} THEN -s[3] ELSE s[3]>>]
    ELSE <<s[1], s[3]>>
JacobiLoop[s \in Nat \X Nat \X {-1, 1}] ==
    IF s[1] = 0 THEN IF s[2] = 1 THEN s[3] ELSE 0
    ELSE LET out == TwosOut[s]
             w   == out[1]
         IN  JacobiLoop[<<s[2] % w, w, IF w % 4 = 3 /\ s[2] % 4 = 3 THEN -out[2] ELSE out[2]>>]
jacobi(v, n) == JacobiLoop[<<v % n, n, 1>>]

Sqrt(v) == CHOOSE r \in 0..v : r * r <= v /\ (r + 1) * (r + 1) > v

issquare(v) ==
    /\ IF v % 2 = 0 THEN v % 4 = 0 ELSE v % 8 = 1
    /\ jacobi(v, 17) # -1
    /\ v = Sqrt(v) * Sqrt(v)

-----------------------------------------------------------------------------
(* Reference definitions: what the functions above are to compute.         *)

IsPrime(n) == n > 1 /\ \A d \in 2..(n - 1) : n % d # 0

Digits[n \in Nat] == IF n < 10 THEN <<n>> ELSE Append(Digits[n \div 10], n % 10)

(* The value of digits to a base; to the base 1 it is their sum.           *)
Horner(digits, base) ==
    LET v[k \in 0..Len(digits)] == IF k = 0 THEN 0 ELSE base * v[k - 1] + digits[k]
    IN  v[Len(digits)]
Value(digits) == Horner(digits, 10)
DigitSum(n) == Horner(Digits[n], 1)

Front(digits, k) == SubSeq(digits, 1, k)
Behind(digits, k) == SubSeq(digits, k + 1, Len(digits))

CircularPrime(n) ==
    LET ds == Digits[n]
    IN  \A k \in 1..Len(ds) : IsPrime(Value(Behind(ds, k) \o Front(ds, k)))

TruncatablePrime(n) ==
    LET ds == Digits[n]
    IN  IsPrime(n) /\ \A k \in 1..(Len(ds) - 1) :
            IsPrime(Value(Front(ds, k))) /\ IsPrime(Value(Behind(ds, k)))

RightTruncatableHarshad(n) ==
    \A k \in 1..Len(Digits[n]) :
        LET p == Value(Front(Digits[n], k)) IN p > 0 /\ p % DigitSum(p) = 0

StrongHarshadPrime(n) ==
    LET p == n \div 10
    IN  IsPrime(n) /\ RightTruncatableHarshad(p) /\ IsPrime(p \div DigitSum(p))

(* By Wilson's theorem 8 * ((p-1)! + ... + (p-5)!) is -3 modulo p.         *)
FactorialResidue(p) == CHOOSE r \in 0..(p - 1) : (8 * r + 3) % p = 0

(* gcd of 443.c: the largest common divisor, searched downwards.           *)
gcd(x, y) == CHOOSE d \in 1..x : /\ x % d = 0 /\ y % d = 0
                                 /\ \A e \in (d + 1)..x : x % e # 0 \/ y % e # 0

(* g of 443.c.                                                             *)
g[n \in Nat \ 0..3] == IF n = 4 THEN 13 ELSE LET h == g[n - 1] IN h + gcd(n, h)

(* The chain of 92.cc runs into 1 or into 89.                              *)
Chain[n \in Nat] == IF n \in {1, 89} THEN n ELSE Chain[sum_digs_sq[n]]

(* The n of problem 27 up to the first for which n^2 + an + b is no prime; *)
(* RowBound is 10000000 in 27.c, more than any row has.                    *)
RowBound == 1000
Row == 0..RowBound
poly(a, b, n) == n * n + a * n + b
PrimesInARow(a, b) ==
    CHOOSE m \in Row : /\ ~IsPrime(poly(a, b, m))
                       /\ \A k \in 0..(m - 1) : IsPrime(poly(a, b, k))

Square(v) == \E r \in 0..v : r * r = v
=============================================================================
