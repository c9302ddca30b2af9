------------------------------ MODULE ByteSieve ------------------------------
(***************************************************************************)
(* The older sieves, which keep a byte for every number, even ones too, or *)
(* a list of candidates:                                                   *)
(*                                                                         *)
(*   "square"  sieve of 146.c: tries i while i*i < limit                   *)
(*   "root"    sieve of sieve.c (and 146x.c without threads): while        *)
(*             i < sqrt(limit), which "was i*i < limit"                    *)
(*   "list"    sieveOfErat of prime.c, primeyr.c and 27.c: the numbers     *)
(*             that 2 and 3 do not divide, struck out by index.  The last  *)
(*             two then set the bytes of what is left; prime.c has no      *)
(*             bytes, and stops at "index"                                 *)
(***************************************************************************)
EXTENDS Integers, Sequences

CONSTANTS
    ByteLimit,  \* limit, and invIdxLimit of 146.c
    UintRange   \* unsigned int counts modulo this

Root(x) == CHOOSE r \in 0..x : r * r <= x /\ (r + 1) * (r + 1) > x

(* "root" leaves out i = sqrt(limit), which matters if it is a prime whose *)
(* square is below limit; it is not for the limits in the sources.         *)
ASSUME ByteLimitAssumption ==
    /\ ByteLimit \in Nat /\ ByteLimit > 17 /\ UintRange \in Nat \ {0}
    /\ \/ Root(ByteLimit) * Root(ByteLimit) = ByteLimit
       \/ \E a \in 2..(Root(ByteLimit) - 1) : Root(ByteLimit) % a = 0

VARIABLES
    kind,       \* which of the functions runs
    bytes,      \* the numbers whose byte is 1
    list,       \* s of struct seq, its elements counted from 1 here
    bi,         \* the loop variable i
    bpc         \* "fill", "loop", "index", "done", or "search": the caller goes on

byteVars == <<kind, bytes, list, bi, bpc>>

Kinds == {"square", "root", "list"}

Going ==
    CASE kind = "square" -> bi * bi < ByteLimit
      [] kind = "root" -> bi < Root(ByteLimit)
      [] kind = "list" -> bi < Len(list)

(* for (j = i * i; j < limit; j += i) invIdx[j] = 0                        *)
Struck(m) == {j \in (m * m)..(ByteLimit - 1) : j % m = 0}

(* sieveOfErat starts at the index i*i, not at the index of the square of  *)
(* the prime: that is never too far, since the candidates grow faster than *)
(* their index, and less far where the product wraps around.               *)
FirstIndexOfValue(m) == list[m + 1] * list[m + 1]     \* a variant
FirstIndex(m) == (m * m) % UintRange
StruckOut(pi) ==
    [k \in DOMAIN list |->
        IF k - 1 >= FirstIndex(bi) /\ list[k] % pi = 0 /\ list[k] # pi THEN 0 ELSE list[k]]

ByteInit ==
    /\ kind \in Kinds
    /\ bytes = {}                   \* calloc
    /\ list = IF kind = "list" THEN <<2, 3>> ELSE <<>>
    /\ bi = IF kind = "list" THEN 3 ELSE 2
    /\ bpc = "fill"

Fill ==
    /\ bpc = "fill" /\ kind # "list"
    /\ bytes' = {2} \cup {m \in 3..(ByteLimit - 1) : m % 2 = 1}
    /\ bpc' = "loop"
    /\ UNCHANGED <<kind, list, bi>>

(* The list gets the odd numbers that 3 does not divide, one by one.       *)
addel ==
    /\ bpc = "fill" /\ kind = "list" /\ bi < ByteLimit
    /\ list' = IF bi % 6 \in {1, 5} THEN Append(list, bi) ELSE list
    /\ bi' = bi + 2
    /\ UNCHANGED <<kind, bytes, bpc>>

Filled ==
    /\ bpc = "fill" /\ kind = "list" /\ bi >= ByteLimit
    /\ bpc' = "loop" /\ bi' = 1
    /\ UNCHANGED <<kind, bytes, list>>

Strike ==
    /\ bpc = "loop" /\ Going
    /\ bi' = bi + 1
    /\ IF kind = "list"
       THEN /\ list' = IF list[bi + 1] # 0 THEN StruckOut(list[bi + 1]) ELSE list
            /\ bytes' = bytes
       ELSE /\ bytes' = IF bi \in bytes THEN bytes \ Struck(bi) ELSE bytes
            /\ list' = list
    /\ UNCHANGED <<kind, bpc>>

AllStruck ==
    /\ bpc = "loop" /\ ~Going
    /\ bpc' = IF kind = "list" THEN "index" ELSE "done"
    /\ UNCHANGED <<kind, bytes, list, bi>>

(* main of 27.c and primeyr.c, not of prime.c: the byte of every entry of  *)
(* the list, which is byte 0 for those struck out.                         *)
Index ==
    /\ bpc = "index" /\ bpc' = "done"
    /\ bytes' = {list[k] : k \in DOMAIN list}
    /\ UNCHANGED <<kind, list, bi>>

ByteNext == Fill \/ addel \/ Filled \/ Strike \/ AllStruck \/ Index

ByteSpec == ByteInit /\ [][ByteNext]_byteVars

-----------------------------------------------------------------------------
(* Where the sieve has left numbers: in the list, until bytes are set.     *)
Left == IF bpc = "index" THEN {list[k] : k \in DOMAIN list} ELSE bytes

(* Every one of the sieves ends with the bytes of the primes, and the list *)
(* with the primes and zeros: that the first multiple struck is a square,  *)
(* of values or of indexes, that a product of unsigned ints wraps around,  *)
(* and that the loop ends at the root, loses nothing.                      *)
BytesCorrect ==
    bpc \in {"index", "done"} =>
        \A m \in 1..(ByteLimit - 1) :
            m \in Left <=> m > 1 /\ \A d \in 2..(m - 1) : m % d # 0
=============================================================================
