------------------------------ MODULE PrimeFac ------------------------------
(***************************************************************************)
(* The class PrimeFac: a positive fraction as the vectors of the primes in *)
(* its numerator and in its denominator.  The algorithms run along vectors *)
(* that are expected to be in ascending order.                             *)
(***************************************************************************)
EXTENDS Numbers

PrimeVector == Seq(Nat \ {0, 1})

Factorization == [nums : PrimeVector, dens : PrimeVector]

NoFactors == [nums |-> <<>>, dens |-> <<>>]

Factorize(q) == [nums |-> primeFactors[q.num], dens |-> primeFactors[q.den]]

Partial(primes) ==
    LET product[k \in 0 .. Len(primes)] == IF k = 0 THEN 1 ELSE product[k - 1] * primes[k]
    IN  product
ProductOf(primes) == Partial(primes)[Len(primes)]

Eval(f) == Ratio(ProductOf(f.nums), ProductOf(f.dens))

-----------------------------------------------------------------------------
(* Powers and products. *)

\* Every prime k times.
Duplicate(primes, k) == [j \in 1 .. k * Len(primes) |-> primes[((j - 1) \div k) + 1]]

\* PrimeFac::toThe, for integers.
ToTheInt(f, k) ==
    LET nums == Duplicate(f.nums, AbsInt(k))
        dens == Duplicate(f.dens, AbsInt(k))
    IN  IF k < 0 THEN [nums |-> dens, dens |-> nums] ELSE [nums |-> nums, dens |-> dens]

\* The two iterators of cancelPrimes run along both vectors of v: the smaller prime is
\* kept, equal ones are dropped.
Leading(v) ==
    IF Head(v[1]) < Head(v[2]) THEN <<<<Head(v[1])>>, <<>>>>
    ELSE IF Head(v[1]) > Head(v[2]) THEN <<<<>>, <<Head(v[2])>>>>
    ELSE <<<<>>, <<>>>>

\* What is ahead of the iterators then.
Following(v) ==
    <<IF Head(v[1]) <= Head(v[2]) THEN Tail(v[1]) ELSE v[1],
      IF Head(v[1]) >= Head(v[2]) THEN Tail(v[2]) ELSE v[2]>>

cancelPrimes[v \in PrimeVector \X PrimeVector] ==
    IF v[1] = <<>> \/ v[2] = <<>> THEN v
    ELSE LET left == cancelPrimes[Following(v)]
         IN  <<Leading(v)[1] \o left[1], Leading(v)[2] \o left[2]>>

\* FAULT: the primes are appended, but the vector isn't sorted again.
MergeUnsorted(target, source) == target \o source

\* A sorted sequence with one more element.
Insert(s, p) ==
    LET k == CHOOSE k \in 0 .. Len(s) : \A i \in 1 .. Len(s) : s[i] <= p <=> i <= k
    IN  [i \in 1 .. Len(s) + 1 |-> IF i <= k THEN s[i] ELSE IF i = k + 1 THEN p ELSE s[i - 1]]
Sorted(s) ==
    LET sorted[i \in 0 .. Len(s)] == IF i = 0 THEN <<>> ELSE Insert(sorted[i - 1], s[i])
    IN  sorted
Merge(target, source) == Sorted(target \o source)[Len(target \o source)]

Multiply(f, g) ==
    LET numsLeft == cancelPrimes[<<f.nums, g.dens>>]
        densLeft == cancelPrimes[<<f.dens, g.nums>>]
    IN  IF g = NoFactors THEN f
        ELSE [nums |-> Merge(numsLeft[1], densLeft[2]),
              dens |-> Merge(densLeft[1], numsLeft[2])]

-----------------------------------------------------------------------------
(* The part of a power that can be resolved. *)

\* extractPrimes: every k adjacent equal primes are erased from the source and one
\* of them is put into the target.  For k = 1 the comparison is never met.
Scan(acc, p, k) ==
    IF p # acc.prime
      THEN [acc EXCEPT !.prime = p, !.count = 1, !.rest = Append(@, p)]
    ELSE IF acc.count + 1 = k
      THEN [acc EXCEPT !.count = 0, !.taken = Append(@, p),
                       !.rest = SubSeq(@, 1, Len(@) - (k - 1))]
    ELSE [acc EXCEPT !.count = @ + 1, !.rest = Append(@, p)]
Scanned(primes, k) ==
    LET scan[i \in 0 .. Len(primes)] ==
          IF i = 0 THEN [prime |-> 0, count |-> 0, taken |-> <<>>, rest |-> <<>>]
          ELSE Scan(scan[i - 1], primes[i], k)
    IN  scan
ExtractPrimes(primes, k) == Scanned(primes, k)[Len(primes)]

\* PrimeFac::extract: what is returned, and what the object is left with.
Extraction(f, e) ==
    ToTheInt([nums |-> ExtractPrimes(f.nums, e.den).taken,
              dens |-> ExtractPrimes(f.dens, e.den).taken], e.num)

AfterExtraction(f, e) ==
    [nums |-> ExtractPrimes(f.nums, e.den).rest,
     dens |-> ExtractPrimes(f.dens, e.den).rest]

-----------------------------------------------------------------------------
(* The simplest base of what remains. *)

\* getEqualCountOf: the vector is cut into pieces as long as the leading group of
\* equal primes; first and last prime of every piece are compared.
EqualCountOf(primes) ==
    LET size   == CHOOSE k \in 1 .. Len(primes) :
                    /\ \A j \in 1 .. k : primes[j] = primes[1]
                    /\ k = Len(primes) \/ primes[k + 1] # primes[1]
        pieces == {j \in DOMAIN primes : j > size /\ (j - 1) % size = 0}
    IN  IF Len(primes) % size # 0 THEN 0
        ELSE IF size = 1 THEN 1
        ELSE IF \E j \in pieces : primes[j] # primes[j + size - 1] THEN 0
        ELSE size

EqualCount(f) ==
    IF f = NoFactors THEN 0
    ELSE IF f.nums = <<>> THEN EqualCountOf(f.dens)
    ELSE IF f.dens = <<>> THEN EqualCountOf(f.nums)
    ELSE IF EqualCountOf(f.nums) = EqualCountOf(f.dens) THEN EqualCountOf(f.nums)
    ELSE 0

\* The first of equal neighbours remains.
Unique(primes) ==
    LET unique[i \in 0 .. Len(primes)] ==
          IF i = 0 THEN <<>>
          ELSE IF i > 1 /\ primes[i] = primes[i - 1] THEN unique[i - 1]
          ELSE Append(unique[i - 1], primes[i])
    IN  unique
EraseDuplicates(primes) == Unique(primes)[Len(primes)]

\* PrimeFac::collectToNewExp: the new exponent, and what the object is left with.
CollectedExp(f, e) ==
    IF EqualCount(f) > 1 THEN Times(Whole(EqualCount(f)), e)
    ELSE IF f = NoFactors THEN One
    ELSE e

AfterCollection(f) ==
    IF EqualCount(f) > 1
      THEN [nums |-> EraseDuplicates(f.nums), dens |-> EraseDuplicates(f.dens)]
      ELSE f

=============================================================================
