---------------------------- MODULE NumbersProofs ----------------------------
(***************************************************************************)
(* Facts about the integers of Numbers: division with remainder, factors,  *)
(* primes, and the recursive definition of the prime factors.              *)
(***************************************************************************)
EXTENDS Numbers, Recursion, SequenceTheorems

Positive == Nat \ {0}

\* k is the product of d and another number.
HasFactor(k, d) == \E q \in Nat : k = d * q

\* Division with remainder, as the code's % and / have it for positive numbers.
LEMMA Division ==
    ASSUME NEW k \in Nat, NEW d \in Nat \ {0}
    PROVE  /\ k \div d \in Nat
           /\ k % d \in 0 .. d - 1
           /\ k = d * (k \div d) + (k % d)
BY SMT

\* The remainder is zero exactly if there is a factor.
LEMMA RemainderZero ==
    ASSUME NEW k \in Nat, NEW d \in Nat \ {0}
    PROVE  k % d = 0 <=> HasFactor(k, d)
<1>1. ASSUME k % d = 0 PROVE HasFactor(k, d)
  <2>1. k \div d \in Nat /\ k = d * (k \div d)
    BY <1>1, Division
  <2>2. QED
    BY <2>1 DEF HasFactor
<1>2. ASSUME NEW q \in Nat, k = d * q PROVE k % d = 0
  <2>1. /\ k \div d \in Nat
        /\ k % d \in 0 .. d - 1
        /\ d * q = d * (k \div d) + (k % d)
    BY <1>2, Division
  <2>2. ASSUME NEW e \in Nat, NEW r \in 0 .. d - 1, d * q = d * e + r
        PROVE  r = 0
    <3>1. CASE q <= e
      <4>1. d * q <= d * e
        BY <3>1
      <4>2. QED
        BY <2>2, <4>1
    <3>2. CASE q >= e + 1
      <4>1. d * q >= d * (e + 1)
        BY <3>2
      <4>2. d * (e + 1) = d * e + d
        OBVIOUS
      <4>3. QED
        BY <2>2, <4>1, <4>2
    <3>3. QED
      BY <3>1, <3>2
  <2>3. QED
    BY <2>1, <2>2
<1>3. QED
  BY <1>1, <1>2 DEF HasFactor

\* A number without smaller factors is prime.
LEMMA NoFactorPrime ==
    ASSUME NEW p \in Nat, p > 1,
           \A d \in 2 .. p - 1 : ~HasFactor(p, d)
    PROVE  IsPrime(p)
<1>1. ASSUME NEW d \in 2 .. p - 1 PROVE p % d # 0
  <2>1. d \in Nat \ {0} /\ ~HasFactor(p, d)
    OBVIOUS
  <2>2. QED
    BY <2>1, RemainderZero
<1>2. QED
  BY <1>1 DEF IsPrime

\* A factor of a factor is a factor.
LEMMA FactorTransitive ==
    ASSUME NEW k \in Nat, NEW d \in Nat, NEW e \in Nat,
           HasFactor(k, d), HasFactor(d, e)
    PROVE  HasFactor(k, e)
<1>1. PICK q \in Nat : k = d * q
  BY DEF HasFactor
<1>2. PICK r \in Nat : d = e * r
  BY DEF HasFactor
<1>3. r * q \in Nat /\ k = e * (r * q)
  BY <1>1, <1>2
<1>4. QED
  BY <1>3 DEF HasFactor

\* A quotient is positive and not larger than what is divided.
LEMMA Quotient ==
    ASSUME NEW k \in Nat \ {0}, NEW d \in Nat \ {0}, k % d = 0
    PROVE  /\ k \div d \in Nat \ {0}
           /\ k \div d <= k
           /\ k = d * (k \div d)
<1>1. k \div d \in Nat /\ k = d * (k \div d)
  BY Division
<1>2. ASSUME NEW q \in Nat, k = d * q PROVE q # 0 /\ q <= k
  <2>1. q # 0
    BY <1>2
  <2>2. d * q >= q
    OBVIOUS
  <2>3. QED
    BY <1>2, <2>1, <2>2
<1>3. QED
  BY <1>1, <1>2

-----------------------------------------------------------------------------

\* The prime that the definition of the prime factors takes next.
LeastFactor(n) == CHOOSE d \in 2 .. n : n % d = 0 /\ \A c \in 2 .. d - 1 : n % c # 0

IsLeastFactor(n, d) == d \in 2 .. n /\ n % d = 0 /\ \A c \in 2 .. d - 1 : n % c # 0

\* Every number above one has a least factor above one.
LEMMA LeastFactorExists ==
    ASSUME NEW n \in Nat, n > 1
    PROVE  IsLeastFactor(n, LeastFactor(n))
<1> DEFINE T == {d \in 2 .. n : n % d = 0}
<1>1. n % n = 0
  <2>1. HasFactor(n, n)
    BY n = n * 1 DEF HasFactor
  <2>2. QED
    BY <2>1, RemainderZero
<1>2. T \in SUBSET Nat /\ n \in T
  BY <1>1
<1>3. PICK d \in T : \A c \in T : d <= c
  BY <1>2, LeastNumber
<1>4. \A c \in 2 .. d - 1 : c \in 2 .. n /\ ~(d <= c)
  OBVIOUS
<1>5. \A c \in 2 .. d - 1 : n % c # 0
  BY <1>3, <1>4
<1>6. \E e \in 2 .. n : n % e = 0 /\ \A c \in 2 .. e - 1 : n % c # 0
  BY <1>5
<1>7. QED
  BY <1>6 DEF LeastFactor, IsLeastFactor

\* There is only one.
LEMMA LeastFactorUnique ==
    ASSUME NEW n \in Nat, n > 1, NEW d, IsLeastFactor(n, d)
    PROVE  d = LeastFactor(n)
<1> DEFINE e == LeastFactor(n)
<1>1. IsLeastFactor(n, e)
  BY LeastFactorExists
<1> HIDE DEF e
<1>2. d \in 2 .. n /\ e \in 2 .. n
  BY <1>1 DEF IsLeastFactor
<1>3. ~(d < e)
  <2>1. d < e => d \in 2 .. e - 1
    BY <1>2
  <2>2. QED
    BY <1>1, <2>1 DEF IsLeastFactor
<1>4. ~(e < d)
  <2>1. e < d => e \in 2 .. d - 1
    BY <1>2
  <2>2. QED
    BY <1>1, <2>1 DEF IsLeastFactor
<1>5. QED
  BY <1>2, <1>3, <1>4 DEF e

\* The quotient of a number above one by its least factor is a smaller number.
LEMMA LeastFactorQuotient ==
    ASSUME NEW n \in Nat, n > 1
    PROVE  n \div LeastFactor(n) \in Positive /\ n \div LeastFactor(n) < n
<1> DEFINE d == LeastFactor(n)
           q == n \div d
<1>1. d \in Nat \ {0} /\ d >= 2 /\ n % d = 0
  BY LeastFactorExists DEF IsLeastFactor
<1> HIDE DEF d
<1>2. q \in Nat \ {0} /\ n = d * q
  BY <1>1, Quotient
<1> HIDE DEF q
<1>3. d * q >= 2 * q
  BY <1>1, <1>2
<1>4. q < n
  BY <1>1, <1>2, <1>3
<1>5. QED
  BY <1>2, <1>4 DEF d, q, Positive

\* The recursive definition defines a function: the equation holds for it, and its
\* values are sequences of positive numbers.
LEMMA PrimeFactorsDef ==
    /\ primeFactors \in [Positive -> Seq(Positive)]
    /\ primeFactors[1] = <<>>
    /\ \A n \in Positive :
         n > 1 => primeFactors[n] = <<LeastFactor(n)>> \o primeFactors[n \div LeastFactor(n)]
<1> DEFINE Body(g) == [n \in Nat \ {0} |->
                         IF n = 1 THEN <<>>
                         ELSE LET p == CHOOSE d \in 2 .. n : n % d = 0 /\ \A c \in 2 .. d - 1 : n % c # 0
                              IN  <<p>> \o g[n \div p]]
           S    == Seq(Positive)
           mu   == [n \in Positive |-> n]
           leaf == {1}
           base == [n \in Positive |-> <<>>]
           prec == [n \in Positive |-> IF n = 1 THEN 1 ELSE n \div LeastFactor(n)]
           comb == [n \in Positive |-> [s \in S |-> IF n = 1 THEN s ELSE <<LeastFactor(n)>> \o s]]
<1>1. mu \in [Positive -> Nat] /\ leaf \in SUBSET Positive
  BY DEF Positive
<1>2. base \in [Positive -> S]
  BY EmptySeq
<1>3. prec \in [Positive -> Positive]
  <2>1. ASSUME NEW n \in Positive PROVE (IF n = 1 THEN 1 ELSE n \div LeastFactor(n)) \in Positive
    <3>1. n # 1 => n > 1
      BY DEF Positive
    <3>2. QED
      BY <3>1, LeastFactorQuotient DEF Positive
  <2>2. QED
    BY <2>1
<1>4. comb \in [Positive -> [S -> S]]
  <2>1. ASSUME NEW n \in Positive, NEW s \in S
        PROVE  (IF n = 1 THEN s ELSE <<LeastFactor(n)>> \o s) \in S
    <3>1. CASE n = 1
      BY <3>1
    <3>2. CASE n # 1
      <4>1. n \in Nat /\ n > 1
        BY <3>2 DEF Positive
      <4>2. LeastFactor(n) \in Positive
        BY <4>1, LeastFactorExists DEF IsLeastFactor, Positive
      <4>3. <<LeastFactor(n)>> \in S
        BY <4>2
      <4>4. QED
        BY <3>2, <4>3, ConcatProperties
    <3>3. QED
      BY <3>1, <3>2
  <2>2. QED
    BY <2>1
<1>5. \A n \in Positive \ leaf : mu[prec[n]] < mu[n]
  <2> SUFFICES ASSUME NEW n \in Positive, n # 1 PROVE mu[prec[n]] < mu[n]
    OBVIOUS
  <2>1. n \in Nat /\ n > 1
    BY DEF Positive
  <2>2. n \div LeastFactor(n) \in Positive /\ n \div LeastFactor(n) < n
    BY <2>1, LeastFactorQuotient
  <2>3. QED
    BY <2>2
<1>6. PICK f \in [Positive -> S] : \A n \in Positive : Equation(f, n, leaf, base, prec, comb)
  <2> HIDE DEF mu, leaf, base, prec, comb, S
  <2>1. QED
    BY <1>1, <1>2, <1>3, <1>4, <1>5, RecursionExists
<1>7. \A g \in [Positive -> S] : \A n \in Positive :
        Equation(g, n, leaf, base, prec, comb) <=>
          g[n] = IF n = 1 THEN <<>> ELSE <<LeastFactor(n)>> \o g[n \div LeastFactor(n)]
  <2> SUFFICES ASSUME NEW g \in [Positive -> S], NEW n \in Positive
               PROVE  Equation(g, n, leaf, base, prec, comb) <=>
                 g[n] = IF n = 1 THEN <<>> ELSE <<LeastFactor(n)>> \o g[n \div LeastFactor(n)]
    OBVIOUS
  <2>1. CASE n = 1
    BY <2>1 DEF Equation
  <2>2. CASE n # 1
    <3>1. prec[n] = n \div LeastFactor(n) /\ prec[n] \in Positive
      BY <1>3, <2>2
    <3>2. g[prec[n]] \in S
      BY <3>1
    <3>3. comb[n][g[prec[n]]] = <<LeastFactor(n)>> \o g[prec[n]]
      BY <2>2, <3>2
    <3>4. n \notin leaf
      BY <2>2
    <3> HIDE DEF prec, comb, leaf
    <3>5. QED
      BY <2>2, <3>1, <3>3, <3>4 DEF Equation
  <2>3. QED
    BY <2>1, <2>2
<1>8. f = Body(f)
  <2>1. \A n \in Positive :
          f[n] = IF n = 1 THEN <<>> ELSE <<LeastFactor(n)>> \o f[n \div LeastFactor(n)]
    BY <1>6, <1>7
  <2>2. f = [n \in Positive |-> f[n]]
    OBVIOUS
  <2>3. QED
    BY <2>1, <2>2, Zenon DEF LeastFactor, Positive
<1>9. primeFactors = Body(primeFactors)
  BY <1>8, ZenonT(40) DEF primeFactors
<1>10. \A n \in Positive : primeFactors[n] =
         IF n = 1 THEN <<>> ELSE <<LeastFactor(n)>> \o primeFactors[n \div LeastFactor(n)]
  BY <1>9, Zenon DEF LeastFactor, Positive
<1> DEFINE T == {n \in Positive : primeFactors[n] \in S}
<1>11. \A n \in Positive : (\A k \in Positive : mu[k] < mu[n] => k \in T) => n \in T
  <2> SUFFICES ASSUME NEW n \in Positive, \A k \in Positive : mu[k] < mu[n] => k \in T
               PROVE  primeFactors[n] \in S
    OBVIOUS
  <2>1. CASE n = 1
    BY <1>10, <2>1, EmptySeq
  <2>2. CASE n # 1
    <3> DEFINE p == LeastFactor(n)
               q == n \div LeastFactor(n)
    <3>1. n \in Nat /\ n > 1
      BY <2>2 DEF Positive
    <3>2. q \in Positive /\ q < n
      BY <3>1, LeastFactorQuotient
    <3>3. primeFactors[q] \in S
      BY <3>2
    <3>4. p \in Positive
      BY <3>1, LeastFactorExists DEF IsLeastFactor, Positive
    <3>5. primeFactors[n] = <<p>> \o primeFactors[q]
      BY <1>10, <2>2
    <3> HIDE DEF p, q
    <3>6. <<p>> \in S
      BY <3>4
    <3>7. QED
      BY <3>3, <3>5, <3>6, ConcatProperties
  <2>3. QED
    BY <2>1, <2>2
<1>12. \A n \in Positive : primeFactors[n] \in S
  <2> HIDE DEF T, mu
  <2>1. Positive \subseteq T
    BY <1>1, <1>11, MeasureInduction
  <2>2. QED
    BY <2>1 DEF T
<1>13. primeFactors \in [Positive -> S]
  <2>1. primeFactors = [n \in Positive |-> primeFactors[n]]
    BY <1>9, Zenon DEF Positive
  <2>2. QED
    BY <1>12, <2>1
<1>14. 1 \in Positive
  BY DEF Positive
<1>15. \A n \in Positive : n > 1 => n # 1
  OBVIOUS
<1>16. QED
  BY <1>10, <1>13, <1>14, <1>15

-----------------------------------------------------------------------------
(* The greatest common divisor. *)

\* Euclid's algorithm ends: its equation defines a function.
LEMMA GcdDef ==
    /\ gcd \in [Nat \X Nat -> Nat]
    /\ \A m, n \in Nat : gcd[<<m, n>>] = IF n = 0 THEN m ELSE gcd[<<n, m % n>>]
<1> DEFINE Body(g) == [p \in Nat \X Nat |-> IF p[2] = 0 THEN p[1] ELSE g[<<p[2], p[1] % p[2]>>]]
           D    == Nat \X Nat
           mu   == [p \in D |-> p[2]]
           leaf == {p \in D : p[2] = 0}
           base == [p \in D |-> p[1]]
           prec == [p \in D |-> IF p[2] = 0 THEN p ELSE <<p[2], p[1] % p[2]>>]
           comb == [p \in D |-> [s \in Nat |-> s]]
<1>1. /\ mu \in [D -> Nat] /\ leaf \in SUBSET D
      /\ base \in [D -> Nat] /\ comb \in [D -> [Nat -> Nat]]
  OBVIOUS
<1>2. prec \in [D -> D]
  <2>1. ASSUME NEW p \in D, p[2] # 0 PROVE p[1] % p[2] \in Nat
    BY <2>1
  <2>2. QED
    BY <2>1
<1>3. \A p \in D \ leaf : mu[prec[p]] < mu[p]
  <2> SUFFICES ASSUME NEW p \in D, p[2] # 0 PROVE mu[prec[p]] < mu[p]
    OBVIOUS
  <2>1. p[1] % p[2] \in Nat /\ p[1] % p[2] < p[2]
    OBVIOUS
  <2>2. prec[p] = <<p[2], p[1] % p[2]>> /\ prec[p] \in D
    BY <2>1
  <2>3. QED
    BY <2>1, <2>2
<1>4. PICK f \in [D -> Nat] : \A p \in D : Equation(f, p, leaf, base, prec, comb)
  <2> HIDE DEF D, mu, leaf, base, prec, comb
  <2>1. QED
    BY <1>1, <1>2, <1>3, RecursionExists
<1>5. \A p \in D : f[p] = IF p[2] = 0 THEN p[1] ELSE f[<<p[2], p[1] % p[2]>>]
  <2> TAKE p \in D
  <2>1. prec[p] \in D /\ f[prec[p]] \in Nat
    BY <1>2
  <2>2. CASE p[2] = 0
    BY <1>4, <2>2 DEF Equation
  <2>3. CASE p[2] # 0
    <3>1. f[p] = comb[p][f[prec[p]]]
      BY <1>4, <2>3 DEF Equation
    <3>2. QED
      BY <2>1, <2>3, <3>1
  <2>4. QED
    BY <2>2, <2>3
<1>6. f = Body(f)
  <2>1. f = [p \in D |-> f[p]]
    OBVIOUS
  <2>2. QED
    BY <1>5, <2>1
<1>7. gcd = Body(gcd)
  <2>1. gcd = CHOOSE g : g = Body(g)
    BY DEF gcd
  <2> HIDE DEF Body
  <2>2. QED
    BY <1>6, <2>1
<1>8. \A p \in D : gcd[p] = IF p[2] = 0 THEN p[1] ELSE gcd[<<p[2], p[1] % p[2]>>]
  BY <1>7
<1> DEFINE T == {p \in D : gcd[p] \in Nat}
<1>9. \A p \in D : (\A q \in D : mu[q] < mu[p] => q \in T) => p \in T
  <2> SUFFICES ASSUME NEW p \in D, \A q \in D : mu[q] < mu[p] => q \in T
               PROVE  gcd[p] \in Nat
    OBVIOUS
  <2>1. CASE p[2] = 0
    BY <1>8, <2>1
  <2>2. CASE p[2] # 0
    <3>1. prec[p] = <<p[2], p[1] % p[2]>> /\ prec[p] \in D /\ mu[prec[p]] < mu[p]
      BY <1>2, <1>3, <2>2
    <3>2. gcd[prec[p]] \in Nat
      BY <3>1
    <3>3. QED
      BY <1>8, <2>2, <3>1, <3>2
  <2>3. QED
    BY <2>1, <2>2
<1>10. D \subseteq T
  <2> HIDE DEF T, mu, D
  <2>1. QED
    BY <1>1, <1>9, MeasureInduction
<1>11. gcd \in [D -> Nat]
  <2>1. gcd = [p \in D |-> gcd[p]]
    BY <1>7
  <2>2. QED
    BY <1>10, <2>1
<1>12. QED
  BY <1>8, <1>11

\* Factors of sums and differences.
LEMMA FactorSum ==
    ASSUME NEW m \in Nat, NEW n \in Nat, NEW d \in Nat, HasFactor(m, d)
    PROVE  HasFactor(m + n, d) <=> HasFactor(n, d)
<1>1. PICK q \in Nat : m = d * q
  BY DEF HasFactor
<1>2. ASSUME NEW r \in Nat, n = d * r PROVE HasFactor(m + n, d)
  <2>1. d * (q + r) = d * q + d * r
    OBVIOUS
  <2>2. q + r \in Nat /\ m + n = d * (q + r)
    BY <1>1, <1>2, <2>1
  <2>3. QED
    BY <2>2 DEF HasFactor
<1>3. ASSUME NEW r \in Nat, m + n = d * r PROVE HasFactor(n, d)
  <2>1. CASE r >= q
    <3>1. d * (r - q) = d * r - d * q
      OBVIOUS
    <3>2. r - q \in Nat /\ n = d * (r - q)
      BY <1>1, <1>3, <2>1, <3>1
    <3>3. QED
      BY <3>2 DEF HasFactor
  <2>2. CASE r < q
    <3>1. d * r <= d * q
      BY <2>2
    <3>2. n = 0
      BY <1>1, <1>3, <3>1
    <3>3. n = d * 0
      BY <3>2
    <3>4. QED
      BY <3>3 DEF HasFactor
  <2>3. QED
    BY <2>1, <2>2
<1>4. QED
  BY <1>2, <1>3 DEF HasFactor

\* A factor of a number is a factor of its multiples.
LEMMA FactorProduct ==
    ASSUME NEW m \in Nat, NEW n \in Nat, NEW d \in Nat, HasFactor(m, d)
    PROVE  HasFactor(m * n, d)
<1>1. PICK q \in Nat : m = d * q
  BY DEF HasFactor
<1>2. q * n \in Nat /\ m * n = d * (q * n)
  BY <1>1
<1>3. QED
  BY <1>2 DEF HasFactor

\* Euclid's step does not change the common factors.
LEMMA FactorRemainder ==
    ASSUME NEW m \in Nat, NEW n \in Nat \ {0}, NEW d \in Nat, HasFactor(n, d)
    PROVE  HasFactor(m % n, d) <=> HasFactor(m, d)
<1> DEFINE q == m \div n
           r == m % n
<1>1. q \in Nat /\ r \in 0 .. n - 1 /\ m = n * q + r
  BY Division, Zenon
<1> HIDE DEF q, r
<1>2. n * q \in Nat /\ HasFactor(n * q, d)
  <2>1. n \in Nat /\ q \in Nat
    BY <1>1
  <2>2. HasFactor(n * q, d)
    BY <2>1, FactorProduct
  <2>3. QED
    BY <2>1, <2>2
<1>3. HasFactor(n * q + r, d) <=> HasFactor(r, d)
  BY <1>1, <1>2, FactorSum
<1>4. QED
  BY <1>1, <1>3 DEF r

\* The result is a common factor.
LEMMA GcdCommon ==
    \A m, n \in Nat : HasFactor(m, gcd[<<m, n>>]) /\ HasFactor(n, gcd[<<m, n>>])
<1> DEFINE T == {n \in Nat : \A m \in Nat : /\ HasFactor(m, gcd[<<m, n>>])
                                            /\ HasFactor(n, gcd[<<m, n>>])}
<1>1. ASSUME NEW n \in Nat, \A k \in Nat : k < n => k \in T PROVE n \in T
  <2> SUFFICES ASSUME NEW m \in Nat
               PROVE  HasFactor(m, gcd[<<m, n>>]) /\ HasFactor(n, gcd[<<m, n>>])
    OBVIOUS
  <2>1. CASE n = 0
    <3>1. gcd[<<m, n>>] = m
      BY <2>1, GcdDef
    <3>2. m = m * 1 /\ n = m * 0
      BY <2>1
    <3>3. QED
      BY <3>1, <3>2 DEF HasFactor
  <2>2. CASE n # 0
    <3> DEFINE g == gcd[<<n, m % n>>]
    <3>1. gcd[<<m, n>>] = g
      BY <2>2, GcdDef
    <3>2. m % n \in Nat /\ m % n < n
      BY <2>2
    <3>3. HasFactor(n, g) /\ HasFactor(m % n, g)
      BY <1>1, <3>2
    <3>4. g \in Nat
      BY <3>2, GcdDef
    <3> HIDE DEF g
    <3>5. n \in Nat \ {0}
      BY <2>2
    <3>6. HasFactor(m, g)
      BY <3>3, <3>4, <3>5, FactorRemainder
    <3>7. QED
      BY <3>1, <3>3, <3>6
  <2>3. QED
    BY <2>1, <2>2
<1> HIDE DEF T
<1>2. Nat \subseteq T
  BY <1>1, CompleteInduction
<1>3. QED
  BY <1>2 DEF T

\* Every common factor is a factor of it.
LEMMA GcdGreatest ==
    ASSUME NEW d \in Nat
    PROVE  \A m, n \in Nat : HasFactor(m, d) /\ HasFactor(n, d) => HasFactor(gcd[<<m, n>>], d)
<1> DEFINE T == {n \in Nat : \A m \in Nat :
                   HasFactor(m, d) /\ HasFactor(n, d) => HasFactor(gcd[<<m, n>>], d)}
<1>1. ASSUME NEW n \in Nat, \A k \in Nat : k < n => k \in T PROVE n \in T
  <2> SUFFICES ASSUME NEW m \in Nat, HasFactor(m, d), HasFactor(n, d)
               PROVE  HasFactor(gcd[<<m, n>>], d)
    OBVIOUS
  <2>1. CASE n = 0
    BY <2>1, GcdDef
  <2>2. CASE n # 0
    <3>1. gcd[<<m, n>>] = gcd[<<n, m % n>>]
      BY <2>2, GcdDef
    <3>2. m % n \in Nat /\ m % n < n
      BY <2>2
    <3>3. HasFactor(m % n, d)
      BY <2>2, FactorRemainder
    <3>4. m % n \in T
      BY <1>1, <3>2
    <3>5. QED
      BY <3>1, <3>3, <3>4
  <2>3. QED
    BY <2>1, <2>2
<1> HIDE DEF T
<1>2. Nat \subseteq T
  BY <1>1, CompleteInduction
<1>3. QED
  BY <1>2 DEF T

\* Two numbers without a common factor but one.
Coprime(m, n) == \A d \in Nat : HasFactor(m, d) /\ HasFactor(n, d) => d = 1

LEMMA CoprimeGcd ==
    ASSUME NEW m \in Nat, NEW n \in Nat
    PROVE  gcd[<<m, n>>] = 1 <=> Coprime(m, n)
<1>1. gcd[<<m, n>>] \in Nat /\ HasFactor(m, gcd[<<m, n>>]) /\ HasFactor(n, gcd[<<m, n>>])
  BY GcdDef, GcdCommon
<1>2. ASSUME NEW d \in Nat, HasFactor(1, d) PROVE d = 1
  <2>1. PICK q \in Nat : 1 = d * q
    BY <1>2 DEF HasFactor
  <2>2. d # 0 /\ q # 0
    BY <2>1
  <2>3. d * q >= d
    BY <2>2
  <2>4. QED
    BY <2>1, <2>2, <2>3
<1>3. ASSUME gcd[<<m, n>>] = 1, NEW d \in Nat, HasFactor(m, d), HasFactor(n, d) PROVE d = 1
  <2>1. HasFactor(gcd[<<m, n>>], d)
    BY <1>3, GcdGreatest
  <2>2. QED
    BY <1>2, <1>3, <2>1
<1>4. Coprime(m, n) => gcd[<<m, n>>] = 1
  BY <1>1 DEF Coprime
<1>5. gcd[<<m, n>>] = 1 => Coprime(m, n)
  BY <1>3 DEF Coprime
<1>6. QED
  BY <1>4, <1>5

LEMMA CoprimeSymmetric ==
    ASSUME NEW m \in Nat, NEW n \in Nat, Coprime(m, n)
    PROVE  Coprime(n, m)
BY DEF Coprime

\* What is left after the division by the greatest common divisor.
LEMMA GcdQuotients ==
    ASSUME NEW m \in Nat, NEW n \in Nat \ {0}
    PROVE  LET g == gcd[<<m, n>>]
           IN  /\ g \in Nat \ {0}
               /\ \E a \in Nat, e \in Nat \ {0} : m = g * a /\ n = g * e /\ Coprime(a, e)
<1> DEFINE g == gcd[<<m, n>>]
<1>1. g \in Nat /\ HasFactor(m, g) /\ HasFactor(n, g)
  BY GcdDef, GcdCommon
<1>2. \A d \in Nat : HasFactor(m, d) /\ HasFactor(n, d) => HasFactor(g, d)
  BY GcdGreatest
<1> HIDE DEF g
<1>3. PICK a \in Nat : m = g * a
  BY <1>1 DEF HasFactor
<1>4. PICK e \in Nat : n = g * e
  BY <1>1 DEF HasFactor
<1>5. g # 0 /\ e # 0
  BY <1>1, <1>4
<1>6. ASSUME NEW d \in Nat, HasFactor(a, d), HasFactor(e, d) PROVE d = 1
  <2>1. PICK q \in Nat : a = d * q
    BY <1>6 DEF HasFactor
  <2>2. PICK r \in Nat : e = d * r
    BY <1>6 DEF HasFactor
  <2>3. g * (d * q) = (g * d) * q /\ g * (d * r) = (g * d) * r /\ g * d \in Nat
    BY <1>1
  <2>4. HasFactor(m, g * d) /\ HasFactor(n, g * d)
    BY <1>3, <1>4, <2>1, <2>2, <2>3 DEF HasFactor
  <2>5. HasFactor(g, g * d)
    BY <1>2, <2>3, <2>4
  <2>6. PICK u \in Nat : g = (g * d) * u
    BY <2>5 DEF HasFactor
  <2>7. ASSUME NEW v \in Nat, g = g * v PROVE v = 1
    <3>1. v = 0 \/ v = 1 \/ v >= 2
      OBVIOUS
    <3>2. v >= 2 => g * v >= g * 2
      BY <1>1
    <3>3. QED
      BY <1>1, <1>5, <2>7, <3>1, <3>2
  <2>8. (g * d) * u = g * (d * u) /\ d * u \in Nat
    BY <1>1
  <2>9. d * u = 1
    BY <2>6, <2>7, <2>8
  <2>10. d # 0 /\ u # 0
    BY <2>9
  <2>11. d * u >= d
    BY <2>10
  <2>12. QED
    BY <2>9, <2>10, <2>11
<1>7. QED
  BY <1>1, <1>3, <1>4, <1>5, <1>6 DEF Coprime, g

\* A multiple divided by its factor.
LEMMA ExactQuotient ==
    ASSUME NEW g \in Nat \ {0}, NEW a \in Int
    PROVE  (g * a) \div g = a
<1> DEFINE n == g * a
           q == n \div g
           r == n % g
<1>1. q \in Int /\ r \in 0 .. g - 1 /\ n = g * q + r
  BY SMT
<1> HIDE DEF q, r
<1>2. CASE q < a
  <2>1. g * (a - q) >= g
    BY <1>1, <1>2
  <2>2. g * (a - q) = g * a - g * q
    BY <1>1
  <2>3. QED
    BY <1>1, <2>1, <2>2
<1>3. CASE q > a
  <2>1. g * (q - a) >= g
    BY <1>1, <1>3
  <2>2. g * (q - a) = g * q - g * a
    BY <1>1
  <2>3. QED
    BY <1>1, <2>1, <2>2
<1>4. QED
  BY <1>1, <1>2, <1>3 DEF q

\* The constructor of fractions: g times the fraction is what it is given, in lowest terms.
LEMMA RatioFacts ==
    ASSUME NEW n \in Int, NEW d \in Int \ {0}
    PROVE  /\ Ratio(n, d) \in Rational
           /\ InLowestTerms(Ratio(n, d))
           /\ \E g \in Nat \ {0} : /\ n = (IF d < 0 THEN -g ELSE g) * Ratio(n, d).num
                                   /\ d = (IF d < 0 THEN -g ELSE g) * Ratio(n, d).den
<1> DEFINE u == AbsInt(n)
           v == AbsInt(d)
           g == gcd[<<u, v>>]
           s == IF d < 0 THEN -1 ELSE 1
<1>1. u \in Nat /\ v \in Nat \ {0} /\ (n = u \/ n = -u) /\ v = s * d
  BY DEF AbsInt
<1>2. Ratio(n, d) = [num |-> s * (n \div g), den |-> v \div g]
  BY <1>1 DEF Ratio
<1>3. AbsInt(n) = u
  OBVIOUS
<1> HIDE DEF u, v
<1>4. g \in Nat \ {0}
  BY <1>1, GcdQuotients
<1>5. PICK a \in Nat, e \in Nat \ {0} : u = g * a /\ v = g * e /\ Coprime(a, e)
  BY <1>1, GcdQuotients
<1> HIDE DEF g
<1>6. PICK c \in Int : n = g * c /\ (c = a \/ c = -a)
  <2>1. g * (-a) = -(g * a)
    BY <1>4
  <2>2. QED
    BY <1>1, <1>5, <2>1
<1>7. n \div g = c /\ v \div g = e
  BY <1>4, <1>5, <1>6, ExactQuotient
<1>8. Ratio(n, d) = [num |-> s * c, den |-> e]
  BY <1>2, <1>7
<1>9. s * c \in Int /\ AbsInt(s * c) = a
  BY <1>6 DEF AbsInt
<1>10. InLowestTerms(Ratio(n, d))
  BY <1>5, <1>8, <1>9, CoprimeGcd DEF InLowestTerms
<1>11. (IF d < 0 THEN -g ELSE g) = s * g /\ s * s = 1 /\ s \in Int
  BY <1>4
<1>12. (s * g) * (s * c) = g * c /\ (s * g) * e = s * v /\ s * v = d
  <2>1. CASE s = 1
    BY <1>1, <1>4, <1>5, <1>6, <2>1
  <2>2. CASE s = -1
    BY <1>1, <1>4, <1>5, <1>6, <2>2
  <2>3. QED
    BY <2>1, <2>2
<1>13. Ratio(n, d) \in Rational
  BY <1>8, <1>9 DEF Rational
<1>14. /\ n = (IF d < 0 THEN -g ELSE g) * Ratio(n, d).num
       /\ d = (IF d < 0 THEN -g ELSE g) * Ratio(n, d).den
  <2>1. Ratio(n, d).num = s * c /\ Ratio(n, d).den = e
    BY <1>8
  <2> HIDE DEF s
  <2>2. QED
    BY <1>6, <1>11, <1>12, <2>1
<1>15. QED
  BY <1>4, <1>10, <1>13, <1>14

\* The sign of a product with a positive number.
LEMMA ProductSign ==
    ASSUME NEW g \in Nat \ {0}, NEW n \in Int
    PROVE  (g * n = 0 <=> n = 0) /\ (g * n > 0 <=> n > 0) /\ (g * n < 0 <=> n < 0)
<1>1. CASE n = 0
  BY <1>1
<1>2. CASE n > 0
  <2>1. g * n >= g
    BY <1>2
  <2>2. QED
    BY <1>2, <2>1
<1>3. CASE n < 0
  <2>1. g * (-n) >= g /\ g * (-n) = -(g * n)
    BY <1>3
  <2>2. QED
    BY <1>3, <2>1
<1>4. QED
  BY <1>1, <1>2, <1>3

\* The sign of a fraction with a positive denominator.
LEMMA RatioSign ==
    ASSUME NEW n \in Int, NEW d \in Nat \ {0}
    PROVE  /\ Ratio(n, d).num = 0 <=> n = 0
           /\ Ratio(n, d).num > 0 <=> n > 0
           /\ Ratio(n, d).num < 0 <=> n < 0
<1>1. /\ d \in Int \ {0}
      /\ ~(d < 0)
  OBVIOUS
<1>2. Ratio(n, d) \in Rational
  BY <1>1, RatioFacts
<1>3. PICK g \in Nat \ {0} : n = (IF d < 0 THEN -g ELSE g) * Ratio(n, d).num
  BY <1>1, RatioFacts
<1>4. n = g * Ratio(n, d).num
  BY <1>1, <1>3
<1>5. Ratio(n, d).num \in Int
  BY <1>2 DEF Rational
<1>6. QED
  BY <1>4, <1>5, ProductSign

\* A nonzero number has no sign but one, and products keep numbers from being zero.
LEMMA TimesFacts ==
    ASSUME NEW p \in Rational, NEW q \in Rational
    PROVE  /\ Times(p, q) \in Rational
           /\ InLowestTerms(Times(p, q))
           /\ p.num # 0 /\ q.num # 0 => Times(p, q).num # 0
           /\ p.num > 0 /\ q.num > 0 => Times(p, q).num > 0
           /\ \E g \in Nat \ {0} : /\ p.num * q.num = g * Times(p, q).num
                                   /\ p.den * q.den = g * Times(p, q).den
<1> DEFINE n == p.num * q.num
           d == p.den * q.den
<1>1. p.num \in Int /\ q.num \in Int /\ p.den \in Nat \ {0} /\ q.den \in Nat \ {0}
  BY DEF Rational
<1>2. n \in Int
  BY <1>1
<1>3. d \in Nat /\ d > 0
  BY <1>1, ProductSign
<1>4. p.num # 0 /\ q.num # 0 => n # 0
  BY <1>1
<1>5. p.num > 0 /\ q.num > 0 => n > 0
  BY <1>1
<1>6. Times(p, q) = Ratio(n, d)
  BY DEF Times
<1> HIDE DEF n, d
<1>7. d \in Nat \ {0} /\ d \in Int \ {0} /\ ~(d < 0)
  BY <1>3
<1>8. Ratio(n, d) \in Rational /\ InLowestTerms(Ratio(n, d))
  BY <1>2, <1>7, RatioFacts
<1>9. PICK g \in Nat \ {0} : /\ n = (IF d < 0 THEN -g ELSE g) * Ratio(n, d).num
                             /\ d = (IF d < 0 THEN -g ELSE g) * Ratio(n, d).den
  BY <1>2, <1>7, RatioFacts
<1>10. n = g * Ratio(n, d).num /\ d = g * Ratio(n, d).den
  BY <1>7, <1>9
<1>11. /\ Ratio(n, d).num = 0 <=> n = 0
       /\ Ratio(n, d).num > 0 <=> n > 0
  BY <1>2, <1>7, RatioSign
<1>12. QED
  BY <1>4, <1>5, <1>6, <1>8, <1>10, <1>11 DEF n, d

\* The reciprocal of a fraction in lowest terms only moves the sign.
LEMMA ReciprocalFacts ==
    ASSUME NEW q \in Rational, InLowestTerms(q), q.num # 0
    PROVE  /\ Reciprocal(q) = IF q.num > 0 THEN [num |-> q.den, den |-> q.num]
                                           ELSE [num |-> -q.den, den |-> -q.num]
           /\ Reciprocal(q) \in Rational
           /\ InLowestTerms(Reciprocal(q))
<1> DEFINE n == q.num
           d == q.den
           a == AbsInt(n)
<1>1. n \in Int /\ n # 0 /\ d \in Nat \ {0} /\ a \in Nat \ {0} /\ AbsInt(d) = d /\ AbsInt(-d) = d
  BY DEF Rational, AbsInt
<1>2. a = IF n > 0 THEN n ELSE -n
  BY <1>1 DEF AbsInt
<1>3. Coprime(a, d)
  BY <1>1, CoprimeGcd DEF InLowestTerms
<1>4. Coprime(d, a)
  BY <1>1, <1>3, CoprimeSymmetric
<1>5. gcd[<<d, a>>] = 1
  BY <1>1, <1>4, CoprimeGcd
<1>6. \A k \in Int : k \div 1 = k
  <2> TAKE k \in Int
  <2>1. (1 * k) \div 1 = k
    BY ExactQuotient
  <2>2. QED
    BY <2>1
<1>7. Reciprocal(q) = Ratio(d, n)
  BY DEF Reciprocal
<1>8. Ratio(d, n) = LET s == IF n < 0 THEN -1 ELSE 1
                    IN  [num |-> s * (d \div 1), den |-> (s * n) \div 1]
  BY <1>1, <1>5 DEF Ratio
<1> HIDE DEF n, d, a
<1>9. Ratio(d, n) = IF n > 0 THEN [num |-> d, den |-> n] ELSE [num |-> -d, den |-> -n]
  <2>1. CASE n > 0
    BY <1>1, <1>6, <1>8, <2>1
  <2>2. CASE n < 0
    <3>1. d \div 1 = d /\ (-1 * n) \div 1 = -n /\ -1 * d = -d
      BY <1>1, <1>6
    <3>2. QED
      BY <1>1, <1>8, <2>2, <3>1
  <2>3. QED
    BY <1>1, <2>1, <2>2
<1>10. Ratio(d, n) \in Rational
  BY <1>1, <1>9 DEF Rational
<1>11. AbsInt(Ratio(d, n).num) = d /\ Ratio(d, n).den = a
  BY <1>1, <1>2, <1>9
<1>12. InLowestTerms(Ratio(d, n))
  BY <1>5, <1>11 DEF InLowestTerms
<1>13. QED
  BY <1>7, <1>9, <1>10, <1>12 DEF n, d

LEMMA WholeFacts ==
    ASSUME NEW n \in Int
    PROVE  Whole(n) \in Rational /\ Whole(n).num = n /\ Whole(n).den = 1 /\ InLowestTerms(Whole(n))
<1>1. Whole(n) \in Rational /\ Whole(n).num = n /\ Whole(n).den = 1
  BY DEF Whole, Rational
<1>2. AbsInt(n) \in Nat
  BY DEF AbsInt
<1>3. ASSUME NEW d \in Nat, HasFactor(1, d) PROVE d = 1
  <2>1. PICK q \in Nat : 1 = d * q
    BY <1>3 DEF HasFactor
  <2>2. d # 0 /\ q # 0
    BY <2>1
  <2>3. d * q >= d
    BY <2>2
  <2>4. QED
    BY <2>1, <2>2, <2>3
<1>4. Coprime(AbsInt(n), 1)
  BY <1>3 DEF Coprime
<1>5. QED
  BY <1>1, <1>2, <1>4, CoprimeGcd DEF InLowestTerms

LEMMA NegativeFacts ==
    ASSUME NEW q \in Rational
    PROVE  /\ Negative(q) \in Rational
           /\ Negative(q).num = -q.num /\ Negative(q).den = q.den
           /\ InLowestTerms(q) => InLowestTerms(Negative(q))
<1>1. q.num \in Int /\ q.den \in Nat \ {0} /\ Negative(q) = [num |-> -q.num, den |-> q.den]
  BY DEF Rational, Negative
<1>2. AbsInt(-q.num) = AbsInt(q.num)
  BY <1>1 DEF AbsInt
<1>3. QED
  BY <1>1, <1>2 DEF Rational, InLowestTerms

\* Subtracting the integer part leaves a fraction below one, in lowest terms.
LEMMA MinusFloorFacts ==
    ASSUME NEW q \in Rational, InLowestTerms(q), q.num > 0
    PROVE  LET r == MinusInt(q, q.num \div q.den)
           IN  /\ q.num \div q.den \in Nat
               /\ r \in Rational
               /\ InLowestTerms(r)
               /\ r.num >= 0 /\ r.num < r.den
<1> DEFINE n == q.num
           d == q.den
           f == n \div d
<1>1. n \in Nat /\ d \in Nat \ {0} /\ q = [num |-> n, den |-> d] /\ AbsInt(n) = n
  BY DEF Rational, AbsInt
<1>2. f \in Nat /\ n % d \in 0 .. d - 1 /\ n = d * f + (n % d)
  BY <1>1, Division
<1>3. MinusInt(q, f) = [num |-> n - f * d, den |-> d]
  BY <1>1 DEF MinusInt
<1>4. Coprime(n, d)
  BY <1>1, CoprimeGcd DEF InLowestTerms
<1> HIDE DEF n, d, f
<1>5. n - f * d = n % d /\ AbsInt(n % d) = n % d
  BY <1>1, <1>2 DEF AbsInt
<1>6. Coprime(n % d, d)
  <2> SUFFICES ASSUME NEW c \in Nat, HasFactor(n % d, c), HasFactor(d, c) PROVE c = 1
    BY DEF Coprime
  <2>1. HasFactor(n, c)
    BY <1>1, FactorRemainder
  <2>2. QED
    BY <1>4, <2>1 DEF Coprime
<1>7. gcd[<<n % d, d>>] = 1
  BY <1>1, <1>2, <1>6, CoprimeGcd
<1>8. MinusInt(q, f) = [num |-> n % d, den |-> d]
  BY <1>3, <1>5
<1>9. MinusInt(q, f) \in Rational /\ InLowestTerms(MinusInt(q, f))
  BY <1>1, <1>2, <1>5, <1>7, <1>8 DEF Rational, InLowestTerms
<1>10. MinusInt(q, f).num >= 0 /\ MinusInt(q, f).num < MinusInt(q, f).den
  BY <1>1, <1>2, <1>8
<1>11. QED
  BY <1>2, <1>9, <1>10 DEF n, d, f

-----------------------------------------------------------------------------
(* Powers. *)

\* The recursive definition of powers defines a function.
LEMMA PowerDef ==
    /\ power \in [Int \X Nat -> Int]
    /\ \A n \in Int : power[<<n, 0>>] = 1
    /\ \A n \in Int, k \in Nat \ {0} : power[<<n, k>>] = n * power[<<n, k - 1>>]
<1> DEFINE Body(g) == [p \in Int \X Nat |-> IF p[2] = 0 THEN 1 ELSE p[1] * g[<<p[1], p[2] - 1>>]]
           D    == Int \X Nat
           mu   == [p \in D |-> p[2]]
           leaf == {p \in D : p[2] = 0}
           base == [p \in D |-> 1]
           prec == [p \in D |-> IF p[2] = 0 THEN p ELSE <<p[1], p[2] - 1>>]
           comb == [p \in D |-> [s \in Int |-> p[1] * s]]
<1>1. /\ mu \in [D -> Nat] /\ leaf \in SUBSET D
      /\ base \in [D -> Int]
  OBVIOUS
<1>2. comb \in [D -> [Int -> Int]]
  <2>1. \A p \in D, s \in Int : p[1] * s \in Int
    OBVIOUS
  <2>2. QED
    BY <2>1
<1>3. prec \in [D -> D]
  OBVIOUS
<1>4. \A p \in D \ leaf : mu[prec[p]] < mu[p]
  <2> SUFFICES ASSUME NEW p \in D, p[2] # 0 PROVE mu[prec[p]] < mu[p]
    OBVIOUS
  <2>1. prec[p] = <<p[1], p[2] - 1>> /\ prec[p] \in D
    OBVIOUS
  <2>2. QED
    BY <2>1
<1>5. PICK f \in [D -> Int] : \A p \in D : Equation(f, p, leaf, base, prec, comb)
  <2> HIDE DEF D, mu, leaf, base, prec, comb
  <2>1. QED
    BY <1>1, <1>2, <1>3, <1>4, RecursionExists
<1>6. \A p \in D : f[p] = IF p[2] = 0 THEN 1 ELSE p[1] * f[<<p[1], p[2] - 1>>]
  <2> TAKE p \in D
  <2>1. prec[p] \in D /\ f[prec[p]] \in Int
    BY <1>3
  <2>2. CASE p[2] = 0
    BY <1>5, <2>2 DEF Equation
  <2>3. CASE p[2] # 0
    <3>1. f[p] = comb[p][f[prec[p]]]
      BY <1>5, <2>3 DEF Equation
    <3>2. QED
      BY <2>1, <2>3, <3>1
  <2>4. QED
    BY <2>2, <2>3
<1>7. f = Body(f)
  <2>1. f = [p \in D |-> f[p]]
    OBVIOUS
  <2>2. QED
    BY <1>6, <2>1
<1>8. power = Body(power)
  <2>1. power = CHOOSE g : g = Body(g)
    BY DEF power
  <2> HIDE DEF Body
  <2>2. QED
    BY <1>7, <2>1
<1>9. \A p \in D : power[p] = IF p[2] = 0 THEN 1 ELSE p[1] * power[<<p[1], p[2] - 1>>]
  BY <1>8
<1>10. \A n \in Int : power[<<n, 0>>] = 1
  BY <1>9
<1>11. \A n \in Int, k \in Nat \ {0} : power[<<n, k>>] = n * power[<<n, k - 1>>]
  BY <1>9
<1>12. ASSUME NEW n \in Int PROVE \A k \in Nat : power[<<n, k>>] \in Int
  <2> DEFINE T == {k \in Nat : power[<<n, k>>] \in Int}
  <2>1. ASSUME NEW k \in Nat, \A m \in Nat : m < k => m \in T PROVE k \in T
    <3>1. CASE k = 0
      BY <1>10, <3>1
    <3>2. CASE k # 0
      <4>1. k - 1 \in T
        BY <2>1, <3>2
      <4>2. QED
        BY <1>11, <3>2, <4>1
    <3>3. QED
      BY <3>1, <3>2
  <2> HIDE DEF T
  <2>2. Nat \subseteq T
    BY <2>1, CompleteInduction
  <2>3. QED
    BY <2>2 DEF T
<1>13. power \in [D -> Int]
  <2>1. power = [p \in D |-> power[p]]
    BY <1>8
  <2>2. \A p \in D : p = <<p[1], p[2]>> /\ p[1] \in Int /\ p[2] \in Nat
    OBVIOUS
  <2>3. \A p \in D : power[p] \in Int
    BY <1>12, <2>2
  <2> HIDE DEF D
  <2>4. QED
    BY <2>1, <2>3
<1>14. QED
  BY <1>10, <1>11, <1>13

\* Powers of positive numbers, of one and of minus one, and the first power.
LEMMA PowerFacts ==
    /\ \A n \in Int : power[<<n, 1>>] = n
    /\ \A n \in Nat \ {0}, k \in Nat : power[<<n, k>>] \in Nat \ {0}
    /\ \A k \in Nat : power[<<1, k>>] = 1
    /\ \A k \in Nat : power[<<-1, k>>] \in {1, -1}
    /\ \A n \in Nat, d \in Nat, k \in Nat \ {0} :
         HasFactor(n, d) /\ power[<<n, k>>] \in Nat => HasFactor(power[<<n, k>>], d)
<1>1. ASSUME NEW n \in Int PROVE power[<<n, 1>>] = n
  <2>1. 1 \in Nat \ {0} /\ 1 - 1 = 0
    OBVIOUS
  <2>2. power[<<n, 1>>] = n * power[<<n, 1 - 1>>]
    BY <2>1, PowerDef
  <2>3. power[<<n, 1 - 1>>] = 1
    BY <2>1, PowerDef
  <2>4. QED
    BY <2>2, <2>3
<1>2. ASSUME NEW n \in Nat \ {0} PROVE \A k \in Nat : power[<<n, k>>] \in Nat \ {0}
  <2> DEFINE T == {k \in Nat : power[<<n, k>>] \in Nat \ {0}}
  <2>1. ASSUME NEW k \in Nat, \A m \in Nat : m < k => m \in T PROVE k \in T
    <3>1. CASE k = 0
      BY <3>1, PowerDef
    <3>2. CASE k # 0
      <4>1. k - 1 \in T
        BY <2>1, <3>2
      <4>2. power[<<n, k>>] = n * power[<<n, k - 1>>]
        BY <3>2, PowerDef
      <4>3. \A m \in Nat \ {0} : n * m \in Nat \ {0}
        BY ProductSign
      <4>4. QED
        BY <4>1, <4>2, <4>3
    <3>3. QED
      BY <3>1, <3>2
  <2> HIDE DEF T
  <2>2. Nat \subseteq T
    BY <2>1, CompleteInduction
  <2>3. QED
    BY <2>2 DEF T
<1>3. \A k \in Nat : power[<<1, k>>] = 1 /\ power[<<-1, k>>] \in {1, -1}
  <2> DEFINE T == {k \in Nat : power[<<1, k>>] = 1 /\ power[<<-1, k>>] \in {1, -1}}
  <2>1. ASSUME NEW k \in Nat, \A m \in Nat : m < k => m \in T PROVE k \in T
    <3>1. CASE k = 0
      BY <3>1, PowerDef
    <3>2. CASE k # 0
      <4>1. k - 1 \in T
        BY <2>1, <3>2
      <4>2. 1 \in Int /\ -1 \in Int /\ k \in Nat \ {0}
        BY <3>2
      <4>3. power[<<1, k>>] = 1 * power[<<1, k - 1>>]
        BY <4>2, PowerDef
      <4>4. power[<<-1, k>>] = (-1) * power[<<-1, k - 1>>]
        BY <4>2, PowerDef
      <4>5. QED
        BY <4>1, <4>3, <4>4
    <3>3. QED
      BY <3>1, <3>2
  <2> HIDE DEF T
  <2>2. Nat \subseteq T
    BY <2>1, CompleteInduction
  <2>3. QED
    BY <2>2, Zenon DEF T
<1>4. ASSUME NEW n \in Nat, NEW d \in Nat, NEW k \in Nat \ {0}, HasFactor(n, d), power[<<n, k>>] \in Nat
      PROVE  HasFactor(power[<<n, k>>], d)
  <2>1. power[<<n, k>>] = n * power[<<n, k - 1>>]
    BY PowerDef
  <2>2. CASE n = 0
    <3>1. power[<<n, k - 1>>] \in Int
      BY PowerDef
    <3>2. power[<<n, k>>] = d * 0
      BY <2>1, <2>2, <3>1
    <3>3. QED
      BY <3>2 DEF HasFactor
  <2>3. CASE n # 0
    <3>1. n \in Nat \ {0} /\ k - 1 \in Nat
      BY <2>3
    <3>2. power[<<n, k - 1>>] \in Nat
      BY <1>2, <3>1
    <3>3. QED
      BY <1>4, <2>1, <3>2, FactorProduct
  <2>4. QED
    BY <2>2, <2>3
<1>5. QED
  BY <1>1, <1>2, <1>3, <1>4

\* An integer power of a positive fraction, with a natural number for the exponent.
LEMMA IntegerPowerFacts ==
    ASSUME NEW q \in Rational, q.num > 0, NEW k \in Nat
    PROVE  ToThe(q, Whole(k)) \in Rational /\ ToThe(q, Whole(k)).num > 0
<1>1. q.num \in Nat \ {0} /\ q.den \in Nat \ {0}
  BY DEF Rational
<1>2. AbsInt(k) = k /\ ~(k < 0)
  BY DEF AbsInt
<1>3. ToThe(q, Whole(k)) = [num |-> power[<<q.num, k>>], den |-> power[<<q.den, k>>]]
  BY <1>2 DEF ToThe, Whole, IsInt
<1>4. power[<<q.num, k>>] \in Nat \ {0} /\ power[<<q.den, k>>] \in Nat \ {0}
  BY <1>1, PowerFacts
<1>5. QED
  BY <1>3, <1>4 DEF Rational

\* The sign that comes out of a power of a negative number.
LEMMA SignPowerFacts ==
    ASSUME NEW e \in Rational, IsInt(e), e.num > 0
    PROVE  ToThe(Whole(-1), e) \in {One, Whole(-1)}
<1>1. e.num \in Nat /\ AbsInt(e.num) = e.num /\ ~(e.num < 0)
  BY DEF Rational, AbsInt
<1>2. ToThe(Whole(-1), e) = [num |-> power[<<-1, e.num>>], den |-> power[<<1, e.num>>]]
  BY <1>1 DEF ToThe, Whole
<1>3. power[<<1, e.num>>] = 1 /\ power[<<-1, e.num>>] \in {1, -1}
  BY <1>1, PowerFacts
<1>4. QED
  BY <1>2, <1>3 DEF One, Whole

\* A root, if it is taken, is a positive fraction in lowest terms, and one is its own root.
LEMMA RootFacts ==
    ASSUME NEW q \in Rational, InLowestTerms(q), q.num > 0, NEW k \in Nat \ {0}
    PROVE  LET r == ToThe(q, Ratio(1, k))
           IN  /\ NotRational \notin Rational
               /\ r # NotRational => r \in Rational /\ InLowestTerms(r) /\ r.num > 0
               /\ k = 1 => r = q
<1> DEFINE r == ToThe(q, Ratio(1, k))
<1>1. q.num \in Nat \ {0} /\ q.den \in Nat \ {0} /\ AbsInt(q.num) = q.num
  BY DEF Rational, AbsInt
<1>2. Coprime(q.num, q.den)
  BY <1>1, CoprimeGcd DEF InLowestTerms
<1>3. Ratio(1, k) = [num |-> 1, den |-> k]
  <2>1. k \in Int \ {0} /\ ~(k < 0) /\ 1 \in Int
    OBVIOUS
  <2>2. Ratio(1, k) \in Rational
    BY <2>1, RatioFacts
  <2>3. PICK g \in Nat \ {0} : /\ 1 = (IF k < 0 THEN -g ELSE g) * Ratio(1, k).num
                               /\ k = (IF k < 0 THEN -g ELSE g) * Ratio(1, k).den
    BY <2>1, RatioFacts
  <2>4. PICK n \in Int, d \in Nat \ {0} : Ratio(1, k) = [num |-> n, den |-> d]
    BY <2>2 DEF Rational
  <2>5. 1 = g * n /\ k = g * d
    BY <2>1, <2>3, <2>4
  <2>6. n > 0
    BY <2>5, ProductSign
  <2>7. g * n >= g /\ g * n >= n
    BY <2>6
  <2>8. g = 1 /\ n = 1
    BY <2>5, <2>6, <2>7
  <2>9. QED
    BY <2>4, <2>5, <2>8
<1>4. power[<<q.num, 1>>] = q.num /\ power[<<q.den, 1>>] = q.den
  BY <1>1, PowerFacts
<1>5. r = IF k = 1 THEN [num |-> q.num, den |-> q.den]
          ELSE IF Roots(q.num, k) = {} \/ Roots(q.den, k) = {} THEN NotRational
          ELSE [num |-> CHOOSE u \in Roots(q.num, k) : TRUE,
                den |-> CHOOSE u \in Roots(q.den, k) : TRUE]
  <2> DEFINE e == [num |-> 1, den |-> k]
  <2>1. AbsInt(e.num) = 1 /\ ~(e.num < 0) /\ e.den = k
    BY DEF AbsInt
  <2>2. r = ToThe(q, e)
    BY <1>3
  <2> HIDE DEF e
  <2>3. QED
    BY <1>4, <2>1, <2>2 DEF ToThe, IsInt
<1>6. NotRational \notin Rational
  BY DEF NotRational, Rational
<1>7. CASE k = 1
  <2>1. r = q
    BY <1>5, <1>7 DEF Rational
  <2>2. QED
    BY <1>6, <1>7, <2>1
<1>8. CASE k # 1
  <2> SUFFICES ASSUME r # NotRational PROVE r \in Rational /\ InLowestTerms(r) /\ r.num > 0
    BY <1>6, <1>8
  <2>1. Roots(q.num, k) # {} /\ Roots(q.den, k) # {}
    BY <1>5, <1>8
  <2>2. PICK u \in Roots(q.num, k), v \in Roots(q.den, k) : r = [num |-> u, den |-> v]
    BY <1>5, <1>8, <2>1
  <2>3. ASSUME NEW n \in Nat \ {0}, NEW w \in Roots(n, k)
        PROVE  /\ w \in Nat \ {0}
               /\ \A d \in Nat : HasFactor(w, d) => HasFactor(n, d)
    <3>1. CASE n = 1
      BY <1>8, <3>1 DEF Roots
    <3>2. CASE n # 1
      <4>1. w \in 2 .. n /\ power[<<w, k>>] = n
        BY <1>8, <3>2 DEF Roots
      <4>2. \A d \in Nat : HasFactor(w, d) => HasFactor(power[<<w, k>>], d)
        BY <4>1, PowerFacts
      <4>3. QED
        BY <4>1, <4>2
    <3>3. QED
      BY <3>1, <3>2
  <2>4. u \in Nat \ {0} /\ v \in Nat \ {0} /\ AbsInt(u) = u
    BY <1>1, <2>3 DEF AbsInt
  <2>5. Coprime(u, v)
    BY <1>1, <1>2, <2>3 DEF Coprime
  <2>6. gcd[<<u, v>>] = 1
    BY <2>4, <2>5, CoprimeGcd
  <2>7. QED
    BY <2>2, <2>4, <2>6 DEF Rational, InLowestTerms
<1>9. QED
  BY <1>7, <1>8

-----------------------------------------------------------------------------
(* Primes. *)

Prime == {p \in Nat : IsPrime(p)}

LEMMA PrimeFacts ==
    ASSUME NEW p \in Prime
    PROVE  /\ p \in Nat /\ p > 1
           /\ \A d \in Nat : HasFactor(p, d) => d = 1 \/ d = p
<1>1. p \in Nat /\ p > 1 /\ \A d \in 2 .. p - 1 : p % d # 0
  BY DEF Prime, IsPrime
<1>2. ASSUME NEW d \in Nat, HasFactor(p, d) PROVE d = 1 \/ d = p
  <2>1. PICK q \in Nat : p = d * q
    BY <1>2 DEF HasFactor
  <2>2. d # 0 /\ q # 0
    BY <1>1, <2>1
  <2>3. d * q >= d
    BY <2>2
  <2>4. d <= p
    BY <2>1, <2>3
  <2>5. p % d = 0
    BY <1>1, <1>2, <2>2, RemainderZero
  <2>6. QED
    BY <1>1, <2>2, <2>4, <2>5
<1>3. QED
  BY <1>1, <1>2

\* Euclid's lemma: a prime factor of a product is a factor of one of the numbers.
LEMMA PrimeFactorOfProduct ==
    ASSUME NEW p \in Prime, NEW m \in Nat, NEW n \in Nat, HasFactor(m * n, p)
    PROVE  HasFactor(m, p) \/ HasFactor(n, p)
<1> DEFINE T == {k \in Nat \ {0} : HasFactor(k * n, p)}
<1>1. p \in Nat \ {0} /\ p > 1
  BY PrimeFacts
<1>2. CASE m = 0
  <2>1. m = p * 0
    BY <1>1, <1>2
  <2>2. QED
    BY <2>1 DEF HasFactor
<1>3. CASE m # 0
  <2>1. m \in T
    BY <1>3
  <2>2. p \in T
    BY <1>1 DEF HasFactor
  <2>3. PICK c \in T : \A k \in T : c <= k
    <3>1. T \in SUBSET Nat /\ T # {}
      BY <2>1
    <3> HIDE DEF T
    <3>2. QED
      BY <3>1, LeastNumber
  <2>4. c \in Nat \ {0} /\ HasFactor(c * n, p)
    OBVIOUS
  <2>5. ASSUME NEW k \in T PROVE HasFactor(k, c)
    <3> DEFINE q == k \div c
               r == k % c
    <3>1. k \in Nat \ {0} /\ HasFactor(k * n, p)
      OBVIOUS
    <3>2. q \in Nat /\ r \in 0 .. c - 1 /\ k = c * q + r
      BY <2>4, <3>1, Division, Zenon
    <3> HIDE DEF q, r
    <3>3. r \in Nat /\ r < c
      BY <2>4, <3>2
    <3>4. k * n = (c * n) * q + r * n
      BY <2>4, <3>2, <3>3
    <3>5. (c * n) * q \in Nat /\ c * n \in Nat /\ r * n \in Nat
      BY <2>4, <3>2, <3>3
    <3>6. HasFactor((c * n) * q, p)
      BY <1>1, <2>4, <3>2, <3>5, FactorProduct
    <3>7. HasFactor(r * n, p)
      BY <1>1, <3>1, <3>4, <3>5, <3>6, FactorSum
    <3>8. r = 0
      BY <2>3, <3>3, <3>7
    <3>9. k = c * q
      BY <2>4, <3>2, <3>8
    <3>10. QED
      BY <3>2, <3>9 DEF HasFactor
  <2>6. HasFactor(p, c) /\ HasFactor(m, c)
    BY <2>1, <2>2, <2>5
  <2>7. c = 1 \/ c = p
    BY <2>4, <2>6, PrimeFacts
  <2>8. CASE c = 1
    BY <2>4, <2>8
  <2>9. CASE c = p
    BY <2>6, <2>9
  <2>10. QED
    BY <2>7, <2>8, <2>9
<1>4. QED
  BY <1>2, <1>3

\* The sequence t with p in front of it.
LEMMA InFront ==
    ASSUME NEW S, NEW p \in S, NEW t \in Seq(S)
    PROVE  /\ <<p>> \o t \in Seq(S)
           /\ Len(<<p>> \o t) = Len(t) + 1
           /\ (<<p>> \o t)[1] = p
           /\ \A k \in 2 .. Len(t) + 1 : (<<p>> \o t)[k] = t[k - 1] /\ k - 1 \in DOMAIN t
<1>1. <<p>> \in Seq(S) /\ Len(<<p>>) = 1 /\ <<p>>[1] = p
  OBVIOUS
<1>2. Len(t) \in Nat /\ DOMAIN t = 1 .. Len(t)
  OBVIOUS
<1>3. QED
  BY <1>1, <1>2, ConcatProperties

\* The prime factors are factors, prime and in ascending order.
LEMMA PrimeFactorsFacts ==
    \A n \in Positive : /\ primeFactors[n] \in Seq(Prime)
                        /\ Ascending(primeFactors[n])
                        /\ \A k \in DOMAIN primeFactors[n] : HasFactor(n, primeFactors[n][k])
<1> DEFINE P(n) == /\ primeFactors[n] \in Seq(Prime)
                   /\ Ascending(primeFactors[n])
                   /\ \A k \in DOMAIN primeFactors[n] : HasFactor(n, primeFactors[n][k])
           T    == {n \in Nat : n # 0 => P(n)}
<1>1. ASSUME NEW n \in Nat, \A m \in Nat : m < n => m \in T PROVE n \in T
  <2> SUFFICES ASSUME n # 0 PROVE P(n)
    OBVIOUS
  <2>1. CASE n = 1
    <3>1. primeFactors[n] = <<>>
      BY <2>1, PrimeFactorsDef
    <3>2. QED
      BY <3>1 DEF Ascending
  <2>2. CASE n # 1
    <3> DEFINE p == LeastFactor(n)
               q == n \div p
               t == primeFactors[q]
               s == <<p>> \o t
    <3>1. n > 1 /\ n \in Positive
      BY <2>2 DEF Positive
    <3>2. p \in 2 .. n /\ n % p = 0 /\ \A c \in 2 .. p - 1 : n % c # 0
      BY <3>1, LeastFactorExists DEF IsLeastFactor
    <3>3. q \in Nat \ {0} /\ q < n
      BY <3>1, LeastFactorQuotient DEF Positive
    <3>4. primeFactors[n] = s
      BY <3>1, PrimeFactorsDef
    <3>5. P(q)
      BY <1>1, <3>3
    <3>6. n = p * q
      <4> HIDE DEF p
      <4>1. p \in Nat \ {0} /\ n \in Nat \ {0}
        BY <3>1, <3>2 DEF Positive
      <4>2. QED
        BY <3>2, <4>1, Quotient
    <3> HIDE DEF p, q
    <3>7. HasFactor(n, p) /\ HasFactor(n, q)
      <4>1. n = q * p
        BY <3>2, <3>3, <3>6
      <4>2. QED
        BY <3>2, <3>3, <3>6, <4>1 DEF HasFactor
    <3>8. \A d \in Nat : d > 1 /\ HasFactor(n, d) => d >= p
      <4> SUFFICES ASSUME NEW d \in Nat, d > 1, HasFactor(n, d), d < p PROVE FALSE
        BY <3>2
      <4>1. d \in 2 .. p - 1 /\ d \in Nat \ {0}
        BY <3>2
      <4>2. n % d = 0
        BY <4>1, RemainderZero
      <4>3. QED
        BY <3>2, <4>1, <4>2
    <3>9. p \in Prime
      <4>1. ASSUME NEW d \in 2 .. p - 1 PROVE ~HasFactor(p, d)
        <5>1. d \in Nat /\ d > 1 /\ d < p /\ p \in Nat
          BY <3>2
        <5>2. HasFactor(p, d) => HasFactor(n, d)
          BY <3>7, <5>1, FactorTransitive
        <5>3. QED
          BY <3>8, <5>1, <5>2
      <4>2. p \in Nat /\ p > 1
        BY <3>2
      <4>3. IsPrime(p)
        BY <4>1, <4>2, NoFactorPrime
      <4>4. QED
        BY <4>2, <4>3 DEF Prime
    <3>10. /\ s \in Seq(Prime) /\ Len(s) = Len(t) + 1 /\ s[1] = p
           /\ \A k \in 2 .. Len(t) + 1 : s[k] = t[k - 1] /\ k - 1 \in DOMAIN t
      BY <3>5, <3>9, InFront
    <3>11. /\ t \in Seq(Prime) /\ Ascending(t)
           /\ \A k \in DOMAIN t : HasFactor(q, t[k]) /\ t[k] \in Nat /\ t[k] > 1
      BY <3>5, PrimeFacts
    <3>12. \A k \in DOMAIN t : HasFactor(n, t[k]) /\ t[k] >= p
      <4> TAKE k \in DOMAIN t
      <4>1. HasFactor(q, t[k]) /\ t[k] \in Nat /\ t[k] > 1
        BY <3>11
      <4>2. HasFactor(n, t[k])
        BY <3>3, <3>7, <4>1, FactorTransitive
      <4>3. QED
        BY <3>8, <4>1, <4>2
    <3> HIDE DEF s, t
    <3>13. DOMAIN s = 1 .. Len(t) + 1 /\ Len(t) \in Nat
      BY <3>10, <3>11
    <3>14. \A k \in DOMAIN s : HasFactor(n, s[k])
      BY <3>7, <3>10, <3>12, <3>13
    <3>15. Ascending(s)
      <4> SUFFICES ASSUME NEW i \in DOMAIN s, NEW j \in DOMAIN s, i < j PROVE s[i] <= s[j]
        BY DEF Ascending
      <4>1. j \in 2 .. Len(t) + 1 /\ s[j] = t[j - 1] /\ j - 1 \in DOMAIN t
        BY <3>10, <3>13
      <4>2. CASE i = 1
        BY <3>10, <3>12, <4>1, <4>2
      <4>3. CASE i # 1
        <5>1. s[i] = t[i - 1] /\ i - 1 \in DOMAIN t
          BY <3>10, <3>13, <4>3
        <5>2. i - 1 < j - 1
          BY <3>13
        <5>3. QED
          BY <3>11, <4>1, <5>1, <5>2 DEF Ascending
      <4>4. QED
        BY <4>2, <4>3
    <3>16. QED
      BY <3>4, <3>10, <3>14, <3>15
  <2>3. QED
    BY <2>1, <2>2
<1> HIDE DEF T
<1>2. Nat \subseteq T
  BY <1>1, CompleteInduction
<1>3. QED
  BY <1>2 DEF T, Positive

=============================================================================
