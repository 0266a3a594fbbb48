----------------------- MODULE SimplePrimePolicyProofs -----------------------
(***************************************************************************)
(* Proofs about SimplePrimePolicy, for any set of positive numbers.        *)
(*                                                                         *)
(* The argument: what is left has no factor below the candidate, because   *)
(* all smaller odd candidates failed and all factors of two are out.  So a *)
(* candidate that divides it is prime.  At the end, the candidate's square *)
(* exceeds the limit, hence what is left, and two factors that are both    *)
(* not below the candidate have a product that is too large.               *)
(***************************************************************************)
EXTENDS SimplePrimePolicy, NumbersProofs, TLAPS

\* The state while the loop over the odd candidates runs.
Tried ==
    /\ pc = "two" => i = 3
    /\ pc = "odd" =>
        /\ n <= limit
        /\ \A d \in 2 .. i - 1 : ~HasFactor(n, d)

Odd == \E m \in Nat : i = 2 * m + 1

IndInv ==
    /\ TypeOK
    /\ Odd
    /\ Tried
    /\ OnlyPrimesStored

-----------------------------------------------------------------------------

\* Storing a prime keeps the vector one of primes.
LEMMA StorePrime ==
    ASSUME primes \in Seq(Nat \ {0}), OnlyPrimesStored,
           NEW p \in Nat \ {0}, IsPrime(p), primes' = Append(primes, p)
    PROVE  primes' \in Seq(Nat \ {0}) /\ OnlyPrimesStored'
<1>1. /\ primes' \in Seq(Nat \ {0})
      /\ \A k \in DOMAIN primes' :
            \/ primes'[k] = p
            \/ k \in DOMAIN primes /\ primes'[k] = primes[k]
  OBVIOUS
<1>2. QED
  BY <1>1 DEF OnlyPrimesStored

-----------------------------------------------------------------------------

\* At the call nothing has been tried and nothing been stored.
LEMMA InitInv == Init => IndInv
<1>1. SUFFICES ASSUME Init PROVE IndInv
  OBVIOUS
<1>2. TypeOK
  BY <1>1, InputsAssumption DEF Init, TypeOK
<1>3. Odd
  BY <1>1, 3 = 2 * 1 + 1 DEF Init, Odd
<1>4. Tried
  BY <1>1 DEF Init, Tried
<1>5. OnlyPrimesStored
  BY <1>1 DEF Init, OnlyPrimesStored
<1>6. QED
  BY <1>2, <1>3, <1>4, <1>5 DEF IndInv

\* Two is prime, and the loop over the odd candidates has not begun.
LEMMA DivideByTwoStep == ASSUME IndInv, DivideByTwo PROVE IndInv'
<1>1. IsPrime(2)
  BY DEF IsPrime
<1>2. primes' \in Seq(Nat \ {0}) /\ OnlyPrimesStored'
  BY <1>1, StorePrime DEF IndInv, TypeOK, DivideByTwo
<1>3. n' \in Nat \ {0}
  BY Quotient DEF IndInv, TypeOK, DivideByTwo
<1>4. QED
  BY <1>2, <1>3 DEF IndInv, TypeOK, Odd, Tried, DivideByTwo

\* All factors of two are out, and two is the only number below the first candidate.
LEMMA ComputeLimitStep == ASSUME IndInv, ComputeLimit PROVE IndInv'
<1>1. TypeOK' /\ Odd' /\ OnlyPrimesStored'
  BY DEF IndInv, TypeOK, Odd, OnlyPrimesStored, ComputeLimit
<1>2. ~HasFactor(n, 2)
  BY RemainderZero DEF IndInv, TypeOK, ComputeLimit
<1>3. i = 3 /\ i' = 3 /\ n' = n /\ limit' = n /\ n \in Nat
  BY DEF IndInv, TypeOK, Tried, ComputeLimit
<1>4. \A d \in 2 .. i' - 1 : d = 2
  BY <1>3
<1>5. Tried'
  BY <1>2, <1>3, <1>4 DEF Tried, ComputeLimit, HasFactor
<1>6. QED
  BY <1>1, <1>5 DEF IndInv

\* A candidate that divides what is left has no smaller factor: it would have been
\* divided out.  The quotient has no factors that were not there before.
LEMMA DivideByCandidateStep == ASSUME IndInv, DivideByCandidate PROVE IndInv'
<1>1. /\ n \in Nat \ {0} /\ i \in Nat \ {0} /\ i > 2 /\ limit \in Nat
      /\ n % i = 0 /\ n' = n \div i /\ n <= limit
      /\ \A d \in 2 .. i - 1 : ~HasFactor(n, d)
      /\ UNCHANGED <<input, i, limit, pc>>
      /\ primes' = Append(primes, i)
  BY DEF IndInv, TypeOK, Tried, DivideByCandidate
<1>2. n' \in Nat \ {0} /\ n' <= n /\ n = i * n'
  BY <1>1, Quotient
<1>3. HasFactor(n, i) /\ HasFactor(n, n')
  BY <1>1, <1>2 DEF HasFactor
<1>4. IsPrime(i)
  <2>1. ASSUME NEW d \in 2 .. i - 1 PROVE ~HasFactor(i, d)
    BY <1>1, <1>3, FactorTransitive
  <2>2. QED
    BY <1>1, <2>1, NoFactorPrime
<1>5. ASSUME NEW d \in 2 .. i - 1 PROVE ~HasFactor(n', d)
  BY <1>1, <1>2, <1>3, FactorTransitive
<1>6. primes' \in Seq(Nat \ {0}) /\ OnlyPrimesStored'
  BY <1>1, <1>4, StorePrime DEF IndInv, TypeOK
<1>7. TypeOK' /\ Odd'
  BY <1>1, <1>2, <1>6 DEF IndInv, TypeOK, Odd
<1>8. Tried'
  BY <1>1, <1>2, <1>5 DEF IndInv, Tried, DivideByCandidate
<1>9. QED
  BY <1>6, <1>7, <1>8 DEF IndInv

\* The even number between two candidates needs no trial, for two was out before.
LEMMA NextCandidateStep == ASSUME IndInv, NextCandidate PROVE IndInv'
<1>1. /\ n \in Nat \ {0} /\ i \in Nat \ {0} /\ i > 2
      /\ n % i # 0
      /\ \A d \in 2 .. i - 1 : ~HasFactor(n, d)
      /\ n <= limit /\ pc = "odd"
      /\ i' = i + 2
      /\ UNCHANGED <<input, n, limit, primes, pc>>
  BY DEF IndInv, TypeOK, Tried, NextCandidate
<1>2. PICK m \in Nat : i = 2 * m + 1
  BY DEF IndInv, Odd
<1>3. ~HasFactor(n, i)
  BY <1>1, RemainderZero
<1>4. ~HasFactor(n, i + 1)
  <2>1. HasFactor(i + 1, 2)
    BY <1>2 DEF HasFactor
  <2>2. ~HasFactor(n, 2)
    BY <1>1
  <2>3. QED
    BY <1>1, <2>1, <2>2, FactorTransitive
<1>5. ASSUME NEW d \in 2 .. i' - 1 PROVE ~HasFactor(n, d)
  <2>1. d \in 2 .. i - 1 \/ d = i \/ d = i + 1
    BY <1>1
  <2>2. QED
    BY <1>1, <1>3, <1>4, <2>1
<1>6. Odd'
  <2>1. m + 1 \in Nat /\ i' = 2 * (m + 1) + 1
    BY <1>1, <1>2
  <2>2. QED
    BY <2>1 DEF Odd
<1>7. TypeOK' /\ OnlyPrimesStored'
  BY <1>1 DEF IndInv, TypeOK, OnlyPrimesStored
<1>8. Tried'
  BY <1>1, <1>5 DEF Tried
<1>9. QED
  BY <1>6, <1>7, <1>8 DEF IndInv

\* The candidate's square exceeds what is left.
LEMMA SquareBeyond ==
    ASSUME IndInv, pc = "odd", ~BelowLimit
    PROVE  n < i * i
<1>1. n \in Nat /\ i \in Nat /\ i > 2 /\ limit \in Nat /\ n <= limit
  BY DEF IndInv, TypeOK, Tried
<1>2. (2 * i - 1) * (2 * i - 1) >= 4 * limit
  BY <1>1 DEF BelowLimit
<1>3. (2 * i - 1) * (2 * i - 1) = 4 * (i * i) - 4 * i + 1
  BY <1>1
<1>4. i * i \in Nat
  BY <1>1
<1>5. QED
  BY <1>1, <1>2, <1>3, <1>4

\* Two factors of what is left are not below the candidate: too much for the limit.
LEMMA RemainderWithoutFactors ==
    ASSUME IndInv, pc = "odd", ~BelowLimit
    PROVE  \A d \in 2 .. n - 1 : ~HasFactor(n, d)
<1>1. /\ n \in Nat \ {0} /\ i \in Nat \ {0} /\ i > 2
      /\ \A d \in 2 .. i - 1 : ~HasFactor(n, d)
  BY DEF IndInv, TypeOK, Tried
<1>2. n < i * i
  BY SquareBeyond
<1>3. ASSUME NEW d \in 2 .. n - 1 PROVE ~HasFactor(n, d)
  <2>1. SUFFICES ASSUME NEW q \in Nat, n = d * q PROVE FALSE
    BY DEF HasFactor
  <2>2. d \in Nat /\ d >= 2 /\ d < n
    BY <1>1
  <2>3. q >= 2
    <3>1. q # 0 /\ q # 1
      BY <1>1, <2>1, <2>2
    <3>2. QED
      BY <3>1
  <2>4. HasFactor(n, d) /\ HasFactor(n, q)
    <3>1. n = q * d
      BY <2>1, <2>2
    <3>2. QED
      BY <2>1, <2>2, <3>1 DEF HasFactor
  <2>5. d >= i /\ q >= i
    BY <1>1, <2>2, <2>3, <2>4
  <2>6. d * q >= i * i
    <3>1. d * q >= i * q /\ i * q >= i * i
      BY <1>1, <2>2, <2>5
    <3>2. d * q \in Nat /\ i * q \in Nat /\ i * i \in Nat
      BY <1>1, <2>2
    <3>3. QED
      BY <3>1, <3>2
  <2>7. QED
    BY <1>1, <1>2, <2>1, <2>6
<1>4. QED
  BY <1>3

\* What is stored last is prime.
LEMMA StoreRemainderStep == ASSUME IndInv, StoreRemainder PROVE IndInv'
<1>1. /\ n \in Nat \ {0} /\ i \in Nat \ {0} /\ i > 2
      /\ UNCHANGED <<input, n, i, limit>>
      /\ pc' = "done"
      /\ primes' = IF n > 2 THEN Append(primes, n) ELSE primes
  BY DEF IndInv, TypeOK, Tried, StoreRemainder
<1>2. \A d \in 2 .. n - 1 : ~HasFactor(n, d)
  BY RemainderWithoutFactors DEF StoreRemainder
<1>3. CASE n > 2
  <2>1. IsPrime(n)
    BY <1>1, <1>2, <1>3, NoFactorPrime
  <2>2. primes' \in Seq(Nat \ {0}) /\ OnlyPrimesStored'
    BY <1>1, <1>3, <2>1, StorePrime DEF IndInv, TypeOK
  <2>3. QED
    BY <1>1, <2>2 DEF IndInv, TypeOK, Odd, Tried
<1>4. CASE ~(n > 2)
  BY <1>1, <1>4 DEF IndInv, TypeOK, Odd, Tried, OnlyPrimesStored
<1>5. QED
  BY <1>3, <1>4

\* Nothing changes.
LEMMA StutterStep == ASSUME IndInv, UNCHANGED vars PROVE IndInv'
BY DEF IndInv, TypeOK, Odd, Tried, OnlyPrimesStored, vars

\* The strengthening is an invariant of every behaviour.
LEMMA Invariance == Spec => []IndInv
<1>1. ASSUME IndInv, [Next]_vars PROVE IndInv'
  BY <1>1, DivideByTwoStep, ComputeLimitStep, DivideByCandidateStep,
     NextCandidateStep, StoreRemainderStep, StutterStep DEF Next
<1>2. QED
  BY InitInv, <1>1, PTL DEF Spec

\* Type correctness: what is left of the number never becomes zero, and the vector
\* holds positive numbers.
THEOREM TypeCorrect == Spec => []TypeOK
<1>1. IndInv => TypeOK
  BY DEF IndInv
<1>2. QED
  BY Invariance, <1>1, PTL

\* Whatever positive numbers are factorized: only primes are ever stored, although
\* composite candidates are tried, and the remainder is stored without a test.
THEOREM StoresOnlyPrimes == Spec => []OnlyPrimesStored
<1>1. IndInv => OnlyPrimesStored
  BY DEF IndInv
<1>2. QED
  BY Invariance, <1>1, PTL

-----------------------------------------------------------------------------

\* Nothing that was stored is larger than what the current loop stores.
Bounded ==
    /\ pc = "two" => \A k \in DOMAIN primes : primes[k] <= 2
    /\ pc = "odd" => \A k \in DOMAIN primes : primes[k] <= i

\* A number that is not below the stored ones keeps the vector in order.
LEMMA AppendAscending ==
    ASSUME NEW s \in Seq(Nat), NEW t, NEW p \in Nat,
           Ascending(s), \A k \in DOMAIN s : s[k] <= p, t = Append(s, p)
    PROVE  Ascending(t) /\ \A k \in DOMAIN t : t[k] <= p
<1>1. /\ Len(t) = Len(s) + 1 /\ Len(s) \in Nat
      /\ DOMAIN t = 1 .. Len(t) /\ DOMAIN s = 1 .. Len(s)
      /\ t[Len(t)] = p
      /\ \A k \in DOMAIN s : t[k] = s[k] /\ s[k] \in Nat
  OBVIOUS
<1>2. ASSUME NEW k \in DOMAIN t PROVE t[k] <= p
  <2>1. k \in DOMAIN s \/ k = Len(t)
    BY <1>1
  <2>2. QED
    BY <1>1, <2>1
<1>3. ASSUME NEW k \in DOMAIN t, NEW l \in DOMAIN t, k < l PROVE t[k] <= t[l]
  <2>1. CASE l = Len(t)
    BY <1>1, <1>2, <2>1
  <2>2. CASE l # Len(t)
    <3>1. k \in DOMAIN s /\ l \in DOMAIN s
      BY <1>1, <1>3, <2>2
    <3>2. s[k] <= s[l]
      BY <1>3, <3>1 DEF Ascending
    <3>3. QED
      BY <1>1, <3>1, <3>2
  <2>3. QED
    BY <2>1, <2>2
<1>4. QED
  BY <1>2, <1>3 DEF Ascending

\* What is stored next is not below anything stored before.
LEMMA OrderStep ==
    ASSUME IndInv, StoredAscending, Bounded, [Next]_vars
    PROVE  StoredAscending' /\ Bounded'
<1>1. /\ primes \in Seq(Nat) /\ i \in Nat /\ i > 2 /\ n \in Nat \ {0}
      /\ \A k \in DOMAIN primes : primes[k] \in Nat
  BY DEF IndInv, TypeOK
<1>2. CASE DivideByTwo
  <2>1. \A k \in DOMAIN primes : primes[k] <= 2
    BY <1>2 DEF Bounded, DivideByTwo
  <2>2. primes' = Append(primes, 2) /\ pc' = "two"
    BY <1>2 DEF DivideByTwo
  <2>3. Ascending(primes') /\ \A k \in DOMAIN primes' : primes'[k] <= 2
    BY <1>1, <2>1, <2>2, AppendAscending DEF StoredAscending
  <2>4. QED
    BY <2>2, <2>3 DEF StoredAscending, Bounded
<1>3. CASE ComputeLimit
  BY <1>1, <1>3 DEF StoredAscending, Bounded, ComputeLimit
<1>4. CASE DivideByCandidate
  <2>1. \A k \in DOMAIN primes : primes[k] <= i
    BY <1>4 DEF Bounded, DivideByCandidate
  <2>2. primes' = Append(primes, i) /\ pc' = "odd" /\ i' = i
    BY <1>4 DEF DivideByCandidate
  <2>3. Ascending(primes') /\ \A k \in DOMAIN primes' : primes'[k] <= i
    BY <1>1, <2>1, <2>2, AppendAscending DEF StoredAscending
  <2>4. QED
    BY <2>2, <2>3 DEF StoredAscending, Bounded
<1>5. CASE NextCandidate
  BY <1>1, <1>5 DEF StoredAscending, Bounded, NextCandidate
<1>6. CASE StoreRemainder
  <2>1. /\ pc = "odd" /\ pc' = "done"
        /\ primes' = IF n > 2 THEN Append(primes, n) ELSE primes
    BY <1>6 DEF StoreRemainder
  <2>2. CASE n > 2
    <3>1. n >= i
      <4>1. HasFactor(n, n)
        BY <1>1, n = n * 1 DEF HasFactor
      <4>2. n \notin 2 .. i - 1
        BY <2>1, <4>1 DEF IndInv, Tried
      <4>3. QED
        BY <1>1, <2>2, <4>2
    <3>2. \A k \in DOMAIN primes : primes[k] <= n
      BY <1>1, <2>1, <3>1 DEF Bounded
    <3>3. Ascending(primes')
      BY <1>1, <2>1, <2>2, <3>2, AppendAscending DEF StoredAscending
    <3>4. QED
      BY <2>1, <3>3 DEF StoredAscending, Bounded
  <2>3. CASE ~(n > 2)
    BY <2>1, <2>3 DEF StoredAscending, Bounded
  <2>4. QED
    BY <2>2, <2>3
<1>7. CASE UNCHANGED vars
  BY <1>7 DEF StoredAscending, Bounded, vars
<1>8. QED
  BY <1>2, <1>3, <1>4, <1>5, <1>6, <1>7 DEF Next

\* The factors are in ascending order for every argument: the remainder, stored last,
\* has no factor below the last candidate and so is not below it, either.
THEOREM StoresAscending == Spec => []StoredAscending
<1>1. Init => StoredAscending /\ Bounded
  BY DEF Init, StoredAscending, Ascending, Bounded
<1>2. IndInv /\ StoredAscending /\ Bounded /\ [Next]_vars => StoredAscending' /\ Bounded'
  BY OrderStep
<1>3. QED
  BY Invariance, <1>1, <1>2, PTL DEF Spec

-----------------------------------------------------------------------------

\* What is stored and what is left make up the prime factors of the argument.
Complete ==
    /\ pc \in {"two", "odd"} => primes \o primeFactors[n] = primeFactors[input]
    /\ StoresPrimeFactors

\* A divisor below which there is no other is stored where the definition of the prime
\* factors has it.
LEMMA StoreLeastFactor ==
    ASSUME TypeOK, NEW d, n > 1, IsLeastFactor(n, d)
    PROVE  /\ Append(primes, d) \o primeFactors[n \div d] = primes \o primeFactors[n]
           /\ Append(primes, d) \in Seq(Positive)
<1> DEFINE q == n \div d
<1>1. n \in Nat /\ n \in Positive /\ d = LeastFactor(n)
  BY LeastFactorUnique DEF TypeOK, Positive
<1>2. q \in Positive
  BY <1>1, LeastFactorQuotient
<1>3. primeFactors[n] = <<d>> \o primeFactors[q]
  BY <1>1, PrimeFactorsDef
<1>4. primes \in Seq(Positive) /\ d \in Positive
  BY <1>1 DEF TypeOK, Positive, IsLeastFactor
<1>5. primeFactors[q] \in Seq(Positive)
  BY <1>2, PrimeFactorsDef
<1> HIDE DEF q
<1>6. <<d>> \in Seq(Positive) /\ Append(primes, d) = primes \o <<d>>
  BY <1>4, AppendIsConcat
<1>7. (primes \o <<d>>) \o primeFactors[q] = primes \o (<<d>> \o primeFactors[q])
  <2> DEFINE one  == <<d>>
             rest == primeFactors[q]
  <2>1. primes \in Seq(Positive) /\ one \in Seq(Positive) /\ rest \in Seq(Positive)
    BY <1>4, <1>5, <1>6
  <2> HIDE DEF one, rest
  <2>2. (primes \o one) \o rest = primes \o (one \o rest)
    BY <2>1, ConcatAssociative
  <2>3. QED
    BY <2>2 DEF one, rest
<1>8. Append(primes, d) \in Seq(Positive)
  BY <1>4, AppendProperties
<1>9. QED
  BY <1>3, <1>6, <1>7, <1>8 DEF q

\* What is stored, followed by the prime factors of what is left, remains the same.
LEMMA CompleteStep ==
    ASSUME IndInv, Complete, [Next]_vars
    PROVE  Complete'
<1>1. TypeOK /\ n \in Nat \ {0} /\ n \in Positive /\ i \in Nat \ {0} /\ i > 2
  BY DEF IndInv, TypeOK, Positive
<1>2. CASE DivideByTwo
  <2>1. /\ pc = "two" /\ n % 2 = 0 /\ primes' = Append(primes, 2)
        /\ n' = n \div 2 /\ input' = input /\ pc' = "two"
    BY <1>2 DEF DivideByTwo
  <2>2. n > 1
    <3>1. n \div 2 \in Nat \ {0} /\ n \div 2 <= n /\ n = 2 * (n \div 2)
      BY <1>1, <2>1, Quotient
    <3>2. QED
      BY <1>1, <3>1
  <2>3. IsLeastFactor(n, 2)
    <3>1. 2 \in 2 .. n /\ \A c \in 2 .. 2 - 1 : FALSE
      BY <1>1, <2>2
    <3>2. QED
      BY <2>1, <3>1 DEF IsLeastFactor
  <2>4. primes' \o primeFactors[n'] = primes \o primeFactors[n]
    BY <1>1, <2>1, <2>2, <2>3, StoreLeastFactor
  <2>5. QED
    BY <2>1, <2>4 DEF Complete, StoresPrimeFactors
<1>3. CASE ComputeLimit
  BY <1>3 DEF Complete, StoresPrimeFactors, ComputeLimit
<1>4. CASE DivideByCandidate
  <2>1. /\ pc = "odd" /\ n % i = 0 /\ primes' = Append(primes, i)
        /\ n' = n \div i /\ input' = input /\ pc' = "odd"
    BY <1>4 DEF DivideByCandidate
  <2>2. i \in 2 .. n
    <3>1. n \div i \in Nat \ {0} /\ n = i * (n \div i)
      BY <1>1, <2>1, Quotient
    <3>2. ASSUME NEW q \in Nat \ {0}, n = i * q PROVE i <= n
      <4>1. i * q >= i * 1
        BY <1>1
      <4>2. QED
        BY <1>1, <3>2, <4>1
    <3>3. QED
      BY <1>1, <3>1, <3>2
  <2>3. IsLeastFactor(n, i)
    <3>1. \A c \in 2 .. i - 1 : ~HasFactor(n, c)
      BY <2>1 DEF IndInv, Tried
    <3>2. \A c \in 2 .. i - 1 : n % c # 0
      <4> TAKE c \in 2 .. i - 1
      <4>1. c \in Nat \ {0}
        BY <1>1
      <4>2. QED
        BY <1>1, <3>1, <4>1, RemainderZero
    <3>3. QED
      BY <2>1, <2>2, <3>2 DEF IsLeastFactor
  <2> n > 1
    BY <1>1, <2>2
  <2>4. primes' \o primeFactors[n'] = primes \o primeFactors[n]
    BY <1>1, <2>1, <2>2, <2>3, StoreLeastFactor
  <2>5. QED
    BY <2>1, <2>4 DEF Complete, StoresPrimeFactors
<1>5. CASE NextCandidate
  BY <1>5 DEF Complete, StoresPrimeFactors, NextCandidate
<1>6. CASE StoreRemainder
  <2>1. /\ pc = "odd" /\ ~BelowLimit /\ pc' = "done" /\ input' = input
        /\ primes' = IF n > 2 THEN Append(primes, n) ELSE primes
    BY <1>6 DEF StoreRemainder
  <2>2. primes \o primeFactors[n] = primeFactors[input]
    BY <2>1 DEF Complete
  <2>3. primes \in Seq(Positive)
    BY <1>1 DEF TypeOK, Positive
  <2>4. CASE n > 2
    <3>1. IsLeastFactor(n, n)
      <4>1. \A c \in 2 .. n - 1 : ~HasFactor(n, c)
        BY <2>1, RemainderWithoutFactors
      <4>2. \A c \in 2 .. n - 1 : n % c # 0
        <5> TAKE c \in 2 .. n - 1
        <5>1. c \in Nat \ {0}
          BY <1>1
        <5>2. QED
          BY <1>1, <4>1, <5>1, RemainderZero
      <4>3. n % n = 0
        BY <1>1, RemainderZero, n = n * 1 DEF HasFactor
      <4>4. QED
        BY <1>1, <2>4, <4>2, <4>3 DEF IsLeastFactor
    <3>2. n \div n = 1
      BY <1>1
    <3>3. /\ Append(primes, n) \o primeFactors[1] = primes \o primeFactors[n]
          /\ Append(primes, n) \in Seq(Positive)
      <4>1. n > 1
        BY <1>1, <2>4
      <4>2. /\ Append(primes, n) \o primeFactors[n \div n] = primes \o primeFactors[n]
            /\ Append(primes, n) \in Seq(Positive)
        BY <1>1, <3>1, <4>1, StoreLeastFactor
      <4>3. QED
        BY <3>2, <4>2
    <3>4. Append(primes, n) \o <<>> = Append(primes, n)
      BY <3>3, ConcatEmptySeq
    <3>5. QED
      BY <2>1, <2>2, <2>4, <3>3, <3>4, PrimeFactorsDef DEF Complete, StoresPrimeFactors
  <2>5. CASE ~(n > 2)
    <3>1. n # 2
      <4>1. 2 \in 2 .. i - 1 /\ HasFactor(2, 2)
        BY <1>1, 2 = 2 * 1 DEF HasFactor
      <4>2. QED
        BY <2>1, <4>1 DEF IndInv, Tried
    <3>2. n = 1
      BY <1>1, <2>5, <3>1
    <3>3. primes \o <<>> = primes
      BY <2>3, ConcatEmptySeq
    <3>4. QED
      BY <2>1, <2>2, <2>5, <3>2, <3>3, PrimeFactorsDef DEF Complete, StoresPrimeFactors
  <2>6. QED
    BY <2>4, <2>5
<1>7. CASE UNCHANGED vars
  BY <1>7 DEF Complete, StoresPrimeFactors, vars
<1>8. QED
  BY <1>2, <1>3, <1>4, <1>5, <1>6, <1>7 DEF Next

\* For every positive number the vector ends up as the sequence of its prime factors
\* as it is defined: none is missing, none is stored too often, and the remainder is
\* the last of them.
THEOREM StoresThePrimeFactors == Spec => []StoresPrimeFactors
<1>1. Init => Complete
  <2> SUFFICES ASSUME Init PROVE Complete
    OBVIOUS
  <2>1. primeFactors[input] \in Seq(Positive)
    BY PrimeFactorsDef, InputsAssumption DEF Init, Positive
  <2>2. <<>> \o primeFactors[input] = primeFactors[input]
    BY <2>1, ConcatEmptySeq
  <2>3. QED
    BY <2>2 DEF Init, Complete, StoresPrimeFactors
<1>2. IndInv /\ Complete /\ [Next]_vars => Complete'
  BY CompleteStep
<1>3. Complete => StoresPrimeFactors
  BY DEF Complete
<1>4. QED
  BY Invariance, <1>1, <1>2, <1>3, PTL DEF Spec

=============================================================================
