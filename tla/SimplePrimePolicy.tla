-------------------------- MODULE SimplePrimePolicy --------------------------
(***************************************************************************)
(* Trial division, as in SimplePrimePolicy::computeAndStore: factors of    *)
(* two first, then odd candidates below the square root of what is left.   *)
(* The limit is computed once, before the odd candidates are tried, and is *)
(* not adjusted when factors are found.                                    *)
(***************************************************************************)
EXTENDS Numbers

CONSTANT Inputs      \* the numbers to be factorized

\* Number zero is never factorized: Power::create returns before, and the loop over
\* the factors of two would not end.
ASSUME InputsAssumption == Inputs \subseteq Nat \ {0}

VARIABLES
    input,      \* the argument
    n,          \* what is left of it
    i,          \* the odd candidate
    limit,      \* the odd part of the input, whose square root bounds i
    primes,     \* the vector to be filled
    pc

vars == <<input, n, i, limit, primes, pc>>

Init ==
    /\ input \in Inputs
    /\ n = input
    /\ i = 3
    /\ limit = 0
    /\ primes = <<>>
    /\ pc = "two"

\* FAULT: the limit excludes the square root itself.
BelowLimitStrict == i * i < limit

\* i < sqrt(limit) + 1/2, without square roots.
BelowLimit == (2 * i - 1) * (2 * i - 1) < 4 * limit

DivideByTwo ==
    /\ pc = "two"
    /\ n % 2 = 0
    /\ primes' = Append(primes, 2)
    /\ n' = n \div 2
    /\ UNCHANGED <<input, i, limit, pc>>

ComputeLimit ==
    /\ pc = "two"
    /\ n % 2 # 0
    /\ limit' = n
    /\ pc' = "odd"
    /\ UNCHANGED <<input, n, i, primes>>

DivideByCandidate ==
    /\ pc = "odd"
    /\ BelowLimit
    /\ n % i = 0
    /\ primes' = Append(primes, i)
    /\ n' = n \div i
    /\ UNCHANGED <<input, i, limit, pc>>

NextCandidate ==
    /\ pc = "odd"
    /\ BelowLimit
    /\ n % i # 0
    /\ i' = i + 2
    /\ UNCHANGED <<input, n, limit, primes, pc>>

\* FAULT: what is left is stored even if it is one.
StoreRemainderAlways ==
    /\ pc = "odd"
    /\ ~BelowLimit
    /\ primes' = Append(primes, n)
    /\ pc' = "done"
    /\ UNCHANGED <<input, n, i, limit>>

\* FAULT: nothing happens if nothing is left.
StoreRemainderIfAny ==
    /\ pc = "odd"
    /\ ~BelowLimit
    /\ n > 2
    /\ primes' = Append(primes, n)
    /\ pc' = "done"
    /\ UNCHANGED <<input, n, i, limit>>

\* What is left after the last candidate is one or a prime.
StoreRemainder ==
    /\ pc = "odd"
    /\ ~BelowLimit
    /\ primes' = IF n > 2 THEN Append(primes, n) ELSE primes
    /\ pc' = "done"
    /\ UNCHANGED <<input, n, i, limit>>

Next ==
    \/ DivideByTwo
    \/ ComputeLimit
    \/ DivideByCandidate
    \/ NextCandidate
    \/ StoreRemainder

\* The loops are ordinary sequential code that keeps running.
Spec == Init /\ [][Next]_vars /\ WF_vars(Next)

-----------------------------------------------------------------------------

TypeOK ==
    /\ input \in Inputs
    /\ n \in Nat \ {0}
    /\ i \in Nat /\ i >= 3
    /\ limit \in Nat
    /\ primes \in Seq(Nat \ {0})
    /\ pc \in {"two", "odd", "done"}

\* Composite candidates are tried, too, but never stored: everything in the vector is
\* prime, what is left over after the last candidate included.
OnlyPrimesStored == \A k \in DOMAIN primes : IsPrime(primes[k])

\* The vector is in ascending order, which cancelPrimes and getEqualCount rely on.
StoredAscending == Ascending(primes)

\* The vector holds the prime factors of the argument, with their multiplicities.
StoresPrimeFactors == pc = "done" => primes = primeFactors[input]

\* Factorization ends, although the limit is not lowered when factors are found.
Terminates == <>(pc = "done")

=============================================================================
