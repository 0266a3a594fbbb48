------------------------------- MODULE Numbers -------------------------------
(***************************************************************************)
(* The rational half of tsym's Number: integers have arbitrary precision   *)
(* (cpp_int), fractions are kept in lowest terms with a positive           *)
(* denominator (boost::rational).  Floating point is not modelled: an      *)
(* operation that would fall back to a double yields NotRational.          *)
(***************************************************************************)
EXTENDS Integers, Sequences

Rational == [num : Int, den : Nat \ {0}]

NotRational == [num |-> 0, den |-> 0]

AbsInt(n) == IF n < 0 THEN -n ELSE n

\* Functions of a pair: of two numbers, of base and exponent.
gcd[p \in Nat \X Nat] == IF p[2] = 0 THEN p[1] ELSE gcd[<<p[2], p[1] % p[2]>>]

power[p \in Int \X Nat] == IF p[2] = 0 THEN 1 ELSE p[1] * power[<<p[1], p[2] - 1>>]

\* The constructor of a fraction: the sign goes to the numerator.
Ratio(n, d) ==
    LET g == gcd[<<AbsInt(n), AbsInt(d)>>]
        s == IF d < 0 THEN -1 ELSE 1
    IN  [num |-> s * (n \div g), den |-> (s * d) \div g]

InLowestTerms(q) == gcd[<<AbsInt(q.num), q.den>>] = 1

Whole(n) == [num |-> n, den |-> 1]

One == Whole(1)

IsInt(q)      == q.den = 1
IsFraction(q) == q.den # 1

Negative(q)         == [q EXCEPT !.num = -@]
Times(p, q)         == Ratio(p.num * q.num, p.den * q.den)
MinusInt(q, n)      == [q EXCEPT !.num = @ - n * q.den]
Reciprocal(q)       == Ratio(q.den, q.num)

\* Comparison with the integer n.
LessThan(q, n)      == q.num < n * q.den
GreaterThan(q, n)   == q.num > n * q.den

\* The integer root tryGetBase finds, for n > 0: a set that is empty if there is none.
Roots(n, k) ==
    IF k = 1 \/ n = 1 THEN {n} ELSE {r \in 2 .. n : r * r <= n /\ power[<<r, k>>] = n}

(***************************************************************************)
(* Number::toThe.  A negative base comes with an integer exponent, zero    *)
(* with a positive one; otherwise the code throws.                         *)
(***************************************************************************)
ToThe(q, e) ==
    LET b    == IF e.num < 0 THEN Reciprocal(q) ELSE q
        nums == power[<<b.num, AbsInt(e.num)>>]
        dens == power[<<b.den, AbsInt(e.num)>>]
    IN  IF IsInt(e) THEN [num |-> nums, den |-> dens]
        ELSE IF Roots(nums, e.den) = {} \/ Roots(dens, e.den) = {} THEN NotRational
        ELSE [num |-> CHOOSE r \in Roots(nums, e.den) : TRUE,
              den |-> CHOOSE r \in Roots(dens, e.den) : TRUE]

-----------------------------------------------------------------------------

IsPrime(p) == p > 1 /\ \A d \in 2 .. p - 1 : p % d # 0

Ascending(s) == \A i, j \in DOMAIN s : i < j => s[i] <= s[j]

\* The prime factors of n in ascending order: what the factorization policy stores
\* (SimplePrimePolicy.tla has the algorithm, and the property that they agree).
primeFactors[n \in Nat \ {0}] ==
    IF n = 1 THEN <<>>
    ELSE LET p == CHOOSE d \in 2 .. n : n % d = 0 /\ \A c \in 2 .. d - 1 : n % c # 0
         IN  <<p>> \o primeFactors[n \div p]

\* How often the prime p divides the fraction q # 0, negative for its denominator.
Multiplicity(p, q) ==
    LET times[n \in Nat \ {0}] == IF n % p # 0 THEN 0 ELSE 1 + times[n \div p]
    IN  times[AbsInt(q.num)] - times[q.den]

=============================================================================
