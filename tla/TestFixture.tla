----------------------------- MODULE TestFixture -----------------------------
(***************************************************************************)
(* What the unit tests share: the fixture of fixtures.h, whose symbols are *)
(* the parameters of the suites, and the checks some suites define.        *)
(***************************************************************************)
EXTENDS Normalization

\* A test case with its checks: what they say if t is the case that is performed.
Test(t, name, checks) == t = name => checks

third  == Numeric(Ratio(1, 3))
fourth == Numeric(Ratio(1, 4))
three  == Integer(3)
four   == Integer(4)
five   == Integer(5)
six    == Integer(6)
seven  == Integer(7)
eight  == Integer(8)
nine   == Integer(9)
ten    == Integer(10)

\* checkPos, checkNeg and checkUnclear of testsign.cpp
checkPos(e)     == isPositive(e) /\ ~isNegative(e)
checkNeg(e)     == isNegative(e) /\ ~isPositive(e)
checkUnclear(e) == ~isNegative(e) /\ ~isPositive(e)

\* check of testgcd.cpp, which tries both algorithms if no other is named.
checkWith(expected, u, v, algo) == PolyGcd(u, v, algo) = expected
checkGcd(expected, u, v) == \A algo \in {"primitive", "subresultant"} : checkWith(expected, u, v, algo)

=============================================================================
