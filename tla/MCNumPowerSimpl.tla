--------------------------- MODULE MCNumPowerSimpl ---------------------------
EXTENDS NumPowerSimpl

\* The fractions 2^i * 3^j for i and j in S.
Fractions(S) ==
    {Times(ToThe(Whole(2), Whole(i)), ToThe(Whole(3), Whole(j))) : i, j \in S} \ {One}

\* Denominators up to four: less than four primes of a kind remain below the power.
RootPowers ==
    Fractions(-3 .. 3) \X
      {e \in {Ratio(n, d) : n \in {-5, -3, -2, -1, 1, 2, 3, 5}, d \in {2, 3, 4}} : IsFraction(e)}

\* Integer exponents, also of negative bases.
IntegerPowers ==
    {<<Times(Whole(s), q), Whole(n)>> : s \in {1, -1}, q \in Fractions(-1 .. 2), n \in {-3, -2, -1, 2, 3}}

\* Complex results, which are rejected.
ComplexPowers == {<<Whole(-2), Ratio(1, 2)>>, <<Ratio(-2, 3), Ratio(-1, 3)>>}

SmallPowers == RootPowers \cup IntegerPowers \cup ComplexPowers

SmallFactors == {Whole(n) : n \in {-1, 2, 3, -4, 6}} \cup {Ratio(1, 2), Ratio(-1, 3), Ratio(4, 9), Ratio(3, 2)}

\* Numbers whose primes occur two and four times: 324 = 2^2 * 3^4.
UnevenPowers ==
    {<<Whole(n), e>> : n \in {12, 18, 36, 72, 324, 162}, e \in {Whole(2), Ratio(1, 5), Ratio(2, 5), Ratio(1, 2)}}
      \cup {<<Ratio(4, 3), Ratio(1, 5)>>}

=============================================================================
