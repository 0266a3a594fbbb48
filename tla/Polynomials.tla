------------------------------ MODULE Polynomials ------------------------------
(***************************************************************************)
(* Polynomials in several variables, as expressions: degrees and           *)
(* coefficients (a method of every node), division and pseudo-division     *)
(* (poly.cpp), the order of variables (polyinfo.cpp) and the greatest      *)
(* common divisor by subresultant or primitive remainder sequences         *)
(* (gcd.cpp, subresultantgcd.cpp, primitivegcd.cpp).                       *)
(***************************************************************************)
EXTENDS Simplification

-----------------------------------------------------------------------------
(* Degrees and coefficients. *)

RECURSIVE degree(_, _)
RECURSIVE coeff(_, _, _)
RECURSIVE minDegree(_, _)

MaxOf(m, n) == IF m < n THEN n ELSE m
MinOf(m, n) == IF m < n THEN m ELSE n

\* Without an integer exponent, the degree of a power is zero.
degree(e, x) ==
    LET ofOperands == <<>> \o [k \in DOMAIN e.ops |-> degree(e.ops[k], x)]
    IN  IF isEqual(e, x) /\ ~isNumeric(e) THEN 1
        ELSE CASE isSum(e)     -> FoldLeft(MaxOf, ofOperands[1], Tail(ofOperands))
               [] isProduct(e) -> FoldLeft(Sum2, 0, ofOperands)
               [] isPower(e)   -> IF isInteger(Exp(e)) THEN numericEval(Exp(e)).num * ofOperands[1] ELSE 0
               [] OTHER        -> 0

\* The other factors of a product that has the power of x as a factor.
coeffFactorMatch(e, x, exp) ==
    LET k == SelectInSeq(e.ops, LAMBDA f : f = PowerCreate(x, Integer(exp)))
    IN  IF k = 0 THEN zero ELSE ProductCreate(RemoveAt(e.ops, k))

coeff(e, x, exp) ==
    IF isNumeric(e) THEN IF exp = 0 THEN e ELSE zero
    ELSE IF isEqual(e, x) THEN IF exp = 1 THEN one ELSE zero
    ELSE IF isPower(e) /\ e = PowerCreate(x, Integer(exp)) THEN one
    ELSE IF isPower(e) /\ Base(e) # x /\ exp = 0 THEN e
    ELSE IF ~isPower(e) /\ ~Has(e, x) /\ exp = 0 THEN e
    ELSE CASE isSum(e)     -> FoldLeft(LAMBDA s, f : SumCreate(<<s, coeff(f, x, exp)>>), zero, e.ops)
           [] isProduct(e) -> coeffFactorMatch(e, x, exp)
           [] OTHER        -> zero

leadingCoeff(e, x) == coeff(e, x, degree(e, x))

minDegree(e, x) ==
    LET ofOperands == <<>> \o [k \in DOMAIN e.ops |-> minDegree(e.ops[k], x)]
    IN  IF isEqual(e, x) /\ ~isNumeric(e) THEN 1
        ELSE CASE isSum(e)     -> FoldLeft(MinOf, ofOperands[1], Tail(ofOperands))
               [] isProduct(e) -> FoldLeft(Sum2, 0, ofOperands)
               [] isPower(e)   -> numericEval(Exp(e)).num * ofOperands[1]
               [] OTHER        -> 0

-----------------------------------------------------------------------------
(* polyinfo.cpp: what polynomials are, and the order of their variables. *)

RECURSIVE hasValidType(_)
hasValidType(e) ==
    \/ isSymbol(e)
    \/ isNumeric(e) /\ IsRational(e.q)
    \/ isPower(e) /\ hasValidType(Base(e)) /\ isInteger(Exp(e)) /\ numericEval(Exp(e)).num > 0
    \/ (isSum(e) \/ isProduct(e)) /\ \A k \in DOMAIN e.ops : hasValidType(e.ops[k])

isInputValid(u, v) == ~(isZero(u) /\ isZero(v)) /\ hasValidType(u) /\ hasValidType(v)

\* The symbols that are in the list or in e, in the order of their first occurrence.
RECURSIVE addSymbols(_, _)
addSymbols(list, e) ==
    IF isSymbol(e) THEN IF Contains(list, e) THEN list ELSE Append(list, e)
    ELSE IF isPower(e) THEN addSymbols(list, Base(e))
    ELSE IF isSum(e) \/ isProduct(e) THEN FoldLeft(addSymbols, list, e.ops)
    ELSE list

\* Common variables come first, those with the least degree in front.
ComparePolyVariables(u, v, x, y) ==
    LET xDegree == MinOf(degree(u, x), degree(v, x))
        yDegree == MinOf(degree(u, y), degree(v, y))
    IN  IF xDegree # 0 /\ yDegree # 0 THEN xDegree < yDegree
        ELSE IF xDegree = 0 /\ yDegree = 0 THEN x.name < y.name
        ELSE xDegree # 0

\* The sort of a std::list is stable: an element is inserted behind its equals.
InsertVariable(u, v, list, x) ==
    LET behind == SelectSeq(list, LAMBDA y : ~ComparePolyVariables(u, v, x, y))
        before == SelectSeq(list, LAMBDA y : ComparePolyVariables(u, v, x, y))
    IN  Append(behind, x) \o before

listOfSymbols(u, v) ==
    FoldLeft(LAMBDA list, x : InsertVariable(u, v, list, x), <<>>, addSymbols(addSymbols(<<>>, u), v))

-----------------------------------------------------------------------------
(* poly.cpp: division. *)

RECURSIVE DivideBy(_, _, _)
RECURSIVE DivideFrom(_, _, _, _)
RECURSIVE PseudoDivideFrom(_, _, _, _, _, _)

divideEmptyList(u, v) ==
    LET quotient == ProductCreate(<<u, OneOver(v)>>)
    IN  IF isRationalNumeric(quotient) THEN <<quotient, zero>> ELSE <<zero, u>>

\* FAULT: the leading terms of equal degree are left.
IsDividedButConstant(remainder, gap) == isZero(remainder) \/ gap <= 0

IsDivided(remainder, gap) == isZero(remainder) \/ gap < 0

\* FAULT: the terms of earlier rounds are lost.
LastTermOnly(quotient, c, pow) == ProductCreate(<<c, pow>>)

WithTerm(quotient, c, pow) == SumCreate(<<quotient, ProductCreate(<<c, pow>>)>>)

\* The loop of divideNonEmpty: leading terms are divided as polynomials in the other variables.
DivideFrom(quotient, remainder, v, L) ==
    LET x   == Head(L)
        gap == degree(remainder, x) - degree(v, x)
        d   == DivideBy(leadingCoeff(remainder, x), leadingCoeff(v, x), Tail(L))
        pow == PowerCreate(x, Integer(gap))
    IN  IF IsDivided(remainder, gap) \/ ~isZero(d[2]) THEN <<Expand(quotient), remainder>>
        ELSE DivideFrom(WithTerm(quotient, d[1], pow),
                        Expand(SumCreate(<<remainder, ProductCreate(<<mOne, d[1], v, pow>>)>>)), v, L)

\* Quotient and remainder of polynomials in the variables L.
DivideBy(u, v, L) ==
    IF ~isInputValid(u, v) THEN <<Undefined, Undefined>>
    ELSE IF L = <<>> THEN divideEmptyList(u, v)
    ELSE IF u = v THEN <<one, zero>>
    ELSE IF isZero(u) THEN <<zero, zero>>
    ELSE DivideFrom(zero, u, v, L)

PolyDivide(u, v) == DivideBy(u, v, listOfSymbols(u, v))

\* FAULT: remainders of the degree of the divisor are left.
IsPseudoDividedButConstant(m, n) == m <= n

IsPseudoDivided(m, n) == m < n

\* m is the degree of the remainder, left the number of rounds that are still to be made
\* up for at the end.  The round that leaves no remainder does not count.
PseudoDivideFrom(quotient, remainder, v, x, m, left) ==
    LET lCoeff  == leadingCoeff(v, x)
        term    == ProductCreate(<<coeff(remainder, x, m), PowerCreate(x, Integer(m - degree(v, x)))>>)
        nextQ   == SumCreate(<<ProductCreate(<<lCoeff, quotient>>), term>>)
        nextR   == Expand(SumCreate(<<ProductCreate(<<lCoeff, remainder>>), ProductCreate(<<mOne, v, term>>)>>))
        Raised(e) == Expand(ProductCreate(<<PowerCreate(lCoeff, Integer(left)), e>>))
    IN  IF IsPseudoDivided(m, degree(v, x)) THEN <<Raised(quotient), Raised(remainder)>>
        ELSE IF isZero(nextR) THEN <<Raised(nextQ), zero>>
        ELSE PseudoDivideFrom(nextQ, nextR, v, x, degree(nextR, x), left - 1)

pseudoDivide(u, v, x) ==
    IF ~isInputValid(u, v) THEN <<Undefined, Undefined>>
    ELSE PseudoDivideFrom(zero, Expand(u), v, x, degree(u, x), MaxOf(degree(u, x) - degree(v, x) + 1, 0))

pseudoRemainder(u, v, x) == pseudoDivide(u, v, x)[2]

-----------------------------------------------------------------------------
(* gcd.cpp, with the algorithm algo: "subresultant" (the default) or "primitive". *)

RECURSIVE GcdOf(_, _, _, _)
RECURSIVE gcdAlgo(_, _, _, _)
RECURSIVE SubresultantFrom(_, _, _, _, _, _, _)
RECURSIVE PrimitiveFrom(_, _, _)
RECURSIVE integerContent(_)
RECURSIVE normalizationFactor(_, _)

\* The numbers in front of all summands have this divisor.
integerContent(e) ==
    LET number == numericTerm(e).q
    IN  IF isSum(e) THEN FoldLeft(LAMBDA n, s : gcd[<<n, integerContent(s)>>], 0, e.ops)
        ELSE IF IsInt(number) THEN AbsInt(number.num) ELSE 1

commonContent(u, v) == Integer(gcd[<<integerContent(u), integerContent(v)>>])

computeNumerics(u, v) ==
    IF IsInt(u.q) /\ IsInt(v.q) THEN Integer(gcd[<<AbsInt(u.q.num), AbsInt(v.q.num)>>]) ELSE one

\* The sign of the leading coefficient with respect to the last variable, the one before, ...
normalizationFactor(e, L) ==
    LET lCoeff == IF L = <<>> THEN e ELSE leadingCoeff(e, Last(L))
    IN  IF isNumeric(lCoeff) THEN Integer(NumberSign(lCoeff.q)) ELSE normalizationFactor(lCoeff, Front(L))

haveCommonSymbol(u, v, L) == \E k \in DOMAIN L : Has(u, L[k]) /\ Has(v, L[k])

gcdViaAlgo(u, v, L, algo) ==
    LET content == commonContent(u, v)
        Reduced(e) == ProductCreate(<<OneOver(content), e>>)
    IN  ProductCreate(<<content, gcdAlgo(Reduced(u), Reduced(v), L, algo)>>)

\* Gcd::compute for polynomials in the variables L.
GcdOf(u, v, L, algo) ==
    LET uExp   == Expand(u)
        vExp   == Expand(v)
        result == IF isOne(uExp) \/ isOne(vExp) THEN one
                  ELSE IF isZero(uExp) THEN vExp
                  ELSE IF isZero(vExp) \/ uExp = vExp THEN uExp
                  ELSE IF isNumeric(uExp) /\ isNumeric(vExp) THEN computeNumerics(uExp, vExp)
                  ELSE IF ~haveCommonSymbol(u, v, L) THEN commonContent(u, v)
                  ELSE gcdViaAlgo(uExp, vExp, L, algo)
    IN  IF isZero(uExp) /\ isZero(vExp) THEN Undefined
        ELSE ProductCreate(<<normalizationFactor(result, L), result>>)

PolyGcd(u, v, algo) == IF isInputValid(u, v) THEN GcdOf(u, v, listOfSymbols(u, v), algo) ELSE Undefined

\* The common divisor of the coefficients of all powers of x.
Content(e, x, algo) ==
    LET expanded == Expand(e)
    IN  IF isNumeric(expanded) THEN Numeric([expanded.q EXCEPT !.num = AbsInt(@)])
        ELSE FoldLeft(LAMBDA c, k : PolyGcd(coeff(expanded, x, k), c, algo), zero,
                      [k \in 1 .. degree(expanded, x) - minDegree(expanded, x) + 1 |->
                           minDegree(expanded, x) + k - 1])

\* FAULT: the content is not divided out.
WithContent(e, content, L) == e

primitivePart(e, content, L) == DivideBy(e, content, L)[1]

\* The remainder sequence.  Powers of the leading coefficients that are known to divide a
\* pseudo-remainder (beta) are divided out.  round counts the remainders.
SubresultantFrom(U, V, L, delta, beta, psi, round) ==
    LET x         == Head(L)
        remainder == pseudoRemainder(U, V, x)
        lead      == Minus(leadingCoeff(U, x))
        newDelta  == degree(U, x) - degree(V, x) + 1
        newPsi    == DivideBy(Expand(PowerCreate(lead, Integer(delta - 1))),
                              Expand(PowerCreate(psi, Integer(delta - 2))), Tail(L))[1]
        newBeta   == Expand(ProductCreate(<<lead, PowerCreate(newPsi, Integer(newDelta - 1))>>))
        Next(d, b, p) == SubresultantFrom(V, DivideBy(remainder, b, L)[1], L, d, b, p, round + 1)
    IN  IF isZero(remainder) THEN V
        ELSE IF isUndefined(remainder) THEN Undefined
        ELSE IF round = 0 THEN Next(delta, beta, psi)
        ELSE Next(newDelta, newBeta, newPsi)

\* Primitive parts of the remainders.  The content is computed by the default algorithm.
PrimitiveFrom(u, v, L) ==
    LET remainder == pseudoRemainder(u, v, Head(L))
        next      == IF isZero(remainder) THEN zero
                     ELSE primitivePart(remainder, Content(remainder, Head(L), "subresultant"), L)
    IN  IF isZero(v) THEN u
        ELSE IF isUndefined(remainder) THEN Undefined
        ELSE PrimitiveFrom(v, next, L)

subresultantResult(U, V, L, g) ==
    LET x     == Head(L)
        delta == degree(U, x) - degree(V, x) + 1
        last  == SubresultantFrom(U, V, L, delta, PowerCreate(mOne, Integer(delta)), mOne, 0)
        lead  == DivideBy(leadingCoeff(last, x), g, Tail(L))[1]
        quot  == DivideBy(last, lead, L)[1]
    IN  IF isUndefined(last) THEN Undefined ELSE primitivePart(quot, Content(quot, x, "subresultant"), L)

\* An undefined remainder makes one of the result.
gcdAlgo(u, v, L, algo) ==
    LET x        == Head(L)
        swapped  == algo = "subresultant" /\ degree(u, x) < degree(v, x)
        first    == IF swapped THEN v ELSE u
        second   == IF swapped THEN u ELSE v
        content1 == Content(first, x, algo)
        content2 == Content(second, x, algo)
        U        == primitivePart(first, content1, L)
        V        == primitivePart(second, content2, L)
        d        == GcdOf(content1, content2, Tail(L), algo)
        g        == GcdOf(leadingCoeff(U, x), leadingCoeff(V, x), Tail(L), algo)
        result   == IF algo = "subresultant" THEN subresultantResult(U, V, L, g) ELSE PrimitiveFrom(U, V, L)
    IN  IF isUndefined(result) THEN one ELSE Expand(ProductCreate(<<d, result>>))

-----------------------------------------------------------------------------
(* poly::unit: the sign of the leading coefficient. *)

RECURSIVE unit(_, _)
unit(e, x) ==
    LET lCoeff  == leadingCoeff(Expand(e), x)
        symbols == addSymbols(<<>>, lCoeff)
    IN  IF isZero(lCoeff) THEN 1
        ELSE IF isNumeric(lCoeff) THEN NumberSign(lCoeff.q)
        ELSE IF symbols = <<>> THEN 1
        ELSE unit(lCoeff, symbols[1])

=============================================================================
