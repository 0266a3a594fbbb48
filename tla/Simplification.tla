--------------------------- MODULE Simplification ---------------------------
(***************************************************************************)
(* The automatic simplification that every expression goes through when it *)
(* is created: Sum::create, Product::create, Power::create and             *)
(* Logarithm::create with simplifySum, simplifyProduct and simplifyPower,  *)
(* the signs they ask for and the expansion they may end with.  All of     *)
(* them call each other.                                                   *)
(***************************************************************************)
EXTENDS Order, NumPow

CONSTANTS MaxPrimeResolution,   \* options::getMaxPrimeResolution()
          NormalForm(_)         \* Base::normal(), which calls back: NormalFormOf of Normalization

ASSUME ResolutionAssumption == MaxPrimeResolution \in Nat

RECURSIVE isPositive(_)
RECURSIVE isNegative(_)
RECURSIVE SumCreate(_)
RECURSIVE ProductCreate(_)
RECURSIVE PowerCreate(_, _)
RECURSIVE LogarithmCreate(_)
RECURSIVE MergeSummands(_, _)
RECURSIVE simplNSummands(_)
RECURSIVE simplTwoFactors(_, _)
RECURSIVE MergeFactors(_, _)
RECURSIVE simplifyProduct(_)
RECURSIVE extractProducts(_)
RECURSIVE Contract(_, _)
RECURSIVE ContractFrom(_, _, _, _, _, _)
RECURSIVE ContractConstFrom(_, _, _)
RECURSIVE simplifyPower(_, _)
RECURSIVE Expand(_)
RECURSIVE expandSums(_)

Minus(e)    == ProductCreate(<<mOne, e>>)
OneOver(e)  == PowerCreate(e, mOne)

-----------------------------------------------------------------------------
(* Signs. *)

\* The sign of the symbolic summands: zero if they do not agree.
signOfSymbolicParts(e) ==
    LET symbolic == {k \in DOMAIN e.ops : ~isNumericallyEvaluable(e.ops[k])}
    IN  IF symbolic = {} THEN 0
        ELSE IF \A k \in symbolic : isPositive(e.ops[k]) THEN 1
        ELSE IF \A k \in symbolic : isNegative(e.ops[k]) THEN -1
        ELSE 0

signOfNumericParts(e) ==
    LET numeric == SelectSeq(e.ops, isNumericallyEvaluable)
    IN  NumberSign(FoldLeft(NumberSum, Whole(0), [k \in DOMAIN numeric |-> numericEval(numeric[k])]))

\* FAULT: a numeric part is taken for the sign of the whole sum.
SumSignOfParts(e) ==
    IF isNumericallyEvaluable(e) THEN NumberSign(numericEval(e))
    ELSE LET sum == signOfNumericParts(e) + signOfSymbolicParts(e)
         IN  IF signOfSymbolicParts(e) # 0 /\ signOfNumericParts(e) # 0 THEN signOfNumericParts(e) ELSE sum

SumSign(e) ==
    LET numericSign == signOfNumericParts(e)
        sumOfSigns  == numericSign + signOfSymbolicParts(e)
    IN  IF isNumericallyEvaluable(e) THEN NumberSign(numericEval(e))
        ELSE IF numericSign = 0 THEN sumOfSigns
        ELSE IF sumOfSigns > 1 THEN 1
        ELSE IF sumOfSigns < -1 THEN -1
        ELSE 0

ProductSign(e) ==
    LET Signed(sign, factor) == IF isPositive(factor) THEN sign
                                ELSE IF isNegative(factor) THEN -sign
                                ELSE 0
    IN  FoldLeft(Signed, 1, e.ops)

\* An even numerator makes a power positive whatever the sign of its base is.
PowerIsPositive(e) ==
    \/ isPositive(Base(e))
    \/ isRationalNumeric(Exp(e)) /\ numericEval(Exp(e)).num % 2 = 0

isPositive(e) ==
    CASE isNumeric(e)  -> e.q.num > 0
      [] isSymbol(e)   -> e.positive
      [] isConstant(e) -> TRUE
      [] isPower(e)    -> PowerIsPositive(e)
      [] isProduct(e)  -> ProductSign(e) = 1
      [] isSum(e)      -> SumSign(e) = 1
      [] isFunction(e) -> CASE e.name = NameOf("log")  -> isPositive(SumCreate(<<e.ops[1], mOne>>))
                            [] e.name = NameOf("atan") -> isPositive(e.ops[1])
                            [] OTHER                   -> FALSE
      [] OTHER         -> FALSE

isNegative(e) ==
    CASE isNumeric(e)  -> e.q.num < 0
      [] isProduct(e)  -> ProductSign(e) = -1
      [] isSum(e)      -> SumSign(e) = -1
      [] isFunction(e) -> CASE e.name = NameOf("log")  -> isNegative(SumCreate(<<e.ops[1], mOne>>))
                            [] e.name = NameOf("atan") -> isNegative(e.ops[1])
                            [] OTHER                   -> FALSE
      [] OTHER         -> FALSE

-----------------------------------------------------------------------------
(* The parts of a term that sums collect. *)

numericTerm(e) ==
    IF isNumeric(e) THEN e ELSE IF isProduct(e) /\ isNumeric(e.ops[1]) THEN e.ops[1] ELSE one

nonNumericTerm(e) ==
    IF isNumeric(e) THEN one
    ELSE IF isProduct(e) /\ isNumeric(e.ops[1]) THEN ProductCreate(Tail(e.ops))
    ELSE e

constTerm(e) ==
    IF isProduct(e) THEN ProductCreate(getConstElements(e.ops)) ELSE IF isConst(e) THEN e ELSE one

nonConstTerm(e) ==
    IF isProduct(e) THEN ProductCreate(getNonConstElements(e.ops)) ELSE IF isConst(e) THEN one ELSE e

-----------------------------------------------------------------------------
(* sumsimpl.cpp *)

\* FAULT: operands are merged in the order of their arrival.
AsGiven(e, f) == <<e, f>>

InOrder(e, f) == IF doPermute(e, f) THEN <<f, e>> ELSE <<e, f>>

simplTwoNumericSummands(s1, s2) ==
    LET sum == NumberSum(s1.q, s2.q)
    IN  IF sum.num = 0 THEN <<>> ELSE <<Numeric(sum)>>

haveEqualNonConstTerms(s1, s2) ==
    LET term == nonConstTerm(s1) IN term # one /\ term = nonConstTerm(s2)

\* sqrt(2)*a + 2*sqrt(2)*a: only collected if the coefficient is not a sum.
simplEqualNonConstTerms(s1, s2) ==
    LET sum == SumCreate(<<constTerm(s1), constTerm(s2)>>)
    IN  IF isSum(sum) THEN InOrder(s1, s2) ELSE <<ProductCreate(<<sum, nonConstTerm(s1)>>)>>

simplEqualNonNumericTerms(s1, s2) ==
    LET n       == SumCreate(<<numericTerm(s1), numericTerm(s2)>>)
        product == ProductCreate(<<n, nonNumericTerm(s1)>>)
    IN  IF isZero(product) THEN <<>> ELSE <<product>>

haveEqualFirstOperands(pow1, pow2) ==
    LET arg1 == Base(pow1).ops[1]
        arg2 == Base(pow2).ops[1]
    IN  arg1 = arg2 \/ NormalForm(arg1) = NormalForm(arg2)

haveContractableSinCos(s1, s2) ==
    LET p1 == nonConstTerm(s1)
        p2 == nonConstTerm(s2)
    IN  /\ constTerm(s1) = constTerm(s2)
        /\ isPower(p1) /\ isPower(p2)
        /\ Exp(p1) = two /\ Exp(p2) = two
        /\ isFunction(Base(p1)) /\ isFunction(Base(p2))
        /\ {Base(p1).name, Base(p2).name} = {NameOf("sin"), NameOf("cos")}
        /\ haveEqualFirstOperands(p1, p2)

simplTwoSummandsWithoutSum(s1, s2) ==
    IF isZero(s1) THEN <<s2>>
    ELSE IF isZero(s2) THEN <<s1>>
    ELSE IF isNumeric(s1) /\ isNumeric(s2) THEN simplTwoNumericSummands(s1, s2)
    ELSE IF haveEqualNonConstTerms(s1, s2) THEN simplEqualNonConstTerms(s1, s2)
    ELSE IF nonNumericTerm(s1) = nonNumericTerm(s2) THEN simplEqualNonNumericTerms(s1, s2)
    ELSE IF haveContractableSinCos(s1, s2) THEN <<constTerm(s1)>>
    ELSE InOrder(s1, s2)

Summands(e) == IF isSum(e) THEN e.ops ELSE <<e>>

simplTwoSummands(s1, s2) ==
    IF isSum(s1) \/ isSum(s2) THEN MergeSummands(Summands(s1), Summands(s2))
                              ELSE simplTwoSummandsWithoutSum(s1, s2)

\* The last case is reported as an error.
MergeSummands(p, q) ==
    LET p1  == Head(p)
        q1  == Head(q)
        res == simplTwoSummands(p1, q1)
    IN  IF p = <<>> THEN q
        ELSE IF q = <<>> THEN p
        ELSE IF res = <<>> \/ res = <<zero>> THEN MergeSummands(Tail(p), Tail(q))
        ELSE IF Len(res) = 1 THEN res \o MergeSummands(Tail(p), Tail(q))
        ELSE IF res = <<p1, q1>> THEN <<p1>> \o MergeSummands(Tail(p), q)
        ELSE IF res = <<q1, p1>> THEN <<q1>> \o MergeSummands(p, Tail(q))
        ELSE <<>>

simplNSummands(u) ==
    MergeSummands(Summands(Head(u)),
                  IF Len(u) = 3 THEN simplTwoSummands(u[2], u[3]) ELSE simplNSummands(Tail(u)))

simplifySum(u) == IF Len(u) = 2 THEN simplTwoSummands(u[1], u[2]) ELSE simplNSummands(u)

\* Without summands, simplNSummands takes the front of an empty list.
SumCreate(summands) ==
    LET res == simplifySum(summands)
    IN  IF hasUndefinedElements(summands) THEN Undefined
        ELSE IF summands = <<>> THEN Crash
        ELSE IF Len(summands) = 1 THEN summands[1]
        ELSE IF Len(res) = 0 THEN zero
        ELSE IF Len(res) = 1 THEN res[1]
        ELSE SumOf(res)

-----------------------------------------------------------------------------
(* productsimpl.cpp: two factors. *)

\* The result of NumPowerSimpl as factors.
simplNumAndNumPow(preFactor, base, exp) ==
    LET res   == SimplifiedNumPower([base |-> base, exp |-> exp, preFactor |-> preFactor],
                                    MaxPrimeResolution)
        pow   == PowerCreate(Numeric(res.base), Numeric(res.exp))
    IN  IF res.preFactor = One THEN <<pow>> ELSE <<Numeric(res.preFactor), pow>>

simplTwoNumericFactors(f1, f2) ==
    LET res == Times(f1.q, f2.q)
    IN  IF res = One THEN <<>> ELSE <<Numeric(res)>>

\* Sums and other constant powers keep their numeric factor in front.
simplNumAndConst(numeric, constant) ==
    IF isNumericPower(constant)
      THEN simplNumAndNumPow(numeric.q, Base(constant).q, Exp(constant).q)
      ELSE <<numeric, constant>>

\* Adding exponents could hide that the two powers are undefined.
simplTwoEqualBases(f1, f2) ==
    LET newExp == SumCreate(<<Exp(f1), Exp(f2)>>)
    IN  IF /\ ~isPositive(Base(f1)) /\ ~isNegative(Base(f1))
           /\ isFractionNumeric(Exp(f1)) /\ isFractionNumeric(Exp(f2)) /\ isInteger(newExp)
          THEN <<f1, f2>>
          ELSE <<PowerCreate(Base(f1), newExp)>>

areNumPowersWithEqualExp(f1, f2) ==
    isNumericPower(f1) /\ isNumericPower(f2) /\ Exp(f1) = Exp(f2)

simplTwoEqualExp(f1, f2) == simplNumAndNumPow(One, Times(Base(f1).q, Base(f2).q), Exp(f1).q)

areNumPowersWithZeroSumExp(f1, f2) ==
    isNumericPower(f1) /\ isNumericPower(f2) /\ Exp(f1).q = Negative(Exp(f2).q)

simplTwoZeroSumExp(f1, f2) ==
    <<PowerCreate(Numeric(Times(Base(f1).q, Reciprocal(Base(f2).q))), Exp(f1))>>

areNumPowersWithEqualExpDenom(f1, f2) ==
    isNumericPower(f1) /\ isNumericPower(f2) /\ Exp(f1).q.den = Exp(f2).q.den

\* The powers of numerator and denominator are moved below one root.
simplTwoEqualExpDenom(f1, f2) ==
    LET newBase == Times(ToThe(Base(f1).q, Whole(Exp(f1).q.num)), ToThe(Base(f2).q, Whole(Exp(f2).q.num)))
    IN  IF newBase.num > MaxPrimeResolution \/ newBase.den > MaxPrimeResolution
          THEN <<f1, f2>>
          ELSE <<PowerCreate(Numeric(newBase), Numeric(Ratio(1, Exp(f1).q.den)))>>

simplTwoConst(f1, f2) ==
    IF isNumeric(f1) /\ isNumeric(f2) THEN simplTwoNumericFactors(f1, f2)
    ELSE IF isNumeric(f1) THEN simplNumAndConst(f1, f2)
    ELSE IF isNumeric(f2) THEN simplNumAndConst(f2, f1)
    ELSE IF Base(f1) = Base(f2) THEN simplTwoEqualBases(f1, f2)
    ELSE IF areNumPowersWithEqualExp(f1, f2) THEN simplTwoEqualExp(f1, f2)
    ELSE IF areNumPowersWithZeroSumExp(f1, f2) THEN simplTwoZeroSumExp(f1, f2)
    ELSE IF areNumPowersWithEqualExpDenom(f1, f2) THEN simplTwoEqualExpDenom(f1, f2)
    ELSE InOrder(f1, f2)

simplTwoFactorsWithoutProduct(f1, f2) ==
    IF isOne(f1) THEN <<f2>>
    ELSE IF isOne(f2) THEN <<f1>>
    ELSE IF isConst(f1) /\ isConst(f2) THEN simplTwoConst(f1, f2)
    ELSE IF Base(f1) = Base(f2) THEN simplTwoEqualBases(f1, f2)
    ELSE InOrder(f1, f2)

FactorsOf(e) == IF isProduct(e) THEN e.ops ELSE <<e>>

simplTwoFactors(f1, f2) ==
    IF isProduct(f1) \/ isProduct(f2) THEN MergeFactors(FactorsOf(f1), FactorsOf(f2))
                                      ELSE simplTwoFactorsWithoutProduct(f1, f2)

\* The last case is reported as an error.
MergeFactors(p, q) ==
    LET p1  == Head(p)
        q1  == Head(q)
        res == simplTwoFactors(p1, q1)
    IN  IF p = <<>> THEN q
        ELSE IF q = <<>> THEN p
        ELSE IF res = <<>> \/ res = <<one>> THEN MergeFactors(Tail(p), Tail(q))
        ELSE IF Len(res) = 1 THEN res \o MergeFactors(Tail(p), Tail(q))
        ELSE IF res = <<p1, q1>> THEN <<p1>> \o MergeFactors(Tail(p), q)
        ELSE IF res = <<q1, p1>> THEN <<q1>> \o MergeFactors(p, Tail(q))
        ELSE <<>>

-----------------------------------------------------------------------------
(* productsimpl.cpp: sine, cosine and tangent of the same argument. *)

sinSymbol == Symbol(NameOf("tmp#1"))
cosSymbol == Symbol(NameOf("tmp#2"))

isContractableTrigFctPower(e) ==
    /\ isFunction(Base(e))
    /\ Base(e).name \in {NameOf("sin"), NameOf("cos"), NameOf("tan")}
    /\ isNumericallyEvaluable(Exp(e))

areContractableTrigFctPowers(f1, f2) ==
    /\ isContractableTrigFctPower(f1) /\ isContractableTrigFctPower(f2)
    /\ Base(f1).ops[1] = Base(f2).ops[1]

trigFunctionPowerReplacement(e) ==
    LET base == CASE Base(e).name = NameOf("sin") -> sinSymbol
                  [] Base(e).name = NameOf("cos") -> cosSymbol
                  [] OTHER -> ProductCreate(<<sinSymbol, OneOver(cosSymbol)>>)
    IN  PowerCreate(base, Exp(e))

\* The symbols are bases of powers only.
RECURSIVE trigBackReplacement(_, _)
trigBackReplacement(e, arg) ==
    CASE e = sinSymbol -> Function(NameOf("sin"), <<arg>>)
      [] e = cosSymbol -> Function(NameOf("cos"), <<arg>>)
      [] isPower(e)    -> PowerCreate(trigBackReplacement(Base(e), arg), Exp(e))
      [] isProduct(e)  -> ProductCreate(<<>> \o [k \in DOMAIN e.ops |-> trigBackReplacement(e.ops[k], arg)])
      [] OTHER         -> e

\* The code takes the front of the product: tan(x)*tan(x)^(-1) leaves none.
contractTrigFctPowers(f1, f2) ==
    LET arg      == Base(f1).ops[1]
        res      == simplTwoFactors(trigFunctionPowerReplacement(f1), trigFunctionPowerReplacement(f2))
        first    == res[1]
        last     == Last(res)
        tangent  == PowerCreate(Function(NameOf("tan"), <<arg>>),
                                IF Base(first) = cosSymbol THEN Minus(Exp(first)) ELSE Exp(first))
        replaced == <<>> \o [k \in DOMAIN res |-> trigBackReplacement(res[k], arg)]
    IN  IF res = <<>> THEN <<Crash>>
        ELSE IF Len(res) = 2 /\ Exp(first) = Minus(Exp(last)) THEN <<tangent>>
        ELSE IF doPermute(replaced[1], Last(replaced)) THEN <<Last(replaced), replaced[1]>>
        ELSE replaced

-----------------------------------------------------------------------------
(* productsimpl.cpp: the passes over the list of factors. *)

\* FAULT: only the first product is flattened.
extractFirstProduct(u) ==
    LET k == CHOOSE k \in DOMAIN u : isProduct(u[k]) /\ \A j \in 1 .. k - 1 : ~isProduct(u[j])
    IN  IF \A j \in DOMAIN u : ~isProduct(u[j]) THEN u
        ELSE SubSeq(u, 1, k - 1) \o u[k].ops \o SubSeq(u, k + 1, Len(u))

extractProducts(u) ==
    LET k == CHOOSE k \in DOMAIN u : isProduct(u[k]) /\ \A j \in 1 .. k - 1 : ~isProduct(u[j])
    IN  IF \A j \in DOMAIN u : ~isProduct(u[j]) THEN u
        ELSE extractProducts(SubSeq(u, 1, k - 1) \o u[k].ops \o SubSeq(u, k + 1, Len(u)))

Check(pass, f1, f2) ==
    CASE pass = "TrigFctPowers"         -> areContractableTrigFctPowers(f1, f2)
      [] pass = "NumPowersEqualExp"     -> areNumPowersWithEqualExp(f1, f2)
      [] pass = "NumPowersEqualDenom"   -> areNumPowersWithEqualExpDenom(f1, f2)

Simpl(pass, f1, f2) ==
    CASE pass = "TrigFctPowers"         -> contractTrigFctPowers(f1, f2)
      [] pass = "NumPowersEqualExp"     -> simplTwoEqualExp(f1, f2)
      [] pass = "NumPowersEqualDenom"   -> simplTwoEqualExpDenom(f1, f2)

\* Two iterators i < j.  A contracted pair is replaced at i, and i stays there until
\* nothing behind it can be contracted with it.
ContractFrom(pass, u, i, j, found, changed) ==
    LET res      == Simpl(pass, u[i], u[j])
        replaced == SubSeq(u, 1, i - 1) \o res \o RemoveAt(SubSeq(u, i + 1, Len(u)), j - i)
    IN  CASE i > Len(u) -> IF changed THEN Contract(pass, u) ELSE u
          [] i <= Len(u) /\ j > Len(u) ->
               ContractFrom(pass, u, IF found THEN i ELSE i + 1, IF found THEN i + 1 ELSE i + 2, FALSE, changed)
          [] j <= Len(u) /\ ~Check(pass, u[i], u[j]) -> ContractFrom(pass, u, i, j + 1, found, changed)
          [] j <= Len(u) /\ Check(pass, u[i], u[j]) ->
               IF res = <<u[i], u[j]>> THEN ContractFrom(pass, u, i, j + 1, found, changed)
               ELSE ContractFrom(pass, replaced, i, i + 1, TRUE, TRUE)

Contract(pass, u) == ContractFrom(pass, u, 1, 2, FALSE, FALSE)

contractNumerics(u) ==
    LET product == FoldLeft(LAMBDA n, f : IF isNumeric(f) THEN Times(n, f.q) ELSE n, One, u)
        others  == SelectSeq(u, LAMBDA f : ~isNumeric(f))
    IN  IF product # One \/ others = <<>> THEN <<Numeric(product)>> \o others ELSE others

isContractableConst(e) == isNumeric(e) \/ isNumericPower(e)

\* Two iterators again.  If the last element is erased, the second one is incremented
\* past the end: the lists of the standard libraries are circular, it starts over.
ContractConstFrom(u, i, j) ==
    LET res == simplTwoConst(u[i], u[j])
        k   == IF j < i THEN i - 1 ELSE i       \* the first one after the second is erased
    IN  CASE i > Len(u) -> u
          [] i <= Len(u) /\ j > Len(u) -> ContractConstFrom(u, i + 1, i + 2)
          [] j <= Len(u) /\ (i = j \/ ~isContractableConst(u[i]) \/ ~isContractableConst(u[j])) ->
               ContractConstFrom(u, i, j + 1)
          [] j <= Len(u) /\ i # j /\ isContractableConst(u[i]) /\ isContractableConst(u[j]) ->
               CASE Len(res) = 1 -> ContractConstFrom(RemoveAt([u EXCEPT ![i] = res[1]], j), k,
                                                      IF j = Len(u) THEN 1 ELSE j + 1)
                 [] Len(res) = 2 -> ContractConstFrom([u EXCEPT ![i] = res[1], ![j] = res[2]], i, j + 1)
                 [] OTHER        -> ContractConstFrom(u, i, j + 1)

prepareConst(u) ==
    LET sorted == SortSeq(u, LAMBDA x, y : doPermute(x, y))
        const  == ContractConstFrom(contractNumerics(sorted), 1, 2)
    IN  Contract("NumPowersEqualDenom", Contract("NumPowersEqualExp", const))

\* What is left is merged from the back, and every tail goes through all passes again.
simplPreparedFactors(u) ==
    CASE Len(u) = 1 -> u
      [] Len(u) = 2 -> simplTwoFactors(u[1], u[2])
      [] OTHER      -> MergeFactors(<<u[1]>>, simplifyProduct(Tail(u)))

simplifyProduct(u) ==
    LET factors == Contract("TrigFctPowers", extractProducts(u))
    IN  IF Len(factors) = 2 THEN simplTwoFactors(factors[1], factors[2])
                            ELSE simplPreparedFactors(prepareConst(factors))

-----------------------------------------------------------------------------
(* Product::create and expansion. *)

needsExpansion(factors) ==
    LET const    == getConstElements(factors)
        nonConst == getNonConstElements(factors)
    IN  IF const = <<>> THEN FALSE
        ELSE IF hasSumElements(nonConst) THEN Len(nonConst) = 1
        ELSE hasSumElements(const)

\* The product of two sums takes their place.  It is taken for a sum, whatever it is.
expandSums(sums) ==
    LET expanded == <<>> \o [k \in DOMAIN sums[1].ops |-> Expand(ProductCreate(<<sums[1].ops[k], sums[2]>>))]
    IN  IF Len(sums) = 1 THEN sums[1]
        ELSE expandSums(<<SumCreate(expanded)>> \o SubSeq(sums, 3, Len(sums)))

expandProductOf(scalar, sum) ==
    SumCreate(<<>> \o [k \in DOMAIN sum.ops |-> Expand(ProductCreate(<<scalar, sum.ops[k]>>))])

expandAsProduct(list) ==
    LET expanded == <<>> \o [k \in DOMAIN list |-> Expand(list[k])]
        sums     == SelectSeq(expanded, isSum)
        scalar   == ProductCreate(SelectSeq(expanded, LAMBDA e : ~isSum(e)))
        second   == expandSums(sums)
    IN  IF sums = <<>> THEN scalar
        ELSE IF isSum(second) THEN expandProductOf(scalar, second)
        ELSE ProductCreate(<<scalar, second>>)

ProductCreate(factors) ==
    LET res == simplifyProduct(factors)
    IN  IF hasUndefinedElements(factors) THEN Undefined
        ELSE IF hasZeroElements(factors) THEN zero
        ELSE IF Len(factors) = 0 THEN one
        ELSE IF Len(factors) = 1 THEN factors[1]
        ELSE IF Len(res) = 0 THEN one
        ELSE IF Len(res) = 1 THEN res[1]
        ELSE IF needsExpansion(res) THEN expandAsProduct(res)
        ELSE Product(res)

\* Sums below an integer exponent are multiplied out.
ExpandPower(e) ==
    LET n        == numericEval(Exp(e)).num
        expanded == expandAsProduct([k \in 1 .. AbsInt(n) |-> Base(e)])
    IN  IF ~isInteger(Exp(e)) \/ ~isSum(Base(e)) THEN PowerCreate(Base(e), Exp(e))
        ELSE IF n < 0 THEN OneOver(expanded)
        ELSE expanded

Expand(e) ==
    CASE isSum(e)     -> SumCreate(<<>> \o [k \in DOMAIN e.ops |-> Expand(e.ops[k])])
      [] isProduct(e) -> expandAsProduct(e.ops)
      [] isPower(e)   -> ExpandPower(e)
      [] OTHER        -> e

-----------------------------------------------------------------------------
(* powersimpl.cpp and Power::create. *)

doesInvolveComplexNumbers(base, exp) ==
    isNegative(base) /\ isNumericallyEvaluable(exp) /\ ~isInteger(exp)

simplifyNumericPower(base, exp) ==
    LET res     == SimplifiedNumPower([base |-> base.q, exp |-> exp.q, preFactor |-> One],
                                      MaxPrimeResolution)
        newBase == Numeric(res.base)
        newExp  == Numeric(res.exp)
    IN  IF res.preFactor = One THEN <<newBase, newExp>>
        ELSE <<ProductCreate(<<Numeric(res.preFactor), PowerCreate(newBase, newExp)>>), one>>

areTwoFractionExpWithOddDenom(e1, e2) ==
    /\ isNumeric(e1) /\ IsFraction(e1.q) /\ e1.q.den % 2 # 0
    /\ isNumeric(e2) /\ IsFraction(e2.q) /\ e2.q.den % 2 # 0

doContractExpFirst(base, e1, e2) ==
    \/ isInteger(e1) /\ isInteger(e2)
    \/ areTwoFractionExpWithOddDenom(e1, e2)
    \/ isPositive(base)

IsEven(q) == IsInt(q) /\ q.num % 2 = 0

doesChangeSign(base, e1) == isNegative(base) /\ isNumeric(e1) /\ IsEven(e1.q)

\* FAULT: an even power below a root loses its sign, sqrt(a^2) = a.
contractAlways(e1, e2) == isNumeric(e1) /\ isNumeric(e2)

\* Rational exponents only.
doContractExpSecond(e1, e2) ==
    LET n1 == numericEval(e1)
        n  == NumberProduct(n1, numericEval(e2))
    IN  /\ isNumericallyEvaluable(e1) /\ isNumericallyEvaluable(e2)
        /\ IF IsEven(n1) THEN IsEven(n)
           ELSE IF IsInt(n1) THEN n \notin {One, Whole(-1)}
           ELSE IsFraction(n)

simplifyPowerBase(pow, e2) ==
    LET base    == Base(pow)
        e1      == Exp(pow)
        newBase == CASE doContractExpFirst(base, e1, e2) -> base
                     [] doesChangeSign(base, e1)         -> Minus(base)
                     [] OTHER                            -> base
    IN  IF \/ doContractExpFirst(base, e1, e2)
           \/ doesChangeSign(base, e1)
           \/ doContractExpSecond(e1, e2)
          THEN simplifyPower(newBase, ProductCreate(<<e1, e2>>))
          ELSE <<pow, e2>>

\* (a*b)^c = a^c*b^c for positive factors, and for all of them if c is an integer.
simplifyProductBase(base, exp) ==
    LET Separate(f) == isInteger(exp) \/ isPositive(f)
        separated   == SelectSeq(base.ops, Separate)
        kept        == SelectSeq(base.ops, LAMBDA f : ~Separate(f))
        powers      == <<>> \o [k \in DOMAIN separated |-> PowerCreate(separated[k], exp)]
    IN  IF separated = <<>> THEN <<base, exp>>
        ELSE <<ProductCreate(Append(powers, PowerCreate(ProductCreate(kept), exp))), one>>

isBaseEulerConstantAndExpLogarithm(base, exp) ==
    base = E /\ isFunction(exp) /\ exp = LogarithmCreate(exp.ops[1])

simplifyPower(base, exp) ==
    IF doesInvolveComplexNumbers(base, exp) THEN <<Undefined, one>>
    ELSE IF isNumeric(base) /\ isNumeric(exp) THEN simplifyNumericPower(base, exp)
    ELSE IF isPower(base) THEN simplifyPowerBase(base, exp)
    ELSE IF isProduct(base) THEN simplifyProductBase(base, exp)
    ELSE IF isBaseEulerConstantAndExpLogarithm(base, exp) THEN <<exp.ops[1], one>>
    ELSE <<base, exp>>

PowerCreate(base, exp) ==
    LET res == simplifyPower(base, exp)
    IN  IF isUndefined(exp) \/ isUndefined(base) THEN Undefined
        ELSE IF isZero(exp) \/ isOne(base) THEN one
        ELSE IF isZero(base) /\ isNegative(exp) THEN Undefined
        ELSE IF isZero(base) THEN zero
        ELSE IF isOne(exp) THEN base
        ELSE IF isOne(res[2]) THEN res[1]
        ELSE IF isOne(res[1]) THEN one
        ELSE Power(res[1], res[2])

-----------------------------------------------------------------------------
(* Logarithm::create. *)

isInvalidLogarithmArg(arg) ==
    \/ isUndefined(arg) \/ isZero(arg)
    \/ ~(isPower(arg) /\ Base(arg) = E) /\ (isNegative(arg) \/ numericEval(arg) = Whole(0))

LogarithmCreate(arg) ==
    IF isInvalidLogarithmArg(arg) THEN Undefined
    ELSE IF isOne(arg) THEN zero
    ELSE IF arg = E THEN one
    ELSE IF isPower(arg) THEN ProductCreate(<<Exp(arg), LogarithmCreate(Base(arg))>>)
    ELSE Function(NameOf("log"), <<arg>>)

=============================================================================
