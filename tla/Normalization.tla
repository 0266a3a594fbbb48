----------------------------- MODULE Normalization -----------------------------
(***************************************************************************)
(* Normal forms: the methods normal(SymbolMap&) of all nodes, which return *)
(* a fraction of polynomials in symbols and temporary symbols              *)
(* (powernormal.cpp, fraction.cpp, sum.cpp, product.cpp), the              *)
(* trigonometric functions, which ask for normal forms and occur in them,  *)
(* substitution and derivatives.                                           *)
(*                                                                         *)
(* A SymbolMap is the sequence of the expressions that are replaced.  The  *)
(* temporary symbol of its k-th expression has the number living + k, when *)
(* living temporary symbols exist outside of it.                           *)
(***************************************************************************)
EXTENDS Polynomials

RECURSIVE Subst(_, _, _)
RECURSIVE replaceTmpSymbolsBackFrom(_, _, _)
RECURSIVE NormalFraction(_, _, _)
RECURSIVE NormalOf(_, _)
RECURSIVE TrigCreate(_, _)
RECURSIVE ShiftDown(_, _)
RECURSIVE ShiftUp(_, _)
RECURSIVE Diff(_, _)

Sqrt(e)     == PowerCreate(e, half)
squareOf(e) == PowerCreate(e, two)
timesPi(q)  == ProductCreate(<<Numeric(q), Pi>>)

-----------------------------------------------------------------------------
(* Numeric arguments of trigonometric functions (numtrigosimpl.cpp): exact *)
(* values of the tables or none.  Numerical evaluation finds no more of    *)
(* them than equality does.                                                *)

NoResult == Node("NoResult", One, 0, FALSE, <<>>)

IsOther(e, name)  == isFunction(e) /\ e.name = NameOf(name)
IsTrig(e)         == isFunction(e) /\ e.name # NameOf("log")
IsInverse(name)   == name \in {"asin", "acos", "atan"}

\* The multiples of Pi that have an entry in the tables.
TableMultiples ==
    <<Whole(0), Ratio(1, 12), Ratio(1, 8), Ratio(1, 6), Ratio(1, 4), Ratio(1, 3),
      Ratio(3, 8), Ratio(5, 12), Ratio(1, 2)>>

sineTable(q) ==
    LET Fourth(e, f) == ProductCreate(<<Numeric(Ratio(1, 4)), SumCreate(<<e, f>>)>>)
    IN  CASE q = Whole(0)     -> zero
          [] q = Ratio(1, 12) -> Fourth(Sqrt(Integer(6)), Minus(Sqrt(two)))
          [] q = Ratio(1, 8)  -> ProductCreate(<<half, Sqrt(SumCreate(<<two, Minus(Sqrt(two))>>))>>)
          [] q = Ratio(1, 6)  -> half
          [] q = Ratio(1, 4)  -> OneOver(Sqrt(two))
          [] q = Ratio(1, 3)  -> ProductCreate(<<half, Sqrt(Integer(3))>>)
          [] q = Ratio(3, 8)  -> ProductCreate(<<half, Sqrt(SumCreate(<<two, Sqrt(two)>>))>>)
          [] q = Ratio(5, 12) -> Fourth(Sqrt(Integer(6)), Sqrt(two))
          [] q = Ratio(1, 2)  -> one

tanTable(q) ==
    CASE q = Whole(0)     -> zero
      [] q = Ratio(1, 12) -> SumCreate(<<two, Minus(Sqrt(Integer(3)))>>)
      [] q = Ratio(1, 8)  -> SumCreate(<<Sqrt(two), mOne>>)
      [] q = Ratio(1, 6)  -> OneOver(Sqrt(Integer(3)))
      [] q = Ratio(1, 4)  -> one
      [] q = Ratio(1, 3)  -> Sqrt(Integer(3))
      [] q = Ratio(3, 8)  -> SumCreate(<<Sqrt(two), one>>)
      [] q = Ratio(5, 12) -> SumCreate(<<two, Sqrt(Integer(3))>>)
      [] q = Ratio(1, 2)  -> Undefined

\* The rational q such that e is q*Pi.
piMultiple(e) ==
    CASE isZero(e) -> Whole(0)
      [] e = Pi    -> One
      [] isProduct(e) /\ Len(e.ops) = 2 /\ isNumeric(e.ops[1]) /\ e.ops[2] = Pi -> e.ops[1].q
      [] OTHER     -> NotRational

Signed(sign, e) == IF e = NoResult THEN NoResult ELSE ProductCreate(<<Integer(sign), e>>)

PlusRatio(p, q) == Ratio(p.num * q.den + q.num * p.den, p.den * q.den)

\* q*Pi is shifted into one turn and then into the first quadrant.
sinOfMultiple(q) ==
    LET turn    == Ratio(q.num % (2 * q.den), q.den)
        quarter == (2 * turn.num) \div turn.den
        within  == PlusRatio(turn, Ratio(-quarter, 2))
        first   == IF quarter \in {1, 3} THEN PlusRatio(Ratio(1, 2), Negative(within)) ELSE within
    IN  IF Contains(TableMultiples, first)
          THEN Signed(IF quarter > 1 THEN -1 ELSE 1, sineTable(first))
          ELSE NoResult

cosOfMultiple(q) == sinOfMultiple(PlusRatio(q, Ratio(1, 2)))

\* The table has no entry above a quarter of a turn.
tanOfMultiple(q) ==
    LET turn   == Ratio(q.num % (2 * q.den), q.den)
        sine   == sinOfMultiple(q)
        cosine == cosOfMultiple(q)
    IN  IF Contains(TableMultiples, turn) THEN Signed(IF turn = Ratio(1, 2) THEN -1 ELSE 1, tanTable(turn))
        ELSE IF NoResult \in {sine, cosine} THEN NoResult
        ELSE IF isZero(cosine) THEN Undefined
        ELSE ProductCreate(<<sine, OneOver(cosine)>>)

\* The multiple of Pi with this entry in a table.
getKey(e, Table(_)) ==
    LET k == SelectInSeq(TableMultiples, LAMBDA q : ~isUndefined(Table(q)) /\ Table(q) = e)
    IN  IF k = 0 THEN NoResult ELSE timesPi(TableMultiples[k])

ofPositive(e, Result(_)) == IF isNegative(e) THEN Signed(-1, Result(Minus(e))) ELSE Result(e)

asinOfNumber(e) ==
    IF IsLess(One, numericEval(e)) \/ IsLess(numericEval(e), Whole(-1)) THEN Undefined
    ELSE ofPositive(e, LAMBDA f : getKey(f, sineTable))

acosOfNumber(e) ==
    LET result == asinOfNumber(e)
    IN  IF result = NoResult THEN NoResult ELSE SumCreate(<<timesPi(half.q), Minus(result)>>)

atanOfNumber(e) == ofPositive(e, LAMBDA f : getKey(f, tanTable))

\* NumTrigoSimpl::simplify
NumTrigo(name, e) ==
    LET q == piMultiple(e)
    IN  CASE name = "asin" -> asinOfNumber(e)
          [] name = "acos" -> acosOfNumber(e)
          [] name = "atan" -> atanOfNumber(e)
          [] q = NotRational -> NoResult
          [] name = "sin" -> sinOfMultiple(q)
          [] name = "cos" -> cosOfMultiple(q)
          [] name = "tan" -> tanOfMultiple(q)

-----------------------------------------------------------------------------
(* trigonometric.cpp *)

Trig(name, args) == Function(NameOf(name), args)

haveAllNegativePrefactors(list) == \A k \in DOMAIN list : ~isPositive(constTerm(list[k]))

doesSymmetryApply(e) ==
    \/ isSum(e) /\ haveAllNegativePrefactors(e.ops)
    \/ isProduct(e) /\ isNegative(constTerm(Expand(e)))

\* The value at -e, when the value at e is known.
Mirrored(name, result) ==
    CASE name = "cos"  -> result
      [] name = "acos" -> SumCreate(<<Pi, Minus(result)>>)
      [] OTHER         -> Minus(result)

createNumerically(name, e) ==
    LET simplified == NumTrigo(name, e)
    IN  IF simplified # NoResult THEN simplified
        ELSE IF isNegative(e) THEN Mirrored(name, Trig(name, <<Minus(e)>>))
        ELSE Trig(name, <<e>>)

ShiftDown(e, upper) ==
    IF IsLess(numericEval(e), numericEval(upper)) THEN e ELSE ShiftDown(SumCreate(<<e, timesPi(Whole(-2))>>), upper)

ShiftUp(e, lower) ==
    IF IsLess(numericEval(e), numericEval(lower)) THEN ShiftUp(SumCreate(<<e, timesPi(Whole(2))>>), lower) ELSE e

\* asin(sin(e)), acos(cos(e)) and atan(tan(e)) for a number e.
shiftArgIntoRange(name, e) ==
    LET lower == IF name = "acos" THEN zero ELSE timesPi(Ratio(-1, 2))
        upper == IF name = "acos" THEN Pi ELSE timesPi(half.q)
        sign  == IF name = "atan" THEN mOne ELSE one
        arg   == ShiftUp(ShiftDown(e, upper), lower)
    IN  IF IsLess(numericEval(arg), numericEval(upper)) THEN arg
        ELSE SumCreate(<<ProductCreate(<<sign, two, upper>>), ProductCreate(<<mOne, sign, arg>>)>>)

createFromTrigoNoInverse(name, e) ==
    LET x    == e.ops[1]
        y    == Last(e.ops)
        aux1 == Sqrt(SumCreate(<<one, Minus(squareOf(x))>>))
        aux2 == Sqrt(SumCreate(<<one, squareOf(x)>>))
        aux3 == Sqrt(SumCreate(<<squareOf(x), squareOf(y)>>))
        Quotient(num, denom) == NormalOf(ProductCreate(<<num, OneOver(denom)>>), 0)
    IN  CASE name = "sin" /\ IsOther(e, "acos")  -> aux1
          [] name = "cos" /\ IsOther(e, "asin")  -> aux1
          [] name = "sin" /\ IsOther(e, "atan")  -> Quotient(x, aux2)
          [] name = "sin" /\ IsOther(e, "atan2") -> Quotient(x, aux3)
          [] name = "cos" /\ IsOther(e, "atan")  -> Quotient(one, aux2)
          [] name = "cos" /\ IsOther(e, "atan2") -> Quotient(y, aux3)
          [] name = "tan" /\ IsOther(e, "asin")  -> Quotient(x, aux1)
          [] name = "tan" /\ IsOther(e, "acos")  -> Quotient(aux1, x)
          [] OTHER -> Trig(name, <<e>>)

\* A trigonometric function of the result of another one.
createFromTrigo(name, e) ==
    LET inverse == CASE name = "sin" -> "asin" [] name = "cos" -> "acos" [] name = "tan" -> "atan" [] OTHER -> "none"
        direct  == CASE name = "asin" -> "sin" [] name = "acos" -> "cos" [] name = "atan" -> "tan" [] OTHER -> "none"
    IN  IF inverse # "none" /\ IsOther(e, inverse) THEN e.ops[1]
        ELSE IF name = "tan" /\ IsOther(e, "atan2") THEN ProductCreate(<<e.ops[1], OneOver(e.ops[2])>>)
        ELSE IF direct # "none" /\ IsOther(e, direct) /\ isNumericallyEvaluable(e.ops[1])
          THEN shiftArgIntoRange(name, e.ops[1])
        ELSE createFromTrigoNoInverse(name, e)

\* Trigonometric::create; name is a string.
TrigCreate(name, e) ==
    IF isUndefined(e) THEN Undefined
    ELSE IF IsTrig(e) THEN createFromTrigo(name, e)
    ELSE IF isFunction(e) THEN Trig(name, <<e>>)
    ELSE IF doesSymmetryApply(e) THEN Mirrored(name, TrigCreate(name, Minus(e)))
    ELSE IF isNumericallyEvaluable(e) THEN createNumerically(name, e)
    ELSE Trig(name, <<e>>)

\* shiftAtanResultIntoRange, for a multiple of Pi.
ShiftedAtan(result, increment) ==
    LET q == PlusRatio(piMultiple(result), piMultiple(increment))
    IN  timesPi(Ratio(q.num % (2 * q.den), q.den))

\* The increment is lost unless the table has the quotient.
simplAtan2(y, x, increment) ==
    LET quotient   == ProductCreate(<<y, OneOver(x)>>)
        simplified == NumTrigo("atan", quotient)
    IN  IF IsOther(quotient, "tan") THEN quotient.ops[1]
        ELSE IF simplified # NoResult THEN ShiftedAtan(simplified, increment)
        ELSE IF isNegative(quotient) THEN Mirrored("atan", TrigCreate("atan", Minus(quotient)))
        ELSE Trig("atan", <<quotient>>)

Atan2Create(y, x) ==
    LET ySign == NumberSign(numericEval(y))
        xSign == NumberSign(numericEval(x))
    IN  IF isUndefined(x) \/ isUndefined(y) THEN Undefined
        ELSE IF ~isNumericallyEvaluable(x) \/ ~isNumericallyEvaluable(y) THEN Trig("atan2", <<y, x>>)
        ELSE IF xSign = 0 THEN CASE ySign = 1  -> timesPi(half.q)
                                 [] ySign = -1 -> timesPi(Ratio(3, 2))
                                 [] ySign = 0  -> Undefined
        ELSE simplAtan2(y, x, IF xSign > 0 THEN zero ELSE IF ySign >= 0 THEN Pi ELSE timesPi(Whole(-1)))

\* The function of this rank of a name, with new arguments.
FunctionCreate(e, args) ==
    CASE IsOther(e, "log")   -> LogarithmCreate(args[1])
      [] IsOther(e, "sin")   -> TrigCreate("sin", args[1])
      [] IsOther(e, "cos")   -> TrigCreate("cos", args[1])
      [] IsOther(e, "tan")   -> TrigCreate("tan", args[1])
      [] IsOther(e, "asin")  -> TrigCreate("asin", args[1])
      [] IsOther(e, "acos")  -> TrigCreate("acos", args[1])
      [] IsOther(e, "atan")  -> TrigCreate("atan", args[1])
      [] IsOther(e, "atan2") -> Atan2Create(args[1], args[2])

-----------------------------------------------------------------------------
(* Substitution: the methods subst of all nodes. *)

SubstList(list, from, to) == <<>> \o [k \in DOMAIN list |-> Subst(list[k], from, to)]

\* FAULT: exponents are left as they are.
SubstBelowExponents(e, from, to) ==
    LET operands == SubstList(e.ops, from, to)
    IN  CASE e = from      -> to
          [] isSum(e)      -> SumCreate(operands)
          [] isProduct(e)  -> ProductCreate(operands)
          [] isPower(e)    -> PowerCreate(operands[1], Exp(e))
          [] isFunction(e) -> FunctionCreate(e, operands)
          [] OTHER         -> e

Subst(e, from, to) ==
    LET operands == SubstList(e.ops, from, to)
    IN  CASE e = from      -> to
          [] isSum(e)      -> SumCreate(operands)
          [] isProduct(e)  -> ProductCreate(operands)
          [] isPower(e)    -> PowerCreate(operands[1], operands[2])
          [] isFunction(e) -> FunctionCreate(e, operands)
          [] OTHER         -> e

-----------------------------------------------------------------------------
(* symbolmap.cpp *)

\* The symbol that stands for the k-th expression of the map.
TmpSymbolOf(map, k, living) ==
    LET name == NameOf("tmp#1") + living + k - 1
    IN  IF isPositive(map[k]) THEN PositiveSymbol(name) ELSE Symbol(name)

FractionOf(num, denom, map) == [num |-> num, denom |-> denom, map |-> map]

\* The expression is replaced by its symbol, which is a new one if it is not in the map.
getTmpSymbolAndStore(e, map, living) ==
    LET newMap == IF Contains(map, e) THEN map ELSE Append(map, e)
    IN  FractionOf(TmpSymbolOf(newMap, SelectInSeq(newMap, LAMBDA f : f = e), living), one, newMap)

\* Expressions in the map may have symbols of the map: until nothing changes.
replaceTmpSymbolsBackFrom(e, map, living) ==
    LET result == FoldLeft(LAMBDA f, k : Subst(f, TmpSymbolOf(map, k, living), map[k]), e, [k \in DOMAIN map |-> k])
    IN  IF isUndefined(result) \/ result = e THEN result ELSE replaceTmpSymbolsBackFrom(result, map, living)

-----------------------------------------------------------------------------
(* fraction.cpp *)

eval(f) == ProductCreate(<<f.num, OneOver(f.denom)>>)

cancelNonTrivial(f) ==
    LET divisor == PolyGcd(f.num, f.denom, "subresultant")
    IN  FractionOf(PolyDivide(f.num, divisor)[1], PolyDivide(f.denom, divisor)[1], f.map)

cancel(f) ==
    IF isOne(f.denom) \/ isZero(f.num) THEN FractionOf(f.num, one, f.map)
    ELSE IF isZero(Expand(f.denom)) THEN FractionOf(Undefined, one, f.map)
    ELSE cancelNonTrivial(f)

-----------------------------------------------------------------------------
(* The methods normal. *)

\* The fractions of all operands, and the map after the last of them.
OperandFractions(list, map, living) ==
    FoldLeft(LAMBDA done, e : LET f == NormalFraction(e, done.map, living)
                              IN  [fractions |-> Append(done.fractions, f), map |-> f.map],
             [fractions |-> <<>>, map |-> map], list)

\* FAULT: the numerator is not extended by the factor of the denominator.
AddFractionUnscaled(f, g, living) ==
    FractionOf(SumCreate(<<f.num, g.num>>), ProductCreate(<<f.denom, g.denom>>), f.map)

AddFraction(f, g, living) ==
    LET oneOverGcd == OneOver(PolyGcd(f.denom, g.denom, "subresultant"))
        lcm        == Expand(ProductCreate(<<g.denom, oneOverGcd>>))
        factor     == NormalOf(ProductCreate(<<f.denom, oneOverGcd>>), living)
        num        == SumCreate(<<Expand(ProductCreate(<<f.num, lcm>>)), Expand(ProductCreate(<<g.num, factor>>))>>)
    IN  IF f.denom = g.denom THEN [f EXCEPT !.num = SumCreate(<<f.num, g.num>>)]
        ELSE FractionOf(NormalOf(num, living), NormalOf(ProductCreate(<<f.denom, lcm>>), living), f.map)

toCommonDenom(all, living) ==
    cancel(FoldLeft(LAMBDA f, g : AddFraction(f, g, living + Len(all.map)),
                    FractionOf(all.fractions[1].num, all.fractions[1].denom, all.map), Tail(all.fractions)))

SumNormal(e, map, living) ==
    IF isZero(Expand(e)) THEN FractionOf(zero, one, map)
    ELSE toCommonDenom(OperandFractions(e.ops, map, living), living)

ProductNormal(e, map, living) ==
    LET all    == OperandFractions(e.ops, map, living)
        nums   == <<>> \o [k \in DOMAIN all.fractions |-> all.fractions[k].num]
        denoms == <<>> \o [k \in DOMAIN all.fractions |-> all.fractions[k].denom]
    IN  IF isZero(Expand(e)) THEN FractionOf(zero, one, map)
        ELSE cancel(FractionOf(ProductCreate(nums), ProductCreate(denoms), all.map))

\* A power that is not one is replaced.
evaluatePow(base, exp, map, living) ==
    LET pow == PowerCreate(base, exp)
    IN  IF isOne(pow) THEN FractionOf(pow, one, map) ELSE getTmpSymbolAndStore(pow, map, living)

\* First the power in the numerator, then that in the denominator.
PowersOf(num, denom, exp, map, living) ==
    LET n == evaluatePow(num, exp, map, living)
        d == evaluatePow(denom, exp, n.map, living)
    IN  FractionOf(n.num, d.num, d.map)

\* PowerNormal::normal
PowerNormal(e, map, living) ==
    LET base   == NormalFraction(Base(e), map, living)
        exp    == NormalOf(Exp(e), living + Len(base.map))
        n      == numericEval(exp)
        absExp == Numeric([n EXCEPT !.num = AbsInt(@)])
        numPow == PowerCreate(base.num, absExp)
        denPow == PowerCreate(base.denom, absExp)
    IN  IF isUndefined(base.num) \/ isUndefined(base.denom) \/ isUndefined(exp) THEN FractionOf(Undefined, one, base.map)
        ELSE IF isZero(base.denom) \/ isZero(Expand(base.denom)) THEN FractionOf(Undefined, one, base.map)
        ELSE IF isInteger(exp)
          THEN CASE n.num > 0 -> FractionOf(numPow, denPow, base.map)
                 [] n.num < 0 -> FractionOf(denPow, numPow, base.map)
                 [] n.num = 0 -> FractionOf(one, one, base.map)
        ELSE IF ~IsEvaluable(n) THEN getTmpSymbolAndStore(PowerCreate(eval(base), exp), base.map, living)
        ELSE IF isPositive(exp) THEN PowersOf(base.num, base.denom, exp, base.map, living)
        ELSE PowersOf(base.denom, base.num, Minus(exp), base.map, living)

\* Arguments have normal forms of their own.
FunctionNormal(e, map, living) ==
    LET args == <<>> \o [k \in DOMAIN e.ops |-> NormalOf(e.ops[k], living + Len(map))]
    IN  getTmpSymbolAndStore(FunctionCreate(e, args), map, living)

NormalFraction(e, map, living) ==
    CASE isNumeric(e)  -> FractionOf(Integer(e.q.num), Integer(e.q.den), map)
      [] isConstant(e) -> getTmpSymbolAndStore(e, map, living)
      [] isSum(e)      -> SumNormal(e, map, living)
      [] isProduct(e)  -> ProductNormal(e, map, living)
      [] isPower(e)    -> PowerNormal(e, map, living)
      [] isFunction(e) -> FunctionNormal(e, map, living)
      [] OTHER         -> FractionOf(e, one, map)

\* Numerator and denominator of e, without temporary symbols (normalToFraction).
normalToFraction(e, living) ==
    LET f == NormalFraction(e, <<>>, living)
    IN  [num   |-> replaceTmpSymbolsBackFrom(f.num, f.map, living),
         denom |-> replaceTmpSymbolsBackFrom(f.denom, f.map, living)]

\* Base::normal()
NormalOf(e, living) == eval(normalToFraction(e, living))

\* The highest number of the temporary symbols in e.
RECURSIVE TmpSymbolsIn(_)
TmpSymbolsIn(e) ==
    Max({IF isSymbol(e) /\ e.name \in NameOf("tmp#1") .. NameOf("tmp#8") THEN e.name - NameOf("tmp#1") + 1 ELSE 0}
          \cup {TmpSymbolsIn(e.ops[k]) : k \in DOMAIN e.ops})

\* Base::normal() as automatic simplification calls it: all that matters of the other
\* temporary symbols is that the new ones do not occur in e.
NormalFormOf(e) == NormalOf(e, TmpSymbolsIn(e))

-----------------------------------------------------------------------------
(* Derivatives: the methods diffWrtSymbol of all nodes. *)

DiffProduct(e, x) ==
    SumCreate(<<>> \o [k \in DOMAIN e.ops |-> ProductCreate(<<Diff(e.ops[k], x)>> \o RemoveAt(e.ops, k))])

\* FAULT: the exponent is forgotten.
DiffPowerOfBase(e, x) ==
    ProductCreate(<<e, SumCreate(<<ProductCreate(<<LogarithmCreate(Base(e)), Diff(Exp(e), x)>>),
                                   ProductCreate(<<OneOver(Base(e)), Diff(Base(e), x)>>)>>)>>)

DiffPower(e, x) ==
    ProductCreate(<<e, SumCreate(<<ProductCreate(<<LogarithmCreate(Base(e)), Diff(Exp(e), x)>>),
                                   ProductCreate(<<Exp(e), OneOver(Base(e)), Diff(Base(e), x)>>)>>)>>)

innerDiff(e) ==
    LET arg    == e.ops[1]
        square == squareOf(arg)
        Root(f) == PowerCreate(f, Numeric(Ratio(-1, 2)))
    IN  CASE IsOther(e, "sin")   -> TrigCreate("cos", arg)
          [] IsOther(e, "cos")   -> Minus(TrigCreate("sin", arg))
          [] IsOther(e, "tan")   -> SumCreate(<<one, squareOf(TrigCreate("tan", arg))>>)
          [] IsOther(e, "asin")  -> Root(SumCreate(<<one, Minus(square)>>))
          [] IsOther(e, "acos")  -> Minus(Root(SumCreate(<<one, Minus(square)>>)))
          [] IsOther(e, "atan")  -> OneOver(SumCreate(<<one, square>>))
          [] IsOther(e, "atan2") -> OneOver(SumCreate(<<one, squareOf(eval([num |-> arg, denom |-> e.ops[2]]))>>))

DiffFunction(e, x) ==
    LET arg == IF IsOther(e, "atan2") THEN eval([num |-> e.ops[1], denom |-> e.ops[2]]) ELSE e.ops[1]
    IN  IF IsOther(e, "log") THEN ProductCreate(<<OneOver(arg), Diff(arg, x)>>)
        ELSE NormalOf(ProductCreate(<<innerDiff(e), Diff(arg, x)>>), 0)

\* Only symbols are variables of derivatives.
Diff(e, x) ==
    CASE ~isSymbol(x)  -> Undefined
      [] isSymbol(e)   -> IF e = x THEN one ELSE zero
      [] isSum(e)      -> SumCreate(<<>> \o [k \in DOMAIN e.ops |-> Diff(e.ops[k], x)])
      [] isProduct(e)  -> DiffProduct(e, x)
      [] isPower(e)    -> DiffPower(e, x)
      [] isFunction(e) -> DiffFunction(e, x)
      [] isUndefined(e) -> Undefined
      [] OTHER         -> zero

=============================================================================
