----------------------------- MODULE Expressions -----------------------------
(***************************************************************************)
(* The expression tree: the subclasses of Base with those methods that     *)
(* create no new expression.  All nodes are records of one shape, so that  *)
(* equality is structural, which is what isEqual amounts to.  A name is    *)
(* represented by its rank in the lexicographic order of names.            *)
(*                                                                         *)
(* Numbers are exact while they are rational.  A double is approximated by *)
(* a multiple of 1/Scale and has the denominator zero; only its sign and   *)
(* its order with respect to other numbers matter.                         *)
(***************************************************************************)
EXTENDS Numbers, SequencesExt

-----------------------------------------------------------------------------
(* Nodes. *)

\* TLC evaluates a function lazily, and a concatenation at once: hence <<>> \o [...] here
\* and wherever the elements of a list are results of calls.
Node(type, q, name, positive, ops) ==
    [type |-> type, q |-> q, name |-> name, positive |-> positive, ops |-> <<>> \o ops]

Numeric(q)           == Node("Numeric", q, 0, FALSE, <<>>)
Integer(n)           == Numeric(Whole(n))
Symbol(name)         == Node("Symbol", One, name, FALSE, <<>>)
PositiveSymbol(name) == Node("Symbol", One, name, TRUE, <<>>)
Constant(name)       == Node("Constant", One, name, FALSE, <<>>)
Power(base, exp)     == Node("Power", One, 0, FALSE, <<base, exp>>)
Product(factors)     == Node("Product", One, 0, FALSE, factors)
SumOf(summands)      == Node("Sum", One, 0, FALSE, summands)
Function(name, args) == Node("Function", One, name, FALSE, args)
Undefined            == Node("Undefined", One, 0, FALSE, <<>>)

\* A call that the program does not survive.
Crash == Node("Crash", One, 0, FALSE, <<>>)

zero == Integer(0)
one  == Integer(1)
two  == Integer(2)
mOne == Integer(-1)
half == Numeric(Ratio(1, 2))

\* Ranks of the names in use: "a" < "acos" < ... < "tan" < "tmp#" < "x".
NameOf(text) ==
    CHOOSE k \in 1 .. 41 :
        <<"11", "A", "a", "aBc123_a", "aBc123_aA321", "abcdefghijk_1", "acos",
          "alksdjflkasjf", "asin", "atan", "atan2", "b", "c", "cos", "d", "e", "f",
          "g", "h", "i", "k", "log", "m", "n", "pi", "sin", "sinn", "tan", "tmp#1",
          "tmp#2", "tmp#3", "tmp#4", "tmp#5", "tmp#6", "tmp#7", "tmp#8", "x", "x1",
          "x2", "y", "z">>[k] = text

Pi == Constant(NameOf("pi"))
E  == Constant(NameOf("e"))

isNumeric(e)   == e.type = "Numeric"
isSymbol(e)    == e.type = "Symbol"
isConstant(e)  == e.type = "Constant"
isPower(e)     == e.type = "Power"
isProduct(e)   == e.type = "Product"
isSum(e)       == e.type = "Sum"
isFunction(e)  == e.type = "Function"
isUndefined(e) == e.type = "Undefined"

isOne(e)  == e = one
isZero(e) == e = zero

Base(e) == IF isPower(e) THEN e.ops[1] ELSE e
Exp(e)  == IF isPower(e) THEN e.ops[2] ELSE one

isNumericPower(e) == isPower(e) /\ isNumeric(Base(e)) /\ isNumeric(Exp(e))

hasUndefinedElements(list) == \E k \in DOMAIN list : isUndefined(list[k])
hasZeroElements(list)      == \E k \in DOMAIN list : isZero(list[k])
hasSumElements(list)       == \E k \in DOMAIN list : isSum(list[k])

\* Undefined is not even equal to itself.
isEqual(e, other) == e = other /\ ~isUndefined(e)

RECURSIVE Has(_, _)
Has(e, other) == isEqual(e, other) \/ \E k \in DOMAIN e.ops : Has(e.ops[k], other)

\* Functions and constants count as symbols here, even log(2).
RECURSIVE isConst(_)
isConst(e) ==
    \/ isNumeric(e)
    \/ e.type \in {"Power", "Product", "Sum"} /\ \A k \in DOMAIN e.ops : isConst(e.ops[k])

getConstElements(list)    == SelectSeq(list, isConst)
getNonConstElements(list) == SelectSeq(list, LAMBDA e : ~isConst(e))

Sum2(m, n) == m + n

RECURSIVE Complexity(_)
Complexity(e) ==
    LET ofOperands == FoldLeft(Sum2, 0, [k \in DOMAIN e.ops |-> Complexity(e.ops[k])])
    IN  CASE isNumeric(e)  -> IF IsInt(e.q) THEN 1 ELSE 2
          [] isConstant(e) -> 4
          [] isSymbol(e)   -> 5
          [] isPower(e)    -> 5 + Complexity(e.ops[1]) + 2 * Complexity(e.ops[2])
          [] isFunction(e) -> 6 + ofOperands
          [] OTHER         -> 5 + ofOperands

-----------------------------------------------------------------------------
(* Numbers with an approximation of doubles, and numericEval. *)

Scale == 1000

NotEvaluable == [num |-> 0, den |-> -1]

IsDouble(n)     == n.den = 0
IsEvaluable(n)  == n.den >= 0
IsRational(n)   == n.den > 0
Scaled(n)       == IF IsDouble(n) THEN n.num ELSE (n.num * Scale) \div n.den
Double(scaled)  == [num |-> scaled, den |-> 0]
NumberSign(n)   == IF n.num < 0 THEN -1 ELSE IF n.num > 0 THEN 1 ELSE 0
IsLess(m, n)    == IF IsDouble(m) \/ IsDouble(n) THEN Scaled(m) < Scaled(n)
                   ELSE m.num * n.den < n.num * m.den

NumberSum(m, n) ==
    IF ~IsEvaluable(m) \/ ~IsEvaluable(n) THEN NotEvaluable
    ELSE IF IsDouble(m) \/ IsDouble(n) THEN Double(Scaled(m) + Scaled(n))
    ELSE Ratio(m.num * n.den + n.num * m.den, m.den * n.den)

\* (m * n) \div Scale in two parts: numbers in TLC are bounded.
ScaledProduct(m, n) == (m \div Scale) * n + ((m % Scale) * n) \div Scale

NumberProduct(m, n) ==
    IF ~IsEvaluable(m) \/ ~IsEvaluable(n) THEN NotEvaluable
    ELSE IF IsDouble(m) \/ IsDouble(n) THEN Double(ScaledProduct(Scaled(m), Scaled(n)))
    ELSE Times(m, n)

\* The greatest scaled number: powers of positive numbers are cut off there.
MaxScaled == 2000 * Scale

\* x^k of a scaled number.
scaledPower[x \in Int, k \in Nat] ==
    IF k = 0 THEN Scale
    ELSE IF x > Scale /\ scaledPower[x, k - 1] > (MaxScaled \div x) * Scale THEN MaxScaled
    ELSE ScaledProduct(x, scaledPower[x, k - 1])

\* The k-th root of the scaled number x, by bisection of low .. high.
RECURSIVE ScaledRoot(_, _, _, _)
ScaledRoot(x, k, low, high) ==
    LET middle == (low + high + 1) \div 2
    IN  IF low = high THEN low
        ELSE IF scaledPower[middle, k] <= x THEN ScaledRoot(x, k, middle, high)
        ELSE ScaledRoot(x, k, low, middle - 1)

\* Number::toThe; the exponents of the instances are rational.
NumberPower(m, n) ==
    LET exact  == IF IsRational(m) /\ IsRational(n) THEN ToThe(m, n) ELSE NotRational
        powers == scaledPower[Scaled(m), AbsInt(n.num)]
        roots  == IF IsInt(n) THEN powers ELSE ScaledRoot(powers, n.den, 0, Scale + powers)
    IN  IF ~IsEvaluable(m) \/ ~IsRational(n) THEN NotEvaluable
        ELSE IF exact # NotRational THEN exact
        ELSE IF n.num < 0 THEN Double((Scale * Scale) \div roots)
        ELSE Double(roots)

\* Functions of numbers are not evaluated in the instances of this module.
RECURSIVE numericEval(_)
numericEval(e) ==
    LET values == <<>> \o [k \in DOMAIN e.ops |-> numericEval(e.ops[k])]
    IN  CASE isNumeric(e)  -> e.q
          [] isConstant(e) -> Double(IF e = Pi THEN 3142 ELSE 2718)
          [] isPower(e)    -> NumberPower(values[1], values[2])
          [] isProduct(e)  -> FoldLeft(NumberProduct, One, values)
          [] isSum(e)      -> FoldLeft(NumberSum, Whole(0), values)
          [] OTHER         -> NotEvaluable

isNumericallyEvaluable(e) == IsEvaluable(numericEval(e))
isRationalNumeric(e)      == IsRational(numericEval(e))
isInteger(e)              == numericEval(e).den = 1
isFractionNumeric(e)      == numericEval(e).den > 1
isNegativeNumeric(e)      == isNumeric(e) /\ e.q.num < 0

=============================================================================
