-------------------------------- MODULE NumPow --------------------------------
(***************************************************************************)
(* What the class NumPowerSimpl computes, as one operator.  The modules    *)
(* about expressions use it; NumPowerSimpl.tla has the same computation    *)
(* step by step, and a run checks that the two agree.                      *)
(***************************************************************************)
EXTENDS PrimeFac

AreValuesBelow(x, limit) ==
    \A q \in {x.base, x.preFactor} : AbsInt(q.num) <= limit /\ q.den <= limit

ExpBelowOne(x) ==
    LET expFloor == x.exp.num \div x.exp.den
    IN  IF GreaterThan(x.exp, 1)
          THEN [x EXCEPT !.preFactor = Times(@, ToThe(x.base, Whole(expFloor))),
                         !.exp = MinusInt(@, expFloor)]
          ELSE x

\* defNewBasePrimes, defPreFacPrimesInPower, cancelAndExtractPrimes,
\* collectPrimesInPower and primesToComponents.
ThroughPrimes(x) ==
    LET inPower  == ToThe(x.preFactor, Ratio(1, x.exp.num))
        movable  == inPower # NotRational
        product  == Multiply(Factorize(x.base),
                             IF movable THEN ToTheInt(Factorize(inPower), x.exp.den) ELSE NoFactors)
        left     == AfterExtraction(product, x.exp)
        preFac   == Times(IF movable THEN One ELSE x.preFactor, Eval(Extraction(product, x.exp)))
        newBase  == Eval(AfterCollection(left))
        resolved == newBase = One
    IN  [base      |-> IF resolved THEN preFac ELSE newBase,
         exp       |-> CollectedExp(left, x.exp),
         preFactor |-> IF resolved THEN One ELSE preFac]

ComputeAllPos(x, limit) ==
    IF AreValuesBelow(x, limit) THEN ExpBelowOne(ThroughPrimes(x))
    ELSE IF IsInt(x.exp) THEN ExpBelowOne(x)
    ELSE x

ComputePositiveExp(x, limit) ==
    LET y == IF x.base.num < 0
               THEN [x EXCEPT !.base = Negative(@), !.preFactor = Times(@, ToThe(Whole(-1), x.exp))]
               ELSE x
        z == ComputeAllPos([y EXCEPT !.preFactor.num = AbsInt(@)], limit)
    IN  IF y.preFactor.num >= 0 THEN z
        ELSE IF z.exp = One THEN [z EXCEPT !.base = Negative(@)]
        ELSE [z EXCEPT !.preFactor = Negative(@)]

ComputeNegativeExp(x, limit) ==
    LET y == ComputePositiveExp([x EXCEPT !.exp = Negative(@), !.preFactor = Reciprocal(@)], limit)
    IN  [base      |-> IF y.exp = One THEN Reciprocal(y.base) ELSE y.base,
         exp       |-> IF y.exp = One THEN One ELSE Negative(y.exp),
         preFactor |-> Reciprocal(y.preFactor)]

\* x has the components base, exp and preFactor; limit is the maximum prime resolution.
SimplifiedNumPower(x, limit) ==
    LET y == IF x.exp.num < 0 THEN ComputeNegativeExp(x, limit) ELSE ComputePositiveExp(x, limit)
    IN  IF x.base.num < 0 /\ IsFraction(x.exp) THEN x
        ELSE IF \/ y.base.num = 1 /\ y.exp # One
                \/ y.exp.num < 0 /\ IsFraction(y.base)
          THEN [y EXCEPT !.base = Reciprocal(@), !.exp = Negative(@)]
        ELSE y

===============================================================================
