----------------------------- MODULE PolyOperations -----------------------------
(***************************************************************************)
(* A caller of the functions of poly.h: it multiplies two polynomials from *)
(* irreducible factors and numbers, so that their greatest common divisor  *)
(* is known, and divides them or computes the divisor.  The functions      *)
(* depend on nothing but their arguments: a state holds the call, and      *)
(* Arguments and Result are what it passes and returns.                    *)
(***************************************************************************)
EXTENDS Polynomials

CONSTANTS Factors,          \* a sequence of integers and irreducible polynomials with
                            \* coprime integer coefficients
          Divisors,         \* further divisors, which leave remainders
          MaxFactors,       \* bounds on the number of factors of u and of v
          PseudoVariable    \* the variable of pseudo-divisions

ASSUME BoundAssumption == MaxFactors \in Nat \X Nat

VARIABLES u, v,             \* the two polynomials: ascending positions of factors
          call,             \* the function that is called, "none" before
          divisor           \* a further divisor that is passed instead of v

vars == <<u, v, call, divisor>>

FactorsAt(positions) == [k \in DOMAIN positions |-> Factors[positions[k]]]

Expanded(positions) == Expand(ProductCreate(FactorsAt(positions)))

Arguments(x, y, others) ==
    <<Expanded(x), IF others = {} THEN Expanded(y) ELSE CHOOSE d \in others : TRUE>>

Result(name, args) ==
    CASE name = "divide"       -> PolyDivide(args[1], args[2])
      [] name = "pseudoDivide" -> pseudoDivide(args[1], args[2], PseudoVariable)
      [] OTHER                 -> <<PolyGcd(args[1], args[2], name)>>

Init ==
    /\ u = <<>> /\ v = <<>>
    /\ call = "none"
    /\ divisor = {}

MayFollow(k, positions) == \A j \in DOMAIN positions : positions[j] <= k

MultiplyFactor(k) ==
    /\ call = "none"
    /\ UNCHANGED <<call, divisor>>
    /\ \/ Len(u) < MaxFactors[1] /\ v = <<>> /\ MayFollow(k, u) /\ u' = Append(u, k) /\ UNCHANGED v
       \/ Len(v) < MaxFactors[2] /\ MayFollow(k, v) /\ v' = Append(v, k) /\ UNCHANGED u

Call(name, others) ==
    /\ call = "none"
    /\ call' = name
    /\ divisor' = others
    /\ UNCHANGED <<u, v>>

\* poly::divide; the divisor may be another polynomial.
CallDivide(d) ==
    \/ v # <<>> /\ Call("divide", {})
    \/ v = <<>> /\ Call("divide", {d})

CallPseudoDivide == Call("pseudoDivide", {})

CallGcd(algo) == Call(algo, {})

Next ==
    \/ \E k \in DOMAIN Factors : MultiplyFactor(k)
    \/ \E d \in Divisors : CallDivide(d)
    \/ CallPseudoDivide
    \/ \E algo \in {"subresultant", "primitive"} : CallGcd(algo)

Spec == Init /\ [][Next]_vars

-----------------------------------------------------------------------------
(* Properties of the results: of the state that a call leads to.  Bound by *)
(* quantifiers, arguments and result are evaluated once.                   *)

OnCall(names, P(_, _)) ==
    call' \in names
      => \A name \in {call'} : \A args \in {Arguments(u', v', divisor')} :
           \A result \in {Result(name, args)} : P(args, result)

\* Quotient and remainder make up the dividend.
DivisionCorrect ==
    [][OnCall({"divide"}, LAMBDA args, result :
         args[1] = Expand(SumCreate(<<Expand(ProductCreate(<<result[1], args[2]>>)), result[2]>>)))]_vars

Sub(s, t) == \A f \in Range(s) : Len(SelectSeq(s, LAMBDA g : g = f)) <= Len(SelectSeq(t, LAMBDA g : g = f))

\* A product is divided by some of its factors without a remainder.
ExactDivision ==
    [][v' # <<>> /\ Sub(v', u') => OnCall({"divide"}, LAMBDA args, result : result[2] = zero)]_vars

\* The factors of s that are in t, as often as in both.
RECURSIVE Common(_, _)
Common(s, t) ==
    IF s = <<>> THEN <<>>
    ELSE IF Contains(t, Head(s)) THEN <<Head(s)>> \o Common(Tail(s), RemoveFirst(t, Head(s)))
    ELSE Common(Tail(s), t)

NumberOf(factors) == FoldLeft(LAMBDA n, f : IF isNumeric(f) THEN n * AbsInt(f.q.num) ELSE n, 1, factors)
PolynomialsOf(factors) == SelectSeq(factors, LAMBDA f : ~isNumeric(f))

\* The known divisor, up to the sign.
GreatestDivisor(s, t) ==
    Expand(ProductCreate(<<Integer(gcd[<<NumberOf(s), NumberOf(t)>>])>> \o Common(PolynomialsOf(s), PolynomialsOf(t))))

\* Both algorithms return the greatest common divisor.
GcdCorrect ==
    [][\A s \in {FactorsAt(u')}, t \in {FactorsAt(v')} :
         OnCall({"subresultant", "primitive"}, LAMBDA args, result :
           result[1] \in {GreatestDivisor(s, t), Expand(Minus(GreatestDivisor(s, t)))})]_vars

\* The power of the leading coefficient of y that x is multiplied with.
LeadingPower(x, y) ==
    PowerCreate(leadingCoeff(y, PseudoVariable),
                Integer(MaxOf(degree(x, PseudoVariable) - degree(y, PseudoVariable) + 1, 0)))

\* A pseudo-division by a polynomial of positive degree ends with a remainder of a smaller
\* degree, also if a round lowers the degree by more than one.  The dividend, multiplied
\* by a power of the leading coefficient of the divisor, is the product of pseudo-quotient
\* and divisor plus the remainder; if there is no remainder, the round that found this is
\* not counted and the pseudo-quotient has the leading coefficient as a factor once more.
PseudoDivisionCorrect ==
    [][OnCall({"pseudoDivide"}, LAMBDA args, result :
         LET r     == result[2]
             extra == IF r = zero THEN leadingCoeff(args[2], PseudoVariable) ELSE one
         IN  /\ r = zero \/ degree(r, PseudoVariable) < degree(args[2], PseudoVariable)
             /\ Expand(ProductCreate(<<extra, LeadingPower(args[1], args[2]), args[1]>>))
                  = Expand(SumCreate(<<Expand(ProductCreate(<<result[1], args[2]>>)), r>>)))]_vars

=============================================================================
