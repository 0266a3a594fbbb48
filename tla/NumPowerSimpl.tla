---------------------------- MODULE NumPowerSimpl ----------------------------
(***************************************************************************)
(* Simplification of preFactor * base^exp with rational numbers, as in the *)
(* class NumPowerSimpl, and the way its clients use it: a result that is   *)
(* still a power is put together again by Power::create and                *)
(* Product::create, which simplify it once more, until nothing changes.    *)
(*                                                                         *)
(* One action per method; the methods that only branch are folded into the *)
(* guards.  The stack of method calls is the program counter together with *)
(* the variable inverted, which says that computeNegExp is on it.          *)
(***************************************************************************)
EXTENDS PrimeFac

CONSTANTS
    Powers,         \* base and exponent of the first power: pairs of fractions
    Factors,        \* numerics a power is multiplied with later
    MaxPrimeLimit,  \* options::getMaxPrimeResolution()
    MaxRounds       \* bound on the objects of this class constructed in a row

ASSUME LimitAssumption == MaxPrimeLimit \in Nat /\ MaxRounds \in Nat

\* Bases zero and one, exponents zero and one never get here (power.cpp:50-58).
ASSUME PowersAssumption ==
    /\ Powers \subseteq Rational \X Rational
    /\ Factors \subseteq Rational
    /\ \A p \in Powers : InLowestTerms(p[1]) /\ InLowestTerms(p[2])
    /\ \A f \in Factors : f.num # 0
    /\ \A p \in Powers : p[1].num # 0 /\ p[1] # One /\ p[2].num # 0 /\ p[2] # One

VARIABLES
    orig,               \* the payload given to the constructor
    result,             \* the payload being worked on
    isPreFacNegative,
    nbPrimes,           \* the primes of the base
    pfPrimes,           \* the primes of the prefactor, later those extracted
    inverted,
    simplified,         \* orig is the result of an earlier simplification
    round,
    pc

vars == <<orig, result, isPreFacNegative, nbPrimes, pfPrimes, inverted,
          simplified, round, pc>>

Payload == [base : Rational, exp : Rational, preFactor : Rational]

\* The constructor for the first power; the later ones are in Reconstruct.
Init ==
    /\ \E p \in Powers : orig = [base |-> p[1], exp |-> p[2], preFactor |-> One]
    /\ result = orig
    /\ isPreFacNegative = FALSE
    /\ nbPrimes = NoFactors
    /\ pfPrimes = NoFactors
    /\ inverted = FALSE
    /\ simplified = FALSE
    /\ round = 1
    /\ pc = "compute"

Object == <<orig, simplified, round>>   \* not changed by the computation

IsInputValid == ~(result.base.num < 0 /\ IsFraction(result.exp))

\* Illegal input is reported and returned as it is.
Reject ==
    /\ pc = "compute"
    /\ ~IsInputValid
    /\ pc' = "done"
    /\ UNCHANGED <<result, isPreFacNegative, nbPrimes, pfPrimes, inverted, Object>>

ComputeNegExp ==
    /\ pc = "compute"
    /\ IsInputValid
    /\ result.exp.num < 0
    /\ result' = [result EXCEPT !.exp = Negative(@), !.preFactor = Reciprocal(@)]
    /\ inverted' = TRUE
    /\ pc' = "computePosExp"
    /\ UNCHANGED <<isPreFacNegative, nbPrimes, pfPrimes, Object>>

ComputePosExp ==
    /\ pc = "compute"
    /\ IsInputValid
    /\ result.exp.num >= 0
    /\ pc' = "computePosExp"
    /\ UNCHANGED <<result, isPreFacNegative, nbPrimes, pfPrimes, inverted, Object>>

\* The exponent is an integer, because the input is valid.
ShiftNegBase ==
    /\ pc = "computePosExp"
    /\ result.base.num < 0
    /\ result' = [result EXCEPT !.base = Negative(@),
                                !.preFactor = Times(@, ToThe(Whole(-1), result.exp))]
    /\ UNCHANGED <<isPreFacNegative, nbPrimes, pfPrimes, inverted, pc, Object>>

\* FAULT: the sign is remembered and stays.
ComputePosExpPosBaseKeepingSign ==
    /\ pc = "computePosExp"
    /\ result.base.num >= 0
    /\ isPreFacNegative' = (result.preFactor.num < 0)
    /\ pc' = "computeAllPos"
    /\ UNCHANGED <<result, nbPrimes, pfPrimes, inverted, Object>>

\* computePosExpPosBase, with shiftNegPreFac.
ComputePosExpPosBase ==
    /\ pc = "computePosExp"
    /\ result.base.num >= 0
    /\ isPreFacNegative' = (result.preFactor.num < 0)
    /\ result' = [result EXCEPT !.preFactor.num = AbsInt(@)]
    /\ pc' = "computeAllPos"
    /\ UNCHANGED <<nbPrimes, pfPrimes, inverted, Object>>

AreValuesSmallEnough ==
    \A q \in {result.base, result.preFactor} :
        AbsInt(q.num) <= MaxPrimeLimit /\ q.den <= MaxPrimeLimit

\* computeAllPos: without prime factorization, only an integer power is resolved.
SkipCancel ==
    /\ pc = "computeAllPos"
    /\ ~AreValuesSmallEnough
    /\ pc' = IF IsInt(result.exp) THEN "adjustExpGreaterThanOne" ELSE "shiftPreFacSignBack"
    /\ UNCHANGED <<result, isPreFacNegative, nbPrimes, pfPrimes, inverted, Object>>

\* FAULT: the prefactor is left in place when it is moved into the power.
DefPrimesKeepingPreFac ==
    LET inPower == ToThe(result.preFactor, Ratio(1, result.exp.num))
    IN  /\ pc = "computeAllPos"
        /\ AreValuesSmallEnough
        /\ nbPrimes' = Factorize(result.base)
        /\ pfPrimes' = IF inPower = NotRational THEN pfPrimes
                       ELSE ToTheInt(Factorize(inPower), result.exp.den)
        /\ pc' = "cancelAndExtract"
        /\ UNCHANGED <<result, isPreFacNegative, inverted, Object>>

\* defNewBasePrimes and defPreFacPrimesInPower: the prefactor is moved into the power
\* if it can be expressed there exactly.
DefPrimes ==
    LET inPower == ToThe(result.preFactor, Ratio(1, result.exp.num))
        movable == inPower # NotRational
    IN  /\ pc = "computeAllPos"
        /\ AreValuesSmallEnough
        /\ nbPrimes' = Factorize(result.base)
        /\ pfPrimes' = IF movable THEN ToTheInt(Factorize(inPower), result.exp.den)
                       ELSE pfPrimes
        /\ result' = IF movable THEN [result EXCEPT !.preFactor = One] ELSE result
        /\ pc' = "cancelAndExtract"
        /\ UNCHANGED <<isPreFacNegative, inverted, Object>>

CancelAndExtract ==
    LET product    == Multiply(nbPrimes, pfPrimes)
        extraction == Extraction(product, result.exp)
    IN  /\ pc = "cancelAndExtract"
        /\ nbPrimes' = AfterExtraction(product, result.exp)
        /\ pfPrimes' = extraction
        /\ result' = [result EXCEPT !.preFactor = Times(@, Eval(extraction))]
        /\ pc' = "collectPrimesInPower"
        /\ UNCHANGED <<isPreFacNegative, inverted, Object>>

CollectPrimesInPower ==
    /\ pc = "collectPrimesInPower"
    /\ result' = [result EXCEPT !.exp = CollectedExp(nbPrimes, @)]
    /\ nbPrimes' = AfterCollection(nbPrimes)
    /\ pc' = "primesToComponents"
    /\ UNCHANGED <<isPreFacNegative, pfPrimes, inverted, Object>>

\* The value of a power that is resolved becomes the base.
PrimesToComponents ==
    LET base == Eval(nbPrimes)
    IN  /\ pc = "primesToComponents"
        /\ result' = IF base = One
                       THEN [result EXCEPT !.base = result.preFactor, !.preFactor = One]
                       ELSE [result EXCEPT !.base = base]
        /\ pc' = "adjustExpGreaterThanOne"
        /\ UNCHANGED <<isPreFacNegative, nbPrimes, pfPrimes, inverted, Object>>

\* The exponent is positive here, so that division truncates like the code's.
AdjustExpGreaterThanOne ==
    LET expFloor == result.exp.num \div result.exp.den
    IN  /\ pc = "adjustExpGreaterThanOne"
        /\ result' =
             IF GreaterThan(result.exp, 1)
               THEN [result EXCEPT !.preFactor = Times(@, ToThe(result.base, Whole(expFloor))),
                                   !.exp = MinusInt(@, expFloor)]
               ELSE result
        /\ pc' = "shiftPreFacSignBack"
        /\ UNCHANGED <<isPreFacNegative, nbPrimes, pfPrimes, inverted, Object>>

\* The end of computeAllPos.
ShiftPreFacSignBack ==
    /\ pc = "shiftPreFacSignBack"
    /\ result' = IF ~isPreFacNegative THEN result
                 ELSE IF result.exp = One THEN [result EXCEPT !.base = Negative(@)]
                 ELSE [result EXCEPT !.preFactor = Negative(@)]
    /\ pc' = IF inverted THEN "finishNegExp" ELSE "adjustExpSignAndBase"
    /\ UNCHANGED <<isPreFacNegative, nbPrimes, pfPrimes, inverted, Object>>

\* The rest of computeNegExp.
FinishNegExp ==
    /\ pc = "finishNegExp"
    /\ result' = [result EXCEPT
                    !.preFactor = Reciprocal(@),
                    !.base = IF result.exp = One THEN Reciprocal(@) ELSE @,
                    !.exp  = IF result.exp = One THEN @ ELSE Negative(@)]
    /\ pc' = "adjustExpSignAndBase"
    /\ UNCHANGED <<isPreFacNegative, nbPrimes, pfPrimes, inverted, Object>>

\* FAULT: fractions are inverted whatever the sign of the exponent is.
AdjustExpSignAndBaseAlways ==
    /\ pc = "adjustExpSignAndBase"
    /\ result' = IF result.exp # One /\ IsFraction(result.base)
                   THEN [result EXCEPT !.base = Reciprocal(@), !.exp = Negative(@)]
                   ELSE result
    /\ pc' = "done"
    /\ UNCHANGED <<isPreFacNegative, nbPrimes, pfPrimes, inverted, Object>>

AdjustExpSignAndBase ==
    /\ pc = "adjustExpSignAndBase"
    /\ result' = IF \/ result.base.num = 1 /\ result.exp # One
                    \/ result.exp.num < 0 /\ IsFraction(result.base)
                   THEN [result EXCEPT !.base = Reciprocal(@), !.exp = Negative(@)]
                   ELSE result
    /\ pc' = "done"
    /\ UNCHANGED <<isPreFacNegative, nbPrimes, pfPrimes, inverted, Object>>

-----------------------------------------------------------------------------
(* The clients.  A result whose exponent is zero or one is a numeric.      *)

StillPower == IsInputValid /\ result.exp.num # 0 /\ result.exp # One /\ result.base # One

Reconstruct(preFactor) ==
    /\ pc = "done"
    /\ round < MaxRounds
    /\ StillPower
    /\ orig' = [result EXCEPT !.preFactor = preFactor]
    /\ result' = orig'
    /\ isPreFacNegative' = FALSE
    /\ nbPrimes' = NoFactors
    /\ pfPrimes' = NoFactors
    /\ inverted' = FALSE
    /\ round' = round + 1
    /\ pc' = "compute"

\* Power::create on base and exponent, then Product::create on prefactor and power.
SimplifyAgain ==
    /\ \E preFactor \in {One, result.preFactor} : Reconstruct(preFactor)
    /\ simplified' = TRUE

\* simplNumAndNumPow for a product with another numeric.
SimplNumAndNumPow ==
    /\ \E f \in Factors : Reconstruct(Times(result.preFactor, f))
    /\ simplified' = FALSE

Next ==
    \/ Reject
    \/ ComputeNegExp
    \/ ComputePosExp
    \/ ShiftNegBase
    \/ ComputePosExpPosBase
    \/ SkipCancel
    \/ DefPrimes
    \/ CancelAndExtract
    \/ CollectPrimesInPower
    \/ PrimesToComponents
    \/ AdjustExpGreaterThanOne
    \/ ShiftPreFacSignBack
    \/ FinishNegExp
    \/ AdjustExpSignAndBase
    \/ SimplifyAgain
    \/ SimplNumAndNumPow

Spec == Init /\ [][Next]_vars

-----------------------------------------------------------------------------
(* Properties. *)

\* The vectors stay in ascending order and without common primes, which the iterators
\* of cancelPrimes, extractPrimes and getEqualCount rely on.
FactorsReduced ==
    \A f \in {nbPrimes, pfPrimes} :
        /\ Ascending(f.nums) /\ Ascending(f.dens)
        /\ \A j \in DOMAIN f.nums, k \in DOMAIN f.dens : f.nums[j] # f.dens[k]

\* The domains of the variables.
TypeOK ==
    /\ orig \in Payload
    /\ result \in Payload
    /\ \A q \in {result.base, result.exp, result.preFactor} : InLowestTerms(q)
    /\ isPreFacNegative \in BOOLEAN
    /\ nbPrimes \in Factorization
    /\ pfPrimes \in Factorization
    /\ FactorsReduced
    /\ inverted \in BOOLEAN
    /\ simplified \in BOOLEAN
    /\ round \in Nat
    /\ pc \in {"compute", "computePosExp", "computeAllPos", "cancelAndExtract",
               "collectPrimesInPower", "primesToComponents", "adjustExpGreaterThanOne",
               "shiftPreFacSignBack", "finishNegExp", "adjustExpSignAndBase", "done"}

PrimesOf(x) ==
    UNION {{primeFactors[k][j] : j \in DOMAIN primeFactors[k]} :
             k \in {AbsInt(x.base.num), x.base.den, AbsInt(x.preFactor.num), x.preFactor.den}}

\* How often the prime p occurs in preFactor * base^exp: a fraction times exp.den.
Exponent(p, x) ==
    x.exp.den * Multiplicity(p, x.preFactor) + x.exp.num * Multiplicity(p, x.base)

SignOf(x) ==
    (x.preFactor.num < 0) # (x.base.num < 0 /\ x.exp.num % 2 # 0)

SameValue(x, y) ==
    /\ SignOf(x) = SignOf(y)
    /\ \A p \in PrimesOf(x) \cup PrimesOf(y) :
         Exponent(p, x) * y.exp.den = Exponent(p, y) * x.exp.den

\* numpowersimpl.cpp:151-152, "all components [...] are [...] positive rational numbers":
\* whatever signs came in and were moved about, trial division gets neither zero, for
\* which its loops would not end, nor a negative number.
PositiveWhenFactorized ==
    pc = "computeAllPos" =>
        result.base.num > 0 /\ result.exp.num > 0 /\ result.preFactor.num > 0

\* The point of the class: whatever was moved into the power, cancelled, extracted,
\* collected and inverted, the result has exactly the value of the input.
ValuePreserved == pc = "done" => SameValue(result, orig)

\* Simplifying a simplified power again changes nothing: Power::create and
\* Product::create, which call each other on the components, come to an end.
StableWhenSimplified == (pc = "done" /\ simplified) => result = orig

\* numpowersimpl.h:16-30: the sign is in the prefactor, a negative exponent belongs to
\* an integer, and a power that could be resolved has exponent one and prefactor one.
\* (An integer exponent greater than one leaves exponent zero behind.)
Representation ==
    (pc = "done" /\ IsInputValid) =>
        /\ result.base.num < 0 => result.exp = One
        /\ result.exp.num < 0 => IsInt(result.base)
        /\ result.exp = One => result.preFactor = One
        /\ result.base = One => result.exp = One

-----------------------------------------------------------------------------
(* A statement of the repository that the code does not satisfy. *)

Count(p, primes) == Len(SelectSeq(primes, LAMBDA q : q = p))

\* primefac.h:39-40, "Counts the occurrences of prime numbers, if they are all
\* identical, duplicates are dropped": never if they are not.
DroppedOnlyIfIdentical ==
    [][(pc = "collectPrimesInPower" /\ nbPrimes' # nbPrimes) =>
         \A s, t \in {nbPrimes.nums, nbPrimes.dens} :
           \A j \in DOMAIN s, k \in DOMAIN t : Count(s[j], s) = Count(t[k], t)]_vars

=============================================================================
