------------------------- MODULE TrigonometricTests -------------------------
(* Unit tests of trigonometric functions and normalization. *)
EXTENDS TestFixture

-----------------------------------------------------------------------------
(* testtrigonometric.cpp. *)

TrigonometricTests1(t, a) ==
    /\ Test(t, "typeRequest", isFunction(TrigCreate("sin", a)))
    /\ Test(t, "constRequest",
            ~isConst(TrigCreate("cos", a)) /\ ~isConst(TrigCreate("cos", two)))
    /\ Test(t, "sinFunctionName", NameOf("sin") = TrigCreate("sin", a).name)

TrigonometricTests2(t, a, b) ==
    /\ Test(t, "cosFunctionName", NameOf("cos") = TrigCreate("cos", a).name)
    /\ Test(t, "tanFunctionName", NameOf("tan") = TrigCreate("tan", a).name)
    /\ Test(t, "asinFunctionName", NameOf("asin") = TrigCreate("asin", a).name)
    /\ Test(t, "acosFunctionName", NameOf("acos") = TrigCreate("acos", a).name)
    /\ Test(t, "atanFunctionName", NameOf("atan") = TrigCreate("atan", a).name)
    /\ Test(t, "atan2FunctionName", NameOf("atan2") = Atan2Create(b, a).name)
    /\ Test(t, "trivialEquality",
            LET sinA == TrigCreate("sin", a)
            IN  sinA = sinA)
    /\ Test(t, "inequalityDifferentArg", TrigCreate("sin", a) # TrigCreate("sin", b))
    /\ Test(t, "inequalityDifferentTrigonometric", TrigCreate("sin", a) # TrigCreate("cos", a))
    /\ Test(t, "sinZero", TrigCreate("sin", zero) = zero)
    /\ Test(t, "cos345Degree",
            TrigCreate("cos", ProductCreate(<<Numeric(Ratio(23, 12)), Pi>>))
              = ProductCreate(<<fourth, SumCreate(<<Sqrt(six), Sqrt(two)>>)>>))
    /\ Test(t, "tan240Degree",
            TrigCreate("tan", ProductCreate(<<Numeric(Ratio(4, 3)), Pi>>)) = Sqrt(three))
    /\ Test(t, "atan2Order",
            LET atan2Ab == Atan2Create(a, b)
                atan2Ba == Atan2Create(b, a)
            IN  /\ atan2Ab.ops[1] = a
                /\ Last(atan2Ba.ops) = a
                /\ Last(atan2Ab.ops) = b
                /\ atan2Ba.ops[1] = b)
    /\ Test(t, "atan2XZeroNonEvaluable",
            LET res == Atan2Create(a, zero)
            IN  isFunction(res) /\ res.ops[1] = a /\ Last(res.ops) = zero)

TrigonometricTests3(t, a) ==
    /\ Test(t, "atan2SecondQuadrantResolvable",
            Atan2Create(one, mOne) = ProductCreate(<<Pi, Numeric(Ratio(3, 4))>>))
    /\ Test(t, "atan2ThirdQuadrantResolvable",
            Atan2Create(ProductCreate(<<Integer(-3), SumCreate(<<one, Sqrt(two)>>)>>),
                        Integer(-3))
              = ProductCreate(<<Numeric(Ratio(11, 8)), Pi>>))
    /\ Test(t, "atan2FourthQuadrantNonResolvable",
            Atan2Create(one, Integer(-2)) = Minus(TrigCreate("atan", half)))
    /\ Test(t, "atan2FourthQuadrantResolvable",
            Atan2Create(Minus(Sqrt(five)), Sqrt(five))
              = ProductCreate(<<Pi, Numeric(Ratio(7, 4))>>))
    /\ Test(t, "atan2XZeroEvaluable",
            /\ ProductCreate(<<half, Pi>>) = Atan2Create(Sqrt(two), zero)
            /\ ProductCreate(<<Numeric(Ratio(3, 2)), Pi>>)
                 = Atan2Create(ProductCreate(<<mOne, two, Sqrt(two)>>), zero))

TrigonometricTests4(t, a, b, c) ==
    /\ Test(t, "illegalAtan2", isUndefined(Atan2Create(zero, zero)))
    /\ Test(t, "undefinedArg", isUndefined(TrigCreate("sin", Undefined)))
    /\ Test(t, "undefinedArgAtan",
            isUndefined(Atan2Create(Undefined, a)) /\ isUndefined(Atan2Create(a, Undefined)))
    /\ Test(t, "sinOfAsin", TrigCreate("sin", TrigCreate("asin", a)) = a)
    /\ Test(t, "sinOfNegativeSum",
            LET theArg == SumCreate(<<ProductCreate(<<mOne, a, b, c>>),
                                      ProductCreate(<<Numeric(Ratio(-7, 8)), a>>),
                                      ProductCreate(<<mOne, a, TrigCreate("cos", b)>>)>>)
            IN  TrigCreate("sin", theArg) = Minus(TrigCreate("sin", Minus(theArg))))
    /\ Test(t, "sinOfNegativeProduct",
            LET theArg == ProductCreate(<<Numeric(Ratio(-1, 5)), PowerCreate(two, third), a>>)
            IN  TrigCreate("sin", theArg) = Minus(TrigCreate("sin", Minus(theArg))))
    /\ Test(t, "sinOfMinusAsin", TrigCreate("sin", Minus(TrigCreate("asin", a))) = Minus(a))
    /\ Test(t, "cosOfAcos", TrigCreate("cos", TrigCreate("acos", a)) = a)
    /\ Test(t, "cosOfNegativeNumericArg",
            TrigCreate("cos", Integer(-2)) = TrigCreate("cos", two))
    /\ Test(t, "cosOfNegativeProduct",
            LET theArg == ProductCreate(<<mOne, a, b, TrigCreate("atan", SumCreate(<<a, b>>))>>)
            IN  TrigCreate("cos", theArg) = TrigCreate("cos", Minus(theArg)))
    /\ Test(t, "cosOfMinusAcos",
            LET theArg == SumCreate(<<a, ProductCreate(<<two, b>>)>>)
            IN  TrigCreate("cos", Minus(TrigCreate("acos", theArg))) = theArg)
    /\ Test(t, "tanOfAtan", TrigCreate("tan", TrigCreate("atan", a)) = a)
    /\ Test(t, "tanOfSimpleNegativeProduct",
            TrigCreate("tan", Minus(a)) = Minus(TrigCreate("tan", a)))
    /\ Test(t, "atanOfNegSimpleProduct",
            TrigCreate("atan", Minus(a)) = Minus(TrigCreate("atan", a)))
    /\ Test(t, "atanOfNegSum",
            LET theArg == SumCreate(<<ProductCreate(<<mOne, two, a, b, c>>),
                                      ProductCreate(<<Numeric(Ratio(-7, 11)), Sqrt(two)>>),
                                      Minus(LogarithmCreate(SumCreate(<<Numeric(Ratio(-2, 3)),
                                                                        a>>)))>>)
            IN  TrigCreate("atan", theArg) = Minus(TrigCreate("atan", Minus(theArg))))
    /\ Test(t, "tanOfMinusAtan", TrigCreate("tan", Minus(TrigCreate("atan", a))) = Minus(a))
    /\ Test(t, "tanOfMinusAsin",
            TrigCreate("tan", Minus(TrigCreate("asin", a)))
              = ProductCreate(<<mOne, a,
                                PowerCreate(SumCreate(<<one, ProductCreate(<<mOne, a, a>>)>>),
                                            Numeric(Ratio(-1, 2)))>>))

TrigonometricTests5(t, a) ==
    /\ Test(t, "atanOfTan",
            LET tan  == TrigCreate("tan", a)
                atan == TrigCreate("atan", tan)
            IN  isFunction(atan) /\ NameOf("atan") = atan.name /\ tan = atan.ops[1])
    /\ Test(t, "sinOfCos",
            LET res == TrigCreate("cos", TrigCreate("sin", a))
            IN  isFunction(res) /\ isFunction(res.ops[1]) /\ (res.ops[1].ops)[1] = a)
    /\ Test(t, "asinOfSin",
            LET res == TrigCreate("asin", TrigCreate("sin", a))
            IN  isFunction(res) /\ isFunction(res.ops[1]) /\ (res.ops[1].ops)[1] = a)
    /\ Test(t, "asinOfMinusSin",
            TrigCreate("asin", Minus(TrigCreate("sin", a)))
              = Minus(TrigCreate("asin", TrigCreate("sin", a))))
    /\ Test(t, "acosOfCos",
            LET res == TrigCreate("acos", TrigCreate("cos", a))
            IN  isFunction(res) /\ Len(res.ops) = 1 /\ res.ops[1] = TrigCreate("cos", a))
    /\ Test(t, "acosOfMinusCos",
            TrigCreate("acos", Minus(TrigCreate("cos", a)))
              = SumCreate(<<Pi, Minus(TrigCreate("acos", TrigCreate("cos", a)))>>))
    /\ Test(t, "asinOfSinOfNumEvalNoShift",
            LET theArg == OneOver(Minus(PowerCreate(five, half)))
            IN  TrigCreate("asin", TrigCreate("sin", theArg)) = theArg)
    /\ Test(t, "asinOfSinOfNumEvalNoShift2",
            LET theArg == Numeric(Ratio(2, 17))
            IN  TrigCreate("asin", TrigCreate("sin", theArg)) = theArg)
    /\ Test(t, "asinOfSinOfNumEvalNegShift",
            TrigCreate("asin", TrigCreate("sin", ProductCreate(<<Numeric(Ratio(13, 4)), Pi>>)))
              = ProductCreate(<<Numeric(Ratio(-1, 4)), Pi>>))
    /\ Test(t, "asinOfSinOfNumEvalNegShift2",
            LET theArg == ProductCreate(<<Integer(12), Sqrt(Pi)>>)
            IN  TrigCreate("asin", TrigCreate("sin", theArg))
                  = SumCreate(<<ProductCreate(<<seven, Pi>>), Minus(theArg)>>))
    /\ Test(t, "asinOfSinOfNumEvalPosShift",
            TrigCreate("asin",
                       TrigCreate("sin",
                                  SumCreate(<<Numeric(Ratio(2, 15)),
                                              ProductCreate(<<Numeric(Ratio(-79, 7)), Pi>>)>>)))
              = SumCreate(<<ProductCreate(<<Numeric(Ratio(2, 7)), Pi>>),
                            Numeric(Ratio(-2, 15))>>))
    /\ Test(t, "asinOfSinOfNumEvalPosShift2",
            TrigCreate("asin", TrigCreate("sin", ProductCreate(<<Numeric(Ratio(-6, 7)), Pi>>)))
              = ProductCreate(<<Numeric(Ratio(-1, 7)), Pi>>))
    /\ Test(t, "asinOfMinusAsinNumEval",
            TrigCreate("asin", Minus(TrigCreate("sin", half))) = Numeric(Ratio(-1, 2)))
    /\ Test(t, "atanOfTanNumEvalNoShift", TrigCreate("atan", TrigCreate("tan", half)) = half)

TrigonometricTests6(t, a) ==
    /\ Test(t, "atanOfTanNumEvalWithNegShift",
            LET res == TrigCreate("atan", TrigCreate("tan", a))
            IN  /\ isFunction(res)
                /\ isFunction(res.ops[1])
                /\ SumCreate(<<two, Minus(Pi)>>) = Subst(res, a, two))
    /\ Test(t, "atanOfTanNumEvalWithPosShift",
            LET sqrt == Minus(Sqrt(three))
            IN  TrigCreate("atan",
                           TrigCreate("tan",
                                      SumCreate(<<ProductCreate(<<Numeric(Ratio(-23, 21)), Pi>>),
                                                  sqrt>>)))
                  = SumCreate(<<ProductCreate(<<Numeric(Ratio(19, 21)), Pi>>), sqrt>>))
    /\ Test(t, "atanOfMinusTanNumEval",
            TrigCreate("atan", Minus(TrigCreate("tan", Numeric(Ratio(-1, 2))))) = half)
    /\ Test(t, "acosOfCosNumEvalNoShift", TrigCreate("acos", TrigCreate("cos", half)) = half)
    /\ Test(t, "acosOfCosNumEvalPosShift",
            LET sqrt == Sqrt(Integer(21))
            IN  SumCreate(<<ProductCreate(<<Numeric(Ratio(13, 8)), Pi>>), Minus(sqrt)>>)
                  = TrigCreate("acos",
                               TrigCreate("cos",
                                          Minus(SumCreate(<<sqrt,
                                                            ProductCreate(<<Numeric(Ratio(3, 8)),
                                                                            Pi>>)>>)))))

TrigonometricTests7(t, a) ==
    /\ Test(t, "acosOfCosNumEvalNegShiftAndCorrection",
            TrigCreate("acos", TrigCreate("cos", ProductCreate(<<Numeric(Ratio(37, 11)), Pi>>)))
              = ProductCreate(<<Numeric(Ratio(7, 11)), Pi>>))
    /\ Test(t, "acosOfCosNumEvalPosShiftAndCorrection",
            LET sqrt == Sqrt(Integer(21))
            IN  TrigCreate("acos", TrigCreate("cos", Minus(SumCreate(<<sqrt, Minus(Pi)>>))))
                  = SumCreate(<<sqrt, Minus(Pi)>>))
    /\ Test(t, "acosOfNegativeCosNumEvalWithShift",
            TrigCreate("acos", Minus(TrigCreate("cos", half)))
              = SumCreate(<<Pi, Numeric(Ratio(-1, 2))>>))
    /\ Test(t, "sinOfAcos",
            TrigCreate("sin", TrigCreate("acos", a))
              = Sqrt(SumCreate(<<one, Minus(PowerCreate(a, two))>>)))
    /\ Test(t, "cosOfAsin",
            TrigCreate("cos", TrigCreate("asin", a))
              = Sqrt(SumCreate(<<one, Minus(PowerCreate(a, two))>>)))
    /\ Test(t, "sinOfAtan",
            TrigCreate("sin", TrigCreate("atan", a))
              = ProductCreate(<<a,
                                PowerCreate(SumCreate(<<PowerCreate(a, two), one>>),
                                            Numeric(Ratio(-1, 2)))>>))
    /\ Test(t, "cosOfAtan",
            TrigCreate("cos", TrigCreate("atan", a))
              = PowerCreate(SumCreate(<<PowerCreate(a, two), one>>), Numeric(Ratio(-1, 2))))
    /\ Test(t, "tanOfAsin",
            TrigCreate("tan", TrigCreate("asin", a))
              = ProductCreate(<<a,
                                PowerCreate(SumCreate(<<one, Minus(PowerCreate(a, two))>>),
                                            Numeric(Ratio(-1, 2)))>>))
    /\ Test(t, "tanOfAcos",
            TrigCreate("tan", TrigCreate("acos", a))
              = ProductCreate(<<Sqrt(SumCreate(<<one, Minus(PowerCreate(a, two))>>)),
                                OneOver(a)>>))
    /\ Test(t, "atan2OfSinCos",
            LET cosA == TrigCreate("cos", a)
                sinA == TrigCreate("sin", a)
                res  == Atan2Create(sinA, cosA)
            IN  isFunction(res) /\ res.ops[1] = sinA /\ Last(res.ops) = cosA)
    /\ Test(t, "atan2OfNumericsNotResolvableArg",
            Atan2Create(Numeric(Ratio(2, 3)), Numeric(Ratio(7, 11)))
              = TrigCreate("atan", Numeric(Ratio(22, 21))))

TrigonometricTests8(t, a, b) ==
    /\ Test(t, "atan2OfNegNumEvaluableArg",
            Atan2Create(Numeric(Ratio(-2, 3)), seven)
              = Minus(TrigCreate("atan", Numeric(Ratio(2, 21)))))
    /\ Test(t, "atan2OfNegSymbolicArg",
            LET res == Atan2Create(Minus(a), b)
            IN  isFunction(res) /\ res.ops[1] = Minus(a) /\ Last(res.ops) = b)
    /\ Test(t, "tanOfAtan2",
            TrigCreate("tan", Atan2Create(b, a)) = ProductCreate(<<b, OneOver(a)>>))
    /\ Test(t, "cosOfAtan2",
            TrigCreate("cos", Atan2Create(b, a))
              = ProductCreate(<<a,
                                PowerCreate(SumCreate(<<PowerCreate(a, two),
                                                        PowerCreate(b, two)>>),
                                            Numeric(Ratio(-1, 2)))>>))
    /\ Test(t, "sinOfAtan2",
            TrigCreate("sin", Atan2Create(b, a))
              = ProductCreate(<<b,
                                PowerCreate(SumCreate(<<PowerCreate(a, two),
                                                        PowerCreate(b, two)>>),
                                            Numeric(Ratio(-1, 2)))>>))
    /\ Test(t, "sinOfAtan2NegDeltaYOnly",
            TrigCreate("sin", Atan2Create(Minus(PositiveSymbol(NameOf("a"))), zero)) = mOne)
    /\ Test(t, "sinOfAtan2NegDeltaYSumOnly",
            TrigCreate("sin",
                       Atan2Create(SumCreate(<<Minus(PositiveSymbol(NameOf("a"))),
                                               Minus(PositiveSymbol(NameOf("b")))>>),
                                   zero))
              = mOne)

TrigonometricTests9(t, a) ==
    /\ Test(t, "numericTerm", numericTerm(TrigCreate("sin", a)) = one)
    /\ Test(t, "nonNumericTerm",
            LET sinA == TrigCreate("sin", a)
            IN  sinA = nonNumericTerm(sinA))
    /\ Test(t, "constTerm", constTerm(TrigCreate("sin", two)) = one)
    /\ Test(t, "nonConstTerm",
            LET sinTwo == TrigCreate("sin", two)
            IN  sinTwo = nonConstTerm(sinTwo))

TrigonometricTests10(t, a) ==
    /\ Test(t, "sinOfLogarithm",
            LET log       == LogarithmCreate(a)
                theResult == TrigCreate("sin", log)
            IN  /\ isFunction(theResult)
                /\ theResult.name = NameOf("sin")
                /\ theResult.ops[1] = log)

TrigonometricCases ==
    {"typeRequest", "constRequest", "sinFunctionName", "cosFunctionName", "tanFunctionName",
     "asinFunctionName", "acosFunctionName", "atanFunctionName", "atan2FunctionName",
     "trivialEquality", "inequalityDifferentArg", "inequalityDifferentTrigonometric", "sinZero",
     "cos345Degree", "tan240Degree", "atan2Order", "atan2XZeroNonEvaluable",
     "atan2SecondQuadrantResolvable", "atan2ThirdQuadrantResolvable",
     "atan2FourthQuadrantNonResolvable", "atan2FourthQuadrantResolvable", "atan2XZeroEvaluable",
     "illegalAtan2", "undefinedArg", "undefinedArgAtan", "sinOfAsin", "sinOfNegativeSum",
     "sinOfNegativeProduct", "sinOfMinusAsin", "cosOfAcos", "cosOfNegativeNumericArg",
     "cosOfNegativeProduct", "cosOfMinusAcos", "tanOfAtan", "tanOfSimpleNegativeProduct",
     "atanOfNegSimpleProduct", "atanOfNegSum", "tanOfMinusAtan", "tanOfMinusAsin", "atanOfTan",
     "sinOfCos", "asinOfSin", "asinOfMinusSin", "acosOfCos", "acosOfMinusCos",
     "asinOfSinOfNumEvalNoShift", "asinOfSinOfNumEvalNoShift2", "asinOfSinOfNumEvalNegShift",
     "asinOfSinOfNumEvalNegShift2", "asinOfSinOfNumEvalPosShift", "asinOfSinOfNumEvalPosShift2",
     "asinOfMinusAsinNumEval", "atanOfTanNumEvalNoShift", "atanOfTanNumEvalWithNegShift",
     "atanOfTanNumEvalWithPosShift", "atanOfMinusTanNumEval", "acosOfCosNumEvalNoShift",
     "acosOfCosNumEvalPosShift", "acosOfCosNumEvalNegShiftAndCorrection",
     "acosOfCosNumEvalPosShiftAndCorrection", "acosOfNegativeCosNumEvalWithShift", "sinOfAcos",
     "cosOfAsin", "sinOfAtan", "cosOfAtan", "tanOfAsin", "tanOfAcos", "atan2OfSinCos",
     "atan2OfNumericsNotResolvableArg", "atan2OfNegNumEvaluableArg", "atan2OfNegSymbolicArg",
     "tanOfAtan2", "cosOfAtan2", "sinOfAtan2", "sinOfAtan2NegDeltaYOnly",
     "sinOfAtan2NegDeltaYSumOnly", "numericTerm", "nonNumericTerm", "constTerm", "nonConstTerm",
     "sinOfLogarithm"}

-----------------------------------------------------------------------------
(* testnormal.cpp. *)

NormalTests1(t, a) ==
    /\ Test(t, "numericInteger", NormalOf(two, 0) = two)

NormalTests2(t, a, b, c) ==
    /\ Test(t, "numericFraction", NormalOf(third, 0) = third)
    /\ Test(t, "symbol", NormalOf(a, 0) = a)
    /\ Test(t, "constantPi", NormalOf(Pi, 0) = Pi)
    /\ Test(t, "constantE", NormalOf(E, 0) = E)
    /\ Test(t, "undefinedToUndefined", isUndefined(NormalOf(Undefined, 0)))
    /\ Test(t, "powerWithPosIntExp",
            LET theOrig == PowerCreate(a, two)
            IN  theOrig = NormalOf(theOrig, 0))
    /\ Test(t, "powerWithPosNegExp",
            LET theOrig == PowerCreate(a, Integer(-2))
            IN  theOrig = NormalOf(theOrig, 0))
    /\ Test(t, "powerWithSymbolExp",
            LET theOrig == PowerCreate(SumCreate(<<a, b>>), c)
            IN  theOrig = NormalOf(theOrig, 0))
    /\ Test(t, "powerWithMinusSymbolExp",
            LET theOrig == PowerCreate(SumCreate(<<a, b>>), Minus(c))
            IN  theOrig = NormalOf(theOrig, 0))
    /\ Test(t, "powerWithPiExp",
            LET theOrig == PowerCreate(a, Pi)
            IN  theOrig = NormalOf(theOrig, 0))
    /\ Test(t, "powerWithNegNumEvalExp",
            LET theOrig == PowerCreate(a, Minus(ProductCreate(<<three, Pi, Sqrt(two)>>)))
            IN  theOrig = NormalOf(theOrig, 0))

NormalTests3(t, a, b, c, d) ==
    /\ Test(t, "simpleSum",
            NormalOf(SumCreate(<<ProductCreate(<<a, OneOver(b)>>),
                                 ProductCreate(<<two, OneOver(b)>>)>>),
                     0)
              = ProductCreate(<<SumCreate(<<two, a>>), OneOver(b)>>))
    /\ Test(t, "simpleSumToZero",
            LET denom == OneOver(SumCreate(<<b, c>>))
            IN  isZero(NormalOf(SumCreate(<<a, ProductCreate(<<mOne, a, b, denom>>),
                                            ProductCreate(<<mOne, a, c, denom>>)>>),
                                0)))
    /\ Test(t, "simpleSumWithFractionCoeff",
            LET oneFifth == Numeric(Ratio(1, 5))
            IN  NormalOf(SumCreate(<<ProductCreate(<<a, OneOver(b)>>),
                                     ProductCreate(<<oneFifth, OneOver(b)>>)>>),
                         0)
                  = ProductCreate(<<oneFifth, OneOver(b),
                                    SumCreate(<<one, ProductCreate(<<five, a>>)>>)>>))
    /\ Test(t, "sum",
            LET sinA == TrigCreate("sin", a)
            IN  NormalOf(SumCreate(<<ProductCreate(<<Sqrt(two), a, OneOver(b)>>),
                                     ProductCreate(<<c, OneOver(Sqrt(two)), OneOver(d)>>),
                                     ProductCreate(<<mOne, sinA, OneOver(b)>>)>>),
                         0)
                  = ProductCreate(<<OneOver(ProductCreate(<<Sqrt(two), b, d>>)),
                                    SumCreate(<<ProductCreate(<<two, a, d>>),
                                                ProductCreate(<<b, c>>),
                                                ProductCreate(<<mOne, Sqrt(two), d, sinA>>)>>)>>))
    /\ Test(t, "longSimpleSum",
            NormalOf(ProductCreate(<<OneOver(a),
                                     SumCreate(<<a, b,
                                                 ProductCreate(<<mOne, b,
                                                                 SumCreate(<<c,
                                                                             ProductCreate(<<mOne,
                                                                                             c,
                                                                                             OneOver(a),
                                                                                             SumCreate(<<a,
                                                                                                         b>>)>>),
                                                                             d>>),
                                                                 OneOver(SumCreate(<<d,
                                                                                     ProductCreate(<<mOne,
                                                                                                     b,
                                                                                                     c,
                                                                                                     OneOver(a)>>)>>))>>)>>)>>),
                     0)
              = one)

NormalTests4(t, a, b, c) ==
    /\ Test(t, "fractionsOfNumPowersAndFunctions01",
            LET sin  == TrigCreate("sin", Sqrt(three))
                cos  == TrigCreate("cos", b)
                asin == TrigCreate("asin", a)
            IN  NormalOf(SumCreate(<<ProductCreate(<<Sqrt(two), OneOver(sin)>>),
                                     ProductCreate(<<asin, OneOver(cos)>>)>>),
                         0)
                  = ProductCreate(<<SumCreate(<<ProductCreate(<<Sqrt(two), cos>>),
                                                ProductCreate(<<sin, asin>>)>>),
                                    OneOver(ProductCreate(<<sin, cos>>))>>))
    /\ Test(t, "fractionsOfNumPowersAndFunctions02",
            LET sinA    == TrigCreate("sin", a)
                aSquare == PowerCreate(a, two)
            IN  NormalOf(SumCreate(<<OneOver(ProductCreate(<<three, Sqrt(two)>>)),
                                     ProductCreate(<<sinA, OneOver(Sqrt(three))>>),
                                     ProductCreate(<<Sqrt(six), OneOver(aSquare)>>)>>),
                         0)
                  = ProductCreate(<<SumCreate(<<ProductCreate(<<Sqrt(three), aSquare>>),
                                                ProductCreate(<<three, Sqrt(two), sinA,
                                                                aSquare>>),
                                                Integer(18)>>),
                                    OneOver(ProductCreate(<<three, Sqrt(six), aSquare>>))>>))
    /\ Test(t, "fractionSumWithPiExp",
            NormalOf(SumCreate(<<PowerCreate(ProductCreate(<<a, OneOver(b)>>), Minus(Pi)),
                                 OneOver(PowerCreate(a, Pi))>>),
                     0)
              = ProductCreate(<<SumCreate(<<one, PowerCreate(b, Pi)>>),
                                OneOver(PowerCreate(a, Pi))>>))
    /\ Test(t, "sumWithNumPowerOfFractions",
            LET oneFifth  == Numeric(Ratio(1, 5))
                mOneFifth == Numeric(Ratio(-1, 5))
            IN  NormalOf(SumCreate(<<PowerCreate(Numeric(Ratio(3, 4)), mOneFifth),
                                     PowerCreate(three, oneFifth)>>),
                         0)
                  = SumCreate(<<ProductCreate(<<PowerCreate(two, Numeric(Ratio(2, 5))),
                                                PowerCreate(three, mOneFifth)>>),
                                PowerCreate(three, oneFifth)>>))
    /\ Test(t, "atan2NormalizeFunctionArgs",
            LET denom     == OneOver(SumCreate(<<b, c>>))
                theResult == NormalOf(Atan2Create(SumCreate(<<b,
                                                              SumCreate(<<a,
                                                                          ProductCreate(<<mOne,
                                                                                          a, b,
                                                                                          denom>>),
                                                                          ProductCreate(<<mOne,
                                                                                          a, c,
                                                                                          denom>>)>>)>>),
                                                  a),
                                      0)
            IN  /\ isFunction(theResult)
                /\ theResult.name = NameOf("atan2")
                /\ theResult.ops[1] = b
                /\ Last(theResult.ops) = a)
    /\ Test(t, "trigonometricFunctionArgToZero",
            LET denom == OneOver(SumCreate(<<b, c>>))
            IN  isZero(NormalOf(TrigCreate("sin",
                                           SumCreate(<<a, ProductCreate(<<mOne, a, b, denom>>),
                                                       ProductCreate(<<mOne, a, c, denom>>)>>)),
                                0)))
    /\ Test(t, "logarithmicFunctionArgToZero",
            LET denom == OneOver(SumCreate(<<b, c>>))
            IN  isUndefined(NormalOf(LogarithmCreate(SumCreate(<<a,
                                                                 ProductCreate(<<mOne, a, b,
                                                                                 denom>>),
                                                                 ProductCreate(<<mOne, a, c,
                                                                                 denom>>)>>)),
                                     0)))
    /\ Test(t, "logarithmicFunction",
            LET theOrig == LogarithmCreate(ProductCreate(<<two, a>>))
            IN  NormalOf(theOrig, 0) = theOrig)
    /\ Test(t, "trigoPowerSumComposite",
            LET aSquare    == PowerCreate(a, two)
                cosASquare == TrigCreate("cos", aSquare)
                theOrig    == ProductCreate(<<mOne, two, a, TrigCreate("sin", aSquare),
                                              PowerCreate(SumCreate(<<one,
                                                                      ProductCreate(<<mOne,
                                                                                      cosASquare,
                                                                                      cosASquare>>)>>),
                                                          Numeric(Ratio(-1, 2)))>>)
            IN  NormalOf(theOrig, 0) = theOrig)
    /\ Test(t, "tanToSinOverCos",
            LET cosA == TrigCreate("cos", a)
            IN  NormalOf(SumCreate(<<OneOver(cosA), TrigCreate("tan", a)>>), 0)
                  = ProductCreate(<<SumCreate(<<one, TrigCreate("sin", a)>>), OneOver(cosA)>>))

NormalTests5(t, a, b) ==
    /\ Test(t, "tanInDenominator",
            LET twelveB == ProductCreate(<<Integer(12), b>>)
                tanA    == TrigCreate("tan", a)
            IN  NormalOf(SumCreate(<<ProductCreate(<<TrigCreate("cos", a), OneOver(twelveB)>>),
                                     ProductCreate(<<a, b, OneOver(tanA)>>)>>),
                         0)
                  = ProductCreate(<<SumCreate(<<TrigCreate("sin", a),
                                                ProductCreate(<<twelveB, a, b>>)>>),
                                    OneOver(ProductCreate(<<twelveB, tanA>>))>>))

NormalCases ==
    {"numericInteger", "numericFraction", "symbol", "constantPi", "constantE",
     "undefinedToUndefined", "powerWithPosIntExp", "powerWithPosNegExp", "powerWithSymbolExp",
     "powerWithMinusSymbolExp", "powerWithPiExp", "powerWithNegNumEvalExp", "simpleSum",
     "simpleSumToZero", "simpleSumWithFractionCoeff", "sum", "longSimpleSum",
     "fractionsOfNumPowersAndFunctions01", "fractionsOfNumPowersAndFunctions02",
     "fractionSumWithPiExp", "sumWithNumPowerOfFractions", "atan2NormalizeFunctionArgs",
     "trigonometricFunctionArgToZero", "logarithmicFunctionArgToZero", "logarithmicFunction",
     "trigoPowerSumComposite", "tanToSinOverCos", "tanInDenominator"}

=============================================================================
