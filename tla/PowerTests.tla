----------------------------- MODULE PowerTests -----------------------------
(* Unit tests of powers, logarithms and derivatives. *)
EXTENDS TestFixture

-----------------------------------------------------------------------------
(* testpower.cpp. *)

PowerTests1(t, a) ==
    /\ Test(t, "undefinedExponent", isUndefined(PowerCreate(a, Undefined)))

PowerTests2(t, a) ==
    /\ Test(t, "undefinedBase", isUndefined(PowerCreate(Undefined, two)))
    /\ Test(t, "integerOnly",
            LET res == PowerCreate(three, four)
            IN  isNumeric(res) /\ numericEval(res) = Whole(81))
    /\ Test(t, "exponentFraction",
            LET exp == Numeric(Ratio(2, 3))
                pow == PowerCreate(two, exp)
            IN  isPower(pow) /\ Base(pow) = two /\ exp = Exp(pow))

PowerTests3(t, a) ==
    /\ Test(t, "expFracGreaterThanOne",
            LET res == PowerCreate(two, Numeric(Ratio(10, 3)))
            IN  isProduct(res) /\ res.ops = <<eight, PowerCreate(two, third)>>)
    /\ Test(t, "baseFracWithExpFracGreaterThanOne",
            LET twoThird == Numeric(Ratio(2, 3))
                res      == PowerCreate(twoThird, Numeric(Ratio(3, 2)))
            IN  isProduct(res) /\ res.ops = <<twoThird, Sqrt(twoThird)>>)
    /\ Test(t, "expFracLessThanMinusOne",
            LET res == PowerCreate(Numeric(Ratio(5, 13)), Numeric(Ratio(-19, 7)))
            IN  /\ isProduct(res)
                /\ res.ops
                     = <<Numeric(Ratio(169, 25)),
                         PowerCreate(Numeric(Ratio(13, 5)), Numeric(Ratio(5, 7)))>>)
    /\ Test(t, "simpleFracBaseToIntWithNegExp",
            /\ isPower(Sqrt(half))
            /\ Base(Sqrt(half)) = two
            /\ Numeric(Ratio(-1, 2)) = Exp(Sqrt(half)))
    /\ Test(t, "illegalPower", isUndefined(Sqrt(Integer(-2))))
    /\ Test(t, "fracBaseToIntWithNegExp",
            LET pow == PowerCreate(Numeric(Ratio(1, 12345)), Numeric(Ratio(1, 5)))
            IN  /\ isPower(pow)
                /\ numericEval(Base(pow)) = Whole(12345)
                /\ Numeric(Ratio(-1, 5)) = Exp(pow))

PowerTests4(t, a) ==
    /\ Test(t, "fracBaseNegFracExp",
            LET pow == PowerCreate(Numeric(Ratio(2, 3)), Numeric(Ratio(-1, 2)))
            IN  isPower(pow) /\ Numeric(Ratio(3, 2)) = Base(pow) /\ Exp(pow) = half)
    /\ Test(t, "fracBaseNoChange",
            LET twoThird == Numeric(Ratio(2, 3))
            IN  /\ isPower(Sqrt(twoThird))
                /\ twoThird = Base(Sqrt(twoThird))
                /\ Exp(Sqrt(twoThird)) = half)
    /\ Test(t, "resolvableExpFracBaseInt",
            LET res == PowerCreate(eight, third)
            IN  isNumeric(res) /\ numericEval(res) = Whole(2))
    /\ Test(t, "simpleSplittableExpFracBaseInt",
            /\ isProduct(Sqrt(eight))
            /\ Len(Sqrt(eight).ops) = 2
            /\ Sqrt(eight).ops[1] = two
            /\ Sqrt(two) = Last(Sqrt(eight).ops))
    /\ Test(t, "splittableExpFracBaseInt",
            LET res == Sqrt(Integer(32))
            IN  /\ isProduct(res)
                /\ Len(res.ops) = 2
                /\ numericEval(res.ops[1]) = Whole(4)
                /\ Last(res.ops) = Sqrt(two))
    /\ Test(t, "splittableExpSqrtBaseInt",
            LET res == Sqrt(Integer(833))
            IN  /\ isProduct(res)
                /\ Len(res.ops) = 2
                /\ numericEval(res.ops[1]) = Whole(7)
                /\ Last(res.ops) = Sqrt(Integer(17)))
    /\ Test(t, "splittableExpFracBaseOneEigth",
            LET oneEigth == Numeric(Ratio(1, 8))
            IN  /\ isProduct(Sqrt(oneEigth))
                /\ Len(Sqrt(oneEigth).ops) = 2
                /\ Sqrt(oneEigth).ops[1] = half
                /\ PowerCreate(two, Numeric(Ratio(-1, 2))) = Last(Sqrt(oneEigth).ops))
    /\ Test(t, "splittableNegExpFracBaseOneThirtyHalf",
            LET res == Sqrt(Numeric(Ratio(1, 32)))
            IN  isProduct(res) /\ res.ops = <<fourth, PowerCreate(two, Numeric(Ratio(-1, 2)))>>)
    /\ Test(t, "splittableExpFracBaseThreeEigth",
            LET threeEigth == Numeric(Ratio(3, 8))
            IN  /\ isProduct(Sqrt(threeEigth))
                /\ Len(Sqrt(threeEigth).ops) = 2
                /\ Sqrt(threeEigth).ops[1] = half
                /\ Sqrt(Numeric(Ratio(3, 2))) = Last(Sqrt(threeEigth).ops))

PowerTests5(t, a) ==
    /\ Test(t, "splittableNegExpFracBaseFrac",
            LET res == PowerCreate(Numeric(Ratio(8, 81)), Numeric(Ratio(-4, 3)))
            IN  /\ isProduct(res)
                /\ res.ops = <<Numeric(Ratio(243, 16)), PowerCreate(three, third)>>)

PowerTests6(t, a) ==
    /\ Test(t, "negFractionBaseWithNegFractionExp",
            isUndefined(PowerCreate(Numeric(Ratio(-1, 2)), half)))
    /\ Test(t, "negFractionBaseWithPosFractionExp",
            LET minusHalf == Numeric(Ratio(-1, 2))
            IN  isUndefined(PowerCreate(minusHalf, minusHalf)))

PowerTests7(t, a, b, c) ==
    /\ Test(t, "unclearBaseExponentContractionBothFractionsOddDenom",
            PowerCreate(PowerCreate(a, Numeric(Ratio(2, 3))), Numeric(Ratio(4, 5)))
              = PowerCreate(a, Numeric(Ratio(8, 15))))
    /\ Test(t, "unclearBaseExponentContractionBothFractionsEvenDenom",
            PowerCreate(PowerCreate(a, Numeric(Ratio(1, 8))), Numeric(Ratio(3, 10)))
              = PowerCreate(a, Numeric(Ratio(3, 80))))
    /\ Test(t, "unclearBaseExponentContractionBothFractions",
            PowerCreate(PowerCreate(a, half), third) = PowerCreate(a, Numeric(Ratio(1, 6))))
    /\ Test(t, "unclearBaseExponentContractionWithInteger",
            PowerCreate(PowerCreate(a, Numeric(Ratio(1, 6))), three) = Sqrt(a))
    /\ Test(t, "unclearBaseExpContraction",
            PowerCreate(PowerCreate(a, seven), fourth) = PowerCreate(a, Numeric(Ratio(7, 4))))
    /\ Test(t, "negBaseSymbolicExp",
            LET base == SumCreate(<<Minus(PositiveSymbol(NameOf("a"))),
                                    Minus(PositiveSymbol(NameOf("b")))>>)
                res  == PowerCreate(PowerCreate(base, c), two)
            IN  /\ isPower(res)
                /\ Exp(res) = two
                /\ isPower(Base(res))
                /\ Exp(Base(res)) = c
                /\ Base(Base(res)) = base)
    /\ Test(t, "unclearProductBaseFractionExp",
            LET exp == Numeric(Ratio(2, 3))
                res == PowerCreate(ProductCreate(<<a, b>>), exp)
            IN  isPower(res) /\ Base(res) = ProductCreate(<<a, b>>) /\ Exp(res) = exp)

PowerTests8(t, a, b, c) ==
    /\ Test(t, "negProductBaseFractionExp",
            isUndefined(PowerCreate(ProductCreate(<<mOne, PositiveSymbol(NameOf("a")),
                                                    PositiveSymbol(NameOf("b"))>>),
                                    Numeric(Ratio(2, 3)))))
    /\ Test(t, "zeroExponent",
            LET res == PowerCreate(a, zero)
            IN  isNumeric(res) /\ numericEval(res) = Whole(1))
    /\ Test(t, "symbolicPowerBaseSymbolExp",
            LET base == PowerCreate(a, b)
                res  == PowerCreate(base, c)
            IN  isPower(res) /\ Base(res) = base /\ Exp(res) = c)
    /\ Test(t, "zeroBaseToPosExponent", isZero(PowerCreate(zero, PositiveSymbol(NameOf("a")))))
    /\ Test(t, "zeroBaseToUnclearExponent", isZero(PowerCreate(zero, a)))
    /\ Test(t, "zeroBaseToNegExponent",
            isUndefined(PowerCreate(zero, Minus(PositiveSymbol(NameOf("a"))))))
    /\ Test(t, "identity",
            LET res == PowerCreate(a, one)
            IN  isSymbol(res) /\ res.name = NameOf("a"))
    /\ Test(t, "powerWithPowerExp",
            LET exp == PowerCreate(SumCreate(<<a, b>>), two)
                res == PowerCreate(a, exp)
            IN  isPower(res) /\ isPower(Exp(res)) /\ Base(res) = a /\ Exp(res) = exp)
    /\ Test(t, "multiplySymbolExp",
            LET res == PowerCreate(PowerCreate(two, a), a)
            IN  /\ isPower(res)
                /\ isNumeric(Base(res))
                /\ isPower(Exp(res))
                /\ numericEval(Base(res)) = Whole(2)
                /\ numericEval(Exp(Exp(res))) = Whole(2))
    /\ Test(t, "multiplyExpWithZeroExp", PowerCreate(PowerCreate(a, two), zero) = one)
    /\ Test(t, "multiplyNumericExp",
            PowerCreate(PowerCreate(two, Numeric(Ratio(2, 3))), Numeric(Ratio(6, 7)))
              = PowerCreate(two, Numeric(Ratio(4, 7))))

PowerTests9(t, a) ==
    /\ Test(t, "multiplyExponentsByCreation",
            LET res == PowerCreate(PowerCreate(PowerCreate(a, two), three), one)
            IN  isPower(res) /\ Base(res) = a /\ Exp(res) = six)
    /\ Test(t, "squareOfSymbolSquareRoot",
            LET res == PowerCreate(Sqrt(a), two)
            IN  isPower(res) /\ Exp(res) = two /\ Base(res) = Sqrt(a))
    /\ Test(t, "squareOfPosSymbolSquareRoot",
            LET aPos == PositiveSymbol(NameOf("a"))
            IN  PowerCreate(Sqrt(aPos), two) = aPos)
    /\ Test(t, "squareRootOfPosSymbolSquare",
            LET aPos == PositiveSymbol(NameOf("a"))
            IN  Sqrt(PowerCreate(aPos, two)) = aPos)
    /\ Test(t, "powerOfNegSymbolSquare",
            LET aPos == PositiveSymbol(NameOf("a"))
                bPos == PositiveSymbol(NameOf("b"))
            IN  PowerCreate(PowerCreate(SumCreate(<<Minus(aPos), Minus(bPos)>>), two),
                            Numeric(Ratio(-1, 2)))
                  = OneOver(SumCreate(<<aPos, bPos>>)))
    /\ Test(t, "powerOfNegSymbolSumChangesSign",
            LET aPos == PositiveSymbol(NameOf("a"))
                bPos == PositiveSymbol(NameOf("b"))
            IN  PowerCreate(PowerCreate(SumCreate(<<Minus(aPos), Minus(bPos)>>), two),
                            Numeric(Ratio(1, 6)))
                  = PowerCreate(SumCreate(<<aPos, bPos>>), third))

PowerTests10(t, a, b) ==
    /\ Test(t, "sumBase",
            LET sum == SumCreate(<<a, b>>)
                res == PowerCreate(sum, sum)
            IN  Exp(res) = sum /\ Base(res) = sum)
    /\ Test(t, "constantBase",
            LET exp == SumCreate(<<a, b>>)
                res == PowerCreate(Pi, exp)
            IN  Exp(res) = exp /\ Base(res) = Pi)
    /\ Test(t, "numericBaseConstantExp",
            LET res == PowerCreate(two, Pi)
            IN  Exp(res) = Pi /\ Base(res) = two)
    /\ Test(t, "productBaseConstantExp",
            LET aPos == PositiveSymbol(NameOf("a"))
                res  == PowerCreate(ProductCreate(<<aPos, b>>), Pi)
            IN  /\ isProduct(res)
                /\ res.ops[1] = PowerCreate(aPos, Pi)
                /\ Last(res.ops) = PowerCreate(b, Pi))
    /\ Test(t, "functionBase",
            LET sin == TrigCreate("sin", a)
                res == PowerCreate(sin, a)
            IN  isPower(res) /\ Base(res) = sin /\ Exp(res) = a)
    /\ Test(t, "eulerBaseLogExp",
            LET theArg == SumCreate(<<a, b, Sqrt(two)>>)
            IN  PowerCreate(E, LogarithmCreate(theArg)) = theArg)
    /\ Test(t, "negativePowByOddExp",
            isUndefined(PowerCreate(Minus(PositiveSymbol(NameOf("a"))), Numeric(Ratio(3, 5)))))
    /\ Test(t, "unclearSymbolBaseLeftUnchanged",
            LET base == PowerCreate(a, third)
                res  == PowerCreate(base, three)
            IN  isPower(res) /\ Exp(res) = three /\ Base(res) = base)
    /\ Test(t, "squareRootOfNegBaseSquared",
            LET aPos == PositiveSymbol(NameOf("a"))
                bPos == PositiveSymbol(NameOf("b"))
            IN  PowerCreate(PowerCreate(SumCreate(<<Minus(aPos), Minus(bPos)>>), two),
                            Numeric(Ratio(-1, 2)))
                  = OneOver(SumCreate(<<aPos, bPos>>)))
    /\ Test(t, "negativeBaseOfPowerToTheOneThird",
            LET aPos == PositiveSymbol(NameOf("a"))
                bPos == PositiveSymbol(NameOf("b"))
            IN  PowerCreate(PowerCreate(Minus(SumCreate(<<aPos, bPos>>)), two), third)
                  = PowerCreate(SumCreate(<<aPos, bPos>>), Numeric(Ratio(2, 3))))

PowerTests11(t, a, b) ==
    /\ Test(t, "unclearBaseExpContractionWithConstantFirstExp",
            PowerCreate(PowerCreate(a, Pi), three)
              = PowerCreate(a, ProductCreate(<<three, Pi>>)))
    /\ Test(t, "unclearBaseExpContractionWithConstantSecondExp",
            PowerCreate(PowerCreate(a, three), Pi)
              = PowerCreate(a, ProductCreate(<<three, Pi>>)))
    /\ Test(t, "unclearBaseExpContractionWithConstantFirstExpSecondEvenInt",
            PowerCreate(PowerCreate(Minus(a), Pi), Integer(-8))
              = PowerCreate(Minus(a), ProductCreate(<<mOne, eight, Pi>>)))
    /\ Test(t, "unclearBaseNoExpContractionWithConstantSecondExp",
            LET res == PowerCreate(PowerCreate(a, eight), Pi)
            IN  /\ isPower(res)
                /\ Exp(res) = Pi
                /\ isPower(Base(res))
                /\ Exp(Base(res)) = eight
                /\ Base(Base(res)) = a)
    /\ Test(t, "unclearBaseNoExpContractionWithSymbolSecondExp",
            LET res == PowerCreate(PowerCreate(a, fourth), b)
            IN  /\ isPower(res)
                /\ Exp(res) = b
                /\ isPower(Base(res))
                /\ Exp(Base(res)) = fourth
                /\ Base(Base(res)) = a)
    /\ Test(t, "numericallyEvaluableExpToUndefined", isUndefined(PowerCreate(Integer(-2), Pi)))

PowerCases ==
    {"undefinedExponent", "undefinedBase", "integerOnly", "exponentFraction",
     "expFracGreaterThanOne", "baseFracWithExpFracGreaterThanOne", "expFracLessThanMinusOne",
     "simpleFracBaseToIntWithNegExp", "illegalPower", "fracBaseToIntWithNegExp",
     "fracBaseNegFracExp", "fracBaseNoChange", "resolvableExpFracBaseInt",
     "simpleSplittableExpFracBaseInt", "splittableExpFracBaseInt", "splittableExpSqrtBaseInt",
     "splittableExpFracBaseOneEigth", "splittableNegExpFracBaseOneThirtyHalf",
     "splittableExpFracBaseThreeEigth", "splittableNegExpFracBaseFrac",
     "negFractionBaseWithNegFractionExp", "negFractionBaseWithPosFractionExp",
     "unclearBaseExponentContractionBothFractionsOddDenom",
     "unclearBaseExponentContractionBothFractionsEvenDenom",
     "unclearBaseExponentContractionBothFractions", "unclearBaseExponentContractionWithInteger",
     "unclearBaseExpContraction", "negBaseSymbolicExp", "unclearProductBaseFractionExp",
     "negProductBaseFractionExp", "zeroExponent", "symbolicPowerBaseSymbolExp",
     "zeroBaseToPosExponent", "zeroBaseToUnclearExponent", "zeroBaseToNegExponent", "identity",
     "powerWithPowerExp", "multiplySymbolExp", "multiplyExpWithZeroExp", "multiplyNumericExp",
     "multiplyExponentsByCreation", "squareOfSymbolSquareRoot", "squareOfPosSymbolSquareRoot",
     "squareRootOfPosSymbolSquare", "powerOfNegSymbolSquare", "powerOfNegSymbolSumChangesSign",
     "sumBase", "constantBase", "numericBaseConstantExp", "productBaseConstantExp",
     "functionBase", "eulerBaseLogExp", "negativePowByOddExp", "unclearSymbolBaseLeftUnchanged",
     "squareRootOfNegBaseSquared", "negativeBaseOfPowerToTheOneThird",
     "unclearBaseExpContractionWithConstantFirstExp",
     "unclearBaseExpContractionWithConstantSecondExp",
     "unclearBaseExpContractionWithConstantFirstExpSecondEvenInt",
     "unclearBaseNoExpContractionWithConstantSecondExp",
     "unclearBaseNoExpContractionWithSymbolSecondExp", "numericallyEvaluableExpToUndefined"}

-----------------------------------------------------------------------------
(* testlogarithm.cpp. *)

LogarithmTests1(t, a) ==
    /\ Test(t, "logOfZero", isUndefined(LogarithmCreate(zero)))
    /\ Test(t, "logOfOne", isZero(LogarithmCreate(one)))
    /\ Test(t, "logOfUndefinedArg", isUndefined(LogarithmCreate(Undefined)))
    /\ Test(t, "logOfE", isOne(LogarithmCreate(E)))
    /\ Test(t, "logOfPi",
            LET theResult == LogarithmCreate(Pi)
            IN  isFunction(theResult) /\ theResult.ops[1] = Pi)
    /\ Test(t, "logOfRationalNumericArg",
            LET theArg    == Numeric(Ratio(5, 7))
                theResult == LogarithmCreate(theArg)
            IN  isFunction(theResult) /\ theResult.ops[1] = theArg)

LogarithmTests2(t, a) ==
    /\ Test(t, "logOfValidNumericallyEvaluable",
            LET theArg    == ProductCreate(<<two, Sqrt(two)>>)
                theResult == LogarithmCreate(theArg)
            IN  isFunction(theResult) /\ theResult.ops[1] = theArg)
    /\ Test(t, "logOfNegativeArgument",
            isUndefined(LogarithmCreate(Minus(PositiveSymbol(NameOf("a"))))))

LogarithmTests3(t, a) ==
    /\ Test(t, "logOfInvalidNumericallyEvaluableLessThanZero",
            isUndefined(LogarithmCreate(SumCreate(<<Minus(Pi), two>>))))

LogarithmTests4(t, a, b, c, d) ==
    /\ Test(t, "logOfSymbolicSum",
            LET theArg    == SumCreate(<<a, b>>)
                theResult == LogarithmCreate(theArg)
            IN  isFunction(theResult) /\ theResult.ops[1] = theArg)
    /\ Test(t, "logOfPowerWithNegEulerBasePosNumericExp",
            isUndefined(LogarithmCreate(Minus(PowerCreate(E, Integer(-123))))))
    /\ Test(t, "logOfPowerWithEulerBaseNegNumericExp",
            LET exp == Integer(-123)
            IN  LogarithmCreate(PowerCreate(E, exp)) = exp)
    /\ Test(t, "logOfPowerWithEulerBasePosNumericExp",
            LET exp == Numeric(Ratio(3, 10))
            IN  LogarithmCreate(PowerCreate(E, exp)) = exp)
    /\ Test(t, "logOfPowerWithEulerBaseArbitraryExp",
            LET exp == SumCreate(<<a, b, ProductCreate(<<seven, c, d>>)>>)
            IN  LogarithmCreate(PowerCreate(E, exp)) = exp)
    /\ Test(t, "logOfPower",
            LogarithmCreate(PowerCreate(a, two)) = ProductCreate(<<two, LogarithmCreate(a)>>))
    /\ Test(t, "logOfSymbolicPower",
            LogarithmCreate(PowerCreate(a, ProductCreate(<<two, b>>)))
              = ProductCreate(<<two, b, LogarithmCreate(a)>>))

LogarithmCases ==
    {"logOfZero", "logOfOne", "logOfUndefinedArg", "logOfE", "logOfPi",
     "logOfRationalNumericArg", "logOfValidNumericallyEvaluable", "logOfNegativeArgument",
     "logOfInvalidNumericallyEvaluableLessThanZero", "logOfSymbolicSum",
     "logOfPowerWithNegEulerBasePosNumericExp", "logOfPowerWithEulerBaseNegNumericExp",
     "logOfPowerWithEulerBasePosNumericExp", "logOfPowerWithEulerBaseArbitraryExp",
     "logOfPower", "logOfSymbolicPower"}

-----------------------------------------------------------------------------
(* testdiff.cpp. *)

DiffTests1(t, a, b, c) ==
    /\ Test(t, "numeric", isZero(Diff(Numeric(Ratio(11, 17)), a)))
    /\ Test(t, "constant", isZero(Diff(Pi, a)))
    /\ Test(t, "undefinedWrtSymbol", isUndefined(Diff(Undefined, a)))
    /\ Test(t, "symbolWrtItself", Diff(a, a) = one)
    /\ Test(t, "symbolWrtOtherSymbol", isZero(Diff(a, b)))
    /\ Test(t, "wrongArguments",
            LET product == ProductCreate(<<seven, b>>)
                sum     == SumCreate(<<a, b>>)
            IN  /\ isUndefined(Diff(sum, sum))
                /\ isUndefined(Diff(a, Pi))
                /\ isUndefined(Diff(four, product))
                /\ isUndefined(Diff(product, Sqrt(a))))
    /\ Test(t, "powerWithPosIntExp",
            ProductCreate(<<five, PowerCreate(a, four)>>) = Diff(PowerCreate(a, five), a))
    /\ Test(t, "powerWithNegIntExp",
            ProductCreate(<<Integer(-1234), PowerCreate(a, Integer(-1235))>>)
              = Diff(PowerCreate(a, Integer(-1234)), a))
    /\ Test(t, "powerWithPosRationalExp",
            ProductCreate(<<Numeric(Ratio(3, 7)), PowerCreate(a, Numeric(Ratio(-4, 7)))>>)
              = Diff(PowerCreate(a, Numeric(Ratio(3, 7))), a))
    /\ Test(t, "powerOfEuler",
            LET pow == PowerCreate(E, a)
            IN  pow = Diff(pow, a))
    /\ Test(t, "symbolPower",
            LET pow == PowerCreate(a, b)
            IN  ProductCreate(<<pow, b, OneOver(a)>>) = Diff(pow, a))
    /\ Test(t, "logOfSymbol", OneOver(a) = Diff(LogarithmCreate(a), a))
    /\ Test(t, "logOfSymbolWrtToDifferentSymbol", isZero(Diff(LogarithmCreate(a), b)))
    /\ Test(t, "sinOfSum",
            LET sum == SumCreate(<<ProductCreate(<<half, a, a>>), b, ProductCreate(<<two, c>>)>>)
            IN  ProductCreate(<<a, TrigCreate("cos", sum)>>) = Diff(TrigCreate("sin", sum), a))
    /\ Test(t, "cosOfLogarithmOfProduct",
            LET theArg == LogarithmCreate(ProductCreate(<<four, a, b, c>>))
            IN  ProductCreate(<<mOne, TrigCreate("sin", theArg), OneOver(a)>>)
                  = Diff(TrigCreate("cos", theArg), a))
    /\ Test(t, "tanOfSinOfSymbol",
            LET tan == TrigCreate("tan", TrigCreate("sin", a))
            IN  ProductCreate(<<TrigCreate("cos", a),
                                SumCreate(<<one, PowerCreate(tan, two)>>)>>)
                  = Diff(tan, a))

DiffTests2(t, a, b, c) ==
    /\ Test(t, "asinOfCosOfPower",
            LET aSquare    == PowerCreate(a, two)
                cosASquare == TrigCreate("cos", aSquare)
            IN  ProductCreate(<<mOne, two, a, TrigCreate("sin", aSquare),
                                PowerCreate(SumCreate(<<one,
                                                        ProductCreate(<<mOne, cosASquare,
                                                                        cosASquare>>)>>),
                                            Numeric(Ratio(-1, 2)))>>)
                  = Diff(TrigCreate("asin", cosASquare), a))
    /\ Test(t, "acosOfSum",
            LET theArg == SumCreate(<<a, ProductCreate(<<two, a, a>>), c>>)
            IN  ProductCreate(<<SumCreate(<<mOne, ProductCreate(<<mOne, four, a>>)>>),
                                PowerCreate(SumCreate(<<one, Minus(PowerCreate(theArg, two))>>),
                                            Numeric(Ratio(-1, 2)))>>)
                  = Diff(TrigCreate("acos", theArg), a))
    /\ Test(t, "atanOfPower",
            ProductCreate(<<ten, PowerCreate(a, nine),
                            OneOver(SumCreate(<<one, PowerCreate(a, Integer(20))>>))>>)
              = Diff(TrigCreate("atan", PowerCreate(a, ten)), a))
    /\ Test(t, "atan2OfSymbols",
            ProductCreate(<<mOne, b,
                            OneOver(SumCreate(<<PowerCreate(a, two), PowerCreate(b, two)>>))>>)
              = Diff(Atan2Create(b, a), a))
    /\ Test(t, "mixedTerm01",
            SumCreate(<<SumCreate(<<one, LogarithmCreate(a)>>),
                        ProductCreate(<<Numeric(Ratio(12, 65)),
                                        PowerCreate(a, Numeric(Ratio(-6, 5)))>>),
                        ProductCreate(<<Integer(85), b, PowerCreate(a, four)>>),
                        ProductCreate(<<two, b, LogarithmCreate(four)>>)>>)
              = Diff(SumCreate(<<ProductCreate(<<two, a, b, LogarithmCreate(four)>>),
                                 ProductCreate(<<Integer(17), PowerCreate(a, five), b>>),
                                 ProductCreate(<<Numeric(Ratio(-12, 13)),
                                                 PowerCreate(a, Numeric(Ratio(-1, 5)))>>),
                                 ProductCreate(<<a, LogarithmCreate(a)>>)>>),
                     a))
    /\ Test(t, "mixedTerm02",
            LET aToTheFour == PowerCreate(a, four)
                sinArg     == SumCreate(<<ProductCreate(<<Sqrt(two), aToTheFour, b>>),
                                          LogarithmCreate(ProductCreate(<<TrigCreate("sin", two),
                                                                          a>>))>>)
                logArg     == TrigCreate("sin", sinArg)
            IN  SumCreate(<<ProductCreate(<<ProductCreate(<<b, c,
                                                            SumCreate(<<TrigCreate("cos",
                                                                                   sinArg),
                                                                        ProductCreate(<<four,
                                                                                        Sqrt(two),
                                                                                        aToTheFour,
                                                                                        ProductCreate(<<b,
                                                                                                        TrigCreate("cos",
                                                                                                                   sinArg)>>)>>)>>)>>),
                                            OneOver(TrigCreate("sin", sinArg))>>),
                            ProductCreate(<<b, c, LogarithmCreate(logArg)>>)>>)
                  = Diff(ProductCreate(<<ProductCreate(<<a, b, c>>), LogarithmCreate(logArg)>>),
                         a))

DiffCases ==
    {"numeric", "constant", "undefinedWrtSymbol", "symbolWrtItself", "symbolWrtOtherSymbol",
     "wrongArguments", "powerWithPosIntExp", "powerWithNegIntExp", "powerWithPosRationalExp",
     "powerOfEuler", "symbolPower", "logOfSymbol", "logOfSymbolWrtToDifferentSymbol",
     "sinOfSum", "cosOfLogarithmOfProduct", "tanOfSinOfSymbol", "asinOfCosOfPower", "acosOfSum",
     "atanOfPower", "atan2OfSymbols", "mixedTerm01", "mixedTerm02"}

=============================================================================
