--------------------------- MODULE ExpressionTests --------------------------
(* Unit tests of order and sign of expressions, queries and constants. *)
EXTENDS TestFixture

-----------------------------------------------------------------------------
(* testorder.cpp. *)

OrderTests1(t, a) ==
    /\ Test(t, "twoUndefined", ~doPermute(Undefined, Undefined))
    /\ Test(t, "oneUndefined", ~doPermute(Undefined, a) /\ ~doPermute(a, Undefined))
    /\ Test(t, "twoConstants", ~doPermute(Pi, Pi) /\ doPermute(Pi, E))
    /\ Test(t, "twoSymbolsAlphanumericNames",
            LET x1 == Symbol(NameOf("x1"))
                x2 == Symbol(NameOf("x2"))
            IN  ~doPermute(x1, x2) /\ doPermute(x2, x1))
    /\ Test(t, "twoEqualSymbols", ~doPermute(a, a))
    /\ Test(t, "twoSymbolsOnePositive",
            LET aPos == PositiveSymbol(NameOf("a"))
            IN  ~doPermute(aPos, a) /\ doPermute(a, aPos))
    /\ Test(t, "twoSymbolsCapitalSmall", doPermute(a, Symbol(NameOf("A"))))
    /\ Test(t, "twoSymbolsNumericNames", doPermute(Symbol(NameOf("11")), ten))
    /\ Test(t, "twoSymbolsNumericNameAndLetter", doPermute(a, ten))
    /\ Test(t, "twoNumericsFrac", doPermute(Numeric(Ratio(2, 3)), half))

OrderTests2(t, a) ==
    /\ Test(t, "twoNumericsInteger", doPermute(four, three))

OrderTests3(t, a, b, c, d) ==
    /\ Test(t, "twoPowersDifferentBase", doPermute(Sqrt(b), Sqrt(a)))
    /\ Test(t, "twoPowersDifferentExp", doPermute(PowerCreate(a, five), Sqrt(a)))
    /\ Test(t, "twoPowersDifferentBaseAndExp", doPermute(Sqrt(b), PowerCreate(a, five)))
    /\ Test(t, "sumsWithTwoSummands", doPermute(SumCreate(<<a, c>>), SumCreate(<<a, b>>)))
    /\ Test(t, "sumsWithThreeSummands",
            doPermute(SumCreate(<<b, c, d>>), SumCreate(<<a, c, d>>)))
    /\ Test(t, "sumsWithTwoAndThreeSummands",
            LET sum1 == SumCreate(<<c, d>>)
                sum2 == SumCreate(<<b, c, d>>)
            IN  doPermute(sum2, sum1) /\ ~doPermute(sum1, sum2))
    /\ Test(t, "equalSumsWithFourSummands",
            LET sum == SumCreate(<<a, b, c, d>>)
            IN  ~doPermute(sum, sum))
    /\ Test(t, "productsWithTwoFactors",
            doPermute(ProductCreate(<<a, c>>), ProductCreate(<<a, b>>)))
    /\ Test(t, "productAndPower",
            LET bToTheThree == PowerCreate(b, three)
                product     == ProductCreate(<<a, PowerCreate(b, two)>>)
            IN  ~doPermute(product, bToTheThree) /\ doPermute(bToTheThree, product))
    /\ Test(t, "productAndSymbol",
            LET product == ProductCreate(<<a, b>>)
            IN  doPermute(product, b) /\ ~doPermute(b, product))
    /\ Test(t, "powerAndNumber", ~doPermute(five, Sqrt(a)) /\ doPermute(Sqrt(a), five))
    /\ Test(t, "sumAndSymbol",
            LET sum == SumCreate(<<a, c>>)
            IN  ~doPermute(b, sum) /\ ~doPermute(c, sum) /\ doPermute(d, sum))
    /\ Test(t, "powerAndSum",
            LET sum2 == SumCreate(<<half, b>>)
                pow  == PowerCreate(SumCreate(<<half, a>>), two)
            IN  doPermute(sum2, pow) /\ ~doPermute(pow, sum2))
    /\ Test(t, "powerAndSumSameBase",
            LET sum == SumCreate(<<a, d>>)
            IN  ~doPermute(Sqrt(sum), sum) /\ doPermute(sum, Sqrt(sum)))
    /\ Test(t, "powerAndSymbol", doPermute(b, Sqrt(a)))
    /\ Test(t, "numericAndConstPower", doPermute(Sqrt(two), two))
    /\ Test(t, "constSumAndNumeric", doPermute(SumCreate(<<three, Sqrt(two)>>), two))
    /\ Test(t, "constSumAndConstPower",
            LET sum == SumCreate(<<one, Sqrt(two)>>)
            IN  doPermute(sum, Sqrt(three)) /\ ~doPermute(Sqrt(three), sum))

OrderTests4(t, a, b, c, d) ==
    /\ Test(t, "constantAndSmallerNumeric", doPermute(Pi, half))
    /\ Test(t, "constantAndGreaterNumeric", doPermute(Pi, Integer(100)))
    /\ Test(t, "constantAndSymbol", ~doPermute(Pi, a))
    /\ Test(t, "constantAndPower", ~doPermute(Pi, Sqrt(two)))
    /\ Test(t, "constantAndSum", ~doPermute(E, SumCreate(<<a, two>>)))
    /\ Test(t, "constantAndProduct", doPermute(ProductCreate(<<Sqrt(two), a>>), Pi))
    /\ Test(t, "twoDifferentFunctionsSameArgument",
            doPermute(TrigCreate("sin", a), TrigCreate("cos", a)))
    /\ Test(t, "twoDifferentFunctionsDifferentArguments",
            doPermute(TrigCreate("tan", a), TrigCreate("sin", b)))
    /\ Test(t, "sameFunctionDifferentSymbolArguments",
            doPermute(TrigCreate("asin", b), TrigCreate("asin", a)))
    /\ Test(t, "sameFunctionDifferentNumericArguments",
            doPermute(TrigCreate("sin", two), TrigCreate("sin", one)))
    /\ Test(t, "sameFunctionDifferentProductArgument",
            doPermute(TrigCreate("sin", ProductCreate(<<a, d>>)),
                      TrigCreate("sin", ProductCreate(<<a, b>>))))
    /\ Test(t, "functionAndSymbolSameName",
            doPermute(Symbol(NameOf("sin")), TrigCreate("sin", a)))
    /\ Test(t, "functionAndSymbolDifferentNames",
            LET cos == TrigCreate("cos", a)
            IN  doPermute(cos, a) /\ ~doPermute(a, cos))
    /\ Test(t, "functionAndProduct", doPermute(TrigCreate("sin", a), ProductCreate(<<a, b>>)))
    /\ Test(t, "functionAndProductEqualLastFactor",
            LET fct     == TrigCreate("sin", d)
                product == ProductCreate(<<a, b, c, fct>>)
            IN  doPermute(product, fct) /\ ~doPermute(fct, product))
    /\ Test(t, "functionAndPower",
            LET pow == PowerCreate(a, two)
                sin == TrigCreate("sin", a)
            IN  doPermute(sin, pow) /\ ~doPermute(pow, sin))
    /\ Test(t, "functionAndSum",
            LET sin == TrigCreate("sin", c)
                sum == SumCreate(<<b, TrigCreate("sin", a)>>)
            IN  doPermute(sin, sum) /\ ~doPermute(sum, sin))
    /\ Test(t, "numericFraction", ~doPermute(third, third))
    /\ Test(t, "numericPower",
            LET pow == PowerCreate(two, third)
            IN  ~doPermute(pow, pow))
    /\ Test(t, "equalTrigonometricFunction",
            LET cos == TrigCreate("cos", PowerCreate(seven, Numeric(Ratio(2, 3))))
            IN  ~doPermute(cos, cos))

OrderCases ==
    {"twoUndefined", "oneUndefined", "twoConstants", "twoSymbolsAlphanumericNames",
     "twoEqualSymbols", "twoSymbolsOnePositive", "twoSymbolsCapitalSmall",
     "twoSymbolsNumericNames", "twoSymbolsNumericNameAndLetter", "twoNumericsFrac",
     "twoNumericsInteger", "twoPowersDifferentBase", "twoPowersDifferentExp",
     "twoPowersDifferentBaseAndExp", "sumsWithTwoSummands", "sumsWithThreeSummands",
     "sumsWithTwoAndThreeSummands", "equalSumsWithFourSummands", "productsWithTwoFactors",
     "productAndPower", "productAndSymbol", "powerAndNumber", "sumAndSymbol", "powerAndSum",
     "powerAndSumSameBase", "powerAndSymbol", "numericAndConstPower", "constSumAndNumeric",
     "constSumAndConstPower", "constantAndSmallerNumeric", "constantAndGreaterNumeric",
     "constantAndSymbol", "constantAndPower", "constantAndSum", "constantAndProduct",
     "twoDifferentFunctionsSameArgument", "twoDifferentFunctionsDifferentArguments",
     "sameFunctionDifferentSymbolArguments", "sameFunctionDifferentNumericArguments",
     "sameFunctionDifferentProductArgument", "functionAndSymbolSameName",
     "functionAndSymbolDifferentNames", "functionAndProduct",
     "functionAndProductEqualLastFactor", "functionAndPower", "functionAndSum",
     "numericFraction", "numericPower", "equalTrigonometricFunction"}

-----------------------------------------------------------------------------
(* testsign.cpp. *)

SignTests1(t, a) ==
    /\ Test(t, "undefinedIsUnclear", checkUnclear(Undefined))
    /\ Test(t, "constant", checkPos(E))
    /\ Test(t, "unclearSymbol", checkUnclear(a))
    /\ Test(t, "positiveSimpleSymbol", checkPos(PositiveSymbol(NameOf("a"))))

SignTests2(t, a) ==
    /\ Test(t, "zeroIsNeitherPosNorNeg", checkUnclear(zero))
    /\ Test(t, "posInteger", checkPos(five))
    /\ Test(t, "negInteger", checkNeg(Integer(-1234)))
    /\ Test(t, "posFraction", checkPos(Numeric(Ratio(4, 17))))
    /\ Test(t, "negFraction", checkNeg(Numeric(Ratio(-12, 13))))

SignTests3(t, b) ==
    /\ Test(t, "simpleNegProduct", checkNeg(Minus(PositiveSymbol(NameOf("a")))))
    /\ Test(t, "simplePosProduct",
            checkPos(ProductCreate(<<mOne, PositiveSymbol(NameOf("a")),
                                     SumCreate(<<ProductCreate(<<mOne, two,
                                                                 PositiveSymbol(NameOf("b"))>>),
                                                 ProductCreate(<<mOne, three,
                                                                 PositiveSymbol(NameOf("c"))>>)>>)>>)))
    /\ Test(t, "simpleUnclearProduct",
            checkUnclear(ProductCreate(<<mOne, PositiveSymbol(NameOf("a")),
                                         SumCreate(<<ProductCreate(<<mOne, two, b>>),
                                                     ProductCreate(<<mOne, three,
                                                                     PositiveSymbol(NameOf("c"))>>)>>)>>)))

SignTests4(t, b) ==
    /\ Test(t, "simplePosSum01",
            checkPos(SumCreate(<<PositiveSymbol(NameOf("a")), PositiveSymbol(NameOf("b")),
                                 Sqrt(two), PositiveSymbol(NameOf("c"))>>)))
    /\ Test(t, "simplePosSum02", checkPos(SumCreate(<<two, Pi, Minus(E)>>)))
    /\ Test(t, "simpleNegativeSum01",
            checkNeg(SumCreate(<<ProductCreate(<<mOne, two, PositiveSymbol(NameOf("b"))>>),
                                 ProductCreate(<<mOne, three, PositiveSymbol(NameOf("c"))>>)>>)))
    /\ Test(t, "simpleNegativeSum02",
            checkNeg(SumCreate(<<Minus(PositiveSymbol(NameOf("a"))), Numeric(Ratio(-2, 3)),
                                 ProductCreate(<<mOne, two, Pi>>)>>)))
    /\ Test(t, "simpleNegativeSum03", checkNeg(SumCreate(<<two, Minus(Pi)>>)))
    /\ Test(t, "simpleUnclearSumByDifferentSigns",
            checkUnclear(SumCreate(<<ProductCreate(<<mOne, PositiveSymbol(NameOf("a")),
                                                     PositiveSymbol(NameOf("b"))>>),
                                     Pi, Numeric(Ratio(-1, 3)), PositiveSymbol(NameOf("c"))>>)))
    /\ Test(t, "simpleUnclearSumByNonPositiveSymbol",
            checkUnclear(SumCreate(<<Minus(PositiveSymbol(NameOf("a"))), Numeric(Ratio(-2, 3)),
                                     ProductCreate(<<mOne, two, Pi>>),
                                     ProductCreate(<<mOne, six, b>>)>>)))
    /\ Test(t, "logarithmArgGreaterThanOne",
            checkPos(LogarithmCreate(SumCreate(<<ProductCreate(<<Pi, nine, Sqrt(two)>>), five,
                                                 E>>))))
    /\ Test(t, "logarithmArgLessThanOne",
            checkNeg(LogarithmCreate(SumCreate(<<Pi, Integer(-3)>>))))
    /\ Test(t, "posButNumericallyNonEvaluableLogArgGreaterOne",
            checkPos(LogarithmCreate(SumCreate(<<ProductCreate(<<E, nine, Sqrt(two)>>),
                                                 PositiveSymbol(NameOf("a"))>>))))

SignTests5(t, a) ==
    /\ Test(t, "tan",
            LET aPos == PositiveSymbol(NameOf("a"))
            IN  /\ checkUnclear(TrigCreate("tan", aPos))
                /\ checkUnclear(TrigCreate("tan", Minus(aPos)))
                /\ checkUnclear(TrigCreate("tan", a)))
    /\ Test(t, "atan",
            LET aPos == PositiveSymbol(NameOf("a"))
            IN  /\ checkPos(TrigCreate("atan", aPos))
                /\ checkNeg(TrigCreate("atan", Minus(aPos)))
                /\ checkUnclear(TrigCreate("atan", a)))
    /\ Test(t, "atan2",
            LET aPos == PositiveSymbol(NameOf("a"))
                bPos == PositiveSymbol(NameOf("b"))
            IN  /\ checkUnclear(Atan2Create(aPos, bPos))
                /\ checkUnclear(Atan2Create(Minus(aPos), bPos))
                /\ checkUnclear(Atan2Create(a, bPos)))
    /\ Test(t, "sinSymbolic",
            LET aPos == PositiveSymbol(NameOf("a"))
            IN  /\ checkUnclear(TrigCreate("sin", aPos))
                /\ checkUnclear(TrigCreate("sin", Minus(aPos)))
                /\ checkUnclear(TrigCreate("sin", a)))

SignTests6(t, a, b, c) ==
    /\ Test(t, "posPowerWithPositiveBase",
            checkPos(PowerCreate(SumCreate(<<PositiveSymbol(NameOf("a")),
                                             ProductCreate(<<two, PositiveSymbol(NameOf("b"))>>)>>),
                                 SumCreate(<<a, b, c, ten>>))))
    /\ Test(t, "posPowerWithNegativeBase", checkPos(PowerCreate(Minus(Pi), two)))
    /\ Test(t, "unclearPower", checkUnclear(PowerCreate(a, PositiveSymbol(NameOf("b")))))
    /\ Test(t, "posPowerWithUnclearBase", checkPos(PowerCreate(a, two)))

SignTests7(t, a, b, c) ==
    /\ Test(t, "mixedNegativeAndUnclear",
            LET aPos == PositiveSymbol(NameOf("a"))
                bPos == PositiveSymbol(NameOf("b"))
                res  == SumCreate(<<ProductCreate(<<mOne, ten, PowerCreate(a, six)>>),
                                    ProductCreate(<<mOne, two, aPos, bPos,
                                                    PositiveSymbol(NameOf("c"))>>),
                                    ProductCreate(<<mOne, third, Pi>>),
                                    ProductCreate(<<mOne, aPos, bPos>>)>>)
            IN  checkNeg(res) /\ checkUnclear(Subst(res, bPos, b)))
    /\ Test(t, "mixedPosAndUnclear",
            LET bPos == PositiveSymbol(NameOf("b"))
                res  == ProductCreate(<<ProductCreate(<<Numeric(Ratio(5, 13)),
                                                        PowerCreate(c, Numeric(Ratio(18, 19)))>>),
                                        SumCreate(<<PowerCreate(a, two),
                                                    ProductCreate(<<mOne, two, Pi>>),
                                                    ProductCreate(<<ten, bPos>>),
                                                    Sqrt(Integer(101))>>)>>)
            IN  checkPos(res) /\ checkUnclear(Subst(res, bPos, b)))

SignCases ==
    {"undefinedIsUnclear", "constant", "unclearSymbol", "positiveSimpleSymbol",
     "zeroIsNeitherPosNorNeg", "posInteger", "negInteger", "posFraction", "negFraction",
     "simpleNegProduct", "simplePosProduct", "simpleUnclearProduct", "simplePosSum01",
     "simplePosSum02", "simpleNegativeSum01", "simpleNegativeSum02", "simpleNegativeSum03",
     "simpleUnclearSumByDifferentSigns", "simpleUnclearSumByNonPositiveSymbol",
     "logarithmArgGreaterThanOne", "logarithmArgLessThanOne",
     "posButNumericallyNonEvaluableLogArgGreaterOne", "tan", "atan", "atan2", "sinSymbolic",
     "posPowerWithPositiveBase", "posPowerWithNegativeBase", "unclearPower",
     "posPowerWithUnclearBase", "mixedNegativeAndUnclear", "mixedPosAndUnclear"}

-----------------------------------------------------------------------------
(* testhas.cpp. *)

HasTests1(t, a, b, d, e) ==
    /\ Test(t, "equalSymbols", Has(a, a))
    /\ Test(t, "differentSymbols", ~Has(a, b))
    /\ Test(t, "equalNumerics", Has(two, two))
    /\ Test(t, "differentNumerics", ~Has(two, three))
    /\ Test(t, "equalConstant", Has(Pi, Pi))
    /\ Test(t, "equalUndefined", ~Has(Undefined, Undefined))
    /\ Test(t, "differentScalarTypes",
            /\ ~Has(a, two)
            /\ ~Has(a, Pi)
            /\ ~Has(a, Undefined)
            /\ ~Has(ten, b)
            /\ ~Has(ten, Pi)
            /\ ~Has(ten, Undefined)
            /\ ~Has(Pi, a)
            /\ ~Has(Pi, one)
            /\ ~Has(Pi, Undefined)
            /\ ~Has(Undefined, a)
            /\ ~Has(Undefined, ten)
            /\ ~Has(Undefined, Pi))
    /\ Test(t, "equalProducts",
            LET twoPiAbProduct == ProductCreate(<<two, a, b, Pi>>)
            IN  Has(twoPiAbProduct, twoPiAbProduct))
    /\ Test(t, "differentProducts",
            ~Has(ProductCreate(<<two, a, b, Pi>>), ProductCreate(<<d, e>>)))
    /\ Test(t, "subProductsMultipleFactors",
            ~Has(ProductCreate(<<two, a, b, Pi>>), ProductCreate(<<a, b>>)))
    /\ Test(t, "subProductsOneFactor",
            LET sub == SumCreate(<<a, b>>)
            IN  Has(ProductCreate(<<Pi, sub>>), sub))

HasTests2(t, a, b, c, d) ==
    /\ Test(t, "differentSums",
            ~Has(SumCreate(<<one, ProductCreate(<<a, b>>)>>), SumCreate(<<c, d>>)))
    /\ Test(t, "subSumMultipleSummands",
            LET sub == SumCreate(<<a, b>>)
            IN  ~Has(SumCreate(<<c, sub>>), sub))
    /\ Test(t, "subSumOneSummand",
            Has(SumCreate(<<one, ProductCreate(<<a, b>>)>>), ProductCreate(<<a, b>>)))
    /\ Test(t, "equalPowers",
            LET aPlusBSquare == PowerCreate(SumCreate(<<a, b>>), two)
            IN  Has(aPlusBSquare, aPlusBSquare))
    /\ Test(t, "differentPowers",
            ~Has(PowerCreate(SumCreate(<<a, b>>), two), PowerCreate(Pi, ProductCreate(<<a, b>>))))
    /\ Test(t, "baseOfPower", Has(PowerCreate(SumCreate(<<a, b>>), two), SumCreate(<<a, b>>)))
    /\ Test(t, "exponentOfPower", Has(PowerCreate(SumCreate(<<a, b>>), two), two))
    /\ Test(t, "equalFunctions",
            LET sinA == TrigCreate("sin", a)
            IN  Has(sinA, sinA))
    /\ Test(t, "differentFunctions", ~Has(TrigCreate("sin", a), TrigCreate("cos", b)))
    /\ Test(t, "argOfFunction",
            LET theArg == SumCreate(<<a, two, Pi>>)
                fct    == TrigCreate("asin", theArg)
            IN  Has(fct, two) /\ Has(fct, Pi) /\ Has(fct, a) /\ Has(fct, theArg))

HasCases ==
    {"equalSymbols", "differentSymbols", "equalNumerics", "differentNumerics", "equalConstant",
     "equalUndefined", "differentScalarTypes", "equalProducts", "differentProducts",
     "subProductsMultipleFactors", "subProductsOneFactor", "differentSums",
     "subSumMultipleSummands", "subSumOneSummand", "equalPowers", "differentPowers",
     "baseOfPower", "exponentOfPower", "equalFunctions", "differentFunctions", "argOfFunction"}

-----------------------------------------------------------------------------
(* testsubst.cpp. *)

SubstTests1(t, a, b, c) ==
    /\ Test(t, "undefinedToSymbol", Subst(Undefined, Undefined, a) = a)
    /\ Test(t, "symbolToNumeric", Subst(a, a, two) = two)
    /\ Test(t, "symbolNotToNumeric", Subst(a, b, two) = a)
    /\ Test(t, "constantToSum",
            LET sum == SumCreate(<<a, b>>)
            IN  Subst(Pi, Pi, sum) = sum)
    /\ Test(t, "constantNotToNumeric", Subst(Pi, a, two) = Pi)
    /\ Test(t, "numericToSymbol",
            LET theOrig == Numeric(Ratio(5, 17))
            IN  Subst(theOrig, theOrig, a) = a)
    /\ Test(t, "powerToSum",
            LET sum     == SumCreate(<<a, b, c>>)
                theOrig == PowerCreate(a, two)
            IN  Subst(theOrig, theOrig, sum) = sum)
    /\ Test(t, "productToPower",
            LET pow     == PowerCreate(a, b)
                theOrig == ProductCreate(<<a, b>>)
            IN  Subst(theOrig, theOrig, pow) = pow)
    /\ Test(t, "sumToSymbol",
            LET theOrig == SumCreate(<<a, b>>)
            IN  Subst(theOrig, theOrig, a) = a)
    /\ Test(t, "undefinedNoChange", isUndefined(Subst(Undefined, a, b)))
    /\ Test(t, "cosineToConstant",
            LET theOrig == TrigCreate("cos", a)
            IN  Subst(theOrig, theOrig, Pi) = Pi)
    /\ Test(t, "atanArgToConstant",
            Subst(TrigCreate("atan", a), a, Pi) = TrigCreate("atan", Pi))
    /\ Test(t, "sinToZero", isZero(Subst(TrigCreate("sin", a), a, Pi)))

SubstTests2(t, a, b, c, d) ==
    /\ Test(t, "atan2ToPiFourth",
            LET firstSubst == Subst(Atan2Create(b, a), b, two)
            IN  /\ isFunction(firstSubst)
                /\ ProductCreate(<<fourth, Pi>>) = Subst(firstSubst, a, two))
    /\ Test(t, "logToLog", Subst(LogarithmCreate(a), a, b) = LogarithmCreate(b))
    /\ Test(t, "logToZero", isZero(Subst(LogarithmCreate(a), a, one)))
    /\ Test(t, "logEqualArg",
            LET theOrig == LogarithmCreate(a)
            IN  Subst(theOrig, theOrig, a) = a)
    /\ Test(t, "powerToUndefined", isUndefined(Subst(PowerCreate(a, Integer(-2)), a, zero)))
    /\ Test(t, "sumToUndefined", isUndefined(Subst(SumCreate(<<a, b, c, d>>), c, Undefined)))
    /\ Test(t, "sumToOne",
            Subst(SumCreate(<<a, PowerCreate(b, a), ProductCreate(<<a, SumCreate(<<b, c>>)>>)>>),
                  a, zero)
              = one)
    /\ Test(t, "noSubExpressionInSum",
            LET abSum   == SumCreate(<<a, b>>)
                theOrig == SumCreate(<<abSum, c>>)
            IN  Subst(theOrig, abSum, two) = theOrig)
    /\ Test(t, "noSubExpressionInProduct",
            LET abProduct == ProductCreate(<<a, b>>)
                theOrig   == ProductCreate(<<two, abProduct>>)
            IN  Subst(theOrig, abProduct, three) = theOrig)
    /\ Test(t, "powerExpanedBySubst",
            Subst(Subst(PowerCreate(SumCreate(<<ProductCreate(<<a, b>>), c, d>>), two), c, zero),
                  d, zero)
              = ProductCreate(<<PowerCreate(a, two), PowerCreate(b, two)>>))
    /\ Test(t, "numPowerSimplInSubstitution",
            Subst(ProductCreate(<<two, a, TrigCreate("cos", b)>>), b,
                  ProductCreate(<<Numeric(Ratio(5, 4)), Pi>>))
              = ProductCreate(<<mOne, Sqrt(two), a>>))
    /\ Test(t, "mixedTerm",
            LET numPow == PowerCreate(Integer(17), third)
            IN  Subst(Subst(ProductCreate(<<two, Sqrt(three), SumCreate(<<a, b, Sqrt(three)>>),
                                            SumCreate(<<b, c>>), OneOver(a)>>),
                            Sqrt(three), a),
                      SumCreate(<<b, c>>), numPow)
                  = SumCreate(<<ProductCreate(<<four, numPow, a>>),
                                ProductCreate(<<two, numPow, b>>)>>))

SubstCases ==
    {"undefinedToSymbol", "symbolToNumeric", "symbolNotToNumeric", "constantToSum",
     "constantNotToNumeric", "numericToSymbol", "powerToSum", "productToPower", "sumToSymbol",
     "undefinedNoChange", "cosineToConstant", "atanArgToConstant", "sinToZero",
     "atan2ToPiFourth", "logToLog", "logToZero", "logEqualArg", "powerToUndefined",
     "sumToUndefined", "sumToOne", "noSubExpressionInSum", "noSubExpressionInProduct",
     "powerExpanedBySubst", "numPowerSimplInSubstitution", "mixedTerm"}

=============================================================================
