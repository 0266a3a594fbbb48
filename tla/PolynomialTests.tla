--------------------------- MODULE PolynomialTests --------------------------
(* Unit tests of polynomials. *)
EXTENDS TestFixture

-----------------------------------------------------------------------------
(* testcoeff.cpp. *)

CoeffTests1(t, a, b, c, d, e, f) ==
    /\ Test(t, "equalSymbolsExpOne", coeff(a, a, 1) = one)
    /\ Test(t, "equalSymbolsExpZero", coeff(a, a, 0) = zero)
    /\ Test(t, "differentSymbolsExpOne", coeff(a, b, 1) = zero)
    /\ Test(t, "differentSymbolExpZero", coeff(a, b, 0) = a)
    /\ Test(t, "symbolAndProductExpZero", coeff(a, ProductCreate(<<a, b, c>>), 0) = a)
    /\ Test(t, "numericEqualArgExpZero", coeff(two, two, 0) = two)
    /\ Test(t, "numericEqualArgExpNotOne", coeff(two, two, 12) = zero)
    /\ Test(t, "numericDifferentArgExpZero", coeff(two, PowerCreate(a, b), 0) = two)
    /\ Test(t, "numericDifferentArgExpNotOne", coeff(two, SumCreate(<<a, b>>), -3) = zero)
    /\ Test(t, "powerEqualArgExpOne",
            LET pow == PowerCreate(b, TrigCreate("sin", a))
            IN  coeff(pow, pow, 1) = one)
    /\ Test(t, "powerEqualArgExpZero",
            LET pow == PowerCreate(a, three)
            IN  coeff(pow, pow, 0) = zero)
    /\ Test(t, "powerDifferentArgExpNonZero",
            coeff(PowerCreate(a, b), PowerCreate(c, d), 3) = zero)
    /\ Test(t, "powerDifferentArgExpZero",
            LET pow == PowerCreate(a, SumCreate(<<b, c>>))
            IN  pow = coeff(pow, PowerCreate(d, ProductCreate(<<e, f>>)), 0))
    /\ Test(t, "powerArgsToPowerMatches",
            LET sum == SumCreate(<<a, ten>>)
            IN  coeff(PowerCreate(sum, Integer(-2)), sum, -2) = one)
    /\ Test(t, "productEqualArgExpZero",
            LET product == ProductCreate(<<a, b, c>>)
            IN  coeff(product, product, 0) = zero)
    /\ Test(t, "productEqualArgExpOne",
            LET product == ProductCreate(<<two, a>>)
            IN  coeff(product, product, 1) = one)
    /\ Test(t, "productDifferentArgExpZero",
            LET product == ProductCreate(<<a, b>>)
            IN  product = coeff(product, ProductCreate(<<c, d>>), 0))
    /\ Test(t, "productDifferentArgExpNonZero",
            coeff(ProductCreate(<<a, SumCreate(<<b, c>>)>>), PowerCreate(c, d), 3) = zero)
    /\ Test(t, "productFactorMatchesExpOne",
            LET aPlusB   == SumCreate(<<a, b>>)
                expected == ProductCreate(<<four, c>>)
            IN  expected = coeff(ProductCreate(<<aPlusB, expected>>), aPlusB, 1))
    /\ Test(t, "productFactorMatchesArgsToPower",
            LET expected == ProductCreate(<<TrigCreate("asin", a), b>>)
            IN  expected
                  = coeff(ProductCreate(<<PowerCreate(c, Integer(-3)), expected>>), c, -3))
    /\ Test(t, "productFactorIsSubexpressionExpOne",
            LET sub == ProductCreate(<<b, c>>)
            IN  coeff(ProductCreate(<<a, sub, d>>), sub, 1) = zero)

CoeffTests2(t, a, b, c, d, e) ==
    /\ Test(t, "productFactorArgsToSubexpression",
            coeff(ProductCreate(<<a,
                                  ProductCreate(<<PowerCreate(b, four), PowerCreate(c, four)>>),
                                  d>>),
                  ProductCreate(<<b, c>>), 4)
              = zero)
    /\ Test(t, "sumEqualArgExpZero",
            LET sum == ProductCreate(<<two, a>>)
            IN  coeff(sum, sum, 1) = one)
    /\ Test(t, "sumDifferentArgExpZero",
            LET sum == ProductCreate(<<a, b>>)
            IN  sum = coeff(sum, ProductCreate(<<c, d>>), 0))
    /\ Test(t, "sumDifferentArgExpNonZero",
            coeff(SumCreate(<<a, ProductCreate(<<b, c>>)>>), PowerCreate(c, d), 3) = zero)
    /\ Test(t, "summandMatchesExpOne",
            LET aTimesB == ProductCreate(<<a, b>>)
            IN  coeff(SumCreate(<<aTimesB, four, c>>), aTimesB, 1) = one)
    /\ Test(t, "sumBaseHasVariable",
            LET pow == PowerCreate(SumCreate(<<a, b>>), two)
            IN  pow = coeff(pow, a, 0) /\ PowerCreate(b, two) = coeff(Expand(pow), a, 0))
    /\ Test(t, "simpleMonomial", coeff(ProductCreate(<<mOne, a, a, b>>), a, 0) = zero)
    /\ Test(t, "simplePolynomial",
            LET expected == PowerCreate(b, three)
            IN  expected
                  = coeff(SumCreate(<<ProductCreate(<<mOne, a, a, b>>), expected>>), a, 0))
    /\ Test(t, "summandMatchesArgsToPower",
            LET asinA == TrigCreate("asin", a)
                pow   == PowerCreate(c, Integer(-3))
            IN  SumCreate(<<asinA, ProductCreate(<<b, d>>)>>)
                  = coeff(SumCreate(<<ten, ProductCreate(<<asinA, pow>>),
                                      ProductCreate(<<b, d, pow>>), e>>),
                          c, -3))
    /\ Test(t, "summandIsSubexpressionExpOne",
            LET sub == ProductCreate(<<b, c>>)
            IN  coeff(SumCreate(<<a, ProductCreate(<<sub, d>>)>>), sub, 1) = zero)
    /\ Test(t, "summandArgsToSubexpression",
            LET expected == ProductCreate(<<b, SumCreate(<<d, e>>)>>)
            IN  expected
                  = coeff(SumCreate(<<a, PowerCreate(a, three),
                                      ProductCreate(<<PowerCreate(a, two), expected>>)>>),
                          a, 2))
    /\ Test(t, "sumIncludingFunctionTermsAndPowers",
            LET threeTimesSinA == ProductCreate(<<three, TrigCreate("sin", a)>>)
            IN  threeTimesSinA
                  = coeff(SumCreate(<<ProductCreate(<<threeTimesSinA, PowerCreate(a, two)>>),
                                      ProductCreate(<<ProductCreate(<<two,
                                                                      TrigCreate("cos", a)>>),
                                                      a>>),
                                      four>>),
                          a, 2))

CoeffCases ==
    {"equalSymbolsExpOne", "equalSymbolsExpZero", "differentSymbolsExpOne",
     "differentSymbolExpZero", "symbolAndProductExpZero", "numericEqualArgExpZero",
     "numericEqualArgExpNotOne", "numericDifferentArgExpZero", "numericDifferentArgExpNotOne",
     "powerEqualArgExpOne", "powerEqualArgExpZero", "powerDifferentArgExpNonZero",
     "powerDifferentArgExpZero", "powerArgsToPowerMatches", "productEqualArgExpZero",
     "productEqualArgExpOne", "productDifferentArgExpZero", "productDifferentArgExpNonZero",
     "productFactorMatchesExpOne", "productFactorMatchesArgsToPower",
     "productFactorIsSubexpressionExpOne", "productFactorArgsToSubexpression",
     "sumEqualArgExpZero", "sumDifferentArgExpZero", "sumDifferentArgExpNonZero",
     "summandMatchesExpOne", "sumBaseHasVariable", "simpleMonomial", "simplePolynomial",
     "summandMatchesArgsToPower", "summandIsSubexpressionExpOne", "summandArgsToSubexpression",
     "sumIncludingFunctionTermsAndPowers"}

-----------------------------------------------------------------------------
(* testdegree.cpp. *)

DegreeTests1(t, a, b, c, d) ==
    /\ Test(t, "equalSymbol", degree(a, a) = 1)
    /\ Test(t, "equalFunction",
            LET sinA == TrigCreate("sin", a)
            IN  degree(sinA, sinA) = 1)
    /\ Test(t, "equalConstant", degree(Pi, Pi) = 1)
    /\ Test(t, "equalSum",
            LET sum == SumCreate(<<ten, a>>)
            IN  degree(sum, sum) = 1)
    /\ Test(t, "equalProduct",
            LET abProduct == ProductCreate(<<a, b>>)
            IN  degree(abProduct, abProduct) = 1)
    /\ Test(t, "equalPower",
            LET pow == PowerCreate(a, b)
            IN  degree(pow, pow) = 1)
    /\ Test(t, "equalNumeric", degree(four, four) = 0)
    /\ Test(t, "equalUndefined", degree(Undefined, Undefined) = 0)
    /\ Test(t, "differentSymbols", degree(a, b) = 0)
    /\ Test(t, "symbolDifferentType", degree(a, SumCreate(<<a, b>>)) = 0)
    /\ Test(t, "differentNumerics", degree(four, five) = 0)
    /\ Test(t, "numericSymbol", degree(four, a) = 0)
    /\ Test(t, "constantSymbol", degree(Pi, a) = 0)
    /\ Test(t, "functionSum", degree(TrigCreate("sin", a), SumCreate(<<one, b>>)) = 0)
    /\ Test(t, "undefinedSymbol", degree(Undefined, a) = 0)
    /\ Test(t, "differentPowers", degree(PowerCreate(a, b), PowerCreate(c, three)) = 0)
    /\ Test(t, "sumProductNoSubExpression",
            degree(SumCreate(<<two, a>>), ProductCreate(<<b, c>>)) = 0)
    /\ Test(t, "productPowerNoSubExpression",
            degree(ProductCreate(<<a, b>>), PowerCreate(c, two)) = 0)
    /\ Test(t, "simpleSum",
            LET abSum == SumCreate(<<a, b>>)
            IN  degree(abSum, a) = 1 /\ degree(abSum, b) = 1)
    /\ Test(t, "sumWithProduct", degree(SumCreate(<<two, a, ProductCreate(<<c, d>>)>>), d) = 1)
    /\ Test(t, "sumWithMultipleExponents",
            degree(SumCreate(<<ten, a, ProductCreate(<<a, b>>), PowerCreate(a, three),
                               ProductCreate(<<b, c, PowerCreate(a, five)>>)>>),
                   a)
              = 5)
    /\ Test(t, "sumWithNegativeAndZeroDegree",
            degree(SumCreate(<<PowerCreate(a, Integer(-4)), PowerCreate(b, Integer(-3))>>), a)
              = 0)

DegreeTests2(t, a, b, c) ==
    /\ Test(t, "sumWithOnlyNegativeDegrees",
            degree(SumCreate(<<PowerCreate(a, Integer(-7)),
                               ProductCreate(<<PowerCreate(a, Integer(-3)), b,
                                               TrigCreate("sin", a)>>)>>),
                   a)
              = -3)
    /\ Test(t, "simpleProduct",
            LET abProduct == ProductCreate(<<a, b>>)
            IN  degree(abProduct, a) = 1 /\ degree(abProduct, b) = 1)
    /\ Test(t, "unexpandedProduct",
            degree(ProductCreate(<<a,
                                   SumCreate(<<a,
                                               ProductCreate(<<ProductCreate(<<a, b>>),
                                                               SumCreate(<<a, c>>)>>)>>)>>),
                   a)
              = 3)
    /\ Test(t, "productWithNegativeExp",
            degree(ProductCreate(<<a, SumCreate(<<PowerCreate(a, Integer(-4)), b>>)>>), a) = 1)
    /\ Test(t, "simplePower", degree(PowerCreate(a, ten), a) = 10)
    /\ Test(t, "simplePowerSumBase", degree(PowerCreate(SumCreate(<<a, b>>), three), a) = 3)
    /\ Test(t, "powerSumBase",
            degree(PowerCreate(SumCreate(<<a, PowerCreate(a, Integer(-5))>>), Integer(-2)), a)
              = -2)

DegreeTests3(t, a) ==
    /\ Test(t, "powerWithNegIntExp", degree(PowerCreate(a, Integer(-2)), a) = -2)

DegreeCases ==
    {"equalSymbol", "equalFunction", "equalConstant", "equalSum", "equalProduct", "equalPower",
     "equalNumeric", "equalUndefined", "differentSymbols", "symbolDifferentType",
     "differentNumerics", "numericSymbol", "constantSymbol", "functionSum", "undefinedSymbol",
     "differentPowers", "sumProductNoSubExpression", "productPowerNoSubExpression", "simpleSum",
     "sumWithProduct", "sumWithMultipleExponents", "sumWithNegativeAndZeroDegree",
     "sumWithOnlyNegativeDegrees", "simpleProduct", "unexpandedProduct",
     "productWithNegativeExp", "simplePower", "simplePowerSumBase", "powerSumBase",
     "powerWithNegIntExp"}

-----------------------------------------------------------------------------
(* testpolymindegree.cpp. *)

MinDegreeTests(t, a, b, c, d) ==
    /\ Test(t, "minDegreeMatchingSymbol", minDegree(a, a) = 1)
    /\ Test(t, "minDegreeDifferentSymbol", minDegree(a, b) = 0)
    /\ Test(t, "minDegreeInteger", minDegree(two, a) = 0 /\ minDegree(two, two) = 0)
    /\ Test(t, "minDegreePowerOneSymbolInBase",
            minDegree(PowerCreate(SumCreate(<<ProductCreate(<<two, a>>), PowerCreate(a, two)>>),
                                  four),
                      a)
              = 4)
    /\ Test(t, "minDegreeNestedPower",
            minDegree(PowerCreate(SumCreate(<<PowerCreate(a, two), PowerCreate(a, three)>>),
                                  four),
                      a)
              = 8)
    /\ Test(t, "minDegreePowerOtherSymbolInBase",
            minDegree(PowerCreate(SumCreate(<<ProductCreate(<<two, a>>), b>>), four), a) = 0)
    /\ Test(t, "minDegreeSum",
            minDegree(SumCreate(<<a, PowerCreate(a, two), PowerCreate(a, five)>>), a) = 1)
    /\ Test(t, "minDegreeSumOneIntegerSummand", minDegree(SumCreate(<<a, two>>), a) = 0)
    /\ Test(t, "minDegreeSumOneSummandIndependent",
            minDegree(SumCreate(<<PowerCreate(a, two), b>>), a) = 0)
    /\ Test(t, "minDegreeProduct",
            minDegree(ProductCreate(<<a, b, SumCreate(<<a, two>>)>>), a) = 1)
    /\ Test(t, "minDegreeProductNoMatchingSymbol", minDegree(ProductCreate(<<a, b, c>>), d) = 0)
    /\ Test(t, "minDegreeInvalidInput", minDegree(TrigCreate("sin", a), a) = 0)

MinDegreeCases ==
    {"minDegreeMatchingSymbol", "minDegreeDifferentSymbol", "minDegreeInteger",
     "minDegreePowerOneSymbolInBase", "minDegreeNestedPower", "minDegreePowerOtherSymbolInBase",
     "minDegreeSum", "minDegreeSumOneIntegerSummand", "minDegreeSumOneSummandIndependent",
     "minDegreeProduct", "minDegreeProductNoMatchingSymbol", "minDegreeInvalidInput"}

-----------------------------------------------------------------------------
(* testpolyinfo.cpp. *)

PolyInfoTests(t, a, b, c) ==
    /\ Test(t, "bothZero", ~isInputValid(zero, zero))
    /\ Test(t, "invalidInputFirstArgUndefined", ~isInputValid(Undefined, a))
    /\ Test(t, "invalidInputSecondArgUndefined", ~isInputValid(a, Undefined))
    /\ Test(t, "validInputFraction", isInputValid(a, Numeric(Ratio(1, 7))))
    /\ Test(t, "invalidInputSumWithNumericPower",
            ~isInputValid(SumCreate(<<a, PowerCreate(three, Numeric(Ratio(1, 17)))>>), b))
    /\ Test(t, "invalidInputPowerWithSymbolExp", ~isInputValid(a, PowerCreate(b, c)))
    /\ Test(t, "invalidInputPowerWithValidSumExp",
            ~isInputValid(a, PowerCreate(b, SumCreate(<<two, a>>))))
    /\ Test(t, "validInputTwoInteger", isInputValid(two, eight))
    /\ Test(t, "validInputSumAndProduct",
            isInputValid(SumCreate(<<two, a>>), ProductCreate(<<b, c>>)))
    /\ Test(t, "emptySymbolList", listOfSymbols(three, four) = <<>>)
    /\ Test(t, "symbolListForOneSymbol", <<a>> = listOfSymbols(a, a))
    /\ Test(t, "symbolListTwoSymbols", <<a, b>> = listOfSymbols(a, b))

PolyInfoCases ==
    {"bothZero", "invalidInputFirstArgUndefined", "invalidInputSecondArgUndefined",
     "validInputFraction", "invalidInputSumWithNumericPower", "invalidInputPowerWithSymbolExp",
     "invalidInputPowerWithValidSumExp", "validInputTwoInteger", "validInputSumAndProduct",
     "emptySymbolList", "symbolListForOneSymbol", "symbolListTwoSymbols"}

-----------------------------------------------------------------------------
(* testpolydivide.cpp. *)

DivisionTests1(t, a, b, c, d, e, f) ==
    /\ Test(t, "zeroDividend",
            LET theResult == DivideBy(zero, two, <<a, b>>)
            IN  theResult[1] = zero /\ Last(theResult) = zero)
    /\ Test(t, "emptyContainer",
            LET theU      == SumCreate(<<a, b>>)
                theResult == DivideBy(theU, ProductCreate(<<c, SumCreate(<<d, e>>)>>), <<>>)
            IN  theResult[1] = zero /\ Last(theResult) = theU)
    /\ Test(t, "wrongSymbolsInContainer",
            LET theU      == PowerCreate(SumCreate(<<a, b>>), two)
                theResult == DivideBy(theU,
                                      SumCreate(<<ProductCreate(<<two, c>>),
                                                  PowerCreate(d, three)>>),
                                      <<e, f>>)
            IN  theResult[1] = zero /\ Last(theResult) = theU)
    /\ Test(t, "twoFractionsEmptyContainer",
            LET theResult == DivideBy(third, Numeric(Ratio(4, 5)), <<>>)
            IN  theResult[1] = Numeric(Ratio(5, 12)) /\ isZero(Last(theResult)))
    /\ Test(t, "fractionCoeff",
            LET theResult == DivideBy(ProductCreate(<<Numeric(Ratio(2, 3)),
                                                      PowerCreate(a, three), b>>),
                                      ProductCreate(<<Numeric(Ratio(-3, 7)), a, b>>), <<a, b>>)
            IN  /\ theResult[1] = ProductCreate(<<Numeric(Ratio(-14, 9)), PowerCreate(a, two)>>)
                /\ Last(theResult) = zero)
    /\ Test(t, "invalidInputBothZero",
            LET theResult == PolyDivide(zero, zero)
            IN  isUndefined(theResult[1]) /\ isUndefined(Last(theResult)))
    /\ Test(t, "invalidInputWithFunction",
            LET theResult == DivideBy(TrigCreate("acos", a), SumCreate(<<two, a>>), <<a>>)
            IN  isUndefined(theResult[1]) /\ isUndefined(Last(theResult)))
    /\ Test(t, "intRemainder",
            LET res == PolyDivide(SumCreate(<<ProductCreate(<<three, PowerCreate(a, three)>>),
                                              ProductCreate(<<Integer(-5), PowerCreate(a, two)>>),
                                              ProductCreate(<<ten, a>>), Integer(-3)>>),
                                  SumCreate(<<ProductCreate(<<three, a>>), one>>))
            IN  /\ res[1]
                     = SumCreate(<<PowerCreate(a, two), ProductCreate(<<mOne, two, a>>), four>>)
                /\ Last(res) = Integer(-7))
    /\ Test(t, "noQuotient",
            LET dividend == SumCreate(<<PowerCreate(a, two),
                                        SumCreate(<<ProductCreate(<<a, Integer(-2)>>),
                                                    ProductCreate(<<Integer(-1), b>>)>>)>>)
                res      == DivideBy(dividend,
                                     SumCreate(<<ProductCreate(<<a, b>>), Integer(-1)>>),
                                     <<a, b>>)
            IN  isZero(res[1]) /\ Last(res) = dividend)
    /\ Test(t, "quotientWithRationalCoeff",
            LET res == DivideBy(SumCreate(<<ProductCreate(<<mOne, a, a, b>>),
                                            PowerCreate(b, three)>>),
                                ProductCreate(<<mOne, two, b>>), <<a, b>>)
            IN  /\ res[1]
                     = SumCreate(<<ProductCreate(<<half, a, a>>),
                                   ProductCreate(<<mOne, half, b, b>>)>>)
                /\ isZero(Last(res)))
    /\ Test(t, "multipleVarsNoRemainder",
            LET p1  == SumCreate(<<ProductCreate(<<a, PowerCreate(b, two)>>),
                                   ProductCreate(<<a, c>>)>>)
                p2  == SumCreate(<<PowerCreate(d, three), ProductCreate(<<two, e>>)>>)
                res == DivideBy(Expand(ProductCreate(<<p1, p2>>)), p2, <<a, b, c, d, e>>)
            IN  res[1] = p1 /\ isZero(Last(res)))

DivisionTests2(t, a, b, c, d, e) ==
    /\ Test(t, "hugeExpandedPolynomials",
            LET p12   == Expand(ProductCreate(<<SumCreate(<<ProductCreate(<<two, a>>),
                                                            ProductCreate(<<b, c>>)>>),
                                                SumCreate(<<PowerCreate(d, five),
                                                            PowerCreate(e, four)>>)>>))
                p34   == Expand(ProductCreate(<<SumCreate(<<ProductCreate(<<Integer(17),
                                                                            PowerCreate(b, two)>>),
                                                            ProductCreate(<<mOne, five, b, a>>)>>),
                                                SumCreate(<<ProductCreate(<<PowerCreate(c,
                                                                                        three),
                                                                            a, b,
                                                                            ProductCreate(<<d,
                                                                                            e>>)>>),
                                                            PowerCreate(e, two),
                                                            Minus(PowerCreate(d, five))>>)>>))
                p1234 == Expand(ProductCreate(<<p12, p34>>))
                res   == DivideBy(p1234, p12, <<a, b, c, d, e>>)
                res2  == DivideBy(p1234, p34, <<a, b, c, d, e>>)
            IN  res[1] = p34 /\ Last(res) = zero /\ res2[1] = p12 /\ Last(res2) = zero)
    /\ Test(t, "cohenExample01",
            LET theResult == pseudoDivide(a, SumCreate(<<ProductCreate(<<a, b>>), b>>), a)
            IN  theResult[1] = one /\ Last(theResult) = Minus(b))
    /\ Test(t, "cohenExample02",
            LET theResult == pseudoDivide(SumCreate(<<ProductCreate(<<five,
                                                                      PowerCreate(a, four),
                                                                      PowerCreate(b, three)>>),
                                                      ProductCreate(<<three, a, b>>), two>>),
                                          SumCreate(<<ProductCreate(<<two,
                                                                      PowerCreate(a, three), b>>),
                                                      ProductCreate(<<two, a>>), three>>),
                                          a)
            IN  /\ theResult[1] = ProductCreate(<<ten, a, PowerCreate(b, four)>>)
                /\ Last(theResult)
                     = SumCreate(<<ProductCreate(<<Integer(-20), a, a, PowerCreate(b, four)>>),
                                   ProductCreate(<<Integer(-30), a, PowerCreate(b, four)>>),
                                   ProductCreate(<<Integer(12), a, PowerCreate(b, three)>>),
                                   ProductCreate(<<eight, b, b>>)>>))

DivisionCases ==
    {"zeroDividend", "emptyContainer", "wrongSymbolsInContainer", "twoFractionsEmptyContainer",
     "fractionCoeff", "invalidInputBothZero", "invalidInputWithFunction", "intRemainder",
     "noQuotient", "quotientWithRationalCoeff", "multipleVarsNoRemainder",
     "hugeExpandedPolynomials", "cohenExample01", "cohenExample02"}

-----------------------------------------------------------------------------
(* testpolycontentunit.cpp. *)

ContentUnitTests1(t, a, b, c, d, e, f, g) ==
    /\ Test(t, "unitOfZero", unit(zero, a) = 1 /\ unit(zero, zero) = 1)
    /\ Test(t, "illegalUndefinedInput", unit(Undefined, a) = 1)
    /\ Test(t, "illegalNumPowerInput",
            unit(SumCreate(<<a,
                             ProductCreate(<<two, SumCreate(<<PowerCreate(five, third), b>>)>>)>>),
                 b)
              = 1)
    /\ Test(t, "posSymbol", unit(a, a) = 1)
    /\ Test(t, "negSymbol", unit(Minus(a), a) = -1)
    /\ Test(t, "negMonomial", unit(ProductCreate(<<mOne, a, b, PowerCreate(c, two)>>), c) = -1)
    /\ Test(t, "posMonomial", unit(ProductCreate(<<a, b, PowerCreate(c, three)>>), b) = 1)
    /\ Test(t, "longNegativeMonomial",
            LET monomial == ProductCreate(<<mOne, PowerCreate(a, ten), b, PowerCreate(c, five),
                                            PowerCreate(d, Integer(112)), PowerCreate(e, two),
                                            f>>)
            IN  /\ unit(monomial, a) = -1
                /\ unit(monomial, b) = -1
                /\ unit(monomial, c) = -1
                /\ unit(monomial, d) = -1
                /\ unit(monomial, e) = -1
                /\ unit(monomial, g) = -1)
    /\ Test(t, "mixedSignPolynomial",
            unit(SumCreate(<<ProductCreate(<<a, b, b>>),
                             ProductCreate(<<mOne, a, PowerCreate(c, three)>>)>>),
                 a)
              = 1)
    /\ Test(t, "mixedInverseSignPolynomial",
            unit(SumCreate(<<ProductCreate(<<mOne, a, b, b>>), ProductCreate(<<a, c, c, c>>)>>),
                 a)
              = -1)
    /\ Test(t, "positiveSignPolynomial",
            unit(SumCreate(<<ProductCreate(<<half, a, b, b>>),
                             ProductCreate(<<a, a, PowerCreate(b, three)>>),
                             ProductCreate(<<PowerCreate(a, three), PowerCreate(b, five)>>)>>),
                 a)
              = 1)
    /\ Test(t, "negativeSignPolynomial",
            unit(SumCreate(<<ProductCreate(<<Numeric(Ratio(-1, 5)), a, b>>),
                             ProductCreate(<<Numeric(Ratio(-2, 7)), c, d>>)>>),
                 d)
              = -1)
    /\ Test(t, "contentOfZero", Content(zero, a, "subresultant") = zero)
    /\ Test(t, "posSymbol", Content(a, a, "subresultant") = one)
    /\ Test(t, "negSymbol", Content(Minus(a), a, "subresultant") = one)
    /\ Test(t, "positiveNumeric", Content(five, a, "subresultant") = five)
    /\ Test(t, "negativeNumeric",
            Numeric(Ratio(1, 10)) = Content(Numeric(Ratio(-1, 10)), a, "subresultant"))
    /\ Test(t, "simpleMultiVarPolyWithIntCoeff",
            Content(SumCreate(<<ProductCreate(<<mOne, two, a, b>>),
                                ProductCreate(<<mOne, b, b>>)>>),
                    a, "subresultant")
              = b)
    /\ Test(t, "simpleMultivarPoly",
            Content(SumCreate(<<ProductCreate(<<mOne, a, a, b>>), PowerCreate(b, three)>>), a,
                    "subresultant")
              = b)

ContentUnitTests2(t, a, c) ==
    /\ Test(t, "multivarPoly",
            Content(SumCreate(<<ProductCreate(<<Integer(14), a, a>>),
                                ProductCreate(<<Integer(14), a, PowerCreate(c, five)>>)>>),
                    a, "subresultant")
              = Integer(14))

ContentUnitCases ==
    {"unitOfZero", "illegalUndefinedInput", "illegalNumPowerInput", "posSymbol", "negSymbol",
     "negMonomial", "posMonomial", "longNegativeMonomial", "mixedSignPolynomial",
     "mixedInverseSignPolynomial", "positiveSignPolynomial", "negativeSignPolynomial",
     "contentOfZero", "posSymbol", "negSymbol", "positiveNumeric", "negativeNumeric",
     "simpleMultiVarPolyWithIntCoeff", "simpleMultivarPoly", "multivarPoly"}

-----------------------------------------------------------------------------
(* testgcd.cpp. *)

GcdTests1(t, a, b, c, d, e) ==
    /\ Test(t, "twoIntegerNumerics", checkGcd(three, three, nine))
    /\ Test(t, "twoRationalNumerics", checkGcd(one, third, Numeric(Ratio(1, 15))))
    /\ Test(t, "twoIntegerNumericsWithGcdOne", checkGcd(one, three, seven))
    /\ Test(t, "equalSums",
            LET sum == SumCreate(<<a, b>>)
            IN  checkGcd(sum, sum, sum))
    /\ Test(t, "bothZero", checkGcd(Undefined, zero, zero))
    /\ Test(t, "bothZeroAfterExpansion",
            LET zeroAfterExpansion == SumCreate(<<ProductCreate(<<a, b>>),
                                                  ProductCreate(<<mOne, b, c>>),
                                                  ProductCreate(<<b,
                                                                  SumCreate(<<c, Minus(a)>>)>>)>>)
            IN  checkGcd(Undefined, zeroAfterExpansion, zeroAfterExpansion))
    /\ Test(t, "firstArgZeroAfterExpansion",
            checkGcd(a,
                     SumCreate(<<ProductCreate(<<a, b>>), ProductCreate(<<mOne, b, c>>),
                                 ProductCreate(<<b, SumCreate(<<c, Minus(a)>>)>>)>>),
                     a))
    /\ Test(t, "secondArgZeroAfterExpansion",
            checkGcd(a,
                     SumCreate(<<ProductCreate(<<a, b>>), ProductCreate(<<mOne, b, c>>),
                                 ProductCreate(<<b, SumCreate(<<c, Minus(a)>>)>>)>>),
                     a))
    /\ Test(t, "firstArgOneAfterExpansion",
            checkGcd(one,
                     SumCreate(<<one,
                                 SumCreate(<<ProductCreate(<<a, b>>),
                                             ProductCreate(<<mOne, b, c>>),
                                             ProductCreate(<<b, SumCreate(<<c, Minus(a)>>)>>)>>)>>),
                     SumCreate(<<a, b>>)))
    /\ Test(t, "secondArgOneAfterExpansion",
            checkGcd(one, SumCreate(<<two, b>>),
                     SumCreate(<<one,
                                 SumCreate(<<ProductCreate(<<a, b>>),
                                             ProductCreate(<<mOne, b, c>>),
                                             ProductCreate(<<b, SumCreate(<<c, Minus(a)>>)>>)>>)>>)))
    /\ Test(t, "noCommonSymbol",
            checkGcd(one, SumCreate(<<a, PowerCreate(b, two)>>),
                     SumCreate(<<ProductCreate(<<c, d>>), ProductCreate(<<four, e>>)>>)))
    /\ Test(t, "numericsAfterExpansion",
            LET theU == SumCreate(<<four, ProductCreate(<<a, SumCreate(<<b, two>>)>>),
                                    ProductCreate(<<mOne, a, b>>),
                                    ProductCreate(<<mOne, two, a>>)>>)
            IN  checkGcd(four, theU, Integer(16)) /\ checkGcd(four, Integer(16), theU))
    /\ Test(t, "equalAfterExpansion",
            LET unExpanded == ProductCreate(<<a, SumCreate(<<b, c>>)>>)
                expanded   == SumCreate(<<ProductCreate(<<a, b>>), ProductCreate(<<a, c>>)>>)
            IN  /\ checkGcd(expanded, unExpanded, expanded)
                /\ checkGcd(expanded, expanded, unExpanded))
    /\ Test(t, "negAndPosSymbol", checkGcd(a, Minus(a), a))
    /\ Test(t, "posPowerAndNegNumFactor",
            checkGcd(a, PowerCreate(a, two), ProductCreate(<<mOne, two, a>>)))
    /\ Test(t, "negNumFactorAndPosPower",
            checkGcd(a, ProductCreate(<<mOne, two, a>>), PowerCreate(a, two)))
    /\ Test(t, "negSymbolAndSimplePower", checkGcd(a, Minus(a), PowerCreate(a, three)))
    /\ Test(t, "simpleUnivarMonomial",
            checkGcd(b, PowerCreate(b, two), ProductCreate(<<mOne, two, b>>)))
    /\ Test(t, "numericAndSimpleMonomial", checkGcd(two, two, ProductCreate(<<two, a>>)))
    /\ Test(t, "simpleMultivarPoly",
            LET aSquare == PowerCreate(a, two)
            IN  checkGcd(b,
                         SumCreate(<<ProductCreate(<<mOne, b, aSquare>>),
                                     PowerCreate(b, three)>>),
                         SumCreate(<<ProductCreate(<<b, aSquare>>),
                                     ProductCreate(<<two, PowerCreate(b, two), a>>)>>)))

GcdTests2(t, a, b) ==
    /\ Test(t, "simpleMultivarPolyCohenExample",
            LET aSquare == PowerCreate(a, two)
            IN  checkGcd(SumCreate(<<ProductCreate(<<a, b>>), PowerCreate(b, two)>>),
                         SumCreate(<<ProductCreate(<<mOne, b, aSquare>>),
                                     PowerCreate(b, three)>>),
                         SumCreate(<<ProductCreate(<<b, aSquare>>),
                                     ProductCreate(<<two, PowerCreate(b, two), a>>),
                                     PowerCreate(b, three)>>)))
    /\ Test(t, "rationalCoefficients", checkGcd(a, ProductCreate(<<a, third>>), a))

GcdTests3(t, a, b, c, d, e, f, g, h) ==
    /\ Test(t, "simpleIntegerCoefficientsAllExpOne",
            checkGcd(ProductCreate(<<Integer(14), b>>), ProductCreate(<<Integer(168), a, b>>),
                     ProductCreate(<<Integer(322), c, b>>)))
    /\ Test(t, "simpleIntegerCoefficientsExpGreaterOne",
            checkGcd(SumCreate(<<PowerCreate(a, two),
                                 ProductCreate(<<a, PowerCreate(c, five)>>)>>),
                     SumCreate(<<ProductCreate(<<three, PowerCreate(a, three), b>>),
                                 ProductCreate(<<three, PowerCreate(a, two), b,
                                                 PowerCreate(c, five)>>)>>),
                     SumCreate(<<ProductCreate(<<Integer(14), a, a>>),
                                 ProductCreate(<<Integer(14), a, PowerCreate(c, five)>>)>>)))
    /\ Test(t, "integerCoefficientsLargerIntExp",
            LET theV == SumCreate(<<Integer(14), ProductCreate(<<three, a, b, c>>)>>)
            IN  checkGcd(theV,
                         SumCreate(<<ProductCreate(<<Integer(56), PowerCreate(c, five), e>>),
                                     ProductCreate(<<Integer(12), a, b,
                                                     ProductCreate(<<PowerCreate(c, six), e>>)>>)>>),
                         theV))
    /\ Test(t, "simpleIntegerCoefficients",
            checkGcd(ProductCreate(<<three, a, PowerCreate(b, four)>>),
                     ProductCreate(<<three, a, PowerCreate(b, four)>>),
                     ProductCreate(<<three, a, PowerCreate(b, four), PowerCreate(c, five)>>)))
    /\ Test(t, "integerCoefficients",
            LET cefg == ProductCreate(<<c, e, f, g>>)
            IN  checkGcd(ProductCreate(<<Integer(116), e>>),
                         SumCreate(<<ProductCreate(<<Integer(-464), a, b, e>>),
                                     ProductCreate(<<Integer(-1972), a, PowerCreate(b, two),
                                                     cefg>>),
                                     ProductCreate(<<Integer(3364), d, e, h>>)>>),
                         SumCreate(<<ProductCreate(<<Integer(-3364), d, e>>),
                                     ProductCreate(<<Integer(13456), PowerCreate(a, two), b,
                                                     cefg>>)>>)))
    /\ Test(t, "largeMultivarPolyCohenExample",
            LET aCubic  == PowerCreate(a, three)
                aSquare == PowerCreate(a, two)
                bSquare == PowerCreate(b, two)
            IN  checkGcd(SumCreate(<<two, a>>),
                         SumCreate(<<ProductCreate(<<aCubic, bSquare>>),
                                     ProductCreate(<<six, PowerCreate(a, four), b>>),
                                     ProductCreate(<<nine, PowerCreate(a, five)>>),
                                     ProductCreate(<<four, aSquare, bSquare>>),
                                     ProductCreate(<<Integer(24), aCubic, b>>),
                                     ProductCreate(<<Integer(36), PowerCreate(a, four)>>),
                                     ProductCreate(<<five, a, bSquare>>),
                                     ProductCreate(<<Integer(30), b, aSquare>>),
                                     ProductCreate(<<Integer(45), aCubic>>),
                                     ProductCreate(<<two, bSquare>>),
                                     ProductCreate(<<Integer(12), a, b>>),
                                     ProductCreate(<<Integer(18), aSquare>>)>>),
                         SumCreate(<<ProductCreate(<<PowerCreate(a, five), bSquare>>),
                                     ProductCreate(<<eight, PowerCreate(a, four), b>>),
                                     ProductCreate(<<Integer(16), aCubic>>),
                                     ProductCreate(<<Integer(12), PowerCreate(a, four),
                                                     bSquare>>),
                                     ProductCreate(<<Integer(96), aCubic, b>>),
                                     ProductCreate(<<Integer(192), aSquare>>),
                                     ProductCreate(<<Integer(45), aCubic, bSquare>>),
                                     ProductCreate(<<Integer(360), b, aSquare>>),
                                     ProductCreate(<<Integer(720), a>>),
                                     ProductCreate(<<Integer(50), aSquare, bSquare>>),
                                     ProductCreate(<<Integer(400), a, b>>), Integer(800)>>)))

GcdCases ==
    {"twoIntegerNumerics", "twoRationalNumerics", "twoIntegerNumericsWithGcdOne", "equalSums",
     "bothZero", "bothZeroAfterExpansion", "firstArgZeroAfterExpansion",
     "secondArgZeroAfterExpansion", "firstArgOneAfterExpansion", "secondArgOneAfterExpansion",
     "noCommonSymbol", "numericsAfterExpansion", "equalAfterExpansion", "negAndPosSymbol",
     "posPowerAndNegNumFactor", "negNumFactorAndPosPower", "negSymbolAndSimplePower",
     "simpleUnivarMonomial", "numericAndSimpleMonomial", "simpleMultivarPoly",
     "simpleMultivarPolyCohenExample", "rationalCoefficients",
     "simpleIntegerCoefficientsAllExpOne", "simpleIntegerCoefficientsExpGreaterOne",
     "integerCoefficientsLargerIntExp", "simpleIntegerCoefficients", "integerCoefficients",
     "largeMultivarPolyCohenExample"}

=============================================================================
