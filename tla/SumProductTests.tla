--------------------------- MODULE SumProductTests --------------------------
(* Unit tests of sums and products and their expansion. *)
EXTENDS TestFixture

-----------------------------------------------------------------------------
(* testsum.cpp. *)

SumTests1(t, a, b, c, d, e) ==
    /\ Test(t, "undefinedToUndefined", isUndefined(SumCreate(<<Undefined, a>>)))
    /\ Test(t, "createWithOneSummandGivenAsList", SumCreate(<<a>>) = a)
    /\ Test(t, "twoNumericSummands",
            LET sum == SumCreate(<<two, three>>)
            IN  isNumeric(sum) /\ numericEval(sum) = Whole(5))
    /\ Test(t, "twoNumericSummandsResultingInZero", isZero(SumCreate(<<two, Integer(-2)>>)))
    /\ Test(t, "zeroPlusZero", isZero(SumCreate(<<zero, zero>>)))
    /\ Test(t, "symbolPlusZero", SumCreate(<<a, zero>>) = a)
    /\ Test(t, "zeroPlusSymbol", SumCreate(<<zero, a>>) = a)
    /\ Test(t, "rearrangeTwoSymbols",
            LET res == SumCreate(<<b, a>>)
            IN  isSum(res) /\ res.ops[1] = a /\ Last(res.ops) = b)
    /\ Test(t, "rearrangeFiveSymbols",
            LET res == SumCreate(<<e, c, a, b, d>>)
            IN  isSum(res) /\ <<a, b, c, d, e>> = res.ops)
    /\ Test(t, "orderingOfMixedTerms",
            SumCreate(<<a, ProductCreate(<<mOne, Sqrt(two), a>>)>>)
              = SumCreate(<<ProductCreate(<<mOne, Sqrt(two), a>>), a>>))
    /\ Test(t, "collectSymbols",
            LET res == SumCreate(<<a, a>>)
            IN  isProduct(res) /\ res.ops = <<two, a>>)
    /\ Test(t, "collectProducts",
            LET ab  == ProductCreate(<<a, b>>)
                res == SumCreate(<<ProductCreate(<<two, ab>>), ProductCreate(<<three, ab>>)>>)
            IN  isProduct(res) /\ <<five, a, b>> = res.ops)
    /\ Test(t, "collectProductOfSymbols",
            LET ab == ProductCreate(<<a, b>>)
            IN  SumCreate(<<ProductCreate(<<two, ab>>), ab>>) = ProductCreate(<<three, ab>>))
    /\ Test(t, "collectPower",
            LET pow == PowerCreate(a, three)
                res == SumCreate(<<ProductCreate(<<three, pow>>), pow>>)
            IN  /\ isProduct(res)
                /\ Len(res.ops) = 2
                /\ res.ops[1] = four
                /\ Base(Last(res.ops)) = a
                /\ Exp(Last(res.ops)) = three)

SumTests2(t, a, b, c, d, e) ==
    /\ Test(t, "collectProductOfPower",
            LET p1 == ProductCreate(<<PowerCreate(a, two), Sqrt(b)>>)
            IN  isZero(SumCreate(<<p1, Minus(p1)>>)))
    /\ Test(t, "twoSums",
            LET res == SumCreate(<<SumCreate(<<a, b>>), SumCreate(<<a, c>>)>>)
            IN  isSum(res) /\ <<ProductCreate(<<two, a>>), b, c>> = res.ops)
    /\ Test(t, "sumOfSumAndSymbols",
            LET res == SumCreate(<<SumCreate(<<a, d>>), e, c>>)
            IN  isSum(res) /\ <<a, c, d, e>> = res.ops)
    /\ Test(t, "cancellationOfNumbersInTwoSums",
            LET res == SumCreate(<<SumCreate(<<one, a>>), SumCreate(<<mOne, b>>)>>)
            IN  isSum(res) /\ res.ops = <<a, b>>)
    /\ Test(t, "simpleCollectionOfNumericPowers",
            LET res == SumCreate(<<Sqrt(two), Sqrt(two)>>)
            IN  isProduct(res) /\ res = ProductCreate(<<two, Sqrt(two)>>))
    /\ Test(t, "collectionOfNumericPowers",
            LET res == SumCreate(<<ProductCreate(<<two, Sqrt(two)>>), Sqrt(two)>>)
            IN  isProduct(res) /\ res = ProductCreate(<<three, Sqrt(two)>>))
    /\ Test(t, "collectionOfNumericPowersInProduct",
            LET product == ProductCreate(<<Sqrt(two), PowerCreate(three, fourth)>>)
                res     == SumCreate(<<ProductCreate(<<two, product>>), product>>)
            IN  isProduct(res) /\ res = ProductCreate(<<three, product>>))
    /\ Test(t, "collectNumericPowerProduct",
            LET term == ProductCreate(<<Sqrt(two), Sqrt(three)>>)
                res  == SumCreate(<<SumCreate(<<two, term>>),
                                    SumCreate(<<one, ProductCreate(<<two, term>>)>>)>>)
            IN  /\ isSum(res)
                /\ isConst(res)
                /\ res = SumCreate(<<three, ProductCreate(<<three, Sqrt(six)>>)>>))
    /\ Test(t, "collectionOfConstCoeff",
            LET s1  == ProductCreate(<<two, a>>)
                s2  == ProductCreate(<<Sqrt(three), a>>)
                res == SumCreate(<<s1, s2>>)
            IN  isSum(res) /\ res.ops[1] = s1 /\ Last(res.ops) = s2)
    /\ Test(t, "collectionOfPi",
            SumCreate(<<ProductCreate(<<two, Pi>>), Pi>>) = ProductCreate(<<three, Pi>>))
    /\ Test(t, "collectionOfE",
            SumCreate(<<ProductCreate(<<two, E>>), ProductCreate(<<Sqrt(three), E>>)>>)
              = ProductCreate(<<SumCreate(<<two, Sqrt(three)>>), E>>))
    /\ Test(t, "collectionOfPiTimesSymbol",
            LET piAb == ProductCreate(<<Pi, a, b>>)
                res  == SumCreate(<<ProductCreate(<<two, piAb>>), piAb>>)
            IN  isProduct(res) /\ res = ProductCreate(<<three, piAb>>))
    /\ Test(t, "noCollectionOfPiInDifferentProducts",
            LET s1  == ProductCreate(<<three, Pi>>)
                s2  == ProductCreate(<<two, Pi, a>>)
                res == SumCreate(<<s1, s2>>)
            IN  isSum(res) /\ res.ops[1] = s1 /\ Last(res.ops) = s2)

SumTests3(t, a, b) ==
    /\ Test(t, "noCollectionOfNumberAndPi",
            LET ab  == ProductCreate(<<a, b>>)
                s1  == ProductCreate(<<two, ab>>)
                s2  == ProductCreate(<<Pi, ab>>)
                res == SumCreate(<<s1, s2>>)
            IN  isSum(res) /\ res.ops[1] = s1 /\ Last(res.ops) = s2)
    /\ Test(t, "collectionOfNumberNumPowAndPi",
            LET fac == ProductCreate(<<Sqrt(three), Pi>>)
            IN  SumCreate(<<ProductCreate(<<two, fac>>), ProductCreate(<<four, fac>>)>>)
                  = ProductCreate(<<six, fac>>))
    /\ Test(t, "nonEqualConstTermsWithPi",
            LET piAb == ProductCreate(<<Pi, a, b>>)
                s1   == ProductCreate(<<two, piAb>>)
                s2   == ProductCreate(<<Sqrt(three), piAb>>)
                res  == SumCreate(<<s1, s2>>)
            IN  isSum(res) /\ res.ops[1] = s1 /\ Last(res.ops) = s2)
    /\ Test(t, "noCollectionOfPiNumericPowCoeff",
            LET s1  == ProductCreate(<<two, Pi>>)
                s2  == ProductCreate(<<Sqrt(three), Pi>>)
                res == SumCreate(<<s1, s2>>)
            IN  isSum(res) /\ res.ops[1] = s1 /\ Last(res.ops) = s2)
    /\ Test(t, "sumOfEqualFunctionsEqualArgs",
            LET sinA == TrigCreate("sin", a)
            IN  SumCreate(<<sinA, ProductCreate(<<two, sinA>>)>>)
                  = ProductCreate(<<three, sinA>>))
    /\ Test(t, "sumOfEqualFunctionsDifferentArguments",
            LET sinB == TrigCreate("sin", b)
                sinA == TrigCreate("sin", a)
                res  == SumCreate(<<sinA, sinB>>)
            IN  isSum(res) /\ res.ops[1] = sinA /\ Last(res.ops) = sinB)
    /\ Test(t, "sumOfLogarithmDifferentArguments",
            LET logTwo   == LogarithmCreate(two)
                logThree == LogarithmCreate(three)
                sum      == SumCreate(<<logTwo, logThree>>)
            IN  isSum(sum) /\ logTwo = sum.ops[1] /\ logThree = Last(sum.ops))
    /\ Test(t, "sumOfLogarithmNoSimplification",
            LET logA      == LogarithmCreate(a)
                minusLogB == Minus(LogarithmCreate(b))
                sum       == SumCreate(<<logA, minusLogB>>)
            IN  isSum(sum) /\ logA = sum.ops[1] /\ minusLogB = Last(sum.ops))

SumTests4(t, a) ==
    /\ Test(t, "contractableSinCosSquareWithoutPrefactor",
            isOne(SumCreate(<<PowerCreate(TrigCreate("sin", a), two),
                              PowerCreate(TrigCreate("cos", a), two)>>)))
    /\ Test(t, "contractableSinCosSquarePrefactorMinusOne",
            SumCreate(<<Minus(PowerCreate(TrigCreate("sin", a), two)),
                        Minus(PowerCreate(TrigCreate("cos", a), two))>>)
              = mOne)
    /\ Test(t, "contractableSinCosSquareNegNumericPrefactor",
            LET fac == Numeric(Ratio(-17, 18))
            IN  SumCreate(<<ProductCreate(<<fac, PowerCreate(TrigCreate("sin", a), two)>>),
                            ProductCreate(<<fac, PowerCreate(TrigCreate("cos", a), two)>>)>>)
                  = fac)
    /\ Test(t, "contractableSinCosSquarePosNumPowPrefactor",
            LET fac == PowerCreate(Integer(12), Numeric(Ratio(1, 5)))
            IN  SumCreate(<<ProductCreate(<<fac, PowerCreate(TrigCreate("cos", a), two)>>),
                            ProductCreate(<<fac, PowerCreate(TrigCreate("sin", a), two)>>)>>)
                  = fac)
    /\ Test(t, "contractableSinCosSquareNegNumPowPrefactor",
            SumCreate(<<ProductCreate(<<Sqrt(three), PowerCreate(TrigCreate("cos", a), two)>>),
                        ProductCreate(<<Sqrt(three), PowerCreate(TrigCreate("sin", a), two)>>)>>)
              = Sqrt(three))
    /\ Test(t, "nonContractableSinCosSquareNonEqualPrefactor",
            LET s1        == ProductCreate(<<three, PowerCreate(TrigCreate("sin", a), two)>>)
                s2        == ProductCreate(<<two, PowerCreate(TrigCreate("cos", a), two)>>)
                theResult == SumCreate(<<s1, s2>>)
            IN  isSum(theResult) /\ theResult.ops[1] = s2 /\ Last(theResult.ops) = s1)

SumCases ==
    {"undefinedToUndefined", "createWithOneSummandGivenAsList", "twoNumericSummands",
     "twoNumericSummandsResultingInZero", "zeroPlusZero", "symbolPlusZero", "zeroPlusSymbol",
     "rearrangeTwoSymbols", "rearrangeFiveSymbols", "orderingOfMixedTerms", "collectSymbols",
     "collectProducts", "collectProductOfSymbols", "collectPower", "collectProductOfPower",
     "twoSums", "sumOfSumAndSymbols", "cancellationOfNumbersInTwoSums",
     "simpleCollectionOfNumericPowers", "collectionOfNumericPowers",
     "collectionOfNumericPowersInProduct", "collectNumericPowerProduct",
     "collectionOfConstCoeff", "collectionOfPi", "collectionOfE", "collectionOfPiTimesSymbol",
     "noCollectionOfPiInDifferentProducts", "noCollectionOfNumberAndPi",
     "collectionOfNumberNumPowAndPi", "nonEqualConstTermsWithPi",
     "noCollectionOfPiNumericPowCoeff", "sumOfEqualFunctionsEqualArgs",
     "sumOfEqualFunctionsDifferentArguments", "sumOfLogarithmDifferentArguments",
     "sumOfLogarithmNoSimplification", "contractableSinCosSquareWithoutPrefactor",
     "contractableSinCosSquarePrefactorMinusOne", "contractableSinCosSquareNegNumericPrefactor",
     "contractableSinCosSquarePosNumPowPrefactor", "contractableSinCosSquareNegNumPowPrefactor",
     "nonContractableSinCosSquareNonEqualPrefactor"}

-----------------------------------------------------------------------------
(* testproduct.cpp. *)

ProductTests1(t, a, b) ==
    /\ Test(t, "undefinedToUndefined", isUndefined(ProductCreate(<<Undefined, a>>)))
    /\ Test(t, "zero", isZero(ProductCreate(<<ProductCreate(<<a, b>>), zero>>)))
    /\ Test(t, "twoNumericFactors",
            LET p == ProductCreate(<<two, three>>)
            IN  isNumeric(p) /\ numericEval(p) = Whole(6))
    /\ Test(t, "twoNumericFactorsResultingInOne",
            LET p == ProductCreate(<<two, half>>)
            IN  isNumeric(p) /\ numericEval(p) = Whole(1))
    /\ Test(t, "numberTimesNumericPower",
            LET p == ProductCreate(<<two, Sqrt(two)>>)
            IN  /\ isProduct(p)
                /\ isConst(p)
                /\ numericEval(p.ops[1]) = Whole(2)
                /\ isNumericPower(Last(p.ops)))
    /\ Test(t, "numberTimesResolvableNumPow",
            ProductCreate(<<Integer(-2), Sqrt(nine)>>) = Integer(-6))
    /\ Test(t, "resolvableNumPowNegativeBase",
            ProductCreate(<<two, Minus(PowerCreate(two, Numeric(Ratio(-1, 2))))>>)
              = Minus(Sqrt(two)))
    /\ Test(t, "resolvableNumPowNegativeNumericFactor",
            ProductCreate(<<Integer(-2), PowerCreate(two, Numeric(Ratio(-1, 2)))>>)
              = Minus(Sqrt(two)))
    /\ Test(t, "resolvableNumPowNegativeNumericFractionFactor",
            ProductCreate(<<b, Numeric(Ratio(-1, 2)), Sqrt(two), a>>)
              = ProductCreate(<<mOne, a, b, PowerCreate(two, Numeric(Ratio(-1, 2)))>>))
    /\ Test(t, "resolvableNumPowMixedWithSymbol",
            ProductCreate(<<two, a, Minus(PowerCreate(two, Numeric(Ratio(-1, 2))))>>)
              = ProductCreate(<<mOne, Sqrt(two), a>>))
    /\ Test(t, "constantTimesNumeric",
            LET theResult == ProductCreate(<<Pi, two>>)
            IN  isProduct(theResult) /\ theResult.ops[1] = two /\ Last(theResult.ops) = Pi)
    /\ Test(t, "numericPowerTimesNumber",
            LET p == ProductCreate(<<Sqrt(two), two>>)
            IN  isProduct(p) /\ isConst(p) /\ p.ops[1] = two /\ Sqrt(two) = Last(p.ops))
    /\ Test(t, "intTimesNumericPower",
            LET res == ProductCreate(<<Numeric(Ratio(-1, 4)), Sqrt(two)>>)
            IN  /\ isProduct(res)
                /\ res.ops[1] = Numeric(Ratio(-1, 2))
                /\ Last(res.ops) = PowerCreate(two, Numeric(Ratio(-1, 2))))
    /\ Test(t, "intTimesNumericPowerTimesOne",
            LET res == ProductCreate(<<Numeric(Ratio(-1, 4)), Sqrt(two), one>>)
            IN  /\ isProduct(res)
                /\ res.ops[1] = Numeric(Ratio(-1, 2))
                /\ Last(res.ops) = PowerCreate(two, Numeric(Ratio(-1, 2))))
    /\ Test(t, "numberAndNumericPowerEqualBase",
            LET pow == PowerCreate(two, Numeric(Ratio(2, 3)))
                res == ProductCreate(<<two, pow>>)
            IN  isProduct(res) /\ res.ops[1] = two /\ Last(res.ops) = pow)

ProductTests2(t, a) ==
    /\ Test(t, "numericPowersDifferentExpSameBase",
            LET res == ProductCreate(<<PowerCreate(two, third), PowerCreate(two, fourth)>>)
            IN  /\ isPower(res)
                /\ isNumericPower(res)
                /\ numericEval(Base(res)) = Whole(2)
                /\ numericEval(Exp(res)) = Ratio(7, 12))
    /\ Test(t, "numericPowersDifferentExpDifferentBase",
            LET np1 == PowerCreate(two, third)
                np2 == PowerCreate(three, fourth)
                res == ProductCreate(<<np1, np2>>)
            IN  isProduct(res) /\ res.ops[1] = np1 /\ Last(res.ops) = np2)
    /\ Test(t, "reductionOfDifferentNumericPowers",
            LET threeOverTwo == Numeric(Ratio(3, 2))
                res          == ProductCreate(<<threeOverTwo, Sqrt(Numeric(Ratio(2, 3)))>>)
            IN  isPower(res) /\ Exp(res) = half /\ Base(res) = threeOverTwo)
    /\ Test(t, "reductionOfSameNumericBaseDifferentExp",
            LET res == ProductCreate(<<two, PowerCreate(two, Numeric(Ratio(-1, 2)))>>)
            IN  isPower(res) /\ Exp(res) = half /\ Base(res) = two)
    /\ Test(t, "reductionOfSameNumericBaseDifferentExponent",
            LET res == ProductCreate(<<Sqrt(two), half>>)
            IN  isPower(res) /\ Exp(res) = Numeric(Ratio(-1, 2)) /\ Base(res) = two)
    /\ Test(t, "mergeNumericsOfSimplifiedNumericPower",
            LET res == ProductCreate(<<ProductCreate(<<two, Sqrt(three)>>), Sqrt(six)>>)
            IN  isProduct(res) /\ res.ops = <<six, Sqrt(two)>>)
    /\ Test(t, "differentNumericPowerProduct",
            LET p == ProductCreate(<<Sqrt(two), Sqrt(three)>>)
            IN  isNumericPower(p) /\ Base(p) = six /\ Ratio(1, 2) = numericEval(Exp(p)))
    /\ Test(t, "simpleNumericPowersDifferentExpSign",
            ProductCreate(<<PowerCreate(Integer(17), third),
                            PowerCreate(three, Numeric(Ratio(-1, 3)))>>)
              = PowerCreate(Numeric(Ratio(17, 3)), third))
    /\ Test(t, "numericPowersDifferentExpSign",
            LET exp == Numeric(Ratio(12, 23))
            IN  ProductCreate(<<PowerCreate(Numeric(Ratio(3, 5)), exp),
                                PowerCreate(Numeric(Ratio(9, 11)), Minus(exp)),
                                PowerCreate(two, Minus(exp)),
                                PowerCreate(Numeric(Ratio(1, 10)), exp)>>)
                  = PowerCreate(Numeric(Ratio(11, 300)), exp))
    /\ Test(t, "contractionOfNumerics",
            ProductCreate(<<fourth, Numeric(Ratio(2, 5)), Integer(11), Numeric(Ratio(3, 7))>>)
              = Numeric(Ratio(33, 70)))
    /\ Test(t, "contractionOfConstPowers",
            ProductCreate(<<Numeric(Ratio(3, 2)), PowerCreate(third, third),
                            Sqrt(Numeric(Ratio(2, 3)))>>)
              = ProductCreate(<<PowerCreate(three, Numeric(Ratio(2, 3))),
                                PowerCreate(six, Numeric(Ratio(-1, 2)))>>))

ProductTests3(t, a, b) ==
    /\ Test(t, "preSortingOfConstPowers",
            ProductCreate(<<Numeric(Ratio(3, 2)), Sqrt(Numeric(Ratio(2, 3))),
                            PowerCreate(third, third)>>)
              = ProductCreate(<<PowerCreate(three, Numeric(Ratio(2, 3))),
                                PowerCreate(six, Numeric(Ratio(-1, 2)))>>))
    /\ Test(t, "orderingOfConstPowers",
            LET oneFifth == Numeric(Ratio(1, 5))
                f1       == PowerCreate(three, third)
                res      == ProductCreate(<<ProductCreate(<<f1, PowerCreate(five, oneFifth)>>),
                                            PowerCreate(two, oneFifth)>>)
            IN  isProduct(res) /\ res.ops = <<f1, PowerCreate(ten, oneFifth)>>)
    /\ Test(t, "expansionOfConstPowerAndSum",
            LET res == ProductCreate(<<SumCreate(<<one, Sqrt(two)>>), Sqrt(three)>>)
            IN  isSum(res) /\ res.ops[1] = Sqrt(three) /\ Last(res.ops) = Sqrt(six))
    /\ Test(t, "expansionOfNumberConstPowerAndSum",
            LET fac == ProductCreate(<<two, Sqrt(two)>>)
            IN  ProductCreate(<<fac, SumCreate(<<a, b>>)>>)
                  = SumCreate(<<ProductCreate(<<fac, a>>), ProductCreate(<<fac, b>>)>>))
    /\ Test(t, "expansionOfConstProductAndSum",
            LET aux == SumCreate(<<two, ProductCreate(<<two, Sqrt(three)>>)>>)
            IN  ProductCreate(<<two, SumCreate(<<one, Sqrt(three)>>), SumCreate(<<a, b>>)>>)
                  = SumCreate(<<ProductCreate(<<aux, a>>), ProductCreate(<<aux, b>>)>>))
    /\ Test(t, "contractNumSqrt",
            ProductCreate(<<Sqrt(two), Sqrt(three), Sqrt(five), Sqrt(six), Sqrt(seven),
                            Sqrt(ten)>>)
              = ProductCreate(<<Integer(30), Sqrt(Integer(14))>>))
    /\ Test(t, "contractNumPowWithEqualExp",
            LET sevenToTheFourth == PowerCreate(seven, fourth)
            IN  ProductCreate(<<PowerCreate(two, third), Sqrt(three), PowerCreate(four, third),
                                PowerCreate(five, third), PowerCreate(six, third),
                                sevenToTheFourth, PowerCreate(eight, third)>>)
                  = ProductCreate(<<four, Sqrt(three), sevenToTheFourth,
                                    PowerCreate(Integer(30), third)>>))
    /\ Test(t, "symbolTimesOne", ProductCreate(<<a, one>>) = a)
    /\ Test(t, "oneTimesSymbol", ProductCreate(<<one, a>>) = a)
    /\ Test(t, "multipleOnesTimesSum",
            LET aPlusB == SumCreate(<<a, b>>)
            IN  ProductCreate(<<one, aPlusB, one, one, one>>) = aPlusB)

ProductTests4(t, a, b, c, d, e) ==
    /\ Test(t, "minusOneTimesNegProduct", ProductCreate(<<mOne, Minus(a)>>) = a)
    /\ Test(t, "equalSymbolBasesToPower",
            LET res == ProductCreate(<<a, a>>)
            IN  isPower(res) /\ numericEval(Exp(res)) = Whole(2))
    /\ Test(t, "equalPowerBasesToPower",
            LET res == ProductCreate(<<PowerCreate(b, two), PowerCreate(b, three)>>)
            IN  isPower(res) /\ numericEval(Exp(res)) = Whole(5))
    /\ Test(t, "equalPowerBasesToOne", isOne(ProductCreate(<<OneOver(a), a>>)))
    /\ Test(t, "equalSumBasesToPower",
            LET sum == SumCreate(<<a, b>>)
                res == ProductCreate(<<PowerCreate(sum, three), sum>>)
            IN  isPower(res) /\ numericEval(Exp(res)) = Whole(4) /\ Base(res) = sum)
    /\ Test(t, "rearrangeTwoSymbols",
            LET res == ProductCreate(<<b, a>>)
            IN  isProduct(res) /\ res.ops[1] = a /\ Last(res.ops) = b)
    /\ Test(t, "productOfThreeSymbols", isProduct(ProductCreate(<<a, b, c>>)))
    /\ Test(t, "twoProducts",
            LET res == ProductCreate(<<ProductCreate(<<two, a, c, e>>),
                                       ProductCreate(<<three, b, d, e>>)>>)
            IN  isProduct(res) /\ <<six, a, b, c, d, PowerCreate(e, two)>> = res.ops)
    /\ Test(t, "equalProductBasesToPower",
            LET product == ProductCreate(<<a, PowerCreate(b, two)>>)
                res     == ProductCreate(<<product, product>>)
                res2    == Last(res.ops)
            IN  /\ isProduct(res)
                /\ Len(res.ops) = 2
                /\ isPower(res.ops[1])
                /\ Exp(res.ops[1]) = two
                /\ isPower(res2)
                /\ Exp(res2) = four)
    /\ Test(t, "threeNumericFactors", ProductCreate(<<two, three, two>>) = Integer(12))
    /\ Test(t, "productOfSymbolAndProduct",
            LET res == ProductCreate(<<ProductCreate(<<a, c>>), b>>)
            IN  isProduct(res) /\ <<a, b, c>> = res.ops)
    /\ Test(t, "productOfProductAndSymbol",
            LET res == ProductCreate(<<a, ProductCreate(<<e, b>>)>>)
            IN  isProduct(res) /\ <<a, b, e>> = res.ops)
    /\ Test(t, "productOfThreeProducts",
            LET res == ProductCreate(<<ProductCreate(<<a, c>>), ProductCreate(<<b, e>>),
                                       ProductCreate(<<a, d>>)>>)
            IN  isProduct(res) /\ <<PowerCreate(a, two), b, c, d, e>> = res.ops)

ProductTests5(t, a, b) ==
    /\ Test(t, "rearrangeSymbolAndPi", <<Pi, a, b>> = ProductCreate(<<b, Pi, a>>).ops)
    /\ Test(t, "contractNumericsAndPi",
            LET res == ProductCreate(<<two, Pi, three, Pi, four>>)
            IN  res.ops[1] = Integer(24) /\ Last(res.ops) = PowerCreate(Pi, two))
    /\ Test(t, "piDividedByPi", ProductCreate(<<Pi, OneOver(Pi)>>) = one)

ProductTests6(t, a) ==
    /\ Test(t, "productOfEqualFunctionsEqualArguments",
            LET sin == TrigCreate("sin", a)
            IN  <<two, a, PowerCreate(sin, two)>> = ProductCreate(<<sin, two, sin, a>>).ops)

ProductTests7(t, a) ==
    /\ Test(t, "numPowEqualDenomInPosExp",
            ProductCreate(<<PowerCreate(two, Numeric(Ratio(2, 3))), PowerCreate(three, third)>>)
              = PowerCreate(Integer(12), third))
    /\ Test(t, "numPowEqualDenomInNegExp",
            ProductCreate(<<PowerCreate(Numeric(Ratio(6, 7)), Numeric(Ratio(-2, 5))),
                            PowerCreate(three, Numeric(Ratio(-1, 5)))>>)
              = PowerCreate(Numeric(Ratio(49, 108)), Numeric(Ratio(1, 5))))

ProductTests8(t, a) ==
    /\ Test(t, "numPowEqualDenomExpToProduct",
            ProductCreate(<<PowerCreate(six, third), PowerCreate(three, Numeric(Ratio(2, 3)))>>)
              = ProductCreate(<<three, PowerCreate(two, third)>>))
    /\ Test(t, "numPowEqualDenomExpToProductInLargeList",
            ProductCreate(<<two, PowerCreate(six, third), Sqrt(five), Integer(12),
                            Sqrt(Integer(17)), PowerCreate(three, Numeric(Ratio(2, 3)))>>)
              = ProductCreate(<<Integer(72), Sqrt(Integer(85)), PowerCreate(two, third)>>))

ProductTests9(t, a, b) ==
    /\ Test(t, "sineOverCosineSameArgument",
            LET theArg == SumCreate(<<a, b, two>>)
            IN  ProductCreate(<<TrigCreate("sin", theArg), OneOver(TrigCreate("cos", theArg))>>)
                  = TrigCreate("tan", theArg))
    /\ Test(t, "sineOverCosineDifferentArgument",
            LET sin == TrigCreate("sin", ProductCreate(<<three, a, b>>))
                cos == TrigCreate("cos", SumCreate(<<a, b>>))
                res == ProductCreate(<<sin, OneOver(cos)>>)
            IN  isProduct(res) /\ res.ops[1] = OneOver(cos) /\ Last(res.ops) = sin)
    /\ Test(t, "cosineOverSineSameArgument",
            ProductCreate(<<TrigCreate("cos", ten), OneOver(TrigCreate("sin", ten))>>)
              = OneOver(TrigCreate("tan", ten)))
    /\ Test(t, "cosineOverSineDifferentArgument",
            LET sin == TrigCreate("sin", four)
                cos == TrigCreate("cos", seven)
                res == ProductCreate(<<cos, OneOver(sin)>>)
            IN  isProduct(res) /\ res.ops[1] = cos /\ Last(res.ops) = OneOver(sin))
    /\ Test(t, "sinOverTanSameNumericalArgument",
            LET theArg == PowerCreate(seven, Numeric(Ratio(2, 3)))
            IN  ProductCreate(<<TrigCreate("sin", theArg), OneOver(TrigCreate("tan", theArg))>>)
                  = TrigCreate("cos", theArg))
    /\ Test(t, "tanTimesCosSameArgument",
            LET theArg == SumCreate(<<a, b>>)
            IN  ProductCreate(<<TrigCreate("tan", theArg), TrigCreate("cos", theArg)>>)
                  = TrigCreate("sin", theArg))
    /\ Test(t, "tanTimesCosDifferentArgument",
            LET tan == TrigCreate("tan", Sqrt(two))
                cos == TrigCreate("cos", a)
                res == ProductCreate(<<tan, cos>>)
            IN  isProduct(res) /\ res.ops[1] = cos /\ Last(res.ops) = tan)

ProductTests10(t, a) ==
    /\ Test(t, "sinOverCosineWithExpTimesCosine",
            LET sinPow == PowerCreate(TrigCreate("sin", a), Numeric(Ratio(5, 7)))
                cos    == TrigCreate("cos", a)
            IN  ProductCreate(<<sinPow, PowerCreate(cos, Numeric(Ratio(-2, 3))), cos>>)
                  = ProductCreate(<<sinPow, PowerCreate(cos, third)>>))
    /\ Test(t, "sinSquareOverCosSameArg",
            LET sin == TrigCreate("sin", a)
            IN  ProductCreate(<<ProductCreate(<<sin, sin>>), OneOver(TrigCreate("cos", a))>>)
                  = ProductCreate(<<sin, TrigCreate("tan", a)>>))

ProductTests11(t, a) ==
    /\ Test(t, "sqrtTanTimesCosSameArg",
            LET cos     == TrigCreate("cos", a)
                sqrtTan == Sqrt(TrigCreate("tan", a))
                res     == ProductCreate(<<sqrtTan, cos>>)
            IN  isProduct(res) /\ res.ops = <<cos, sqrtTan>>)

ProductTests12(t, a, b) ==
    /\ Test(t, "mixedTrigonometricFunctions02",
            LET aB    == ProductCreate(<<a, OneOver(b)>>)
                tanAb == TrigCreate("tan", aB)
            IN  ProductCreate(<<OneOver(TrigCreate("cos", aB)), tanAb,
                                TrigCreate("cos", OneOver(aB)), TrigCreate("sin", aB),
                                OneOver(TrigCreate("sin", OneOver(aB)))>>)
                  = ProductCreate(<<PowerCreate(tanAb, two),
                                    OneOver(TrigCreate("tan", OneOver(aB)))>>))
    /\ Test(t, "noSumOfExpUnclearBasePowers",
            LET res == ProductCreate(<<Sqrt(a), Sqrt(a)>>)
            IN  isProduct(res) /\ res.ops = <<Sqrt(a), Sqrt(a)>>)
    /\ Test(t, "sumOfExpUnclearBasePowers",
            ProductCreate(<<PowerCreate(a, two), PowerCreate(a, Numeric(Ratio(3, 4)))>>)
              = PowerCreate(a, Numeric(Ratio(11, 4))))

ProductCases ==
    {"undefinedToUndefined", "zero", "twoNumericFactors", "twoNumericFactorsResultingInOne",
     "numberTimesNumericPower", "numberTimesResolvableNumPow", "resolvableNumPowNegativeBase",
     "resolvableNumPowNegativeNumericFactor", "resolvableNumPowNegativeNumericFractionFactor",
     "resolvableNumPowMixedWithSymbol", "constantTimesNumeric", "numericPowerTimesNumber",
     "intTimesNumericPower", "intTimesNumericPowerTimesOne", "numberAndNumericPowerEqualBase",
     "numericPowersDifferentExpSameBase", "numericPowersDifferentExpDifferentBase",
     "reductionOfDifferentNumericPowers", "reductionOfSameNumericBaseDifferentExp",
     "reductionOfSameNumericBaseDifferentExponent", "mergeNumericsOfSimplifiedNumericPower",
     "differentNumericPowerProduct", "simpleNumericPowersDifferentExpSign",
     "numericPowersDifferentExpSign", "contractionOfNumerics", "contractionOfConstPowers",
     "preSortingOfConstPowers", "orderingOfConstPowers", "expansionOfConstPowerAndSum",
     "expansionOfNumberConstPowerAndSum", "expansionOfConstProductAndSum", "contractNumSqrt",
     "contractNumPowWithEqualExp", "symbolTimesOne", "oneTimesSymbol", "multipleOnesTimesSum",
     "minusOneTimesNegProduct", "equalSymbolBasesToPower", "equalPowerBasesToPower",
     "equalPowerBasesToOne", "equalSumBasesToPower", "rearrangeTwoSymbols",
     "productOfThreeSymbols", "twoProducts", "equalProductBasesToPower", "threeNumericFactors",
     "productOfSymbolAndProduct", "productOfProductAndSymbol", "productOfThreeProducts",
     "rearrangeSymbolAndPi", "contractNumericsAndPi", "piDividedByPi",
     "productOfEqualFunctionsEqualArguments", "numPowEqualDenomInPosExp",
     "numPowEqualDenomInNegExp", "numPowEqualDenomExpToProduct",
     "numPowEqualDenomExpToProductInLargeList", "sineOverCosineSameArgument",
     "sineOverCosineDifferentArgument", "cosineOverSineSameArgument",
     "cosineOverSineDifferentArgument", "sinOverTanSameNumericalArgument",
     "tanTimesCosSameArgument", "tanTimesCosDifferentArgument",
     "sinOverCosineWithExpTimesCosine", "sinSquareOverCosSameArg", "sqrtTanTimesCosSameArg",
     "mixedTrigonometricFunctions02", "noSumOfExpUnclearBasePowers",
     "sumOfExpUnclearBasePowers"}

-----------------------------------------------------------------------------
(* testexpansion.cpp. *)

ExpansionTests1(t, a, b, c, d) ==
    /\ Test(t, "trivialNumeric",
            LET theOrig == Numeric(Ratio(2, 7))
            IN  theOrig = Expand(theOrig))
    /\ Test(t, "trivialSum",
            LET theOrig == SumCreate(<<SumCreate(<<a, b>>), c>>)
            IN  theOrig = Expand(theOrig))
    /\ Test(t, "trivialUndefined", isUndefined(Expand(Undefined)))
    /\ Test(t, "trivialConstant", Expand(Pi) = Pi)
    /\ Test(t, "trivialSymbol", Expand(a) = a)
    /\ Test(t, "powerOfSumPosIntExp",
            SumCreate(<<PowerCreate(a, two), PowerCreate(b, two),
                        ProductCreate(<<two, ProductCreate(<<a, b>>)>>)>>)
              = Expand(PowerCreate(SumCreate(<<a, b>>), two)))
    /\ Test(t, "powerOfSumNegIntExp",
            OneOver(SumCreate(<<PowerCreate(a, two), PowerCreate(b, two),
                                ProductCreate(<<two, ProductCreate(<<a, b>>)>>)>>))
              = Expand(PowerCreate(SumCreate(<<a, b>>), Integer(-2))))
    /\ Test(t, "powerOfSumPosFracExp",
            LET theOrig == PowerCreate(SumCreate(<<a, b>>), Numeric(Ratio(2, 3)))
            IN  theOrig = Expand(theOrig))
    /\ Test(t, "powerOfSumNegFracExp",
            LET theOrig == PowerCreate(SumCreate(<<a, b>>), Numeric(Ratio(-4, 5)))
            IN  theOrig = Expand(theOrig))
    /\ Test(t, "powerOfSymbolicSumExp",
            LET theOrig == PowerCreate(a, SumCreate(<<b, c>>))
            IN  theOrig = Expand(theOrig))
    /\ Test(t, "numericPower",
            LET theOrig == PowerCreate(two, Numeric(Ratio(1, 5)))
            IN  theOrig = Expand(theOrig))
    /\ Test(t, "symbolTimesSum",
            SumCreate(<<ProductCreate(<<a, b>>), ProductCreate(<<a, c>>)>>)
              = Expand(ProductCreate(<<a, SumCreate(<<b, c>>)>>)))
    /\ Test(t, "symbolSumTimesSum",
            SumCreate(<<ProductCreate(<<a, c>>), ProductCreate(<<b, c>>),
                        ProductCreate(<<a, d>>), ProductCreate(<<b, d>>)>>)
              = Expand(ProductCreate(<<SumCreate(<<a, b>>), SumCreate(<<c, d>>)>>)))
    /\ Test(t, "noExpansionOfFunctionArg",
            LET theOrig == TrigCreate("sin", ProductCreate(<<a, SumCreate(<<b, c>>)>>))
            IN  theOrig = Expand(theOrig))

ExpansionTests2(t, a, b, c, d, e, f, g, h) ==
    /\ Test(t, "symbolSumProduct",
            LET theI == Symbol(NameOf("i"))
            IN  SumCreate(<<ProductCreate(<<b, d, g, theI>>), ProductCreate(<<a, d, g, theI>>),
                            ProductCreate(<<b, c, g, theI>>), ProductCreate(<<a, c, g, theI>>),
                            ProductCreate(<<b, d, f, theI>>), ProductCreate(<<a, d, f, theI>>),
                            ProductCreate(<<b, c, f, theI>>), ProductCreate(<<a, c, f, theI>>),
                            ProductCreate(<<b, d, e, theI>>), ProductCreate(<<a, d, e, theI>>),
                            ProductCreate(<<b, c, e, theI>>), ProductCreate(<<a, c, e, theI>>),
                            ProductCreate(<<b, d, g, h>>), ProductCreate(<<a, d, g, h>>),
                            ProductCreate(<<b, c, g, h>>), ProductCreate(<<a, c, g, h>>),
                            ProductCreate(<<b, d, f, h>>), ProductCreate(<<a, d, f, h>>),
                            ProductCreate(<<b, c, f, h>>), ProductCreate(<<a, c, f, h>>),
                            ProductCreate(<<b, d, e, h>>), ProductCreate(<<a, d, e, h>>),
                            ProductCreate(<<b, c, e, h>>), ProductCreate(<<a, c, e, h>>)>>)
                  = Expand(ProductCreate(<<SumCreate(<<a, b>>), SumCreate(<<c, d>>),
                                           SumCreate(<<e, f, g>>), SumCreate(<<h, theI>>)>>)))
    /\ Test(t, "mixedSumTimesSum",
            SumCreate(<<b, c, ProductCreate(<<a, b>>), ProductCreate(<<a, c>>)>>)
              = Expand(ProductCreate(<<SumCreate(<<a, one>>), SumCreate(<<b, c>>)>>)))
    /\ Test(t, "polynomial",
            LET cdSum == SumCreate(<<c, d>>)
            IN  SumCreate(<<ProductCreate(<<a, OneOver(cdSum)>>),
                            ProductCreate(<<b, OneOver(cdSum)>>)>>)
                  = Expand(ProductCreate(<<SumCreate(<<a, b>>), OneOver(cdSum)>>)))
    /\ Test(t, "sumWithTermsToExpand",
            SumCreate(<<two, ProductCreate(<<a, b>>), ProductCreate(<<a, c>>)>>)
              = Expand(SumCreate(<<two, ProductCreate(<<a, SumCreate(<<b, c>>)>>)>>)))
    /\ Test(t, "expansionLeadsToZero",
            LET theOrig == SumCreate(<<ProductCreate(<<a, b>>), ProductCreate(<<mOne, b, c>>),
                                       ProductCreate(<<b, SumCreate(<<c, Minus(a)>>)>>)>>)
            IN  ~isZero(theOrig) /\ isZero(Expand(theOrig)))
    /\ Test(t, "sumPowerOfThree",
            SumCreate(<<PowerCreate(a, three), PowerCreate(b, three), PowerCreate(c, three),
                        ProductCreate(<<three, a, b, b>>), ProductCreate(<<three, a, c, c>>),
                        ProductCreate(<<three, b, c, c>>), ProductCreate(<<three, a, a, b>>),
                        ProductCreate(<<three, b, b, c>>), ProductCreate(<<three, a, a, c>>),
                        ProductCreate(<<six, a, b, c>>)>>)
              = Expand(PowerCreate(SumCreate(<<a, b, c>>), three)))
    /\ Test(t, "productOfPowersWithIntExp",
            LET aSquare == PowerCreate(a, two)
            IN  SumCreate(<<ProductCreate(<<aSquare, PowerCreate(b, two)>>),
                            ProductCreate(<<two, aSquare, b, c>>),
                            ProductCreate(<<aSquare, PowerCreate(c, two)>>)>>)
                  = Expand(ProductCreate(<<aSquare, PowerCreate(SumCreate(<<b, c>>), two)>>)))
    /\ Test(t, "fractionsWithSumInDenominator",
            LET theOrig == OneOver(ProductCreate(<<a, SumCreate(<<b, c>>)>>))
            IN  theOrig = Expand(theOrig))
    /\ Test(t, "sumsOfPowersWithIntExp",
            LET theOrig == ProductCreate(<<ProductCreate(<<b, b, c>>),
                                           OneOver(ProductCreate(<<a, a,
                                                                   SumCreate(<<d,
                                                                               ProductCreate(<<mOne,
                                                                                               b,
                                                                                               c,
                                                                                               OneOver(a)>>)>>)>>))>>)
            IN  theOrig = Expand(theOrig))

ExpansionTests3(t, a) ==
    /\ Test(t, "partialSumExpansionIsScalar",
            Numeric(Ratio(118098, 1225))
              = Expand(PowerCreate(SumCreate(<<OneOver(ProductCreate(<<nine, Sqrt(two)>>)),
                                               ProductCreate(<<Numeric(Ratio(4, 243)),
                                                               Sqrt(two)>>)>>),
                                   Integer(-2))))

ExpansionCases ==
    {"trivialNumeric", "trivialSum", "trivialUndefined", "trivialConstant", "trivialSymbol",
     "powerOfSumPosIntExp", "powerOfSumNegIntExp", "powerOfSumPosFracExp",
     "powerOfSumNegFracExp", "powerOfSymbolicSumExp", "numericPower", "symbolTimesSum",
     "symbolSumTimesSum", "noExpansionOfFunctionArg", "symbolSumProduct", "mixedSumTimesSum",
     "polynomial", "sumWithTermsToExpand", "expansionLeadsToZero", "sumPowerOfThree",
     "productOfPowersWithIntExp", "fractionsWithSumInDenominator", "sumsOfPowersWithIntExp",
     "partialSumExpansionIsScalar"}

=============================================================================
