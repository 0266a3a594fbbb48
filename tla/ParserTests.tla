----------------------------- MODULE ParserTests ----------------------------
(* Unit tests of the parser. *)
EXTENDS TestFixture, Parser

\* check and checkSuccess of testparser.cpp
checkText(expected, success, whole, text) ==
    \A result \in {parseFrom(text)} :
        /\ ValueOf(result) = expected
        /\ result.success = success
        /\ matchedWholeString(text, result) = whole

checkSuccess(expected, text) == checkText(expected, TRUE, TRUE, text)

-----------------------------------------------------------------------------
(* testparser.cpp. *)

ParsingTests1(t, a) ==
    /\ Test(t, "posIntegerWithWhitespace",
            checkText(Integer(123), TRUE, FALSE, <<"123", "456">>))

ParsingTests2(t, a) ==
    /\ Test(t, "symbol", checkSuccess(a, <<"a">>))
    /\ Test(t, "symbolInSpaces", checkSuccess(a, <<"a">>))
    /\ Test(t, "symbolInSpacesAndWhitespace", checkSuccess(a, <<"a">>))
    /\ Test(t, "wrongSymbolWithNumberStart", checkText(one, TRUE, FALSE, <<"1", "a">>))
    /\ Test(t, "symbolWithShortSupscript",
            checkSuccess(Symbol(NameOf("aBc123_a")), <<"aBc123_a">>))
    /\ Test(t, "symbolWithLongSupscript",
            checkSuccess(Symbol(NameOf("aBc123_aA321")), <<"aBc123_aA321">>))
    /\ Test(t, "symbolWithShortSubscriptInBraces",
            checkSuccess(Symbol(NameOf("abcdefghijk_1")), <<"abcdefghijk_1">>))
    /\ Test(t, "symbolWithEmptySubscript", checkText(a, TRUE, FALSE, <<"a", "?">>))
    /\ Test(t, "symbolWithEmptySubscriptInBraces",
            checkText(a, TRUE, FALSE, <<"a", "?", "?", "?">>))
    /\ Test(t, "symbolWithLongSubscriptWithoutBraces",
            checkText(Symbol(NameOf("aBc123_a")), TRUE, FALSE, <<"aBc123_a", "bc">>))
    /\ Test(t, "nonAsciiCharacterAtBeginning",
            checkText(Undefined, FALSE, FALSE, <<"A", "non-ASCII", "abc">>))
    /\ Test(t, "nonAsciiCharacterAtEnd",
            checkText(Undefined, FALSE, FALSE,
                      <<"a", "?", "?", "1", "a", "?", "non-ASCII", "?">>))
    /\ Test(t, "symbolWithUnrecognizedCharactersInBetween",
            checkText(a, TRUE, FALSE, <<"a", "?", "7", "z_2">>))
    /\ Test(t, "symbolWithUnrecognizedCharacterInSubscript",
            checkText(a, TRUE, FALSE, <<"a", "?", "?">>))
    /\ Test(t, "symbolWithWhitespaceInside", checkText(a, TRUE, FALSE, <<"a", "bc_2">>))
    /\ Test(t, "sumOfInts", checkSuccess(seven, <<"2", "+", "5">>))
    /\ Test(t, "sumOfIntsWithSpaces", checkSuccess(eight, <<"1", "+", "7">>))
    /\ Test(t, "productOfInts", checkSuccess(Integer(21), <<"3", "*", "7">>))
    /\ Test(t, "productOfIntsWithSpaces", checkSuccess(Integer(21), <<"3", "*", "7">>))

ParsingTests3(t, a, b, c) ==
    /\ Test(t, "productOfIntsWithParentheses",
            checkSuccess(Integer(21), <<"3", "*", "(", "7", ")">>))
    /\ Test(t, "unaryMinusWithInteger", checkSuccess(Integer(-3), <<"-", "3">>))
    /\ Test(t, "unaryMinusWithSymbol", checkSuccess(Minus(a), <<"-", "a">>))
    /\ Test(t, "unaryPlusWithInteger", checkSuccess(four, <<"+", "4">>))
    /\ Test(t, "unaryPlusWithSymbol", checkSuccess(a, <<"+", "a">>))
    /\ Test(t, "simpleSumTwoSummands", checkSuccess(SumCreate(<<a, b>>), <<"a", "+", "b">>))
    /\ Test(t, "simpleDifferenceTwoSummands",
            checkSuccess(SumCreate(<<a, Minus(b)>>), <<"a", "-", "b">>))
    /\ Test(t, "simpleSumFourSummands",
            checkSuccess(SumCreate(<<ten, a, b, c>>), <<"a", "+", "b", "+", "c", "+", "10">>))
    /\ Test(t, "simpleProductThreeSummands",
            checkSuccess(ProductCreate(<<a, b, c>>), <<"a", "*", "b", "*", "c">>))
    /\ Test(t, "simpleDivisionTwoSymbols",
            checkSuccess(ProductCreate(<<a, OneOver(b)>>), <<"a", "/", "b">>))
    /\ Test(t, "simpleDivisionThreeSymbolsOneNumber",
            checkSuccess(ProductCreate(<<a, OneOver(ProductCreate(<<four, b, c>>))>>),
                         <<"a", "/", "b", "/", "c", "/", "4">>))
    /\ Test(t, "negativeFraction",
            checkSuccess(Numeric(Ratio(-3, 17)), <<"-", "3", "/", "17">>))
    /\ Test(t, "sumOfNumberAndFraction",
            checkSuccess(Numeric(Ratio(11, 5)), <<"2", "+", "1", "/", "5">>))
    /\ Test(t, "sinOfSymbol",
            LET expected == TrigCreate("sin", a)
            IN  checkSuccess(expected, <<"sin", "(", "a", ")">>))
    /\ Test(t, "sinOfSum",
            checkSuccess(TrigCreate("sin", SumCreate(<<a, b, ten>>)),
                         <<"sin", "(", "a", "+", "b", "+", "10", ")">>))
    /\ Test(t, "sinOfProduct",
            checkSuccess(TrigCreate("sin", ProductCreate(<<a, b>>)),
                         <<"sin", "(", "a", "*", "b", ")">>))
    /\ Test(t, "sinWrongSpelling",
            checkText(ProductCreate(<<two, Sqrt(two), Symbol(NameOf("sinn"))>>), TRUE, FALSE,
                      <<"2", "*", "sqrt", "(", "2", ")", "*", "sinn", "(", "a", ")", "*",
                        "(", "a", "+", "b", ")">>))
    /\ Test(t, "asinOfProduct",
            checkSuccess(TrigCreate("asin", ProductCreate(<<a, b, c>>)),
                         <<"asin", "(", "a", "*", "b", "*", "c", ")">>))

ParsingTests4(t, a, b, c) ==
    /\ Test(t, "acosResolvableArg",
            checkSuccess(ProductCreate(<<Numeric(Ratio(1, 6)), Pi>>),
                         <<"acos", "(", "sqrt", "(", "3", ")", "/", "2", ")">>))
    /\ Test(t, "atan2OfSymbols",
            checkSuccess(Atan2Create(b, a), <<"atan2", "(", "b", ",", "a", ")">>))
    /\ Test(t, "atan2Resolvable",
            checkSuccess(ProductCreate(<<Pi, Numeric(Ratio(5, 4))>>),
                         <<"atan2",
                           "(", "-", "sqrt", "(", "10", ")", ",", "-", "sqrt", "(", "10", ")", ")">>))
    /\ Test(t, "sqrtTwoVariations", checkSuccess(Sqrt(two), <<"sqrt", "(", "2", ")">>))
    /\ Test(t, "powerOfInteger", checkSuccess(eight, <<"2", "^", "3">>))
    /\ Test(t, "powerOfSymbols", checkSuccess(PowerCreate(a, b), <<"a", "^", "b">>))
    /\ Test(t, "powerOfSymbolBaseWithUnaryMinus",
            checkSuccess(Minus(PowerCreate(a, two)), <<"-", "a", "^", "2">>))
    /\ Test(t, "powerOfSymbolsWithUselessParentheses",
            checkSuccess(PowerCreate(a, b),
                         <<"(", "(", "(", "(", "(", "a", ")", ")", ")", ")", ")", "^",
                           "(", "(", "b", ")", ")">>))
    /\ Test(t, "unaryPlusInParentheses",
            checkSuccess(SumCreate(<<PowerCreate(a, b), Minus(three),
                                     ProductCreate(<<mOne, two, c>>)>>),
                         <<"a", "^", "(", "+", "b", ")", "-", "(", "+", "4", ")", "+", "1", "-",
                           "2", "*", "(", "+", "c", ")">>))
    /\ Test(t, "unaryMinusWithSumOperator",
            checkSuccess(SumCreate(<<a, Minus(b)>>), <<"a", "+", "-", "b">>))
    /\ Test(t, "unaryPlusWithNumberInSum", checkText(a, TRUE, FALSE, <<"a", "+", "+", "2">>))
    /\ Test(t, "unaryPlusWithNumberAndParenthesesInSum",
            checkSuccess(SumCreate(<<a, two>>), <<"a", "+", "(", "+", "2", ")">>))
    /\ Test(t, "unaryPlusWithSymbolInSum",
            checkText(SumCreate(<<a, b>>), TRUE, FALSE,
                      <<"a", "+", "(", "+", "b", ")", "+", "+", "c">>))
    /\ Test(t, "unaryMinusWithPower", checkText(a, TRUE, FALSE, <<"a", "^", "-", "2">>))
    /\ Test(t, "unaryPlusWithPower", checkText(a, TRUE, FALSE, <<"a", "^", "+", "2">>))
    /\ Test(t, "unaryMinusWithPowerInParentheses",
            checkSuccess(PowerCreate(a, Integer(-2)), <<"a", "^", "(", "-", "2", ")">>))
    /\ Test(t, "sumWithUnaryMinusFirstNumericSummand",
            checkSuccess(SumCreate(<<mOne, b>>), <<"-", "1", "+", "b">>))
    /\ Test(t, "sumWithUnaryMinusFirstSymbolSummand",
            checkSuccess(SumCreate(<<Minus(a), b>>), <<"-", "a", "+", "b">>))
    /\ Test(t, "sumWithPowerSummand",
            checkSuccess(SumCreate(<<Minus(a), PowerCreate(a, Integer(-2))>>),
                         <<"-", "a", "+", "a", "^", "(", "-", "2", ")">>))

ParsingTests5(t, a, b, c, d) ==
    /\ Test(t, "unaryMinusBeforeProduct",
            checkSuccess(ProductCreate(<<mOne, two, a, b>>), <<"-", "2", "*", "a", "*", "b">>))
    /\ Test(t, "unaryMinusInParentheses",
            checkSuccess(SumCreate(<<ProductCreate(<<Integer(-23), a>>),
                                     PowerCreate(b, Integer(-2)), c, Minus(d), Integer(-2)>>),
                         <<"-", "23", "*", "a", "+", "b", "^", "(", "-", "2", ")", "+", "c",
                           "+", "(", "-", "d", ")", "+", "2", "+", "(", "-", "4", ")">>))

ParsingTests6(t, a, b, c, d) ==
    /\ Test(t, "parenthesesAroundSymbol", checkSuccess(a, <<"(", "a", ")">>))
    /\ Test(t, "parenthesesAroundNumber", checkSuccess(Integer(123), <<"(", "123", ")">>))
    /\ Test(t, "parenthesesAroundSum",
            checkSuccess(SumCreate(<<a, b>>), <<"(", "a", "+", "b", ")">>))
    /\ Test(t, "parenthesesAroundFunction",
            checkSuccess(ProductCreate(<<a, TrigCreate("acos", Integer(234))>>),
                         <<"a", "*", "acos", "(", "234", ")">>))
    /\ Test(t, "multipleParenthesesInSum",
            checkSuccess(SumCreate(<<a, b, c, Integer(15)>>),
                         <<"(", "(", "(", "a", "+", "(", "b", "+", "c", ")", "+", "(", "15", ")", ")", ")", ")">>))
    /\ Test(t, "productWithSumsInParentheses",
            checkSuccess(SumCreate(<<ProductCreate(<<four, a>>), ProductCreate(<<four, d>>),
                                     ProductCreate(<<a, SumCreate(<<b, c>>)>>)>>),
                         <<"a", "*", "(", "b", "+", "c", ")", "+", "4", "*",
                           "(", "a", "+", "d", ")">>))
    /\ Test(t, "simpleProductWithSumInParentheses",
            checkSuccess(ProductCreate(<<a, SumCreate(<<two, b>>)>>),
                         <<"a", "*", "(", "2", "+", "b", ")">>))
    /\ Test(t, "productWithSumInParentheses",
            checkSuccess(ProductCreate(<<a, SumCreate(<<b, c>>), five, d>>),
                         <<"a", "*", "(", "b", "+", "c", ")", "*", "5", "*", "d">>))
    /\ Test(t, "unrecognizedTokensWithSyntaxError",
            checkText(Undefined, FALSE, FALSE,
                      <<"-", "?", "?", "*", "12", "*", "sin", "(", "b", ")">>))
    /\ Test(t, "unrecognizedToken",
            checkText(Undefined, FALSE, FALSE, <<"?", "12", "*", "sin", "(", "b", ")">>))
    /\ Test(t, "unrecognizedTokensAfterValidExpression",
            checkText(ProductCreate(<<Integer(123), TrigCreate("atan", SumCreate(<<a, b>>))>>),
                      TRUE, FALSE,
                      <<"123", "*", "atan", "(", "a", "+", "b", ")", "?", "?", "?", "?", "?">>))
    /\ Test(t, "unrecognizedTokensInsideValidExpression",
            checkText(Undefined, FALSE, FALSE,
                      <<"?", "non-ASCII", "a", "*", "b", "*", "sqrt",
                        "(", "12", "*", "c", "^", "2", "-", "?", "c", ")", "-", "40",
                        "non-ASCII", "?", "?", "?">>))
    /\ Test(t, "unrecognizedTokensInsideParentheses",
            checkText(ProductCreate(<<Integer(123), TrigCreate("atan", SumCreate(<<a, b>>))>>),
                      TRUE, FALSE, <<"123", "*", "atan", "(", "a", "+", "b", ")", ")", "*",
                      "(", "?", "?", "?", "?", "?">>))
    /\ Test(t, "symbolsAndComma",
            checkText(a, TRUE, FALSE, <<"a", ",", "b", ",", "c", ",", ",", "d">>))
    /\ Test(t, "emptyString", checkText(Undefined, FALSE, TRUE, <<>>))
    /\ Test(t, "onlyCommaSigns", checkText(Undefined, FALSE, FALSE, <<"(", "(", ")", ")">>))
    /\ Test(t, "emptyParenthesesAfterValidExpressionInProduct",
            checkText(ProductCreate(<<Integer(123), TrigCreate("atan", SumCreate(<<a, b>>))>>),
                      TRUE, FALSE,
                      <<"123", "*", "atan", "(", "a", "+", "b", ")", "*", "(", ")">>))
    /\ Test(t, "syntaxErrorAfterValidExpressionInProduct",
            checkText(ProductCreate(<<Numeric(Ratio(-1, 5)),
                                      TrigCreate("atan", SumCreate(<<a, b>>))>>),
                      TRUE, FALSE,
                      <<"-", "1", "/", "5", "*", "atan", "(", "a", "+", "b", ")", "*",
                        "(", "?", ")", "?", "?", "?">>))
    /\ Test(t, "emptyParentheses", checkText(Undefined, FALSE, FALSE, <<"(", "(", ")", ")">>))
    /\ Test(t, "mixedOperatorsWithUnaryMinusNumber",
            checkSuccess(ProductCreate(<<a, Numeric(Ratio(-1, 3))>>), <<"a", "/", "-", "3">>))

ParsingTests7(t, a, b, c, d) ==
    /\ Test(t, "mixedOperatorsWithUnaryMinusSymbol",
            checkSuccess(Minus(SumCreate(<<c, ProductCreate(<<a, b>>)>>)),
                         <<"a", "*", "-", "b", "+", "-", "c">>))
    /\ Test(t, "emptyParenthesesBeforeValidPart",
            checkText(Undefined, FALSE, FALSE, <<"(", "(", ")", ")", "a", "*", "b", "+", "c">>))
    /\ Test(t, "mixedTerm01",
            checkSuccess(ProductCreate(<<Integer(-12), a, b, TrigCreate("sin", b),
                                         SumCreate(<<c, d>>)>>),
                         <<"-", "a", "*", "sin", "(", "b", ")", "*", "(", "c", "+", "d", ")",
                           "*", "12", "*", "b">>))
    /\ Test(t, "mixedTerm02",
            LET expected == ProductCreate(<<a, TrigCreate("atan", Sqrt(Numeric(Ratio(1, 17)))),
                                            TrigCreate("cos", ProductCreate(<<c, d>>)),
                                            PowerCreate(TrigCreate("sin",
                                                                   ProductCreate(<<a, b>>)),
                                                        two),
                                            TrigCreate("tan", ProductCreate(<<a, b>>))>>)
            IN  /\ checkSuccess(expected,
                                <<"a", "*", "atan", "(", "1", "/", "sqrt", "(", "17", ")", ")",
                                  "*", "cos", "(", "c", "*", "d", ")", "*", "sin",
                                  "(", "a", "*", "b", ")", "^", "2", "*", "tan",
                                  "(", "a", "*", "b", ")">>)
                /\ checkSuccess(expected,
                                <<"a", "*", "atan",
                                  "(", "17", "^", "(", "-", "1", "/", "2", ")", ")", "*", "cos",
                                  "(", "c", "*", "d", ")", "*", "sin", "(", "a", "*", "b", ")",
                                  "^", "2", "*", "tan", "(", "a", "*", "b", ")">>))
    /\ Test(t, "mixedTerm03",
            LET twoThird == Numeric(Ratio(2, 3))
            IN  checkSuccess(ProductCreate(<<mOne, PowerCreate(a, twoThird),
                                             PowerCreate(b,
                                                         SumCreate(<<ProductCreate(<<twoThird,
                                                                                     c>>),
                                                                     Minus(d)>>)),
                                             PowerCreate(c,
                                                         PowerCreate(SumCreate(<<a, b>>), two))>>),
                             <<"-", "a", "^", "(", "2", "/", "3", ")", "*", "b", "^",
                               "(", "2", "/", "3", "*", "c", "-", "d", ")", "*", "c", "^",
                               "(", "(", "a", "+", "b", ")", "^", "2", ")">>))
    /\ Test(t, "powerOperator",
            checkSuccess(PowerCreate(a, Integer(512)), <<"a", "^", "2", "^", "3", "^", "2">>))
    /\ Test(t, "nestedPowerOperator",
            checkSuccess(PowerCreate(a,
                                     PowerCreate(SumCreate(<<ProductCreate(<<b, b>>), c>>),
                                                 eight)),
                         <<"a", "^", "(", "b", "^", "2", "+", "c", ")", "^", "2", "^", "3">>))
    /\ Test(t, "onlyPowerOperator", checkText(Undefined, FALSE, FALSE, <<"^", "^", "^">>))
    /\ Test(t, "onlyPowerOperatorWithParentheses",
            checkText(Undefined, FALSE, FALSE, <<"^", "(", "a", "+", "b", ")">>))
    /\ Test(t, "misspelledFunction",
            checkText(Symbol(NameOf("alksdjflkasjf")), TRUE, FALSE,
                      <<"alksdjflkasjf", "(", "a", "+", "b", ")">>))
    /\ Test(t, "piVariations", checkSuccess(Pi, <<"pi">>))
    /\ Test(t, "piInMixedTerm",
            checkSuccess(ProductCreate(<<mOne, Pi, Sqrt(Pi)>>),
                         <<"2", "*", "sin", "(", "pi", ")", "+", "pi", "*", "cos",
                           "(", "pi", ")", "*", "sqrt", "(", "pi", ")">>))
    /\ Test(t, "eulerVariations", checkSuccess(E, <<"euler">>))
    /\ Test(t, "symbolTimesFunction",
            checkSuccess(ProductCreate(<<a, TrigCreate("tan", b)>>),
                         <<"a", "*", "tan", "(", "b", ")">>))
    /\ Test(t, "logOfEulerEvaluesToOne",
            checkSuccess(a, <<"a", "*", "log", "(", "euler", ")">>))
    /\ Test(t, "eulerInMixedTerm",
            checkSuccess(SumCreate(<<ProductCreate(<<ten, E>>), ProductCreate(<<E, E>>),
                                     ProductCreate(<<mOne, a, b>>)>>),
                         <<"10", "*", "euler", "+", "euler", "^", "2", "-", "a", "*", "b", "*",
                           "log", "(", "euler", ")">>))

ParsingCases ==
    {"posIntegerWithWhitespace", "symbol", "symbolInSpaces", "symbolInSpacesAndWhitespace",
     "wrongSymbolWithNumberStart", "symbolWithShortSupscript", "symbolWithLongSupscript",
     "symbolWithShortSubscriptInBraces", "symbolWithEmptySubscript",
     "symbolWithEmptySubscriptInBraces", "symbolWithLongSubscriptWithoutBraces",
     "nonAsciiCharacterAtBeginning", "nonAsciiCharacterAtEnd",
     "symbolWithUnrecognizedCharactersInBetween", "symbolWithUnrecognizedCharacterInSubscript",
     "symbolWithWhitespaceInside", "sumOfInts", "sumOfIntsWithSpaces", "productOfInts",
     "productOfIntsWithSpaces", "productOfIntsWithParentheses", "unaryMinusWithInteger",
     "unaryMinusWithSymbol", "unaryPlusWithInteger", "unaryPlusWithSymbol",
     "simpleSumTwoSummands", "simpleDifferenceTwoSummands", "simpleSumFourSummands",
     "simpleProductThreeSummands", "simpleDivisionTwoSymbols",
     "simpleDivisionThreeSymbolsOneNumber", "negativeFraction", "sumOfNumberAndFraction",
     "sinOfSymbol", "sinOfSum", "sinOfProduct", "sinWrongSpelling", "asinOfProduct",
     "acosResolvableArg", "atan2OfSymbols", "atan2Resolvable", "sqrtTwoVariations",
     "powerOfInteger", "powerOfSymbols", "powerOfSymbolBaseWithUnaryMinus",
     "powerOfSymbolsWithUselessParentheses", "unaryPlusInParentheses",
     "unaryMinusWithSumOperator", "unaryPlusWithNumberInSum",
     "unaryPlusWithNumberAndParenthesesInSum", "unaryPlusWithSymbolInSum",
     "unaryMinusWithPower", "unaryPlusWithPower", "unaryMinusWithPowerInParentheses",
     "sumWithUnaryMinusFirstNumericSummand", "sumWithUnaryMinusFirstSymbolSummand",
     "sumWithPowerSummand", "unaryMinusBeforeProduct", "unaryMinusInParentheses",
     "parenthesesAroundSymbol", "parenthesesAroundNumber", "parenthesesAroundSum",
     "parenthesesAroundFunction", "multipleParenthesesInSum", "productWithSumsInParentheses",
     "simpleProductWithSumInParentheses", "productWithSumInParentheses",
     "unrecognizedTokensWithSyntaxError", "unrecognizedToken",
     "unrecognizedTokensAfterValidExpression", "unrecognizedTokensInsideValidExpression",
     "unrecognizedTokensInsideParentheses", "symbolsAndComma", "emptyString", "onlyCommaSigns",
     "emptyParenthesesAfterValidExpressionInProduct",
     "syntaxErrorAfterValidExpressionInProduct", "emptyParentheses",
     "mixedOperatorsWithUnaryMinusNumber", "mixedOperatorsWithUnaryMinusSymbol",
     "emptyParenthesesBeforeValidPart", "mixedTerm01", "mixedTerm02", "mixedTerm03",
     "powerOperator", "nestedPowerOperator", "onlyPowerOperator",
     "onlyPowerOperatorWithParentheses", "misspelledFunction", "piVariations", "piInMixedTerm",
     "eulerVariations", "symbolTimesFunction", "logOfEulerEvaluesToOne", "eulerInMixedTerm"}

=============================================================================
