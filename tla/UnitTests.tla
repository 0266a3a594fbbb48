---------------------------------- MODULE UnitTests -------------------------
(***************************************************************************)
(* The unit tests of the repository, asked of the operators of this        *)
(* project: every step performs one test case.                             *)
(***************************************************************************)
EXTENDS Expressions, ExpressionTests, SumProductTests, PowerTests, TrigonometricTests,
        ParserTests, PolynomialTests

VARIABLE test       \* the test suite and the test case

Suites ==
    [Order |-> OrderCases,
     Sign |-> SignCases,
     Has |-> HasCases,
     Subst |-> SubstCases,
     Sum |-> SumCases,
     Product |-> ProductCases,
     Expansion |-> ExpansionCases,
     Power |-> PowerCases,
     Logarithm |-> LogarithmCases,
     Diff |-> DiffCases,
     Trigonometric |-> TrigonometricCases,
     Normal |-> NormalCases,
     Parsing |-> ParsingCases,
     Coeff |-> CoeffCases,
     Degree |-> DegreeCases,
     MinDegree |-> MinDegreeCases,
     PolyInfo |-> PolyInfoCases,
     Division |-> DivisionCases,
     ContentUnit |-> ContentUnitCases,
     Gcd |-> GcdCases]

Init == test = <<"none", "none">>

Perform(suite, t) ==
    /\ test = <<"none", "none">>
    /\ test' = <<suite, t>>

Next == \E suite \in DOMAIN Suites : \E t \in Suites[suite] : Perform(suite, t)

Spec == Init /\ [][Next]_test

-----------------------------------------------------------------------------

\* The checks of a test case.
Passes(suite, t, a, b, c, d, e, f, g, h) ==
    /\ suite = "Order"          => /\ OrderTests1(t, a) /\ OrderTests2(t, a)
                                   /\ OrderTests3(t, a, b, c, d) /\ OrderTests4(t, a, b, c, d)
    /\ suite = "Sign"           => /\ SignTests1(t, a) /\ SignTests2(t, a) /\ SignTests3(t, b)
                                   /\ SignTests4(t, b) /\ SignTests5(t, a)
                                   /\ SignTests6(t, a, b, c) /\ SignTests7(t, a, b, c)
    /\ suite = "Has"            => HasTests1(t, a, b, d, e) /\ HasTests2(t, a, b, c, d)
    /\ suite = "Subst"          => SubstTests1(t, a, b, c) /\ SubstTests2(t, a, b, c, d)
    /\ suite = "Sum"            => /\ SumTests1(t, a, b, c, d, e) /\ SumTests2(t, a, b, c, d, e)
                                   /\ SumTests3(t, a, b) /\ SumTests4(t, a)
    /\ suite = "Product"        => /\ ProductTests1(t, a, b) /\ ProductTests2(t, a)
                                   /\ ProductTests3(t, a, b) /\ ProductTests4(t, a, b, c, d, e)
                                   /\ ProductTests5(t, a, b) /\ ProductTests6(t, a)
                                   /\ ProductTests7(t, a) /\ ProductTests8(t, a)
                                   /\ ProductTests9(t, a, b) /\ ProductTests10(t, a)
                                   /\ ProductTests11(t, a) /\ ProductTests12(t, a, b)
    /\ suite = "Expansion"      => /\ ExpansionTests1(t, a, b, c, d)
                                   /\ ExpansionTests2(t, a, b, c, d, e, f, g, h)
                                   /\ ExpansionTests3(t, a)
    /\ suite = "Power"          => /\ PowerTests1(t, a) /\ PowerTests2(t, a) /\ PowerTests3(t, a)
                                   /\ PowerTests4(t, a) /\ PowerTests5(t, a)
                                   /\ PowerTests6(t, a) /\ PowerTests7(t, a, b, c)
                                   /\ PowerTests8(t, a, b, c) /\ PowerTests9(t, a)
                                   /\ PowerTests10(t, a, b) /\ PowerTests11(t, a, b)
    /\ suite = "Logarithm"      => /\ LogarithmTests1(t, a) /\ LogarithmTests2(t, a)
                                   /\ LogarithmTests3(t, a) /\ LogarithmTests4(t, a, b, c, d)
    /\ suite = "Diff"           => DiffTests1(t, a, b, c) /\ DiffTests2(t, a, b, c)
    /\ suite = "Trigonometric"  => /\ TrigonometricTests1(t, a) /\ TrigonometricTests2(t, a, b)
                                   /\ TrigonometricTests3(t, a)
                                   /\ TrigonometricTests4(t, a, b, c)
                                   /\ TrigonometricTests5(t, a) /\ TrigonometricTests6(t, a)
                                   /\ TrigonometricTests7(t, a) /\ TrigonometricTests8(t, a, b)
                                   /\ TrigonometricTests9(t, a) /\ TrigonometricTests10(t, a)
    /\ suite = "Normal"         => /\ NormalTests1(t, a) /\ NormalTests2(t, a, b, c)
                                   /\ NormalTests3(t, a, b, c, d) /\ NormalTests4(t, a, b, c)
                                   /\ NormalTests5(t, a, b)
    /\ suite = "Parsing"        => /\ ParsingTests1(t, a) /\ ParsingTests2(t, a)
                                   /\ ParsingTests3(t, a, b, c) /\ ParsingTests4(t, a, b, c)
                                   /\ ParsingTests5(t, a, b, c, d)
                                   /\ ParsingTests6(t, a, b, c, d)
                                   /\ ParsingTests7(t, a, b, c, d)
    /\ suite = "Coeff"          => /\ CoeffTests1(t, a, b, c, d, e, f)
                                   /\ CoeffTests2(t, a, b, c, d, e)
    /\ suite = "Degree"         => /\ DegreeTests1(t, a, b, c, d) /\ DegreeTests2(t, a, b, c)
                                   /\ DegreeTests3(t, a)
    /\ suite = "MinDegree"      => MinDegreeTests(t, a, b, c, d)
    /\ suite = "PolyInfo"       => PolyInfoTests(t, a, b, c)
    /\ suite = "Division"       => /\ DivisionTests1(t, a, b, c, d, e, f)
                                   /\ DivisionTests2(t, a, b, c, d, e)
    /\ suite = "ContentUnit"    => /\ ContentUnitTests1(t, a, b, c, d, e, f, g)
                                   /\ ContentUnitTests2(t, a, c)
    /\ suite = "Gcd"            => /\ GcdTests1(t, a, b, c, d, e) /\ GcdTests2(t, a, b)
                                   /\ GcdTests3(t, a, b, c, d, e, f, g, h)

\* Every test case of the repository that does not depend on floating point, text or options
\* holds of the operators, too.
UnitTestsPass ==
    [][\A suite \in {test'[1]}, t \in {test'[2]} :
         Passes(suite, t, Symbol(NameOf("a")), Symbol(NameOf("b")), Symbol(NameOf("c")),
                Symbol(NameOf("d")), Symbol(NameOf("e")), Symbol(NameOf("f")),
                Symbol(NameOf("g")), Symbol(NameOf("h")))]_test

=============================================================================
