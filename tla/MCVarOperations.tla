--------------------------- MODULE MCVarOperations ---------------------------
(* Expressions comes first: its order of record fields is the one nodes are constructed in. *)
EXTENDS Expressions, VarOperations

a == PositiveSymbol(NameOf("a"))
b == PositiveSymbol(NameOf("b"))
c == Symbol(NameOf("c"))

\* What the programs leave out.  Every expression below is one that automatic simplification
\* leaves as it is (IsCanonical).
Program == [atoms |-> {}, singles |-> {}, functions |-> {}, symbols |-> {}, points |-> {}]

\* The values of a, b and c.  b is positive, the sign of c is unknown.
Point(x, y, z) == [n \in {NameOf("a"), NameOf("b"), NameOf("c")} |->
                       IF n = NameOf("a") THEN x ELSE IF n = NameOf("b") THEN y ELSE z]

-----------------------------------------------------------------------------
(* Arithmetic. *)

sqrtTwo  == Power(two, half)
aSqrtTwo == Product(<<sqrtTwo, a>>)

Arithmetic ==
    [Program EXCEPT
       !.atoms     = {a, c, two, half, Integer(-3), SumOf(<<a, b>>), SumOf(<<one, sqrtTwo>>),
                      SumOf(<<one, Product(<<mOne, sqrtTwo>>)>>)},
       !.functions = Operators \cup {"expand"},
       !.points    = {Point(7, 4, 5), Point(7, 4, -12), Point(7, 4, 0)}]

\* (a + sqrt(2)*a)*(b + c) and a - sqrt(2)*a: the product of the first sum and the last one
\* is not a sum.
Conjugates ==
    [Program EXCEPT
       !.atoms     = {Product(<<SumOf(<<a, aSqrtTwo>>), SumOf(<<b, c>>)>>),
                      SumOf(<<a, Product(<<mOne, sqrtTwo, a>>)>>)},
       !.functions = Operators \cup {"expand"},
       !.points    = {Point(7, 4, 5), Point(7, 4, -12)}]

\* tan(a), with a tangent of its own and a sine.
Tangents ==
    [Program EXCEPT
       !.atoms     = {Function(NameOf("tan"), <<a>>), Function(NameOf("sin"), <<a>>)},
       !.functions = {"*", "/"}]

-----------------------------------------------------------------------------
(* Functions. *)

\* 1/(a + sqrt(c)), (a^2 + a)/(2*a), -a + sqrt(a + c)^3, (1 + c^a)^2, 1/a + 1/c,
\* 1/(1 + 1/c) + c, log(a + c)*(a + c)^2 and (-1 - a)^2, whose base is negative.
Fractions ==
    {Power(SumOf(<<a, Power(c, half)>>), mOne),
     Product(<<half, Power(a, mOne), SumOf(<<a, Power(a, two)>>)>>),
     SumOf(<<Product(<<mOne, a>>), Power(SumOf(<<a, c>>), Numeric(Ratio(3, 2)))>>),
     Power(SumOf(<<one, Power(c, a)>>), two),
     SumOf(<<Power(a, mOne), Power(c, mOne)>>),
     SumOf(<<Power(SumOf(<<one, Power(c, mOne)>>), mOne), c>>),
     Product(<<Power(SumOf(<<a, c>>), two), Function(NameOf("log"), <<SumOf(<<a, c>>)>>)>>),
     Power(SumOf(<<mOne, Product(<<mOne, a>>)>>), two)}

Functions ==
    [Program EXCEPT
       !.atoms     = {a, c, two, SumOf(<<a, c>>)},
       !.singles   = Fractions,
       !.functions = Operators \cup Transformations,
       !.symbols   = {a, c},
       !.points    = {Point(7, 4, 4), Point(5, 4, -12)}]

ThePrograms       == [Arithmetic |-> Arithmetic, Functions |-> Functions]
ConjugatePrograms == [Conjugates |-> Conjugates]
TangentPrograms   == [Tangents |-> Tangents]

=============================================================================
