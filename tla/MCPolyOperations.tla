--------------------------- MODULE MCPolyOperations ---------------------------
(* Expressions comes first: its order of record fields is the one nodes are constructed in. *)
EXTENDS Expressions, PolyOperations, Normalization

a == Symbol(NameOf("a"))
b == Symbol(NameOf("b"))

\* a + b, -2 - 4*a and b - a^2.
TheFactors ==
    <<SumOf(<<a, b>>), SumOf(<<Integer(-2), Product(<<Integer(-4), a>>)>>),
      SumOf(<<b, Product(<<mOne, Power(a, two)>>)>>)>>

\* b^2 - 3*a.
TheDivisors == {SumOf(<<Power(b, two), Product(<<Integer(-3), a>>)>>)}

UpToTwoEach == <<2, 2>>

=============================================================================
