-------------------------------- MODULE Values --------------------------------
(***************************************************************************)
(* What an expression means: its value in the field of Modulus elements,   *)
(* for given values of its symbols.  The non-zero squares of this field    *)
(* (the residues) stand for the positive numbers: their product, quotient  *)
(* and powers are residues again, each has exactly one root of any degree  *)
(* that is a residue, and -1 is none of them.  Two expressions that are    *)
(* equal by the laws of algebra have the same value.  The zeroth power of  *)
(* zero has none: the code makes it one or zero, depending on the order in *)
(* which base and exponent become known.                                   *)
(***************************************************************************)
EXTENDS Simplification

Modulus == 479          \* prime; half of Modulus - 1 is prime, too
Half    == (Modulus - 1) \div 2

None   == -1            \* no value: a division by zero, a root of a non-residue
Silent == -2            \* not known: an irrational exponent, or signs that do not fit the assumed ones

Lift(Op(_, _), x, y) ==
    IF Silent \in {x, y} THEN Silent ELSE IF None \in {x, y} THEN None ELSE Op(x, y)

FieldPower(x, k) ==
    LET pow[n \in Nat] == IF n = 0 THEN 1
                          ELSE LET r == pow[n \div 2]
                               IN  (r * r * (IF n % 2 = 0 THEN 1 ELSE x)) % Modulus
    IN  pow[k]

IsResidue(x)  == x > 0 /\ FieldPower(x, Half) = 1

FieldSum(x, y)        == Lift(LAMBDA m, n : (m + n) % Modulus, x, y)
FieldDifference(x, y) == Lift(LAMBDA m, n : (m - n) % Modulus, x, y)
FieldProduct(x, y)    == Lift(LAMBDA m, n : (m * n) % Modulus, x, y)
FieldQuotient(x, y)   == Lift(LAMBDA m, n : IF n = 0 THEN None ELSE (m * FieldPower(n, Modulus - 2)) % Modulus, x, y)

\* x to the rational q.  Fractional exponents are taken modulo the order of the residues.
FieldToThe(x, q) ==
    LET inverse == CHOOSE k \in 1 .. Half : (q.den * k) % Half = 1
    IN  IF x < 0 THEN x
        ELSE IF q = NotRational THEN Silent
        ELSE IF x = 0 THEN IF q.num > 0 THEN 0 ELSE None
        ELSE IF IsInt(q) THEN FieldPower(x, q.num % (Modulus - 1))
        ELSE IF IsResidue(x) /\ q.den % Half # 0
          THEN FieldPower(x, (q.num * inverse) % Half)
        ELSE None

FieldNumber(q) == FieldQuotient(q.num % Modulus, q.den % Modulus)

-----------------------------------------------------------------------------

\* Small integer powers only: numbers in TLC are bounded.
RationalPower(q, n) ==
    IF ~IsInt(n) \/ AbsInt(n.num) > 4 \/ AbsInt(q.num) > 100 \/ (q.num = 0 /\ n.num <= 0) THEN NotRational
    ELSE IF q.num = 0 THEN Whole(0)
    ELSE ToThe(q, n)

\* The rational value of an exponent; at maps names to integers.
RECURSIVE RationalValue(_, _)
RationalValue(e, at) ==
    LET operands == <<>> \o [k \in DOMAIN e.ops |-> RationalValue(e.ops[k], at)]
        Combined(Op(_, _)) == FoldLeft(LAMBDA m, n : IF NotRational \in {m, n} THEN NotRational ELSE Op(m, n),
                                       operands[1], Tail(operands))
    IN  CASE isNumeric(e) -> e.q
          [] isSymbol(e)  -> Whole(at[e.name])
          [] isSum(e)     -> Combined(NumberSum)
          [] isProduct(e) -> Combined(Times)
          [] isPower(e)   -> IF NotRational \in Range(operands) THEN NotRational
                             ELSE RationalPower(operands[1], operands[2])
          [] OTHER        -> NotRational

\* Sine and cosine are rational in the tangent of half the argument, t.
TrigValue(name, t) ==
    LET square == FieldProduct(t, t)
        sin    == FieldProduct(2, t)
        cos    == FieldDifference(1, square)
        norm   == FieldSum(1, square)
    IN  CASE name = NameOf("sin") -> FieldQuotient(sin, norm)
          [] name = NameOf("cos") -> FieldQuotient(cos, norm)
          [] name = NameOf("tan") -> FieldQuotient(sin, cos)
          [] OTHER -> None

\* The code's verdict on the sign of e may be wrong for some values: then they say nothing.
SignFits(e, value) ==
    /\ isPositive(e) => IsResidue(value)
    /\ isNegative(e) => IsResidue((Modulus - value) % Modulus)

RECURSIVE ValueAt(_, _)
ValueAt(e, at) ==
    LET operands == <<>> \o [k \in DOMAIN e.ops |-> ValueAt(e.ops[k], at)]
        value    == CASE isNumeric(e)  -> FieldNumber(e.q)
                      [] isSymbol(e)   -> at[e.name] % Modulus
                      [] isSum(e)      -> FoldLeft(FieldSum, 0, operands)
                      [] isProduct(e)  -> FoldLeft(FieldProduct, 1, operands)
                      [] isPower(e)    -> FieldToThe(operands[1], RationalValue(e.ops[2], at))
                      [] isFunction(e) -> TrigValue(e.name, operands[1])
                      [] OTHER         -> None
    IN  IF value >= 0 /\ ~SignFits(e, value) THEN Silent ELSE value

=============================================================================
