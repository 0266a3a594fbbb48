-------------------------------- MODULE Order --------------------------------
(***************************************************************************)
(* The order of operands (order.cpp): doPermute(l, r) tells whether l and  *)
(* r have to be swapped.  Products and sums are compared from the back.    *)
(***************************************************************************)
EXTENDS Expressions

RECURSIVE doPermute(_, _)
RECURSIVE IsBefore(_, _)

\* Both are visited element by element: boost::lexicographical_compare.
IsBefore(s, t) ==
    LET Less(x, y) == x # y /\ ~doPermute(x, y)
    IN  IF t = <<>> THEN FALSE
        ELSE IF s = <<>> THEN TRUE
        ELSE IF Less(Head(s), Head(t)) THEN TRUE
        ELSE IF Less(Head(t), Head(s)) THEN FALSE
        ELSE IsBefore(Tail(s), Tail(t))

doPermuteListReverse(left, right) == IsBefore(Reverse(right.ops), Reverse(left.ops))

doPermuteBothPower(left, right) ==
    IF Base(left) # Base(right) THEN doPermute(Base(left), Base(right))
                                ELSE doPermute(Exp(left), Exp(right))

\* For equal names, the positive symbol comes first.
doPermuteBothSymbol(left, right) ==
    IF left.name = right.name THEN right.positive /\ ~left.positive
                              ELSE left.name > right.name

doPermuteBothFunction(left, right) ==
    IF left.name # right.name THEN left.name > right.name
                              ELSE doPermute(left.ops[1], right.ops[1])

doPermuteSameType(left, right) ==
    CASE isSymbol(left)   -> doPermuteBothSymbol(left, right)
      [] isNumeric(left)  -> IsLess(right.q, left.q)
      [] isPower(left)    -> doPermuteBothPower(left, right)
      [] isProduct(left)  -> doPermuteListReverse(left, right)
      [] isSum(left)      -> doPermuteListReverse(left, right)
      [] isConstant(left) -> left.name > right.name
      [] isFunction(left) -> doPermuteBothFunction(left, right)
      [] OTHER            -> FALSE

doPermuteLastElement(left, right) == Last(left.ops) = right \/ doPermute(Last(left.ops), right)

doPermuteLeftPower(left, right) ==
    IF Base(left) # right THEN doPermute(Base(left), right) ELSE doPermute(Exp(left), one)

doPermuteDifferentType(left, right) ==
    IF isNumeric(left) THEN FALSE
    ELSE IF isConstant(left) /\ ~isNumeric(right) THEN FALSE
    ELSE IF isProduct(left) /\ right.type \in {"Power", "Sum", "Symbol", "Function"} THEN doPermuteLastElement(left, right)
    ELSE IF isPower(left) /\ right.type \in {"Sum", "Symbol", "Function"} THEN doPermuteLeftPower(left, right)
    ELSE IF isSum(left) /\ right.type \in {"Symbol", "Function"} THEN doPermuteLastElement(left, right)
    ELSE IF isFunction(left) /\ isSymbol(right) THEN left.name > right.name
    ELSE IF isUndefined(left) \/ isUndefined(right) THEN FALSE
    ELSE ~doPermute(right, left)

doPermute(left, right) ==
    IF left.type = right.type THEN doPermuteSameType(left, right)
                              ELSE doPermuteDifferentType(left, right)

=============================================================================
