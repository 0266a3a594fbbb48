-------------------------------- MODULE Parser --------------------------------
(***************************************************************************)
(* parseFrom (parser.cpp): a grammar whose semantic actions work on a      *)
(* stack of expressions.  An alternative that fails sets the position in   *)
(* the text back, but does not undo what its actions did to the stack.     *)
(*                                                                         *)
(* A text is a sequence of tokens: names (with their subscripts), digits   *)
(* and the Signs.  A name that begins with pi or euler makes two tokens,   *)
(* and so does a number followed by a letter.  The stack holds the calls   *)
(* that construct expressions, as trees; Built performs them.              *)
(***************************************************************************)
EXTENDS Normalization

-----------------------------------------------------------------------------
(* The expressions on the stack. *)

\* A character that no rule reads is "?" or "non-ASCII".
Signs == {"+", "-", "*", "/", "^", "(", ")", ",", "?", "non-ASCII"}

OneArgFunctions == {"sin", "cos", "tan", "asin", "acos", "atan", "log", "sqrt"}

TreeOf(name, args) == Node(name, One, 0, FALSE, args)

MaxDigits == 999        \* bound on the numbers in a text

\* pushPi, pushEuler, pushSymbol and pushInteger.
ScalarOf(token) ==
    LET numbers == {n \in 0 .. MaxDigits : ToString(n) = token}
    IN  IF token = "pi" THEN Pi
        ELSE IF token = "euler" THEN E
        ELSE IF numbers # {} THEN Integer(CHOOSE n \in numbers : TRUE)
        ELSE Symbol(NameOf(token))

RECURSIVE Built(_)
Built(tree) ==
    LET args == <<>> \o [k \in DOMAIN tree.ops |-> Built(tree.ops[k])]
    IN  CASE tree.ops = <<>>       -> ScalarOf(tree.type)
          [] tree.type = "+"       -> SumCreate(args)
          [] tree.type = "*"       -> ProductCreate(args)
          [] tree.type = "^"       -> PowerCreate(args[1], args[2])
          [] tree.type = "minus"   -> Minus(args[1])
          [] tree.type = "oneOver" -> OneOver(args[1])
          [] tree.type = "atan2"   -> Atan2Create(args[1], args[2])
          [] tree.type = "log"     -> LogarithmCreate(args[1])
          [] tree.type = "sqrt"    -> Sqrt(args[1])
          [] OTHER                 -> TrigCreate(tree.type, args[1])

\* Replaces the n uppermost elements by an expression made of them; pop() does not look
\* whether there are any.
Combine(stack, n, name) ==
    LET rest == Len(stack) - n
    IN  IF rest < 0 THEN <<Crash>>
        ELSE Append(SubSeq(stack, 1, rest), TreeOf(name, SubSeq(stack, rest + 1, Len(stack))))

pushScalar(stack, token) == Append(stack, TreeOf(token, <<>>))
toFunction(stack, token) == Combine(stack, 1, token)
toAtan2(stack)    == Combine(stack, 2, "atan2")
toPower(stack)    == Combine(stack, 2, "^")
flipSign(stack)   == Combine(stack, 1, "minus")
toProduct(stack)  == Combine(stack, 2, "*")
toQuotient(stack) == toProduct(Combine(stack, 1, "oneOver"))
toSum(stack)      == Combine(stack, 2, "+")

\* FAULT: the difference of what is on the stack, without the new sign.
toDifferenceUnflipped(stack) == toSum(stack)

toDifference(stack) == toSum(flipSign(stack))

\* The token is the first one of what the action's rule has read.
Act(name, stack, token) ==
    CASE name = "pushScalar"   -> pushScalar(stack, token)
      [] name = "toFunction"   -> toFunction(stack, token)
      [] name = "toAtan2"      -> toAtan2(stack)
      [] name = "toPower"      -> toPower(stack)
      [] name = "flipSign"     -> flipSign(stack)
      [] name = "toProduct"    -> toProduct(stack)
      [] name = "toQuotient"   -> toQuotient(stack)
      [] name = "toSum"        -> toSum(stack)
      [] name = "toDifference" -> toDifference(stack)

-----------------------------------------------------------------------------
(* The parsers of the library that the grammar is written with.  A parser  *)
(* takes a text and a position with a stack, and returns whether it has    *)
(* matched, the new position and the new stack.                            *)

Token(tokens)       == <<"token", tokens>>
Rule(name)          == <<"rule", name>>
Sequence(parts)     == <<"sequence", parts>>        \* a >> b
Choice(parts)       == <<"choice", parts>>          \* a | b
Many(part)          == <<"many", part>>             \* *a
Maybe(part)         == <<"maybe", part>>            \* -a
With(part, action)  == <<"action", part, action>>   \* a[action]
Scalar              == <<"scalar">>

Lit(token) == Token({token})

-----------------------------------------------------------------------------
(* The grammar. *)

scalar == With(Scalar, "pushScalar")

oneArgFunction ==
    With(Sequence(<<Token(OneArgFunctions), Lit("("), Rule("expression"), Lit(")")>>), "toFunction")

twoArgFunction ==
    With(Sequence(<<Lit("atan2"), Lit("("), Rule("expression"), Lit(","), Rule("expression"), Lit(")")>>),
         "toAtan2")

function == Choice(<<oneArgFunction, twoArgFunction>>)

operand == Choice(<<function, scalar, Sequence(<<Lit("("), Rule("expression"), Lit(")")>>)>>)

factor == Sequence(<<operand, Many(Sequence(<<Lit("^"), With(Rule("factor"), "toPower")>>))>>)

\* FAULT: a minus sign belongs to an operand only.
posNegOperandUnsigned == factor

posNegOperand == Choice(<<factor, Sequence(<<Lit("-"), With(factor, "flipSign")>>)>>)

summand ==
    Sequence(<<posNegOperand,
               Many(Choice(<<With(Sequence(<<Lit("*"), posNegOperand>>), "toProduct"),
                             With(Sequence(<<Lit("/"), posNegOperand>>), "toQuotient")>>))>>)

expression ==
    Sequence(<<Maybe(Lit("+")), summand,
               Many(Choice(<<With(Sequence(<<Lit("+"), summand>>), "toSum"),
                             With(Sequence(<<Lit("-"), summand>>), "toDifference")>>))>>)

Named(name) == IF name = "factor" THEN factor ELSE expression

-----------------------------------------------------------------------------

Failed(p) == [p EXCEPT !.ok = FALSE]

\* Another attempt at p after q has failed.
Retry(q, p) == [q EXCEPT !.ok = TRUE, !.at = p.at]

RECURSIVE Parse(_, _, _)
RECURSIVE All(_, _, _)
RECURSIVE FirstOf(_, _, _, _)

All(parts, text, p) ==
    IF parts = <<>> \/ ~p.ok THEN p ELSE All(Tail(parts), text, Parse(Head(parts), text, p))

\* q is the result of the last attempt.
FirstOf(parts, text, p, q) ==
    IF parts = <<>> \/ q.ok THEN q ELSE FirstOf(Tail(parts), text, p, Parse(Head(parts), text, Retry(q, p)))

Matches(g, token) == IF g[1] = "scalar" THEN token \notin Signs ELSE token \in g[2]

Parse(g, text, p) ==
    LET q == Parse(g[2], text, p)
    IN  CASE g[1] \in {"token", "scalar"} ->
               IF p.at <= Len(text) /\ Matches(g, text[p.at]) THEN [p EXCEPT !.at = @ + 1] ELSE Failed(p)
          [] g[1] = "rule"     -> Parse(Named(g[2]), text, p)
          [] g[1] = "sequence" -> All(g[2], text, p)
          [] g[1] = "choice"   -> FirstOf(g[2], text, p, Failed(p))
          [] g[1] = "many"     -> IF q.ok THEN Parse(g, text, q) ELSE Retry(q, p)
          [] g[1] = "maybe"    -> IF q.ok THEN q ELSE Retry(q, p)
          [] g[1] = "action"   -> IF q.ok THEN [q EXCEPT !.stack = Act(g[3], @, text[p.at])] ELSE q

Start == [ok |-> TRUE, at |-> 1, stack |-> <<>>]

isAsciiOnly(text) == ~Contains(text, "non-ASCII")

\* parse() and result(): a text that is not parsed leaves the position at its start.
parseFrom(text) ==
    LET p == IF isAsciiOnly(text) THEN Parse(expression, text, Start) ELSE Failed(Start)
    IN  [tree    |-> IF p.stack = <<>> THEN Undefined ELSE Last(p.stack),
         success |-> p.ok,
         matched |-> IF p.ok THEN p.at - 1 ELSE 0,
         stack   |-> p.stack]

matchedWholeString(text, result) == result.matched = Len(text)

\* tsym::parse(): the tree of the Var in the optional, if there is one.
parse(text) ==
    LET result == parseFrom(text)
    IN  IF result.success /\ matchedWholeString(text, result) THEN {result.tree} ELSE {}

ValueOf(result) == IF isUndefined(result.tree) THEN Undefined ELSE Built(result.tree)

=============================================================================
