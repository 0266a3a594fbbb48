----------------------------- MODULE VarOperations -----------------------------
(***************************************************************************)
(* Variables of a program that uses tsym: class Var (var.cpp) with the     *)
(* functions of functions.cpp.  Every register holds a Var.  A Var is a    *)
(* value that depends on nothing but the calls it results from, so that a  *)
(* register records its calls as a tree, and Evaluate is the library: it   *)
(* performs a call with the expressions its arguments evaluate to.         *)
(***************************************************************************)
EXTENDS Values, Normalization

CONSTANTS Registers,    \* the variables of a program
          Programs,     \* the kinds of programs: a function from their names
          MaxCalls,     \* bound on the number of calls
          MaxForms      \* bound on the number of forms in simplify()

ASSUME CallsAssumption == MaxCalls \in Nat /\ MaxForms \in Nat /\ Registers \subseteq Nat

(***************************************************************************)
(* A kind of program is a record of the                                    *)
(*   atoms      expressions it starts with,                                *)
(*   singles    expressions for programs that construct nothing else,      *)
(*   functions  names of the functions it calls,                           *)
(*   symbols    symbols it substitutes and differentiates by,              *)
(*   points     values of the symbols: functions from names to integers.   *)
(***************************************************************************)
VARIABLES program,      \* the kind of the program
          var,          \* var[r]: the calls that produced the Var in register r
          call,         \* the last call: its function, registers and symbol
          calls         \* the number of calls

vars == <<program, var, call, calls>>

Operators       == {"+", "-", "*", "/", "^"}
Transformations == {"expand", "normal", "simplify"}
The             == Programs[program]

-----------------------------------------------------------------------------
(* The functions. *)

PlusAssign(x, y)   == SumCreate(<<x, y>>)
MinusAssign(x, y)  == SumCreate(<<x, Minus(y)>>)
TimesAssign(x, y)  == ProductCreate(<<x, y>>)
DivideAssign(x, y) == ProductCreate(<<x, OneOver(y)>>)
RaiseTo(x, y)      == PowerCreate(x, y)

Simpler(e, f) == IF Complexity(e) < Complexity(f) THEN e ELSE f


\* The condition of the loop of simplify().  The last two of the forms are normalizedLast
\* and normalizedNext, the first is the argument.
IsDone(forms) == isUndefined(Last(forms)) \/ forms[Len(forms) - 1] = Last(forms)

RECURSIVE FormsFrom(_)
FormsFrom(forms) ==
    IF IsDone(forms) \/ Len(forms) = MaxForms THEN forms
    ELSE FormsFrom(Append(forms, NormalOf(Last(forms), 0)))

FormsOf(e) == FormsFrom(<<e, NormalOf(e, 0)>>)

Simplify(e) ==
    LET forms == FormsOf(e)
    IN  IF isUndefined(Last(forms)) THEN Undefined
        ELSE Simpler(Last(forms), Simpler(Expand(Last(forms)), Expand(e)))

Result(name, args) ==
    CASE name = "+"        -> PlusAssign(args[1], args[2])
      [] name = "-"        -> MinusAssign(args[1], args[2])
      [] name = "*"        -> TimesAssign(args[1], args[2])
      [] name = "/"        -> DivideAssign(args[1], args[2])
      [] name = "^"        -> RaiseTo(args[1], args[2])
      [] name = "expand"   -> Expand(args[1])
      [] name = "normal"   -> NormalOf(args[1], 0)
      [] name = "simplify" -> Simplify(args[1])
      [] name = "subst"    -> Subst(args[1], args[3], args[2])
      [] name = "diff"     -> Diff(args[1], args[2])

CallOf(name, args) == Node(name, One, 0, FALSE, args)

IsCall(tree) == tree.type \in Operators \cup Transformations \cup {"subst", "diff"}

RECURSIVE Evaluate(_)
Arguments(tree) == <<>> \o [k \in DOMAIN tree.ops |-> Evaluate(tree.ops[k])]
Evaluate(tree)  == IF IsCall(tree) THEN Result(tree.type, Arguments(tree)) ELSE tree

-----------------------------------------------------------------------------
(* The program. *)

\* Var::Var() is zero.
Init ==
    /\ program \in DOMAIN Programs
    /\ var = [r \in Registers |-> zero]
    /\ call = <<"none">>
    /\ calls = 0

\* The registers are filled one after the other.
Construct(r, e) ==
    /\ calls = 0
    /\ var[r] = zero
    /\ \A s \in Registers : s < r => var[s] \notin The.singles \cup {zero} /\ e \notin The.singles
    /\ var' = [var EXCEPT ![r] = e]
    /\ call' = <<"Var", r, r>>
    /\ UNCHANGED <<program, calls>>

Call(theCall, args) ==
    /\ calls < MaxCalls
    /\ calls' = calls + 1
    /\ call' = theCall
    /\ var' = [var EXCEPT ![theCall[2]] = CallOf(theCall[1], args)]
    /\ UNCHANGED program

CallOperator(name, r, s)  == Call(<<name, r, s>>, <<var[r], var[s]>>)
CallTransformation(name, r) == Call(<<name, r, r>>, <<var[r]>>)
CallSubst(r, x, s)        == Call(<<"subst", r, s>>, <<var[r], var[s], x>>)
CallDiff(r, x)            == Call(<<"diff", r, r>>, <<var[r], x>>)

Next(r, s) ==
    \/ \E e \in The.atoms \cup The.singles : Construct(r, e)
    \/ \E name \in Operators \cap The.functions : CallOperator(name, r, s)
    \/ \E name \in Transformations \cap The.functions : r = s /\ CallTransformation(name, r)
    \/ \E x \in The.symbols : CallSubst(r, x, s)
    \/ \E x \in The.symbols : r = s /\ CallDiff(r, x)

Spec == Init /\ [][\E r, s \in Registers : Next(r, s)]_vars

-----------------------------------------------------------------------------
(* Properties: of the arguments and of the result of a step's call. *)

\* Bound by quantifiers, a call and its result are evaluated once.
OnCall(names, P(_, _, _)) ==
    calls' > calls /\ call'[1] \in names
      => \A tree \in {var'[call'[2]]} : \A args \in {Arguments(tree)} :
           \A result \in {Result(tree.type, args)} : P(tree.type, args, result)

\* The value of an operation, of the values x and y of its arguments; y means the rational
\* q as an exponent.
Expected(name, x, y, q) ==
    CASE name = "+" -> FieldSum(x, y)
      [] name = "-" -> FieldDifference(x, y)
      [] name = "*" -> FieldProduct(x, y)
      [] name = "/" -> FieldQuotient(x, y)
      [] name = "^" -> FieldToThe(x, q)
      [] OTHER      -> x

\* Automatic simplification never changes a value: at every point, operator+= and the
\* others, pow and expand do arithmetic.
ArithmeticCorrect ==
    [][OnCall(Operators \cup {"expand"}, LAMBDA name, args, result :
         \A p \in The.points :
           LET last     == args[Len(args)]
               expected == Expected(name, ValueAt(args[1], p), ValueAt(last, p), RationalValue(last, p))
           IN  expected \notin {None, Silent} => ValueAt(result, p) \in {expected, Silent})]_vars

SameOperands(e, f) ==
    \/ e = f
    \/ isProduct(e) /\ isProduct(f) /\ Len(e.ops) = Len(f.ops) /\ Range(e.ops) = Range(f.ops)

\* The order of the arguments of Sum::create and Product::create does not matter: both
\* orders are merged to the same operands.
Commutative ==
    [][OnCall({"+", "*"}, LAMBDA name, args, result : SameOperands(Result(name, Reverse(args)), result))]_vars

Rebuilt(e) ==
    CASE isSum(e)     -> SumCreate(e.ops)
      [] isProduct(e) -> ProductCreate(e.ops)
      [] isPower(e)   -> PowerCreate(e.ops[1], e.ops[2])
      [] OTHER        -> e

RECURSIVE IsCanonical(_)
IsCanonical(e) == Rebuilt(e) = e /\ \A k \in DOMAIN e.ops : IsCanonical(e.ops[k])

\* One pass of simplification is enough: to create a result again from its operands
\* changes nothing, at any depth of the tree.
Canonical == [][OnCall(Operators \cup {"expand"}, LAMBDA name, args, result : IsCanonical(result))]_vars

RECURSIVE HasEvenPowerOfZero(_, _)
HasEvenPowerOfZero(e, at) ==
    \/ /\ isPower(e)
       /\ IsInt(numericEval(Exp(e))) /\ numericEval(Exp(e)).num % 2 = 0
       /\ RationalValue(Base(e), at) = Whole(0)
    \/ \E k \in DOMAIN e.ops : HasEvenPowerOfZero(e.ops[k], at)

SignFitsNumber(e, q, mayBeZero) ==
    q # NotRational =>
        /\ isPositive(e) => q.num > 0 \/ (mayBeZero /\ q.num = 0)
        /\ isNegative(e) => q.num < 0 \/ (mayBeZero /\ q.num = 0)

\* isPositive() and isNegative() are right wherever the expression has a rational value,
\* but for one thing: "if unclear or zero", base.h:42-44 has them return false, yet
\* power.cpp:113-121 takes an even power for positive whose base may be zero, and sums
\* and products pass that on.  Nothing else makes them wrong at a zero.
SignsCorrect ==
    [][OnCall(Operators \cup {"expand"}, LAMBDA name, args, result :
         \A p \in The.points :
           SignFitsNumber(result, RationalValue(result, p), HasEvenPowerOfZero(result, p)))]_vars


SameValueAt(e, f, p) == ValueAt(e, p) >= 0 => ValueAt(f, p) \in {ValueAt(e, p), Silent}

\* normal() and simplify() do not change the value, whatever is replaced by temporary
\* symbols on the way.
SameValue ==
    [][OnCall({"normal", "simplify"}, LAMBDA name, args, result : \A p \in The.points : SameValueAt(args[1], result, p))]_vars

\* subst() replaces every occurrence, also in powers and functions: the result has the
\* value that the expression has at the point with the new value of the symbol.
SubstitutionCorrect ==
    [][OnCall({"subst"}, LAMBDA name, args, result :
         \A p \in The.points :
           LET new      == RationalValue(args[2], p)
               expected == ValueAt(args[1], [p EXCEPT ![args[3].name] = new.num])
           IN  new # NotRational /\ IsInt(new) /\ expected >= 0
                 => ValueAt(result, p) \in {expected, Silent})]_vars

RECURSIVE DerivativeAt(_, _, _)
\* The derivative by the rules for values.
DerivativeAt(e, x, at) ==
    LET operands    == [k \in DOMAIN e.ops |-> ValueAt(e.ops[k], at)]
        derivatives == [k \in DOMAIN e.ops |-> DerivativeAt(e.ops[k], x, at)]
        q           == RationalValue(Exp(e), at)
        Others(k)   == FoldLeft(FieldProduct, 1, RemoveAt(operands, k))
    IN  CASE e = x -> 1
          [] ~Has(e, x)   -> 0
          [] isSum(e)     -> FoldLeft(FieldSum, 0, derivatives)
          [] isProduct(e) -> FoldLeft(FieldSum, 0, [k \in DOMAIN e.ops |-> FieldProduct(derivatives[k], Others(k))])
          [] isPower(e)   -> IF Has(Exp(e), x) \/ q = NotRational THEN Silent
                             ELSE FieldProduct(FieldProduct(FieldNumber(q), FieldToThe(operands[1], MinusInt(q, 1))),
                                               derivatives[1])
          [] OTHER        -> Silent

RECURSIVE HasNegativeBase(_)
HasNegativeBase(e) ==
    \/ isPower(e) /\ isNegative(Base(e))
    \/ \E k \in DOMAIN e.ops : HasNegativeBase(e.ops[k])

\* diff() computes derivatives wherever expression and derivative have a value, unless
\* the expression has a power of a base that is known to be negative: power.cpp:105-107
\* then takes its logarithm, whatever the exponent is, and the result is Undefined.
DerivativeCorrect ==
    [][OnCall({"diff"}, LAMBDA name, args, result :
         IF HasNegativeBase(args[1]) THEN isUndefined(result)
         ELSE \A p \in The.points :
                LET expected == DerivativeAt(args[1], args[2], p)
                IN  ValueAt(args[1], p) >= 0 /\ expected >= 0 => ValueAt(result, p) \in {expected, Silent})]_vars

-----------------------------------------------------------------------------
(* Statements of the repository that the code does not satisfy. *)

\* baseptrlistfct.cpp:114-115, "expands [...] the sum terms of a product, e.g.
\* (a + b)*(c + d) = a*c + a*d + b*c + b*d": the value of expand()'s argument is kept, also
\* that of products of more than two sums.
ExpandKeepsValue ==
    [][OnCall({"expand"}, LAMBDA name, args, result : \A p \in The.points : SameValueAt(args[1], result, p))]_vars

\* productsimpl.cpp:111-113, two factors "are simplified with the result being a BasePtrList
\* with one or two items": never with an empty one, of which the front is taken.
NoCrash == [][OnCall(Operators, LAMBDA name, args, result : ~Has(result, Crash))]_vars

=============================================================================
