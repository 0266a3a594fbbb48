------------------------------ MODULE ParserTexts ------------------------------
(***************************************************************************)
(* Texts for the parser, typed token by token.  What the parser ought to   *)
(* read is defined by the usual context-free grammar of expressions, which *)
(* knows nothing of positions, alternatives and stacks.                    *)
(***************************************************************************)
EXTENDS Parser

CONSTANTS Tokens,       \* the tokens of the texts
          MaxLength     \* bound on the length of a text

ASSUME LengthAssumption == MaxLength \in Nat

VARIABLE text

EndsOperand(token)   == token = ")" \/ token \notin Signs
BeginsOperand(token) == token = "(" \/ token \notin Signs

SignsAfter(token) ==
    CASE EndsOperand(token)  -> Signs \ {"("}
      [] token \in {"(", ","} -> {"+", "-"}
      [] token = "^"         -> {}
      [] OTHER               -> {"-"}

\* No rule reads on behind two tokens that do not fit together.
Fit(s, t) ==
    \/ t \in SignsAfter(s)
    \/ BeginsOperand(t) /\ ~EndsOperand(s)
    \/ t = "(" /\ s \in OneArgFunctions \cup {"atan2"}

Count(token) == Len(SelectSeq(text, LAMBDA t : t = token))

\* Nor does one read on behind a parenthesis or a comma that belongs to nothing.
MayBeReadOn ==
    /\ \A k \in DOMAIN text : Fit(IF k = 1 THEN "(" ELSE text[k - 1], text[k])
    /\ Count(")") <= Count("(")
    /\ Count(",") <= Count("atan2")

Init == text = <<>>

Type(token) ==
    /\ Len(text) < MaxLength
    /\ MayBeReadOn
    /\ text' = Append(text, token)

Next == \E token \in Tokens : Type(token)

Spec == Init /\ [][Next]_text

-----------------------------------------------------------------------------
(* The trees of a sentence: s as an expression, a summand, an operand with *)
(* or without sign, a factor, or an operand.                               *)

RECURSIVE Readings(_, _)

Inside(s, first, last) == Readings("expression", SubSeq(s, first, last))

\* s as a sentence of the kind left, the sign and a sentence of the kind right.
Binary(left, sign, right, s, Tree(_, _)) ==
    {Tree(x, y) : <<x, y>> \in UNION {Readings(left, SubSeq(s, 1, k - 1)) \X Readings(right, SubSeq(s, k + 1, Len(s))) :
                                      k \in {j \in 2 .. Len(s) - 1 : s[j] = sign}}}

ReadingsOfOperand(s) ==
    LET n == Len(s)
        closed == n > 2 /\ s[n] = ")"
    IN  (IF n = 1 /\ s[1] \notin Signs THEN {TreeOf(s[1], <<>>)} ELSE {})
          \cup (IF closed /\ s[1] = "(" THEN Inside(s, 2, n - 1) ELSE {})
          \cup (IF closed /\ s[1] \in OneArgFunctions /\ s[2] = "("
                THEN {TreeOf(s[1], <<x>>) : x \in Inside(s, 3, n - 1)} ELSE {})
          \cup (IF closed /\ s[1] = "atan2" /\ s[2] = "("
                THEN UNION {{TreeOf("atan2", <<x, y>>) : x \in Inside(s, 3, k - 1), y \in Inside(s, k + 1, n - 1)} :
                            k \in {j \in 4 .. n - 2 : s[j] = ","}} ELSE {})

Readings(kind, s) ==
    CASE kind = "operand" -> ReadingsOfOperand(s)
      [] kind = "factor"  -> Readings("operand", s)
                               \cup Binary("operand", "^", "factor", s, LAMBDA x, y : TreeOf("^", <<x, y>>))
      [] kind = "signed"  -> Readings("factor", s)
                               \cup (IF Len(s) > 1 /\ s[1] = "-"
                                     THEN {TreeOf("minus", <<x>>) : x \in Readings("factor", Tail(s))} ELSE {})
      [] kind = "summand" -> Readings("signed", s)
                               \cup Binary("summand", "*", "signed", s, LAMBDA x, y : TreeOf("*", <<x, y>>))
                               \cup Binary("summand", "/", "signed", s,
                                           LAMBDA x, y : TreeOf("*", <<x, TreeOf("oneOver", <<y>>)>>))
      [] kind = "sum"     -> Readings("summand", s)
                               \cup Binary("sum", "+", "summand", s, LAMBDA x, y : TreeOf("+", <<x, y>>))
                               \cup Binary("sum", "-", "summand", s,
                                           LAMBDA x, y : TreeOf("+", <<x, TreeOf("minus", <<y>>)>>))
      [] kind = "expression" -> Readings("sum", s)
                               \cup (IF Len(s) > 1 /\ s[1] = "+" THEN Readings("sum", Tail(s)) ELSE {})

Sentence(n, s) == Inside(s, 1, n)

-----------------------------------------------------------------------------
(* Properties of the result for the text that a step leads to. *)

OnText(P(_, _)) == \A s \in {text'} : \A result \in {parseFrom(s)} : P(s, result)

\* The order of alternatives and greedy repetitions never cost a reading: the parser
\* succeeds if some part of the text, from its start, is an expression, and it has matched
\* the longest one.
MatchesLongestExpression ==
    [][OnText(LAMBDA s, result :
         LET lengths == {n \in 1 .. Len(s) : Sentence(n, s) # {}}
         IN  /\ result.success <=> lengths # {}
             /\ result.matched \in lengths \cup {0}
             /\ \A n \in lengths : n <= result.matched)]_text

\* The optional that tsym::parse() returns holds the only reading of the whole text, or
\* nothing if there is none: whatever functions that were tried in vain have left on the
\* stack, no action lacks an operand or takes a wrong one.  Of a text that is matched in
\* part, as 2*sin of 2*sin(b, the parser's own result may be wrong: b*sin.
ParseReturnsReading ==
    [][OnText(LAMBDA s, result :
         /\ parse(s) = Sentence(Len(s), s)
         /\ \A tree \in Range(result.stack) : ~Has(tree, Crash))]_text

=============================================================================
