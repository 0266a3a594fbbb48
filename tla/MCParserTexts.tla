----------------------------- MODULE MCParserTexts -----------------------------
(* Expressions comes first: its order of record fields is the one nodes are constructed in. *)
EXTENDS Expressions, ParserTexts

TheTokens == {"a", "sin", "atan2", "(", ")", ",", "+", "-", "*", "/", "^"}

=============================================================================
