---------------------------- MODULE MCTmpSymbols ----------------------------
(* Instances of TmpSymbols for TLC. *)
EXTENDS TmpSymbols, TLC

\* Instances are interchangeable: nothing in TmpSymbols orders or chooses them.
Symmetry == Permutations(Sym)

\* Two cache entries as long as the caller keeps off the reserved names, one
\* afterwards: a second one only multiplies the states then.
CacheBound == requested => Cardinality(cache) <= 1
=============================================================================
