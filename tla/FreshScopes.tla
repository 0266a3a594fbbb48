---------------------------- MODULE FreshScopes ----------------------------
(***************************************************************************)
(* What the users of temporary symbols rely on: names live in properly     *)
(* nested scopes, and a name that is introduced occurs in no open scope.   *)
(* Nothing is said about how names are made, when they are used again, or  *)
(* about names that are no longer in a scope.                              *)
(***************************************************************************)
EXTENDS Naturals, Sequences

VARIABLE scopes     \* the names of each open scope, the innermost one last

InUse == UNION {scopes[i] : i \in 1 .. Len(scopes)}

Init == scopes = <<>>

\* A scope is opened.
Open == scopes' = Append(scopes, {})

\* A fresh name is introduced in the innermost scope.
Introduce ==
    LET n == Len(scopes) IN
    /\ n > 0
    /\ Len(scopes') = n
    /\ \E new \in scopes'[n] :
         /\ new \notin InUse
         /\ scopes' = [scopes EXCEPT ![n] = @ \cup {new}]

\* The innermost scope is closed.
Close ==
    /\ scopes # <<>>
    /\ scopes' = SubSeq(scopes, 1, Len(scopes) - 1)

Next == Open \/ Introduce \/ Close

Spec == Init /\ [][Next]_scopes
=============================================================================
