----------------------------- MODULE LinearAlgebra -----------------------------
(***************************************************************************)
(* The entries of matrices and vectors, and the sums and products over     *)
(* them.                                                                   *)
(*                                                                         *)
(* An entry is an expression.  The algorithms only add, subtract,          *)
(* multiply, divide and compare with zero, so the expressions are the      *)
(* elements of an arbitrary field, together with tsym's Undefined, the     *)
(* result of a division by zero.  A zero is recognized as such: the        *)
(* algorithms rely on simplify() and on the input for that.                *)
(***************************************************************************)
EXTENDS Integers, FiniteSets, Functions

CONSTANTS
    Field, Zero, One,   \* the expressions, 0 and 1
    Plus(_, _), Mult(_, _), Neg(_), Inv(_),
    Undefined

ASSUME FieldClosed ==
    /\ Zero \in Field /\ One \in Field /\ Zero # One /\ Undefined \notin Field
    /\ \A u, v \in Field : Plus(u, v) \in Field /\ Mult(u, v) \in Field
    /\ \A u \in Field : Neg(u) \in Field /\ (u # Zero => Inv(u) \in Field)

ASSUME FieldAxioms ==
    /\ \A u, v \in Field : Plus(u, v) = Plus(v, u) /\ Mult(u, v) = Mult(v, u)
    /\ \A u, v, w \in Field : Plus(u, Plus(v, w)) = Plus(Plus(u, v), w)
    /\ \A u, v, w \in Field : Mult(u, Mult(v, w)) = Mult(Mult(u, v), w)
    /\ \A u, v, w \in Field : Mult(u, Plus(v, w)) = Plus(Mult(u, v), Mult(u, w))
    /\ \A u \in Field : Plus(u, Zero) = u /\ Plus(u, Neg(u)) = Zero /\ Mult(u, One) = u
    /\ \A u \in Field \ {Zero} : Mult(u, Inv(u)) = One

Entry == Field \cup {Undefined}

Add(u, v)   == IF Undefined \in {u, v} THEN Undefined ELSE Plus(u, v)
Times(u, v) == IF Undefined \in {u, v} THEN Undefined ELSE Mult(u, v)
Minus(u, v) == IF Undefined \in {u, v} THEN Undefined ELSE Plus(u, Neg(v))
Over(u, v)  == IF Undefined \in {u, v} \/ v = Zero THEN Undefined ELSE Mult(u, Inv(v))

\* The sums f[1] + .. + f[k] up to k = n, and the last of them.
Sums(f, n)  == LET sum[k \in 0 .. n] == IF k = 0 THEN Zero ELSE Add(sum[k - 1], f[k]) IN sum
SumOf(f, n) == Sums(f, n)[n]

\* Likewise for the product of u and f[1] .. f[n].
Products(u, f, n) ==
    LET product[k \in 0 .. n] == IF k = 0 THEN u ELSE Times(product[k - 1], f[k]) IN product
ProductOf(u, f, n) == Products(u, f, n)[n]

-----------------------------------------------------------------------------
(* Vectors and matrices of n rows. *)

Vectors(n)  == [1 .. n -> Field]
Matrices(n) == [1 .. n -> [1 .. n -> Field]]

\* The product of row r of M and the vector X.
RowTimes(M, r, X, n) == SumOf([c \in 1 .. n |-> Times(M[r][c], X[c])], n)

\* M maps a vector other than zero to zero.
IsSingular(M, n) ==
    \E X \in Vectors(n) :
        /\ \E c \in 1 .. n : X[c] # Zero
        /\ \A r \in 1 .. n : RowTimes(M, r, X, n) = Zero

\* The permutations of 1 .. n, and those that are odd.
Orders(n) == {f \in [1 .. n -> 1 .. n] : \A r, s \in 1 .. n : f[r] = f[s] => r = s}
Inversions(f, n) == {p \in (1 .. n) \X (1 .. n) : p[1] < p[2] /\ f[p[1]] > f[p[2]]}
IsOdd(f, n) == Cardinality(Inversions(f, n)) % 2 = 1

\* The determinant by definition: the sum of the signed products along the permutations.
Term(M, f, n) == ProductOf(IF IsOdd(f, n) THEN Neg(One) ELSE One, [r \in 1 .. n |-> M[r][f[r]]], n)
Total(g, T) == FoldFunctionOnSet(Add, Zero, g, T)
DeterminantOf(M, n) == Total([f \in Orders(n) |-> Term(M, f, n)], Orders(n))

Swapped(f, from, to) == [f EXCEPT ![from] = f[to], ![to] = f[from]]

\* No zero on the diagonal before row m.
NoZeroPivot(C, m) == \A k \in 1 .. m - 1 : C[k][k] # Zero

\* The rows of M in the order f are the product of the factors of the columns before
\* m, where C holds L below the diagonal and U above it, and what is left of them.
Factored(M, f, C, m, n) ==
    \A r, c \in 1 .. n :
        M[f[r]][c] =
          Add(SumOf([k \in 1 .. n |-> IF k < r /\ k < m /\ k <= c THEN Times(C[r][k], C[k][c])
                                      ELSE Zero], n),
              IF c < r /\ c < m THEN Zero ELSE C[r][c])

=============================================================================
