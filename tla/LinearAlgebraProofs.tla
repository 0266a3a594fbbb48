-------------------------- MODULE LinearAlgebraProofs --------------------------
(***************************************************************************)
(* Facts about the sums, permutations and factored matrices of             *)
(* LinearAlgebra, for every field and every number of rows.                *)
(***************************************************************************)
EXTENDS LinearAlgebra, Recursion, FiniteSetTheorems

-----------------------------------------------------------------------------
(* The field. *)

\* On the field, the operations on entries are those of the field; entries are closed
\* under all of them.
LEMMA EntryOperations ==
    /\ \A u, v \in Field : /\ Add(u, v) = Plus(u, v) /\ Times(u, v) = Mult(u, v)
                           /\ Minus(u, v) = Plus(u, Neg(v))
                           /\ v # Zero => Over(u, v) = Mult(u, Inv(v))
    /\ \A u, v \in Entry : /\ Add(u, v) \in Entry /\ Times(u, v) \in Entry
                           /\ Minus(u, v) \in Entry /\ Over(u, v) \in Entry
BY FieldClosed DEF Add, Times, Minus, Over, Entry

\* Products of elements of the field are the field's.
LEMMA FieldTimes ==
    \A u, v \in Field : Times(u, v) = Mult(u, v) /\ Times(u, v) \in Field /\ Mult(u, v) \in Field
BY EntryOperations, FieldClosed

\* Sums of elements of the field are the field's.
LEMMA FieldPlus ==
    \A u, v \in Field : Add(u, v) = Plus(u, v) /\ Add(u, v) \in Field /\ Plus(u, v) \in Field
BY EntryOperations, FieldClosed

\* Zero is neutral on both sides.
LEMMA ZeroPlus ==
    \A u \in Field : Plus(Zero, u) = u /\ Plus(u, Zero) = u /\ Add(Zero, u) = u /\ Add(u, Zero) = u
BY FieldPlus, FieldAxioms, FieldClosed

\* Equal summands cancel.
LEMMA Cancel ==
    ASSUME NEW u \in Field, NEW v \in Field, NEW w \in Field, Plus(u, v) = Plus(u, w)
    PROVE  v = w
<1>1. Neg(u) \in Field
  BY FieldClosed
<1>2. Plus(Neg(u), Plus(u, v)) = Plus(Plus(Neg(u), u), v)
  BY <1>1, FieldAxioms
<1>3. Plus(Neg(u), Plus(u, w)) = Plus(Plus(Neg(u), u), w)
  BY <1>1, FieldAxioms
<1>4. Plus(Neg(u), u) = Zero
  BY <1>1, FieldAxioms
<1>5. Plus(Zero, v) = v /\ Plus(Zero, w) = w
  BY FieldAxioms, FieldClosed
<1>6. QED
  BY <1>2, <1>3, <1>4, <1>5

\* A product with zero is zero.
LEMMA TimesZero ==
    ASSUME NEW u \in Field
    PROVE  Mult(u, Zero) = Zero /\ Mult(Zero, u) = Zero
<1>1. Mult(u, Plus(Zero, Zero)) = Plus(Mult(u, Zero), Mult(u, Zero))
  BY FieldAxioms, FieldClosed
<1>2. Plus(Zero, Zero) = Zero /\ Mult(u, Zero) \in Field
  BY FieldAxioms, FieldClosed
<1>3. Plus(Mult(u, Zero), Mult(u, Zero)) = Plus(Mult(u, Zero), Zero)
  BY <1>1, <1>2, FieldAxioms
<1>4. Mult(u, Zero) = Zero
  BY <1>2, <1>3, Cancel, FieldClosed
<1>5. QED
  BY <1>4, FieldAxioms, FieldClosed

\* What has been subtracted can be added again.
LEMMA PlusMinus ==
    ASSUME NEW u \in Field, NEW v \in Field
    PROVE  Plus(v, Minus(u, v)) = u /\ Plus(Minus(u, v), v) = u /\ Minus(u, v) \in Field
<1>1. Minus(u, v) = Plus(u, Neg(v)) /\ Neg(v) \in Field /\ Minus(u, v) \in Field
  BY EntryOperations, FieldClosed
<1>2. Plus(v, Plus(u, Neg(v))) = Plus(Plus(u, Neg(v)), v)
  BY <1>1, FieldAxioms
<1>3. Plus(Plus(u, Neg(v)), v) = Plus(u, Plus(Neg(v), v))
  BY <1>1, FieldAxioms
<1>4. Plus(Neg(v), v) = Zero
  BY <1>1, FieldAxioms
<1>5. QED
  BY <1>1, <1>2, <1>3, <1>4, FieldAxioms

\* What has been divided by something other than zero can be multiplied again.
LEMMA TimesOver ==
    ASSUME NEW u \in Field, NEW v \in Field, v # Zero
    PROVE  Mult(v, Over(u, v)) = u /\ Mult(Over(u, v), v) = u /\ Over(u, v) \in Field
<1>1. Over(u, v) = Mult(u, Inv(v)) /\ Inv(v) \in Field /\ Over(u, v) \in Field
  BY EntryOperations, FieldClosed
<1>2. Mult(v, Mult(u, Inv(v))) = Mult(Mult(u, Inv(v)), v)
  BY <1>1, FieldAxioms
<1>3. Mult(Mult(u, Inv(v)), v) = Mult(u, Mult(Inv(v), v))
  BY <1>1, FieldAxioms
<1>4. Mult(Inv(v), v) = One
  BY <1>1, FieldAxioms
<1>5. QED
  BY <1>1, <1>2, <1>3, <1>4, FieldAxioms

\* Only zero yields zero when multiplied by something else.
LEMMA NoZeroDivisors ==
    ASSUME NEW u \in Field, NEW v \in Field, u # Zero, Mult(u, v) = Zero
    PROVE  v = Zero
<1>1. Inv(u) \in Field /\ Mult(Inv(u), u) = One
  BY FieldAxioms, FieldClosed
<1>2. Mult(Inv(u), Mult(u, v)) = Mult(Mult(Inv(u), u), v)
  BY <1>1, FieldAxioms
<1>3. Mult(One, v) = v
  BY FieldAxioms, FieldClosed
<1>4. QED
  BY <1>1, <1>2, <1>3, TimesZero

\* The middle summands of four change places.
LEMMA Interchange ==
    ASSUME NEW a \in Field, NEW b \in Field, NEW c \in Field, NEW d \in Field
    PROVE  Plus(Plus(a, b), Plus(c, d)) = Plus(Plus(a, c), Plus(b, d))
<1>1. Plus(Plus(a, b), Plus(c, d)) = Plus(a, Plus(b, Plus(c, d)))
  BY FieldAxioms, FieldClosed
<1>2. Plus(b, Plus(c, d)) = Plus(Plus(b, c), d)
  BY FieldAxioms
<1>3. Plus(b, c) = Plus(c, b)
  BY FieldAxioms
<1>4. Plus(Plus(c, b), d) = Plus(c, Plus(b, d))
  BY FieldAxioms
<1>5. Plus(a, Plus(c, Plus(b, d))) = Plus(Plus(a, c), Plus(b, d))
  BY FieldAxioms, FieldClosed
<1>6. QED
  BY <1>1, <1>2, <1>3, <1>4, <1>5

-----------------------------------------------------------------------------
(* Sums. *)

\* The equations of the recursive function Sums, and its type.
LEMMA SumsDef ==
    ASSUME NEW n \in Nat, NEW S \in {Field, Entry}, NEW f \in [1 .. n -> S]
    PROVE  /\ Sums(f, n) \in [0 .. n -> S]
           /\ Sums(f, n)[0] = Zero
           /\ \A k \in 1 .. n : Sums(f, n)[k] = Add(Sums(f, n)[k - 1], f[k])
           /\ SumOf(f, n) \in S
           /\ SumOf(f, n) = Sums(f, n)[n]
<1> DEFINE op == [k \in 1 .. n |-> [s \in S |-> Add(s, f[k])]]
           Body(g) == [k \in 0 .. n |-> IF k = 0 THEN Zero ELSE Add(g[k - 1], f[k])]
<1>1. Zero \in S /\ \A s \in S, k \in 1 .. n : Add(s, f[k]) \in S
  <2>1. CASE S = Field
    <3>1. \A s \in Field, k \in 1 .. n : f[k] \in Field /\ Add(s, f[k]) = Plus(s, f[k])
      BY <2>1, EntryOperations
    <3>2. QED
      BY <2>1, <3>1, FieldClosed
  <2>2. CASE S = Entry
    <3>1. \A s \in Entry, k \in 1 .. n : f[k] \in Entry /\ Add(s, f[k]) \in Entry
      BY <2>2, EntryOperations
    <3>2. QED
      BY <2>2, <3>1, FieldClosed DEF Entry
  <2>3. QED
    BY <2>1, <2>2
<1>2. op \in [1 .. n -> [S -> S]]
  BY <1>1
<1>3. PICK g \in [0 .. n -> S] : Accumulates(g, n, Zero, op)
  <2> HIDE DEF op
  <2>1. Zero \in S
    BY <1>1
  <2>2. QED
    BY <1>2, <2>1, Accumulation
<1>4. \A k \in 1 .. n : op[k][g[k - 1]] = Add(g[k - 1], f[k])
  OBVIOUS
<1>5. g = Body(g)
  <2> HIDE DEF op
  <2>1. \A k \in 0 .. n : g[k] = IF k = 0 THEN Zero ELSE Add(g[k - 1], f[k])
    BY <1>3, <1>4 DEF Accumulates
  <2>2. QED
    BY <2>1
<1> DEFINE s == Sums(f, n)
<1>6. s = Body(s)
  <2>1. s = CHOOSE h : h = Body(h)
    BY DEF Sums
  <2> HIDE DEF Body, s
  <2>2. QED
    BY <1>5, <2>1
<1> HIDE DEF s
<1>7. \A k \in 0 .. n : s[k] = IF k = 0 THEN Zero ELSE Add(s[k - 1], f[k])
  BY <1>6
<1>8. s \in [0 .. n -> S]
  <2> DEFINE T == {k \in Nat : k <= n => s[k] \in S}
  <2>1. \A m \in Nat : (\A k \in Nat : k < m => k \in T) => m \in T
    <3> SUFFICES ASSUME NEW m \in Nat, \A k \in Nat : k < m => k \in T, m <= n
                 PROVE  s[m] \in S
      OBVIOUS
    <3>1. CASE m = 0
      BY <1>1, <1>7, <3>1
    <3>2. CASE m # 0
      <4>1. m - 1 \in Nat /\ m - 1 < m /\ m \in 1 .. n
        BY <3>2
      <4>2. s[m - 1] \in S
        BY <4>1
      <4>3. QED
        BY <1>1, <1>7, <4>1, <4>2
    <3>3. QED
      BY <3>1, <3>2
  <2> HIDE DEF T
  <2>2. Nat \subseteq T
    BY <2>1, CompleteInduction
  <2>3. \A k \in 0 .. n : s[k] \in S
    BY <2>2 DEF T
  <2>4. s = [k \in 0 .. n |-> s[k]]
    <3> HIDE DEF Body
    <3>1. s = Body(s) /\ Body(s) = [k \in 0 .. n |-> Body(s)[k]]
      BY <1>6 DEF Body
    <3>2. QED
      BY <3>1
  <2>5. QED
    BY <2>3, <2>4
<1>9. s[0] = Zero /\ \A k \in 1 .. n : s[k] = Add(s[k - 1], f[k])
  BY <1>7
<1>10. SumOf(f, n) = s[n] /\ s[n] \in S
  BY <1>8 DEF SumOf, s
<1>11. QED
  BY <1>8, <1>9, <1>10 DEF s

\* The equations of the recursive function Products, and its type.
LEMMA ProductsDef ==
    ASSUME NEW n \in Nat, NEW S \in {Field, Entry}, NEW u \in S, NEW f \in [1 .. n -> S]
    PROVE  /\ Products(u, f, n) \in [0 .. n -> S]
           /\ Products(u, f, n)[0] = u
           /\ \A k \in 1 .. n : Products(u, f, n)[k] = Times(Products(u, f, n)[k - 1], f[k])
           /\ ProductOf(u, f, n) \in S
           /\ ProductOf(u, f, n) = Products(u, f, n)[n]
<1> DEFINE op == [k \in 1 .. n |-> [s \in S |-> Times(s, f[k])]]
           Body(g) == [k \in 0 .. n |-> IF k = 0 THEN u ELSE Times(g[k - 1], f[k])]
<1>1. \A s \in S, k \in 1 .. n : Times(s, f[k]) \in S
  <2>1. CASE S = Field
    BY <2>1, FieldTimes
  <2>2. CASE S = Entry
    BY <2>2, EntryOperations
  <2>3. QED
    BY <2>1, <2>2
<1>2. op \in [1 .. n -> [S -> S]]
  BY <1>1
<1>3. PICK g \in [0 .. n -> S] : Accumulates(g, n, u, op)
  <2> HIDE DEF op
  <2>1. QED
    BY <1>2, Accumulation
<1>4. \A k \in 1 .. n : op[k][g[k - 1]] = Times(g[k - 1], f[k])
  OBVIOUS
<1>5. g = Body(g)
  <2> HIDE DEF op
  <2>1. \A k \in 0 .. n : g[k] = IF k = 0 THEN u ELSE Times(g[k - 1], f[k])
    BY <1>3, <1>4 DEF Accumulates
  <2>2. QED
    BY <2>1
<1> DEFINE p == Products(u, f, n)
<1>6. p = Body(p)
  <2>1. p = CHOOSE h : h = Body(h)
    BY DEF Products
  <2> HIDE DEF Body, p
  <2>2. QED
    BY <1>5, <2>1
<1> HIDE DEF p
<1>7. \A k \in 0 .. n : p[k] = IF k = 0 THEN u ELSE Times(p[k - 1], f[k])
  BY <1>6
<1>8. ASSUME NEW m \in 0 .. n PROVE p[m] \in S
  <2> DEFINE T == {k \in Nat : p[k] \in S}
  <2>1. 0 \in T
    BY <1>7
  <2>2. \A k \in 1 .. m : k - 1 \in T => k \in T
    BY <1>1, <1>7
  <2> HIDE DEF T
  <2>3. m \in T
    BY <2>1, <2>2, CountUp
  <2>4. QED
    BY <2>3 DEF T
<1>9. p \in [0 .. n -> S]
  <2>1. p = [k \in 0 .. n |-> p[k]]
    BY <1>6
  <2>2. QED
    BY <1>8, <2>1
<1>10. p[0] = u /\ \A k \in 1 .. n : p[k] = Times(p[k - 1], f[k])
  BY <1>7
<1>11. ProductOf(u, f, n) = p[n] /\ p[n] \in S
  BY <1>8 DEF ProductOf, p
<1>12. QED
  BY <1>9, <1>10, <1>11 DEF p

\* An interval of sums: all of them are zero if the summands are.
LEMMA SumZero ==
    ASSUME NEW n \in Nat, NEW f \in Vectors(n), \A k \in 1 .. n : f[k] = Zero
    PROVE  SumOf(f, n) = Zero
<1> DEFINE s == Sums(f, n)
           T == {k \in 0 .. n : s[k] = Zero}
<1>1. /\ s[0] = Zero /\ \A k \in 1 .. n : s[k] = Add(s[k - 1], f[k])
      /\ SumOf(f, n) = s[n]
  BY SumsDef DEF Vectors
<1> HIDE DEF s
<1>2. 0 \in T
  BY <1>1
<1>3. Add(Zero, Zero) = Zero
  BY EntryOperations, FieldAxioms, FieldClosed
<1>4. \A k \in 1 .. n : k - 1 \in T => k \in T
  BY <1>1, <1>3
<1> HIDE DEF T
<1>5. n \in T
  BY <1>2, <1>4, CountUp
<1>6. QED
  BY <1>1, <1>5 DEF T

\* A single summand.
LEMMA SumSingle ==
    ASSUME NEW n \in Nat, NEW f \in Vectors(n), NEW i \in 1 .. n,
           \A k \in 1 .. n : k # i => f[k] = Zero
    PROVE  SumOf(f, n) = f[i]
<1> DEFINE s == Sums(f, n)
           T == {k \in 0 .. n : s[k] = IF k < i THEN Zero ELSE f[i]}
<1>1. /\ s[0] = Zero /\ \A k \in 1 .. n : s[k] = Add(s[k - 1], f[k])
      /\ SumOf(f, n) = s[n]
  BY SumsDef DEF Vectors
<1> HIDE DEF s
<1>2. 0 \in T
  BY <1>1
<1>3. \A u \in Field : Add(Zero, u) = u /\ Add(u, Zero) = u
  BY EntryOperations, FieldAxioms, FieldClosed
<1>4. ASSUME NEW k \in 1 .. n, k - 1 \in T PROVE k \in T
  <2>1. f[i] \in Field /\ Zero \in Field
    BY FieldClosed DEF Vectors
  <2>2. CASE k < i
    BY <1>1, <1>3, <1>4, <2>1, <2>2
  <2>3. CASE k = i
    BY <1>1, <1>3, <1>4, <2>1, <2>3
  <2>4. CASE k > i
    BY <1>1, <1>3, <1>4, <2>1, <2>4
  <2>5. QED
    BY <2>2, <2>3, <2>4
<1> HIDE DEF T
<1>5. n \in T
  BY <1>2, <1>4, CountUp
<1>6. QED
  BY <1>1, <1>5 DEF T

\* The sum of sums is the sum of the summands' sums.
LEMMA SumPlus ==
    ASSUME NEW n \in Nat, NEW f \in Vectors(n), NEW g \in Vectors(n), NEW h \in Vectors(n),
           \A k \in 1 .. n : h[k] = Plus(f[k], g[k])
    PROVE  SumOf(h, n) = Plus(SumOf(f, n), SumOf(g, n))
<1> DEFINE s == Sums(f, n)
           t == Sums(g, n)
           u == Sums(h, n)
           T == {k \in 0 .. n : u[k] = Plus(s[k], t[k])}
<1>1. /\ s[0] = Zero /\ \A k \in 1 .. n : s[k] = Add(s[k - 1], f[k])
      /\ SumOf(f, n) = s[n] /\ s \in [0 .. n -> Field]
  BY SumsDef DEF Vectors
<1>2. /\ t[0] = Zero /\ \A k \in 1 .. n : t[k] = Add(t[k - 1], g[k])
      /\ SumOf(g, n) = t[n] /\ t \in [0 .. n -> Field]
  BY SumsDef DEF Vectors
<1>3. /\ u[0] = Zero /\ \A k \in 1 .. n : u[k] = Add(u[k - 1], h[k])
      /\ SumOf(h, n) = u[n] /\ u \in [0 .. n -> Field]
  BY SumsDef DEF Vectors
<1> HIDE DEF s, t, u
<1>4. 0 \in T
  BY <1>1, <1>2, <1>3, FieldAxioms, FieldClosed
<1>5. ASSUME NEW k \in 1 .. n, k - 1 \in T PROVE k \in T
  <2>1. /\ k - 1 \in 0 .. n /\ s[k - 1] \in Field /\ t[k - 1] \in Field /\ u[k - 1] \in Field
        /\ f[k] \in Field /\ g[k] \in Field /\ h[k] \in Field
    BY <1>1, <1>2, <1>3 DEF Vectors
  <2>2. u[k] = Plus(Plus(s[k - 1], t[k - 1]), Plus(f[k], g[k]))
    BY <1>3, <1>5, <2>1, EntryOperations
  <2>3. u[k] = Plus(Plus(s[k - 1], f[k]), Plus(t[k - 1], g[k]))
    BY <2>1, <2>2, Interchange
  <2>4. s[k] = Plus(s[k - 1], f[k]) /\ t[k] = Plus(t[k - 1], g[k])
    BY <1>1, <1>2, <2>1, EntryOperations
  <2>5. QED
    BY <2>3, <2>4
<1> HIDE DEF T
<1>6. n \in T
  BY <1>4, <1>5, CountUp
<1>7. QED
  BY <1>1, <1>2, <1>3, <1>6 DEF T

\* A common factor is taken out of a sum.
LEMMA SumScale ==
    ASSUME NEW n \in Nat, NEW a \in Field, NEW f \in Vectors(n), NEW h \in Vectors(n),
           \A k \in 1 .. n : h[k] = Mult(a, f[k])
    PROVE  SumOf(h, n) = Mult(a, SumOf(f, n))
<1> DEFINE s == Sums(f, n)
           u == Sums(h, n)
           T == {k \in 0 .. n : u[k] = Mult(a, s[k])}
<1>1. /\ s[0] = Zero /\ \A k \in 1 .. n : s[k] = Add(s[k - 1], f[k])
      /\ SumOf(f, n) = s[n] /\ s \in [0 .. n -> Field]
  BY SumsDef DEF Vectors
<1>2. /\ u[0] = Zero /\ \A k \in 1 .. n : u[k] = Add(u[k - 1], h[k])
      /\ SumOf(h, n) = u[n] /\ u \in [0 .. n -> Field]
  BY SumsDef DEF Vectors
<1> HIDE DEF s, u
<1>3. 0 \in T
  BY <1>1, <1>2, TimesZero
<1>4. ASSUME NEW k \in 1 .. n, k - 1 \in T PROVE k \in T
  <2>1. /\ k - 1 \in 0 .. n /\ s[k - 1] \in Field /\ u[k - 1] \in Field
        /\ f[k] \in Field /\ h[k] \in Field
    BY <1>1, <1>2 DEF Vectors
  <2>2. u[k] = Plus(Mult(a, s[k - 1]), Mult(a, f[k]))
    BY <1>2, <1>4, <2>1, EntryOperations
  <2>3. Plus(Mult(a, s[k - 1]), Mult(a, f[k])) = Mult(a, Plus(s[k - 1], f[k]))
    BY <2>1, FieldAxioms
  <2>4. s[k] = Plus(s[k - 1], f[k])
    BY <1>1, <2>1, EntryOperations
  <2>5. QED
    BY <2>2, <2>3, <2>4
<1> HIDE DEF T
<1>5. n \in T
  BY <1>3, <1>4, CountUp
<1>6. QED
  BY <1>1, <1>2, <1>5 DEF T

\* Rows and entries of a matrix.
LEMMA MatrixEntries ==
    ASSUME NEW n, NEW C \in Matrices(n), NEW r \in 1 .. n
    PROVE  C[r] \in Vectors(n) /\ \A c \in 1 .. n : C[r][c] \in Field
<1>1. C[r] \in [1 .. n -> Field]
  BY DEF Matrices
<1>2. QED
  BY <1>1 DEF Vectors

\* The order of two sums doesn't matter.
LEMMA SumInterchange ==
    ASSUME NEW n \in Nat, NEW F \in Matrices(n), NEW R \in Vectors(n), NEW C \in Vectors(n),
           NEW column \in [1 .. n -> Vectors(n)],
           \A r, c \in 1 .. n : column[c][r] = F[r][c],
           \A r \in 1 .. n : R[r] = SumOf(F[r], n),
           \A c \in 1 .. n : C[c] = SumOf(column[c], n)
    PROVE  SumOf(R, n) = SumOf(C, n)
<1> DEFINE s == Sums(R, n)
           P == [k \in 0 .. n |-> [c \in 1 .. n |-> Sums(column[c], n)[k]]]
           T == {k \in 0 .. n : s[k] = SumOf(P[k], n)}
<1>1. /\ s[0] = Zero /\ \A k \in 1 .. n : s[k] = Add(s[k - 1], R[k])
      /\ SumOf(R, n) = s[n] /\ s \in [0 .. n -> Field]
  BY SumsDef DEF Vectors
<1>2. ASSUME NEW c \in 1 .. n
      PROVE  /\ \A k \in 0 .. n : P[k][c] \in Field
             /\ P[0][c] = Zero
             /\ \A k \in 1 .. n : P[k][c] = Add(P[k - 1][c], column[c][k])
             /\ P[n][c] = C[c]
  <2> DEFINE t == Sums(column[c], n)
  <2>1. column[c] \in [1 .. n -> Field]
    BY DEF Vectors
  <2>2. /\ t[0] = Zero /\ \A k \in 1 .. n : t[k] = Add(t[k - 1], column[c][k])
        /\ SumOf(column[c], n) = t[n] /\ t \in [0 .. n -> Field]
    BY <2>1, SumsDef
  <2>3. \A k \in 0 .. n : P[k][c] = t[k]
    OBVIOUS
  <2> HIDE DEF t, P
  <2>4. QED
    BY <2>2, <2>3
<1>3. \A k \in 0 .. n : P[k] = [c \in 1 .. n |-> P[k][c]]
  OBVIOUS
<1> HIDE DEF s, P
<1>4. \A k \in 0 .. n : P[k] \in Vectors(n)
  BY <1>2, <1>3 DEF Vectors
<1>5. 0 \in T
  <2>1. SumOf(P[0], n) = Zero
    BY <1>2, <1>4, SumZero
  <2>2. QED
    BY <1>1, <2>1
<1>6. ASSUME NEW k \in 1 .. n, k - 1 \in T PROVE k \in T
  <2>1. k - 1 \in 0 .. n /\ k \in 0 .. n
    OBVIOUS
  <2>2. P[k - 1] \in Vectors(n) /\ P[k] \in Vectors(n) /\ F[k] \in Vectors(n)
    BY <1>4, <2>1 DEF Matrices, Vectors
  <2>3. \A c \in 1 .. n : P[k][c] = Plus(P[k - 1][c], F[k][c])
    BY <1>2, <2>2, EntryOperations DEF Vectors
  <2>4. SumOf(P[k], n) = Plus(SumOf(P[k - 1], n), SumOf(F[k], n))
    BY <2>2, <2>3, SumPlus
  <2>5. s[k] = Plus(s[k - 1], R[k])
    BY <1>1, <2>1, EntryOperations DEF Vectors
  <2>6. QED
    BY <1>6, <2>1, <2>4, <2>5
<1> HIDE DEF T
<1>7. n \in T
  BY <1>5, <1>6, CountUp
<1>8. P[n] = C
  <2>1. C = [c \in 1 .. n |-> C[c]]
    BY DEF Vectors
  <2>2. \A c \in 1 .. n : P[n][c] = C[c]
    BY <1>2
  <2>3. P[n] = [c \in 1 .. n |-> P[n][c]]
    BY <1>3
  <2> DEFINE Q == P[n]
  <2> HIDE DEF Q
  <2>4. Q = [c \in 1 .. n |-> Q[c]]
    BY <2>3 DEF Q
  <2>5. Q = C
    BY <2>1, <2>2, <2>4 DEF Q
  <2>6. QED
    BY <2>5 DEF Q
<1>9. QED
  BY <1>1, <1>7, <1>8 DEF T

-----------------------------------------------------------------------------
(* Triangular factors. *)

\* The products with a vector of row r of U, of L without its diagonal (of the columns
\* before m also with U times the vector), and of what is left of row r.
UpperTimes(C, r, X, n) ==
    SumOf([c \in 1 .. n |-> IF r <= c THEN Times(C[r][c], X[c]) ELSE Zero], n)
LowerTimes(C, r, y, n) ==
    SumOf([k \in 1 .. n |-> IF k < r THEN Times(C[r][k], y[k]) ELSE Zero], n)
LowerUpper(C, r, X, m, n) ==
    [k \in 1 .. n |-> IF k < r /\ k < m THEN Mult(C[r][k], UpperTimes(C, k, X, n)) ELSE Zero]
RestTimes(C, r, X, m, n) ==
    SumOf([c \in 1 .. n |-> IF c < r /\ c < m THEN Zero ELSE Times(C[r][c], X[c])], n)

\* The type of sums over the columns of a row, of which some count.
LEMMA RowType ==
    ASSUME NEW n \in Nat, NEW C \in Matrices(n), NEW X \in Vectors(n), NEW r \in 1 .. n
    PROVE  /\ \A c \in 1 .. n : Times(C[r][c], X[c]) = Mult(C[r][c], X[c]) /\ Times(C[r][c], X[c]) \in Field
           /\ RowTimes(C, r, X, n) \in Field
           /\ UpperTimes(C, r, X, n) \in Field
           /\ LowerTimes(C, r, X, n) \in Field
<1>1. \A c \in 1 .. n : Times(C[r][c], X[c]) = Mult(C[r][c], X[c]) /\ Times(C[r][c], X[c]) \in Field
  <2> TAKE c \in 1 .. n
  <2>1. C[r][c] \in Field /\ X[c] \in Field
    BY MatrixEntries DEF Vectors
  <2>2. QED
    BY <2>1, FieldTimes
<1>2. [c \in 1 .. n |-> Times(C[r][c], X[c])] \in [1 .. n -> Field]
  BY <1>1
<1>3. [c \in 1 .. n |-> IF r <= c THEN Times(C[r][c], X[c]) ELSE Zero] \in [1 .. n -> Field]
  BY <1>1, FieldClosed
<1>4. [c \in 1 .. n |-> IF c < r THEN Times(C[r][c], X[c]) ELSE Zero] \in [1 .. n -> Field]
  BY <1>1, FieldClosed
<1>5. \A f \in [1 .. n -> Field] : SumOf(f, n) \in Field
  BY SumsDef
<1>6. QED
  BY <1>1, <1>2, <1>3, <1>4, <1>5 DEF RowTimes, UpperTimes, LowerTimes

\* The diagonal, and what is right of it.
LEMMA UpperStep ==
    ASSUME NEW n \in Nat, NEW C \in Matrices(n), NEW X \in Vectors(n), NEW r \in 1 .. n
    PROVE  LET right == SumOf([c \in 1 .. n |-> IF c > r THEN Times(C[r][c], X[c]) ELSE Zero], n)
           IN  /\ right \in Field
               /\ UpperTimes(C, r, X, n) = Plus(Mult(C[r][r], X[r]), right)
<1> DEFINE f == [c \in 1 .. n |-> IF c = r THEN Times(C[r][c], X[c]) ELSE Zero]
           g == [c \in 1 .. n |-> IF c > r THEN Times(C[r][c], X[c]) ELSE Zero]
           h == [c \in 1 .. n |-> IF r <= c THEN Times(C[r][c], X[c]) ELSE Zero]
<1>1. \A c \in 1 .. n : Times(C[r][c], X[c]) \in Field
  BY RowType
<1>2. f \in Vectors(n) /\ g \in Vectors(n) /\ h \in Vectors(n)
  BY <1>1, FieldClosed DEF Vectors
<1>3. \A c \in 1 .. n : h[c] = Plus(f[c], g[c])
  <2> TAKE c \in 1 .. n
  <2>1. \A u \in Field : Plus(u, Zero) = u /\ Plus(Zero, u) = u
    BY FieldAxioms, FieldClosed
  <2>2. CASE c < r
    BY <2>1, <2>2, FieldClosed
  <2>3. CASE c = r
    BY <1>1, <2>1, <2>3
  <2>4. CASE c > r
    BY <1>1, <2>1, <2>4
  <2>5. QED
    BY <2>2, <2>3, <2>4
<1>4. f[r] = Mult(C[r][r], X[r]) /\ \A c \in 1 .. n : c # r => f[c] = Zero
  BY RowType
<1>5. UpperTimes(C, r, X, n) = SumOf(h, n)
  BY DEF UpperTimes
<1> HIDE DEF f, h
<1>6. SumOf(f, n) = f[r]
  BY <1>2, <1>4, SumSingle
<1> HIDE DEF g
<1>7. SumOf(h, n) = Plus(SumOf(f, n), SumOf(g, n))
  BY <1>2, <1>3, SumPlus
<1>8. SumOf(g, n) \in Field
  BY <1>2, SumsDef DEF Vectors
<1>9. QED
  BY <1>4, <1>5, <1>6, <1>7, <1>8 DEF g

\* What a factored matrix does with a vector.
LEMMA FactoredProduct ==
    ASSUME NEW n \in Nat, NEW M \in Matrices(n), NEW C \in Matrices(n), NEW f \in [1 .. n -> 1 .. n],
           NEW m \in Nat, Factored(M, f, C, m, n), NEW X \in Vectors(n), NEW r \in 1 .. n
    PROVE  /\ LowerUpper(C, r, X, m, n) \in Vectors(n)
           /\ RestTimes(C, r, X, m, n) \in Field
           /\ RowTimes(M, f[r], X, n)
                = Plus(SumOf(LowerUpper(C, r, X, m, n), n), RestTimes(C, r, X, m, n))
<1> DEFINE before(k) == k < r /\ k < m
           lower == [k \in 1 .. n |-> IF before(k) THEN Mult(C[r][k], UpperTimes(C, k, X, n)) ELSE Zero]
           rest  == [c \in 1 .. n |-> IF c < r /\ c < m THEN Zero ELSE Times(C[r][c], X[c])]
           row   == [c \in 1 .. n |-> Times(M[f[r]][c], X[c])]
           \* summands of one column of the matrix, without and with the vector
           G == [c \in 1 .. n |-> [k \in 1 .. n |-> IF k < r /\ k < m /\ k <= c THEN Times(C[r][k], C[k][c])
                                                    ELSE Zero]]
           F == [c \in 1 .. n |-> [k \in 1 .. n |-> Mult(X[c], G[c][k])]]
           H == [k \in 1 .. n |-> [c \in 1 .. n |-> F[c][k]]]
           up == [k \in 1 .. n |-> [c \in 1 .. n |-> IF k <= c THEN Times(C[k][c], X[c]) ELSE Zero]]
           S == [c \in 1 .. n |-> SumOf(F[c], n)]
<1>1. \A i, c \in 1 .. n : /\ C[i][c] \in Field /\ M[i][c] \in Field /\ X[c] \in Field
                           /\ f[i] \in 1 .. n
  BY MatrixEntries DEF Vectors
<1>2. \A c \in 1 .. n : G[c] \in Vectors(n) /\ F[c] \in Vectors(n)
  <2> TAKE c \in 1 .. n
  <2>1. \A k \in 1 .. n : Times(C[r][k], C[k][c]) \in Field
    BY <1>1, FieldTimes
  <2>2. G[c] \in [1 .. n -> Field]
    BY <2>1, FieldClosed
  <2> HIDE DEF G
  <2>3. \A k \in 1 .. n : Mult(X[c], G[c][k]) \in Field
    BY <1>1, <2>2, FieldTimes
  <2>4. F[c] \in [1 .. n -> Field]
    BY <2>3
  <2> HIDE DEF F
  <2>5. QED
    BY <2>2, <2>4 DEF Vectors
<1>3. \A k \in 1 .. n : up[k] \in Vectors(n) /\ SumOf(up[k], n) = UpperTimes(C, k, X, n)
                        /\ UpperTimes(C, k, X, n) \in Field
  <2> TAKE k \in 1 .. n
  <2>1. \A c \in 1 .. n : Times(C[k][c], X[c]) \in Field
    BY <1>1, FieldTimes
  <2>2. up[k] \in [1 .. n -> Field]
    BY <2>1, FieldClosed
  <2>3. SumOf(up[k], n) = UpperTimes(C, k, X, n)
    BY DEF UpperTimes
  <2>4. UpperTimes(C, k, X, n) \in Field
    BY RowType
  <2> HIDE DEF up
  <2>5. QED
    BY <2>2, <2>3, <2>4 DEF Vectors
<1>4. lower \in Vectors(n)
  <2>1. \A k \in 1 .. n : Mult(C[r][k], UpperTimes(C, k, X, n)) \in Field
    BY <1>1, <1>3, FieldTimes
  <2>2. QED
    BY <2>1, FieldClosed DEF Vectors
<1>5. rest \in Vectors(n) /\ SumOf(rest, n) = RestTimes(C, r, X, m, n)
  <2>1. \A c \in 1 .. n : Times(C[r][c], X[c]) \in Field
    BY <1>1, FieldTimes
  <2>2. rest \in [1 .. n -> Field]
    BY <2>1, FieldClosed
  <2>3. QED
    BY <2>2 DEF Vectors, RestTimes
<1>6. row \in Vectors(n) /\ SumOf(row, n) = RowTimes(M, f[r], X, n)
  <2>1. \A c \in 1 .. n : Times(M[f[r]][c], X[c]) \in Field
    BY <1>1, FieldTimes
  <2>2. row \in [1 .. n -> Field]
    BY <2>1
  <2>3. QED
    BY <2>2 DEF Vectors, RowTimes
<1>7. \A c \in 1 .. n : S[c] = Mult(X[c], SumOf(G[c], n)) /\ S[c] \in Field
  <2> TAKE c \in 1 .. n
  <2>1. \A k \in 1 .. n : F[c][k] = Mult(X[c], G[c][k])
    OBVIOUS
  <2>2. S[c] = SumOf(F[c], n)
    OBVIOUS
  <2> HIDE DEF F, G, S
  <2>3. SumOf(F[c], n) = Mult(X[c], SumOf(G[c], n))
    <3>1. X[c] \in Field
      BY <1>1
    <3>2. F[c] \in Vectors(n) /\ G[c] \in Vectors(n)
      BY <1>2
    <3>3. QED
      BY <2>1, <3>1, <3>2, SumScale
  <2>4. SumOf(F[c], n) \in Field
    BY <1>2, SumsDef DEF Vectors
  <2>5. QED
    BY <2>2, <2>3, <2>4
<1>8. \A c \in 1 .. n : row[c] = Plus(S[c], rest[c])
  <2> TAKE c \in 1 .. n
  <2> DEFINE g == SumOf(G[c], n)
             t == IF c < r /\ c < m THEN Zero ELSE C[r][c]
  <2>1. M[f[r]][c] = Add(g, t)
    BY DEF Factored
  <2>2. row[c] = Times(M[f[r]][c], X[c])
    OBVIOUS
  <2>3. g \in Field
    BY <1>2, SumsDef DEF Vectors
  <2>4. t \in Field
    BY <1>1, FieldClosed
  <2>5. rest[c] = Mult(X[c], t)
    <3>1. CASE c < r /\ c < m
      BY <1>1, <3>1, TimesZero
    <3>2. CASE ~(c < r /\ c < m)
      <4>1. Times(C[r][c], X[c]) = Mult(C[r][c], X[c])
        BY <1>1, FieldTimes
      <4>2. Mult(C[r][c], X[c]) = Mult(X[c], C[r][c])
        BY <1>1, FieldAxioms
      <4>3. QED
        BY <3>2, <4>1, <4>2
    <3>3. QED
      BY <3>1, <3>2
  <2> HIDE DEF g, t, row, rest, S
  <2>6. Times(M[f[r]][c], X[c]) = Mult(Plus(g, t), X[c])
    BY <1>1, <2>1, <2>3, <2>4, FieldTimes, FieldPlus
  <2>7. Mult(Plus(g, t), X[c]) = Mult(X[c], Plus(g, t))
    BY <1>1, <2>3, <2>4, FieldAxioms, FieldPlus
  <2>8. Mult(X[c], Plus(g, t)) = Plus(Mult(X[c], g), Mult(X[c], t))
    BY <1>1, <2>3, <2>4, FieldAxioms
  <2>9. S[c] = Mult(X[c], g)
    BY <1>7 DEF g
  <2>10. QED
    BY <2>2, <2>5, <2>6, <2>7, <2>8, <2>9
<1>9. S \in Vectors(n)
  <2> HIDE DEF F
  <2>1. S \in [1 .. n -> Field]
    BY <1>7
  <2>2. QED
    BY <2>1 DEF Vectors
<1>10. SumOf(row, n) = Plus(SumOf(S, n), SumOf(rest, n))
  <2> HIDE DEF row, S, rest
  <2>1. QED
    BY <1>5, <1>6, <1>8, <1>9, SumPlus
<1>11. F \in Matrices(n)
  <2>1. F = [c \in 1 .. n |-> F[c]]
    OBVIOUS
  <2> HIDE DEF F
  <2>2. QED
    BY <1>2, <2>1 DEF Matrices, Vectors
<1>12. \A k \in 1 .. n : H[k] \in Vectors(n) /\ \A c \in 1 .. n : H[k][c] = F[c][k]
  <2> HIDE DEF F
  <2>1. \A c, k \in 1 .. n : F[c][k] \in Field
    BY <1>2 DEF Vectors
  <2>2. QED
    BY <2>1 DEF Vectors
<1>13. \A k \in 1 .. n : SumOf(H[k], n) = lower[k]
  <2> TAKE k \in 1 .. n
  <2>1. CASE before(k)
    <3>1. \A c \in 1 .. n : H[k][c] = Mult(C[r][k], up[k][c])
      <4> TAKE c \in 1 .. n
      <4>1. H[k][c] = Mult(X[c], G[c][k])
        OBVIOUS
      <4>2. CASE k <= c
        <5>1. G[c][k] = Times(C[r][k], C[k][c]) /\ up[k][c] = Times(C[k][c], X[c])
          BY <2>1, <4>2
        <5> DEFINE u == C[r][k]
                   v == C[k][c]
                   w == X[c]
        <5>2. u \in Field /\ v \in Field /\ w \in Field
          BY <1>1
        <5> HIDE DEF u, v, w
        <5>3. Mult(w, Times(u, v)) = Mult(Mult(u, v), w)
          BY <5>2, FieldAxioms, FieldTimes
        <5>4. Mult(u, Times(v, w)) = Mult(u, Mult(v, w))
          BY <5>2, FieldTimes
        <5>5. Mult(u, Mult(v, w)) = Mult(Mult(u, v), w)
          BY <5>2, FieldAxioms
        <5>6. Mult(w, Times(u, v)) = Mult(u, Times(v, w))
          BY <5>3, <5>4, <5>5
        <5> HIDE DEF H, G, up
        <5>7. QED
          BY <4>1, <5>1, <5>6 DEF u, v, w
      <4>3. CASE ~(k <= c)
        <5>1. G[c][k] = Zero /\ up[k][c] = Zero
          BY <4>3
        <5> HIDE DEF H, G, up
        <5>2. QED
          BY <1>1, <4>1, <5>1, TimesZero
      <4>4. QED
        BY <4>2, <4>3
    <3>2. lower[k] = Mult(C[r][k], UpperTimes(C, k, X, n))
      BY <2>1
    <3> HIDE DEF H, up, lower
    <3>3. SumOf(H[k], n) = Mult(C[r][k], SumOf(up[k], n))
      <4>1. C[r][k] \in Field /\ up[k] \in Vectors(n) /\ H[k] \in Vectors(n)
        BY <1>1, <1>3, <1>12
      <4>2. QED
        BY <3>1, <4>1, SumScale
    <3>4. QED
      BY <1>3, <3>2, <3>3
  <2>2. CASE ~before(k)
    <3>1. \A c \in 1 .. n : H[k][c] = Zero
      <4> TAKE c \in 1 .. n
      <4>1. H[k][c] = Mult(X[c], G[c][k]) /\ G[c][k] = Zero
        BY <2>2
      <4> HIDE DEF H, G
      <4>2. QED
        BY <1>1, <4>1, TimesZero
    <3>2. lower[k] = Zero
      BY <2>2
    <3> HIDE DEF H, lower
    <3>3. QED
      BY <1>12, <3>1, <3>2, SumZero
  <2>3. QED
    BY <2>1, <2>2
<1>14. SumOf(S, n) = SumOf(lower, n)
  <2>1. \A c \in 1 .. n : S[c] = SumOf(F[c], n)
    OBVIOUS
  <2>2. H = [k \in 1 .. n |-> H[k]]
    OBVIOUS
  <2> HIDE DEF S, F, H, lower
  <2>3. H \in [1 .. n -> Vectors(n)]
    BY <1>12, <2>2
  <2>4. QED
    BY <1>4, <1>9, <1>11, <1>12, <1>13, <2>1, <2>3, SumInterchange
<1>15. SumOf(rest, n) \in Field
  BY <1>5, SumsDef DEF Vectors
<1>16. LowerUpper(C, r, X, m, n) = lower
  BY DEF LowerUpper
<1> HIDE DEF lower, rest, row, S
<1>17. QED
  BY <1>4, <1>5, <1>6, <1>10, <1>14, <1>15, <1>16

\* Equations of a triangular matrix are solved from the last row before p upwards: a
\* vector with a one in p and zeros behind.
LEMMA KernelVector ==
    ASSUME NEW n \in Nat, NEW C \in Matrices(n), NEW p \in 1 .. n, NoZeroPivot(C, p)
    PROVE  \E X \in Vectors(n) : /\ X[p] = One
                                 /\ \A c \in 1 .. n : c > p => X[c] = Zero
                                 /\ \A k \in 1 .. n : k < p => UpperTimes(C, k, X, n) = Zero
<1> DEFINE Solves(X, d) == /\ X[p] = One
                           /\ \A c \in 1 .. n : c > p => X[c] = Zero
                           /\ \A k \in 1 .. n : p - d <= k /\ k < p => UpperTimes(C, k, X, n) = Zero
           T == {d \in 0 .. p - 1 : \E X \in Vectors(n) : Solves(X, d)}
<1>1. 0 \in T
  <2> DEFINE X == [c \in 1 .. n |-> IF c = p THEN One ELSE Zero]
  <2>1. X \in Vectors(n)
    BY FieldClosed DEF Vectors
  <2>2. Solves(X, 0)
    OBVIOUS
  <2>3. 0 \in 0 .. p - 1
    OBVIOUS
  <2> HIDE DEF X, Solves
  <2>4. QED
    BY <2>1, <2>2, <2>3
<1>2. ASSUME NEW d \in 1 .. p - 1, d - 1 \in T PROVE d \in T
  <2>1. PICK X \in Vectors(n) : Solves(X, d - 1)
    BY <1>2
  <2> DEFINE k == p - d
             right == SumOf([c \in 1 .. n |-> IF c > k THEN Times(C[k][c], X[c]) ELSE Zero], n)
             v == Over(Neg(right), C[k][k])
             Y == [X EXCEPT ![k] = v]
  <2>2. k \in 1 .. n /\ k < p
    OBVIOUS
  <2>3. right \in Field
    BY <2>2, UpperStep
  <2>4. C[k][k] \in Field /\ C[k][k] # Zero
    <3>1. k \in 1 .. p - 1
      OBVIOUS
    <3> HIDE DEF k
    <3>2. QED
      BY <2>2, <3>1, MatrixEntries DEF NoZeroPivot
  <2>5. v \in Field /\ Mult(C[k][k], v) = Neg(right)
    <3>1. Neg(right) \in Field
      BY <2>3, FieldClosed
    <3> HIDE DEF right
    <3>2. QED
      BY <2>4, <3>1, TimesOver
  <2>6. Y \in Vectors(n) /\ Y[k] = v /\ \A c \in 1 .. n : c # k => Y[c] = X[c]
    <3> HIDE DEF v, k
    <3>1. QED
      BY <2>2, <2>5 DEF Vectors
  <2>7. UpperTimes(C, k, Y, n) = Zero
    <3>1. [c \in 1 .. n |-> IF c > k THEN Times(C[k][c], Y[c]) ELSE Zero]
            = [c \in 1 .. n |-> IF c > k THEN Times(C[k][c], X[c]) ELSE Zero]
      <4> HIDE DEF Y, k
      <4>1. QED
        BY <2>2, <2>6
    <3> HIDE DEF Y, v, k
    <3>2. UpperTimes(C, k, Y, n) = Plus(Mult(C[k][k], Y[k]), right)
      BY <2>2, <2>6, <3>1, UpperStep
    <3> HIDE DEF right
    <3>3. UpperTimes(C, k, Y, n) = Plus(Neg(right), right)
      BY <2>5, <2>6, <3>2
    <3>4. Plus(Neg(right), right) = Zero
      BY <2>3, FieldAxioms, FieldClosed
    <3>5. QED
      BY <3>3, <3>4
  <2>8. ASSUME NEW i \in 1 .. n, p - d <= i, i < p
        PROVE  UpperTimes(C, i, Y, n) = Zero
    <3>1. CASE i = k
      BY <2>7, <3>1
    <3>2. CASE i # k
      <4>1. i > k /\ p - (d - 1) <= i
        BY <2>8, <3>2
      <4>2. UpperTimes(C, i, X, n) = Zero
        BY <2>1, <2>8, <4>1
      <4> HIDE DEF Y, v, k
      <4>3. [c \in 1 .. n |-> IF i <= c THEN Times(C[i][c], Y[c]) ELSE Zero]
              = [c \in 1 .. n |-> IF i <= c THEN Times(C[i][c], X[c]) ELSE Zero]
        <5>1. \A c \in 1 .. n : i <= c => Y[c] = X[c]
          BY <2>2, <2>6, <4>1
        <5>2. QED
          BY <5>1
      <4>4. QED
        BY <4>2, <4>3 DEF UpperTimes
    <3>3. QED
      BY <3>1, <3>2
  <2>9. Solves(Y, d)
    <3>1. Y[p] = One /\ \A c \in 1 .. n : c > p => Y[c] = Zero
      <4> HIDE DEF Y, v, k
      <4>1. QED
        BY <2>1, <2>2, <2>6
    <3> HIDE DEF Y, v, k
    <3>2. QED
      BY <2>8, <3>1
  <2>10. d \in 0 .. p - 1
    OBVIOUS
  <2> HIDE DEF Y, Solves
  <2>11. QED
    BY <2>6, <2>9, <2>10
<1>3. p - 1 \in Nat
  OBVIOUS
<1> HIDE DEF T
<1>4. p - 1 \in T
  BY <1>1, <1>2, <1>3, CountUp
<1>5. PICK X \in Vectors(n) : Solves(X, p - 1)
  BY <1>4 DEF T
<1>6. \A k \in 1 .. n : p - (p - 1) <= k
  OBVIOUS
<1>7. QED
  BY <1>5, <1>6

\* A permutation takes every value.
LEMMA OrdersOnto ==
    ASSUME NEW n \in Nat, NEW f \in Orders(n)
    PROVE  /\ f \in [1 .. n -> 1 .. n]
           /\ \A i \in 1 .. n : \E r \in 1 .. n : f[r] = i
<1>1. f \in [1 .. n -> 1 .. n] /\ \A r, s \in 1 .. n : f[r] = f[s] => r = s
  BY DEF Orders
<1>2. IsFiniteSet(1 .. n)
  BY FS_Interval
<1>3. f \in Injection(1 .. n, 1 .. n)
  BY <1>1 DEF Injection, IsInjective
<1>4. f \in Surjection(1 .. n, 1 .. n)
  BY <1>2, <1>3, FS_Injection
<1>5. QED
  BY <1>1, <1>4 DEF Surjection

NoPivot(C, p, n) == \A i \in 1 .. n : i >= p => C[i][p] = Zero

\* A column without pivot makes the matrix singular.
LEMMA NoPivotSingular ==
    ASSUME NEW n \in Nat, NEW M \in Matrices(n), NEW C \in Matrices(n), NEW f \in Orders(n),
           NEW p \in 1 .. n, Factored(M, f, C, p, n), NoZeroPivot(C, p), NoPivot(C, p, n)
    PROVE  IsSingular(M, n)
<1>1. PICK X \in Vectors(n) : /\ X[p] = One
                              /\ \A c \in 1 .. n : c > p => X[c] = Zero
                              /\ \A k \in 1 .. n : k < p => UpperTimes(C, k, X, n) = Zero
  BY KernelVector
<1>2. f \in [1 .. n -> 1 .. n] /\ \A i \in 1 .. n : \E r \in 1 .. n : f[r] = i
  BY OrdersOnto
<1>3. ASSUME NEW r \in 1 .. n PROVE RowTimes(M, f[r], X, n) = Zero
  <2> DEFINE lower == LowerUpper(C, r, X, p, n)
             rest == [c \in 1 .. n |-> IF c < r /\ c < p THEN Zero ELSE Times(C[r][c], X[c])]
  <2>1. \A c \in 1 .. n : C[r][c] \in Field /\ X[c] \in Field /\ Times(C[r][c], X[c]) = Mult(C[r][c], X[c])
    BY MatrixEntries, FieldTimes DEF Vectors
  <2>2. lower \in Vectors(n) /\ RowTimes(M, f[r], X, n) = Plus(SumOf(lower, n), RestTimes(C, r, X, p, n))
    <3>1. f \in [1 .. n -> 1 .. n]
      BY <1>2
    <3>2. p \in Nat
      OBVIOUS
    <3>3. lower \in Vectors(n)
      BY <3>1, <3>2, FactoredProduct
    <3>4. RowTimes(M, f[r], X, n) = Plus(SumOf(lower, n), RestTimes(C, r, X, p, n))
      BY <3>1, <3>2, FactoredProduct
    <3>5. QED
      BY <3>3, <3>4
  <2>3. \A k \in 1 .. n : lower[k] = Zero
    BY <1>1, <2>1, TimesZero DEF LowerUpper
  <2>4. SumOf(lower, n) = Zero
    <3> HIDE DEF lower
    <3>1. QED
      BY <2>2, <2>3, SumZero
  <2>5. RestTimes(C, r, X, p, n) = Zero
    <3>1. CASE r < p
      <4>1. rest = [c \in 1 .. n |-> IF r <= c THEN Times(C[r][c], X[c]) ELSE Zero]
        BY <3>1
      <4>2. RestTimes(C, r, X, p, n) = UpperTimes(C, r, X, n)
        BY <4>1 DEF RestTimes, UpperTimes
      <4>3. QED
        BY <1>1, <3>1, <4>2
    <3>2. CASE r >= p
      <4>1. \A c \in 1 .. n : rest[c] = Zero
        <5> TAKE c \in 1 .. n
        <5>1. CASE c < p
          BY <3>2, <5>1
        <5>2. CASE c = p
          <6>1. C[r][c] = Zero
            BY <3>2, <5>2 DEF NoPivot
          <6>2. QED
            BY <2>1, <5>2, <6>1, TimesZero
        <5>3. CASE c > p
          <6>1. X[c] = Zero
            BY <1>1, <5>3
          <6>2. QED
            BY <2>1, <5>3, <6>1, TimesZero
        <5>4. QED
          BY <5>1, <5>2, <5>3
      <4>2. rest \in Vectors(n)
        <5>1. rest = [c \in 1 .. n |-> rest[c]]
          OBVIOUS
        <5> HIDE DEF rest
        <5>2. QED
          BY <4>1, <5>1, FieldClosed DEF Vectors
      <4>3. RestTimes(C, r, X, p, n) = SumOf(rest, n)
        BY DEF RestTimes
      <4> HIDE DEF rest
      <4>4. QED
        BY <4>1, <4>2, <4>3, SumZero
    <3>3. QED
      BY <3>1, <3>2
  <2>6. Plus(Zero, Zero) = Zero
    BY FieldAxioms, FieldClosed
  <2>7. QED
    BY <2>2, <2>4, <2>5, <2>6
<1>4. \A i \in 1 .. n : RowTimes(M, i, X, n) = Zero
  BY <1>2, <1>3
<1>5. \E c \in 1 .. n : X[c] # Zero
  BY <1>1, FieldClosed
<1>6. QED
  BY <1>4, <1>5 DEF IsSingular

\* Complete factors: the product with a vector is L U X.
LEMMA CompleteProduct ==
    ASSUME NEW n \in Nat, NEW M \in Matrices(n), NEW C \in Matrices(n), NEW f \in Orders(n),
           Factored(M, f, C, n, n), NEW X \in Vectors(n), NEW y \in Vectors(n),
           \A r \in 1 .. n : UpperTimes(C, r, X, n) = y[r], NEW r \in 1 .. n
    PROVE  RowTimes(M, f[r], X, n) = Plus(LowerTimes(C, r, y, n), y[r])
<1> DEFINE lower == LowerUpper(C, r, X, n, n)
<1>1. f \in [1 .. n -> 1 .. n]
  BY OrdersOnto
<1>2. RowTimes(M, f[r], X, n) = Plus(SumOf(lower, n), RestTimes(C, r, X, n, n))
  BY <1>1, FactoredProduct
<1>3. lower = [k \in 1 .. n |-> IF k < r THEN Times(C[r][k], y[k]) ELSE Zero]
  <2>1. \A k \in 1 .. n : Times(C[r][k], y[k]) = Mult(C[r][k], y[k])
    BY MatrixEntries, FieldTimes DEF Vectors
  <2>2. QED
    BY <2>1 DEF LowerUpper
<1>4. SumOf(lower, n) = LowerTimes(C, r, y, n)
  BY <1>3 DEF LowerTimes
<1>5. [c \in 1 .. n |-> IF c < r /\ c < n THEN Zero ELSE Times(C[r][c], X[c])]
        = [c \in 1 .. n |-> IF r <= c THEN Times(C[r][c], X[c]) ELSE Zero]
  OBVIOUS
<1>6. RestTimes(C, r, X, n, n) = UpperTimes(C, r, X, n)
  BY <1>5 DEF RestTimes, UpperTimes
<1>7. QED
  BY <1>2, <1>4, <1>6

\* A matrix with complete factors and no zero on the diagonal isn't singular.
LEMMA PivotsRegular ==
    ASSUME NEW n \in Nat, NEW M \in Matrices(n), NEW C \in Matrices(n), NEW f \in Orders(n),
           Factored(M, f, C, n, n), NoZeroPivot(C, n + 1)
    PROVE  ~IsSingular(M, n)
<1> SUFFICES ASSUME NEW X \in Vectors(n), \A r \in 1 .. n : RowTimes(M, r, X, n) = Zero
             PROVE  \A c \in 1 .. n : X[c] = Zero
  BY DEF IsSingular
<1> DEFINE y == [r \in 1 .. n |-> UpperTimes(C, r, X, n)]
<1>1. y \in Vectors(n) /\ \A r \in 1 .. n : UpperTimes(C, r, X, n) = y[r]
  BY RowType DEF Vectors
<1> HIDE DEF y
<1>2. f \in [1 .. n -> 1 .. n]
  BY OrdersOnto
<1>3. \A r \in 1 .. n : Plus(LowerTimes(C, r, y, n), y[r]) = Zero
  BY <1>1, <1>2, CompleteProduct, SMTT(20)
\* L y = 0, from the first row downwards.
<1>4. \A r \in 1 .. n : y[r] = Zero
  <2> DEFINE T == {r \in Nat : r \in 1 .. n => y[r] = Zero}
  <2>1. ASSUME NEW r \in Nat, \A k \in Nat : k < r => k \in T PROVE r \in T
    <3> SUFFICES ASSUME r \in 1 .. n PROVE y[r] = Zero
      OBVIOUS
    <3> DEFINE g == [k \in 1 .. n |-> IF k < r THEN Times(C[r][k], y[k]) ELSE Zero]
    <3>1. \A k \in 1 .. n : k < r => y[k] = Zero
      BY <2>1
    <3>2. \A k \in 1 .. n : Times(C[r][k], Zero) = Zero
      <4>1. \A k \in 1 .. n : C[r][k] \in Field
        BY MatrixEntries
      <4>2. QED
        BY <4>1, FieldTimes, TimesZero, FieldClosed
    <3>3. \A k \in 1 .. n : g[k] = Zero
      BY <3>1, <3>2
    <3>4. g \in Vectors(n)
      <4>1. g = [k \in 1 .. n |-> g[k]]
        OBVIOUS
      <4> HIDE DEF g
      <4>2. QED
        BY <3>3, <4>1, FieldClosed DEF Vectors
    <3>5. LowerTimes(C, r, y, n) = SumOf(g, n)
      BY DEF LowerTimes
    <3> HIDE DEF g
    <3>6. LowerTimes(C, r, y, n) = Zero
      BY <3>3, <3>4, <3>5, SumZero
    <3>7. Plus(Zero, y[r]) = y[r]
      <4>1. y[r] \in Field
        BY <1>1 DEF Vectors
      <4>2. QED
        BY <4>1, FieldAxioms, FieldClosed
    <3>8. QED
      BY <1>3, <3>6, <3>7
  <2> HIDE DEF T
  <2>2. Nat \subseteq T
    BY <2>1, CompleteInduction
  <2>3. QED
    BY <2>2 DEF T
\* U X = 0, from the last row upwards.
<1> DEFINE T == {d \in 0 .. n : \A c \in 1 .. n : c > n - d => X[c] = Zero}
<1>5. 0 \in T
  OBVIOUS
<1>6. ASSUME NEW d \in 1 .. n, d - 1 \in T PROVE d \in T
  <2> DEFINE k == n - d + 1
             g == [c \in 1 .. n |-> IF c > k THEN Times(C[k][c], X[c]) ELSE Zero]
  <2>1. k \in 1 .. n /\ \A c \in 1 .. n : c > k => X[c] = Zero
    BY <1>6
  <2>2. \A c \in 1 .. n : c > n - d <=> c = k \/ c > k
    OBVIOUS
  <2> HIDE DEF k
  <2>3. \A c \in 1 .. n : Times(C[k][c], Zero) = Zero
    <3>1. \A c \in 1 .. n : C[k][c] \in Field
      BY <2>1, MatrixEntries
    <3>2. QED
      BY <3>1, FieldTimes, TimesZero, FieldClosed
  <2>4. \A c \in 1 .. n : g[c] = Zero
    BY <2>1, <2>3
  <2>5. g \in Vectors(n)
    <3>1. g = [c \in 1 .. n |-> g[c]]
      OBVIOUS
    <3> HIDE DEF g
    <3>2. QED
      BY <2>4, <3>1, FieldClosed DEF Vectors
  <2>6. SumOf(g, n) = Zero
    <3> HIDE DEF g
    <3>1. QED
      BY <2>4, <2>5, SumZero
  <2>7. UpperTimes(C, k, X, n) = Plus(Mult(C[k][k], X[k]), SumOf(g, n))
    BY <2>1, UpperStep
  <2> HIDE DEF g
  <2>8. C[k][k] \in Field /\ X[k] \in Field /\ C[k][k] # Zero
    <3>1. C[k][k] \in Field /\ X[k] \in Field
      BY <2>1, MatrixEntries DEF Vectors
    <3>2. k \in 1 .. (n + 1) - 1
      BY <2>1
    <3>3. QED
      BY <3>1, <3>2 DEF NoZeroPivot
  <2>9. Mult(C[k][k], X[k]) = Zero
    <3>1. Mult(C[k][k], X[k]) \in Field
      BY <2>8, FieldTimes
    <3>2. Plus(Mult(C[k][k], X[k]), Zero) = Mult(C[k][k], X[k])
      BY <3>1, FieldAxioms
    <3>3. UpperTimes(C, k, X, n) = Zero
      BY <1>1, <1>4, <2>1
    <3>4. QED
      BY <2>6, <2>7, <3>2, <3>3
  <2>10. X[k] = Zero
    BY <2>8, <2>9, NoZeroDivisors
  <2>11. QED
    BY <2>1, <2>2, <2>10
<1> HIDE DEF T
<1>7. n \in T
  BY <1>5, <1>6, CountUp
<1>8. QED
  BY <1>7 DEF T

-----------------------------------------------------------------------------
(* The elimination keeps the factors. *)

\* A summand that was zero is added to the sum.
LEMMA SumAddOne ==
    ASSUME NEW n \in Nat, NEW f \in Vectors(n), NEW h \in Vectors(n), NEW i \in 1 .. n,
           f[i] = Zero, \A k \in 1 .. n : k # i => h[k] = f[k]
    PROVE  SumOf(h, n) = Plus(SumOf(f, n), h[i])
<1> DEFINE g == [k \in 1 .. n |-> IF k = i THEN h[i] ELSE Zero]
<1>1. h[i] \in Field /\ \A k \in 1 .. n : f[k] \in Field /\ h[k] \in Field
  BY DEF Vectors
<1>2. g \in Vectors(n)
  BY <1>1, FieldClosed DEF Vectors
<1>3. \A k \in 1 .. n : h[k] = Plus(f[k], g[k])
  <2> TAKE k \in 1 .. n
  <2>1. \A u \in Field : Plus(u, Zero) = u /\ Plus(Zero, u) = u
    BY FieldAxioms, FieldClosed
  <2>2. CASE k = i
    BY <1>1, <2>1, <2>2
  <2>3. CASE k # i
    BY <1>1, <2>1, <2>3
  <2>4. QED
    BY <2>2, <2>3
<1>4. g[i] = h[i] /\ \A k \in 1 .. n : k # i => g[k] = Zero
  OBVIOUS
<1> HIDE DEF g
<1>5. SumOf(g, n) = g[i]
  BY <1>2, <1>4, SumSingle
<1>6. SumOf(h, n) = Plus(SumOf(f, n), SumOf(g, n))
  BY <1>2, <1>3, SumPlus
<1>7. QED
  BY <1>4, <1>5, <1>6

\* The sum in an entry of the product of the factors.
Summands(C, r, c, m, n) ==
    [k \in 1 .. n |-> IF k < r /\ k < m /\ k <= c THEN Times(C[r][k], C[k][c]) ELSE Zero]

\* The type of the summands and of their sum.
LEMMA SummandsType ==
    ASSUME NEW n \in Nat, NEW C \in Matrices(n), NEW r \in 1 .. n, NEW c \in 1 .. n, NEW m
    PROVE  Summands(C, r, c, m, n) \in Vectors(n) /\ SumOf(Summands(C, r, c, m, n), n) \in Field
<1>1. \A k \in 1 .. n : Times(C[r][k], C[k][c]) \in Field
  BY MatrixEntries, FieldTimes
<1>2. Summands(C, r, c, m, n) \in [1 .. n -> Field]
  BY <1>1, FieldClosed DEF Summands
<1>3. QED
  BY <1>2, SumsDef DEF Vectors

\* Factored, with the summands by name.
LEMMA FactoredDef ==
    ASSUME NEW n, NEW M, NEW f, NEW C, NEW m
    PROVE  Factored(M, f, C, m, n) <=>
             \A r, c \in 1 .. n :
                 M[f[r]][c] = Add(SumOf(Summands(C, r, c, m, n), n),
                                  IF c < r /\ c < m THEN Zero ELSE C[r][c])
BY DEF Factored, Summands

\* Before the first column nothing has been factored.
LEMMA FactoredInit ==
    ASSUME NEW n \in Nat, NEW M \in Matrices(n)
    PROVE  Factored(M, [r \in 1 .. n |-> r], M, 1, n)
<1> SUFFICES ASSUME NEW r \in 1 .. n, NEW c \in 1 .. n
             PROVE  M[r][c] = Add(SumOf(Summands(M, r, c, 1, n), n), M[r][c])
  BY FactoredDef
<1> DEFINE g == Summands(M, r, c, 1, n)
<1>1. \A k \in 1 .. n : g[k] = Zero
  BY DEF Summands
<1>2. g \in Vectors(n)
  BY SummandsType
<1> HIDE DEF g
<1>3. SumOf(g, n) = Zero
  BY <1>1, <1>2, SumZero
<1>4. M[r][c] \in Field
  BY MatrixEntries
<1>5. Add(Zero, M[r][c]) = M[r][c]
  BY <1>4, ZeroPlus
<1>6. QED
  BY <1>3, <1>5 DEF g

\* The index that a swap of m and i puts in the place of r.
Partner(r, m, i) == IF r = m THEN i ELSE IF r = i THEN m ELSE r

\* Swapping two rows that aren't finished swaps the rows of the product.
LEMMA FactoredSwap ==
    ASSUME NEW n \in Nat, NEW M, NEW C \in Matrices(n), NEW f \in [1 .. n -> 1 .. n],
           NEW m \in 1 .. n, NEW i \in 1 .. n, i >= m, Factored(M, f, C, m, n)
    PROVE  /\ Swapped(C, m, i) \in Matrices(n)
           /\ Factored(M, Swapped(f, m, i), Swapped(C, m, i), m, n)
<1> DEFINE D == Swapped(C, m, i)
           g == Swapped(f, m, i)
<1>1. D \in Matrices(n) /\ \A r \in 1 .. n : D[r] = C[Partner(r, m, i)]
  <2> DEFINE S == [1 .. n -> Field]
  <2>1. C \in [1 .. n -> S]
    BY DEF Matrices
  <2> HIDE DEF S, D
  <2>2. D \in [1 .. n -> S]
    BY <2>1 DEF D, Swapped
  <2>3. \A r \in 1 .. n : D[r] = C[Partner(r, m, i)]
    BY <2>1 DEF D, Swapped, Partner
  <2>4. QED
    BY <2>2, <2>3 DEF S, Matrices
<1>2. \A r \in 1 .. n : Partner(r, m, i) \in 1 .. n /\ g[r] = f[Partner(r, m, i)]
  <2> HIDE DEF g
  <2>1. \A r \in 1 .. n : g[r] = f[Partner(r, m, i)]
    BY DEF g, Swapped, Partner
  <2>2. QED
    BY <2>1 DEF Partner
<1> HIDE DEF D, g
<1>3. ASSUME NEW r \in 1 .. n, NEW c \in 1 .. n
      PROVE  M[g[r]][c] = Add(SumOf(Summands(D, r, c, m, n), n), IF c < r /\ c < m THEN Zero ELSE D[r][c])
  <2> DEFINE p == Partner(r, m, i)
  <2>1. p \in 1 .. n /\ D[r] = C[p] /\ g[r] = f[p]
    BY <1>1, <1>2
  <2>2. \A k \in 1 .. n : k < m => D[k] = C[k] /\ (k < r <=> k < p)
    <3>1. \A k \in 1 .. n : k < m => Partner(k, m, i) = k
      BY DEF Partner
    <3>2. \A k \in 1 .. n : k < m => D[k] = C[k]
      BY <1>1, <3>1
    <3>3. \A k \in 1 .. n : k < m => (k < r <=> k < p)
      BY DEF Partner
    <3>4. QED
      BY <3>2, <3>3
  <2> HIDE DEF p
  <2>3. Summands(D, r, c, m, n) = Summands(C, p, c, m, n)
    BY <2>1, <2>2 DEF Summands
  <2>4. M[f[p]][c] = Add(SumOf(Summands(C, p, c, m, n), n), IF c < p /\ c < m THEN Zero ELSE C[p][c])
    BY <2>1, FactoredDef
  <2>5. QED
    BY <2>1, <2>2, <2>3, <2>4
<1>4. Factored(M, g, D, m, n)
  BY <1>3, FactoredDef
<1>5. QED
  BY <1>1, <1>4 DEF D, g

\* Column m of C, and what is right of it and below its pivot, after the elimination.
Eliminated(C, D, m, n) ==
    \A i, k \in 1 .. n :
        D[i][k] = IF i <= m \/ k < m THEN C[i][k]
                  ELSE IF k = m THEN Over(C[i][m], C[m][m])
                  ELSE Minus(C[i][k], Times(Over(C[i][m], C[m][m]), C[m][k]))

\* What is subtracted from a row in a step of the elimination is one more summand of
\* the product of the factors.
LEMMA FactoredEliminate ==
    ASSUME NEW n \in Nat, NEW M, NEW C \in Matrices(n), NEW f, NEW m \in 1 .. n,
           NEW D \in Matrices(n), C[m][m] # Zero, Eliminated(C, D, m, n), Factored(M, f, C, m, n)
    PROVE  Factored(M, f, D, m + 1, n)
<1> SUFFICES ASSUME NEW r \in 1 .. n, NEW c \in 1 .. n
             PROVE  M[f[r]][c] = Add(SumOf(Summands(D, r, c, m + 1, n), n),
                                     IF c < r /\ c < m + 1 THEN Zero ELSE D[r][c])
  BY FactoredDef
<1> DEFINE g    == Summands(C, r, c, m, n)
           h    == Summands(D, r, c, m + 1, n)
           left == IF c < r /\ c < m THEN Zero ELSE C[r][c]
<1>1. M[f[r]][c] = Add(SumOf(g, n), left)
  BY FactoredDef
<1>2. CASE r <= m
  <2>1. \A k \in 1 .. n : D[r][k] = C[r][k] /\ (k < r => D[k][c] = C[k][c] /\ k < m /\ k < m + 1)
    BY <1>2 DEF Eliminated
  <2>2. h = g
    BY <2>1 DEF Summands
  <2>3. (IF c < r /\ c < m + 1 THEN Zero ELSE D[r][c]) = left
    BY <1>2, <2>1
  <2> HIDE DEF g, h, left
  <2>4. QED
    BY <1>1, <2>2, <2>3 DEF h
<1>3. CASE r > m
  <2> DEFINE q == Over(C[r][m], C[m][m])
             s == IF m <= c THEN Times(q, C[m][c]) ELSE Zero
             t == IF c <= m THEN Zero ELSE Minus(C[r][c], Times(q, C[m][c]))
  <2>1. C[r][m] \in Field /\ C[m][m] \in Field /\ C[m][c] \in Field /\ C[r][c] \in Field
    BY MatrixEntries
  <2>2. q \in Field /\ Mult(q, C[m][m]) = C[r][m]
    BY <2>1, TimesOver
  <2>3. Times(q, C[m][c]) = Mult(q, C[m][c]) /\ Times(q, C[m][c]) \in Field
    <3> HIDE DEF q
    <3>1. QED
      BY <2>1, <2>2, FieldTimes
  <2>4. D[r][m] = q /\ \A k \in 1 .. n : k < m => D[r][k] = C[r][k]
    BY <1>3 DEF Eliminated
  <2>5. \A k \in 1 .. n : k <= m => D[k][c] = C[k][c]
    BY DEF Eliminated
  <2>6. (IF c < r /\ c < m + 1 THEN Zero ELSE D[r][c]) = t
    BY <1>3 DEF Eliminated
  <2> HIDE DEF q
  <2>7. /\ h \in Vectors(n) /\ g \in Vectors(n) /\ g[m] = Zero /\ h[m] = s
        /\ \A k \in 1 .. n : k # m => h[k] = g[k]
    <3>1. h \in Vectors(n) /\ g \in Vectors(n)
      BY SummandsType
    <3>2. g[m] = Zero /\ h[m] = s
      BY <1>3, <2>4, <2>5 DEF Summands
    <3>3. ASSUME NEW k \in 1 .. n, k # m PROVE h[k] = g[k]
      <4>1. CASE k < m
        <5>1. D[r][k] = C[r][k] /\ D[k][c] = C[k][c] /\ k < m + 1
          BY <2>4, <2>5, <4>1
        <5>2. QED
          BY <4>1, <5>1 DEF Summands
      <4>2. CASE k > m
        <5>1. ~(k < m) /\ ~(k < m + 1)
          BY <4>2
        <5>2. QED
          BY <5>1 DEF Summands
      <4>3. QED
        BY <3>3, <4>1, <4>2
    <3>4. QED
      BY <3>1, <3>2, <3>3
  <2> HIDE DEF g, h
  <2>8. SumOf(h, n) = Plus(SumOf(g, n), s)
    BY <2>7, SumAddOne
  <2>9. s \in Field /\ t \in Field /\ left \in Field /\ Plus(s, t) = left
    <3>1. Plus(Zero, Zero) = Zero
      BY FieldAxioms, FieldClosed
    <3>2. CASE c < m
      BY <1>3, <3>1, <3>2, FieldClosed
    <3>3. CASE c = m
      <4>1. s = C[r][m] /\ t = Zero /\ left = C[r][m]
        BY <2>2, <2>3, <3>3
      <4> HIDE DEF s, t, left
      <4>2. QED
        BY <2>1, <4>1, FieldAxioms, FieldClosed
    <3>4. CASE c > m
      <4>1. s = Times(q, C[m][c]) /\ t = Minus(C[r][c], Times(q, C[m][c])) /\ left = C[r][c]
        BY <3>4
      <4> HIDE DEF s, t, left
      <4>2. QED
        BY <2>1, <2>3, <4>1, PlusMinus
    <3>5. QED
      BY <3>2, <3>3, <3>4
  <2>10. SumOf(g, n) \in Field
    BY SummandsType DEF g
  <2> HIDE DEF s, t, left
  <2>11. Add(SumOf(h, n), t) = Plus(Plus(SumOf(g, n), s), t)
    BY <2>8, <2>9, <2>10, FieldPlus
  <2>12. Plus(Plus(SumOf(g, n), s), t) = Plus(SumOf(g, n), Plus(s, t))
    BY <2>9, <2>10, FieldAxioms
  <2>13. Add(SumOf(g, n), left) = Plus(SumOf(g, n), left)
    BY <2>9, <2>10, FieldPlus
  <2>14. QED
    BY <1>1, <2>6, <2>9, <2>11, <2>12, <2>13 DEF h
<1>4. QED
  BY <1>2, <1>3

-----------------------------------------------------------------------------
(* Permutations: a swap changes the parity. *)

\* A bijection preserves the cardinality.
LEMMA SameCardinality ==
    ASSUME NEW S, IsFiniteSet(S), NEW T, NEW h \in [S -> T],
           \A x, y \in S : h[x] = h[y] => x = y, \A t \in T : \E x \in S : h[x] = t
    PROVE  IsFiniteSet(T) /\ Cardinality(T) = Cardinality(S)
<1>1. h \in Bijection(S, T)
  BY DEF Bijection, Injection, Surjection, IsInjective
<1>2. ExistsBijection(S, T)
  BY <1>1 DEF ExistsBijection
<1>3. QED
  BY <1>2, FS_Bijection

\* Sets of pairs of indices are finite.
LEMMA PairsFinite ==
    ASSUME NEW n \in Nat, NEW S, S \subseteq (1 .. n) \X (1 .. n)
    PROVE  IsFiniteSet(S) /\ Cardinality(S) \in Nat
<1>1. IsFiniteSet(1 .. n)
  BY FS_Interval
<1>2. IsFiniteSet((1 .. n) \X (1 .. n))
  BY <1>1, FS_Product
<1>3. IsFiniteSet(S)
  BY <1>2, FS_Subset
<1>4. QED
  BY <1>3, FS_CardinalityType

\* A permutation of which two values are swapped is a permutation.
LEMMA SwapIsOrder ==
    ASSUME NEW n \in Nat, NEW f \in Orders(n), NEW m \in 1 .. n, NEW i \in 1 .. n
    PROVE  /\ Swapped(f, m, i) \in Orders(n)
           /\ \A r \in 1 .. n : Swapped(f, m, i)[r] = f[Partner(r, m, i)]
<1> DEFINE g == Swapped(f, m, i)
<1>1. f \in [1 .. n -> 1 .. n] /\ \A r, s \in 1 .. n : f[r] = f[s] => r = s
  BY DEF Orders
<1>2. g \in [1 .. n -> 1 .. n] /\ \A r \in 1 .. n : g[r] = f[Partner(r, m, i)]
  BY <1>1 DEF Swapped, Partner
<1>3. \A r \in 1 .. n : Partner(r, m, i) \in 1 .. n
  BY DEF Partner
<1>4. \A r, s \in 1 .. n : Partner(r, m, i) = Partner(s, m, i) => r = s
  BY DEF Partner
<1> HIDE DEF g
<1>5. \A r, s \in 1 .. n : g[r] = g[s] => r = s
  BY <1>1, <1>2, <1>3, <1>4
<1>6. QED
  BY <1>2, <1>5 DEF Orders, g

\* The pairs that a swap of m and i brings out of order: {m, i}, and either of them with
\* what is between them.
SwapInversions(m, i, n) ==
    {p \in (1 .. n) \X (1 .. n) : p[1] < p[2] /\ Partner(p[1], m, i) > Partner(p[2], m, i)}

\* A swap changes the order of an odd number of pairs: the two indices, and two pairs for
\* each index between them.
LEMMA SwapIsOdd ==
    ASSUME NEW n \in Nat, NEW m \in 1 .. n, NEW i \in 1 .. n, m < i
    PROVE  \E q \in Nat : Cardinality(SwapInversions(m, i, n)) = 2 * q + 1
<1> DEFINE K == SwapInversions(m, i, n)
           between == m + 1 .. i - 1
           L == {<<m, k>> : k \in between}
           R == {<<k, i>> : k \in between}
<1>1. between \subseteq 1 .. n /\ IsFiniteSet(between) /\ Cardinality(between) \in Nat
  BY FS_Interval, FS_CardinalityType
<1>2. K = {<<m, i>>} \cup (L \cup R)
  <2>1. ASSUME NEW p \in (1 .. n) \X (1 .. n)
        PROVE  p \in K <=> p \in {<<m, i>>} \cup (L \cup R)
    <3> DEFINE a == p[1]
               b == p[2]
    <3>1. p = <<a, b>> /\ a \in 1 .. n /\ b \in 1 .. n
      OBVIOUS
    <3> HIDE DEF a, b
    <3>2. p \in L <=> a = m /\ b \in between
      BY <3>1
    <3>3. p \in R <=> b = i /\ a \in between
      BY <3>1
    <3>4. p = <<m, i>> <=> a = m /\ b = i
      BY <3>1
    <3>5. p \in K <=> a < b /\ Partner(a, m, i) > Partner(b, m, i)
      BY <3>1 DEF a, b, SwapInversions
    <3>6. (a < b /\ Partner(a, m, i) > Partner(b, m, i)) <=>
            \/ a = m /\ b = i
            \/ a = m /\ m < b /\ b < i
            \/ b = i /\ m < a /\ a < i
      BY <3>1 DEF Partner
    <3>7. a \in between <=> m < a /\ a < i
      BY <3>1
    <3>8. b \in between <=> m < b /\ b < i
      BY <3>1
    <3> HIDE DEF between, L, R
    <3>9. QED
      BY <3>2, <3>3, <3>4, <3>5, <3>6, <3>7, <3>8
  <2>2. {<<m, i>>} \cup (L \cup R) \subseteq (1 .. n) \X (1 .. n)
    BY <1>1
  <2>3. K \subseteq (1 .. n) \X (1 .. n)
    BY DEF SwapInversions
  <2> HIDE DEF L, R, K
  <2>4. QED
    BY <2>1, <2>2, <2>3
<1>3. IsFiniteSet(L) /\ Cardinality(L) = Cardinality(between)
  <2> DEFINE h == [k \in between |-> <<m, k>>]
  <2>1. h \in [between -> L] /\ \A x, y \in between : h[x] = h[y] => x = y
    OBVIOUS
  <2>2. \A t \in L : \E x \in between : h[x] = t
    OBVIOUS
  <2> HIDE DEF h, L, between
  <2>3. QED
    BY <1>1, <2>1, <2>2, SameCardinality
<1>4. IsFiniteSet(R) /\ Cardinality(R) = Cardinality(between)
  <2> DEFINE h == [k \in between |-> <<k, i>>]
  <2>1. h \in [between -> R] /\ \A x, y \in between : h[x] = h[y] => x = y
    OBVIOUS
  <2>2. \A t \in R : \E x \in between : h[x] = t
    OBVIOUS
  <2> HIDE DEF h, R, between
  <2>3. QED
    BY <1>1, <2>1, <2>2, SameCardinality
<1>5. L \cap R = {} /\ <<m, i>> \notin L \cup R
  OBVIOUS
<1> HIDE DEF L, R, between
<1>6. IsFiniteSet(L \cup R) /\ Cardinality(L \cup R) = Cardinality(between) + Cardinality(between)
  <2>1. Cardinality({}) = 0
    BY FS_EmptySet
  <2>2. /\ IsFiniteSet(L \cup R)
        /\ Cardinality(L \cup R) = Cardinality(L) + Cardinality(R) - Cardinality(L \cap R)
    BY <1>3, <1>4, FS_Union
  <2>3. Cardinality(L \cap R) = 0
    BY <1>5, <2>1
  <2>4. QED
    BY <1>1, <1>3, <1>4, <2>2, <2>3
<1>7. Cardinality((L \cup R) \cup {<<m, i>>}) = Cardinality(L \cup R) + 1
  BY <1>5, <1>6, FS_AddElement
<1>8. K = (L \cup R) \cup {<<m, i>>}
  BY <1>2
<1>9. Cardinality(K) = 2 * Cardinality(between) + 1
  BY <1>1, <1>6, <1>7, <1>8
<1>10. QED
  BY <1>1, <1>9

\* A swap makes an even permutation odd and vice versa: it changes the order of an odd
\* number of pairs.
LEMMA SwapChangesParity ==
    ASSUME NEW n \in Nat, NEW f \in Orders(n), NEW m \in 1 .. n, NEW i \in 1 .. n, m < i
    PROVE  IsOdd(Swapped(f, m, i), n) <=> ~IsOdd(f, n)
<1> DEFINE N    == 1 .. n
           g    == Swapped(f, m, i)
           s(r) == Partner(r, m, i)
           P    == {p \in N \X N : p[1] < p[2]}
           K    == SwapInversions(m, i, n)
           h    == [p \in P |-> IF s(p[1]) < s(p[2]) THEN <<s(p[1]), s(p[2])>> ELSE <<s(p[2]), s(p[1])>>]
           F    == Inversions(f, n)
           G    == Inversions(g, n)
           Q    == {p \in P : h[p] \in F}
<1>1. f \in [N -> N] /\ \A r, q \in N : f[r] = f[q] => r = q
  BY DEF Orders
<1>2. \A r \in N : g[r] = f[s(r)]
  BY SwapIsOrder
<1>3. \A r \in N : s(r) \in N /\ s(s(r)) = r
  BY DEF Partner
<1>4. \A p \in P : p[1] \in N /\ p[2] \in N /\ p = <<p[1], p[2]>> /\ p[1] < p[2]
  OBVIOUS
<1>5. \A p \in P : s(p[1]) # s(p[2])
  BY <1>3, <1>4
<1>6. \A p \in P : h[p] \in P /\ h[h[p]] = p
  <2> SUFFICES ASSUME NEW p \in P PROVE h[p] \in P /\ h[h[p]] = p
    OBVIOUS
  <2> DEFINE a == p[1]
             b == p[2]
  <2>0. p = <<a, b>> /\ a \in N /\ b \in N /\ a < b
    BY <1>4
  <2> HIDE DEF a, b
  <2>1. <<a, b>> \in P
    BY <2>0
  <2>2. s(a) \in N /\ s(b) \in N /\ s(s(a)) = a /\ s(s(b)) = b /\ s(a) # s(b)
    BY <1>3, <2>0
  <2>3. CASE s(a) < s(b)
    <3>1. h[<<a, b>>] = <<s(a), s(b)>> /\ <<s(a), s(b)>> \in P
      BY <2>1, <2>2, <2>3
    <3>2. h[<<s(a), s(b)>>] = <<a, b>>
      BY <2>0, <2>2, <3>1
    <3>3. QED
      BY <2>0, <3>1, <3>2
  <2>4. CASE s(b) < s(a)
    <3>1. h[<<a, b>>] = <<s(b), s(a)>> /\ <<s(b), s(a)>> \in P
      BY <2>1, <2>2, <2>4
    <3>2. h[<<s(b), s(a)>>] = <<a, b>>
      BY <2>0, <2>2, <3>1
    <3>3. QED
      BY <2>0, <3>1, <3>2
  <2>5. s(a) < s(b) \/ s(b) < s(a)
    BY <2>2
  <2>6. QED
    BY <2>3, <2>4, <2>5
\* A pair is out of order after the swap if it was before, with the swap, or if the swap
\* brings it out of order, but not both.
<1>7. \A p \in P : p \in G <=> (p \in Q <=> p \notin K)
  <2> TAKE p \in P
  <2> DEFINE a == p[1]
             b == p[2]
  <2>1. a \in N /\ b \in N /\ p = <<a, b>> /\ a < b /\ s(a) # s(b) /\ s(a) \in N /\ s(b) \in N
    BY <1>3, <1>4, <1>5
  <2>2. p \in G <=> f[s(a)] > f[s(b)]
    BY <1>2, <2>1 DEF Inversions
  <2>3. p \in K <=> s(a) > s(b)
    BY <2>1 DEF SwapInversions
  <2>4. p \in Q <=> h[p] \in F
    OBVIOUS
  <2>5. h[p] = IF s(a) < s(b) THEN <<s(a), s(b)>> ELSE <<s(b), s(a)>>
    OBVIOUS
  <2>6. \A c, d \in N : <<c, d>> \in F <=> c < d /\ f[c] > f[d]
    BY DEF Inversions
  <2>7. f[s(a)] \in N /\ f[s(b)] \in N /\ f[s(a)] # f[s(b)]
    BY <1>1, <2>1
  <2>8. CASE s(a) < s(b)
    <3>1. h[p] \in F <=> f[s(a)] > f[s(b)]
      BY <2>1, <2>5, <2>6, <2>8
    <3>2. ~(s(a) > s(b))
      BY <2>1, <2>8
    <3>3. QED
      BY <2>2, <2>3, <2>4, <3>1, <3>2
  <2>9. CASE s(b) < s(a)
    <3>1. h[p] \in F <=> f[s(b)] > f[s(a)]
      BY <2>1, <2>5, <2>6, <2>9
    <3>2. f[s(b)] > f[s(a)] <=> ~(f[s(a)] > f[s(b)])
      BY <2>7
    <3>3. QED
      BY <2>2, <2>3, <2>4, <2>9, <3>1, <3>2
  <2>10. QED
    BY <2>1, <2>8, <2>9
<1>8. G \subseteq P /\ F \subseteq P /\ K \subseteq P /\ Q \subseteq P
  BY DEF Inversions, SwapInversions
<1>9. IsFiniteSet(Q) /\ Cardinality(Q) \in Nat /\ IsFiniteSet(F) /\ Cardinality(F) \in Nat
  <2>1. P \subseteq (1 .. n) \X (1 .. n)
    OBVIOUS
  <2> HIDE DEF P, F, Q
  <2>2. QED
    BY <1>8, <2>1, PairsFinite
<1>10. Cardinality(Q) = Cardinality(F)
  <2> DEFINE e == [p \in Q |-> h[p]]
  <2>1. e \in [Q -> F] /\ \A p \in Q : e[p] = h[p]
    OBVIOUS
  <2> HIDE DEF e, h, F
  <2>2. \A p, q \in Q : e[p] = e[q] => p = q
    <3> SUFFICES ASSUME NEW p \in Q, NEW q \in Q, e[p] = e[q] PROVE p = q
      OBVIOUS
    <3>1. h[p] = h[q] /\ p \in P /\ q \in P
      BY <2>1
    <3>2. QED
      BY <1>6, <3>1
  <2>3. \A t \in F : \E p \in Q : e[p] = t
    <3> SUFFICES ASSUME NEW t \in F PROVE \E p \in Q : e[p] = t
      OBVIOUS
    <3>1. t \in P /\ h[t] \in P /\ h[h[t]] = t
      BY <1>6, <1>8
    <3>2. h[t] \in Q
      BY <3>1
    <3>3. QED
      BY <2>1, <3>1, <3>2
  <2> HIDE DEF Q
  <2>4. QED
    BY <1>9, <2>1, <2>2, <2>3, SameCardinality
<1>11. PICK q \in Nat : Cardinality(K) = 2 * q + 1
  BY SwapIsOdd
<1>12. IsFiniteSet(K)
  BY PairsFinite DEF SwapInversions
<1>13. G = (Q \ K) \cup (K \ Q)
  <2> HIDE DEF G, Q, K
  <2>1. QED
    BY <1>7, <1>8
<1> HIDE DEF G, Q, K, F
<1>14. IsFiniteSet(Q \cap K) /\ Cardinality(Q \cap K) \in Nat /\ K \cap Q = Q \cap K
  BY <1>9, FS_Intersection, FS_CardinalityType
<1>15. /\ IsFiniteSet(Q \ K) /\ Cardinality(Q \ K) = Cardinality(Q) - Cardinality(Q \cap K)
       /\ IsFiniteSet(K \ Q) /\ Cardinality(K \ Q) = Cardinality(K) - Cardinality(Q \cap K)
  BY <1>9, <1>12, <1>14, FS_Difference, ZenonT(40)
<1>16. Cardinality(G) = Cardinality(Q \ K) + Cardinality(K \ Q)
  <2>1. Cardinality((Q \ K) \cap (K \ Q)) = 0
    <3>1. (Q \ K) \cap (K \ Q) = {}
      OBVIOUS
    <3>2. QED
      BY <3>1, FS_EmptySet
  <2>2. /\ Cardinality((Q \ K) \cup (K \ Q)) =
             Cardinality(Q \ K) + Cardinality(K \ Q) - Cardinality((Q \ K) \cap (K \ Q))
        /\ Cardinality(Q \ K) \in Nat /\ Cardinality(K \ Q) \in Nat
    BY <1>15, FS_Union, FS_CardinalityType
  <2>3. QED
    BY <1>13, <2>1, <2>2
<1>17. Cardinality(G) = Cardinality(F) + 1 + 2 * (q - Cardinality(Q \cap K))
  BY <1>9, <1>10, <1>11, <1>14, <1>15, <1>16
<1>18. Cardinality(G) % 2 = 1 <=> ~(Cardinality(F) % 2 = 1)
  BY <1>9, <1>14, <1>17
<1>19. QED
  BY <1>18 DEF IsOdd, F, G

\* The identity is an even permutation.
LEMMA IdentityOrder ==
    ASSUME NEW n \in Nat
    PROVE  [r \in 1 .. n |-> r] \in Orders(n) /\ ~IsOdd([r \in 1 .. n |-> r], n)
<1>1. [r \in 1 .. n |-> r] \in Orders(n)
  BY DEF Orders
<1>2. Inversions([r \in 1 .. n |-> r], n) = {}
  BY DEF Inversions
<1>3. Cardinality({}) = 0
  BY FS_EmptySet
<1>4. ~(0 % 2 = 1)
  OBVIOUS
<1>5. QED
  BY <1>1, <1>2, <1>3, <1>4 DEF IsOdd
=============================================================================
