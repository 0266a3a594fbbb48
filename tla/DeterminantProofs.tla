--------------------------- MODULE DeterminantProofs ---------------------------
(***************************************************************************)
(* Proof that determinant() computes the sum over all permutations that    *)
(* defines the determinant.  The sum changes its sign when rows are        *)
(* swapped, stays the same when a multiple of a row is added to another    *)
(* one, and is the product of the diagonal for a triangular matrix.        *)
(***************************************************************************)
EXTENDS GaussEliminationProofs

-----------------------------------------------------------------------------
(* Sums over finite sets. *)

\* One more summand.
LEMMA SumExtend ==
    ASSUME NEW n \in Nat, NEW h \in Vectors(n + 1), NEW f \in Vectors(n),
           \A k \in 1 .. n : f[k] = h[k]
    PROVE  SumOf(h, n + 1) = Plus(SumOf(f, n), h[n + 1])
<1> DEFINE s == Sums(f, n)
           t == Sums(h, n + 1)
           T == {k \in 0 .. n : s[k] = t[k]}
<1>1. /\ s[0] = Zero /\ \A k \in 1 .. n : s[k] = Add(s[k - 1], f[k])
      /\ SumOf(f, n) = s[n] /\ s \in [0 .. n -> Field]
  BY SumsDef DEF Vectors
<1>2. /\ t[0] = Zero /\ \A k \in 1 .. n + 1 : t[k] = Add(t[k - 1], h[k])
      /\ SumOf(h, n + 1) = t[n + 1]
  <2>1. n + 1 \in Nat /\ h \in [1 .. n + 1 -> Field]
    BY DEF Vectors
  <2>2. QED
    BY <2>1, SumsDef
<1> HIDE DEF s, t
<1>3. 0 \in T
  BY <1>1, <1>2
<1>4. \A k \in 1 .. n : k - 1 \in T => k \in T
  BY <1>1, <1>2
<1> HIDE DEF T
<1>5. n \in T
  BY <1>3, <1>4, CountUp
<1>6. t[n + 1] = Add(s[n], h[n + 1])
  <2>1. n + 1 \in 1 .. n + 1 /\ n + 1 - 1 = n
    OBVIOUS
  <2>2. QED
    BY <1>2, <1>5, <2>1 DEF T
<1>7. s[n] \in Field /\ h[n + 1] \in Field
  BY <1>1 DEF Vectors
<1>8. QED
  BY <1>1, <1>2, <1>6, <1>7, FieldPlus

\* The order of the summands doesn't matter.
LEMMA SumReorder ==
    ASSUME NEW n \in Nat, NEW f \in Vectors(n), NEW s \in Orders(n), NEW R \in Vectors(n),
           \A k \in 1 .. n : R[k] = f[s[k]]
    PROVE  SumOf(R, n) = SumOf(f, n)
<1> DEFINE F == [r \in 1 .. n |-> [c \in 1 .. n |-> IF s[r] = c THEN f[c] ELSE Zero]]
           G == [c \in 1 .. n |-> [r \in 1 .. n |-> IF s[r] = c THEN f[c] ELSE Zero]]
<1>1. /\ s \in [1 .. n -> 1 .. n]
      /\ \A i \in 1 .. n : \E r \in 1 .. n : s[r] = i
      /\ \A q, r \in 1 .. n : s[q] = s[r] => q = r
  BY OrdersOnto DEF Orders
<1>2. \A c \in 1 .. n : f[c] \in Field
  BY DEF Vectors
<1>3. F \in Matrices(n) /\ G \in [1 .. n -> Vectors(n)]
  BY <1>2, FieldClosed DEF Matrices, Vectors
<1>4. \A r, c \in 1 .. n : G[c][r] = F[r][c]
  OBVIOUS
<1>5. ASSUME NEW r \in 1 .. n PROVE R[r] = SumOf(F[r], n)
  <2>1. F[r] \in Vectors(n)
    BY <1>2, FieldClosed DEF Vectors
  <2>2. s[r] \in 1 .. n /\ F[r][s[r]] = f[s[r]] /\ \A k \in 1 .. n : k # s[r] => F[r][k] = Zero
    BY <1>1
  <2> HIDE DEF F
  <2>3. SumOf(F[r], n) = F[r][s[r]]
    BY <2>1, <2>2, SumSingle
  <2>4. QED
    BY <2>2, <2>3
<1>6. ASSUME NEW c \in 1 .. n PROVE f[c] = SumOf(G[c], n)
  <2>1. G[c] \in Vectors(n)
    BY <1>2, FieldClosed DEF Vectors
  <2>2. PICK r \in 1 .. n : s[r] = c
    BY <1>1
  <2>3. G[c][r] = f[c] /\ \A k \in 1 .. n : k # r => G[c][k] = Zero
    BY <1>1, <2>2
  <2> HIDE DEF G
  <2>4. SumOf(G[c], n) = G[c][r]
    BY <2>1, <2>3, SumSingle
  <2>5. QED
    BY <2>3, <2>4
<1> HIDE DEF F, G
<1>7. QED
  BY <1>3, <1>4, <1>5, <1>6, SumInterchange

\* What a fold over a set does with a subset.
Pick(s) == CHOOSE p \in s : TRUE
Folding(g, T) ==
    CHOOSE f : f = [s \in SUBSET T |-> IF s = {} THEN Zero ELSE Add(g[Pick(s)], f[s \ {Pick(s)}])]

LEMMA FoldingDef ==
    ASSUME NEW T, IsFiniteSet(T), NEW g \in [T -> Field]
    PROVE  /\ Total(g, T) = Folding(g, T)[T]
           /\ Folding(g, T) \in [SUBSET T -> Field]
           /\ Folding(g, T)[{}] = Zero
           /\ \A s \in SUBSET T : s # {} =>
                Folding(g, T)[s] = Plus(g[Pick(s)], Folding(g, T)[s \ {Pick(s)}])
<1> DEFINE D    == SUBSET T
           mu   == [s \in D |-> Cardinality(s)]
           leaf == {{}}
           base == [s \in D |-> Zero]
           prec == [s \in D |-> s \ {Pick(s)}]
           comb == [s \in D |-> [u \in Field |-> IF s = {} THEN Zero ELSE Add(g[Pick(s)], u)]]
           Body(f) == [s \in D |-> IF s = {} THEN Zero ELSE Add(g[Pick(s)], f[s \ {Pick(s)}])]
<1>1. \A s \in D : s # {} => Pick(s) \in s /\ Pick(s) \in T /\ g[Pick(s)] \in Field
  BY DEF Pick
<1>2. \A s \in D : IsFiniteSet(s) /\ Cardinality(s) \in Nat
  BY FS_Subset, FS_CardinalityType
<1>3. /\ mu \in [D -> Nat] /\ leaf \in SUBSET D
      /\ base \in [D -> Field] /\ prec \in [D -> D]
  BY <1>2, FieldClosed
<1>4. comb \in [D -> [Field -> Field]]
  BY <1>1, FieldPlus, FieldClosed
<1>5. \A s \in D \ leaf : mu[prec[s]] < mu[s]
  <2> SUFFICES ASSUME NEW s \in D, s # {} PROVE Cardinality(s \ {Pick(s)}) < Cardinality(s)
    OBVIOUS
  <2>1. Cardinality(s \ {Pick(s)}) = Cardinality(s) - 1
    BY <1>1, <1>2, FS_RemoveElement
  <2>2. QED
    BY <1>2, <2>1
<1>6. PICK h \in [D -> Field] : \A s \in D : Equation(h, s, leaf, base, prec, comb)
  <2> HIDE DEF D, mu, leaf, base, prec, comb
  <2>1. QED
    BY <1>3, <1>4, <1>5, RecursionExists
<1>7. h = Body(h)
  <2>1. \A s \in D : h[s] = IF s = {} THEN Zero ELSE Add(g[Pick(s)], h[s \ {Pick(s)}])
    BY <1>6 DEF Equation
  <2>2. QED
    BY <2>1
<1> DEFINE it == Folding(g, T)
<1>8. it = Body(it)
  <2>1. it = CHOOSE f : f = Body(f)
    BY DEF Folding
  <2> HIDE DEF Body, it
  <2>2. QED
    BY <1>7, <2>1
<1>9. Total(g, T) = it[T]
  BY DEF Total, FoldFunctionOnSet, MapThenFoldSet, Folding, Pick
<1> HIDE DEF it
<1>10. \A s \in D : it[s] = IF s = {} THEN Zero ELSE Add(g[Pick(s)], it[s \ {Pick(s)}])
  BY <1>8
<1> DEFINE U == {s \in D : it[s] \in Field}
<1>11. \A s \in D : (\A q \in D : mu[q] < mu[s] => q \in U) => s \in U
  <2> SUFFICES ASSUME NEW s \in D, \A q \in D : mu[q] < mu[s] => q \in U
               PROVE  it[s] \in Field
    OBVIOUS
  <2>1. CASE s = {}
    BY <1>10, <2>1, FieldClosed
  <2>2. CASE s # {}
    <3>1. s \ {Pick(s)} \in U
      BY <1>5, <2>2
    <3>2. QED
      BY <1>1, <1>10, <2>2, <3>1, FieldPlus
  <2>3. QED
    BY <2>1, <2>2
<1>12. D \subseteq U
  <2> HIDE DEF D, mu, U
  <2>1. QED
    BY <1>3, <1>11, MeasureInduction
<1>13. it \in [D -> Field]
  <2>1. it = [s \in D |-> it[s]]
    BY <1>8
  <2>2. QED
    BY <1>12, <2>1
<1>14. \A s \in D : s # {} => it[s] = Plus(g[Pick(s)], it[s \ {Pick(s)}])
  <2> SUFFICES ASSUME NEW s \in D, s # {} PROVE it[s] = Plus(g[Pick(s)], it[s \ {Pick(s)}])
    OBVIOUS
  <2>1. it[s \ {Pick(s)}] \in Field /\ g[Pick(s)] \in Field
    BY <1>1, <1>13
  <2>2. QED
    BY <1>10, <2>1, FieldPlus
<1>15. QED
  BY <1>9, <1>10, <1>13, <1>14 DEF it

Enumerates(e, N, T) ==
    /\ N \in Nat /\ e \in [1 .. N -> T]
    /\ \A k, l \in 1 .. N : e[k] = e[l] => k = l
    /\ \A p \in T : \E k \in 1 .. N : e[k] = p

\* The vector of the summands in the order of an enumeration.
Listed(g, e, N) == [k \in 1 .. N |-> g[e[k]]]

\* A sum over a set is the sum over an enumeration of the set.
LEMMA TotalEnumerated ==
    ASSUME NEW T, IsFiniteSet(T)
    PROVE  \E N, e : /\ Enumerates(e, N, T)
                     /\ \A g \in [T -> Field] : Total(g, T) = SumOf(Listed(g, e, N), N)
<1> DEFINE Summed(s) == \E N, e : /\ Enumerates(e, N, s)
                                  /\ \A g \in [T -> Field] : Folding(g, T)[s] = SumOf(Listed(g, e, N), N)
           D  == SUBSET T
           mu == [s \in D |-> Cardinality(s)]
           U  == {s \in D : Summed(s)}
<1>1. \A s \in D : IsFiniteSet(s) /\ Cardinality(s) \in Nat
  BY FS_Subset, FS_CardinalityType
<1>2. ASSUME NEW s \in D, \A q \in D : mu[q] < mu[s] => q \in U
      PROVE  s \in U
  <2>1. CASE s = {}
    <3>1. Enumerates(<<>>, 0, s)
      <4>1. <<>> \in [1 .. 0 -> s] /\ 1 .. 0 = {}
        OBVIOUS
      <4>2. QED
        BY <2>1, <4>1 DEF Enumerates
    <3>2. ASSUME NEW g \in [T -> Field] PROVE Folding(g, T)[s] = SumOf(Listed(g, <<>>, 0), 0)
      <4>1. Folding(g, T)[s] = Zero
        BY <2>1, FoldingDef
      <4>2. Listed(g, <<>>, 0) \in Vectors(0) /\ \A k \in 1 .. 0 : Listed(g, <<>>, 0)[k] = Zero
        BY DEF Listed, Vectors
      <4>3. QED
        BY <4>1, <4>2, SumZero
    <3>3. QED
      BY <3>1, <3>2
  <2>2. CASE s # {}
    <3> DEFINE p == Pick(s)
               q == s \ {p}
    <3>1. p \in s /\ p \in T
      BY <2>2 DEF Pick
    <3>2. Cardinality(q) < Cardinality(s) /\ q \in D
      <4>1. Cardinality(q) = Cardinality(s) - 1
        BY <1>1, <3>1, FS_RemoveElement
      <4>2. QED
        BY <1>1, <4>1
    <3>3. PICK N, e : /\ Enumerates(e, N, q)
                      /\ \A g \in [T -> Field] : Folding(g, T)[q] = SumOf(Listed(g, e, N), N)
      BY <1>2, <3>2
    <3> DEFINE d == [k \in 1 .. N + 1 |-> IF k = N + 1 THEN p ELSE e[k]]
    <3> HIDE DEF p
    <3>4. N \in Nat /\ e \in [1 .. N -> q]
      BY <3>3 DEF Enumerates
    <3>5. \A k \in 1 .. N + 1 : k = N + 1 \/ k \in 1 .. N
      BY <3>4
    <3>6. d[N + 1] = p /\ \A k \in 1 .. N : d[k] = e[k] /\ d[k] # p /\ d[k] \in s
      BY <3>4
    <3>7. Enumerates(d, N + 1, s)
      <4>1. N + 1 \in Nat /\ d \in [1 .. N + 1 -> s]
        BY <3>1, <3>4, <3>5, <3>6
      <4>2. ASSUME NEW k \in 1 .. N + 1, NEW l \in 1 .. N + 1, d[k] = d[l]
            PROVE  k = l
        <5> HIDE DEF d
        <5>1. QED
          BY <3>3, <3>5, <3>6, <4>2 DEF Enumerates
      <4>3. ASSUME NEW y \in s PROVE \E k \in 1 .. N + 1 : d[k] = y
        <5>1. CASE y = p
          BY <3>4, <3>6, <5>1
        <5>2. CASE y # p
          <6>1. PICK k \in 1 .. N : e[k] = y
            BY <3>3, <5>2 DEF Enumerates
          <6>2. k \in 1 .. N + 1
            BY <3>4
          <6>3. QED
            BY <3>6, <6>1, <6>2
        <5>3. QED
          BY <5>1, <5>2
      <4> HIDE DEF d
      <4>4. QED
        BY <4>1, <4>2, <4>3 DEF Enumerates
    <3>8. ASSUME NEW g \in [T -> Field] PROVE Folding(g, T)[s] = SumOf(Listed(g, d, N + 1), N + 1)
      <4>1. Folding(g, T)[s] = Plus(g[p], Folding(g, T)[q])
        <5>1. \A y \in SUBSET T : y # {} => Folding(g, T)[y] = Plus(g[Pick(y)], Folding(g, T)[y \ {Pick(y)}])
          BY FoldingDef
        <5>2. QED
          BY <2>2, <5>1 DEF p
      <4>2. Listed(g, e, N) \in Vectors(N)
        BY <3>4 DEF Listed, Vectors
      <4>3. Listed(g, d, N + 1) \in Vectors(N + 1)
        <5>1. \A k \in 1 .. N + 1 : d[k] \in T
          BY <3>1, <3>5, <3>6
        <5> HIDE DEF d
        <5>2. QED
          BY <5>1 DEF Listed, Vectors
      <4>4. \A k \in 1 .. N : Listed(g, e, N)[k] = Listed(g, d, N + 1)[k]
        BY <3>4, <3>6 DEF Listed
      <4>5. Listed(g, d, N + 1)[N + 1] = g[p]
        BY <3>4, <3>6 DEF Listed
      <4> HIDE DEF d
      <4>6. SumOf(Listed(g, d, N + 1), N + 1) = Plus(SumOf(Listed(g, e, N), N), g[p])
        BY <3>4, <4>2, <4>3, <4>4, <4>5, SumExtend
      <4>7. g[p] \in Field /\ Folding(g, T)[q] \in Field
        <5>1. Folding(g, T) \in [SUBSET T -> Field]
          BY FoldingDef
        <5>2. QED
          BY <3>1, <3>2, <5>1
      <4>8. QED
        BY <3>3, <4>1, <4>6, <4>7, FieldAxioms
    <3> HIDE DEF d, q
    <3>9. QED
      BY <3>7, <3>8
  <2>3. QED
    BY <2>1, <2>2
<1>3. mu \in [D -> Nat]
  BY <1>1
<1>4. D \subseteq U
  <2> HIDE DEF D, mu, U
  <2>1. QED
    BY <1>2, <1>3, MeasureInduction
<1>5. Summed(T)
  BY <1>4
<1>6. \A g \in [T -> Field] : Total(g, T) = Folding(g, T)[T]
  BY FoldingDef
<1>7. QED
  BY <1>5, <1>6

\* The sum of a function of a finite set is an element of the field.
LEMMA TotalType ==
    ASSUME NEW T, IsFiniteSet(T), NEW g \in [T -> Field]
    PROVE  Total(g, T) \in Field
<1>1. Total(g, T) = Folding(g, T)[T] /\ Folding(g, T) \in [SUBSET T -> Field]
  BY FoldingDef
<1>2. QED
  BY <1>1

\* The summands in the order of an enumeration.
LEMMA ListedType ==
    ASSUME NEW T, NEW e, NEW N, Enumerates(e, N, T), NEW g \in [T -> Field]
    PROVE  N \in Nat /\ Listed(g, e, N) \in Vectors(N) /\ \A k \in 1 .. N : Listed(g, e, N)[k] = g[e[k]] /\ e[k] \in T
BY DEF Enumerates, Listed, Vectors

\* The sum of sums is the sum of the summands' sums.
LEMMA TotalPlus ==
    ASSUME NEW T, IsFiniteSet(T),
           NEW f \in [T -> Field], NEW g \in [T -> Field], NEW h \in [T -> Field],
           \A p \in T : h[p] = Plus(f[p], g[p])
    PROVE  Total(h, T) = Plus(Total(f, T), Total(g, T))
<1>1. PICK N, e : /\ Enumerates(e, N, T)
                  /\ \A u \in [T -> Field] : Total(u, T) = SumOf(Listed(u, e, N), N)
  BY TotalEnumerated
<1>2. QED
  BY <1>1, ListedType, SumPlus

\* A common factor is taken out of a sum.
LEMMA TotalScale ==
    ASSUME NEW T, IsFiniteSet(T), NEW a \in Field,
           NEW f \in [T -> Field], NEW h \in [T -> Field],
           \A p \in T : h[p] = Mult(a, f[p])
    PROVE  Total(h, T) = Mult(a, Total(f, T))
<1>1. PICK N, e : /\ Enumerates(e, N, T)
                  /\ \A u \in [T -> Field] : Total(u, T) = SumOf(Listed(u, e, N), N)
  BY TotalEnumerated
<1>2. QED
  BY <1>1, ListedType, SumScale

\* A sum with one summand that isn't zero.
LEMMA TotalSingle ==
    ASSUME NEW T, IsFiniteSet(T), NEW f \in [T -> Field], NEW p \in T,
           \A q \in T : q # p => f[q] = Zero
    PROVE  Total(f, T) = f[p]
<1>1. PICK N, e : /\ Enumerates(e, N, T)
                  /\ \A u \in [T -> Field] : Total(u, T) = SumOf(Listed(u, e, N), N)
  BY TotalEnumerated
<1>2. PICK i \in 1 .. N : e[i] = p
  BY <1>1 DEF Enumerates
<1>3. \A k \in 1 .. N : k # i => e[k] # p
  BY <1>1, <1>2 DEF Enumerates
<1>4. QED
  BY <1>1, <1>2, <1>3, ListedType, SumSingle

\* Summing up along a bijection of the set yields the same.
LEMMA TotalReorder ==
    ASSUME NEW T, IsFiniteSet(T), NEW f \in [T -> Field], NEW h \in [T -> Field],
           NEW s \in [T -> T], \A p, q \in T : s[p] = s[q] => p = q,
           \A p \in T : h[p] = f[s[p]]
    PROVE  Total(h, T) = Total(f, T)
<1>1. PICK N, e : /\ Enumerates(e, N, T)
                  /\ \A u \in [T -> Field] : Total(u, T) = SumOf(Listed(u, e, N), N)
  BY TotalEnumerated
<1> DEFINE place == [k \in 1 .. N |-> CHOOSE i \in 1 .. N : e[i] = s[e[k]]]
<1>2. \A k \in 1 .. N : place[k] \in 1 .. N /\ e[place[k]] = s[e[k]]
  BY <1>1 DEF Enumerates
<1>3. place \in [1 .. N -> 1 .. N]
  BY <1>2
<1> HIDE DEF place
<1>4. \A k, l \in 1 .. N : place[k] = place[l] => k = l
  BY <1>1, <1>2 DEF Enumerates
<1>5. place \in Orders(N)
  BY <1>3, <1>4 DEF Orders
<1>6. \A k \in 1 .. N : Listed(h, e, N)[k] = Listed(f, e, N)[place[k]]
  BY <1>1, <1>2, ListedType
<1>7. N \in Nat /\ Listed(h, e, N) \in Vectors(N) /\ Listed(f, e, N) \in Vectors(N)
  BY <1>1, ListedType
<1>8. SumOf(Listed(h, e, N), N) = SumOf(Listed(f, e, N), N)
  BY <1>5, <1>6, <1>7, SumReorder
<1>9. QED
  BY <1>1, <1>8

-----------------------------------------------------------------------------
(* Products. *)

\* Products have their factors in any order: associativity and commutativity.
LEMMA ThreeFactors ==
    ASSUME NEW u \in Field, NEW v \in Field, NEW w \in Field
    PROVE  /\ Mult(Mult(u, v), w) = Mult(u, Mult(v, w))
           /\ Mult(Mult(u, v), w) = Mult(v, Mult(u, w))
           /\ Mult(u, Mult(v, w)) = Mult(v, Mult(u, w))
<1>1. Mult(Mult(u, v), w) = Mult(u, Mult(v, w)) /\ Mult(Mult(v, u), w) = Mult(v, Mult(u, w))
  BY FieldAxioms
<1>2. Mult(u, v) = Mult(v, u)
  BY FieldAxioms
<1>3. QED
  BY <1>1, <1>2

\* Products in the field.
LEMMA ProductFacts ==
    ASSUME NEW n \in Nat, NEW u \in Field, NEW f \in Vectors(n)
    PROVE  /\ Products(u, f, n) \in [0 .. n -> Field]
           /\ Products(u, f, n)[0] = u
           /\ \A k \in 1 .. n : Products(u, f, n)[k] = Times(Products(u, f, n)[k - 1], f[k])
           /\ ProductOf(u, f, n) = Products(u, f, n)[n]
           /\ ProductOf(u, f, n) \in Field
<1>1. f \in [1 .. n -> Field] /\ Field \in {Field, Entry}
  BY DEF Vectors
<1> DEFINE S == Field
<1> HIDE DEF S
<1>2. S \in {Field, Entry} /\ u \in S /\ f \in [1 .. n -> S]
  BY <1>1 DEF S
<1>3. Products(u, f, n) \in [0 .. n -> S]
  BY <1>2, ProductsDef
<1>4. Products(u, f, n)[0] = u
  BY <1>2, ProductsDef
<1>5. ProductOf(u, f, n) = Products(u, f, n)[n] /\ ProductOf(u, f, n) \in S
  BY <1>2, ProductsDef
<1>6. \A k \in 1 .. n : Products(u, f, n)[k] = Times(Products(u, f, n)[k - 1], f[k])
  BY <1>2, ProductsDef
<1>7. QED
  BY <1>3, <1>4, <1>5, <1>6 DEF S

\* The last factor of a product that may have become Undefined.
LEMMA LastFactor ==
    ASSUME NEW n \in Nat, n \in 1 .. n, NEW u \in Entry, NEW f \in [1 .. n -> Entry]
    PROVE  ProductOf(u, f, n) = Times(Products(u, f, n)[n - 1], f[n])
<1> DEFINE S == Entry
<1> HIDE DEF S
<1>1. S \in {Field, Entry} /\ u \in S /\ f \in [1 .. n -> S]
  BY DEF S
<1>2. \A k \in 1 .. n : Products(u, f, n)[k] = Times(Products(u, f, n)[k - 1], f[k])
  BY <1>1, ProductsDef
<1>3. ProductOf(u, f, n) = Products(u, f, n)[n]
  BY <1>1, ProductsDef
<1>4. QED
  BY <1>2, <1>3

\* The first factor is taken out.
LEMMA ProductScale ==
    ASSUME NEW n \in Nat, NEW u \in Field, NEW f \in Vectors(n)
    PROVE  ProductOf(u, f, n) = Mult(u, ProductOf(One, f, n))
<1> DEFINE p == Products(u, f, n)
           q == Products(One, f, n)
           T == {k \in 0 .. n : p[k] = Mult(u, q[k])}
<1>1. /\ p[0] = u /\ \A k \in 1 .. n : p[k] = Times(p[k - 1], f[k])
      /\ ProductOf(u, f, n) = p[n]
  BY ProductFacts
<1>2. /\ q[0] = One /\ \A k \in 1 .. n : q[k] = Times(q[k - 1], f[k])
      /\ ProductOf(One, f, n) = q[n] /\ q \in [0 .. n -> Field]
  BY ProductFacts, FieldClosed
<1> HIDE DEF p, q
<1>3. 0 \in T
  BY <1>1, <1>2, FieldAxioms
<1>4. ASSUME NEW k \in 1 .. n, k - 1 \in T PROVE k \in T
  <2>1. q[k - 1] \in Field /\ f[k] \in Field
    BY <1>2 DEF Vectors
  <2>2. p[k] = Mult(Mult(u, q[k - 1]), f[k]) /\ q[k] = Mult(q[k - 1], f[k])
    BY <1>1, <1>2, <1>4, <2>1, FieldTimes
  <2>3. QED
    BY <2>1, <2>2, ThreeFactors
<1> HIDE DEF T
<1>5. n \in T
  BY <1>3, <1>4, CountUp
<1>6. QED
  BY <1>1, <1>2, <1>5 DEF T

\* Any other factor is taken out.
LEMMA ProductTake ==
    ASSUME NEW n \in Nat, NEW u \in Field, NEW f \in Vectors(n), NEW g \in Vectors(n), NEW m \in 1 .. n,
           g[m] = One, \A k \in 1 .. n : k # m => g[k] = f[k]
    PROVE  ProductOf(u, f, n) = Mult(f[m], ProductOf(u, g, n))
<1> DEFINE p == Products(u, f, n)
           q == Products(u, g, n)
           T == {k \in 0 .. n : p[k] = IF k < m THEN q[k] ELSE Mult(f[m], q[k])}
<1>1. /\ p[0] = u /\ \A k \in 1 .. n : p[k] = Times(p[k - 1], f[k])
      /\ ProductOf(u, f, n) = p[n]
  BY ProductFacts
<1>2. /\ q[0] = u /\ \A k \in 1 .. n : q[k] = Times(q[k - 1], g[k])
      /\ ProductOf(u, g, n) = q[n] /\ q \in [0 .. n -> Field]
  BY ProductFacts
<1> HIDE DEF p, q
<1>3. 0 \in T
  BY <1>1, <1>2
<1>4. ASSUME NEW k \in 1 .. n, k - 1 \in T PROVE k \in T
  <2>1. q[k - 1] \in Field /\ f[k] \in Field /\ f[m] \in Field /\ g[k] \in Field
    BY <1>2 DEF Vectors
  <2>2. q[k] = Mult(q[k - 1], g[k])
    BY <1>2, <2>1, FieldTimes
  <2>3. CASE k < m
    <3>1. p[k - 1] = q[k - 1] /\ g[k] = f[k]
      BY <1>4, <2>3
    <3>2. QED
      BY <1>1, <1>2, <2>3, <3>1
  <2>4. CASE k = m
    <3>1. p[k - 1] = q[k - 1]
      BY <1>4, <2>4
    <3>2. p[k] = Mult(q[k - 1], f[m])
      BY <1>1, <2>1, <2>4, <3>1, FieldTimes
    <3>3. q[k] = q[k - 1]
      BY <2>1, <2>2, <2>4, FieldAxioms
    <3>4. Mult(q[k - 1], f[m]) = Mult(f[m], q[k - 1])
      BY <2>1, FieldAxioms
    <3>5. QED
      BY <2>4, <3>2, <3>3, <3>4
  <2>5. CASE k > m
    <3>1. p[k - 1] = Mult(f[m], q[k - 1]) /\ g[k] = f[k]
      BY <1>4, <2>5
    <3>2. Mult(f[m], q[k - 1]) \in Field
      BY <2>1, FieldClosed
    <3>3. p[k] = Mult(Mult(f[m], q[k - 1]), f[k])
      BY <1>1, <2>1, <3>1, <3>2, FieldTimes
    <3>4. p[k] = Mult(f[m], q[k])
      BY <2>1, <2>2, <3>1, <3>3, ThreeFactors
    <3>5. QED
      BY <2>5, <3>4
  <2>6. QED
    BY <2>3, <2>4, <2>5
<1> HIDE DEF T
<1>5. n \in T
  BY <1>3, <1>4, CountUp
<1>6. QED
  BY <1>1, <1>2, <1>5 DEF T

\* A factor that is zero.
LEMMA ProductZero ==
    ASSUME NEW n \in Nat, NEW u \in Field, NEW f \in Vectors(n), NEW m \in 1 .. n, f[m] = Zero
    PROVE  ProductOf(u, f, n) = Zero
<1> DEFINE g == [f EXCEPT ![m] = One]
<1>1. g \in Vectors(n) /\ g[m] = One /\ \A k \in 1 .. n : k # m => g[k] = f[k]
  BY FieldClosed DEF Vectors
<1> HIDE DEF g
<1>2. ProductOf(u, f, n) = Mult(Zero, ProductOf(u, g, n))
  BY <1>1, ProductTake
<1>3. ProductOf(u, g, n) \in Field
  BY <1>1, ProductFacts
<1>4. QED
  BY <1>2, <1>3, TimesZero

\* Two factors change places.
LEMMA ProductSwap ==
    ASSUME NEW n \in Nat, NEW u \in Field, NEW f \in Vectors(n), NEW h \in Vectors(n),
           NEW a \in 1 .. n, NEW d \in 1 .. n, a # d,
           h[a] = f[d], h[d] = f[a], \A k \in 1 .. n : k # a /\ k # d => h[k] = f[k]
    PROVE  ProductOf(u, h, n) = ProductOf(u, f, n)
<1> DEFINE f1 == [f EXCEPT ![a] = One]
           h1 == [h EXCEPT ![d] = One]
           g  == [f1 EXCEPT ![d] = One]
<1>1. f \in [1 .. n -> Field] /\ h \in [1 .. n -> Field]
  BY DEF Vectors
<1>2. f1 \in Vectors(n) /\ f1[a] = One /\ \A k \in 1 .. n : k # a => f1[k] = f[k]
  BY <1>1, FieldClosed DEF Vectors
<1>3. h1 \in Vectors(n) /\ h1[d] = One /\ \A k \in 1 .. n : k # d => h1[k] = h[k]
  BY <1>1, FieldClosed DEF Vectors
<1> HIDE DEF f1, h1
<1>4. g \in Vectors(n) /\ g[d] = One /\ g[a] = One /\ \A k \in 1 .. n : k # d => g[k] = f1[k]
  BY <1>2, FieldClosed DEF Vectors
<1> HIDE DEF g
<1>5. \A k \in 1 .. n : k # a => g[k] = h1[k]
  BY <1>2, <1>3, <1>4
<1>6. ProductOf(u, f, n) = Mult(f[a], ProductOf(u, f1, n))
  BY <1>2, ProductTake
<1>7. ProductOf(u, f1, n) = Mult(f1[d], ProductOf(u, g, n))
  BY <1>2, <1>4, ProductTake
<1>8. ProductOf(u, h, n) = Mult(h[d], ProductOf(u, h1, n))
  BY <1>3, ProductTake
<1>9. ProductOf(u, h1, n) = Mult(h1[a], ProductOf(u, g, n))
  BY <1>3, <1>4, <1>5, ProductTake
<1>10. f1[d] = f[d] /\ h1[a] = f[d] /\ h[d] = f[a]
  BY <1>2, <1>3
<1>11. QED
  BY <1>6, <1>7, <1>8, <1>9, <1>10

-----------------------------------------------------------------------------
(* The summands of the determinant. *)

MinusOne == Neg(One)
SignOf(f, n) == IF IsOdd(f, n) THEN MinusOne ELSE One
Factors(M, f, n) == [r \in 1 .. n |-> M[r][f[r]]]
Terms(M, n) == [f \in Orders(n) |-> Term(M, f, n)]

\* Minus one is its own inverse, and its multiples are the negatives.
LEMMA MinusOneFacts ==
    /\ MinusOne \in Field
    /\ Mult(MinusOne, MinusOne) = One
    /\ \A u \in Field : Plus(Mult(MinusOne, u), u) = Zero
    /\ \A u \in Field : Mult(MinusOne, Mult(MinusOne, u)) = u
<1>1. MinusOne \in Field
  BY FieldClosed DEF MinusOne
<1>2. ASSUME NEW u \in Field PROVE Plus(Mult(MinusOne, u), u) = Zero
  <2>1. Mult(u, Plus(MinusOne, One)) = Plus(Mult(u, MinusOne), Mult(u, One))
    BY <1>1, FieldAxioms, FieldClosed
  <2>2. Plus(One, MinusOne) = Zero /\ Plus(One, MinusOne) = Plus(MinusOne, One)
    BY <1>1, FieldAxioms, FieldClosed DEF MinusOne
  <2>3. Mult(u, One) = u /\ Mult(u, MinusOne) = Mult(MinusOne, u)
    BY <1>1, FieldAxioms
  <2>4. Mult(u, Zero) = Zero
    BY TimesZero
  <2>5. QED
    BY <2>1, <2>2, <2>3, <2>4
<1>3. Mult(MinusOne, MinusOne) = One
  <2>1. Plus(Mult(MinusOne, MinusOne), MinusOne) = Zero /\ Mult(MinusOne, MinusOne) \in Field
    BY <1>1, <1>2, FieldClosed
  <2>2. Plus(MinusOne, Mult(MinusOne, MinusOne)) = Zero
    BY <1>1, <2>1, FieldAxioms
  <2>3. Plus(MinusOne, One) = Zero
    BY <1>1, FieldAxioms, FieldClosed DEF MinusOne
  <2>4. QED
    BY <1>1, <2>1, <2>2, <2>3, Cancel, FieldClosed
<1>4. ASSUME NEW u \in Field PROVE Mult(MinusOne, Mult(MinusOne, u)) = u
  <2>1. Mult(Mult(MinusOne, MinusOne), u) = Mult(MinusOne, Mult(MinusOne, u))
    BY <1>1, FieldAxioms
  <2>2. Mult(One, u) = u
    BY FieldAxioms, FieldClosed
  <2>3. QED
    BY <1>3, <2>1, <2>2
<1>5. QED
  BY <1>1, <1>2, <1>3, <1>4

\* The negative is the multiple by minus one.
LEMMA NegIsTimes ==
    ASSUME NEW u \in Field
    PROVE  Neg(u) = Mult(MinusOne, u)
<1>1. Neg(u) \in Field /\ MinusOne \in Field /\ Mult(MinusOne, u) \in Field
  BY MinusOneFacts, FieldClosed
<1>2. Plus(u, Neg(u)) = Zero
  BY FieldAxioms
<1>3. Plus(Mult(MinusOne, u), u) = Zero /\ Plus(u, Mult(MinusOne, u)) = Plus(Mult(MinusOne, u), u)
  BY <1>1, MinusOneFacts, FieldAxioms
<1>4. QED
  BY <1>1, <1>2, <1>3, Cancel

\* There are finitely many permutations.
LEMMA OrdersFinite ==
    ASSUME NEW n \in Nat
    PROVE  IsFiniteSet(Orders(n))
<1> DEFINE T == SUBSET ((1 .. n) \X (1 .. n))
           graph == [f \in Orders(n) |-> {<<r, f[r]>> : r \in 1 .. n}]
<1>1. IsFiniteSet(T)
  <2>1. IsFiniteSet(1 .. n)
    BY FS_Interval
  <2>2. IsFiniteSet((1 .. n) \X (1 .. n))
    BY <2>1, FS_Product
  <2>3. QED
    BY <2>2, FS_SUBSET
<1>2. graph \in [Orders(n) -> T]
  BY DEF Orders
<1>3. ASSUME NEW f \in Orders(n), NEW g \in Orders(n), graph[f] = graph[g]
      PROVE  f = g
  <2>1. f \in [1 .. n -> 1 .. n] /\ g \in [1 .. n -> 1 .. n]
    BY DEF Orders
  <2>2. ASSUME NEW r \in 1 .. n PROVE f[r] = g[r]
    <3>1. <<r, f[r]>> \in graph[g]
      BY <1>3
    <3>2. PICK q \in 1 .. n : <<r, f[r]>> = <<q, g[q]>>
      BY <3>1
    <3>3. QED
      BY <3>2
  <2>3. QED
    BY <2>1, <2>2
<1> HIDE DEF graph, T
<1>4. graph \in Injection(Orders(n), T)
  BY <1>2, <1>3 DEF Injection, IsInjective
<1>5. QED
  BY <1>1, <1>4, FS_Injection

\* A summand is a sign times the product along the permutation.
LEMMA TermFacts ==
    ASSUME NEW n \in Nat, NEW M \in Matrices(n), NEW f \in Orders(n)
    PROVE  /\ SignOf(f, n) \in Field /\ Factors(M, f, n) \in Vectors(n)
           /\ \A r \in 1 .. n : f[r] \in 1 .. n /\ Factors(M, f, n)[r] = M[r][f[r]] /\ M[r][f[r]] \in Field
           /\ Term(M, f, n) = ProductOf(SignOf(f, n), Factors(M, f, n), n)
           /\ Term(M, f, n) \in Field
<1>1. SignOf(f, n) \in Field
  BY MinusOneFacts, FieldClosed DEF SignOf
<1>2. \A r \in 1 .. n : f[r] \in 1 .. n /\ M[r][f[r]] \in Field
  BY MatrixEntries DEF Orders
<1>3. Factors(M, f, n) \in Vectors(n) /\ \A r \in 1 .. n : Factors(M, f, n)[r] = M[r][f[r]]
  BY <1>2 DEF Factors, Vectors
<1>4. Term(M, f, n) = ProductOf(SignOf(f, n), Factors(M, f, n), n)
  BY DEF Term, SignOf, Factors, MinusOne
<1>5. Term(M, f, n) \in Field
  BY <1>1, <1>3, <1>4, ProductFacts
<1>6. QED
  BY <1>1, <1>2, <1>3, <1>4, <1>5

\* The determinant is the sum of these.
LEMMA DeterminantFacts ==
    ASSUME NEW n \in Nat, NEW M \in Matrices(n)
    PROVE  /\ IsFiniteSet(Orders(n)) /\ Terms(M, n) \in [Orders(n) -> Field]
           /\ \A f \in Orders(n) : Terms(M, n)[f] = Term(M, f, n)
           /\ DeterminantOf(M, n) = Total(Terms(M, n), Orders(n))
           /\ DeterminantOf(M, n) \in Field
<1>1. IsFiniteSet(Orders(n))
  BY OrdersFinite
<1>2. Terms(M, n) \in [Orders(n) -> Field] /\ \A f \in Orders(n) : Terms(M, n)[f] = Term(M, f, n)
  BY TermFacts DEF Terms
<1>3. DeterminantOf(M, n) = Total(Terms(M, n), Orders(n))
  BY DEF DeterminantOf, Terms
<1>4. QED
  BY <1>1, <1>2, <1>3, TotalType

-----------------------------------------------------------------------------
(* What operations on rows do to the determinant. *)

\* A product along a permutation of swapped rows is one along the swapped permutation,
\* which has the other sign.
LEMMA TermSwap ==
    ASSUME NEW n \in Nat, NEW M \in Matrices(n), NEW f \in Orders(n),
           NEW a \in 1 .. n, NEW d \in 1 .. n, a < d
    PROVE  /\ Swapped(M, a, d) \in Matrices(n) /\ Swapped(f, a, d) \in Orders(n)
           /\ Term(Swapped(M, a, d), f, n) = Mult(MinusOne, Term(M, Swapped(f, a, d), n))
<1> DEFINE S == Swapped(M, a, d)
           g == Swapped(f, a, d)
           E == Factors(S, f, n)
           F == Factors(M, g, n)
<1>1. M \in [1 .. n -> [1 .. n -> Field]] /\ f \in [1 .. n -> 1 .. n] /\ a # d
  BY DEF Matrices, Orders
<1>2. /\ S \in Matrices(n)
      /\ S[a] = M[d] /\ S[d] = M[a] /\ \A k \in 1 .. n : k # a /\ k # d => S[k] = M[k]
  BY <1>1 DEF Swapped, Matrices
<1>3. /\ g \in Orders(n)
      /\ g[a] = f[d] /\ g[d] = f[a] /\ \A k \in 1 .. n : k # a /\ k # d => g[k] = f[k]
  BY <1>1, SwapIsOrder DEF Swapped
<1>4. IsOdd(g, n) <=> ~IsOdd(f, n)
  BY SwapChangesParity
<1> HIDE DEF S, g
<1>5. /\ E \in Vectors(n) /\ \A r \in 1 .. n : E[r] = S[r][f[r]]
      /\ SignOf(f, n) \in Field /\ Term(S, f, n) = ProductOf(SignOf(f, n), E, n)
  BY <1>2, TermFacts
<1>6. /\ F \in Vectors(n) /\ \A r \in 1 .. n : F[r] = M[r][g[r]]
      /\ SignOf(g, n) \in Field /\ Term(M, g, n) = ProductOf(SignOf(g, n), F, n)
  BY <1>3, TermFacts
<1> HIDE DEF E, F
<1>7. E[a] = F[d] /\ E[d] = F[a] /\ \A k \in 1 .. n : k # a /\ k # d => E[k] = F[k]
  BY <1>2, <1>3, <1>5, <1>6
<1>8. ProductOf(One, E, n) = ProductOf(One, F, n)
  <2>1. E \in Vectors(n) /\ F \in Vectors(n) /\ a # d /\ One \in Field
    BY <1>1, <1>5, <1>6, FieldClosed
  <2>2. E[a] = F[d]
    BY <1>7
  <2>3. E[d] = F[a]
    BY <1>7
  <2>4. \A k \in 1 .. n : k # a /\ k # d => E[k] = F[k]
    BY <1>7
  <2>5. QED
    BY <2>1, <2>2, <2>3, <2>4, ProductSwap
<1>9. ProductOf(One, F, n) \in Field
  BY <1>6, ProductFacts, FieldClosed
<1>10. SignOf(f, n) = Mult(MinusOne, SignOf(g, n))
  <2>1. Mult(MinusOne, One) = MinusOne /\ Mult(MinusOne, MinusOne) = One
    BY MinusOneFacts, FieldAxioms
  <2>2. QED
    BY <1>4, <2>1 DEF SignOf
<1>11. Term(S, f, n) = Mult(Mult(MinusOne, SignOf(g, n)), ProductOf(One, F, n))
  BY <1>5, <1>8, <1>10, ProductScale
<1>12. Term(M, g, n) = Mult(SignOf(g, n), ProductOf(One, F, n))
  BY <1>6, ProductScale
<1>13. Term(S, f, n) = Mult(MinusOne, Term(M, g, n))
  BY <1>6, <1>9, <1>11, <1>12, MinusOneFacts, ThreeFactors
<1>14. QED
  BY <1>2, <1>3, <1>13 DEF S, g

\* Swapping the values of permutations permutes them.
SwapOrders(a, d, n) == [f \in Orders(n) |-> Swapped(f, a, d)]

\* This is a permutation of the permutations.
LEMMA SwapReorders ==
    ASSUME NEW n \in Nat, NEW a \in 1 .. n, NEW d \in 1 .. n
    PROVE  /\ SwapOrders(a, d, n) \in [Orders(n) -> Orders(n)]
           /\ \A f \in Orders(n) : SwapOrders(a, d, n)[f] = Swapped(f, a, d)
           /\ \A f, g \in Orders(n) : SwapOrders(a, d, n)[f] = SwapOrders(a, d, n)[g] => f = g
<1>1. \A f \in Orders(n) : Swapped(f, a, d) \in Orders(n)
  BY SwapIsOrder
<1>2. ASSUME NEW f \in Orders(n), NEW g \in Orders(n), Swapped(f, a, d) = Swapped(g, a, d)
      PROVE  f = g
  <2>1. f \in [1 .. n -> 1 .. n] /\ g \in [1 .. n -> 1 .. n]
    BY DEF Orders
  <2>2. \A r \in 1 .. n : Swapped(f, a, d)[r] = f[Partner(r, a, d)]
    BY SwapIsOrder
  <2>3. \A r \in 1 .. n : Swapped(g, a, d)[r] = g[Partner(r, a, d)]
    BY SwapIsOrder
  <2>4. \A r \in 1 .. n : Partner(r, a, d) \in 1 .. n /\ Partner(Partner(r, a, d), a, d) = r
    BY DEF Partner
  <2>5. \A r \in 1 .. n : f[Partner(r, a, d)] = g[Partner(r, a, d)]
    BY <1>2, <2>2, <2>3
  <2>6. \A r \in 1 .. n : f[r] = g[r]
    BY <2>4, <2>5
  <2>7. QED
    BY <2>1, <2>6
<1>3. QED
  BY <1>1, <1>2 DEF SwapOrders

\* Swapping two rows changes the sign.
LEMMA DeterminantSwap ==
    ASSUME NEW n \in Nat, NEW M \in Matrices(n), NEW a \in 1 .. n, NEW d \in 1 .. n, a < d
    PROVE  /\ Swapped(M, a, d) \in Matrices(n)
           /\ DeterminantOf(Swapped(M, a, d), n) = Mult(MinusOne, DeterminantOf(M, n))
<1> DEFINE S == Swapped(M, a, d)
           s == SwapOrders(a, d, n)
           h == [f \in Orders(n) |-> Terms(M, n)[s[f]]]
<1>1. s \in [Orders(n) -> Orders(n)] /\ \A f, g \in Orders(n) : s[f] = s[g] => f = g
  BY SwapReorders
<1>2. S \in Matrices(n)
  BY DEF Swapped, Matrices
<1>3. /\ IsFiniteSet(Orders(n)) /\ Terms(M, n) \in [Orders(n) -> Field]
      /\ \A f \in Orders(n) : Terms(M, n)[f] = Term(M, f, n)
      /\ DeterminantOf(M, n) = Total(Terms(M, n), Orders(n))
  BY DeterminantFacts
<1>4. /\ Terms(S, n) \in [Orders(n) -> Field]
      /\ \A f \in Orders(n) : Terms(S, n)[f] = Term(S, f, n)
      /\ DeterminantOf(S, n) = Total(Terms(S, n), Orders(n))
  BY <1>2, DeterminantFacts
<1>5. \A f \in Orders(n) : s[f] = Swapped(f, a, d)
  BY SwapReorders
<1>6. \A f \in Orders(n) : Terms(S, n)[f] = Mult(MinusOne, Terms(M, n)[s[f]])
  <2> TAKE f \in Orders(n)
  <2>1. Term(S, f, n) = Mult(MinusOne, Term(M, Swapped(f, a, d), n)) /\ Swapped(f, a, d) \in Orders(n)
    BY TermSwap
  <2>2. QED
    BY <1>3, <1>4, <1>5, <2>1
<1> HIDE DEF s, S
<1>7. h \in [Orders(n) -> Field] /\ \A f \in Orders(n) : h[f] = Terms(M, n)[s[f]]
  BY <1>1, <1>3
<1> HIDE DEF h
<1>8. Total(h, Orders(n)) = Total(Terms(M, n), Orders(n))
  BY <1>1, <1>3, <1>7, TotalReorder
<1>9. Total(Terms(S, n), Orders(n)) = Mult(MinusOne, Total(h, Orders(n)))
  <2>1. MinusOne \in Field
    BY MinusOneFacts
  <2>2. \A f \in Orders(n) : Terms(S, n)[f] = Mult(MinusOne, h[f])
    BY <1>6, <1>7
  <2>3. QED
    BY <1>3, <1>4, <1>7, <2>1, <2>2, TotalScale
<1>10. QED
  BY <1>2, <1>3, <1>4, <1>8, <1>9 DEF S

\* The even permutations and the odd ones, related by the swap of two equal rows, cancel
\* each other.
LEMMA EqualRowsInOrder ==
    ASSUME NEW n \in Nat, NEW M \in Matrices(n), NEW a \in 1 .. n, NEW d \in 1 .. n,
           a < d, M[a] = M[d]
    PROVE  DeterminantOf(M, n) = Zero
<1> DEFINE s    == SwapOrders(a, d, n)
           even == [f \in Orders(n) |-> IF IsOdd(f, n) THEN Zero ELSE Terms(M, n)[f]]
           odd  == [f \in Orders(n) |-> IF IsOdd(f, n) THEN Terms(M, n)[f] ELSE Zero]
           h    == [f \in Orders(n) |-> odd[s[f]]]
<1>1. /\ s \in [Orders(n) -> Orders(n)] /\ \A f, g \in Orders(n) : s[f] = s[g] => f = g
  BY SwapReorders
<1>2. Swapped(M, a, d) = M
  BY DEF Swapped, Matrices
<1>3. /\ IsFiniteSet(Orders(n)) /\ Terms(M, n) \in [Orders(n) -> Field]
      /\ \A f \in Orders(n) : Terms(M, n)[f] = Term(M, f, n)
      /\ DeterminantOf(M, n) = Total(Terms(M, n), Orders(n))
  BY DeterminantFacts
<1>4. /\ even \in [Orders(n) -> Field] /\ odd \in [Orders(n) -> Field]
  BY <1>3, FieldClosed
<1>5. \A f \in Orders(n) : Terms(M, n)[f] = Plus(even[f], odd[f])
  BY <1>3, ZeroPlus
<1>6. \A f \in Orders(n) : even[f] = Mult(MinusOne, odd[s[f]])
  <2> TAKE f \in Orders(n)
  <2>1. s[f] = Swapped(f, a, d) /\ s[f] \in Orders(n)
    BY SwapReorders
  <2>2. Term(M, f, n) = Mult(MinusOne, Term(M, s[f], n))
    BY <1>2, <2>1, TermSwap
  <2>3. IsOdd(s[f], n) <=> ~IsOdd(f, n)
    BY <2>1, SwapChangesParity
  <2>4. Mult(MinusOne, Zero) = Zero
    BY MinusOneFacts, TimesZero
  <2> HIDE DEF s
  <2>5. QED
    BY <1>3, <2>1, <2>2, <2>3, <2>4
<1> HIDE DEF s, even, odd
<1>7. h \in [Orders(n) -> Field] /\ \A f \in Orders(n) : h[f] = odd[s[f]]
  BY <1>1, <1>4
<1> HIDE DEF h
<1>8. Total(h, Orders(n)) = Total(odd, Orders(n))
  BY <1>1, <1>3, <1>4, <1>7, TotalReorder
<1>9. Total(even, Orders(n)) = Mult(MinusOne, Total(h, Orders(n)))
  <2>1. MinusOne \in Field
    BY MinusOneFacts
  <2>2. IsFiniteSet(Orders(n))
    BY <1>3
  <2>3. \A f \in Orders(n) : even[f] = Mult(MinusOne, h[f])
    BY <1>6, <1>7
  <2>4. even \in [Orders(n) -> Field]
    BY <1>4
  <2>5. h \in [Orders(n) -> Field]
    BY <1>7
  <2>6. QED
    BY <2>1, <2>2, <2>3, <2>4, <2>5, TotalScale
<1>10. DeterminantOf(M, n) = Plus(Total(even, Orders(n)), Total(odd, Orders(n)))
  BY <1>3, <1>4, <1>5, TotalPlus
<1>11. Total(odd, Orders(n)) \in Field
  BY <1>3, <1>4, TotalType
<1>12. QED
  BY <1>8, <1>9, <1>10, <1>11, MinusOneFacts

\* The determinant of a matrix with equal rows is zero.
LEMMA DeterminantEqualRows ==
    ASSUME NEW n \in Nat, NEW M \in Matrices(n), NEW a \in 1 .. n, NEW d \in 1 .. n,
           a # d, M[a] = M[d]
    PROVE  DeterminantOf(M, n) = Zero
<1>1. a < d \/ d < a
  OBVIOUS
<1>2. QED
  BY <1>1, EqualRowsInOrder

\* The determinant is linear in each row.
LEMMA DeterminantLinear ==
    ASSUME NEW n \in Nat, NEW q \in Field, NEW a \in 1 .. n,
           NEW M \in Matrices(n), NEW K \in Matrices(n), NEW D \in Matrices(n),
           \A r \in 1 .. n : r # a => D[r] = M[r] /\ K[r] = M[r],
           \A c \in 1 .. n : D[a][c] = Plus(M[a][c], Mult(q, K[a][c]))
    PROVE  DeterminantOf(D, n) = Plus(DeterminantOf(M, n), Mult(q, DeterminantOf(K, n)))
<1> DEFINE h == [f \in Orders(n) |-> Mult(q, Terms(K, n)[f])]
<1>1. /\ IsFiniteSet(Orders(n)) /\ Terms(M, n) \in [Orders(n) -> Field]
      /\ \A f \in Orders(n) : Terms(M, n)[f] = Term(M, f, n)
      /\ DeterminantOf(M, n) = Total(Terms(M, n), Orders(n))
  BY DeterminantFacts
<1>2. /\ Terms(K, n) \in [Orders(n) -> Field]
      /\ \A f \in Orders(n) : Terms(K, n)[f] = Term(K, f, n)
      /\ DeterminantOf(K, n) = Total(Terms(K, n), Orders(n))
  BY DeterminantFacts
<1>3. /\ Terms(D, n) \in [Orders(n) -> Field]
      /\ \A f \in Orders(n) : Terms(D, n)[f] = Term(D, f, n)
      /\ DeterminantOf(D, n) = Total(Terms(D, n), Orders(n))
  BY DeterminantFacts
<1>4. ASSUME NEW f \in Orders(n)
      PROVE  Term(D, f, n) = Plus(Term(M, f, n), Mult(q, Term(K, f, n)))
  <2> DEFINE u == SignOf(f, n)
             g == [Factors(M, f, n) EXCEPT ![a] = One]
             P == ProductOf(u, g, n)
             m == M[a][f[a]]
             k == K[a][f[a]]
  <2>1. /\ u \in Field /\ f[a] \in 1 .. n /\ m \in Field
        /\ Factors(M, f, n) \in Vectors(n) /\ \A r \in 1 .. n : Factors(M, f, n)[r] = M[r][f[r]]
        /\ Term(M, f, n) = ProductOf(u, Factors(M, f, n), n)
    BY TermFacts
  <2>2. /\ k \in Field
        /\ Factors(K, f, n) \in Vectors(n) /\ \A r \in 1 .. n : Factors(K, f, n)[r] = K[r][f[r]]
        /\ Term(K, f, n) = ProductOf(u, Factors(K, f, n), n)
    BY TermFacts
  <2>3. /\ Factors(D, f, n) \in Vectors(n) /\ \A r \in 1 .. n : Factors(D, f, n)[r] = D[r][f[r]]
        /\ Term(D, f, n) = ProductOf(u, Factors(D, f, n), n)
    BY TermFacts
  <2>4. g \in Vectors(n) /\ g[a] = One /\ \A r \in 1 .. n : r # a => g[r] = M[r][f[r]]
    BY <2>1, FieldClosed DEF Vectors
  <2> HIDE DEF u, g
  <2>5. P \in Field
    BY <2>1, <2>4, ProductFacts
  <2>6. Term(M, f, n) = Mult(Factors(M, f, n)[a], P)
    BY <2>1, <2>4, ProductTake
  <2>7. Term(K, f, n) = Mult(Factors(K, f, n)[a], P)
    BY <2>1, <2>2, <2>4, ProductTake
  <2>8. Term(D, f, n) = Mult(Factors(D, f, n)[a], P)
    BY <2>1, <2>3, <2>4, ProductTake
  <2>9. Factors(M, f, n)[a] = m /\ Factors(K, f, n)[a] = k /\ Factors(D, f, n)[a] = Plus(m, Mult(q, k))
    BY <2>1, <2>2, <2>3
  <2> HIDE DEF P, m, k
  <2>10. Mult(Plus(m, Mult(q, k)), P) = Plus(Mult(m, P), Mult(Mult(q, k), P))
    <3>1. Mult(q, k) \in Field /\ Plus(m, Mult(q, k)) \in Field
      BY <2>1, <2>2, FieldClosed
    <3>2. Mult(P, Plus(m, Mult(q, k))) = Plus(Mult(P, m), Mult(P, Mult(q, k)))
      BY <2>1, <2>5, <3>1, FieldAxioms
    <3>3. Mult(P, m) = Mult(m, P) /\ Mult(P, Mult(q, k)) = Mult(Mult(q, k), P)
          /\ Mult(P, Plus(m, Mult(q, k))) = Mult(Plus(m, Mult(q, k)), P)
      BY <2>1, <2>5, <3>1, FieldAxioms
    <3>4. QED
      BY <3>2, <3>3
  <2>11. Mult(Mult(q, k), P) = Mult(q, Mult(k, P))
    BY <2>2, <2>5, ThreeFactors
  <2>12. QED
    BY <2>6, <2>7, <2>8, <2>9, <2>10, <2>11
<1>5. h \in [Orders(n) -> Field] /\ \A f \in Orders(n) : h[f] = Mult(q, Terms(K, n)[f])
  BY <1>2, FieldClosed
<1> HIDE DEF h
<1>6. \A f \in Orders(n) : Terms(D, n)[f] = Plus(Terms(M, n)[f], h[f])
  BY <1>1, <1>2, <1>3, <1>4, <1>5
<1>7. Total(Terms(D, n), Orders(n)) = Plus(Total(Terms(M, n), Orders(n)), Total(h, Orders(n)))
  BY <1>1, <1>3, <1>5, <1>6, TotalPlus
<1>8. Total(h, Orders(n)) = Mult(q, Total(Terms(K, n), Orders(n)))
  BY <1>1, <1>2, <1>5, TotalScale
<1>9. QED
  BY <1>1, <1>2, <1>3, <1>7, <1>8

\* Adding a multiple of a row to another one doesn't change the determinant.
LEMMA DeterminantAddRow ==
    ASSUME NEW n \in Nat, NEW q \in Field, NEW a \in 1 .. n, NEW d \in 1 .. n, a # d,
           NEW M \in Matrices(n), NEW D \in Matrices(n),
           \A r \in 1 .. n : r # a => D[r] = M[r],
           \A c \in 1 .. n : D[a][c] = Plus(M[a][c], Mult(q, M[d][c]))
    PROVE  DeterminantOf(D, n) = DeterminantOf(M, n)
<1> DEFINE K == [M EXCEPT ![a] = M[d]]
<1>1. K \in Matrices(n) /\ K[a] = M[d] /\ K[d] = M[d] /\ \A r \in 1 .. n : r # a => K[r] = M[r]
  BY DEF Matrices
<1> HIDE DEF K
<1>2. DeterminantOf(K, n) = Zero
  BY <1>1, DeterminantEqualRows
<1>3. DeterminantOf(D, n) = Plus(DeterminantOf(M, n), Mult(q, DeterminantOf(K, n)))
  BY <1>1, DeterminantLinear
<1>4. DeterminantOf(M, n) \in Field
  BY DeterminantFacts
<1>5. QED
  BY <1>2, <1>3, <1>4, TimesZero, ZeroPlus

\* The diagonal is the only permutation that stays on it or right of it.
LEMMA IdentityOnly ==
    ASSUME NEW n \in Nat, NEW f \in Orders(n), \A r \in 1 .. n : f[r] >= r
    PROVE  f = [r \in 1 .. n |-> r]
<1> DEFINE T == {k \in 0 .. n : \A r \in 1 .. n : r > n - k => f[r] = r}
<1>1. f \in [1 .. n -> 1 .. n] /\ \A r, s \in 1 .. n : f[r] = f[s] => r = s
  BY DEF Orders
<1>2. 0 \in T
  OBVIOUS
<1>3. ASSUME NEW k \in 1 .. n, k - 1 \in T PROVE k \in T
  <2> DEFINE r == n - k + 1
  <2>1. r \in 1 .. n /\ f[r] \in 1 .. n /\ f[r] >= r
    BY <1>1
  <2>2. \A s \in 1 .. n : s > r => f[s] = s
    BY <1>3
  <2> HIDE DEF r
  <2>3. f[r] = r
    <3>1. CASE f[r] > r
      <4>1. f[f[r]] = f[r]
        BY <2>1, <2>2, <3>1
      <4>2. f[r] = r
        BY <1>1, <2>1, <4>1
      <4>3. QED
        BY <2>1, <3>1, <4>2
    <3>2. QED
      BY <2>1, <3>1
  <2>4. \A s \in 1 .. n : s > n - k => s = r \/ s > r
    BY DEF r
  <2>5. QED
    BY <2>2, <2>3, <2>4
<1> HIDE DEF T
<1>4. n \in T
  BY <1>2, <1>3, CountUp
<1>5. \A r \in 1 .. n : f[r] = r
  BY <1>4 DEF T
<1>6. QED
  BY <1>1, <1>5

\* The determinant of a triangular matrix is the product of its diagonal.
LEMMA DeterminantTriangular ==
    ASSUME NEW n \in Nat, NEW M \in Matrices(n),
           \A r, c \in 1 .. n : c < r => M[r][c] = Zero
    PROVE  DeterminantOf(M, n) = ProductOf(One, [r \in 1 .. n |-> M[r][r]], n)
<1> DEFINE p == [r \in 1 .. n |-> r]
<1>1. p \in Orders(n) /\ ~IsOdd(p, n)
  BY IdentityOrder
<1>2. /\ IsFiniteSet(Orders(n)) /\ Terms(M, n) \in [Orders(n) -> Field]
      /\ \A f \in Orders(n) : Terms(M, n)[f] = Term(M, f, n)
      /\ DeterminantOf(M, n) = Total(Terms(M, n), Orders(n))
  BY DeterminantFacts
<1>3. ASSUME NEW f \in Orders(n), f # p PROVE Terms(M, n)[f] = Zero
  <2>1. \A r \in 1 .. n : f[r] \in 1 .. n
    BY DEF Orders
  <2>2. PICK r \in 1 .. n : f[r] < r
    BY <1>3, <2>1, IdentityOnly
  <2>3. /\ SignOf(f, n) \in Field /\ Factors(M, f, n) \in Vectors(n)
        /\ Factors(M, f, n)[r] = M[r][f[r]]
        /\ Term(M, f, n) = ProductOf(SignOf(f, n), Factors(M, f, n), n)
    BY TermFacts
  <2>4. Factors(M, f, n)[r] = Zero
    BY <2>1, <2>2, <2>3
  <2>5. Term(M, f, n) = Zero
    BY <2>3, <2>4, ProductZero
  <2>6. QED
    BY <1>2, <2>5
<1>4. Term(M, p, n) = ProductOf(One, [r \in 1 .. n |-> M[r][r]], n)
  <2>1. Term(M, p, n) = ProductOf(SignOf(p, n), Factors(M, p, n), n)
    BY <1>1, TermFacts
  <2>2. SignOf(p, n) = One
    BY <1>1 DEF SignOf
  <2>3. Factors(M, p, n) = [r \in 1 .. n |-> M[r][r]]
    BY DEF Factors
  <2>4. QED
    BY <2>1, <2>2, <2>3
<1> HIDE DEF p
<1>5. Total(Terms(M, n), Orders(n)) = Terms(M, n)[p]
  BY <1>1, <1>2, <1>3, TotalSingle
<1>6. QED
  BY <1>1, <1>2, <1>4, <1>5

-----------------------------------------------------------------------------
(* The determinant during the elimination. *)

\* C without the factors in the columns before m.
Rest(C, m, n) == [r \in 1 .. n |-> [c \in 1 .. n |-> IF c < r /\ c < m THEN Zero ELSE C[r][c]]]

\* The rows up to i are those of the next step.
Stage(C, D, m, i, n) ==
    [r \in 1 .. n |-> IF r <= m \/ r > i THEN Rest(C, m, n)[r] ELSE Rest(D, m + 1, n)[r]]

\* The type of what is left, and its entries.
LEMMA RestFacts ==
    ASSUME NEW n \in Nat, NEW m \in Nat, NEW C \in Matrices(n)
    PROVE  /\ Rest(C, m, n) \in Matrices(n)
           /\ \A r, c \in 1 .. n : Rest(C, m, n)[r][c] = IF c < r /\ c < m THEN Zero ELSE C[r][c]
BY MatrixEntries, FieldClosed DEF Rest, Matrices

\* What a row of the elimination subtracts: the factor times the row of the pivot.
LEMMA EliminatedRow ==
    ASSUME NEW n \in Nat, NEW C \in Matrices(n), NEW D \in Matrices(n), NEW m \in 1 .. n,
           C[m][m] # Zero, Eliminated(C, D, m, n), NEW i \in 1 .. n, i > m, NEW c \in 1 .. n
    PROVE  /\ Mult(MinusOne, Over(C[i][m], C[m][m])) \in Field
           /\ Rest(D, m + 1, n)[i][c] =
                Plus(Rest(C, m, n)[i][c],
                     Mult(Mult(MinusOne, Over(C[i][m], C[m][m])), Rest(C, m, n)[m][c]))
<1> DEFINE q == Over(C[i][m], C[m][m])
           u == C[i][c]
           v == C[m][c]
           a == Rest(D, m + 1, n)[i][c]
           d == Rest(C, m, n)[i][c]
           p == Rest(C, m, n)[m][c]
<1>1. C[i][m] \in Field /\ C[m][m] \in Field /\ u \in Field /\ v \in Field
  BY MatrixEntries
<1>2. q \in Field /\ Mult(q, C[m][m]) = C[i][m]
  BY <1>1, TimesOver
<1>3. D[i][c] = IF c < m THEN u ELSE IF c = m THEN q ELSE Minus(u, Times(q, v))
  BY DEF Eliminated
<1>4. a = IF c < i /\ c < m + 1 THEN Zero ELSE D[i][c]
  BY RestFacts
<1>5. d = IF c < i /\ c < m THEN Zero ELSE u
  BY RestFacts
<1>6. p = IF c < m /\ c < m THEN Zero ELSE v
  BY RestFacts
<1>7. MinusOne \in Field /\ Mult(MinusOne, q) \in Field
  BY <1>2, MinusOneFacts, FieldClosed
<1>8. Mult(Mult(MinusOne, q), v) = Mult(MinusOne, Mult(q, v)) /\ Mult(q, v) \in Field
  <2>1. q \in Field /\ v \in Field /\ MinusOne \in Field
    BY <1>1, <1>2, <1>7
  <2> HIDE DEF q, v
  <2>2. QED
    BY <2>1, ThreeFactors, FieldClosed
<1>9. CASE c < m
  <2>1. a = Zero /\ d = Zero /\ p = Zero
    BY <1>4, <1>5, <1>6, <1>9
  <2>2. Mult(Mult(MinusOne, q), Zero) = Zero
    BY <1>7, TimesZero
  <2>3. QED
    BY <1>7, <2>1, <2>2, ZeroPlus, FieldClosed
<1>10. CASE c = m
  <2>1. a = Zero /\ d = u /\ p = v
    BY <1>4, <1>5, <1>6, <1>10
  <2>2. Mult(q, v) = u
    BY <1>2, <1>10
  <2>3. Plus(Mult(MinusOne, u), u) = Zero /\ Plus(u, Mult(MinusOne, u)) = Plus(Mult(MinusOne, u), u)
    BY <1>1, <1>7, MinusOneFacts, FieldAxioms, FieldClosed
  <2>4. Zero = Plus(u, Mult(Mult(MinusOne, q), v))
    BY <1>8, <2>2, <2>3
  <2>5. QED
    BY <1>7, <2>1, <2>4
<1>11. CASE c > m
  <2>1. a = Minus(u, Times(q, v)) /\ d = u /\ p = v
    BY <1>3, <1>4, <1>5, <1>6, <1>11
  <2>2. Times(q, v) = Mult(q, v) /\ Minus(u, Mult(q, v)) = Plus(u, Neg(Mult(q, v)))
    BY <1>1, <1>2, <1>8, EntryOperations
  <2>3. Neg(Mult(q, v)) = Mult(MinusOne, Mult(q, v))
    BY <1>8, NegIsTimes
  <2>4. QED
    BY <1>7, <1>8, <2>1, <2>2, <2>3
<1>12. QED
  BY <1>9, <1>10, <1>11

\* Each stage takes its rows from before or from after the step.
LEMMA StageFacts ==
    ASSUME NEW n \in Nat, NEW C \in Matrices(n), NEW D \in Matrices(n), NEW m \in 1 .. n, NEW i
    PROVE  /\ Stage(C, D, m, i, n) \in Matrices(n)
           /\ \A r \in 1 .. n : Stage(C, D, m, i, n)[r] =
                IF r <= m \/ r > i THEN Rest(C, m, n)[r] ELSE Rest(D, m + 1, n)[r]
<1>1. Rest(C, m, n) \in Matrices(n) /\ Rest(D, m + 1, n) \in Matrices(n)
  BY RestFacts
<1>2. QED
  BY <1>1 DEF Stage, Matrices

\* A column of the elimination adds multiples of the row of the pivot to the rows below.
LEMMA DeterminantEliminate ==
    ASSUME NEW n \in Nat, NEW C \in Matrices(n), NEW D \in Matrices(n), NEW m \in 1 .. n,
           C[m][m] # Zero, Eliminated(C, D, m, n)
    PROVE  DeterminantOf(Rest(D, m + 1, n), n) = DeterminantOf(Rest(C, m, n), n)
<1> DEFINE T == {i \in 0 .. n : DeterminantOf(Stage(C, D, m, i, n), n) = DeterminantOf(Rest(C, m, n), n)}
<1>1. /\ Rest(C, m, n) \in Matrices(n)
      /\ \A r, c \in 1 .. n : Rest(C, m, n)[r][c] = IF c < r /\ c < m THEN Zero ELSE C[r][c]
  BY RestFacts
<1>2. /\ Rest(D, m + 1, n) \in Matrices(n)
      /\ \A r, c \in 1 .. n : Rest(D, m + 1, n)[r][c] = IF c < r /\ c < m + 1 THEN Zero ELSE D[r][c]
  BY RestFacts
<1>3. \A M \in Matrices(n), K \in Matrices(n) : (\A r \in 1 .. n : M[r] = K[r]) => M = K
  BY DEF Matrices
<1>4. Stage(C, D, m, 0, n) = Rest(C, m, n)
  <2>1. \A r \in 1 .. n : Stage(C, D, m, 0, n)[r] = Rest(C, m, n)[r]
    BY StageFacts
  <2>2. Stage(C, D, m, 0, n) \in Matrices(n)
    BY StageFacts
  <2>3. QED
    BY <1>1, <1>3, <2>1, <2>2
<1>5. 0 \in T
  BY <1>4
<1>6. ASSUME NEW i \in 1 .. n, i - 1 \in T PROVE i \in T
  <2> DEFINE M == Stage(C, D, m, i - 1, n)
             K == Stage(C, D, m, i, n)
             q == Mult(MinusOne, Over(C[i][m], C[m][m]))
  <2>1. /\ M \in Matrices(n)
        /\ \A r \in 1 .. n : M[r] = IF r <= m \/ r > i - 1 THEN Rest(C, m, n)[r] ELSE Rest(D, m + 1, n)[r]
    BY StageFacts
  <2>2. /\ K \in Matrices(n)
        /\ \A r \in 1 .. n : K[r] = IF r <= m \/ r > i THEN Rest(C, m, n)[r] ELSE Rest(D, m + 1, n)[r]
    BY StageFacts
  <2>3. DeterminantOf(M, n) = DeterminantOf(Rest(C, m, n), n)
    BY <1>6
  <2>4. CASE i <= m
    <3> HIDE DEF M, K
    <3>1. \A r \in 1 .. n : K[r] = M[r]
      BY <2>1, <2>2, <2>4
    <3>2. K = M
      BY <1>3, <2>1, <2>2, <3>1
    <3>3. QED
      BY <2>3, <3>2 DEF K
  <2>5. CASE i > m
    <3>1. i # m /\ M[i] = Rest(C, m, n)[i] /\ M[m] = Rest(C, m, n)[m] /\ K[i] = Rest(D, m + 1, n)[i]
      BY <2>1, <2>2, <2>5
    <3>2. \A r \in 1 .. n : r # i => K[r] = M[r]
      BY <2>1, <2>2, <2>5
    <3>3. q \in Field
      BY <2>5, EliminatedRow
    <3>4. \A c \in 1 .. n : Rest(D, m + 1, n)[i][c] = Plus(Rest(C, m, n)[i][c], Mult(q, Rest(C, m, n)[m][c]))
      BY <2>5, EliminatedRow
    <3> HIDE DEF M, K, q
    <3>5. \A c \in 1 .. n : K[i][c] = Plus(M[i][c], Mult(q, M[m][c]))
      BY <3>1, <3>4
    <3>6. DeterminantOf(K, n) = DeterminantOf(M, n)
      <4>1. i \in 1 .. n /\ m \in 1 .. n /\ i # m
        BY <3>1
      <4>2. M \in Matrices(n) /\ K \in Matrices(n)
        BY <2>1, <2>2
      <4>3. QED
        BY <3>2, <3>3, <3>5, <4>1, <4>2, DeterminantAddRow
    <3>7. QED
      BY <2>3, <3>6 DEF K
  <2>6. QED
    BY <2>4, <2>5
<1> HIDE DEF T
<1>7. n \in T
  BY <1>5, <1>6, CountUp
<1>8. Stage(C, D, m, n, n) = Rest(D, m + 1, n)
  <2>1. /\ Stage(C, D, m, n, n) \in Matrices(n)
        /\ \A r \in 1 .. n : Stage(C, D, m, n, n)[r] =
             IF r <= m \/ r > n THEN Rest(C, m, n)[r] ELSE Rest(D, m + 1, n)[r]
    BY StageFacts
  <2>2. \A r \in 1 .. m : Rest(C, m, n)[r] = Rest(D, m + 1, n)[r]
    <3> TAKE r \in 1 .. m
    <3>1. r \in 1 .. n /\ r <= m
      OBVIOUS
    <3>2. \A c \in 1 .. n : D[r][c] = C[r][c]
      BY <3>1 DEF Eliminated
    <3>3. \A c \in 1 .. n : Rest(C, m, n)[r][c] = Rest(D, m + 1, n)[r][c]
      BY <1>1, <1>2, <3>1, <3>2
    <3>4. Rest(C, m, n)[r] \in [1 .. n -> Field] /\ Rest(D, m + 1, n)[r] \in [1 .. n -> Field]
      BY <1>1, <1>2, <3>1 DEF Matrices
    <3>5. QED
      BY <3>3, <3>4
  <2>3. \A r \in 1 .. n : Stage(C, D, m, n, n)[r] = Rest(D, m + 1, n)[r]
    BY <2>1, <2>2
  <2>4. QED
    BY <1>2, <1>3, <2>1, <2>3
<1>9. QED
  BY <1>7, <1>8 DEF T

\* Swapping rows whose factors are left out swaps the rows of the rest.
LEMMA DeterminantRestSwap ==
    ASSUME NEW n \in Nat, NEW C \in Matrices(n), NEW m \in 1 .. n, NEW i \in 1 .. n, m < i
    PROVE  DeterminantOf(Rest(Swapped(C, m, i), m, n), n) = Mult(MinusOne, DeterminantOf(Rest(C, m, n), n))
<1> DEFINE S == Swapped(C, m, i)
           M == Rest(C, m, n)
           K == Rest(S, m, n)
           L == Swapped(M, m, i)
<1>1. /\ S \in Matrices(n) /\ S[m] = C[i] /\ S[i] = C[m]
      /\ \A r \in 1 .. n : r # m /\ r # i => S[r] = C[r]
  BY DEF Swapped, Matrices
<1>2. M \in Matrices(n) /\ \A r, c \in 1 .. n : M[r][c] = IF c < r /\ c < m THEN Zero ELSE C[r][c]
  BY RestFacts
<1> HIDE DEF S, M
<1>3. K \in Matrices(n) /\ \A r, c \in 1 .. n : K[r][c] = IF c < r /\ c < m THEN Zero ELSE S[r][c]
  BY <1>1, RestFacts
<1>4. /\ L \in Matrices(n) /\ L[m] = M[i] /\ L[i] = M[m]
      /\ \A r \in 1 .. n : r # m /\ r # i => L[r] = M[r]
  BY <1>2 DEF Swapped, Matrices
<1>5. DeterminantOf(L, n) = Mult(MinusOne, DeterminantOf(M, n))
  BY <1>2, DeterminantSwap
<1> HIDE DEF K, L
<1>6. \A r, c \in 1 .. n : K[r][c] = L[r][c]
  <2> TAKE r \in 1 .. n, c \in 1 .. n
  <2>1. CASE r = m
    BY <1>1, <1>2, <1>3, <1>4, <2>1
  <2>2. CASE r = i
    BY <1>1, <1>2, <1>3, <1>4, <2>2
  <2>3. CASE r # m /\ r # i
    BY <1>1, <1>2, <1>3, <1>4, <2>3
  <2>4. QED
    BY <2>1, <2>2, <2>3
<1>7. K = L
  <2>1. K \in [1 .. n -> [1 .. n -> Field]] /\ L \in [1 .. n -> [1 .. n -> Field]]
    BY <1>3, <1>4 DEF Matrices
  <2>2. \A r \in 1 .. n : K[r] \in [1 .. n -> Field] /\ L[r] \in [1 .. n -> Field]
    BY <2>1
  <2>3. \A r \in 1 .. n : K[r] = L[r]
    BY <1>6, <2>2
  <2>4. QED
    BY <2>1, <2>3
<1>8. QED
  BY <1>5, <1>7 DEF K, L, S, M

-----------------------------------------------------------------------------
(* The inductive invariant. *)

Sign(m) == IF m % 2 = 0 THEN One ELSE MinusOne

\* What is left to be reduced has the determinant up to the sign of the swaps.  Behind a
\* pivot that was zero there is nothing but Undefined.
ReductionInv ==
    pc \in {"pivot", "eliminate"} =>
        /\ NoZeroPivot(coeff, j) => Determinant = Mult(Sign(rowSwaps), DeterminantOf(Rest(coeff, j, dim), dim))
        /\ ~NoZeroPivot(coeff, j) => \A r, c \in Row : r >= j /\ c >= j => coeff[r][c] = Undefined

DeterminantInv == ReductionInv /\ DeterminantCorrect

\* The determinant depends on the arguments only.
LEMMA DeterminantUnchanged ==
    ASSUME UNCHANGED args
    PROVE  Determinant' = Determinant
<1>1. dim' = dim /\ ReducedA' = ReducedA
  BY ArgsUnchanged
<1>2. QED
  BY <1>1 DEF Determinant

\* One more swap changes the sign.
LEMMA SignFacts ==
    ASSUME NEW m \in Nat
    PROVE  Sign(m) \in Field /\ Sign(m + 1) = Mult(Sign(m), MinusOne)
<1>1. Mult(One, MinusOne) = MinusOne /\ Mult(MinusOne, MinusOne) = One /\ MinusOne \in Field
  <2>1. MinusOne \in Field /\ Mult(MinusOne, MinusOne) = One
    BY MinusOneFacts
  <2>2. Mult(One, MinusOne) = Mult(MinusOne, One) /\ Mult(MinusOne, One) = MinusOne
    BY <2>1, FieldAxioms, FieldClosed
  <2>3. QED
    BY <2>1, <2>2
<1>2. CASE m % 2 = 0
  <2>1. (m + 1) % 2 # 0
    BY <1>2
  <2>2. QED
    BY <1>1, <1>2, <2>1, FieldClosed DEF Sign
<1>3. CASE m % 2 # 0
  <2>1. (m + 1) % 2 = 0
    BY <1>3
  <2>2. QED
    BY <1>1, <1>3, <2>1, FieldClosed DEF Sign
<1>4. QED
  BY <1>2, <1>3

\* At the start of an elimination everything is left.
LEMMA ReductionStart ==
    ASSUME NEW n \in Nat, NEW M \in Matrices(n)
    PROVE  /\ NoZeroPivot(M, 1)
           /\ DeterminantOf(M, n) = Mult(Sign(0), DeterminantOf(Rest(M, 1, n), n))
<1>1. NoZeroPivot(M, 1)
  BY DEF NoZeroPivot
<1>2. Rest(M, 1, n) = M
  <2>1. Rest(M, 1, n) = [r \in 1 .. n |-> [c \in 1 .. n |-> M[r][c]]]
    BY DEF Rest
  <2>2. M = [r \in 1 .. n |-> [c \in 1 .. n |-> M[r][c]]]
    BY DEF Matrices
  <2>3. QED
    BY <2>1, <2>2
<1>3. Sign(0) = One
  BY DEF Sign
<1>4. DeterminantOf(M, n) \in Field
  BY DeterminantFacts
<1>5. Mult(One, DeterminantOf(M, n)) = DeterminantOf(M, n)
  BY <1>4, FieldAxioms, FieldClosed
<1>6. QED
  BY <1>1, <1>2, <1>3, <1>5

\* Nothing has been reduced yet.
LEMMA InitDeterminant ==
    ASSUME IInv, Init
    PROVE  DeterminantInv
<1>1. /\ ArgsOK /\ coeff = ReducedA /\ j = 1 /\ rowSwaps = 0
      /\ pc \in {"pivot", "returned"} /\ (pc = "returned" => call.function = "invert")
  BY DEF IInv, Init
<1>2. dim \in Nat /\ ReducedA \in Matrices(dim)
  BY <1>1, ReducedFacts
<1>3. /\ NoZeroPivot(ReducedA, 1)
      /\ DeterminantOf(ReducedA, dim) = Mult(Sign(0), DeterminantOf(Rest(ReducedA, 1, dim), dim))
  BY <1>2, ReductionStart
<1>4. ReductionInv
  BY <1>1, <1>3 DEF ReductionInv, Determinant
<1>5. DeterminantCorrect
  BY <1>1 DEF DeterminantCorrect
<1>6. QED
  BY <1>4, <1>5 DEF DeterminantInv

\* Choosing a pivot swaps two rows of the rest, or none.
LEMMA ChoosePivotDeterminant ==
    ASSUME IInv, DeterminantInv, ChoosePivot
    PROVE  DeterminantInv'
<1>1. /\ ArgsOK /\ TypeOK /\ EliminationInv /\ ReductionInv
      /\ pc = "pivot" /\ pc' = "eliminate" /\ j < dim /\ j' = j
      /\ UNCHANGED args
  BY DEF IInv, DeterminantInv, ChoosePivot, args
<1>2. dim \in Nat /\ Row = 1 .. dim /\ j \in Row /\ ReducedA \in Matrices(dim)
  BY <1>1, ReducedFacts DEF EliminationInv, TypeOK, Row
<1>3. PICK i \in Pivots : /\ rowSwaps' = IF i # j THEN rowSwaps + 1 ELSE rowSwaps
                          /\ coeff' = Swapped(coeff, j, i)
  BY DEF ChoosePivot
<1>4. i \in Row /\ i >= j
  BY <1>2, PivotsFacts
<1>5. dim' = dim /\ Row' = Row /\ Determinant' = Determinant /\ call' = call
  BY <1>1, ArgsUnchanged, DeterminantUnchanged
<1>6. \A r \in Row : coeff'[r] = coeff[Partner(r, j, i)]
  BY <1>1, <1>2, <1>3, <1>4 DEF TypeOK, Swapped, Partner
<1>7. NoZeroPivot(coeff', j) <=> NoZeroPivot(coeff, j)
  <2>1. \A k \in 1 .. j - 1 : k \in Row /\ Partner(k, j, i) = k
    BY <1>2, <1>4 DEF Partner
  <2>2. QED
    BY <1>6, <2>1 DEF NoZeroPivot
<1>8. ASSUME NoZeroPivot(coeff, j)
      PROVE  Determinant = Mult(Sign(rowSwaps'), DeterminantOf(Rest(coeff', j, dim), dim))
  <2>1. Determinant = Mult(Sign(rowSwaps), DeterminantOf(Rest(coeff, j, dim), dim))
    BY <1>1, <1>8 DEF ReductionInv
  <2>2. coeff \in Matrices(dim)
    BY <1>1, <1>8 DEF EliminationInv
  <2>3. CASE i = j
    <3>1. coeff' = coeff
      <4>1. \A r \in 1 .. dim : coeff'[r] = coeff[r]
        BY <1>2, <1>6, <2>3 DEF Partner
      <4>2. coeff' \in [1 .. dim -> [1 .. dim -> Field]] /\ coeff \in [1 .. dim -> [1 .. dim -> Field]]
        BY <1>2, <1>3, <1>4, <2>2, SwapType DEF Matrices
      <4>3. coeff' = [r \in 1 .. dim |-> coeff'[r]] /\ coeff = [r \in 1 .. dim |-> coeff[r]]
        BY <4>2
      <4>4. QED
        BY <4>1, <4>3
    <3>2. QED
      BY <1>3, <2>1, <2>3, <3>1
  <2>4. CASE i # j
    <3> DEFINE d == DeterminantOf(Rest(coeff, j, dim), dim)
    <3>1. j < i /\ rowSwaps \in Nat
      BY <1>1, <1>2, <1>4, <2>4 DEF TypeOK
    <3>2. DeterminantOf(Rest(coeff', j, dim), dim) = Mult(MinusOne, d)
      BY <1>2, <1>3, <1>4, <2>2, <3>1, DeterminantRestSwap
    <3>3. Sign(rowSwaps') = Mult(Sign(rowSwaps), MinusOne) /\ Sign(rowSwaps) \in Field
      BY <1>3, <2>4, <3>1, SignFacts
    <3>4. Rest(coeff, j, dim) \in Matrices(dim)
      BY <1>2, <2>2, RestFacts
    <3>5. d \in Field
      BY <1>2, <3>4, DeterminantFacts
    <3> HIDE DEF d
    <3>6. MinusOne \in Field /\ Mult(MinusOne, Mult(MinusOne, d)) = d /\ Mult(MinusOne, d) \in Field
      BY <3>5, MinusOneFacts, FieldClosed
    <3>7. Mult(Mult(Sign(rowSwaps), MinusOne), Mult(MinusOne, d)) = Mult(Sign(rowSwaps), d)
      BY <3>3, <3>6, ThreeFactors
    <3>8. QED
      BY <2>1, <3>2, <3>3, <3>7 DEF d
  <2>5. QED
    BY <2>3, <2>4
<1>9. ASSUME ~NoZeroPivot(coeff, j), NEW r \in Row, NEW c \in Row, r >= j, c >= j
      PROVE  coeff'[r][c] = Undefined
  <2>1. Partner(r, j, i) \in Row /\ Partner(r, j, i) >= j
    BY <1>2, <1>4, <1>9 DEF Partner
  <2>2. QED
    BY <1>1, <1>6, <1>9, <2>1 DEF ReductionInv
<1>10. ReductionInv'
  BY <1>1, <1>5, <1>7, <1>8, <1>9 DEF ReductionInv
<1>11. DeterminantCorrect'
  BY <1>1 DEF DeterminantCorrect
<1>12. QED
  BY <1>10, <1>11 DEF DeterminantInv

\* Eliminating a column adds multiples of the row of the pivot.  A division by a pivot that
\* is zero makes everything below and right of it Undefined.
LEMMA EliminateColumnDeterminant ==
    ASSUME IInv, IInv', DeterminantInv, EliminateColumn
    PROVE  DeterminantInv'
<1>1. /\ ArgsOK /\ TypeOK /\ EliminationInv /\ ReductionInv
      /\ pc = "eliminate" /\ pc' = "pivot" /\ j < dim /\ j' = j + 1 /\ rowSwaps' = rowSwaps
      /\ UNCHANGED args
  BY DEF IInv, DeterminantInv, EliminateColumn, EliminationInv, args
<1>2. dim \in Nat /\ Row = 1 .. dim /\ j \in 1 .. dim
  BY <1>1, ReducedFacts DEF EliminationInv, TypeOK, Row
<1>3. dim' = dim /\ Row' = Row /\ Determinant' = Determinant
  BY <1>1, ArgsUnchanged, DeterminantUnchanged
<1>4. coeff' = [i \in Row |-> [k \in Row |->
                  IF i <= j \/ k < j THEN coeff[i][k]
                  ELSE IF k = j THEN Over(coeff[i][j], coeff[j][j])
                  ELSE Minus(coeff[i][k], Times(Over(coeff[i][j], coeff[j][j]), coeff[j][k]))]]
  BY DEF EliminateColumn
<1>5. Eliminated(coeff, coeff', j, dim)
  BY <1>2, <1>4 DEF Eliminated
<1>6. NoZeroPivot(coeff', j + 1) <=> NoZeroPivot(coeff, j) /\ coeff[j][j] # Zero
  <2>1. \A k \in 1 .. j : coeff'[k][k] = coeff[k][k]
    BY <1>2, <1>4
  <2>2. QED
    BY <1>2, <2>1 DEF NoZeroPivot
<1>7. ASSUME NoZeroPivot(coeff', j + 1)
      PROVE  Determinant = Mult(Sign(rowSwaps), DeterminantOf(Rest(coeff', j + 1, dim), dim))
  <2>1. /\ coeff \in Matrices(dim) /\ coeff[j][j] # Zero
        /\ Determinant = Mult(Sign(rowSwaps), DeterminantOf(Rest(coeff, j, dim), dim))
    BY <1>1, <1>6, <1>7 DEF EliminationInv, ReductionInv
  <2>2. coeff' \in Matrices(dim)
    BY <1>1, <1>3, <1>7 DEF IInv, EliminationInv
  <2>3. DeterminantOf(Rest(coeff', j + 1, dim), dim) = DeterminantOf(Rest(coeff, j, dim), dim)
    BY <1>2, <1>5, <2>1, <2>2, DeterminantEliminate
  <2>4. QED
    BY <2>1, <2>3
<1>8. ASSUME ~NoZeroPivot(coeff', j + 1), NEW r \in Row, NEW c \in Row, r >= j + 1, c >= j + 1
      PROVE  coeff'[r][c] = Undefined
  <2>1. coeff'[r][c] = Minus(coeff[r][c], Times(Over(coeff[r][j], coeff[j][j]), coeff[j][c]))
    BY <1>2, <1>4, <1>8
  <2>2. CASE NoZeroPivot(coeff, j)
    <3>1. coeff[j][j] = Zero
      BY <1>6, <1>8, <2>2
    <3>2. Over(coeff[r][j], coeff[j][j]) = Undefined
      BY <3>1 DEF Over
    <3>3. Times(Undefined, coeff[j][c]) = Undefined
      BY DEF Times
    <3>4. Minus(coeff[r][c], Undefined) = Undefined
      BY DEF Minus
    <3>5. QED
      BY <2>1, <3>2, <3>3, <3>4
  <2>3. CASE ~NoZeroPivot(coeff, j)
    <3>1. coeff[r][c] = Undefined
      BY <1>1, <1>2, <1>8, <2>3 DEF ReductionInv
    <3>2. QED
      BY <2>1, <3>1 DEF Minus
  <2>4. QED
    BY <2>2, <2>3
<1>9. ReductionInv'
  BY <1>1, <1>3, <1>7, <1>8 DEF ReductionInv
<1>10. DeterminantCorrect'
  BY <1>1 DEF DeterminantCorrect
<1>11. QED
  BY <1>9, <1>10 DEF DeterminantInv

\* At the end the rest is triangular, and its determinant the product of the diagonal.  If
\* there was a zero, the last factor is Undefined.
LEMMA ReturnDeterminantCorrect ==
    ASSUME IInv, DeterminantInv, ReturnDeterminant
    PROVE  DeterminantInv'
<1> DEFINE d == [i \in 1 .. dim |-> coeff[i][i]]
           u == Sign(rowSwaps)
<1>1. /\ ArgsOK /\ TypeOK /\ EliminationInv /\ ReductionInv
      /\ pc = "pivot" /\ pc' = "returned" /\ j >= dim
      /\ UNCHANGED args
  BY DEF IInv, DeterminantInv, ReturnDeterminant, args
<1>2. dim \in Nat /\ Row = 1 .. dim
  BY <1>1, ReducedFacts
<1>3. Determinant' = Determinant /\ Singular' = Singular
  BY <1>1, ArgsUnchanged, DeterminantUnchanged
<1>4. det' = ProductOf(u, d, dim)
  <2>1. det' = ProductOf(IF rowSwaps % 2 = 0 THEN One ELSE Neg(One), [i \in Row |-> coeff[i][i]], dim)
    BY DEF ReturnDeterminant
  <2>2. QED
    BY <1>2, <2>1 DEF Sign, MinusOne
<1>5. u \in Field
  BY <1>1, SignFacts DEF TypeOK
<1>6. j = dim \/ dim = 0
  BY <1>1, <1>2 DEF EliminationInv, TypeOK
<1> HIDE DEF u
<1>7. CASE NoZeroPivot(coeff, j)
  <2> DEFINE M == Rest(coeff, j, dim)
  <2>1. coeff \in Matrices(dim) /\ Determinant = Mult(u, DeterminantOf(M, dim))
    BY <1>1, <1>7 DEF EliminationInv, ReductionInv, u
  <2>2. j \in Nat
    BY <1>1, <1>2 DEF TypeOK
  <2>3. /\ M \in Matrices(dim)
        /\ \A r, c \in 1 .. dim : M[r][c] = IF c < r /\ c < j THEN Zero ELSE coeff[r][c]
    BY <1>2, <2>1, <2>2, RestFacts
  <2> HIDE DEF M
  <2>4. \A r, c \in 1 .. dim : c < r => M[r][c] = Zero
    BY <1>1, <1>2, <2>2, <2>3
  <2>5. [r \in 1 .. dim |-> M[r][r]] = d
    BY <1>2, <2>3
  <2>6. DeterminantOf(M, dim) = ProductOf(One, d, dim)
    BY <1>2, <2>3, <2>4, <2>5, DeterminantTriangular
  <2>7. d \in Vectors(dim)
    BY <1>2, <2>1, MatrixEntries DEF Vectors
  <2> HIDE DEF d
  <2>8. ProductOf(u, d, dim) = Mult(u, ProductOf(One, d, dim))
    BY <1>2, <1>5, <2>7, ProductScale
  <2>9. det' = Determinant
    BY <1>4, <2>1, <2>6, <2>8
  <2>10. QED
    BY <1>1, <1>3, <2>9 DEF DeterminantInv, ReductionInv, DeterminantCorrect
<1>8. CASE ~NoZeroPivot(coeff, j)
  <2>1. j = dim /\ dim \in 1 .. dim
    BY <1>1, <1>2, <1>6, <1>8 DEF NoZeroPivot, TypeOK
  <2>2. coeff[dim][dim] = Undefined
    BY <1>1, <1>2, <1>8, <2>1 DEF ReductionInv
  <2>3. d[dim] = Undefined
    BY <2>1, <2>2
  <2>4. d \in [1 .. dim -> Entry]
    BY <1>1, <1>2 DEF TypeOK
  <2> HIDE DEF d
  <2>5. ProductOf(u, d, dim) = Times(Products(u, d, dim)[dim - 1], d[dim])
    <3>1. u \in Entry
      BY <1>5 DEF Entry
    <3>2. QED
      BY <1>2, <2>1, <2>4, <3>1, LastFactor
  <2>6. det' = Undefined
    BY <1>4, <2>3, <2>5 DEF Times
  <2>7. Singular
    BY <1>1, <1>8 DEF EliminationInv
  <2>8. QED
    BY <1>1, <1>3, <2>6, <2>7 DEF DeterminantInv, ReductionInv, DeterminantCorrect
<1>9. QED
  BY <1>7, <1>8

\* The inverse starts over with the original matrix for every column.
LEMMA NextColumnDeterminant ==
    ASSUME IInv, NextColumn
    PROVE  DeterminantInv'
<1>1. /\ ArgsOK /\ pc' = "pivot" /\ coeff' = ReducedA /\ j' = 1 /\ rowSwaps' = 0
      /\ UNCHANGED args
  BY DEF IInv, NextColumn, args
<1>2. dim \in Nat /\ ReducedA \in Matrices(dim)
  BY <1>1, ReducedFacts
<1>3. dim' = dim /\ Determinant' = Determinant
  BY <1>1, ArgsUnchanged, DeterminantUnchanged
<1>4. /\ NoZeroPivot(ReducedA, 1)
      /\ Determinant = Mult(Sign(0), DeterminantOf(Rest(ReducedA, 1, dim), dim))
  BY <1>2, ReductionStart DEF Determinant
<1>5. ReductionInv'
  BY <1>1, <1>3, <1>4 DEF ReductionInv
<1>6. DeterminantCorrect'
  BY <1>1 DEF DeterminantCorrect
<1>7. QED
  BY <1>5, <1>6 DEF DeterminantInv

\* No other step returns a determinant, and the exceptions are for singular matrices.
LEMMA OtherStepsDeterminant ==
    ASSUME IInv', UNCHANGED args, pc' \notin {"pivot", "eliminate"},
           pc' = "returned" => call.function # "determinant"
    PROVE  DeterminantInv'
<1>1. call' = call
  BY ArgsUnchanged
<1>2. pc' = "thrown" => Singular'
  BY DEF IInv, OutcomeInv
<1>3. QED
  BY <1>1, <1>2 DEF DeterminantInv, ReductionInv, DeterminantCorrect

\* Nothing changes.
LEMMA StutterDeterminant ==
    ASSUME DeterminantInv, UNCHANGED vars
    PROVE  DeterminantInv'
<1>1. UNCHANGED args /\ UNCHANGED <<coeff, j, rowSwaps, det, pc>>
  BY DEF vars, args
<1>2. /\ call' = call /\ dim' = dim /\ Row' = Row /\ Determinant' = Determinant
      /\ Singular' = Singular
  BY <1>1, ArgsUnchanged, DeterminantUnchanged
<1>3. ReductionInv'
  BY <1>1, <1>2 DEF DeterminantInv, ReductionInv
<1>4. DeterminantCorrect'
  BY <1>1, <1>2 DEF DeterminantInv, DeterminantCorrect
<1>5. QED
  BY <1>3, <1>4 DEF DeterminantInv

\* Every step keeps the determinant of what is left.
LEMMA NextDeterminant ==
    ASSUME IInv, IInv', DeterminantInv, [Next]_vars
    PROVE  DeterminantInv'
<1>1. CASE ChoosePivot
  BY <1>1, ChoosePivotDeterminant
<1>2. CASE ThrowNoPivot
  BY <1>2, OtherStepsDeterminant DEF ThrowNoPivot, args
<1>3. CASE EliminateColumn
  BY <1>3, EliminateColumnDeterminant
<1>4. CASE ComputeSolution
  BY <1>4, OtherStepsDeterminant DEF ComputeSolution, args
<1>5. CASE ForwardSubstitution
  BY <1>5, OtherStepsDeterminant DEF ForwardSubstitution, args
<1>6. CASE StartBackSubstitution
  BY <1>6, OtherStepsDeterminant DEF StartBackSubstitution, args
<1>7. CASE BackSubstitution
  BY <1>7, OtherStepsDeterminant DEF BackSubstitution, args
<1>8. CASE ThrowSingular
  BY <1>8, OtherStepsDeterminant DEF ThrowSingular, args
<1>9. CASE ReturnSolution
  BY <1>9, OtherStepsDeterminant DEF ReturnSolution, args
<1>10. CASE ReturnDeterminant
  BY <1>10, ReturnDeterminantCorrect
<1>11. CASE NextColumn
  BY <1>11, NextColumnDeterminant
<1>12. CASE ReturnInverse
  BY <1>12, OtherStepsDeterminant DEF ReturnInverse, args
<1>13. CASE UNCHANGED vars
  BY <1>13, StutterDeterminant
<1>14. QED
  BY <1>1, <1>2, <1>3, <1>4, <1>5, <1>6, <1>7, <1>8, <1>9, <1>10, <1>11, <1>12, <1>13 DEF Next

-----------------------------------------------------------------------------
(* The result. *)

\* What determinant() returns, the product of the pivots with the sign of the row swaps, is
\* the determinant by definition, the sum of the signed products along all permutations,
\* for every field, every number of rows, every skip field and every choice of pivots.
\* Undefined and the exception mean that the matrix is singular.
THEOREM DeterminantIsRight == Spec => []DeterminantCorrect
<1>1. Init /\ IInv => DeterminantInv
  BY InitDeterminant
<1>2. IInv /\ IInv' /\ DeterminantInv /\ [Next]_vars => DeterminantInv'
  BY NextDeterminant
<1>3. DeterminantInv => DeterminantCorrect
  BY DEF DeterminantInv
<1>4. QED
  BY <1>1, <1>2, <1>3, Invariant, PTL DEF Spec
=============================================================================
