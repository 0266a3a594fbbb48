------------------------------ MODULE Recursion ------------------------------
(***************************************************************************)
(* Induction and recursion along a measure, stated for sets and functions  *)
(* instead of operators: what is needed to reason about the recursive      *)
(* functions of the other modules.                                         *)
(***************************************************************************)
EXTENDS WellFoundedInduction, TLAPS

\* A set of natural numbers that is not empty has a least element.
LEMMA LeastNumber ==
    ASSUME NEW T \in SUBSET Nat, T # {}
    PROVE  \E m \in T : \A k \in T : m <= k
<1> DEFINE R == OpToRel(<, Nat)
<1>1. IsWellFoundedOn(R, Nat)
  BY NatLessThanWellFounded
<1> HIDE DEF R
<1>2. PICK m \in T : \A k \in T : <<k, m>> \notin R
  BY <1>1, WFMin
<1>3. ASSUME NEW k \in T PROVE m <= k
  <2>1. m \in Nat /\ k \in Nat
    OBVIOUS
  <2>2. k < m => <<k, m>> \in R
    BY <2>1 DEF R, OpToRel
  <2>3. QED
    BY <1>2, <2>1, <2>2
<1>4. QED
  BY <1>3

\* Induction along a measure: a set that contains whatever has all that is smaller in
\* the set contains everything.
LEMMA MeasureInduction ==
    ASSUME NEW D, NEW mu \in [D -> Nat], NEW T,
           \A x \in D : (\A y \in D : mu[y] < mu[x] => y \in T) => x \in T
    PROVE  D \subseteq T
<1> SUFFICES ASSUME D \ T # {} PROVE FALSE
  OBVIOUS
<1> DEFINE M == {mu[x] : x \in D \ T}
<1>1. M \in SUBSET Nat /\ M # {}
  OBVIOUS
<1>2. PICK m \in M : \A k \in M : m <= k
  BY <1>1, LeastNumber
<1>3. PICK x \in D \ T : mu[x] = m
  OBVIOUS
<1>4. ASSUME NEW y \in D, mu[y] < mu[x] PROVE y \in T
  <2>1. SUFFICES ASSUME y \notin T PROVE FALSE
    OBVIOUS
  <2>2. mu[y] \in M
    BY <2>1
  <2>3. m <= mu[y] /\ mu[y] \in Nat /\ mu[x] \in Nat
    BY <1>2, <2>2
  <2>4. QED
    BY <1>3, <1>4, <2>3
<1>5. QED
  BY <1>4

\* The same for the natural numbers themselves.
LEMMA CompleteInduction ==
    ASSUME NEW T,
           \A m \in Nat : (\A k \in Nat : k < m => k \in T) => m \in T
    PROVE  Nat \subseteq T
<1> SUFFICES ASSUME Nat \ T # {} PROVE FALSE
  OBVIOUS
<1>1. PICK m \in Nat \ T : \A k \in Nat \ T : m <= k
  BY LeastNumber
<1>2. \A k \in Nat : k < m => k \in T
  BY <1>1
<1>3. QED
  BY <1>1, <1>2

-----------------------------------------------------------------------------

\* The equation at x of a recursion that ends at the leaves and goes on with what
\* precedes x otherwise.
Equation(f, x, leaf, base, prec, comb) ==
    f[x] = IF x \in leaf THEN base[x] ELSE comb[x][f[prec[x]]]

\* Recursion along a measure that decreases is well-defined.
LEMMA RecursionExists ==
    ASSUME NEW D, NEW S, NEW mu \in [D -> Nat], NEW leaf \in SUBSET D,
           NEW base \in [D -> S], NEW comb \in [D -> [S -> S]], NEW prec \in [D -> D],
           \A x \in D \ leaf : mu[prec[x]] < mu[x]
    PROVE  \E f \in [D -> S] : \A x \in D : Equation(f, x, leaf, base, prec, comb)
<1> DEFINE Eq(g, x)    == Equation(g, x, leaf, base, prec, comb)
           Upto(g, m)  == \A x \in D : mu[x] <= m => Eq(g, x)
           T           == {m \in Nat : \E g \in [D -> S] : Upto(g, m)}
<1>1. ASSUME NEW m \in Nat, \A k \in Nat : k < m => k \in T
      PROVE  m \in T
  <2>1. PICK g \in [D -> S] : \A x \in D : mu[x] < m => Eq(g, x)
    <3>1. CASE m = 0
      <4>1. \A x \in D : ~(mu[x] < m)
        BY <3>1
      <4>2. QED
        BY <4>1
    <3>2. CASE m # 0
      <4>1. m - 1 \in Nat /\ m - 1 < m
        BY <3>2
      <4>2. m - 1 \in T
        BY <1>1, <4>1
      <4>3. PICK g \in [D -> S] : Upto(g, m - 1)
        BY <4>2
      <4>4. \A x \in D : mu[x] < m => mu[x] <= m - 1
        OBVIOUS
      <4>5. QED
        BY <4>3, <4>4
    <3>3. QED
      BY <3>1, <3>2
  <2> DEFINE h == [x \in D |-> IF x \in leaf THEN base[x] ELSE comb[x][g[prec[x]]]]
  <2>2. h \in [D -> S]
    OBVIOUS
  <2>3. \A x \in D : mu[x] < m => h[x] = g[x]
    BY <2>1 DEF Equation
  <2>4. ASSUME NEW x \in D, mu[x] <= m PROVE Eq(h, x)
    <3>1. CASE x \in leaf
      BY <3>1 DEF Equation
    <3>2. CASE x \notin leaf
      <4>1. prec[x] \in D /\ mu[prec[x]] < mu[x]
        BY <3>2
      <4>2. mu[prec[x]] < m
        <5>1. mu[x] \in Nat /\ mu[prec[x]] \in Nat
          BY <4>1
        <5>2. QED
          BY <2>4, <4>1, <5>1
      <4>3. h[prec[x]] = g[prec[x]]
        BY <2>3, <4>1, <4>2
      <4>4. h[x] = comb[x][g[prec[x]]]
        BY <3>2
      <4>5. QED
        BY <3>2, <4>3, <4>4 DEF Equation
    <3>3. QED
      BY <3>1, <3>2
  <2> HIDE DEF h
  <2>5. QED
    BY <2>2, <2>4
<1>2. Nat \subseteq T
  <2> HIDE DEF T
  <2>1. QED
    BY <1>1, CompleteInduction
\* Two solutions agree wherever both satisfy the equation.
<1>3. \A m \in Nat : \A g, h :
        Upto(g, m) /\ Upto(h, m) => \A x \in D : mu[x] <= m => g[x] = h[x]
  <2> SUFFICES ASSUME NEW m \in Nat, NEW g, NEW h, Upto(g, m), Upto(h, m)
               PROVE  \A x \in D : mu[x] <= m => g[x] = h[x]
    OBVIOUS
  <2> DEFINE U == {x \in D : mu[x] <= m => g[x] = h[x]}
  <2>1. \A x \in D : (\A y \in D : mu[y] < mu[x] => y \in U) => x \in U
    <3> SUFFICES ASSUME NEW x \in D, \A y \in D : mu[y] < mu[x] => y \in U, mu[x] <= m
                 PROVE  g[x] = h[x]
      OBVIOUS
    <3>1. CASE x \in leaf
      BY <3>1 DEF Equation
    <3>2. CASE x \notin leaf
      <4>1. /\ prec[x] \in D /\ mu[prec[x]] < mu[x]
            /\ mu[x] \in Nat /\ mu[prec[x]] \in Nat
        BY <3>2
      <4>2. prec[x] \in U /\ mu[prec[x]] <= m
        BY <4>1
      <4>3. g[prec[x]] = h[prec[x]]
        BY <4>2
      <4>4. QED
        BY <3>2, <4>3 DEF Equation
    <3>3. QED
      BY <3>1, <3>2
  <2> HIDE DEF U
  <2>2. D \subseteq U
    BY <2>1, MeasureInduction, ZenonT(40)
  <2>3. QED
    BY <2>2 DEF U
<1>4. \A m \in Nat : \E g \in [D -> S] : Upto(g, m)
  <2> TAKE m \in Nat
  <2>1. m \in T
    <3> HIDE DEF T
    <3>1. QED
      BY <1>2
  <2>2. QED
    BY <2>1
<1> DEFINE sol(m) == CHOOSE g \in [D -> S] : Upto(g, m)
           f      == [x \in D |-> sol(mu[x])[x]]
<1>5. ASSUME NEW m \in Nat PROVE sol(m) \in [D -> S] /\ Upto(sol(m), m)
  <2> HIDE DEF Upto
  <2>1. QED
    BY <1>4
<1> HIDE DEF sol
<1>6. f \in [D -> S]
  BY <1>5
<1>7. ASSUME NEW x \in D PROVE Eq(f, x)
  <2>1. mu[x] \in Nat /\ f[x] = sol(mu[x])[x] /\ Eq(sol(mu[x]), x)
    BY <1>5
  <2>2. CASE x \in leaf
    BY <2>1, <2>2 DEF Equation
  <2>3. CASE x \notin leaf
    <3> DEFINE y == prec[x]
               g == sol(mu[y])
               h == sol(mu[x])
    <3>1. y \in D /\ mu[y] < mu[x] /\ f[y] = g[y]
      BY <2>3
    <3> mu[y] \in Nat
      BY <2>3
    <3>2. Upto(g, mu[y])
      BY <1>5, <3>1
    <3>3. Upto(h, mu[y])
      <4>1. \A z \in D : mu[z] <= mu[y] => mu[z] <= mu[x]
        BY <2>1, <3>1
      <4>2. QED
        BY <1>5, <2>1, <4>1
    <3>4. \A z \in D : mu[z] <= mu[y] => g[z] = h[z]
      <4> HIDE DEF g, h, y, Upto
      <4>1. QED
        BY <1>3, <3>2, <3>3
    <3>5. g[y] = h[y]
      BY <3>1, <3>4
    <3>6. QED
      BY <2>1, <2>3, <3>1, <3>5 DEF Equation
  <2>4. QED
    BY <2>2, <2>3
<1> HIDE DEF f
<1>8. QED
  BY <1>6, <1>7

\* Induction up to n: a set with 0 and each successor up to n contains n.
LEMMA CountUp ==
    ASSUME NEW n \in Nat, NEW T, 0 \in T, \A k \in 1 .. n : k - 1 \in T => k \in T
    PROVE  n \in T
<1> DEFINE U == {k \in Nat : k <= n => k \in T}
<1>1. \A m \in Nat : (\A k \in Nat : k < m => k \in U) => m \in U
  <2> SUFFICES ASSUME NEW m \in Nat, \A k \in Nat : k < m => k \in U, m <= n
               PROVE  m \in T
    OBVIOUS
  <2>1. CASE m = 0
    BY <2>1
  <2>2. CASE m # 0
    <3>1. m - 1 \in U /\ m \in 1 .. n
      BY <2>2
    <3>2. QED
      BY <3>1
  <2>3. QED
    BY <2>1, <2>2
<1> HIDE DEF U
<1>2. Nat \subseteq U
  BY <1>1, CompleteInduction
<1>3. QED
  BY <1>2 DEF U

Accumulates(g, n, a, op) == g[0] = a /\ \A k \in 1 .. n : g[k] = op[k][g[k - 1]]

\* Accumulating the values of a function is well-defined.
LEMMA Accumulation ==
    ASSUME NEW n \in Nat, NEW S, NEW a \in S, NEW op \in [1 .. n -> [S -> S]]
    PROVE  \E g \in [0 .. n -> S] : Accumulates(g, n, a, op)
<1> DEFINE D    == 0 .. n
           mu   == [k \in D |-> k]
           leaf == {0}
           base == [k \in D |-> a]
           prec == [k \in D |-> IF k = 0 THEN 0 ELSE k - 1]
           comb == [k \in D |-> IF k = 0 THEN [s \in S |-> s] ELSE op[k]]
<1>1. mu \in [D -> Nat] /\ leaf \in SUBSET D /\ base \in [D -> S] /\ prec \in [D -> D]
  OBVIOUS
<1>2. comb \in [D -> [S -> S]]
  <2>1. ASSUME NEW k \in D PROVE (IF k = 0 THEN [s \in S |-> s] ELSE op[k]) \in [S -> S]
    <3>1. CASE k = 0
      BY <3>1
    <3>2. CASE k # 0
      <4>1. k \in 1 .. n
        BY <3>2
      <4>2. QED
        BY <3>2, <4>1
    <3>3. QED
      BY <3>1, <3>2
  <2>2. QED
    BY <2>1
<1>3. \A k \in D \ leaf : mu[prec[k]] < mu[k]
  OBVIOUS
<1>4. PICK g \in [D -> S] : \A k \in D : Equation(g, k, leaf, base, prec, comb)
  <2> HIDE DEF D, mu, leaf, base, prec, comb
  <2>1. QED
    BY <1>1, <1>2, <1>3, RecursionExists
<1>5. \A k \in D : g[k] = IF k = 0 THEN a ELSE op[k][g[k - 1]]
  BY <1>4 DEF Equation
<1>6. QED
  BY <1>5 DEF Accumulates

=============================================================================
