------------------------ MODULE GaussEliminationProofs ------------------------
(***************************************************************************)
(* Proofs about linear systems, for every field, every number of rows and  *)
(* every skip field.                                                       *)
(***************************************************************************)
EXTENDS GaussElimination, LinearAlgebraProofs, SequenceTheorems

-----------------------------------------------------------------------------
(* The indices that are kept. *)

\* The equations of the recursive function KeptUpTo, and its type.
LEMMA KeptDef ==
    ASSUME NEW skipped
    PROVE  /\ KeptUpTo(skipped) \in [0 .. Dim -> Seq(Index)]
           /\ KeptUpTo(skipped)[0] = <<>>
           /\ \A i \in Index : KeptUpTo(skipped)[i] = IF i \in skipped THEN KeptUpTo(skipped)[i - 1]
                                                     ELSE Append(KeptUpTo(skipped)[i - 1], i)
<1> DEFINE n == Dim
           S == Seq(Index)
           op == [i \in 1 .. n |-> [s \in S |-> IF i \in skipped THEN s ELSE Append(s, i)]]
           Body(g) == [i \in 0 .. n |-> IF i = 0 THEN <<>>
                                        ELSE IF i \in skipped THEN g[i - 1] ELSE Append(g[i - 1], i)]
           K == KeptUpTo(skipped)
<1>1. n \in Nat /\ <<>> \in S
  BY InputsAssumption, EmptySeq
<1>2. \A i \in 1 .. n, s \in S : Append(s, i) \in S
  BY AppendProperties DEF Index
<1>3. op \in [1 .. n -> [S -> S]]
  <2> HIDE DEF S
  <2>1. QED
    BY <1>2
<1>4. PICK g \in [0 .. n -> S] : Accumulates(g, n, <<>>, op)
  <2> HIDE DEF n, S, op
  <2>1. QED
    BY <1>1, <1>3, Accumulation
<1> HIDE DEF S
<1>5. \A i \in 1 .. n : op[i][g[i - 1]] = IF i \in skipped THEN g[i - 1] ELSE Append(g[i - 1], i)
  BY <1>1
<1>6. g = Body(g)
  <2> HIDE DEF op
  <2>1. \A i \in 0 .. n : g[i] = IF i = 0 THEN <<>>
                                 ELSE IF i \in skipped THEN g[i - 1] ELSE Append(g[i - 1], i)
    <3> TAKE i \in 0 .. n
    <3>1. CASE i = 0
      BY <1>4, <3>1 DEF Accumulates
    <3>2. CASE i # 0
      <4>1. i \in 1 .. n
        BY <1>1, <3>2
      <4>2. g[i] = op[i][g[i - 1]]
        BY <1>4, <4>1 DEF Accumulates
      <4>3. QED
        BY <1>5, <3>2, <4>1, <4>2
    <3>3. QED
      BY <3>1, <3>2
  <2>2. QED
    BY <2>1
<1>7. K = Body(K)
  <2>1. K = CHOOSE h : h = Body(h)
    BY DEF KeptUpTo
  <2> HIDE DEF Body, K
  <2>2. QED
    BY <1>6, <2>1
<1> HIDE DEF K
<1>8. \A i \in 0 .. n : K[i] = IF i = 0 THEN <<>>
                               ELSE IF i \in skipped THEN K[i - 1] ELSE Append(K[i - 1], i)
  BY <1>7
<1>9. ASSUME NEW m \in 0 .. n PROVE K[m] \in S
  <2> DEFINE T == {i \in Nat : K[i] \in S}
  <2>1. 0 \in T
    BY <1>1, <1>8
  <2>2. \A i \in 1 .. m : i - 1 \in T => i \in T
    BY <1>1, <1>2, <1>8, SMTT(20)
  <2> HIDE DEF T
  <2>3. m \in T
    BY <2>1, <2>2, CountUp
  <2>4. QED
    BY <2>3 DEF T
<1>10. K = [i \in 0 .. n |-> K[i]]
  <2>1. Body(K) = [i \in 0 .. n |-> Body(K)[i]]
    OBVIOUS
  <2> HIDE DEF Body
  <2>2. QED
    BY <1>7, <2>1
<1>11. K \in [0 .. n -> S]
  BY <1>9, <1>10
<1>12. K[0] = <<>>
  BY <1>1, <1>8
<1>13. \A i \in Index : K[i] = IF i \in skipped THEN K[i - 1] ELSE Append(K[i - 1], i)
  <2>1. \A i \in Index : i \in 0 .. n /\ i # 0
    BY <1>1 DEF Index
  <2>2. QED
    BY <1>8, <2>1
<1>14. QED
  BY <1>11, <1>12, <1>13 DEF K, S

\* The first i indices: those that aren't skipped, in order.
LEMMA KeptUpToFacts ==
    ASSUME NEW skipped, NEW m \in 0 .. Dim
    PROVE  LET s == KeptUpTo(skipped)[m]
           IN  /\ s \in Seq(Index)
               /\ \A k \in 1 .. Len(s) : s[k] \in 1 .. m /\ s[k] \notin skipped
               /\ \A k, l \in 1 .. Len(s) : k < l => s[k] < s[l]
               /\ \A q \in 1 .. m : q \notin skipped => \E k \in 1 .. Len(s) : s[k] = q
<1> DEFINE K == KeptUpTo(skipped)
           Good(s, i) == /\ \A k \in 1 .. Len(s) : s[k] \in 1 .. i /\ s[k] \notin skipped
                         /\ \A k, l \in 1 .. Len(s) : k < l => s[k] < s[l]
                         /\ \A q \in 1 .. i : q \notin skipped => \E k \in 1 .. Len(s) : s[k] = q
           T == {i \in 0 .. m : Good(K[i], i)}
<1>1. /\ K \in [0 .. Dim -> Seq(Index)] /\ K[0] = <<>>
      /\ \A i \in Index : K[i] = IF i \in skipped THEN K[i - 1] ELSE Append(K[i - 1], i)
  BY KeptDef
<1>2. Dim \in Nat /\ m \in Nat
  BY InputsAssumption
<1> HIDE DEF K
<1>3. 0 \in T
  BY <1>1, <1>2
<1>4. ASSUME NEW i \in 1 .. m, i - 1 \in T PROVE i \in T
  <2> DEFINE s == K[i - 1]
             t == K[i]
  <2>1. i \in Index /\ i - 1 \in 0 .. Dim /\ s \in Seq(Index) /\ Good(s, i - 1)
    <3>1. i \in Index /\ i - 1 \in 0 .. Dim
      BY <1>2 DEF Index
    <3>2. Good(s, i - 1)
      BY <1>4
    <3> HIDE DEF Good
    <3>3. QED
      BY <1>1, <3>1, <3>2
  <2>2. CASE i \in skipped
    <3>1. t = s
      BY <1>1, <2>1, <2>2
    <3> HIDE DEF s, t
    <3>2. Good(t, i)
      BY <1>2, <2>1, <2>2, <3>1
    <3>3. QED
      BY <3>2 DEF t
  <2>3. CASE i \notin skipped
    <3>1. t = Append(s, i)
      BY <1>1, <2>1, <2>3
    <3> HIDE DEF s, t
    <3>2. /\ Len(t) = Len(s) + 1 /\ Len(s) \in Nat
          /\ t[Len(s) + 1] = i /\ \A k \in 1 .. Len(s) : t[k] = s[k]
      BY <2>1, <3>1
    <3>3. Good(t, i)
      <4>1. \A k \in 1 .. Len(t) : t[k] \in 1 .. i /\ t[k] \notin skipped
        BY <1>2, <2>1, <2>3, <3>2
      <4>2. \A k, l \in 1 .. Len(t) : k < l => t[k] < t[l]
        <5> SUFFICES ASSUME NEW k \in 1 .. Len(t), NEW l \in 1 .. Len(t), k < l
                     PROVE  t[k] < t[l]
          OBVIOUS
        <5>1. k \in 1 .. Len(s) /\ s[k] \in 1 .. i - 1 /\ t[k] = s[k]
          BY <2>1, <3>2
        <5>2. CASE l = Len(s) + 1
          BY <3>2, <5>1, <5>2
        <5>3. CASE l # Len(s) + 1
          <6>1. l \in 1 .. Len(s)
            BY <3>2, <5>3
          <6>2. QED
            BY <2>1, <3>2, <5>1, <6>1
        <5>4. QED
          BY <5>2, <5>3
      <4>3. \A q \in 1 .. i : q \notin skipped => \E k \in 1 .. Len(t) : t[k] = q
        <5> SUFFICES ASSUME NEW q \in 1 .. i, q \notin skipped
                     PROVE  \E k \in 1 .. Len(t) : t[k] = q
          OBVIOUS
        <5>1. CASE q = i
          <6>1. Len(s) + 1 \in 1 .. Len(t)
            BY <3>2
          <6>2. QED
            BY <3>2, <5>1, <6>1
        <5>2. CASE q # i
          <6>1. q \in 1 .. i - 1
            BY <5>2
          <6>2. PICK k \in 1 .. Len(s) : s[k] = q
            BY <2>1, <6>1
          <6>3. k \in 1 .. Len(t) /\ t[k] = q
            BY <3>2, <6>2
          <6>4. QED
            BY <6>3
        <5>3. QED
          BY <5>1, <5>2
      <4>4. QED
        BY <4>1, <4>2, <4>3
    <3>4. QED
      BY <3>3 DEF t
  <2>4. QED
    BY <2>2, <2>3
<1> HIDE DEF T
<1>5. m \in T
  BY <1>2, <1>3, <1>4, CountUp
<1>6. K[m] \in Seq(Index)
  BY <1>1
<1>7. QED
  BY <1>5, <1>6 DEF T, K

\* What is kept of the first m indices is the beginning of what is kept of all.
LEMMA KeptPrefix ==
    ASSUME NEW skipped, NEW m \in 0 .. Dim
    PROVE  LET s == KeptUpTo(skipped)[m]
               t == KeptUpTo(skipped)[Dim]
           IN  Len(s) <= Len(t) /\ \A k \in 1 .. Len(s) : s[k] = t[k]
<1> DEFINE K == KeptUpTo(skipped)
           Prefix(s, t) == Len(s) <= Len(t) /\ \A k \in 1 .. Len(s) : s[k] = t[k]
           T == {d \in 0 .. Dim : Prefix(K[Dim - d], K[Dim])}
<1>1. /\ \A i \in 0 .. Dim : K[i] \in Seq(Index)
      /\ \A i \in Index : K[i] = IF i \in skipped THEN K[i - 1] ELSE Append(K[i - 1], i)
  <2>1. K \in [0 .. Dim -> Seq(Index)]
    BY KeptDef
  <2>2. \A i \in Index : K[i] = IF i \in skipped THEN K[i - 1] ELSE Append(K[i - 1], i)
    BY KeptDef
  <2> HIDE DEF K
  <2>3. QED
    BY <2>1, <2>2
<1>2. Dim \in Nat /\ Dim - m \in Nat
  BY InputsAssumption
<1> HIDE DEF K
<1>3. 0 \in T
  <2>1. K[Dim] \in Seq(Index)
    BY <1>1, <1>2
  <2>2. QED
    BY <1>2, <2>1
<1>4. ASSUME NEW d \in 1 .. Dim, d - 1 \in T PROVE d \in T
  <2> DEFINE i == Dim - (d - 1)
             s == K[Dim - d]
             t == K[i]
             u == K[Dim]
  <2>1. i \in Index /\ i - 1 = Dim - d /\ d \in 0 .. Dim /\ Dim - d \in 0 .. Dim /\ i \in 0 .. Dim
    BY <1>2 DEF Index
  <2>2. Prefix(t, u)
    BY <1>4
  <2>3. s \in Seq(Index) /\ t \in Seq(Index) /\ u \in Seq(Index)
    BY <1>1, <1>2, <2>1
  <2>4. t = s \/ t = Append(s, i)
    BY <1>1, <2>1
  <2> HIDE DEF s, t, u, i
  <2>5. Prefix(s, t)
    <3>1. CASE t = s
      BY <2>3, <3>1
    <3>2. CASE t = Append(s, i)
      BY <2>1, <2>3, <3>2
    <3>3. QED
      BY <2>4, <3>1, <3>2
  <2>6. Prefix(s, u)
    BY <2>2, <2>3, <2>5
  <2>7. QED
    BY <2>1, <2>6 DEF s, u
<1> HIDE DEF T
<1>5. Dim - m \in T
  <2>1. \A d \in 1 .. Dim - m : d - 1 \in T => d \in T
    BY <1>2, <1>4
  <2>2. QED
    BY <1>2, <1>3, <2>1, CountUp
<1>6. Dim - (Dim - m) = m
  BY <1>2
<1>7. QED
  BY <1>5, <1>6 DEF T, K

\* A sum over all indices without the skipped ones is the sum over those that are kept.
LEMMA SumOverKept ==
    ASSUME NEW skipped, NEW v \in [Index -> Field], NEW w,
           w = [k \in 1 .. Len(KeptUpTo(skipped)[Dim]) |-> v[KeptUpTo(skipped)[Dim][k]]]
    PROVE  SumOf([c \in Index |-> IF c \in skipped THEN Zero ELSE v[c]], Dim)
             = SumOf(w, Len(KeptUpTo(skipped)[Dim]))
<1> DEFINE K == KeptUpTo(skipped)
           n == Len(K[Dim])
           u == [c \in Index |-> IF c \in skipped THEN Zero ELSE v[c]]
           s == Sums(u, Dim)
           t == Sums(w, n)
           T == {i \in 0 .. Dim : s[i] = t[Len(K[i])]}
<1>1. Dim \in Nat /\ Dim \in 0 .. Dim
  BY InputsAssumption
<1>2. /\ \A i \in 0 .. Dim : K[i] \in Seq(Index)
      /\ K[0] = <<>>
      /\ \A i \in Index : K[i] = IF i \in skipped THEN K[i - 1] ELSE Append(K[i - 1], i)
  <2>1. K \in [0 .. Dim -> Seq(Index)]
    BY KeptDef
  <2>2. K[0] = <<>> /\ \A i \in Index : K[i] = IF i \in skipped THEN K[i - 1] ELSE Append(K[i - 1], i)
    BY KeptDef
  <2> HIDE DEF K
  <2>3. QED
    BY <2>1, <2>2
<1>3. \A i \in 0 .. Dim : Len(K[i]) <= n /\ \A k \in 1 .. Len(K[i]) : K[i][k] = K[Dim][k]
  BY KeptPrefix
<1>4. n \in Nat /\ w = [k \in 1 .. n |-> v[K[Dim][k]]]
  BY <1>1, <1>2
<1> HIDE DEF K
<1>5. w \in [1 .. n -> Field]
  <2>1. \A k \in 1 .. n : K[Dim][k] \in Index
    BY <1>1, <1>2
  <2> HIDE DEF n
  <2>2. QED
    BY <1>4, <2>1
<1>6. u \in [1 .. Dim -> Field]
  BY FieldClosed DEF Index
<1>7. /\ s[0] = Zero /\ \A k \in 1 .. Dim : s[k] = Add(s[k - 1], u[k])
      /\ SumOf(u, Dim) = s[Dim] /\ s \in [0 .. Dim -> Field]
  <2> HIDE DEF u
  <2>1. QED
    BY <1>1, <1>6, SumsDef
<1>8. /\ t[0] = Zero /\ \A k \in 1 .. n : t[k] = Add(t[k - 1], w[k])
      /\ SumOf(w, n) = t[n]
  <2> HIDE DEF n
  <2>1. QED
    BY <1>4, <1>5, SumsDef
<1> HIDE DEF s, t
<1>9. 0 \in T
  <2>1. Len(K[0]) = 0
    BY <1>2
  <2>2. QED
    BY <1>1, <1>7, <1>8, <2>1
<1>10. ASSUME NEW i \in 1 .. Dim, i - 1 \in T PROVE i \in T
  <2>1. i - 1 \in 0 .. Dim /\ i \in 0 .. Dim /\ i \in Index
    BY <1>1 DEF Index
  <2>2. s[i - 1] = t[Len(K[i - 1])] /\ s[i - 1] \in Field
    BY <1>7, <1>10, <2>1
  <2>3. CASE i \in skipped
    <3>1. u[i] = Zero /\ K[i] = K[i - 1]
      BY <1>2, <2>1, <2>3
    <3>2. s[i] = s[i - 1]
      BY <1>7, <2>1, <2>2, <3>1, ZeroPlus
    <3>3. QED
      BY <2>1, <2>2, <3>1, <3>2
  <2>4. CASE i \notin skipped
    <3> DEFINE l == Len(K[i - 1])
    <3>1. u[i] = v[i] /\ K[i] = Append(K[i - 1], i) /\ K[i - 1] \in Seq(Index)
      BY <1>2, <2>1, <2>4
    <3>2. l \in Nat /\ Len(K[i]) = l + 1 /\ K[i][l + 1] = i
      BY <2>1, <3>1
    <3>3. Len(K[i]) <= n /\ \A k \in 1 .. Len(K[i]) : K[i][k] = K[Dim][k]
      BY <1>3, <2>1
    <3> HIDE DEF l, n
    <3>4. l + 1 \in 1 .. n
      BY <1>4, <3>2, <3>3
    <3>5. l + 1 \in 1 .. Len(K[i])
      BY <3>2
    <3>6. w[l + 1] = v[i]
      BY <1>4, <3>2, <3>3, <3>4, <3>5
    <3>7. t[l + 1] = Add(t[(l + 1) - 1], w[l + 1])
      BY <1>8, <3>4
    <3>8. (l + 1) - 1 = l
      BY <3>2
    <3>9. s[i] = Add(s[i - 1], u[i])
      BY <1>7
    <3>10. s[i] = t[l + 1]
      BY <2>2, <3>1, <3>6, <3>7, <3>8, <3>9 DEF l
    <3>11. QED
      BY <2>1, <3>2, <3>10
  <2>5. QED
    BY <2>3, <2>4
<1> HIDE DEF T
<1>11. Dim \in T
  BY <1>1, <1>9, <1>10, CountUp
<1>12. s[Dim] = t[n]
  BY <1>11 DEF T
<1>13. QED
  BY <1>7, <1>8, <1>12 DEF K

-----------------------------------------------------------------------------
(* The system that is left. *)

\* The caller's arguments.
ArgsOK ==
    /\ call \in Call
    /\ A \in [Index -> [Index -> Field]] /\ b \in [Index -> Field] /\ skip \subseteq Index

\* Kept lists the indices that aren't skipped, each of them once.
LEMMA KeptFacts ==
    /\ dim \in Nat
    /\ \A r \in Row : Kept[r] \in Index /\ Kept[r] \notin skip
    /\ \A r, s \in Row : Kept[r] = Kept[s] => r = s
    /\ \A i \in Index \ skip : \E r \in Row : Kept[r] = i
<1>1. Dim \in Nat /\ Dim \in 0 .. Dim
  BY InputsAssumption
<1>2. /\ Kept \in Seq(Index)
      /\ \A k \in 1 .. Len(Kept) : Kept[k] \in 1 .. Dim /\ Kept[k] \notin skip
      /\ \A k, l \in 1 .. Len(Kept) : k < l => Kept[k] < Kept[l]
      /\ \A q \in 1 .. Dim : q \notin skip => \E k \in 1 .. Len(Kept) : Kept[k] = q
  BY <1>1, KeptUpToFacts DEF Kept
<1>3. dim \in Nat
  BY <1>2 DEF dim
<1>4. \A r, s \in Row : Kept[r] = Kept[s] => r = s
  <2> SUFFICES ASSUME NEW r \in Row, NEW s \in Row, Kept[r] = Kept[s] PROVE r = s
    OBVIOUS
  <2>1. r \in Int /\ s \in Int /\ Kept[r] \in Int
    BY <1>2, <1>3 DEF Row, dim
  <2>2. ~(r < s) /\ ~(s < r)
    BY <1>2, <2>1 DEF Row, dim
  <2>3. QED
    BY <2>1, <2>2
<1>5. QED
  BY <1>2, <1>3, <1>4 DEF Row, dim, Index

\* Position and Kept are inverse to each other.
LEMMA PositionFacts ==
    /\ \A i \in Index \ skip : Position(i) \in Row /\ Kept[Position(i)] = i
    /\ \A r \in Row : Position(Kept[r]) = r
<1>1. \A i \in Index \ skip : Position(i) \in Row /\ Kept[Position(i)] = i
  BY KeptFacts DEF Position
<1>2. \A r \in Row : Position(Kept[r]) \in Row /\ Kept[Position(Kept[r])] = Kept[r]
  BY <1>1, KeptFacts
<1>3. QED
  BY <1>1, <1>2, KeptFacts

\* The types of the reduced system.
LEMMA ReducedFacts ==
    ASSUME ArgsOK
    PROVE  /\ dim \in Nat /\ Row = 1 .. dim
           /\ ReducedA \in Matrices(dim) /\ ReducedRhs \in Vectors(dim) /\ Zeros \in Vectors(dim)
<1>1. dim \in Nat /\ \A r \in Row : Kept[r] \in Index
  BY KeptFacts
<1>2. ReducedA \in Matrices(dim)
  BY <1>1 DEF ArgsOK, ReducedA, Matrices, Row
<1>3. ReducedRhs \in [Row -> Field]
  <2>1. CASE call.function = "solve"
    BY <1>1, <2>1 DEF ArgsOK, ReducedRhs
  <2>2. CASE call.function = "invert"
    BY <2>2, FieldClosed DEF ReducedRhs
  <2>3. CASE call.function = "determinant"
    BY <2>3, FieldClosed DEF ReducedRhs
  <2>4. QED
    BY <2>1, <2>2, <2>3 DEF ArgsOK, Call
<1>4. QED
  BY <1>1, <1>2, <1>3, FieldClosed DEF Row, Zeros, Vectors

\* The arguments do not change, and neither does what is derived from them.
LEMMA ArgsUnchanged ==
    ASSUME UNCHANGED args
    PROVE  /\ call' = call /\ A' = A /\ b' = b /\ skip' = skip
           /\ Kept' = Kept /\ dim' = dim /\ Row' = Row /\ ReducedA' = ReducedA /\ Zeros' = Zeros
           /\ Singular' = Singular
           /\ ArgsOK => ArgsOK'
           /\ column' = column => ReducedRhs' = ReducedRhs
<1>1. call' = call /\ A' = A /\ b' = b /\ skip' = skip
  BY DEF args
<1>2. Kept' = Kept
  BY <1>1 DEF Kept
<1>3. dim' = dim
  BY <1>2 DEF dim
<1>4. Row' = Row
  BY <1>3 DEF Row
<1>5. ReducedA' = ReducedA /\ Zeros' = Zeros
  BY <1>1, <1>2, <1>4 DEF ReducedA, Zeros
<1>6. Singular' = Singular
  BY <1>3, <1>5 DEF Singular
<1>7. column' = column => ReducedRhs' = ReducedRhs
  BY <1>1, <1>2, <1>4 DEF ReducedRhs
<1>8. ArgsOK => ArgsOK'
  BY <1>1 DEF ArgsOK
<1>9. QED
  BY <1>1, <1>2, <1>3, <1>4, <1>5, <1>6, <1>7, <1>8

-----------------------------------------------------------------------------
(* The inductive invariant. *)

\* Until it is written back, x holds what the caller has passed.
XUnchanged == pc # "returned" => x = IF call.function = "invert" THEN A ELSE [i \in Index |-> One]

\* The columns before j are finished.  If one of them has no pivot the matrix is
\* singular, which is all that is known from then on.  A pivot that is zero stands for
\* a column that is zero from there on.
EliminationInv ==
    pc \in {"pivot", "eliminate"} =>
        /\ j >= 1 /\ (dim = 0 \/ j <= dim)
        /\ pc = "eliminate" => j < dim
        /\ NoZeroPivot(coeff, j) => coeff \in Matrices(dim) /\ rhs \in Vectors(dim)
        /\ PartialFactors
        /\ ~NoZeroPivot(coeff, j) => Singular
        /\ (pc = "eliminate" /\ NoZeroPivot(coeff, j) /\ coeff[j][j] = Zero) => NoPivot(coeff, j, dim)

\* The right hand side is what is left of it after the rows before j.
Forwarded(f) ==
    \A r \in Row : ReducedRhs[f[r]] = IF pc = "forward" /\ r >= j THEN rhs[r]
                                      ELSE Plus(rhs[r], LowerTimes(coeff, r, rhs, dim))

\* The factors are complete, and so is the solution of the rows below j.
SubstitutionInv ==
    pc \in {"forward", "substitute"} =>
        /\ call.function # "determinant"
        /\ pc = "forward" => j >= 1
        /\ pc = "substitute" => j <= dim
        /\ ~NoZeroPivot(coeff, dim + 1) => Singular
        /\ NoZeroPivot(coeff, dim + 1) =>
             /\ coeff \in Matrices(dim) /\ rhs \in Vectors(dim) /\ solution \in Vectors(dim)
             /\ \E f \in Orders(dim) : Factored(ReducedA, f, coeff, dim, dim) /\ Forwarded(f)
             /\ pc = "substitute" => \A r \in Row : r > j => UpperTimes(coeff, r, solution, dim) = rhs[r]
        /\ pc = "substitute" => \A k \in Row : k > j => coeff[k][k] # Zero

Unit(r, c) == IF r = c THEN One ELSE Zero
ColumnOf(M, c, n) == [k \in 1 .. n |-> M[k][c]]

\* The product of M and column c of I is column c of the unit matrix.
InverseColumn(M, I, c, n) ==
    /\ ColumnOf(I, c, n) \in Vectors(n)
    /\ \A r \in 1 .. n : RowTimes(M, r, ColumnOf(I, c, n), n) = Unit(r, c)

InverseInv ==
    (call.function = "invert" /\ pc \notin {"returned", "thrown"}) =>
        /\ column \in Row
        /\ \A c \in Row : c < column => InverseColumn(ReducedA, inverse, c, dim)

OutcomeInv ==
    /\ pc = "thrown" => Singular
    /\ (pc = "returned" /\ call.function # "determinant") => ~Singular
    /\ SolutionSolves
    /\ InverseInverts

IInv ==
    /\ ArgsOK
    /\ TypeOK
    /\ XUnchanged
    /\ EliminationInv
    /\ SubstitutionInv
    /\ InverseInv
    /\ OutcomeInv

-----------------------------------------------------------------------------
(* The steps of the elimination. *)

\* What the steps before the end leave alone.
LEMMA StillRunning ==
    ASSUME ArgsOK, XUnchanged, InverseInv, UNCHANGED <<args, x, column, inverse>>,
           pc \notin {"returned", "thrown"}, pc' \notin {"returned", "thrown"}
    PROVE  ArgsOK' /\ XUnchanged' /\ InverseInv' /\ OutcomeInv'
<1>1. UNCHANGED args
  OBVIOUS
<1>2. /\ call' = call /\ A' = A /\ b' = b /\ skip' = skip
      /\ dim' = dim /\ Row' = Row /\ ReducedA' = ReducedA /\ ArgsOK'
  BY <1>1, ArgsUnchanged
<1>3. XUnchanged'
  BY <1>2 DEF XUnchanged
<1>4. InverseInv'
  BY <1>2 DEF InverseInv
<1>5. OutcomeInv'
  BY DEF OutcomeInv, SolutionSolves, InverseInverts
<1>6. QED
  BY <1>2, <1>3, <1>4, <1>5

\* The exception leaves x alone.
LEMMA Thrown ==
    ASSUME ArgsOK, XUnchanged, UNCHANGED <<args, x>>, pc # "returned", pc' = "thrown", Singular
    PROVE  ArgsOK' /\ XUnchanged' /\ EliminationInv' /\ SubstitutionInv' /\ InverseInv' /\ OutcomeInv'
<1>1. UNCHANGED args
  OBVIOUS
<1>2. call' = call /\ A' = A /\ ArgsOK' /\ Singular'
  BY <1>1, ArgsUnchanged
<1>3. XUnchanged'
  BY <1>2 DEF XUnchanged
<1>4. EliminationInv' /\ SubstitutionInv' /\ InverseInv'
  BY DEF EliminationInv, SubstitutionInv, InverseInv
<1>5. OutcomeInv'
  BY <1>2 DEF OutcomeInv, SolutionSolves, InverseInverts
<1>6. QED
  BY <1>2, <1>3, <1>4, <1>5

\* A vector of which two elements are swapped keeps its type.
LEMMA SwapType ==
    ASSUME NEW n \in Nat, NEW S, NEW f \in [1 .. n -> S], NEW m \in 1 .. n, NEW i \in 1 .. n
    PROVE  Swapped(f, m, i) \in [1 .. n -> S]
BY DEF Swapped

\* A zero on the diagonal is chosen only if there is nothing else in the column.
LEMMA PivotsFacts ==
    ASSUME NEW i \in Pivots, dim \in Nat, j \in 1 .. dim
    PROVE  /\ i \in j .. dim
           /\ coeff[i][j] = Zero => i = j /\ NoPivot(coeff, j, dim)
<1>1. CASE i \in NonZeroPivots
  BY <1>1 DEF NonZeroPivots
<1>2. CASE i \notin NonZeroPivots
  <2>1. i = j /\ NonZeroPivots = {}
    BY <1>2 DEF Pivots
  <2>2. \A k \in 1 .. dim : k >= j => coeff[k][j] = Zero
    BY <2>1 DEF NonZeroPivots
  <2>3. QED
    BY <2>1, <2>2 DEF NoPivot
<1>3. QED
  BY <1>1, <1>2

\* Choosing a pivot: the rows of the factors and the order of the rows are swapped
\* together, and the parity with them.  A chosen zero means there is no pivot.
LEMMA ChoosePivotStep ==
    ASSUME IInv, ChoosePivot
    PROVE  IInv'
<1>1. /\ ArgsOK /\ TypeOK /\ XUnchanged /\ EliminationInv /\ InverseInv
      /\ pc = "pivot" /\ pc' = "eliminate" /\ j < dim /\ j' = j
      /\ UNCHANGED <<args, x, solution, column, inverse, det>>
  BY DEF IInv, ChoosePivot
<1>2. /\ dim \in Nat /\ Row = 1 .. dim /\ j \in Row
      /\ ReducedRhs \in Vectors(dim)
  BY <1>1, ReducedFacts DEF EliminationInv, TypeOK, Row
<1>3. PICK i \in Pivots : /\ rowSwaps' = IF i # j THEN rowSwaps + 1 ELSE rowSwaps
                          /\ coeff' = Swapped(coeff, j, i)
                          /\ rhs' = IF call.function = "determinant" THEN rhs ELSE Swapped(rhs, j, i)
  BY DEF ChoosePivot
<1>4. i \in Row /\ i >= j /\ (coeff[i][j] = Zero => i = j /\ NoPivot(coeff, j, dim))
  BY <1>2, PivotsFacts
<1>5. /\ call' = call /\ dim' = dim /\ Row' = Row /\ ReducedA' = ReducedA /\ Singular' = Singular
      /\ ReducedRhs' = ReducedRhs
  BY <1>1, ArgsUnchanged
<1>6. ArgsOK' /\ XUnchanged' /\ InverseInv' /\ OutcomeInv'
  BY <1>1, StillRunning
<1>7. SubstitutionInv'
  BY <1>1 DEF SubstitutionInv
<1>8. /\ coeff' \in [Row -> [Row -> Entry]]
      /\ \A r \in Row : coeff'[r] = coeff[Partner(r, j, i)]
  <2>1. coeff \in [1 .. dim -> [Row -> Entry]] /\ j \in 1 .. dim /\ i \in 1 .. dim
    BY <1>1, <1>2, <1>4 DEF TypeOK
  <2>2. /\ Swapped(coeff, j, i) \in [1 .. dim -> [Row -> Entry]]
        /\ \A r \in 1 .. dim : Swapped(coeff, j, i)[r] = coeff[Partner(r, j, i)]
    BY <2>1 DEF Swapped, Partner
  <2>3. QED
    BY <1>2, <1>3, <2>2
<1>9. TypeOK'
  <2>1. rhs' \in [Row -> Entry]
    <3>1. rhs \in [1 .. dim -> Entry] /\ j \in 1 .. dim /\ i \in 1 .. dim
      BY <1>1, <1>2, <1>4 DEF TypeOK
    <3>2. Swapped(rhs, j, i) \in [1 .. dim -> Entry]
      BY <1>2, <3>1, SwapType
    <3>3. QED
      BY <1>2, <1>3, <3>1, <3>2
  <2>2. coeff' \in [Row -> [Row -> Entry]]
    BY <1>8
  <2>3. rowSwaps' \in Nat
    BY <1>1, <1>3 DEF TypeOK
  <2>4. QED
    BY <1>1, <1>5, <2>1, <2>2, <2>3 DEF TypeOK
<1>10. NoZeroPivot(coeff', j) <=> NoZeroPivot(coeff, j)
  <2>1. \A k \in 1 .. j - 1 : k \in Row /\ Partner(k, j, i) = k
    BY <1>2, <1>4 DEF Partner
  <2>2. QED
    BY <1>8, <2>1 DEF NoZeroPivot
<1>11. ASSUME NoZeroPivot(coeff, j)
       PROVE  /\ coeff' \in Matrices(dim) /\ rhs' \in Vectors(dim)
              /\ \E f \in Orders(dim) : /\ IsOdd(f, dim) = (rowSwaps' % 2 = 1)
                                        /\ \A r \in Row : rhs'[r] = ReducedRhs[f[r]]
                                        /\ Factored(ReducedA, f, coeff', j, dim)
  <2>1. /\ coeff \in Matrices(dim) /\ rhs \in Vectors(dim)
        /\ \E f \in Orders(dim) : /\ IsOdd(f, dim) = (rowSwaps % 2 = 1)
                                  /\ \A r \in Row : rhs[r] = ReducedRhs[f[r]]
                                  /\ Factored(ReducedA, f, coeff, j, dim)
    BY <1>1, <1>11 DEF EliminationInv, PartialFactors
  <2>2. PICK f \in Orders(dim) : /\ IsOdd(f, dim) = (rowSwaps % 2 = 1)
                                 /\ \A r \in Row : rhs[r] = ReducedRhs[f[r]]
                                 /\ Factored(ReducedA, f, coeff, j, dim)
    BY <2>1
  <2> DEFINE g == Swapped(f, j, i)
  <2>3. g \in Orders(dim) /\ \A r \in Row : g[r] = f[Partner(r, j, i)]
    BY <1>2, <1>4, SwapIsOrder
  <2>4. coeff' \in Matrices(dim) /\ Factored(ReducedA, g, coeff', j, dim)
    <3>1. f \in [1 .. dim -> 1 .. dim]
      BY <2>2 DEF Orders
    <3>2. QED
      BY <1>2, <1>3, <1>4, <2>1, <2>2, <3>1, FactoredSwap
  <2>5. rhs' \in Vectors(dim)
    BY <1>2, <1>3, <1>4, <2>1, SwapType DEF Vectors
  <2>6. \A r \in Row : rhs'[r] = ReducedRhs[g[r]]
    <3>1. CASE call.function = "determinant"
      <4>1. \A r \in Row : f[r] \in Row /\ g[r] \in Row
        BY <1>2, <2>2, <2>3 DEF Orders
      <4>2. \A r \in Row : ReducedRhs[r] = Zero
        BY <3>1 DEF ReducedRhs
      <4>3. QED
        BY <1>3, <2>2, <3>1, <4>1, <4>2
    <3>2. CASE call.function # "determinant"
      <4>1. rhs \in [1 .. dim -> Field] /\ j \in 1 .. dim /\ i \in 1 .. dim
        BY <1>2, <1>4, <2>1 DEF Vectors
      <4>2. \A r \in 1 .. dim : Swapped(rhs, j, i)[r] = rhs[Partner(r, j, i)]
        BY <4>1 DEF Swapped, Partner
      <4>3. rhs' = Swapped(rhs, j, i) /\ \A r \in Row : Partner(r, j, i) \in Row
        BY <1>3, <1>4, <3>2, <1>2 DEF Partner
      <4>4. QED
        BY <1>2, <2>2, <2>3, <4>2, <4>3
    <3>3. QED
      BY <3>1, <3>2
  <2>7. IsOdd(g, dim) = (rowSwaps' % 2 = 1)
    <3>1. CASE i = j
      <4>1. f \in [1 .. dim -> 1 .. dim]
        BY <2>2 DEF Orders
      <4>2. g = f
        BY <1>2, <3>1, <4>1 DEF Swapped
      <4>3. QED
        BY <1>3, <2>2, <3>1, <4>2
    <3>2. CASE i # j
      <4>1. j < i
        BY <1>2, <1>4, <3>2
      <4>2. IsOdd(g, dim) <=> ~IsOdd(f, dim)
        BY <1>2, <1>4, <4>1, SwapChangesParity
      <4>3. (rowSwaps' % 2 = 1) <=> ~(rowSwaps % 2 = 1)
        <5>1. rowSwaps \in Nat
          BY <1>1 DEF TypeOK
        <5>2. QED
          BY <1>3, <3>2, <5>1
      <4>4. IsOdd(g, dim) \in BOOLEAN /\ IsOdd(f, dim) \in BOOLEAN
        BY DEF IsOdd
      <4>5. QED
        BY <2>2, <4>2, <4>3, <4>4
    <3>3. QED
      BY <3>1, <3>2
  <2>8. QED
    <3> HIDE DEF g
    <3>1. QED
      BY <2>3, <2>4, <2>5, <2>6, <2>7
<1>12. ASSUME coeff'[j][j] = Zero PROVE NoPivot(coeff', j, dim)
  <2>1. coeff'[j] = coeff[i]
    BY <1>2, <1>8 DEF Partner
  <2>2. i = j /\ NoPivot(coeff, j, dim)
    BY <1>4, <1>12, <2>1
  <2>3. \A r \in Row : coeff'[r] = coeff[r]
    BY <1>8, <2>2 DEF Partner
  <2>4. QED
    BY <1>2, <2>2, <2>3 DEF NoPivot
<1>13. PartialFactors'
  BY <1>1, <1>5, <1>10, <1>11 DEF PartialFactors
<1>14. EliminationInv'
  <2>1. NoZeroPivot(coeff, j) => coeff' \in Matrices(dim) /\ rhs' \in Vectors(dim)
    BY <1>11
  <2>2. ~NoZeroPivot(coeff, j) => Singular
    BY <1>1 DEF EliminationInv
  <2>3. QED
    BY <1>1, <1>2, <1>5, <1>10, <1>12, <1>13, <2>1, <2>2 DEF EliminationInv
<1>15. QED
  BY <1>6, <1>7, <1>9, <1>14 DEF IInv

\* Without a pivot the matrix is singular, so the exception is justified.
LEMMA ThrowNoPivotStep ==
    ASSUME IInv, ThrowNoPivot
    PROVE  IInv'
<1>1. /\ ArgsOK /\ TypeOK /\ XUnchanged /\ EliminationInv
      /\ pc = "pivot" /\ pc' = "thrown" /\ j < dim /\ Pivots = {}
      /\ UNCHANGED <<args, x, coeff, rhs, solution, column, inverse, j, rowSwaps, det>>
  BY DEF IInv, ThrowNoPivot
<1>2. /\ dim \in Nat /\ Row = 1 .. dim /\ j \in 1 .. dim
      /\ ReducedA \in Matrices(dim)
  BY <1>1, ReducedFacts DEF EliminationInv, TypeOK, Row
<1>3. NoPivot(coeff, j, dim)
  <2>1. NonZeroPivots = {}
    <3> SUFFICES ASSUME NonZeroPivots # {} PROVE FALSE
      OBVIOUS
    <3>1. NonZeroPivots \subseteq Nat
      BY <1>2 DEF NonZeroPivots
    <3>2. PICK i \in NonZeroPivots : \A k \in NonZeroPivots : i <= k
      BY <3>1, LeastNumber
    <3>3. i \in Pivots
      BY <3>2 DEF Pivots
    <3>4. QED
      BY <1>1, <3>3
  <2>2. QED
    BY <1>2, <2>1 DEF NoPivot, NonZeroPivots
<1>4. Singular
  <2>1. CASE NoZeroPivot(coeff, j)
    <3>1. coeff \in Matrices(dim) /\ \E f \in Orders(dim) : Factored(ReducedA, f, coeff, j, dim)
      BY <1>1, <2>1 DEF EliminationInv, PartialFactors
    <3>2. PICK f \in Orders(dim) : Factored(ReducedA, f, coeff, j, dim)
      BY <3>1
    <3>3. IsSingular(ReducedA, dim)
      BY <1>2, <1>3, <2>1, <3>1, <3>2, NoPivotSingular
    <3>4. QED
      BY <3>3 DEF Singular
  <2>2. CASE ~NoZeroPivot(coeff, j)
    BY <1>1, <2>2 DEF EliminationInv
  <2>3. QED
    BY <2>1, <2>2
<1>5. dim' = dim /\ Row' = Row /\ call' = call
  BY <1>1, ArgsUnchanged
<1>6. TypeOK'
  BY <1>1, <1>5 DEF TypeOK
<1>7. QED
  BY <1>1, <1>4, <1>6, Thrown DEF IInv

\* One more column of the factors.  If the pivot is zero, the matrix is singular and
\* nothing else is claimed from here on.
LEMMA EliminateColumnStep ==
    ASSUME IInv, EliminateColumn
    PROVE  IInv'
<1>1. /\ ArgsOK /\ TypeOK /\ XUnchanged /\ EliminationInv /\ InverseInv
      /\ pc = "eliminate" /\ pc' = "pivot" /\ j < dim /\ j' = j + 1
      /\ UNCHANGED <<args, x, rhs, solution, column, inverse, rowSwaps, det>>
  BY DEF IInv, EliminateColumn, EliminationInv
<1>2. /\ dim \in Nat /\ Row = 1 .. dim /\ j \in 1 .. dim
      /\ ReducedA \in Matrices(dim)
  BY <1>1, ReducedFacts DEF EliminationInv, TypeOK, Row
<1>3. /\ call' = call /\ dim' = dim /\ Row' = Row /\ ReducedA' = ReducedA /\ Singular' = Singular
      /\ ReducedRhs' = ReducedRhs
  BY <1>1, ArgsUnchanged
<1>4. ArgsOK' /\ XUnchanged' /\ InverseInv' /\ OutcomeInv'
  BY <1>1, StillRunning
<1>5. SubstitutionInv'
  BY <1>1 DEF SubstitutionInv
<1>6. coeff' = [i \in Row |-> [k \in Row |->
                  IF i <= j \/ k < j THEN coeff[i][k]
                  ELSE IF k = j THEN Over(coeff[i][j], coeff[j][j])
                  ELSE Minus(coeff[i][k], Times(Over(coeff[i][j], coeff[j][j]), coeff[j][k]))]]
  BY DEF EliminateColumn
<1>7. Eliminated(coeff, coeff', j, dim)
  BY <1>2, <1>6 DEF Eliminated
<1>8. TypeOK'
  <2>1. \A i, k \in Row : coeff[i][k] \in Entry
    BY <1>1 DEF TypeOK
  <2>2. \A i \in Row : Over(coeff[i][j], coeff[j][j]) \in Entry
    BY <1>2, <2>1, EntryOperations
  <2>3. \A i, k \in Row : Times(Over(coeff[i][j], coeff[j][j]), coeff[j][k]) \in Entry
    BY <1>2, <2>1, <2>2, EntryOperations
  <2>4. \A i, k \in Row :
          Minus(coeff[i][k], Times(Over(coeff[i][j], coeff[j][j]), coeff[j][k])) \in Entry
    BY <2>1, <2>3, EntryOperations
  <2>5. coeff' \in [Row -> [Row -> Entry]]
    BY <1>6, <2>1, <2>2, <2>4
  <2>6. QED
    BY <1>1, <1>2, <1>3, <2>5 DEF TypeOK
<1>9. ASSUME NEW k \in 1 .. j PROVE coeff'[k][k] = coeff[k][k]
  BY <1>2, <1>6
<1>10. NoZeroPivot(coeff', j + 1) <=> NoZeroPivot(coeff, j) /\ coeff[j][j] # Zero
  BY <1>2, <1>9 DEF NoZeroPivot
<1>11. ASSUME NoZeroPivot(coeff', j + 1)
       PROVE  /\ coeff' \in Matrices(dim) /\ rhs \in Vectors(dim)
              /\ \E f \in Orders(dim) : /\ IsOdd(f, dim) = (rowSwaps % 2 = 1)
                                        /\ \A r \in Row : rhs[r] = ReducedRhs[f[r]]
                                        /\ Factored(ReducedA, f, coeff', j + 1, dim)
  <2>1. /\ coeff \in Matrices(dim) /\ rhs \in Vectors(dim) /\ coeff[j][j] # Zero
        /\ \E f \in Orders(dim) : /\ IsOdd(f, dim) = (rowSwaps % 2 = 1)
                                  /\ \A r \in Row : rhs[r] = ReducedRhs[f[r]]
                                  /\ Factored(ReducedA, f, coeff, j, dim)
    BY <1>1, <1>10, <1>11 DEF EliminationInv, PartialFactors
  <2>2. PICK f \in Orders(dim) : /\ IsOdd(f, dim) = (rowSwaps % 2 = 1)
                                 /\ \A r \in Row : rhs[r] = ReducedRhs[f[r]]
                                 /\ Factored(ReducedA, f, coeff, j, dim)
    BY <2>1
  <2>3. coeff' \in Matrices(dim)
    <3>1. \A i, k \in Row : coeff[i][k] \in Field
      BY <1>2, <2>1, MatrixEntries
    <3>2. \A i \in Row : Over(coeff[i][j], coeff[j][j]) \in Field
      BY <1>2, <2>1, <3>1, TimesOver
    <3>3. \A i, k \in Row : Times(Over(coeff[i][j], coeff[j][j]), coeff[j][k]) \in Field
      BY <1>2, <3>1, <3>2, FieldTimes
    <3>4. \A i, k \in Row :
            Minus(coeff[i][k], Times(Over(coeff[i][j], coeff[j][j]), coeff[j][k])) \in Field
      BY <3>1, <3>3, PlusMinus
    <3>5. QED
      BY <1>2, <1>6, <3>1, <3>2, <3>4 DEF Matrices
  <2>4. Factored(ReducedA, f, coeff', j + 1, dim)
    BY <1>2, <1>7, <2>1, <2>2, <2>3, FactoredEliminate
  <2>5. QED
    BY <2>1, <2>2, <2>3, <2>4
<1>12. PartialFactors'
  BY <1>1, <1>3, <1>11 DEF PartialFactors
<1>13. ASSUME ~NoZeroPivot(coeff', j + 1) PROVE Singular
  <2>1. CASE NoZeroPivot(coeff, j)
    <3>1. coeff[j][j] = Zero
      BY <1>10, <1>13, <2>1
    <3>2. /\ coeff \in Matrices(dim) /\ NoPivot(coeff, j, dim)
          /\ \E f \in Orders(dim) : Factored(ReducedA, f, coeff, j, dim)
      BY <1>1, <2>1, <3>1 DEF EliminationInv, PartialFactors
    <3>3. PICK f \in Orders(dim) : Factored(ReducedA, f, coeff, j, dim)
      BY <3>2
    <3>4. IsSingular(ReducedA, dim)
      BY <1>2, <2>1, <3>2, <3>3, NoPivotSingular
    <3>5. QED
      BY <3>4 DEF Singular
  <2>2. CASE ~NoZeroPivot(coeff, j)
    BY <1>1, <2>2 DEF EliminationInv
  <2>3. QED
    BY <2>1, <2>2
<1>14. EliminationInv'
  <2>1. NoZeroPivot(coeff', j + 1) => coeff' \in Matrices(dim) /\ rhs \in Vectors(dim)
    BY <1>11
  <2>2. QED
    BY <1>1, <1>2, <1>3, <1>12, <1>13, <2>1 DEF EliminationInv
<1>15. QED
  BY <1>4, <1>5, <1>8, <1>14 DEF IInv

-----------------------------------------------------------------------------
(* The steps of the substitution. *)

\* The elimination has reached the last column: the factors are complete.
LEMMA ComputeSolutionStep ==
    ASSUME IInv, ComputeSolution
    PROVE  IInv'
<1>1. /\ ArgsOK /\ TypeOK /\ XUnchanged /\ EliminationInv /\ InverseInv
      /\ pc = "pivot" /\ pc' = "forward" /\ j >= dim /\ j' = 1 /\ solution' = Zeros
      /\ call.function # "determinant"
      /\ UNCHANGED <<args, x, coeff, rhs, column, inverse, rowSwaps, det>>
  BY DEF IInv, ComputeSolution
<1>2. /\ dim \in Nat /\ Row = 1 .. dim /\ ReducedA \in Matrices(dim) /\ Zeros \in Vectors(dim)
  BY <1>1, ReducedFacts
<1>3. (j = 1 /\ dim = 0) \/ (j = dim /\ dim \in 1 .. dim)
  <2>1. j \in 0 .. dim + 1
    BY <1>1 DEF TypeOK
  <2>2. j >= 1 /\ (dim = 0 \/ j <= dim)
    BY <1>1 DEF EliminationInv
  <2>3. QED
    BY <1>1, <1>2, <2>1, <2>2
<1>4. /\ call' = call /\ dim' = dim /\ Row' = Row /\ ReducedA' = ReducedA /\ Singular' = Singular
      /\ ReducedRhs' = ReducedRhs
  BY <1>1, ArgsUnchanged
<1>5. ArgsOK' /\ XUnchanged' /\ InverseInv' /\ OutcomeInv'
  BY <1>1, StillRunning
<1>6. EliminationInv'
  BY <1>1 DEF EliminationInv
<1>7. TypeOK'
  <2>1. solution' \in [Row -> Entry]
    BY <1>1, FieldClosed DEF Zeros, Entry
  <2>2. QED
    BY <1>1, <1>2, <1>4, <2>1 DEF TypeOK
<1>8. ASSUME NoZeroPivot(coeff, dim + 1)
      PROVE  /\ coeff \in Matrices(dim) /\ rhs \in Vectors(dim)
             /\ \E f \in Orders(dim) : /\ \A r \in Row : rhs[r] = ReducedRhs[f[r]]
                                       /\ Factored(ReducedA, f, coeff, dim, dim)
  <2>1. NoZeroPivot(coeff, j)
    BY <1>2, <1>3, <1>8 DEF NoZeroPivot
  <2>2. /\ coeff \in Matrices(dim) /\ rhs \in Vectors(dim)
        /\ \E f \in Orders(dim) : /\ \A r \in Row : rhs[r] = ReducedRhs[f[r]]
                                  /\ Factored(ReducedA, f, coeff, j, dim)
    BY <1>1, <2>1 DEF EliminationInv, PartialFactors
  <2>3. PICK f \in Orders(dim) : /\ \A r \in Row : rhs[r] = ReducedRhs[f[r]]
                                 /\ Factored(ReducedA, f, coeff, j, dim)
    BY <2>2
  <2>4. Factored(ReducedA, f, coeff, dim, dim)
    <3>1. CASE dim = 0
      BY <3>1 DEF Factored
    <3>2. CASE dim # 0
      BY <1>3, <2>3, <3>2
    <3>3. QED
      BY <3>1, <3>2
  <2>5. QED
    BY <2>2, <2>3, <2>4
<1>9. ASSUME ~NoZeroPivot(coeff, dim + 1) PROVE Singular
  <2>1. j = dim /\ dim \in 1 .. dim
    BY <1>2, <1>3, <1>9 DEF NoZeroPivot
  <2>2. CASE NoZeroPivot(coeff, j)
    <3>1. NoPivot(coeff, dim, dim)
      <4>1. coeff[dim][dim] = Zero
        BY <1>2, <1>9, <2>1, <2>2 DEF NoZeroPivot
      <4>2. QED
        BY <1>2, <4>1 DEF NoPivot
    <3>2. coeff \in Matrices(dim) /\ \E f \in Orders(dim) : Factored(ReducedA, f, coeff, dim, dim)
      BY <1>1, <2>1, <2>2 DEF EliminationInv, PartialFactors
    <3>3. PICK f \in Orders(dim) : Factored(ReducedA, f, coeff, dim, dim)
      BY <3>2
    <3>4. IsSingular(ReducedA, dim)
      BY <1>2, <2>1, <2>2, <3>1, <3>2, <3>3, NoPivotSingular
    <3>5. QED
      BY <3>4 DEF Singular
  <2>3. CASE ~NoZeroPivot(coeff, j)
    BY <1>1, <2>3 DEF EliminationInv
  <2>4. QED
    BY <2>2, <2>3
<1>10. SubstitutionInv'
  <2>1. ASSUME NEW f \in Orders(dim), \A r \in Row : rhs[r] = ReducedRhs[f[r]]
        PROVE  Forwarded(f)'
    BY <1>1, <1>2, <1>4, <2>1 DEF Forwarded
  <2>2. NoZeroPivot(coeff, dim + 1) =>
          (\E f \in Orders(dim) : Factored(ReducedA, f, coeff, dim, dim) /\ Forwarded(f)')
    BY <1>8, <2>1
  <2>3. QED
    BY <1>1, <1>2, <1>4, <1>8, <1>9, <2>2 DEF SubstitutionInv
<1>11. QED
  BY <1>5, <1>6, <1>7, <1>10 DEF IInv

\* Left of the diagonal of row r there are only the elements before r, right of it only
\* those from r on.
LEMMA LowerTimesLocal ==
    ASSUME NEW n, NEW C, NEW y, NEW z, NEW r, \A k \in 1 .. n : k < r => y[k] = z[k]
    PROVE  LowerTimes(C, r, y, n) = LowerTimes(C, r, z, n)
<1>1. [k \in 1 .. n |-> IF k < r THEN Times(C[r][k], y[k]) ELSE Zero]
        = [k \in 1 .. n |-> IF k < r THEN Times(C[r][k], z[k]) ELSE Zero]
  OBVIOUS
<1>2. QED
  BY <1>1 DEF LowerTimes

LEMMA UpperTimesLocal ==
    ASSUME NEW n, NEW C, NEW y, NEW z, NEW r, \A k \in 1 .. n : r <= k => y[k] = z[k]
    PROVE  UpperTimes(C, r, y, n) = UpperTimes(C, r, z, n)
<1>1. [k \in 1 .. n |-> IF r <= k THEN Times(C[r][k], y[k]) ELSE Zero]
        = [k \in 1 .. n |-> IF r <= k THEN Times(C[r][k], z[k]) ELSE Zero]
  OBVIOUS
<1>2. QED
  BY <1>1 DEF UpperTimes

\* Row j of L y = P b.
LEMMA ForwardSubstitutionStep ==
    ASSUME IInv, ForwardSubstitution
    PROVE  IInv'
<1>1. /\ ArgsOK /\ TypeOK /\ XUnchanged /\ SubstitutionInv /\ InverseInv
      /\ pc = "forward" /\ pc' = "forward" /\ j <= dim /\ j' = j + 1
      /\ UNCHANGED <<args, x, coeff, solution, column, inverse, rowSwaps, det>>
  BY DEF IInv, ForwardSubstitution
<1>2. dim \in Nat /\ Row = 1 .. dim /\ j \in Row
  BY <1>1, ReducedFacts DEF SubstitutionInv, TypeOK, Row
<1>3. /\ call' = call /\ dim' = dim /\ Row' = Row /\ ReducedA' = ReducedA /\ Singular' = Singular
      /\ ReducedRhs' = ReducedRhs
  BY <1>1, ArgsUnchanged
<1>4. ArgsOK' /\ XUnchanged' /\ InverseInv' /\ OutcomeInv'
  BY <1>1, StillRunning
<1>5. EliminationInv'
  BY <1>1 DEF EliminationInv
<1>6. rhs' = [rhs EXCEPT ![j] = Minus(rhs[j], LowerTimes(coeff, j, rhs, dim))]
  BY DEF ForwardSubstitution, LowerTimes, Row
<1>7. TypeOK'
  <2> DEFINE v == [k \in 1 .. dim |-> IF k < j THEN Times(coeff[j][k], rhs[k]) ELSE Zero]
  <2>1. \A k \in 1 .. dim : coeff[j][k] \in Entry /\ rhs[k] \in Entry
    BY <1>1, <1>2 DEF TypeOK
  <2>2. \A k \in 1 .. dim : Times(coeff[j][k], rhs[k]) \in Entry
    BY <2>1, EntryOperations
  <2>3. v \in [1 .. dim -> Entry]
    BY <2>2, FieldClosed DEF Entry
  <2>4. LowerTimes(coeff, j, rhs, dim) = SumOf(v, dim)
    BY DEF LowerTimes
  <2> HIDE DEF v
  <2>5. SumOf(v, dim) \in Entry
    BY <1>2, <2>3, SumsDef
  <2>6. Minus(rhs[j], LowerTimes(coeff, j, rhs, dim)) \in Entry
    BY <1>2, <2>1, <2>4, <2>5, EntryOperations
  <2>7. rhs' \in [Row -> Entry]
    BY <1>1, <1>6, <2>6 DEF TypeOK
  <2>8. QED
    BY <1>1, <1>2, <1>3, <2>7 DEF TypeOK
<1>8. ASSUME NoZeroPivot(coeff, dim + 1)
      PROVE  /\ rhs' \in Vectors(dim)
             /\ \E f \in Orders(dim) : Factored(ReducedA, f, coeff, dim, dim) /\ Forwarded(f)'
  <2>1. /\ coeff \in Matrices(dim) /\ rhs \in Vectors(dim)
        /\ \E f \in Orders(dim) : Factored(ReducedA, f, coeff, dim, dim) /\ Forwarded(f)
    BY <1>1, <1>8 DEF SubstitutionInv
  <2>2. PICK f \in Orders(dim) : Factored(ReducedA, f, coeff, dim, dim) /\ Forwarded(f)
    BY <2>1
  <2>3. rhs[j] \in Field /\ LowerTimes(coeff, j, rhs, dim) \in Field
    BY <1>2, <2>1, RowType DEF Vectors
  <2>4. rhs' \in Vectors(dim) /\ rhs'[j] = Minus(rhs[j], LowerTimes(coeff, j, rhs, dim))
    BY <1>2, <1>6, <2>1, <2>3, PlusMinus DEF Vectors
  <2>5. \A k \in Row : k # j => rhs'[k] = rhs[k]
    BY <1>2, <1>6, <2>1 DEF Vectors
  <2>6. \A r \in Row : r <= j => LowerTimes(coeff, r, rhs', dim) = LowerTimes(coeff, r, rhs, dim)
    <3> SUFFICES ASSUME NEW r \in Row, r <= j
                 PROVE  LowerTimes(coeff, r, rhs', dim) = LowerTimes(coeff, r, rhs, dim)
      OBVIOUS
    <3>1. \A k \in 1 .. dim : k < r => rhs'[k] = rhs[k]
      BY <1>2, <2>5
    <3>2. QED
      BY <3>1, LowerTimesLocal
  <2>7. \A r \in Row : ReducedRhs[f[r]] = IF r >= j THEN rhs[r]
                                          ELSE Plus(rhs[r], LowerTimes(coeff, r, rhs, dim))
    BY <1>1, <2>2 DEF Forwarded
  <2>8. \A r \in Row : ReducedRhs[f[r]] = IF r >= j + 1 THEN rhs'[r]
                                          ELSE Plus(rhs'[r], LowerTimes(coeff, r, rhs', dim))
    <3> SUFFICES ASSUME NEW r \in Row
                 PROVE  ReducedRhs[f[r]] = IF r >= j + 1 THEN rhs'[r]
                                           ELSE Plus(rhs'[r], LowerTimes(coeff, r, rhs', dim))
      OBVIOUS
    <3>1. CASE r = j
      <4>1. Plus(rhs'[j], LowerTimes(coeff, j, rhs', dim)) = rhs[j]
        BY <1>2, <2>3, <2>4, <2>6, PlusMinus
      <4>2. QED
        BY <1>2, <2>7, <3>1, <4>1
    <3>2. CASE r # j
      BY <1>2, <2>5, <2>6, <2>7, <3>2
    <3>3. QED
      BY <3>1, <3>2
  <2>9. Forwarded(f)'
    BY <1>1, <1>3, <2>8 DEF Forwarded
  <2>10. QED
    BY <2>2, <2>4, <2>9
<1>9. SubstitutionInv'
  BY <1>1, <1>2, <1>3, <1>8 DEF SubstitutionInv
<1>10. QED
  BY <1>4, <1>5, <1>7, <1>9 DEF IInv

\* From the first part of the substitution to the second.
LEMMA StartBackSubstitutionStep ==
    ASSUME IInv, StartBackSubstitution
    PROVE  IInv'
<1>1. /\ ArgsOK /\ TypeOK /\ XUnchanged /\ SubstitutionInv /\ InverseInv
      /\ pc = "forward" /\ pc' = "substitute" /\ j > dim /\ j' = dim
      /\ UNCHANGED <<args, x, coeff, rhs, solution, column, inverse, rowSwaps, det>>
  BY DEF IInv, StartBackSubstitution
<1>2. dim \in Nat /\ Row = 1 .. dim
  BY <1>1, ReducedFacts
<1>3. /\ call' = call /\ dim' = dim /\ Row' = Row /\ ReducedA' = ReducedA /\ Singular' = Singular
      /\ ReducedRhs' = ReducedRhs
  BY <1>1, ArgsUnchanged
<1>4. ArgsOK' /\ XUnchanged' /\ InverseInv' /\ OutcomeInv'
  BY <1>1, StillRunning
<1>5. EliminationInv'
  BY <1>1 DEF EliminationInv
<1>6. TypeOK'
  BY <1>1, <1>2, <1>3 DEF TypeOK
<1>7. ASSUME NEW f, Forwarded(f) PROVE Forwarded(f)'
  <2>1. \A r \in Row : ~(r >= j)
    <3>1. j \in 0 .. dim + 1
      BY <1>1 DEF TypeOK
    <3>2. QED
      BY <1>1, <1>2, <3>1
  <2>2. QED
    BY <1>1, <1>3, <1>7, <2>1 DEF Forwarded
<1>8. SubstitutionInv'
  <2>1. \A r \in Row : ~(r > dim)
    BY <1>2
  <2>2. NoZeroPivot(coeff, dim + 1) =>
          /\ coeff \in Matrices(dim) /\ rhs \in Vectors(dim) /\ solution \in Vectors(dim)
          /\ \E f \in Orders(dim) : Factored(ReducedA, f, coeff, dim, dim) /\ Forwarded(f)'
    BY <1>1, <1>7 DEF SubstitutionInv
  <2>3. QED
    BY <1>1, <1>2, <1>3, <2>1, <2>2 DEF SubstitutionInv
<1>9. QED
  BY <1>4, <1>5, <1>6, <1>8 DEF IInv

\* Row j of U x = y.
LEMMA BackSubstitutionStep ==
    ASSUME IInv, BackSubstitution
    PROVE  IInv'
<1> DEFINE v == [k \in Row |-> IF k > j THEN Times(coeff[j][k], solution[k]) ELSE Zero]
           right == SumOf(v, dim)
<1>1. /\ ArgsOK /\ TypeOK /\ XUnchanged /\ SubstitutionInv /\ InverseInv
      /\ pc = "substitute" /\ pc' = "substitute" /\ j > 0 /\ j' = j - 1 /\ coeff[j][j] # Zero
      /\ UNCHANGED <<args, x, coeff, rhs, column, inverse, rowSwaps, det>>
  BY DEF IInv, BackSubstitution
<1>2. dim \in Nat /\ Row = 1 .. dim /\ j \in Row
  <2>1. dim \in Nat /\ Row = 1 .. dim
    BY <1>1, ReducedFacts
  <2>2. j \in 0 .. dim + 1 /\ j <= dim
    BY <1>1 DEF SubstitutionInv, TypeOK
  <2>3. QED
    BY <1>1, <2>1, <2>2
<1>3. /\ call' = call /\ dim' = dim /\ Row' = Row /\ ReducedA' = ReducedA /\ Singular' = Singular
      /\ ReducedRhs' = ReducedRhs
  BY <1>1, ArgsUnchanged
<1>4. ArgsOK' /\ XUnchanged' /\ InverseInv' /\ OutcomeInv'
  BY <1>1, StillRunning
<1>5. EliminationInv'
  BY <1>1 DEF EliminationInv
<1>6. solution' = [solution EXCEPT ![j] = Over(Minus(rhs[j], right), coeff[j][j])]
  BY DEF BackSubstitution
<1>7. TypeOK'
  <2>1. \A k \in 1 .. dim : coeff[j][k] \in Entry /\ rhs[k] \in Entry /\ solution[k] \in Entry
    BY <1>1, <1>2 DEF TypeOK
  <2>2. \A k \in 1 .. dim : Times(coeff[j][k], solution[k]) \in Entry
    BY <2>1, EntryOperations
  <2>3. v \in [1 .. dim -> Entry]
    BY <1>2, <2>2, FieldClosed DEF Entry
  <2> HIDE DEF v
  <2>4. right \in Entry
    BY <1>2, <2>3, SumsDef
  <2> HIDE DEF right
  <2>5. Minus(rhs[j], right) \in Entry
    BY <1>2, <2>1, <2>4, EntryOperations
  <2>6. Over(Minus(rhs[j], right), coeff[j][j]) \in Entry
    BY <1>2, <2>1, <2>5, EntryOperations
  <2>7. solution' \in [Row -> Entry]
    BY <1>1, <1>6, <2>6 DEF TypeOK
  <2>8. j' \in 0 .. dim + 1
    BY <1>1, <1>2
  <2>9. QED
    BY <1>1, <1>2, <1>3, <2>7, <2>8 DEF TypeOK
<1>8. ASSUME NoZeroPivot(coeff, dim + 1)
      PROVE  /\ solution' \in Vectors(dim)
             /\ \A r \in Row : r > j - 1 => UpperTimes(coeff, r, solution', dim) = rhs[r]
  <2>1. /\ coeff \in Matrices(dim) /\ rhs \in Vectors(dim) /\ solution \in Vectors(dim)
        /\ \A r \in Row : r > j => UpperTimes(coeff, r, solution, dim) = rhs[r]
    BY <1>1, <1>8 DEF SubstitutionInv
  <2>2. right \in Field
    <3>1. \A k \in 1 .. dim : Times(coeff[j][k], solution[k]) \in Field
      BY <1>2, <2>1, RowType
    <3>2. v \in [1 .. dim -> Field]
      BY <1>2, <3>1, FieldClosed
    <3> HIDE DEF v
    <3>3. QED
      BY <1>2, <3>2, SumsDef
  <2>3. rhs[j] \in Field /\ coeff[j][j] \in Field
    BY <1>2, <2>1, MatrixEntries DEF Vectors
  <2>4. Minus(rhs[j], right) \in Field /\ Plus(Minus(rhs[j], right), right) = rhs[j]
    BY <2>2, <2>3, PlusMinus
  <2> HIDE DEF right
  <2>5. /\ Over(Minus(rhs[j], right), coeff[j][j]) \in Field
        /\ Mult(coeff[j][j], Over(Minus(rhs[j], right), coeff[j][j])) = Minus(rhs[j], right)
    BY <1>1, <2>3, <2>4, TimesOver
  <2>6. /\ solution' \in Vectors(dim)
        /\ solution'[j] = Over(Minus(rhs[j], right), coeff[j][j])
        /\ \A k \in Row : k # j => solution'[k] = solution[k]
    BY <1>2, <1>6, <2>1, <2>5 DEF Vectors
  <2>7. UpperTimes(coeff, j, solution', dim) = rhs[j]
    <3>1. UpperTimes(coeff, j, solution', dim)
            = Plus(Mult(coeff[j][j], solution'[j]),
                   SumOf([c \in 1 .. dim |-> IF c > j THEN Times(coeff[j][c], solution'[c]) ELSE Zero], dim))
      BY <1>2, <2>1, <2>6, UpperStep
    <3>2. [c \in 1 .. dim |-> IF c > j THEN Times(coeff[j][c], solution'[c]) ELSE Zero] = v
      BY <1>2, <2>6
    <3> HIDE DEF v
    <3>3. SumOf([c \in 1 .. dim |-> IF c > j THEN Times(coeff[j][c], solution'[c]) ELSE Zero], dim) = right
      BY <3>2 DEF right
    <3>4. Plus(Mult(coeff[j][j], solution'[j]), right) = rhs[j]
      BY <2>4, <2>5, <2>6
    <3>5. QED
      BY <3>1, <3>3, <3>4
  <2>8. \A r \in Row : r > j => UpperTimes(coeff, r, solution', dim) = rhs[r]
    <3> SUFFICES ASSUME NEW r \in Row, r > j
                 PROVE  UpperTimes(coeff, r, solution', dim) = rhs[r]
      OBVIOUS
    <3>1. \A k \in 1 .. dim : r <= k => solution'[k] = solution[k]
      BY <1>2, <2>6
    <3>2. UpperTimes(coeff, r, solution', dim) = UpperTimes(coeff, r, solution, dim)
      BY <3>1, UpperTimesLocal
    <3>3. QED
      BY <2>1, <3>2
  <2>9. \A r \in Row : r > j - 1 => (r = j \/ r > j)
    BY <1>2
  <2>10. QED
    BY <2>6, <2>7, <2>8, <2>9
<1>9. SubstitutionInv'
  <2>1. ASSUME NEW f, Forwarded(f) PROVE Forwarded(f)'
    BY <1>1, <1>3, <2>1 DEF Forwarded
  <2>2. NoZeroPivot(coeff, dim + 1) =>
          /\ coeff \in Matrices(dim) /\ rhs \in Vectors(dim)
          /\ \E f \in Orders(dim) : Factored(ReducedA, f, coeff, dim, dim) /\ Forwarded(f)'
    BY <1>1, <2>1 DEF SubstitutionInv
  <2>3. \A k \in Row : k > j - 1 => coeff[k][k] # Zero
    <3>1. \A k \in Row : k > j => coeff[k][k] # Zero
      BY <1>1 DEF SubstitutionInv
    <3>2. \A k \in Row : k > j - 1 => (k = j \/ k > j)
      BY <1>2
    <3>3. QED
      BY <1>1, <3>1, <3>2
  <2>4. call.function # "determinant" /\ j - 1 <= dim /\ (~NoZeroPivot(coeff, dim + 1) => Singular)
    BY <1>1, <1>2 DEF SubstitutionInv
  <2>5. QED
    BY <1>1, <1>3, <1>8, <2>2, <2>3, <2>4 DEF SubstitutionInv
<1>10. QED
  BY <1>4, <1>5, <1>7, <1>9 DEF IInv

\* A zero on the diagonal of U means the matrix is singular.
LEMMA ThrowSingularStep ==
    ASSUME IInv, ThrowSingular
    PROVE  IInv'
<1>1. /\ ArgsOK /\ TypeOK /\ XUnchanged /\ SubstitutionInv
      /\ pc = "substitute" /\ pc' = "thrown" /\ j > 0 /\ coeff[j][j] = Zero
      /\ UNCHANGED <<args, x, coeff, rhs, solution, column, inverse, j, rowSwaps, det>>
  BY DEF IInv, ThrowSingular
<1>2. j \in 1 .. (dim + 1) - 1
  <2>1. dim \in Nat
    BY <1>1, ReducedFacts
  <2>2. j \in 0 .. dim + 1 /\ j <= dim
    BY <1>1 DEF SubstitutionInv, TypeOK
  <2>3. QED
    BY <1>1, <2>1, <2>2
<1>3. Singular
  BY <1>1, <1>2 DEF SubstitutionInv, NoZeroPivot
<1>4. dim' = dim /\ Row' = Row /\ call' = call
  BY <1>1, ArgsUnchanged
<1>5. TypeOK'
  BY <1>1, <1>4 DEF TypeOK
<1>6. QED
  BY <1>1, <1>3, <1>5, Thrown DEF IInv

-----------------------------------------------------------------------------
(* What is returned. *)

\* When the substitution has reached the first row, the reduced system is solved.
LEMMA Solved ==
    ASSUME ArgsOK, SubstitutionInv, pc = "substitute", j = 0
    PROVE  /\ ~Singular
           /\ solution \in Vectors(dim)
           /\ \A i \in Row : RowTimes(ReducedA, i, solution, dim) = ReducedRhs[i]
<1>1. dim \in Nat /\ Row = 1 .. dim /\ ReducedA \in Matrices(dim)
  BY ReducedFacts
<1>2. NoZeroPivot(coeff, dim + 1)
  <2>1. \A k \in Row : k > j => coeff[k][k] # Zero
    BY DEF SubstitutionInv
  <2>2. QED
    BY <1>1, <2>1 DEF NoZeroPivot
<1>3. /\ coeff \in Matrices(dim) /\ rhs \in Vectors(dim) /\ solution \in Vectors(dim)
      /\ \E f \in Orders(dim) : Factored(ReducedA, f, coeff, dim, dim) /\ Forwarded(f)
      /\ \A r \in Row : r > j => UpperTimes(coeff, r, solution, dim) = rhs[r]
  BY <1>2 DEF SubstitutionInv
<1>4. PICK f \in Orders(dim) : Factored(ReducedA, f, coeff, dim, dim) /\ Forwarded(f)
  BY <1>3
<1>5. \A r \in 1 .. dim : UpperTimes(coeff, r, solution, dim) = rhs[r]
  BY <1>1, <1>3
<1>6. \A r \in 1 .. dim : RowTimes(ReducedA, f[r], solution, dim) = ReducedRhs[f[r]]
  <2> SUFFICES ASSUME NEW r \in 1 .. dim
               PROVE  RowTimes(ReducedA, f[r], solution, dim) = ReducedRhs[f[r]]
    OBVIOUS
  <2>1. RowTimes(ReducedA, f[r], solution, dim) = Plus(LowerTimes(coeff, r, rhs, dim), rhs[r])
    BY <1>1, <1>3, <1>4, <1>5, CompleteProduct
  <2>2. ReducedRhs[f[r]] = Plus(rhs[r], LowerTimes(coeff, r, rhs, dim))
    BY <1>1, <1>4 DEF Forwarded
  <2>3. LowerTimes(coeff, r, rhs, dim) \in Field /\ rhs[r] \in Field
    BY <1>1, <1>3, RowType DEF Vectors
  <2>4. QED
    BY <2>1, <2>2, <2>3, FieldAxioms
<1>7. \A i \in Row : RowTimes(ReducedA, i, solution, dim) = ReducedRhs[i]
  <2>1. \A i \in 1 .. dim : \E r \in 1 .. dim : f[r] = i
    BY <1>1, OrdersOnto
  <2>2. QED
    BY <1>1, <1>6, <2>1
<1>8. ~IsSingular(ReducedA, dim)
  BY <1>1, <1>2, <1>3, <1>4, PivotsRegular
<1>9. QED
  BY <1>3, <1>7, <1>8 DEF Singular

\* Written back at the indices that are kept, a solution of the reduced system solves
\* the equations that aren't skipped.
LEMMA WrittenBack ==
    ASSUME ArgsOK, NEW y \in Vectors(dim), NEW R, NEW X,
           \A i \in Row : RowTimes(ReducedA, i, y, dim) = R[i],
           \A i \in Index \ skip : X[i] = y[Position(i)],
           NEW r \in Index \ skip
    PROVE  SumOf([c \in Index |-> IF c \in skip THEN Zero ELSE Times(A[r][c], X[c])], Dim)
             = R[Position(r)]
<1> DEFINE p == Position(r)
           v == [c \in Index |-> IF c \in skip THEN Zero ELSE Times(A[r][c], X[c])]
           w == [k \in Row |-> Times(ReducedA[p][k], y[k])]
           K == KeptUpTo(skip)[Dim]
<1>1. dim \in Nat /\ Row = 1 .. dim /\ ReducedA \in Matrices(dim)
  BY ReducedFacts
<1>2. p \in Row /\ Kept[p] = r /\ \A k \in Row : Position(Kept[k]) = k
  BY PositionFacts
<1>3. \A k \in Row : Kept[k] \in Index \ skip
  BY KeptFacts
<1>4. v \in [Index -> Field]
  <2>1. \A c \in Index \ skip : A[r][c] \in Field /\ X[c] \in Field
    <3>1. \A c \in Index \ skip : Position(c) \in 1 .. dim
      BY <1>1, PositionFacts
    <3>2. QED
      BY <3>1 DEF ArgsOK, Vectors
  <2>2. \A c \in Index \ skip : Times(A[r][c], X[c]) \in Field
    BY <2>1, FieldTimes
  <2>3. QED
    BY <2>2, FieldClosed
<1>5. \A k \in Row : v[Kept[k]] = Times(ReducedA[p][k], y[k])
  <2> SUFFICES ASSUME NEW k \in Row
               PROVE  v[Kept[k]] = Times(ReducedA[p][k], y[k])
    OBVIOUS
  <2>1. v[Kept[k]] = Times(A[r][Kept[k]], X[Kept[k]])
    BY <1>3
  <2>2. X[Kept[k]] = y[k]
    BY <1>2, <1>3
  <2>3. ReducedA[p][k] = A[r][Kept[k]]
    BY <1>2 DEF ReducedA
  <2>4. QED
    BY <2>1, <2>2, <2>3
<1>6. SumOf(w, dim) = R[p]
  <2>1. w = [k \in 1 .. dim |-> Times(ReducedA[p][k], y[k])]
    BY <1>1
  <2> HIDE DEF p, w
  <2>2. SumOf(w, dim) = RowTimes(ReducedA, p, y, dim)
    BY <2>1 DEF RowTimes
  <2>3. QED
    BY <1>2, <2>2
<1>7. w = [k \in 1 .. Len(K) |-> v[K[k]]]
  <2>1. \A k \in Row : w[k] = v[Kept[k]]
    BY <1>5
  <2> HIDE DEF v
  <2>2. w = [k \in Row |-> v[Kept[k]]]
    BY <2>1
  <2>3. QED
    BY <2>2 DEF Row, dim, Kept
<1>8. SumOf([c \in Index |-> IF c \in skip THEN Zero ELSE v[c]], Dim) = SumOf(w, Len(K))
  <2> HIDE DEF v, w
  <2>1. QED
    BY <1>4, <1>7, SumOverKept
<1>9. [c \in Index |-> IF c \in skip THEN Zero ELSE v[c]] = v
  OBVIOUS
<1>10. SumOf(v, Dim) = SumOf(w, Len(K))
  <2> HIDE DEF v, w
  <2>1. QED
    BY <1>8, <1>9
<1>11. Len(K) = dim
  BY DEF dim, Kept
<1>12. QED
  <2> HIDE DEF w, K
  <2>1. SumOf(v, Dim) = R[p]
    BY <1>6, <1>10, <1>11
  <2>2. QED
    BY <2>1

\* What solve() writes back solves the equations that aren't skipped.
LEMMA ReturnSolutionStep ==
    ASSUME IInv, ReturnSolution
    PROVE  IInv'
<1>1. /\ ArgsOK /\ TypeOK /\ XUnchanged /\ SubstitutionInv
      /\ pc = "substitute" /\ pc' = "returned" /\ j = 0 /\ call.function = "solve"
      /\ x' = [i \in Index |-> IF i \in skip THEN x[i] ELSE solution[Position(i)]]
      /\ UNCHANGED <<args, coeff, rhs, solution, column, inverse, j, rowSwaps, det>>
  BY DEF IInv, ReturnSolution
<1>2. /\ ~Singular
      /\ solution \in Vectors(dim)
      /\ \A i \in Row : RowTimes(ReducedA, i, solution, dim) = ReducedRhs[i]
  BY <1>1, Solved
<1>3. /\ call' = call /\ A' = A /\ b' = b /\ skip' = skip
      /\ dim' = dim /\ Row' = Row /\ ArgsOK' /\ Singular' = Singular
  BY <1>1, ArgsUnchanged
<1>4. dim \in Nat /\ Row = 1 .. dim
  BY <1>1, ReducedFacts
<1>5. TypeOK'
  <2>1. x' \in [Index -> Entry]
    <3>1. \A i \in Index : x[i] \in Entry
      BY <1>1 DEF TypeOK
    <3>2. \A i \in Index \ skip : solution[Position(i)] \in Entry
      BY <1>2, <1>4, PositionFacts DEF Vectors, Entry
    <3>3. QED
      BY <1>1, <3>1, <3>2
  <2>2. QED
    BY <1>1, <1>3, <2>1 DEF TypeOK
<1>6. XUnchanged' /\ EliminationInv' /\ SubstitutionInv' /\ InverseInv'
  BY <1>1 DEF XUnchanged, EliminationInv, SubstitutionInv, InverseInv
<1>7. SolutionSolves'
  <2>1. ASSUME NEW r \in Index \ skip
        PROVE  SumOf([c \in Index |-> IF c \in skip THEN Zero ELSE Times(A[r][c], x'[c])], Dim) = b[r]
    <3>1. \A i \in Index \ skip : x'[i] = solution[Position(i)]
      BY <1>1
    <3>2. SumOf([c \in Index |-> IF c \in skip THEN Zero ELSE Times(A[r][c], x'[c])], Dim)
            = ReducedRhs[Position(r)]
      BY <1>1, <1>2, <3>1, WrittenBack
    <3>3. Position(r) \in Row /\ Kept[Position(r)] = r
      BY PositionFacts
    <3>4. ReducedRhs[Position(r)] = b[r]
      BY <1>1, <3>3 DEF ReducedRhs
    <3>5. QED
      BY <3>2, <3>4
  <2>2. \A i \in skip : x'[i] = One
    BY <1>1 DEF ArgsOK, XUnchanged
  <2>3. QED
    BY <1>3, <2>1, <2>2 DEF SolutionSolves
<1>8. OutcomeInv'
  BY <1>1, <1>2, <1>3, <1>7 DEF OutcomeInv, InverseInverts
<1>9. QED
  BY <1>3, <1>5, <1>6, <1>8 DEF IInv

\* Only the type is claimed of the determinant.
LEMMA ReturnDeterminantStep ==
    ASSUME IInv, ReturnDeterminant
    PROVE  IInv'
<1>1. /\ ArgsOK /\ TypeOK
      /\ pc = "pivot" /\ pc' = "returned" /\ call.function = "determinant"
      /\ det' = ProductOf(IF rowSwaps % 2 = 0 THEN One ELSE Neg(One), [i \in Row |-> coeff[i][i]], dim)
      /\ UNCHANGED <<args, x, coeff, rhs, solution, column, inverse, j, rowSwaps>>
  BY DEF IInv, ReturnDeterminant
<1>2. call' = call /\ dim' = dim /\ Row' = Row /\ ArgsOK'
  BY <1>1, ArgsUnchanged
<1>3. dim \in Nat /\ Row = 1 .. dim
  BY <1>1, ReducedFacts
<1>4. det' \in Entry
  <2> DEFINE u == IF rowSwaps % 2 = 0 THEN One ELSE Neg(One)
             d == [i \in Row |-> coeff[i][i]]
  <2>1. u \in Entry
    BY FieldClosed DEF Entry
  <2>2. d \in [1 .. dim -> Entry]
    BY <1>1, <1>3 DEF TypeOK
  <2>3. det' = ProductOf(u, d, dim)
    BY <1>1
  <2> HIDE DEF u, d
  <2>4. QED
    BY <1>3, <2>1, <2>2, <2>3, ProductsDef
<1>5. TypeOK'
  BY <1>1, <1>2, <1>4 DEF TypeOK
<1>6. XUnchanged' /\ EliminationInv' /\ SubstitutionInv' /\ InverseInv'
  BY <1>1 DEF XUnchanged, EliminationInv, SubstitutionInv, InverseInv
<1>7. OutcomeInv'
  BY <1>1, <1>2 DEF OutcomeInv, SolutionSolves, InverseInverts
<1>8. QED
  BY <1>2, <1>5, <1>6, <1>7 DEF IInv

\* At the start of an elimination nothing has been swapped and there are no factors.
LEMMA StartOfElimination ==
    ASSUME NEW n \in Nat, NEW M \in Matrices(n), NEW R \in Vectors(n)
    PROVE  \E f \in Orders(n) : /\ IsOdd(f, n) = (0 % 2 = 1)
                                /\ \A r \in 1 .. n : R[r] = R[f[r]]
                                /\ Factored(M, f, M, 1, n)
<1> DEFINE f == [r \in 1 .. n |-> r]
<1>1. f \in Orders(n) /\ ~IsOdd(f, n) /\ Factored(M, f, M, 1, n)
  BY IdentityOrder, FactoredInit
<1>2. \A r \in 1 .. n : R[r] = R[f[r]]
  OBVIOUS
<1> HIDE DEF f
<1>3. IsOdd(f, n) = (0 % 2 = 1)
  <2>1. IsOdd(f, n) \in BOOLEAN
    BY DEF IsOdd
  <2>2. QED
    BY <1>1, <2>1
<1>4. QED
  BY <1>1, <1>2, <1>3

\* invert(): the right hand side is a column of the unit matrix, and the solution is a
\* column of the inverse.
LEMMA NextColumnOfInverse ==
    ASSUME ArgsOK, TypeOK, SubstitutionInv, InverseInv, pc = "substitute", j = 0,
           call.function = "invert",
           inverse' = [r \in Row |-> [inverse[r] EXCEPT ![column] = solution[r]]]
    PROVE  /\ inverse' \in [Row -> [Row -> Entry]]
           /\ \A c \in Row : c <= column => InverseColumn(ReducedA, inverse', c, dim)
<1>1. /\ dim \in Nat /\ Row = 1 .. dim
      /\ solution \in Vectors(dim)
      /\ \A i \in Row : RowTimes(ReducedA, i, solution, dim) = ReducedRhs[i]
  BY ReducedFacts, Solved
<1>2. /\ column \in Row
      /\ \A c \in Row : c < column => InverseColumn(ReducedA, inverse, c, dim)
  BY DEF InverseInv
<1>3. inverse \in [Row -> [Row -> Entry]]
  BY DEF TypeOK
<1>4. inverse' \in [Row -> [Row -> Entry]]
  <2>1. \A r \in Row : solution[r] \in Entry
    BY <1>1 DEF Vectors, Entry
  <2>2. QED
    BY <1>2, <1>3, <2>1
<1>5. ColumnOf(inverse', column, dim) = solution
  <2>1. \A k \in 1 .. dim : inverse'[k][column] = solution[k]
    BY <1>1, <1>2, <1>3
  <2>2. solution = [k \in 1 .. dim |-> solution[k]]
    BY <1>1 DEF Vectors
  <2>3. ColumnOf(inverse', column, dim) = [k \in 1 .. dim |-> solution[k]]
    BY <2>1 DEF ColumnOf
  <2>4. QED
    BY <2>2, <2>3
<1>6. ASSUME NEW c \in Row, c < column
      PROVE  ColumnOf(inverse', c, dim) = ColumnOf(inverse, c, dim)
  <2>1. c # column
    BY <1>1, <1>2, <1>6
  <2>2. \A k \in 1 .. dim : inverse'[k][c] = inverse[k][c]
    BY <1>1, <1>2, <1>3, <2>1
  <2>3. QED
    BY <2>2 DEF ColumnOf
<1>7. InverseColumn(ReducedA, inverse', column, dim)
  <2>1. \A r \in Row : ReducedRhs[r] = Unit(r, column)
    BY DEF ReducedRhs, Unit
  <2>2. QED
    BY <1>1, <1>5, <2>1 DEF InverseColumn
<1>8. \A c \in Row : c < column => InverseColumn(ReducedA, inverse', c, dim)
  BY <1>2, <1>6 DEF InverseColumn
<1>9. \A c \in Row : c <= column => c = column \/ c < column
  BY <1>1, <1>2
<1>10. QED
  BY <1>4, <1>7, <1>8, <1>9

\* One more column of the inverse; the elimination starts over.
LEMMA NextColumnStep ==
    ASSUME IInv, NextColumn
    PROVE  IInv'
<1>1. /\ ArgsOK /\ TypeOK /\ XUnchanged /\ SubstitutionInv /\ InverseInv
      /\ pc = "substitute" /\ pc' = "pivot" /\ j = 0 /\ j' = 1 /\ rowSwaps' = 0
      /\ call.function = "invert" /\ column < dim /\ column' = column + 1
      /\ inverse' = [r \in Row |-> [inverse[r] EXCEPT ![column] = solution[r]]]
      /\ coeff' = ReducedA /\ solution' = Zeros
      /\ rhs' = [r \in Row |-> IF r = column' THEN One ELSE Zero]
      /\ UNCHANGED <<args, x, det>>
  BY DEF IInv, NextColumn
<1>2. dim \in Nat /\ Row = 1 .. dim /\ ReducedA \in Matrices(dim) /\ Zeros \in Vectors(dim)
  BY <1>1, ReducedFacts
<1>3. /\ call' = call /\ A' = A /\ dim' = dim /\ Row' = Row /\ ReducedA' = ReducedA /\ ArgsOK'
  BY <1>1, ArgsUnchanged
<1>4. column \in Row /\ column' \in Row
  BY <1>1, <1>2 DEF InverseInv
<1>5. rhs' \in Vectors(dim) /\ rhs' = ReducedRhs'
  BY <1>1, <1>2, <1>3, FieldClosed DEF ReducedRhs, Vectors
<1>6. /\ inverse' \in [Row -> [Row -> Entry]]
      /\ \A c \in Row : c <= column => InverseColumn(ReducedA, inverse', c, dim)
  BY <1>1, NextColumnOfInverse
<1>7. TypeOK'
  <2>1. coeff' \in [Row -> [Row -> Entry]] /\ solution' \in [Row -> Entry] /\ rhs' \in [Row -> Entry]
    BY <1>1, <1>2, <1>5 DEF Matrices, Vectors, Entry
  <2>2. column' \in 1 .. dim + 1 /\ j' \in 0 .. dim + 1 /\ rowSwaps' \in Nat
    BY <1>1, <1>2, <1>4
  <2>3. QED
    BY <1>1, <1>3, <1>6, <2>1, <2>2 DEF TypeOK
<1>8. XUnchanged'
  BY <1>1, <1>3 DEF XUnchanged
<1>9. PartialFactors'
  <2>1. \E f \in Orders(dim) : /\ IsOdd(f, dim) = (0 % 2 = 1)
                               /\ \A r \in Row : rhs'[r] = rhs'[f[r]]
                               /\ Factored(ReducedA, f, ReducedA, 1, dim)
    BY <1>2, <1>5, StartOfElimination
  <2>2. QED
    BY <1>1, <1>3, <1>5, <2>1 DEF PartialFactors
<1>10. EliminationInv'
  <2>1. NoZeroPivot(coeff', j')
    BY <1>1 DEF NoZeroPivot
  <2>2. dim = 0 \/ 1 <= dim
    BY <1>2
  <2>3. QED
    BY <1>1, <1>2, <1>3, <1>5, <1>9, <2>1, <2>2 DEF EliminationInv
<1>11. InverseInv'
  <2>1. \A c \in Row : c < column + 1 => c <= column
    BY <1>2, <1>4
  <2>2. QED
    BY <1>1, <1>3, <1>4, <1>6, <2>1 DEF InverseInv
<1>12. SubstitutionInv' /\ OutcomeInv'
  BY <1>1 DEF SubstitutionInv, OutcomeInv, SolutionSolves, InverseInverts
<1>13. QED
  BY <1>3, <1>7, <1>8, <1>10, <1>11, <1>12 DEF IInv

\* The last column of the inverse, and what invert() writes back.
LEMMA ReturnInverseStep ==
    ASSUME IInv, ReturnInverse
    PROVE  IInv'
<1>1. /\ ArgsOK /\ TypeOK /\ XUnchanged /\ SubstitutionInv /\ InverseInv
      /\ pc = "substitute" /\ pc' = "returned" /\ j = 0 /\ call.function = "invert" /\ column = dim
      /\ inverse' = [r \in Row |-> [inverse[r] EXCEPT ![column] = solution[r]]]
      /\ x' = [i \in Index |-> [k \in Index |->
                 IF i \in skip \/ k \in skip THEN x[i][k]
                 ELSE inverse'[Position(i)][Position(k)]]]
      /\ UNCHANGED <<args, coeff, rhs, solution, column, j, rowSwaps, det>>
  BY DEF IInv, ReturnInverse
<1>2. ~Singular
  BY <1>1, Solved
<1>3. /\ call' = call /\ A' = A /\ b' = b /\ skip' = skip
      /\ dim' = dim /\ Row' = Row /\ ArgsOK' /\ Singular' = Singular
  BY <1>1, ArgsUnchanged
<1>4. dim \in Nat /\ Row = 1 .. dim
  BY <1>1, ReducedFacts
<1>5. /\ inverse' \in [Row -> [Row -> Entry]]
      /\ \A c \in Row : InverseColumn(ReducedA, inverse', c, dim)
  <2>1. /\ inverse' \in [Row -> [Row -> Entry]]
        /\ \A c \in Row : c <= column => InverseColumn(ReducedA, inverse', c, dim)
    BY <1>1, NextColumnOfInverse
  <2>2. \A c \in Row : c <= column
    BY <1>1, <1>4
  <2>3. QED
    BY <2>1, <2>2
<1>6. x = A
  BY <1>1 DEF XUnchanged
<1>7. TypeOK'
  <2>1. x' \in [Index -> [Index -> Entry]]
    <3>1. \A i, k \in Index : x[i][k] \in Entry
      BY <1>1, <1>6 DEF ArgsOK, Entry
    <3>2. \A i, k \in Index \ skip : inverse'[Position(i)][Position(k)] \in Entry
      BY <1>5, PositionFacts
    <3>3. QED
      BY <1>1, <3>1, <3>2
  <2>2. QED
    BY <1>1, <1>3, <1>5, <2>1 DEF TypeOK
<1>8. XUnchanged' /\ EliminationInv' /\ SubstitutionInv' /\ InverseInv'
  BY <1>1 DEF XUnchanged, EliminationInv, SubstitutionInv, InverseInv
<1>9. InverseInverts'
  <2>1. ASSUME NEW r \in Index \ skip, NEW c \in Index \ skip
        PROVE  SumOf([k \in Index |-> IF k \in skip THEN Zero ELSE Times(A[r][k], x'[k][c])], Dim)
                 = IF r = c THEN One ELSE Zero
    <3> DEFINE p == Position(c)
               y == ColumnOf(inverse', p, dim)
               R == [i \in Row |-> Unit(i, p)]
               X == [i \in Index |-> x'[i][c]]
    <3>1. p \in Row /\ Kept[p] = c /\ Position(r) \in Row /\ Kept[Position(r)] = r
      BY PositionFacts
    <3>2. InverseColumn(ReducedA, inverse', p, dim)
      BY <1>5, <3>1
    <3>3. y \in Vectors(dim) /\ \A i \in Row : RowTimes(ReducedA, i, y, dim) = R[i]
      BY <1>4, <3>2 DEF InverseColumn
    <3>4. \A i \in Index \ skip : X[i] = y[Position(i)]
      <4>1. \A i \in Index \ skip : Position(i) \in 1 .. dim
        BY <1>4, PositionFacts
      <4>2. \A i \in Index \ skip : X[i] = inverse'[Position(i)][p]
        BY <1>1
      <4>3. \A k \in 1 .. dim : y[k] = inverse'[k][p]
        BY DEF ColumnOf
      <4> HIDE DEF p, y, X
      <4>4. QED
        BY <4>1, <4>2, <4>3
    <3>5. [k \in Index |-> IF k \in skip THEN Zero ELSE Times(A[r][k], x'[k][c])]
            = [k \in Index |-> IF k \in skip THEN Zero ELSE Times(A[r][k], X[k])]
      OBVIOUS
    <3>6. SumOf([k \in Index |-> IF k \in skip THEN Zero ELSE Times(A[r][k], X[k])], Dim)
            = R[Position(r)]
      <4> HIDE DEF y, R, X
      <4>1. QED
        BY <1>1, <3>3, <3>4, WrittenBack
    <3>7. R[Position(r)] = IF r = c THEN One ELSE Zero
      BY <3>1 DEF Unit
    <3> HIDE DEF R, X
    <3>8. QED
      BY <3>5, <3>6, <3>7
  <2>2. \A r, c \in Index : {r, c} \cap skip # {} => x'[r][c] = A[r][c]
    BY <1>1, <1>6
  <2>3. QED
    BY <1>3, <2>1, <2>2 DEF InverseInverts
<1>10. OutcomeInv'
  BY <1>1, <1>2, <1>3, <1>9 DEF OutcomeInv, SolutionSolves
<1>11. QED
  BY <1>3, <1>7, <1>8, <1>10 DEF IInv

-----------------------------------------------------------------------------
(* The invariant holds at the call, and no step loses it. *)

\* The invariant holds at the call.
LEMMA InitInvariant ==
    ASSUME Init
    PROVE  IInv
<1>1. ArgsOK
  BY InputsAssumption DEF Init, ArgsOK
<1>2. /\ dim \in Nat /\ Row = 1 .. dim /\ ReducedA \in Matrices(dim)
      /\ ReducedRhs \in Vectors(dim) /\ Zeros \in Vectors(dim)
  BY <1>1, ReducedFacts
<1>3. /\ x = IF call.function = "invert" THEN A ELSE [i \in Index |-> One]
      /\ column = 1 /\ coeff = ReducedA /\ rhs = ReducedRhs /\ solution = Zeros
      /\ inverse = [r \in Row |-> Zeros] /\ j = 1 /\ rowSwaps = 0 /\ det = Undefined
      /\ pc = IF dim = 0 /\ call.function = "invert" THEN "returned" ELSE "pivot"
  BY DEF Init
<1>4. TypeOK
  <2>1. IF call.function = "invert" THEN x \in [Index -> [Index -> Entry]] ELSE x \in [Index -> Entry]
    BY <1>1, <1>3, FieldClosed DEF ArgsOK, Entry
  <2>2. /\ coeff \in [Row -> [Row -> Entry]] /\ rhs \in [Row -> Entry]
        /\ solution \in [Row -> Entry] /\ inverse \in [Row -> [Row -> Entry]]
    BY <1>2, <1>3 DEF Matrices, Vectors, Entry
  <2>3. column \in 1 .. dim + 1 /\ j \in 0 .. dim + 1 /\ rowSwaps \in Nat /\ det \in Entry
    BY <1>2, <1>3 DEF Entry
  <2>4. call \in Call
    BY <1>1 DEF ArgsOK
  <2>5. QED
    BY <1>3, <2>1, <2>2, <2>3, <2>4 DEF TypeOK
<1>5. XUnchanged
  BY <1>3 DEF XUnchanged
<1>6. PartialFactors
  <2>1. \E f \in Orders(dim) : /\ IsOdd(f, dim) = (0 % 2 = 1)
                               /\ \A r \in Row : ReducedRhs[r] = ReducedRhs[f[r]]
                               /\ Factored(ReducedA, f, ReducedA, 1, dim)
    BY <1>2, StartOfElimination
  <2>2. QED
    BY <1>3, <2>1 DEF PartialFactors
<1>7. EliminationInv
  <2>1. NoZeroPivot(coeff, j)
    BY <1>3 DEF NoZeroPivot
  <2>2. dim = 0 \/ 1 <= dim
    BY <1>2
  <2>3. QED
    BY <1>2, <1>3, <1>6, <2>1, <2>2 DEF EliminationInv
<1>8. SubstitutionInv
  BY <1>3 DEF SubstitutionInv
<1>9. InverseInv
  BY <1>2, <1>3 DEF InverseInv
<1>10. OutcomeInv
  <2>1. ASSUME pc = "returned" PROVE dim = 0 /\ call.function = "invert"
    BY <1>3, <2>1
  <2>2. pc # "thrown"
    BY <1>3
  <2>3. dim = 0 => ~Singular
    <3>1. \A c : c \notin 1 .. 0
      OBVIOUS
    <3>2. QED
      BY <3>1 DEF Singular, IsSingular
  <2>4. ASSUME pc = "returned" PROVE InverseInverts
    <3>1. Index \ skip = {}
      BY <1>2, <2>1, <2>4, KeptFacts
    <3>2. x = A
      BY <1>3, <2>1, <2>4
    <3>3. QED
      BY <3>1, <3>2 DEF InverseInverts
  <2>5. SolutionSolves
    BY <2>1 DEF SolutionSolves
  <2>6. QED
    BY <2>1, <2>2, <2>3, <2>4, <2>5 DEF OutcomeInv, InverseInverts
<1>11. QED
  BY <1>1, <1>4, <1>5, <1>7, <1>8, <1>9, <1>10 DEF IInv

\* Nothing changes.
LEMMA StutterStep ==
    ASSUME IInv, UNCHANGED vars
    PROVE  IInv'
<1>1. /\ UNCHANGED args
      /\ UNCHANGED <<x, coeff, rhs, solution, column, inverse, j, rowSwaps, det, pc>>
  BY DEF vars, args
<1>2. /\ call' = call /\ A' = A /\ b' = b /\ skip' = skip
      /\ dim' = dim /\ Row' = Row /\ ReducedA' = ReducedA /\ ReducedRhs' = ReducedRhs
      /\ Singular' = Singular
  BY <1>1, ArgsUnchanged
<1>3. ArgsOK' /\ TypeOK' /\ XUnchanged'
  BY <1>1, <1>2 DEF IInv, ArgsOK, TypeOK, XUnchanged
<1>4. EliminationInv'
  BY <1>1, <1>2 DEF IInv, EliminationInv, PartialFactors
<1>5. SubstitutionInv'
  BY <1>1, <1>2 DEF IInv, SubstitutionInv, Forwarded
<1>6. InverseInv'
  BY <1>1, <1>2 DEF IInv, InverseInv
<1>7. OutcomeInv'
  BY <1>1, <1>2 DEF IInv, OutcomeInv, SolutionSolves, InverseInverts
<1>8. QED
  BY <1>3, <1>4, <1>5, <1>6, <1>7 DEF IInv

\* Every step keeps the invariant.
LEMMA NextInvariant ==
    ASSUME IInv, [Next]_vars
    PROVE  IInv'
<1>1. CASE ChoosePivot
  BY <1>1, ChoosePivotStep
<1>2. CASE ThrowNoPivot
  BY <1>2, ThrowNoPivotStep
<1>3. CASE EliminateColumn
  BY <1>3, EliminateColumnStep
<1>4. CASE ComputeSolution
  BY <1>4, ComputeSolutionStep
<1>5. CASE ForwardSubstitution
  BY <1>5, ForwardSubstitutionStep
<1>6. CASE StartBackSubstitution
  BY <1>6, StartBackSubstitutionStep
<1>7. CASE BackSubstitution
  BY <1>7, BackSubstitutionStep
<1>8. CASE ThrowSingular
  BY <1>8, ThrowSingularStep
<1>9. CASE ReturnSolution
  BY <1>9, ReturnSolutionStep
<1>10. CASE ReturnDeterminant
  BY <1>10, ReturnDeterminantStep
<1>11. CASE NextColumn
  BY <1>11, NextColumnStep
<1>12. CASE ReturnInverse
  BY <1>12, ReturnInverseStep
<1>13. CASE UNCHANGED vars
  BY <1>13, StutterStep
<1>14. QED
  BY <1>1, <1>2, <1>3, <1>4, <1>5, <1>6, <1>7, <1>8, <1>9, <1>10, <1>11, <1>12, <1>13 DEF Next

\* The invariant holds in every behaviour.
LEMMA Invariant == Spec => []IInv
<1>1. Init => IInv
  BY InitInvariant
<1>2. IInv /\ [Next]_vars => IInv'
  BY NextInvariant
<1>3. QED
  BY <1>1, <1>2, PTL DEF Spec

-----------------------------------------------------------------------------
(* Results. *)

\* The entries of all adaptors are expressions or Undefined, and the elimination and
\* the substitutions stay within the rows and columns there are.
THEOREM TypeCorrect == Spec => []TypeOK
<1>1. IInv => TypeOK
  BY DEF IInv
<1>2. QED
  BY <1>1, Invariant, PTL

\* Whatever pivots are chosen, the factors of the finished columns stay below the
\* diagonal, the rows and the right hand side are in the same order, and rowSwaps has
\* the parity of that order: P A = L U, which directsolve.cpp and the public functions
\* of solve.cpp rely on.
THEOREM FactorsOfFinishedColumns == Spec => []PartialFactors
<1>1. IInv => PartialFactors
  BY DEF IInv, EliminationInv, PartialFactors
<1>2. QED
  BY <1>1, Invariant, PTL

\* What solve() returns solves the equations that the skip field leaves, for every
\* field, every number of rows, every skip field and every choice of pivots; unknowns
\* that are skipped keep their value.
THEOREM SolveIsRight == Spec => []SolutionSolves
<1>1. IInv => SolutionSolves
  BY DEF IInv, OutcomeInv
<1>2. QED
  BY <1>1, Invariant, PTL

\* What invert() returns is a right inverse of what the skip field leaves, although
\* every column starts a new elimination with other pivots.
THEOREM InvertIsRight == Spec => []InverseInverts
<1>1. IInv => InverseInverts
  BY DEF IInv, OutcomeInv
<1>2. QED
  BY <1>1, Invariant, PTL

\* solve() and invert() throw for singular matrices only, and return for regular ones
\* only: no pivot that is zero, and no Undefined that follows from it, goes unnoticed.
THEOREM SingularIsNoticed == Spec => []ThrowsIffSingular
<1>1. IInv => ThrowsIffSingular
  BY DEF IInv, OutcomeInv, ThrowsIffSingular
<1>2. QED
  BY <1>1, Invariant, PTL
=============================================================================
