------------------------- MODULE NumPowerSimplProofs -------------------------
(***************************************************************************)
(* The vectors of PrimeFac stay reduced, the fractions of NumPowerSimpl    *)
(* stay in lowest terms, and the representation of its results.            *)
(*                                                                         *)
(* First the operations on vectors, each with what it keeps: prime entries *)
(* in ascending order, that come from the vectors it is given.             *)
(***************************************************************************)
EXTENDS NumPowerSimpl, NumbersProofs

Vector == {s \in Seq(Prime) : Ascending(s)}

Entries(s) == {s[k] : k \in DOMAIN s}

LEMMA VectorFacts ==
    ASSUME NEW s \in Vector
    PROVE  /\ s \in Seq(Prime) /\ Ascending(s)
           /\ Len(s) \in Nat /\ DOMAIN s = 1 .. Len(s)
           /\ \A k \in 1 .. Len(s) : s[k] \in Prime /\ s[k] \in Nat /\ s[k] > 1 /\ s[k] \in Entries(s)
           /\ \A i, j \in 1 .. Len(s) : i <= j => s[i] <= s[j]
           /\ Entries(s) \subseteq Prime
<1>1. /\ s \in Seq(Prime) /\ Ascending(s)
      /\ Len(s) \in Nat /\ DOMAIN s = 1 .. Len(s)
      /\ \A k \in 1 .. Len(s) : s[k] \in Prime
  BY DEF Vector
<1>2. \A k \in 1 .. Len(s) : s[k] \in Nat /\ s[k] > 1 /\ s[k] \in Entries(s)
  BY <1>1, PrimeFacts DEF Entries
<1>3. \A i, j \in 1 .. Len(s) : i <= j => s[i] <= s[j]
  BY <1>1, <1>2 DEF Ascending
<1>4. Entries(s) \subseteq Prime
  BY <1>1 DEF Entries
<1>5. QED
  BY <1>1, <1>2, <1>3, <1>4

\* A function that is written down entry by entry.
LEMMA VectorByEntries ==
    ASSUME NEW n \in Nat, NEW s, s = [k \in 1 .. n |-> s[k]],
           \A k \in 1 .. n : s[k] \in Prime,
           \A i, j \in 1 .. n : i < j => s[i] <= s[j]
    PROVE  s \in Vector /\ Len(s) = n /\ DOMAIN s = 1 .. n
<1>1. s \in [1 .. n -> Prime] /\ DOMAIN s = 1 .. n
  OBVIOUS
<1>2. s \in Seq(Prime) /\ Len(s) = n
  BY <1>1
<1>3. QED
  BY <1>1, <1>2 DEF Vector, Ascending

LEMMA VectorIsPrimeVector ==
    ASSUME NEW s \in Vector
    PROVE  s \in PrimeVector
<1>1. /\ s \in Seq(Prime) /\ Len(s) \in Nat
      /\ \A k \in 1 .. Len(s) : s[k] \in Nat /\ s[k] > 1
  BY VectorFacts
<1>2. s \in [1 .. Len(s) -> Prime]
  BY <1>1
<1>3. \A k \in 1 .. Len(s) : s[k] \in Nat \ {0, 1}
  BY <1>1
<1>4. s \in [1 .. Len(s) -> Nat \ {0, 1}]
  BY <1>2, <1>3
<1>5. QED
  BY <1>1, <1>4 DEF PrimeVector

LEMMA EmptyVector == <<>> \in Vector /\ Entries(<<>>) = {}
BY DEF Vector, Ascending, Entries

\* Quotients grow with what is divided.
LEMMA QuotientGrows ==
    ASSUME NEW k \in Nat \ {0}, NEW m \in Nat, NEW n \in Nat, m <= n
    PROVE  m \div k <= n \div k
<1> DEFINE a == m \div k
           c == n \div k
           r == m % k
           u == n % k
<1>1. /\ a \in Nat /\ c \in Nat /\ r \in 0 .. k - 1 /\ u \in 0 .. k - 1
      /\ m = k * a + r /\ n = k * c + u
  BY Division, Zenon
<1> HIDE DEF a, c, r, u
<1>2. CASE a > c
  <2>1. k * a >= k * (c + 1)
    BY <1>1, <1>2
  <2>2. k * (c + 1) = k * c + k
    BY <1>1
  <2>3. QED
    BY <1>1, <2>1, <2>2
<1>3. QED
  BY <1>1, <1>2 DEF a, c

LEMMA DuplicateFacts ==
    ASSUME NEW s \in Vector, NEW n \in Nat
    PROVE  /\ Duplicate(s, n) \in Vector
           /\ Entries(Duplicate(s, n)) \subseteq Entries(s)
           /\ s = <<>> => Duplicate(s, n) = <<>>
<1> DEFINE l == Len(s)
           d == Duplicate(s, n)
           at(j) == ((j - 1) \div n) + 1
<1>1. l \in Nat /\ n * l \in Nat
  BY VectorFacts
<1>2. d = [j \in 1 .. n * l |-> s[at(j)]]
  BY DEF Duplicate
<1>3. ASSUME NEW j \in 1 .. n * l PROVE at(j) \in 1 .. l /\ n # 0
  <2> DEFINE q == (j - 1) \div n
             r == (j - 1) % n
  <2>1. n # 0 /\ n \in Nat \ {0} /\ j - 1 \in Nat
    BY <1>1
  <2>2. q \in Nat /\ r \in 0 .. n - 1 /\ j - 1 = n * q + r
    BY <2>1, Division, Zenon
  <2> HIDE DEF q, r
  <2>3. q >= l => n * q >= n * l
    BY <1>1, <2>1, <2>2
  <2>4. n * q \in Nat
    BY <2>2
  <2>5. q < l
    BY <1>1, <2>1, <2>2, <2>3, <2>4
  <2>6. QED
    BY <1>1, <2>1, <2>2, <2>5 DEF q
<1>4. ASSUME NEW i \in 1 .. n * l, NEW j \in 1 .. n * l, i < j PROVE at(i) <= at(j)
  <2>1. n \in Nat \ {0} /\ i - 1 \in Nat /\ j - 1 \in Nat /\ i - 1 <= j - 1
    BY <1>1, <1>3, <1>4
  <2>2. (i - 1) \div n <= (j - 1) \div n
    BY <2>1, QuotientGrows
  <2>3. (i - 1) \div n \in Int /\ (j - 1) \div n \in Int
    BY <2>1
  <2>4. QED
    BY <2>2, <2>3
<1> HIDE DEF l, d, at
<1>5. \A k \in 1 .. l : s[k] \in Prime /\ s[k] \in Entries(s)
  BY VectorFacts DEF l
<1>6. \A i, j \in 1 .. l : i <= j => s[i] <= s[j]
  BY VectorFacts DEF l
<1>7. \A j \in 1 .. n * l : d[j] = s[at(j)]
  BY <1>2
<1>8. d \in Vector /\ DOMAIN d = 1 .. n * l
  <2>1. d = [j \in 1 .. n * l |-> d[j]]
    BY <1>2
  <2>2. \A j \in 1 .. n * l : d[j] \in Prime
    BY <1>3, <1>5, <1>7
  <2>3. \A i, j \in 1 .. n * l : i < j => d[i] <= d[j]
    BY <1>3, <1>4, <1>6, <1>7
  <2>4. QED
    BY <1>1, <2>1, <2>2, <2>3, VectorByEntries
<1>9. Entries(d) \subseteq Entries(s)
  BY <1>3, <1>5, <1>7, <1>8 DEF Entries
<1>10. s = <<>> => d = <<>>
  <2> SUFFICES ASSUME s = <<>> PROVE d = <<>>
    OBVIOUS
  <2>1. l = 0
    BY DEF l
  <2>2. n * l = 0
    BY <2>1
  <2>3. 1 .. n * l = {}
    BY <2>2
  <2>4. d = [j \in {} |-> s[at(j)]]
    BY <1>2, <2>3
  <2>5. d \in Seq(Prime) /\ Len(d) = 0
    BY <1>8, <2>2 DEF Vector
  <2>6. QED
    BY <2>5
<1>11. QED
  BY <1>8, <1>9, <1>10 DEF d

\* One more prime goes behind those that are not larger.
LEMMA InsertFacts ==
    ASSUME NEW s \in Vector, NEW p \in Prime
    PROVE  /\ Insert(s, p) \in Vector
           /\ Entries(Insert(s, p)) \subseteq Entries(s) \cup {p}
<1> DEFINE l == Len(s)
           Fits(k) == \A i \in 1 .. l : s[i] <= p <=> i <= k
           c == CHOOSE k \in 0 .. l : Fits(k)
           u == Insert(s, p)
<1>1. /\ l \in Nat /\ p \in Nat
      /\ \A k \in 1 .. l : s[k] \in Prime /\ s[k] \in Nat /\ s[k] \in Entries(s)
      /\ \A i, j \in 1 .. l : i <= j => s[i] <= s[j]
  BY VectorFacts, PrimeFacts
<1>2. u = [i \in 1 .. l + 1 |-> IF i <= c THEN s[i] ELSE IF i = c + 1 THEN p ELSE s[i - 1]]
  BY DEF Insert
<1>3. c \in 0 .. l /\ Fits(c)
  <2> DEFINE U == {i \in 1 .. l : s[i] > p}
  <2>1. CASE U = {}
    <3>1. l \in 0 .. l /\ Fits(l)
      BY <1>1, <2>1
    <3>2. QED
      BY <3>1
  <2>2. CASE U # {}
    <3>1. U \in SUBSET Nat
      BY <1>1
    <3>2. PICK m \in U : \A i \in U : m <= i
      <4> HIDE DEF U
      <4>1. QED
        BY <2>2, <3>1, LeastNumber
    <3>3. m \in 1 .. l /\ s[m] > p
      OBVIOUS
    <3>4. m - 1 \in 0 .. l
      BY <1>1, <3>3
    <3>5. ASSUME NEW i \in 1 .. l PROVE s[i] <= p <=> i <= m - 1
      <4>1. CASE i < m
        BY <1>1, <3>2, <3>3, <4>1
      <4>2. CASE i >= m
        BY <1>1, <3>3, <4>2
      <4>3. QED
        BY <1>1, <3>3, <4>1, <4>2
    <3>6. QED
      BY <3>4, <3>5
  <2>3. QED
    BY <2>1, <2>2
<1> HIDE DEF l, c, u
<1>4. \A i \in 1 .. l + 1 :
        \/ i <= c /\ i \in 1 .. l /\ u[i] = s[i] /\ s[i] <= p
        \/ i = c + 1 /\ u[i] = p
        \/ i > c + 1 /\ i - 1 \in 1 .. l /\ u[i] = s[i - 1] /\ p <= s[i - 1]
  <2> TAKE i \in 1 .. l + 1
  <2>1. CASE i <= c
    BY <1>1, <1>2, <1>3, <2>1
  <2>2. CASE i = c + 1
    BY <1>1, <1>2, <1>3, <2>2
  <2>3. CASE i > c + 1
    <3>1. i - 1 \in 1 .. l /\ ~(i - 1 <= c) /\ u[i] = s[i - 1]
      BY <1>1, <1>2, <1>3, <2>3
    <3>2. ~(s[i - 1] <= p) /\ s[i - 1] \in Nat
      BY <1>1, <1>3, <3>1
    <3>3. QED
      BY <1>1, <2>3, <3>1, <3>2
  <2>4. QED
    BY <1>1, <1>3, <2>1, <2>2, <2>3
<1>5. \A i \in 1 .. l + 1 : u[i] \in Prime /\ u[i] \in Entries(s) \cup {p}
  BY <1>1, <1>4
<1>6. ASSUME NEW i \in 1 .. l + 1, NEW j \in 1 .. l + 1, i < j PROVE u[i] <= u[j]
  <2>1. CASE i <= c
    <3>1. i \in 1 .. l /\ u[i] = s[i] /\ s[i] <= p
      BY <1>3, <1>4, <2>1
    <3>2. CASE j <= c
      BY <1>1, <1>3, <1>4, <1>6, <3>1, <3>2
    <3>3. CASE j = c + 1
      BY <1>1, <1>3, <1>4, <3>1, <3>3
    <3>4. CASE j > c + 1
      <4>1. j - 1 \in 1 .. l /\ u[j] = s[j - 1] /\ i <= j - 1
        BY <1>1, <1>3, <1>4, <2>1, <3>4
      <4>2. QED
        BY <1>1, <3>1, <4>1
    <3>5. QED
      BY <1>3, <3>2, <3>3, <3>4
  <2>2. CASE i = c + 1
    BY <1>1, <1>3, <1>4, <1>6, <2>2
  <2>3. CASE i > c + 1
    <3>1. i - 1 \in 1 .. l /\ u[i] = s[i - 1] /\ j - 1 \in 1 .. l /\ u[j] = s[j - 1]
      BY <1>1, <1>3, <1>4, <1>6, <2>3
    <3>2. QED
      BY <1>1, <1>6, <3>1
  <2>4. QED
    BY <1>3, <2>1, <2>2, <2>3
<1>7. u \in Vector /\ DOMAIN u = 1 .. l + 1
  <2>1. u = [i \in 1 .. l + 1 |-> u[i]]
    BY <1>2
  <2>2. l + 1 \in Nat
    BY <1>1
  <2>3. QED
    BY <1>5, <1>6, <2>1, <2>2, VectorByEntries
<1>8. Entries(u) \subseteq Entries(s) \cup {p}
  BY <1>5, <1>7 DEF Entries
<1>9. QED
  BY <1>7, <1>8 DEF u

\* Sorting yields a vector of the same primes.
LEMMA SortedFacts ==
    ASSUME NEW s \in Seq(Prime)
    PROVE  Sorted(s)[Len(s)] \in Vector /\ Entries(Sorted(s)[Len(s)]) \subseteq Entries(s)
<1> DEFINE n == Len(s)
           Body(g) == [i \in 0 .. n |-> IF i = 0 THEN <<>> ELSE Insert(g[i - 1], s[i])]
           S  == {t \in Vector : Entries(t) \subseteq Entries(s)}
           op == [i \in 1 .. n |-> [t \in S |-> Insert(t, s[i])]]
<1>1. n \in Nat /\ \A i \in 1 .. n : s[i] \in Prime /\ s[i] \in Entries(s)
  BY DEF Entries
<1>2. \A i \in 1 .. n, t \in S : Insert(t, s[i]) \in S
  <2> TAKE i \in 1 .. n, t \in S
  <2>1. Insert(t, s[i]) \in Vector /\ Entries(Insert(t, s[i])) \subseteq Entries(t) \cup {s[i]}
    BY <1>1, InsertFacts
  <2>2. QED
    BY <1>1, <2>1
<1>3. <<>> \in S
  BY EmptyVector
<1> HIDE DEF S, n
<1>4. op \in [1 .. n -> [S -> S]]
  BY <1>2
<1>5. PICK g \in [0 .. n -> S] : Accumulates(g, n, <<>>, op)
  <2> HIDE DEF op
  <2>1. QED
    BY <1>1, <1>3, <1>4, Accumulation
<1>6. g = Body(g)
  <2>1. \A k \in 1 .. n : k - 1 \in 0 .. n /\ op[k][g[k - 1]] = Insert(g[k - 1], s[k])
    BY <1>1
  <2> HIDE DEF op
  <2>2. \A k \in 0 .. n : g[k] = IF k = 0 THEN <<>> ELSE Insert(g[k - 1], s[k])
    BY <1>1, <1>5, <2>1 DEF Accumulates
  <2>3. QED
    BY <2>2
<1> DEFINE h == Sorted(s)
<1>7. h = Body(h)
  <2>1. h = CHOOSE f : f = Body(f)
    BY DEF Sorted, n
  <2> HIDE DEF Body, h
  <2>2. QED
    BY <1>6, <2>1
<1> HIDE DEF h
<1>8. \A k \in 0 .. n : h[k] = IF k = 0 THEN <<>> ELSE Insert(h[k - 1], s[k])
  BY <1>7
<1>9. n \in {k \in 0 .. n : h[k] \in S}
  <2> DEFINE T == {k \in 0 .. n : h[k] \in S}
  <2>1. 0 \in T
    BY <1>1, <1>3, <1>8
  <2>2. \A k \in 1 .. n : k - 1 \in T => k \in T
    BY <1>1, <1>2, <1>8
  <2> HIDE DEF T
  <2>3. n \in T
    BY <1>1, <2>1, <2>2, CountUp
  <2>4. QED
    BY <2>3 DEF T
<1>10. QED
  BY <1>9 DEF h, n, S

LEMMA MergeFacts ==
    ASSUME NEW s \in Vector, NEW t \in Vector
    PROVE  /\ Merge(s, t) \in Vector
           /\ Entries(Merge(s, t)) \subseteq Entries(s) \cup Entries(t)
<1> DEFINE c == s \o t
<1>1. s \in Seq(Prime) /\ t \in Seq(Prime)
  BY DEF Vector
<1>2. /\ c \in Seq(Prime) /\ Len(c) = Len(s) + Len(t)
      /\ \A i \in 1 .. Len(c) : c[i] = IF i <= Len(s) THEN s[i] ELSE t[i - Len(s)]
  BY <1>1, ConcatProperties
<1>3. \A i \in 1 .. Len(c) : c[i] \in Entries(s) \cup Entries(t)
  <2> TAKE i \in 1 .. Len(c)
  <2>1. Len(s) \in Nat /\ Len(t) \in Nat /\ DOMAIN s = 1 .. Len(s) /\ DOMAIN t = 1 .. Len(t)
    BY <1>1
  <2>2. CASE i <= Len(s)
    BY <1>2, <2>1, <2>2 DEF Entries
  <2>3. CASE i > Len(s)
    <3>1. i - Len(s) \in 1 .. Len(t) /\ c[i] = t[i - Len(s)]
      BY <1>2, <2>1, <2>3
    <3>2. QED
      BY <2>1, <3>1 DEF Entries
  <2>4. QED
    BY <1>2, <2>1, <2>2, <2>3
<1>4. Entries(c) \subseteq Entries(s) \cup Entries(t)
  BY <1>2, <1>3 DEF Entries
<1> HIDE DEF c
<1>5. Sorted(c)[Len(c)] \in Vector /\ Entries(Sorted(c)[Len(c)]) \subseteq Entries(c)
  BY <1>2, SortedFacts
<1>6. Merge(s, t) = Sorted(c)[Len(c)]
  BY DEF Merge, c
<1>7. QED
  BY <1>4, <1>5, <1>6

-----------------------------------------------------------------------------
(* The cancellation of equal primes. *)

LEMMA TailFacts ==
    ASSUME NEW s \in Vector, s # <<>>
    PROVE  /\ Head(s) \in Prime /\ Head(s) \in Entries(s)
           /\ \A e \in Entries(s) : Head(s) <= e
           /\ Tail(s) \in Vector /\ Len(Tail(s)) = Len(s) - 1
           /\ Entries(Tail(s)) \subseteq Entries(s)
<1> DEFINE l == Len(s)
           t == Tail(s)
<1>1. /\ s \in Seq(Prime) /\ l \in Nat /\ DOMAIN s = 1 .. l
      /\ \A k \in 1 .. l : s[k] \in Prime /\ s[k] \in Nat /\ s[k] \in Entries(s)
      /\ \A i, j \in 1 .. l : i <= j => s[i] <= s[j]
  BY VectorFacts
<1>2. l # 0 /\ 1 \in 1 .. l /\ Head(s) = s[1]
  BY <1>1
<1>3. t \in Seq(Prime) /\ Len(t) = l - 1 /\ \A k \in 1 .. l - 1 : t[k] = s[k + 1]
  BY <1>1
<1>4. DOMAIN t = 1 .. l - 1
  BY <1>3
<1> HIDE DEF t, l
<1>5. \A k \in 1 .. l - 1 : k + 1 \in 1 .. l
  BY <1>1
<1>6. Ascending(t)
  BY <1>1, <1>3, <1>4, <1>5 DEF Ascending
<1>7. Entries(t) \subseteq Entries(s)
  BY <1>1, <1>3, <1>4, <1>5 DEF Entries
<1>8. \A e \in Entries(s) : Head(s) <= e
  BY <1>1, <1>2 DEF Entries
<1>9. QED
  BY <1>1, <1>2, <1>3, <1>6, <1>7, <1>8 DEF Vector, t, l

LEMMA FrontFacts ==
    ASSUME NEW p \in Prime, NEW t \in Vector, \A e \in Entries(t) : p <= e
    PROVE  <<p>> \o t \in Vector /\ Entries(<<p>> \o t) = {p} \cup Entries(t)
<1> DEFINE s == <<p>> \o t
           l == Len(t)
<1>1. /\ t \in Seq(Prime) /\ l \in Nat /\ DOMAIN t = 1 .. l
      /\ \A k \in 1 .. l : t[k] \in Prime /\ t[k] \in Nat /\ t[k] \in Entries(t)
      /\ \A i, j \in 1 .. l : i <= j => t[i] <= t[j]
  BY VectorFacts
<1>2. /\ s \in Seq(Prime) /\ Len(s) = l + 1 /\ s[1] = p
      /\ \A k \in 2 .. l + 1 : s[k] = t[k - 1] /\ k - 1 \in DOMAIN t
  BY <1>1, InFront
<1>3. DOMAIN s = 1 .. l + 1
  BY <1>1, <1>2
<1> HIDE DEF s, l
<1>4. \A k \in 1 .. l : k + 1 \in 2 .. l + 1 /\ s[k + 1] = t[k]
  BY <1>1, <1>2
<1>5. Ascending(s)
  <2> SUFFICES ASSUME NEW i \in 1 .. l + 1, NEW j \in 1 .. l + 1, i < j PROVE s[i] <= s[j]
    BY <1>3 DEF Ascending
  <2>1. j \in 2 .. l + 1 /\ j - 1 \in 1 .. l
    BY <1>1
  <2>2. CASE i = 1
    BY <1>1, <1>2, <2>1, <2>2
  <2>3. CASE i # 1
    <3>1. i \in 2 .. l + 1 /\ i - 1 \in 1 .. l /\ i - 1 <= j - 1
      BY <1>1, <2>3
    <3>2. QED
      BY <1>1, <1>2, <2>1, <3>1
  <2>4. QED
    BY <2>2, <2>3
<1>6. \A k \in 1 .. l + 1 : s[k] \in {p} \cup Entries(t)
  <2> TAKE k \in 1 .. l + 1
  <2>1. CASE k = 1
    BY <1>2, <2>1
  <2>2. CASE k # 1
    <3>1. k \in 2 .. l + 1 /\ k - 1 \in 1 .. l
      BY <1>1, <2>2
    <3>2. QED
      BY <1>1, <1>2, <3>1
  <2>3. QED
    BY <2>1, <2>2
<1>7. p \in Entries(s) /\ \A k \in 1 .. l : t[k] \in Entries(s)
  <2>1. \A i \in 1 .. l + 1 : s[i] \in Entries(s)
    BY <1>3 DEF Entries
  <2>2. 1 \in 1 .. l + 1 /\ \A k \in 1 .. l : k + 1 \in 1 .. l + 1
    BY <1>1
  <2>3. QED
    BY <1>2, <1>4, <2>1, <2>2
<1>8. Entries(s) = {p} \cup Entries(t)
  BY <1>1, <1>3, <1>6, <1>7 DEF Entries
<1>9. QED
  BY <1>2, <1>5, <1>8 DEF Vector, s

Pairs == PrimeVector \X PrimeVector

\* The recursion runs along the two vectors, of which one gets shorter at least.
LEMMA FollowingFacts ==
    ASSUME NEW v \in Pairs, v[1] # <<>>, v[2] # <<>>
    PROVE  /\ Following(v) \in Pairs /\ Leading(v) \in Pairs
           /\ Len(Following(v)[1]) + Len(Following(v)[2]) < Len(v[1]) + Len(v[2])
<1> DEFINE E == Nat \ {0, 1}
<1>1. PICK s \in Seq(E), t \in Seq(E) : v = <<s, t>>
  BY DEF Pairs, PrimeVector
<1>2. s # <<>> /\ t # <<>>
  BY <1>1
<1>3. PICK p \in E, u \in Seq(E) : p = Head(s) /\ u = Tail(s) /\ Len(u) = Len(s) - 1
  BY <1>2, HeadTailProperties
<1>4. PICK q \in E, w \in Seq(E) : q = Head(t) /\ w = Tail(t) /\ Len(w) = Len(t) - 1
  BY <1>2, HeadTailProperties
<1>5. Len(s) \in Nat /\ Len(t) \in Nat
  OBVIOUS
<1>6. /\ Following(v) = <<IF p <= q THEN u ELSE s, IF p >= q THEN w ELSE t>>
      /\ Leading(v) = IF p < q THEN <<<<p>>, <<>>>> ELSE IF p > q THEN <<<<>>, <<q>>>> ELSE <<<<>>, <<>>>>
  BY <1>1, <1>3, <1>4 DEF Following, Leading
<1>7. <<>> \in Seq(E) /\ <<p>> \in Seq(E) /\ <<q>> \in Seq(E)
  OBVIOUS
<1>8. p \in Nat /\ q \in Nat
  OBVIOUS
<1> HIDE DEF E
<1>9. PICK x \in Seq(E), y \in Seq(E) :
        Following(v) = <<x, y>> /\ Len(x) + Len(y) < Len(s) + Len(t)
  <2>1. CASE p < q
    <3>1. Following(v) = <<u, t>>
      <4>1. (p <= q <=> TRUE) /\ (p >= q <=> FALSE)
        BY <1>8, <2>1
      <4>2. QED
        BY <1>6, <4>1, Zenon
    <3>2. Len(u) + Len(t) < Len(s) + Len(t)
      BY <1>3, <1>5
    <3>3. QED
      BY <3>1, <3>2
  <2>2. CASE p = q
    <3>1. Following(v) = <<u, w>>
      <4>1. (p <= q <=> TRUE) /\ (p >= q <=> TRUE)
        BY <1>8, <2>2
      <4>2. QED
        BY <1>6, <4>1, Zenon
    <3>2. Len(u) + Len(w) < Len(s) + Len(t)
      BY <1>3, <1>4, <1>5
    <3>3. QED
      BY <3>1, <3>2
  <2>3. CASE p > q
    <3>1. Following(v) = <<s, w>>
      <4>1. (p <= q <=> FALSE) /\ (p >= q <=> TRUE)
        BY <1>8, <2>3
      <4>2. QED
        BY <1>6, <4>1, Zenon
    <3>2. Len(s) + Len(w) < Len(s) + Len(t)
      BY <1>4, <1>5
    <3>3. QED
      BY <3>1, <3>2
  <2>4. QED
    BY <1>8, <2>1, <2>2, <2>3
<1>10. PICK x1 \in Seq(E), y1 \in Seq(E) : Leading(v) = <<x1, y1>>
  BY <1>6, <1>7
<1>11. v[1] = s /\ v[2] = t /\ Following(v)[1] = x /\ Following(v)[2] = y
  BY <1>1, <1>9
<1>12. QED
  BY <1>9, <1>10, <1>11 DEF Pairs, PrimeVector, E

LEMMA CancelDef ==
    \A v \in Pairs :
      cancelPrimes[v] = IF v[1] = <<>> \/ v[2] = <<>> THEN v
                        ELSE <<Leading(v)[1] \o cancelPrimes[Following(v)][1],
                               Leading(v)[2] \o cancelPrimes[Following(v)][2]>>
<1> DEFINE Body(g) == [v \in Pairs |-> IF v[1] = <<>> \/ v[2] = <<>> THEN v
                                       ELSE <<Leading(v)[1] \o g[Following(v)][1],
                                              Leading(v)[2] \o g[Following(v)][2]>>]
           mu   == [v \in Pairs |-> Len(v[1]) + Len(v[2])]
           leaf == {v \in Pairs : v[1] = <<>> \/ v[2] = <<>>}
           base == [v \in Pairs |-> v]
           prec == [v \in Pairs |-> IF v \in leaf THEN v ELSE Following(v)]
           comb == [v \in Pairs |-> [r \in Pairs |->
                      IF v \in leaf THEN r ELSE <<Leading(v)[1] \o r[1], Leading(v)[2] \o r[2]>>]]
<1>1. mu \in [Pairs -> Nat] /\ leaf \in SUBSET Pairs /\ base \in [Pairs -> Pairs]
  <2>1. \A v \in Pairs : Len(v[1]) + Len(v[2]) \in Nat
    BY DEF Pairs, PrimeVector
  <2>2. QED
    BY <2>1
<1>2. prec \in [Pairs -> Pairs]
  BY FollowingFacts
<1>3. comb \in [Pairs -> [Pairs -> Pairs]]
  <2>1. ASSUME NEW v \in Pairs, v \notin leaf, NEW r \in Pairs
        PROVE  <<Leading(v)[1] \o r[1], Leading(v)[2] \o r[2]>> \in Pairs
    <3>1. Leading(v) \in Pairs
      BY <2>1, FollowingFacts
    <3>2. /\ Leading(v)[1] \in PrimeVector /\ Leading(v)[2] \in PrimeVector
          /\ r[1] \in PrimeVector /\ r[2] \in PrimeVector
      BY <3>1 DEF Pairs
    <3>3. Leading(v)[1] \o r[1] \in PrimeVector /\ Leading(v)[2] \o r[2] \in PrimeVector
      BY <3>2, ConcatProperties DEF PrimeVector
    <3>4. QED
      BY <3>3 DEF Pairs
  <2> HIDE DEF leaf
  <2>2. \A v \in Pairs, r \in Pairs :
          (IF v \in leaf THEN r ELSE <<Leading(v)[1] \o r[1], Leading(v)[2] \o r[2]>>) \in Pairs
    BY <2>1
  <2>3. QED
    BY <2>2
<1>4. \A v \in Pairs \ leaf : mu[prec[v]] < mu[v]
  <2> TAKE v \in Pairs \ leaf
  <2>1. prec[v] = Following(v) /\ Following(v) \in Pairs
    BY FollowingFacts
  <2>2. Len(Following(v)[1]) + Len(Following(v)[2]) < Len(v[1]) + Len(v[2])
    BY FollowingFacts
  <2>3. QED
    BY <2>1, <2>2
<1>5. PICK f \in [Pairs -> Pairs] : \A v \in Pairs : Equation(f, v, leaf, base, prec, comb)
  <2> HIDE DEF mu, leaf, base, prec, comb
  <2>1. QED
    BY <1>1, <1>2, <1>3, <1>4, RecursionExists
<1>6. \A v \in Pairs : f[v] = IF v[1] = <<>> \/ v[2] = <<>> THEN v
                              ELSE <<Leading(v)[1] \o f[Following(v)][1],
                                     Leading(v)[2] \o f[Following(v)][2]>>
  <2> TAKE v \in Pairs
  <2>1. prec[v] \in Pairs /\ f[prec[v]] \in Pairs
    BY <1>2
  <2>2. CASE v \in leaf
    BY <1>5, <2>2 DEF Equation
  <2>3. CASE v \notin leaf
    <3>1. f[v] = comb[v][f[prec[v]]]
      BY <1>5, <2>3 DEF Equation
    <3>2. comb[v][f[prec[v]]] = <<Leading(v)[1] \o f[prec[v]][1], Leading(v)[2] \o f[prec[v]][2]>>
      BY <2>1, <2>3
    <3>3. prec[v] = Following(v)
      BY <2>3
    <3>4. QED
      BY <2>3, <3>1, <3>2, <3>3
  <2>4. QED
    BY <2>2, <2>3
<1>7. f = Body(f)
  BY <1>6
<1>8. cancelPrimes = Body(cancelPrimes)
  <2>1. cancelPrimes = CHOOSE g : g = Body(g)
    BY DEF cancelPrimes, Pairs
  <2> HIDE DEF Body
  <2>2. QED
    BY <1>7, <2>1
<1>9. QED
  BY <1>8

\* What remains: vectors of the primes they are made from, that agree in no prime.
CancelKeeps(s, t, c) ==
    /\ c[1] \in Vector /\ Entries(c[1]) \subseteq Entries(s)
    /\ c[2] \in Vector /\ Entries(c[2]) \subseteq Entries(t)
    /\ Entries(c[1]) \cap Entries(c[2]) = {}

LEMMA CancelFacts ==
    \A s, t \in Vector : CancelKeeps(s, t, cancelPrimes[<<s, t>>])
<1> DEFINE T == {n \in Nat : \A s, t \in Vector :
                   Len(s) + Len(t) = n => CancelKeeps(s, t, cancelPrimes[<<s, t>>])}
<1>1. ASSUME NEW n \in Nat, \A m \in Nat : m < n => m \in T PROVE n \in T
  <2> SUFFICES ASSUME NEW s \in Vector, NEW t \in Vector, Len(s) + Len(t) = n
               PROVE  CancelKeeps(s, t, cancelPrimes[<<s, t>>])
    OBVIOUS
  <2> DEFINE c == cancelPrimes[<<s, t>>]
  <2>1. <<s, t>> \in Pairs /\ <<s, t>>[1] = s /\ <<s, t>>[2] = t
    <3>1. s \in PrimeVector /\ t \in PrimeVector
      BY VectorIsPrimeVector
    <3>2. QED
      BY <3>1 DEF Pairs
  <2>2. Len(s) \in Nat /\ Len(t) \in Nat
    BY VectorFacts
  <2>3. CASE s = <<>> \/ t = <<>>
    <3>1. c = <<s, t>>
      BY <2>1, <2>3, CancelDef
    <3>2. Entries(s) \cap Entries(t) = {}
      BY <2>3, EmptyVector
    <3>3. QED
      BY <2>1, <3>1, <3>2 DEF CancelKeeps
  <2>4. CASE s # <<>> /\ t # <<>>
    <3> DEFINE p == Head(s)
               q == Head(t)
               u == Tail(s)
               w == Tail(t)
               F == Following(<<s, t>>)
               L == Leading(<<s, t>>)
    <3>1. /\ p \in Prime /\ p \in Entries(s) /\ \A e \in Entries(s) : p <= e
          /\ u \in Vector /\ Len(u) = Len(s) - 1 /\ Entries(u) \subseteq Entries(s)
      BY <2>4, TailFacts
    <3>2. /\ q \in Prime /\ q \in Entries(t) /\ \A e \in Entries(t) : q <= e
          /\ w \in Vector /\ Len(w) = Len(t) - 1 /\ Entries(w) \subseteq Entries(t)
      BY <2>4, TailFacts
    <3>3. c = <<L[1] \o cancelPrimes[F][1], L[2] \o cancelPrimes[F][2]>>
      BY <2>1, <2>4, CancelDef
    <3>4. /\ F = <<IF p <= q THEN u ELSE s, IF p >= q THEN w ELSE t>>
          /\ L = IF p < q THEN <<<<p>>, <<>>>> ELSE IF p > q THEN <<<<>>, <<q>>>> ELSE <<<<>>, <<>>>>
      BY <2>1 DEF Following, Leading
    <3>5. p \in Nat /\ q \in Nat /\ Entries(s) \subseteq Nat /\ Entries(t) \subseteq Nat
      <4>1. Entries(s) \subseteq Prime /\ Entries(t) \subseteq Prime
        BY VectorFacts
      <4>2. QED
        BY <3>1, <3>2, <4>1, PrimeFacts
    <3>6. \A a \in Vector : <<>> \o a = a
      BY VectorFacts, ConcatEmptySeq
    <3> HIDE DEF p, q, u, w, F, L, c
    <3>7. ASSUME NEW a \in Vector, NEW d \in Vector, Len(a) + Len(d) < n
          PROVE  CancelKeeps(a, d, cancelPrimes[<<a, d>>])
      <4>1. Len(a) + Len(d) \in Nat
        BY VectorFacts
      <4>2. Len(a) + Len(d) \in T
        BY <1>1, <3>7, <4>1
      <4>3. QED
        BY <4>2
    <3> HIDE DEF T
    <3>8. CASE p < q
      <4> DEFINE r == cancelPrimes[<<u, t>>]
      <4>1. (p <= q <=> TRUE) /\ (p >= q <=> FALSE) /\ (p < q <=> TRUE)
        BY <3>5, <3>8
      <4>2. F = <<u, t>> /\ L = <<<<p>>, <<>>>>
        BY <3>4, <4>1, Zenon
      <4>3. Len(u) + Len(t) < n
        BY <2>2, <3>1
      <4>4. CancelKeeps(u, t, r)
        BY <3>1, <3>7, <4>3
      <4>5. c = <<<<p>> \o r[1], <<>> \o r[2]>>
        BY <3>3, <4>2
      <4> HIDE DEF r
      <4>6. /\ r[1] \in Vector /\ Entries(r[1]) \subseteq Entries(u)
            /\ r[2] \in Vector /\ Entries(r[2]) \subseteq Entries(t)
            /\ Entries(r[1]) \cap Entries(r[2]) = {}
        BY <4>4 DEF CancelKeeps
      <4>7. c[1] = <<p>> \o r[1] /\ c[2] = r[2]
        BY <3>6, <4>5, <4>6
      <4>8. \A e \in Entries(r[1]) : p <= e
        BY <3>1, <4>6
      <4>9. c[1] \in Vector /\ Entries(c[1]) = {p} \cup Entries(r[1])
        BY <3>1, <4>6, <4>7, <4>8, FrontFacts
      <4>10. p \notin Entries(t)
        BY <3>2, <3>5, <3>8
      <4>11. CancelKeeps(s, t, c)
        BY <3>1, <4>6, <4>7, <4>9, <4>10 DEF CancelKeeps
      <4>12. QED
        BY <4>11 DEF c
    <3>9. CASE p > q
      <4> DEFINE r == cancelPrimes[<<s, w>>]
      <4>1. (p <= q <=> FALSE) /\ (p >= q <=> TRUE) /\ (p < q <=> FALSE) /\ (p > q <=> TRUE)
        BY <3>5, <3>9
      <4>2. F = <<s, w>> /\ L = <<<<>>, <<q>>>>
        BY <3>4, <4>1, Zenon
      <4>3. Len(s) + Len(w) < n
        BY <2>2, <3>2
      <4>4. CancelKeeps(s, w, r)
        BY <3>2, <3>7, <4>3
      <4>5. c = <<<<>> \o r[1], <<q>> \o r[2]>>
        BY <3>3, <4>2
      <4> HIDE DEF r
      <4>6. /\ r[1] \in Vector /\ Entries(r[1]) \subseteq Entries(s)
            /\ r[2] \in Vector /\ Entries(r[2]) \subseteq Entries(w)
            /\ Entries(r[1]) \cap Entries(r[2]) = {}
        BY <4>4 DEF CancelKeeps
      <4>7. c[1] = r[1] /\ c[2] = <<q>> \o r[2]
        BY <3>6, <4>5, <4>6
      <4>8. \A e \in Entries(r[2]) : q <= e
        BY <3>2, <4>6
      <4>9. c[2] \in Vector /\ Entries(c[2]) = {q} \cup Entries(r[2])
        BY <3>2, <4>6, <4>7, <4>8, FrontFacts
      <4>10. q \notin Entries(s)
        BY <3>1, <3>5, <3>9
      <4>11. CancelKeeps(s, t, c)
        BY <3>2, <4>6, <4>7, <4>9, <4>10 DEF CancelKeeps
      <4>12. QED
        BY <4>11 DEF c
    <3>10. CASE p = q
      <4> DEFINE r == cancelPrimes[<<u, w>>]
      <4>1. (p <= q <=> TRUE) /\ (p >= q <=> TRUE) /\ (p < q <=> FALSE) /\ (p > q <=> FALSE)
        BY <3>5, <3>10
      <4>2. F = <<u, w>> /\ L = <<<<>>, <<>>>>
        BY <3>4, <4>1, Zenon
      <4>3. Len(u) + Len(w) < n
        BY <2>2, <3>1, <3>2
      <4>4. CancelKeeps(u, w, r)
        BY <3>1, <3>2, <3>7, <4>3
      <4>5. c = <<<<>> \o r[1], <<>> \o r[2]>>
        BY <3>3, <4>2
      <4> HIDE DEF r
      <4>6. c[1] = r[1] /\ c[2] = r[2]
        BY <3>6, <4>4, <4>5 DEF CancelKeeps
      <4>7. CancelKeeps(s, t, c)
        BY <3>1, <3>2, <4>4, <4>6 DEF CancelKeeps
      <4>8. QED
        BY <4>7 DEF c
    <3>11. QED
      BY <3>5, <3>8, <3>9, <3>10 DEF c
  <2>5. QED
    BY <2>3, <2>4
<1>2. Nat \subseteq T
  <2> HIDE DEF T
  <2>1. QED
    BY <1>1, CompleteInduction
<1>3. \A s, t \in Vector : Len(s) + Len(t) \in Nat
  BY VectorFacts
<1>4. QED
  BY <1>2, <1>3

-----------------------------------------------------------------------------
(* Reduced factorizations. *)

IsReduced(f) ==
    /\ f = [nums |-> f.nums, dens |-> f.dens]
    /\ f.nums \in Vector /\ f.dens \in Vector
    /\ Entries(f.nums) \cap Entries(f.dens) = {}

\* What NumPowerSimpl relies on follows.
LEMMA ReducedFacts ==
    ASSUME NEW f, IsReduced(f)
    PROVE  /\ f \in Factorization
           /\ Ascending(f.nums) /\ Ascending(f.dens)
           /\ \A j \in DOMAIN f.nums, k \in DOMAIN f.dens : f.nums[j] # f.dens[k]
<1>1. Ascending(f.nums) /\ Ascending(f.dens)
  BY VectorFacts DEF IsReduced
<1>2. f.nums \in PrimeVector /\ f.dens \in PrimeVector
  BY VectorIsPrimeVector DEF IsReduced
<1>4. f \in Factorization
  BY <1>2 DEF Factorization, IsReduced
<1>5. \A j \in DOMAIN f.nums, k \in DOMAIN f.dens : f.nums[j] # f.dens[k]
  BY DEF IsReduced, Entries
<1>6. QED
  BY <1>1, <1>4, <1>5

LEMMA NoFactorsReduced == IsReduced(NoFactors)
BY EmptyVector DEF IsReduced, NoFactors

\* Numerator and denominator in lowest terms have no prime in common.
LEMMA FactorizeReduced ==
    ASSUME NEW q \in Rational, InLowestTerms(q), q.num > 0
    PROVE  IsReduced(Factorize(q))
<1> DEFINE s == primeFactors[q.num]
           t == primeFactors[q.den]
<1>1. q.num \in Positive /\ q.den \in Positive /\ q.num \in Nat /\ q.den \in Nat /\ AbsInt(q.num) = q.num
  BY DEF Rational, Positive, AbsInt
<1>2. Coprime(q.num, q.den)
  BY <1>1, CoprimeGcd DEF InLowestTerms
<1>3. /\ s \in Vector /\ \A k \in DOMAIN s : HasFactor(q.num, s[k])
      /\ t \in Vector /\ \A k \in DOMAIN t : HasFactor(q.den, t[k])
  BY <1>1, PrimeFactorsFacts DEF Vector
<1> HIDE DEF s, t
<1>4. Entries(s) \cap Entries(t) = {}
  <2> SUFFICES ASSUME NEW j \in DOMAIN s, NEW k \in DOMAIN t, s[j] = t[k] PROVE FALSE
    BY DEF Entries
  <2>1. s[j] \in Nat /\ s[j] > 1
    BY <1>3, VectorFacts
  <2>2. HasFactor(q.num, s[j]) /\ HasFactor(q.den, s[j])
    BY <1>3
  <2>3. QED
    BY <1>2, <2>1, <2>2 DEF Coprime
<1>5. QED
  BY <1>3, <1>4 DEF Factorize, IsReduced, s, t

LEMMA ToTheIntReduced ==
    ASSUME NEW f, IsReduced(f), NEW k \in Int
    PROVE  IsReduced(ToTheInt(f, k)) /\ (f = NoFactors => ToTheInt(f, k) = NoFactors)
<1> DEFINE n == Duplicate(f.nums, AbsInt(k))
           d == Duplicate(f.dens, AbsInt(k))
<1>1. AbsInt(k) \in Nat
  BY DEF AbsInt
<1>2. /\ n \in Vector /\ Entries(n) \subseteq Entries(f.nums) /\ (f.nums = <<>> => n = <<>>)
      /\ d \in Vector /\ Entries(d) \subseteq Entries(f.dens) /\ (f.dens = <<>> => d = <<>>)
  BY <1>1, DuplicateFacts DEF IsReduced
<1>3. ToTheInt(f, k) = IF k < 0 THEN [nums |-> d, dens |-> n] ELSE [nums |-> n, dens |-> d]
  BY DEF ToTheInt
<1> HIDE DEF n, d
<1>4. Entries(n) \cap Entries(d) = {}
  BY <1>2 DEF IsReduced
<1>5. IsReduced(ToTheInt(f, k))
  BY <1>2, <1>3, <1>4 DEF IsReduced
<1>6. f = NoFactors => ToTheInt(f, k) = NoFactors
  BY <1>2, <1>3 DEF NoFactors
<1>7. QED
  BY <1>5, <1>6

LEMMA MultiplyReduced ==
    ASSUME NEW f, IsReduced(f), NEW g, IsReduced(g)
    PROVE  IsReduced(Multiply(f, g))
<1> DEFINE a == cancelPrimes[<<f.nums, g.dens>>]
           c == cancelPrimes[<<f.dens, g.nums>>]
           n == Merge(a[1], c[2])
           d == Merge(c[1], a[2])
<1>1. CancelKeeps(f.nums, g.dens, a) /\ CancelKeeps(f.dens, g.nums, c)
  BY CancelFacts DEF IsReduced
<1>2. Multiply(f, g) = IF g = NoFactors THEN f ELSE [nums |-> n, dens |-> d]
  BY DEF Multiply
<1> HIDE DEF a, c
<1>3. /\ n \in Vector /\ Entries(n) \subseteq Entries(a[1]) \cup Entries(c[2])
      /\ d \in Vector /\ Entries(d) \subseteq Entries(c[1]) \cup Entries(a[2])
  BY <1>1, MergeFacts DEF CancelKeeps
<1> HIDE DEF n, d
<1>4. /\ Entries(a[1]) \subseteq Entries(f.nums) /\ Entries(a[2]) \subseteq Entries(g.dens)
      /\ Entries(c[1]) \subseteq Entries(f.dens) /\ Entries(c[2]) \subseteq Entries(g.nums)
      /\ Entries(a[1]) \cap Entries(a[2]) = {} /\ Entries(c[1]) \cap Entries(c[2]) = {}
  BY <1>1 DEF CancelKeeps
<1>5. Entries(f.nums) \cap Entries(f.dens) = {} /\ Entries(g.nums) \cap Entries(g.dens) = {}
  BY DEF IsReduced
<1>6. Entries(n) \cap Entries(d) = {}
  BY <1>3, <1>4, <1>5
<1>7. QED
  BY <1>2, <1>3, <1>6 DEF IsReduced

-----------------------------------------------------------------------------
(* The value of a reduced factorization. *)

LEMMA PartialFacts ==
    ASSUME NEW s \in Vector
    PROVE  /\ Partial(s)[0] = 1
           /\ \A k \in 1 .. Len(s) : Partial(s)[k] = Partial(s)[k - 1] * s[k]
           /\ \A k \in 0 .. Len(s) : Partial(s)[k] \in Nat \ {0}
<1> DEFINE n == Len(s)
           S == Nat \ {0}
           Body(g) == [k \in 0 .. n |-> IF k = 0 THEN 1 ELSE g[k - 1] * s[k]]
           op == [k \in 1 .. n |-> [m \in S |-> m * s[k]]]
           h  == Partial(s)
<1>1. n \in Nat /\ \A k \in 1 .. n : s[k] \in Nat /\ s[k] > 1
  BY VectorFacts
<1> HIDE DEF n
<1>2. \A k \in 1 .. n, m \in S : m * s[k] \in S
  <2> TAKE k \in 1 .. n, m \in S
  <2>1. m \in Nat /\ m > 0 /\ s[k] \in Nat /\ s[k] > 0
    BY <1>1
  <2>2. m * s[k] \in Nat /\ m * s[k] > 0
    BY <2>1, ProductSign
  <2>3. QED
    BY <2>2
<1>3. op \in [1 .. n -> [S -> S]] /\ 1 \in S
  BY <1>2
<1>4. PICK g \in [0 .. n -> S] : Accumulates(g, n, 1, op)
  <2> HIDE DEF op, S
  <2>1. QED
    BY <1>1, <1>3, Accumulation
<1>5. g = Body(g)
  <2>1. \A k \in 1 .. n : k - 1 \in 0 .. n /\ op[k][g[k - 1]] = g[k - 1] * s[k]
    BY <1>1
  <2> HIDE DEF op
  <2>2. \A k \in 0 .. n : g[k] = IF k = 0 THEN 1 ELSE g[k - 1] * s[k]
    BY <1>1, <1>4, <2>1 DEF Accumulates
  <2>3. QED
    BY <2>2
<1>6. h = Body(h)
  <2>1. h = CHOOSE f : f = Body(f)
    BY DEF Partial, n
  <2> HIDE DEF Body, h
  <2>2. QED
    BY <1>5, <2>1
<1> HIDE DEF h
<1>7. h[0] = 1 /\ \A k \in 1 .. n : h[k] = h[k - 1] * s[k]
  BY <1>1, <1>6
<1>8. \A k \in 0 .. n : h[k] \in S
  <2> DEFINE T == {k \in 0 .. n : h[k] \in S}
  <2>1. 0 \in T
    BY <1>1, <1>7
  <2>2. ASSUME NEW k \in 1 .. n, k - 1 \in T PROVE k \in T
    <3>1. k \in 0 .. n /\ h[k - 1] \in S
      BY <1>1, <2>2
    <3>2. h[k - 1] * s[k] \in S
      BY <1>2, <3>1, Zenon
    <3>3. QED
      BY <1>7, <3>1, <3>2
  <2>3. \A k \in 0 .. n : k \in T
    <3> HIDE DEF T
    <3>1. QED
      BY <1>1, <2>1, <2>2, CountUp
  <2>4. QED
    BY <2>3
<1>9. QED
  BY <1>7, <1>8 DEF h, n

\* The primes of a product are those it is made from.
LEMMA ProductFacts ==
    ASSUME NEW s \in Vector
    PROVE  /\ ProductOf(s) \in Nat \ {0}
           /\ \A p \in Prime : HasFactor(ProductOf(s), p) => p \in Entries(s)
           /\ s # <<>> => \E p \in Entries(s) : p \in Prime /\ HasFactor(ProductOf(s), p)
<1> DEFINE n == Len(s)
           h == Partial(s)
<1>1. /\ h[0] = 1
      /\ \A k \in 1 .. n : h[k] = h[k - 1] * s[k]
      /\ \A k \in 0 .. n : h[k] \in Nat \ {0}
  BY PartialFacts
<1>2. /\ n \in Nat /\ s \in Seq(Prime)
      /\ \A k \in 1 .. n : s[k] \in Prime /\ s[k] \in Nat /\ s[k] > 1 /\ s[k] \in Entries(s)
  BY VectorFacts
<1>3. ProductOf(s) = h[n]
  BY DEF ProductOf
<1> HIDE DEF h, n
<1>4. ASSUME NEW p \in Prime
      PROVE  \A k \in 0 .. n : HasFactor(h[k], p) => p \in Entries(s)
  <2> DEFINE T == {k \in 0 .. n : HasFactor(h[k], p) => p \in Entries(s)}
  <2>1. p \in Nat /\ p > 1
    BY PrimeFacts
  <2>2. 0 \in T
    <3>1. ~HasFactor(1, p)
      <4> SUFFICES ASSUME NEW q \in Nat, 1 = p * q PROVE FALSE
        BY DEF HasFactor
      <4>1. q # 0
        BY <2>1
      <4>2. p * q >= p
        BY <2>1, <4>1
      <4>3. QED
        BY <2>1, <4>2
    <3>2. QED
      BY <1>1, <1>2, <3>1
  <2>3. ASSUME NEW k \in 1 .. n, k - 1 \in T PROVE k \in T
    <3> SUFFICES ASSUME HasFactor(h[k], p) PROVE p \in Entries(s)
      OBVIOUS
    <3>1. k - 1 \in 0 .. n /\ h[k - 1] \in Nat /\ s[k] \in Nat /\ h[k] = h[k - 1] * s[k]
      BY <1>1, <1>2
    <3>2. HasFactor(h[k - 1], p) \/ HasFactor(s[k], p)
      BY <3>1, PrimeFactorOfProduct
    <3>3. HasFactor(s[k], p) => p = s[k]
      BY <1>2, <2>1, PrimeFacts
    <3>4. QED
      BY <1>2, <2>3, <3>2, <3>3
  <2>4. \A k \in 0 .. n : k \in T
    <3> HIDE DEF T
    <3>1. QED
      BY <1>2, <2>2, <2>3, CountUp
  <2>5. QED
    BY <2>4
<1>5. ASSUME s # <<>> PROVE \E p \in Entries(s) : p \in Prime /\ HasFactor(h[n], p)
  <2>1. n \in 1 .. n
    BY <1>2, <1>5 DEF n
  <2>2. s[n] \in Entries(s) /\ s[n] \in Prime /\ s[n] \in Nat /\ h[n] = h[n - 1] * s[n]
    BY <1>1, <1>2, <2>1
  <2>3. h[n - 1] \in Nat
    BY <1>1, <1>2, <2>1
  <2>4. h[n] = s[n] * h[n - 1]
    BY <2>2, <2>3
  <2>5. HasFactor(h[n], s[n])
    BY <2>3, <2>4 DEF HasFactor
  <2>6. QED
    BY <2>2, <2>5
<1>6. n \in 0 .. n
  BY <1>2
<1>7. QED
  BY <1>1, <1>3, <1>4, <1>5, <1>6

\* Without common primes, the value is one only if there is no prime at all.
LEMMA EvalFacts ==
    ASSUME NEW f, IsReduced(f)
    PROVE  /\ Eval(f) \in Rational /\ InLowestTerms(Eval(f)) /\ Eval(f).num > 0
           /\ Eval(f) = One => f = NoFactors
<1> DEFINE n == ProductOf(f.nums)
           d == ProductOf(f.dens)
<1>1. /\ f.nums \in Vector /\ f.dens \in Vector
      /\ Entries(f.nums) \cap Entries(f.dens) = {}
      /\ f = [nums |-> f.nums, dens |-> f.dens]
  BY DEF IsReduced
<1>2. /\ n \in Nat \ {0}
      /\ \A p \in Prime : HasFactor(n, p) => p \in Entries(f.nums)
      /\ f.nums # <<>> => \E p \in Entries(f.nums) : p \in Prime /\ HasFactor(n, p)
  BY <1>1, ProductFacts
<1>3. /\ d \in Nat \ {0}
      /\ \A p \in Prime : HasFactor(d, p) => p \in Entries(f.dens)
      /\ f.dens # <<>> => \E p \in Entries(f.dens) : p \in Prime /\ HasFactor(d, p)
  BY <1>1, ProductFacts
<1>4. Eval(f) = Ratio(n, d)
  BY DEF Eval
<1> HIDE DEF n, d
<1>5. n \in Int /\ d \in Int \ {0} /\ n > 0 /\ d > 0 /\ ~(d < 0)
  BY <1>2, <1>3
<1>6. Eval(f) \in Rational /\ InLowestTerms(Eval(f))
  BY <1>4, <1>5, RatioFacts
<1>7. Eval(f).num > 0
  BY <1>3, <1>4, <1>5, RatioSign
<1>8. ASSUME Eval(f) = One PROVE f = NoFactors
  <2>1. PICK g \in Nat \ {0} : n = g * Ratio(n, d).num /\ d = g * Ratio(n, d).den
    BY <1>5, RatioFacts
  <2>2. Ratio(n, d).num = 1 /\ Ratio(n, d).den = 1
    BY <1>4, <1>8 DEF One, Whole
  <2>3. n = d
    BY <2>1, <2>2
  <2>4. f.nums = <<>> /\ f.dens = <<>>
    BY <1>1, <1>2, <1>3, <2>3
  <2>5. QED
    BY <1>1, <2>4 DEF NoFactors
<1>9. QED
  BY <1>6, <1>7, <1>8

-----------------------------------------------------------------------------
(* What is extracted and what is left. *)

LEMMA AppendFacts ==
    ASSUME NEW s \in Vector, NEW p \in Prime, \A k \in 1 .. Len(s) : s[k] <= p
    PROVE  /\ Append(s, p) \in Vector
           /\ Len(Append(s, p)) = Len(s) + 1
           /\ Append(s, p)[Len(s) + 1] = p
           /\ \A k \in 1 .. Len(s) : Append(s, p)[k] = s[k]
           /\ Entries(Append(s, p)) \subseteq Entries(s) \cup {p}
<1> DEFINE l == Len(s)
           u == Append(s, p)
<1>1. /\ s \in Seq(Prime) /\ l \in Nat
      /\ \A k \in 1 .. l : s[k] \in Prime /\ s[k] \in Entries(s)
      /\ \A i, j \in 1 .. l : i <= j => s[i] <= s[j]
  BY VectorFacts
<1>2. u \in Seq(Prime) /\ Len(u) = l + 1 /\ DOMAIN u = 1 .. l + 1 /\ u[l + 1] = p
  BY <1>1
<1>3. \A k \in 1 .. l : u[k] = s[k]
  BY <1>1
<1>4. \A k \in 1 .. l : s[k] <= p
  OBVIOUS
<1> HIDE DEF l, u
<1>5. ASSUME NEW i \in 1 .. l + 1, NEW j \in 1 .. l + 1, i < j PROVE u[i] <= u[j]
  <2>1. i \in 1 .. l /\ u[i] = s[i]
    BY <1>1, <1>3, <1>5
  <2>2. CASE j = l + 1
    BY <1>2, <1>4, <2>1, <2>2
  <2>3. CASE j # l + 1
    <3>1. j \in 1 .. l /\ i <= j
      BY <1>1, <1>5, <2>3
    <3>2. QED
      BY <1>1, <1>3, <2>1, <3>1
  <2>4. QED
    BY <2>2, <2>3
<1>6. u \in Vector
  BY <1>2, <1>5 DEF Vector, Ascending
<1>7. Entries(u) \subseteq Entries(s) \cup {p}
  <2>1. \A k \in 1 .. l + 1 : k = l + 1 \/ k \in 1 .. l
    BY <1>1
  <2>2. QED
    BY <1>1, <1>2, <1>3, <2>1 DEF Entries
<1>8. QED
  BY <1>2, <1>3, <1>6, <1>7 DEF l, u

LEMMA CutFacts ==
    ASSUME NEW s \in Vector, NEW m \in 0 .. Len(s)
    PROVE  /\ SubSeq(s, 1, m) \in Vector
           /\ Len(SubSeq(s, 1, m)) = m
           /\ \A k \in 1 .. m : SubSeq(s, 1, m)[k] = s[k]
           /\ Entries(SubSeq(s, 1, m)) \subseteq Entries(s)
<1> DEFINE l == Len(s)
           u == SubSeq(s, 1, m)
<1>1. /\ s \in Seq(Prime) /\ l \in Nat /\ m \in Nat /\ m <= l
      /\ \A k \in 1 .. l : s[k] \in Prime /\ s[k] \in Entries(s)
      /\ \A i, j \in 1 .. l : i <= j => s[i] <= s[j]
  BY VectorFacts
<1>2. /\ u = [k \in 1 .. m |-> u[k]]
      /\ \A k \in 1 .. m : k \in 1 .. l /\ u[k] = s[k]
  BY <1>1
<1> HIDE DEF l, u
<1>3. \A k \in 1 .. m : u[k] \in Prime /\ u[k] \in Entries(s)
  BY <1>1, <1>2
<1>4. \A i, j \in 1 .. m : i < j => u[i] <= u[j]
  BY <1>1, <1>2
<1>5. u \in Vector /\ Len(u) = m /\ DOMAIN u = 1 .. m
  BY <1>1, <1>2, <1>3, <1>4, VectorByEntries
<1>6. QED
  BY <1>2, <1>3, <1>5 DEF Entries, l, u

\* No k adjacent primes are equal.
NoRun(s, k) == \A j \in 1 .. Len(s) - (k - 1) : s[j] # s[j + (k - 1)]

\* After i primes of s: the last ones that are left are those that are counted.
ScanState(prime, count, taken, rest, s, i, k) ==
    /\ prime = (IF i = 0 THEN 0 ELSE s[i])
    /\ count \in Nat
    /\ taken \in Vector /\ Entries(taken) \subseteq Entries(s)
    /\ \A j \in 1 .. Len(taken) : taken[j] <= prime
    /\ rest \in Vector /\ Entries(rest) \subseteq Entries(s)
    /\ count <= Len(rest)
    /\ \A j \in 1 .. Len(rest) :
         IF j <= Len(rest) - count THEN rest[j] < prime ELSE rest[j] = prime
    /\ k = 1 => taken = <<>> /\ (i > 0 => count > 0)
    /\ k > 1 => count < k /\ NoRun(rest, k)

ScanKeeps(acc, s, i, k) ==
    /\ acc = [prime |-> acc.prime, count |-> acc.count, taken |-> acc.taken, rest |-> acc.rest]
    /\ ScanState(acc.prime, acc.count, acc.taken, acc.rest, s, i, k)

LEMMA ScanStep ==
    ASSUME NEW s \in Vector, NEW k \in Nat \ {0}, NEW i \in 1 .. Len(s),
           NEW acc, ScanKeeps(acc, s, i - 1, k)
    PROVE  ScanKeeps(Scan(acc, s[i], k), s, i, k)
<1> DEFINE p == s[i]
           q == acc.prime
           c == acc.count
           t == acc.taken
           r == acc.rest
           l == Len(r)
           n == Scan(acc, p, k)
<1>1. /\ i \in Nat /\ i > 0 /\ Len(s) \in Nat
      /\ p \in Prime /\ p \in Nat /\ p > 1 /\ p \in Entries(s)
  BY VectorFacts
<1>2. /\ acc = [prime |-> q, count |-> c, taken |-> t, rest |-> r]
      /\ q = (IF i - 1 = 0 THEN 0 ELSE s[i - 1])
      /\ c \in Nat
      /\ t \in Vector /\ Entries(t) \subseteq Entries(s)
      /\ \A j \in 1 .. Len(t) : t[j] <= q
      /\ r \in Vector /\ Entries(r) \subseteq Entries(s)
      /\ c <= l
      /\ \A j \in 1 .. l : IF j <= l - c THEN r[j] < q ELSE r[j] = q
      /\ k = 1 => t = <<>> /\ (i - 1 > 0 => c > 0)
      /\ k > 1 => c < k /\ NoRun(r, k)
  BY DEF ScanKeeps, ScanState
<1>3. q \in Nat /\ q <= p
  <2>1. CASE i = 1
    BY <1>1, <1>2, <2>1
  <2>2. CASE i # 1
    <3>1. i - 1 \in 1 .. Len(s) /\ q = s[i - 1] /\ i - 1 <= i
      BY <1>1, <1>2, <2>2
    <3>2. QED
      BY <3>1, VectorFacts
  <2>3. QED
    BY <2>1, <2>2
<1>4. /\ l \in Nat /\ \A j \in 1 .. l : r[j] \in Nat
      /\ Len(t) \in Nat /\ \A j \in 1 .. Len(t) : t[j] \in Nat
  BY <1>2, VectorFacts
<1>5. /\ p # q => n = [prime |-> p, count |-> 1, taken |-> t, rest |-> Append(r, p)]
      /\ p = q /\ c + 1 = k => n = [prime |-> q, count |-> 0, taken |-> Append(t, p),
                                    rest |-> SubSeq(r, 1, Len(r) - (k - 1))]
      /\ p = q /\ c + 1 # k => n = [prime |-> q, count |-> c + 1, taken |-> t, rest |-> Append(r, p)]
  BY <1>2 DEF Scan
<1> HIDE DEF p, q, c, t, r, n
<1>6. (i = 0 <=> FALSE) /\ (i > 0 <=> TRUE)
  BY <1>1
<1>7. \A j \in 1 .. l : r[j] <= q
  <2> TAKE j \in 1 .. l
  <2>1. IF j <= l - c THEN r[j] < q ELSE r[j] = q
    BY <1>2
  <2>2. r[j] \in Nat /\ q \in Nat
    BY <1>3, <1>4
  <2>3. CASE j <= l - c
    BY <2>1, <2>2, <2>3
  <2>4. CASE ~(j <= l - c)
    BY <2>1, <2>2, <2>4
  <2>5. QED
    BY <2>3, <2>4
<1>8. \A j \in 1 .. l : r[j] <= p
  BY <1>1, <1>3, <1>4, <1>7
<1>9. \A j \in 1 .. Len(t) : t[j] <= p
  BY <1>1, <1>2, <1>3, <1>4
<1> DEFINE a == Append(r, p)
<1>10. /\ a \in Vector /\ Len(a) = l + 1 /\ a[l + 1] = p
       /\ \A j \in 1 .. l : a[j] = r[j]
       /\ Entries(a) \subseteq Entries(s)
  BY <1>1, <1>2, <1>8, AppendFacts
<1> HIDE DEF a, l
<1>11. CASE p # q
  <2>1. n.prime = p /\ n.count = 1 /\ n.taken = t /\ n.rest = a
    BY <1>5, <1>11 DEF a
  <2>2. n = [prime |-> n.prime, count |-> n.count, taken |-> n.taken, rest |-> n.rest]
    BY <1>5, <1>11
  <2>3. \A j \in 1 .. l : r[j] < p
    BY <1>1, <1>3, <1>4, <1>7, <1>11
  <2>4. \A j \in 1 .. Len(a) : IF j <= Len(a) - 1 THEN a[j] < p ELSE a[j] = p
    <3> TAKE j \in 1 .. Len(a)
    <3>1. j \in Nat /\ l \in Nat /\ Len(a) = l + 1
      BY <1>4, <1>10
    <3>2. CASE j <= l
      <4>1. j \in 1 .. l /\ j <= Len(a) - 1
        BY <3>1, <3>2
      <4>2. a[j] = r[j] /\ r[j] < p
        BY <1>10, <2>3, <4>1
      <4>3. QED
        BY <4>1, <4>2
    <3>3. CASE ~(j <= l)
      <4>1. j = l + 1 /\ ~(j <= Len(a) - 1)
        BY <3>1, <3>3
      <4>2. QED
        BY <1>10, <4>1
    <3>4. QED
      BY <3>2, <3>3
  <2>5. k > 1 => NoRun(a, k)
    <3> SUFFICES ASSUME k > 1, NEW j \in 1 .. Len(a) - (k - 1) PROVE a[j] # a[j + (k - 1)]
      BY DEF NoRun
    <3>0. j \in 1 .. l + 1 - (k - 1)
      BY <1>4, <1>10
    <3>1. j \in 1 .. l /\ j + (k - 1) \in 1 .. l + 1
      BY <1>4, <3>0
    <3>2. CASE j + (k - 1) = l + 1
      <4>1. a[j + (k - 1)] = p /\ a[j] = r[j] /\ r[j] < p /\ r[j] \in Nat
        BY <1>4, <1>10, <2>3, <3>1, <3>2
      <4>2. QED
        BY <1>1, <4>1
    <3>3. CASE j + (k - 1) # l + 1
      <4>1. j + (k - 1) \in 1 .. l /\ j \in 1 .. l - (k - 1)
        BY <1>4, <3>0, <3>1, <3>3
      <4>2. r[j] # r[j + (k - 1)]
        BY <1>2, <4>1 DEF NoRun, l
      <4>3. QED
        BY <1>10, <3>1, <4>1, <4>2
    <3>4. QED
      BY <3>2, <3>3
  <2>6. 1 <= Len(a) /\ 1 \in Nat /\ (k > 1 => 1 < k)
    BY <1>4, <1>10
  <2>7. k = 1 => t = <<>> /\ (i > 0 => 1 > 0)
    BY <1>2
  <2>8. p = IF i = 0 THEN 0 ELSE s[i]
    BY <1>6 DEF p
  <2>9. ScanState(p, 1, t, a, s, i, k)
    BY <1>2, <1>9, <1>10, <2>4, <2>5, <2>6, <2>7, <2>8 DEF ScanState
  <2>10. ScanKeeps(n, s, i, k)
    BY <2>1, <2>2, <2>9 DEF ScanKeeps
  <2>11. QED
    BY <2>10 DEF n, p
<1>12. CASE p = q /\ c + 1 = k
  <2> DEFINE u == Append(t, p)
             v == SubSeq(r, 1, l - c)
  <2>1. i - 1 > 0
    BY <1>1, <1>2, <1>12
  <2>2. k > 1 /\ k - 1 = c /\ l - c \in 0 .. l
    BY <1>2, <1>4, <1>12, <2>1
  <2>3. /\ u \in Vector /\ Len(u) = Len(t) + 1 /\ u[Len(t) + 1] = p
        /\ \A j \in 1 .. Len(t) : u[j] = t[j]
        /\ Entries(u) \subseteq Entries(s)
    BY <1>1, <1>2, <1>9, AppendFacts
  <2>4. /\ v \in Vector /\ Len(v) = l - c
        /\ \A j \in 1 .. l - c : v[j] = r[j]
        /\ Entries(v) \subseteq Entries(s)
    BY <1>2, <2>2, CutFacts DEF l
  <2> HIDE DEF u, v
  <2>5. n.prime = p /\ n.count = 0 /\ n.taken = u /\ n.rest = v
    <3>1. SubSeq(r, 1, Len(r) - (k - 1)) = v
      BY <2>2 DEF v, l
    <3>2. n = [prime |-> q, count |-> 0, taken |-> u, rest |-> v]
      BY <1>5, <1>12, <3>1 DEF u
    <3>3. QED
      BY <1>12, <3>2
  <2>6. n = [prime |-> n.prime, count |-> n.count, taken |-> n.taken, rest |-> n.rest]
    BY <1>5, <1>12
  <2>7. \A j \in 1 .. Len(u) : u[j] <= p
    <3>1. \A j \in 1 .. Len(t) + 1 : j = Len(t) + 1 \/ j \in 1 .. Len(t)
      BY <1>4
    <3>2. QED
      BY <1>1, <1>9, <2>3, <3>1
  <2>8. \A j \in 1 .. Len(v) : IF j <= Len(v) - 0 THEN v[j] < p ELSE v[j] = p
    <3>1. \A j \in 1 .. Len(v) : j \in 1 .. l - c /\ j \in 1 .. l /\ j <= l - c /\ j <= Len(v) - 0
      BY <1>2, <1>4, <2>4
    <3>2. QED
      BY <1>2, <1>12, <2>4, <3>1
  <2>9. NoRun(v, k)
    <3> SUFFICES ASSUME NEW j \in 1 .. Len(v) - (k - 1) PROVE v[j] # v[j + (k - 1)]
      BY DEF NoRun
    <3>1. j \in 1 .. l - (k - 1) /\ j \in 1 .. l - c /\ j + (k - 1) \in 1 .. l - c
      BY <1>2, <1>4, <2>2, <2>4
    <3>2. r[j] # r[j + (k - 1)]
      BY <1>2, <2>2, <3>1 DEF NoRun, l
    <3>3. QED
      BY <2>4, <3>1, <3>2
  <2>10. 0 <= Len(v) /\ 0 \in Nat /\ 0 < k /\ ~(k = 1)
    BY <1>2, <1>4, <2>2, <2>4
  <2>11. p = IF i = 0 THEN 0 ELSE s[i]
    BY <1>6 DEF p
  <2>12. ScanState(p, 0, u, v, s, i, k)
    BY <2>3, <2>4, <2>7, <2>8, <2>9, <2>10, <2>11 DEF ScanState
  <2>13. ScanKeeps(n, s, i, k)
    BY <2>5, <2>6, <2>12 DEF ScanKeeps
  <2>14. QED
    BY <2>13 DEF n, p
<1>13. CASE p = q /\ c + 1 # k
  <2>1. n.prime = p /\ n.count = c + 1 /\ n.taken = t /\ n.rest = a
    BY <1>5, <1>13 DEF a
  <2>2. n = [prime |-> n.prime, count |-> n.count, taken |-> n.taken, rest |-> n.rest]
    BY <1>5, <1>13
  <2>3. \A j \in 1 .. Len(a) : IF j <= Len(a) - (c + 1) THEN a[j] < p ELSE a[j] = p
    <3> SUFFICES ASSUME NEW j \in 1 .. Len(a)
                 PROVE  IF j <= Len(a) - (c + 1) THEN a[j] < p ELSE a[j] = p
      OBVIOUS
    <3>0. j \in 1 .. l + 1 /\ (j <= Len(a) - (c + 1) <=> j <= l - c)
      BY <1>2, <1>4, <1>10
    <3>1. CASE j = l + 1
      BY <1>2, <1>4, <1>10, <3>0, <3>1
    <3>2. CASE j # l + 1
      <4>1. j \in 1 .. l /\ (j <= Len(a) - (c + 1) <=> j <= l - c)
        BY <1>4, <3>0, <3>2
      <4>2. QED
        BY <1>2, <1>10, <1>13, <4>1
    <3>3. QED
      BY <3>1, <3>2
  <2>4. k > 1 => NoRun(a, k)
    <3> SUFFICES ASSUME k > 1, NEW j \in 1 .. Len(a) - (k - 1) PROVE a[j] # a[j + (k - 1)]
      BY DEF NoRun
    <3>0. j \in 1 .. l + 1 - (k - 1)
      BY <1>4, <1>10
    <3>1. j \in 1 .. l /\ j + (k - 1) \in 1 .. l + 1 /\ c + 1 < k
      BY <1>2, <1>4, <1>13, <3>0
    <3>2. CASE j + (k - 1) = l + 1
      <4>1. j <= l - c
        BY <1>2, <1>4, <3>1, <3>2
      <4>2. r[j] < p /\ r[j] \in Nat
        BY <1>2, <1>4, <1>13, <3>1, <4>1
      <4>3. QED
        BY <1>1, <1>10, <3>1, <3>2, <4>2
    <3>3. CASE j + (k - 1) # l + 1
      <4>1. j + (k - 1) \in 1 .. l /\ j \in 1 .. l - (k - 1)
        BY <1>4, <3>0, <3>1, <3>3
      <4>2. r[j] # r[j + (k - 1)]
        BY <1>2, <4>1 DEF NoRun, l
      <4>3. QED
        BY <1>10, <3>1, <4>1, <4>2
    <3>4. QED
      BY <3>2, <3>3
  <2>5. c + 1 <= Len(a) /\ c + 1 \in Nat /\ (k > 1 => c + 1 < k) /\ c + 1 > 0
    BY <1>2, <1>4, <1>10, <1>13
  <2>6. p = IF i = 0 THEN 0 ELSE s[i]
    BY <1>6 DEF p
  <2>7. ScanState(p, c + 1, t, a, s, i, k)
    BY <1>2, <1>9, <1>10, <2>3, <2>4, <2>5, <2>6 DEF ScanState
  <2>8. ScanKeeps(n, s, i, k)
    BY <2>1, <2>2, <2>7 DEF ScanKeeps
  <2>9. QED
    BY <2>8 DEF n, p
<1>14. QED
  BY <1>11, <1>12, <1>13

\* A first root extracts nothing; of any other, what is left has no full power.
LEMMA ExtractFacts ==
    ASSUME NEW s \in Vector, NEW k \in Nat \ {0}
    PROVE  LET e == ExtractPrimes(s, k)
           IN  /\ e.taken \in Vector /\ Entries(e.taken) \subseteq Entries(s)
               /\ e.rest \in Vector /\ Entries(e.rest) \subseteq Entries(s)
               /\ k = 1 => e.taken = <<>>
               /\ k > 1 => NoRun(e.rest, k)
<1> DEFINE n == Len(s)
           start == [prime |-> 0, count |-> 0, taken |-> <<>>, rest |-> <<>>]
           Body(g) == [i \in 0 .. n |-> IF i = 0 THEN start ELSE Scan(g[i - 1], s[i], k)]
           Keeps(a, i) == ScanKeeps(a, s, i, k)
           Acc == [prime : Nat, count : Nat, taken : Vector, rest : Vector]
           S   == {a \in Acc : \E i \in 0 .. n : Keeps(a, i)}
           op  == [i \in 1 .. n |-> [a \in S |->
                     IF Keeps(a, i - 1) THEN Scan(a, s[i], k) ELSE start]]
           h   == Scanned(s, k)
<1>1. n \in Nat /\ \A i \in 1 .. n : s[i] \in Nat
  BY VectorFacts
<1>2. Keeps(start, 0)
  <2>1. start = [prime |-> start.prime, count |-> start.count, taken |-> start.taken, rest |-> start.rest]
    OBVIOUS
  <2>2. ScanState(0, 0, <<>>, <<>>, s, 0, k)
    <3>1. Len(<<>>) = 0 /\ <<>> \in Vector /\ Entries(<<>>) = {}
      BY EmptyVector
    <3>2. NoRun(<<>>, k)
      BY <3>1 DEF NoRun
    <3>3. QED
      BY <3>1, <3>2 DEF ScanState
  <2>3. QED
    BY <2>1, <2>2 DEF ScanKeeps
<1>3. ASSUME NEW a, NEW i \in 0 .. n, Keeps(a, i) PROVE a \in S
  <2>1. /\ a = [prime |-> a.prime, count |-> a.count, taken |-> a.taken, rest |-> a.rest]
        /\ a.prime = IF i = 0 THEN 0 ELSE s[i]
        /\ a.count \in Nat /\ a.taken \in Vector /\ a.rest \in Vector
    BY <1>3 DEF ScanKeeps, ScanState
  <2>2. a.prime \in Nat
    BY <1>1, <2>1
  <2>3. a \in Acc
    BY <2>1, <2>2
  <2>4. QED
    BY <1>3, <2>3
<1>4. ASSUME NEW i \in 1 .. n, NEW a, Keeps(a, i - 1) PROVE Keeps(Scan(a, s[i], k), i)
  BY <1>4, ScanStep
<1> HIDE DEF n, start, Keeps, S
<1>5. op \in [1 .. n -> [S -> S]] /\ start \in S
  <2>1. start \in S
    BY <1>1, <1>2, <1>3
  <2>2. ASSUME NEW i \in 1 .. n, NEW a \in S
        PROVE  (IF Keeps(a, i - 1) THEN Scan(a, s[i], k) ELSE start) \in S
    <3>1. i \in 0 .. n
      BY <1>1
    <3>2. Keeps(a, i - 1) => Scan(a, s[i], k) \in S
      BY <1>3, <1>4, <3>1
    <3>3. QED
      BY <2>1, <3>2
  <2>3. QED
    BY <2>1, <2>2
<1>6. PICK g \in [0 .. n -> S] : Accumulates(g, n, start, op)
  <2> HIDE DEF op
  <2>1. QED
    BY <1>1, <1>5, Accumulation
<1>7. /\ g[0] = start
      /\ \A i \in 1 .. n : Keeps(g[i - 1], i - 1) => g[i] = Scan(g[i - 1], s[i], k)
  <2>1. \A i \in 1 .. n : g[i] = op[i][g[i - 1]] /\ i - 1 \in 0 .. n /\ g[i - 1] \in S
    BY <1>1, <1>6 DEF Accumulates
  <2>2. g[0] = start
    BY <1>6 DEF Accumulates
  <2>3. QED
    BY <2>1, <2>2
<1> HIDE DEF op
<1>8. \A i \in 0 .. n : Keeps(g[i], i)
  <2> DEFINE T == {i \in 0 .. n : Keeps(g[i], i)}
  <2>1. 0 \in T
    BY <1>1, <1>2, <1>7
  <2>2. \A i \in 1 .. n : i - 1 \in T => i \in T
    BY <1>1, <1>4, <1>7
  <2>3. \A i \in 0 .. n : i \in T
    <3> HIDE DEF T
    <3>1. QED
      BY <1>1, <2>1, <2>2, CountUp
  <2>4. QED
    BY <2>3
<1>9. g = Body(g)
  <2>1. \A i \in 0 .. n : g[i] = IF i = 0 THEN start ELSE Scan(g[i - 1], s[i], k)
    <3>1. \A i \in 0 .. n : i = 0 \/ (i # 0 /\ i \in 1 .. n /\ i - 1 \in 0 .. n)
      BY <1>1
    <3>2. QED
      BY <1>7, <1>8, <3>1
  <2>2. QED
    BY <2>1
<1>10. h = Body(h)
  <2>1. h = CHOOSE f : f = Body(f)
    BY DEF Scanned, n, start
  <2> HIDE DEF Body, h
  <2>2. QED
    BY <1>9, <2>1
<1> HIDE DEF h
<1>11. h[0] = start /\ \A i \in 1 .. n : h[i] = Scan(h[i - 1], s[i], k)
  <2>1. 0 \in 0 .. n /\ \A i \in 1 .. n : i \in 0 .. n /\ i # 0
    BY <1>1
  <2>2. QED
    BY <1>10, <2>1
<1>12. n \in {i \in 0 .. n : Keeps(h[i], i)}
  <2> DEFINE T == {i \in 0 .. n : Keeps(h[i], i)}
  <2>1. 0 \in T
    BY <1>1, <1>2, <1>11
  <2>2. \A i \in 1 .. n : i - 1 \in T => i \in T
    BY <1>1, <1>4, <1>11
  <2> HIDE DEF T
  <2>3. n \in T
    BY <1>1, <2>1, <2>2, CountUp
  <2>4. QED
    BY <2>3 DEF T
<1>13. ExtractPrimes(s, k) = h[n] /\ ScanKeeps(h[n], s, n, k)
  BY <1>12 DEF ExtractPrimes, Keeps, h, n
<1>14. QED
  BY <1>13 DEF ScanKeeps, ScanState

LEMMA ExtractionReduced ==
    ASSUME NEW f, IsReduced(f), NEW e \in Rational
    PROVE  /\ IsReduced(Extraction(f, e))
           /\ e.den = 1 => Extraction(f, e) = NoFactors
           /\ IsReduced(AfterExtraction(f, e))
           /\ e.den > 1 => /\ NoRun(AfterExtraction(f, e).nums, e.den)
                           /\ NoRun(AfterExtraction(f, e).dens, e.den)
<1> DEFINE n == ExtractPrimes(f.nums, e.den)
           d == ExtractPrimes(f.dens, e.den)
           t == [nums |-> n.taken, dens |-> d.taken]
<1>1. e.den \in Nat \ {0} /\ e.num \in Int
  BY DEF Rational
<1>2. f.nums \in Vector /\ f.dens \in Vector /\ Entries(f.nums) \cap Entries(f.dens) = {}
  BY DEF IsReduced
<1>3. /\ n.taken \in Vector /\ Entries(n.taken) \subseteq Entries(f.nums)
      /\ n.rest \in Vector /\ Entries(n.rest) \subseteq Entries(f.nums)
      /\ e.den = 1 => n.taken = <<>>
      /\ e.den > 1 => NoRun(n.rest, e.den)
  BY <1>1, <1>2, ExtractFacts
<1>4. /\ d.taken \in Vector /\ Entries(d.taken) \subseteq Entries(f.dens)
      /\ d.rest \in Vector /\ Entries(d.rest) \subseteq Entries(f.dens)
      /\ e.den = 1 => d.taken = <<>>
      /\ e.den > 1 => NoRun(d.rest, e.den)
  BY <1>1, <1>2, ExtractFacts
<1>5. /\ Extraction(f, e) = ToTheInt(t, e.num)
      /\ AfterExtraction(f, e) = [nums |-> n.rest, dens |-> d.rest]
  BY DEF Extraction, AfterExtraction
<1> HIDE DEF n, d
<1>6. Entries(n.taken) \cap Entries(d.taken) = {} /\ Entries(n.rest) \cap Entries(d.rest) = {}
  BY <1>2, <1>3, <1>4
<1>7. IsReduced(t) /\ (e.den = 1 => t = NoFactors)
  BY <1>3, <1>4, <1>6 DEF IsReduced, NoFactors
<1> HIDE DEF t
<1>8. IsReduced(Extraction(f, e)) /\ (e.den = 1 => Extraction(f, e) = NoFactors)
  BY <1>1, <1>5, <1>7, ToTheIntReduced
<1>9. IsReduced(AfterExtraction(f, e))
  BY <1>3, <1>4, <1>5, <1>6 DEF IsReduced
<1>10. QED
  BY <1>3, <1>4, <1>5, <1>8, <1>9

-----------------------------------------------------------------------------
(* What is collected. *)

UniqueKeeps(u, s, i) ==
    /\ u \in Vector /\ Entries(u) \subseteq Entries(s)
    /\ \A j \in 1 .. Len(u) : i > 0 /\ u[j] <= s[i]
    /\ i > 0 => u # <<>>

LEMMA UniqueStep ==
    ASSUME NEW s \in Vector, NEW i \in 1 .. Len(s), NEW u, UniqueKeeps(u, s, i - 1)
    PROVE  /\ i > 1 => UniqueKeeps(u, s, i)
           /\ UniqueKeeps(Append(u, s[i]), s, i)
<1> DEFINE p == s[i]
           a == Append(u, p)
<1>1. /\ i \in Nat /\ i > 0 /\ Len(s) \in Nat
      /\ p \in Prime /\ p \in Nat /\ p \in Entries(s)
  BY VectorFacts
<1>2. /\ u \in Vector /\ Entries(u) \subseteq Entries(s)
      /\ \A j \in 1 .. Len(u) : i - 1 > 0 /\ u[j] <= s[i - 1]
      /\ i - 1 > 0 => u # <<>>
  BY DEF UniqueKeeps
<1>3. Len(u) \in Nat /\ \A j \in 1 .. Len(u) : u[j] \in Nat
  BY <1>2, VectorFacts
<1>4. \A j \in 1 .. Len(u) : u[j] <= p
  <2> TAKE j \in 1 .. Len(u)
  <2>1. i - 1 > 0 /\ u[j] <= s[i - 1]
    BY <1>2
  <2>2. i - 1 \in 1 .. Len(s) /\ i - 1 <= i
    BY <1>1, <2>1
  <2>3. s[i - 1] <= p /\ s[i - 1] \in Nat
    BY <2>2, VectorFacts
  <2>4. QED
    BY <1>1, <1>3, <2>1, <2>3
<1> HIDE DEF p
<1>5. /\ a \in Vector /\ Len(a) = Len(u) + 1 /\ a[Len(u) + 1] = p
      /\ \A j \in 1 .. Len(u) : a[j] = u[j]
      /\ Entries(a) \subseteq Entries(s)
  BY <1>1, <1>2, <1>4, AppendFacts
<1> HIDE DEF a
<1>6. \A j \in 1 .. Len(a) : a[j] <= p
  <2>1. \A j \in 1 .. Len(a) : j = Len(u) + 1 \/ j \in 1 .. Len(u)
    BY <1>3, <1>5
  <2>2. QED
    BY <1>1, <1>4, <1>5, <2>1
<1>7. a # <<>>
  BY <1>3, <1>5
<1>8. UniqueKeeps(a, s, i)
  BY <1>1, <1>5, <1>6, <1>7 DEF UniqueKeeps, p
<1>9. i > 1 => UniqueKeeps(u, s, i)
  BY <1>1, <1>2, <1>4 DEF UniqueKeeps, p
<1>10. QED
  BY <1>8, <1>9 DEF a, p

LEMMA EraseDuplicatesFacts ==
    ASSUME NEW s \in Vector
    PROVE  /\ EraseDuplicates(s) \in Vector
           /\ Entries(EraseDuplicates(s)) \subseteq Entries(s)
           /\ s # <<>> => EraseDuplicates(s) # <<>>
<1> DEFINE n == Len(s)
           Next1(u, i) == IF i > 1 /\ s[i] = s[i - 1] THEN u ELSE Append(u, s[i])
           Body(g) == [i \in 0 .. n |-> IF i = 0 THEN <<>>
                         ELSE IF i > 1 /\ s[i] = s[i - 1] THEN g[i - 1]
                         ELSE Append(g[i - 1], s[i])]
           Keeps(u, i) == UniqueKeeps(u, s, i)
           S   == Vector
           op  == [i \in 1 .. n |-> [u \in S |-> IF Keeps(u, i - 1) THEN Next1(u, i) ELSE <<>>]]
           h   == Unique(s)
<1>1. n \in Nat
  BY VectorFacts
<1>2. Keeps(<<>>, 0) /\ <<>> \in S
  BY EmptyVector DEF UniqueKeeps
<1>3. ASSUME NEW i \in 1 .. n, NEW u, Keeps(u, i - 1) PROVE Keeps(Next1(u, i), i)
  <2>1. /\ i > 1 => UniqueKeeps(u, s, i)
        /\ UniqueKeeps(Append(u, s[i]), s, i)
    BY <1>3, UniqueStep
  <2>2. QED
    BY <2>1
<1>4. \A u, i : Keeps(u, i) => u \in S
  BY DEF UniqueKeeps
<1> HIDE DEF n, Next1, Keeps, S
<1>5. op \in [1 .. n -> [S -> S]]
  BY <1>2, <1>3, <1>4
<1>6. PICK g \in [0 .. n -> S] : Accumulates(g, n, <<>>, op)
  <2> HIDE DEF op
  <2>1. QED
    BY <1>1, <1>2, <1>5, Accumulation
<1>7. /\ g[0] = <<>>
      /\ \A i \in 1 .. n : Keeps(g[i - 1], i - 1) => g[i] = Next1(g[i - 1], i)
  <2>1. \A i \in 1 .. n : g[i] = op[i][g[i - 1]] /\ i - 1 \in 0 .. n /\ g[i - 1] \in S
    BY <1>1, <1>6 DEF Accumulates
  <2>2. g[0] = <<>>
    BY <1>6 DEF Accumulates
  <2>3. QED
    BY <2>1, <2>2
<1> HIDE DEF op
<1>8. \A i \in 0 .. n : Keeps(g[i], i)
  <2> DEFINE T == {i \in 0 .. n : Keeps(g[i], i)}
  <2>1. 0 \in T
    BY <1>1, <1>2, <1>7
  <2>2. \A i \in 1 .. n : i - 1 \in T => i \in T
    BY <1>1, <1>3, <1>7
  <2>3. \A i \in 0 .. n : i \in T
    <3> HIDE DEF T
    <3>1. QED
      BY <1>1, <2>1, <2>2, CountUp
  <2>4. QED
    BY <2>3
<1>9. g = Body(g)
  <2>1. \A i \in 1 .. n : g[i] = Next1(g[i - 1], i)
    <3>1. \A i \in 1 .. n : i - 1 \in 0 .. n
      BY <1>1
    <3>2. QED
      BY <1>7, <1>8, <3>1
  <2>2. \A i \in 0 .. n : g[i] = IF i = 0 THEN <<>>
                                 ELSE IF i > 1 /\ s[i] = s[i - 1] THEN g[i - 1]
                                 ELSE Append(g[i - 1], s[i])
    <3>1. \A i \in 0 .. n : i = 0 \/ (i # 0 /\ i \in 1 .. n)
      BY <1>1
    <3>2. QED
      BY <1>7, <2>1, <3>1 DEF Next1
  <2>3. QED
    BY <2>2
<1>10. h = Body(h)
  <2>1. h = CHOOSE f : f = Body(f)
    BY DEF Unique, n
  <2> HIDE DEF Body, h
  <2>2. QED
    BY <1>9, <2>1
<1> HIDE DEF h
<1>11. h[0] = <<>> /\ \A i \in 1 .. n : h[i] = Next1(h[i - 1], i)
  <2>1. 0 \in 0 .. n /\ \A i \in 1 .. n : i \in 0 .. n /\ i # 0
    BY <1>1
  <2>2. QED
    BY <1>10, <2>1 DEF Next1
<1>12. n \in {i \in 0 .. n : Keeps(h[i], i)}
  <2> DEFINE T == {i \in 0 .. n : Keeps(h[i], i)}
  <2>1. 0 \in T
    BY <1>1, <1>2, <1>11
  <2>2. \A i \in 1 .. n : i - 1 \in T => i \in T
    BY <1>1, <1>3, <1>11
  <2> HIDE DEF T
  <2>3. n \in T
    BY <1>1, <2>1, <2>2, CountUp
  <2>4. QED
    BY <2>3 DEF T
<1>13. EraseDuplicates(s) = h[n] /\ UniqueKeeps(h[n], s, n)
  BY <1>12 DEF EraseDuplicates, Keeps, h, n
<1>14. s # <<>> => n > 0
  BY <1>1 DEF n, Vector
<1>15. QED
  BY <1>13, <1>14 DEF UniqueKeeps

\* The leading group of equal primes is shorter than a full power.
LEMMA EqualCountOfFacts ==
    ASSUME NEW s \in Vector, s # <<>>
    PROVE  /\ EqualCountOf(s) \in Nat
           /\ \A k \in Nat : k > 1 /\ NoRun(s, k) => EqualCountOf(s) < k
<1> DEFINE n == Len(s)
           Leads(k) == /\ \A j \in 1 .. k : s[j] = s[1]
                       /\ k = n \/ s[k + 1] # s[1]
           size == CHOOSE k \in 1 .. n : Leads(k)
<1>1. n \in Nat \ {0} /\ n > 0
  BY DEF Vector
<1>2. size \in 1 .. n /\ Leads(size)
  <2> DEFINE U == {k \in 1 .. n : k = n \/ s[k + 1] # s[1]}
  <2>1. n \in U
    BY <1>1
  <2>2. PICK m \in U : \A k \in U : m <= k
    <3>1. U # {} /\ U \in SUBSET Nat
      BY <1>1, <2>1
    <3> HIDE DEF U
    <3>2. QED
      BY <3>1, LeastNumber
  <2>3. m \in 1 .. n /\ (m = n \/ s[m + 1] # s[1])
    OBVIOUS
  <2>4. ASSUME NEW j \in 1 .. m PROVE s[j] = s[1]
    <3>1. CASE j = 1
      BY <3>1
    <3>2. CASE j # 1
      <4>1. j - 1 \in 1 .. n /\ ~(m <= j - 1)
        BY <1>1, <2>3, <3>2
      <4>2. j - 1 \notin U
        BY <2>2, <4>1
      <4>3. s[(j - 1) + 1] = s[1]
        BY <4>1, <4>2
      <4>4. (j - 1) + 1 = j
        BY <2>3
      <4>5. QED
        BY <4>3, <4>4
    <3>3. QED
      BY <3>1, <3>2
  <2>5. Leads(m)
    BY <2>3, <2>4
  <2>6. QED
    BY <2>3, <2>5
<1>3. EqualCountOf(s) \in {0, 1, size}
  BY DEF EqualCountOf
<1>4. ASSUME NEW k \in Nat, k > 1, NoRun(s, k) PROVE size < k
  <2> SUFFICES ASSUME k <= size PROVE FALSE
    BY <1>2
  <2> HIDE DEF size
  <2>1. 1 \in 1 .. n - (k - 1) /\ 1 + (k - 1) = k /\ k \in 1 .. size
    BY <1>1, <1>2, <1>4
  <2>2. s[1] # s[1 + (k - 1)]
    BY <1>4, <2>1 DEF NoRun
  <2>3. s[k] = s[1]
    BY <1>2, <2>1
  <2>4. QED
    BY <2>1, <2>2, <2>3
<1> HIDE DEF size
<1>5. EqualCountOf(s) \in Nat
  BY <1>1, <1>2, <1>3
<1>6. ASSUME NEW k \in Nat, k > 1, NoRun(s, k) PROVE EqualCountOf(s) < k
  BY <1>3, <1>4, <1>6
<1>7. QED
  BY <1>5, <1>6

LEMMA EqualCountFacts ==
    ASSUME NEW f, IsReduced(f)
    PROVE  /\ EqualCount(f) \in Nat
           /\ f = NoFactors => EqualCount(f) = 0
           /\ \A k \in Nat : k > 1 /\ NoRun(f.nums, k) /\ NoRun(f.dens, k) => EqualCount(f) < k
<1>1. f.nums \in Vector /\ f.dens \in Vector /\ f = [nums |-> f.nums, dens |-> f.dens]
  BY DEF IsReduced
<1>2. CASE f = NoFactors
  BY <1>2 DEF EqualCount
<1>3. CASE f # NoFactors
  <2>1. f.nums # <<>> \/ f.dens # <<>>
    BY <1>1, <1>3 DEF NoFactors
  <2>2. f.nums # <<>> => /\ EqualCountOf(f.nums) \in Nat
                         /\ \A k \in Nat : k > 1 /\ NoRun(f.nums, k) => EqualCountOf(f.nums) < k
    BY <1>1, EqualCountOfFacts
  <2>3. f.dens # <<>> => /\ EqualCountOf(f.dens) \in Nat
                         /\ \A k \in Nat : k > 1 /\ NoRun(f.dens, k) => EqualCountOf(f.dens) < k
    BY <1>1, EqualCountOfFacts
  <2>4. \/ f.nums # <<>> /\ EqualCount(f) = EqualCountOf(f.nums)
        \/ f.dens # <<>> /\ EqualCount(f) = EqualCountOf(f.dens)
        \/ EqualCount(f) = 0
    BY <1>3, <2>1 DEF EqualCount
  <2>5. QED
    BY <1>3, <2>2, <2>3, <2>4
<1>4. QED
  BY <1>2, <1>3

\* A power of more than one prime keeps an exponent that is not one.
LEMMA CollectionFacts ==
    ASSUME NEW f, IsReduced(f), NEW e \in Rational, InLowestTerms(e), e.num > 0,
           e.den > 1 => NoRun(f.nums, e.den) /\ NoRun(f.dens, e.den)
    PROVE  /\ IsReduced(AfterCollection(f))
           /\ AfterCollection(f) = NoFactors <=> f = NoFactors
           /\ CollectedExp(f, e) \in Rational /\ InLowestTerms(CollectedExp(f, e))
           /\ CollectedExp(f, e).num > 0
           /\ f = NoFactors => CollectedExp(f, e) = One
           /\ CollectedExp(f, e) = One => f = NoFactors \/ e = One
<1> DEFINE c == EqualCount(f)
           n == EraseDuplicates(f.nums)
           d == EraseDuplicates(f.dens)
<1>1. /\ f.nums \in Vector /\ f.dens \in Vector
      /\ Entries(f.nums) \cap Entries(f.dens) = {}
      /\ f = [nums |-> f.nums, dens |-> f.dens]
  BY DEF IsReduced
<1>2. /\ c \in Nat /\ (f = NoFactors => c = 0)
      /\ \A k \in Nat : k > 1 /\ NoRun(f.nums, k) /\ NoRun(f.dens, k) => c < k
  BY EqualCountFacts
<1>3. /\ n \in Vector /\ Entries(n) \subseteq Entries(f.nums) /\ (f.nums # <<>> => n # <<>>)
      /\ d \in Vector /\ Entries(d) \subseteq Entries(f.dens) /\ (f.dens # <<>> => d # <<>>)
  BY <1>1, EraseDuplicatesFacts
<1>4. /\ AfterCollection(f) = IF c > 1 THEN [nums |-> n, dens |-> d] ELSE f
      /\ CollectedExp(f, e) = IF c > 1 THEN Times(Whole(c), e) ELSE IF f = NoFactors THEN One ELSE e
  BY DEF AfterCollection, CollectedExp
<1> HIDE DEF c, n, d
<1>5. CASE c > 1
  <2>1. f # NoFactors /\ (f.nums # <<>> \/ f.dens # <<>>)
    BY <1>1, <1>2, <1>5 DEF NoFactors
  <2>2. AfterCollection(f) = [nums |-> n, dens |-> d]
    BY <1>4, <1>5
  <2>3. Entries(n) \cap Entries(d) = {}
    BY <1>1, <1>3
  <2>4. IsReduced(AfterCollection(f)) /\ AfterCollection(f) # NoFactors
    BY <1>3, <2>1, <2>2, <2>3 DEF IsReduced, NoFactors
  <2> DEFINE t == Times(Whole(c), e)
  <2>5. CollectedExp(f, e) = t
    BY <1>4, <1>5
  <2>6. /\ Whole(c) \in Rational /\ Whole(c).num = c /\ Whole(c).den = 1 /\ c > 0
        /\ e.num \in Int /\ e.den \in Nat \ {0}
    BY <1>2, <1>5 DEF Whole, Rational
  <2>7. t \in Rational /\ InLowestTerms(t) /\ t.num > 0
    BY <2>6, TimesFacts
  <2>8. ASSUME t = One PROVE FALSE
    <3>1. PICK g \in Nat \ {0} : c * e.num = g * t.num /\ 1 * e.den = g * t.den
      BY <2>6, TimesFacts
    <3>2. t.num = 1 /\ t.den = 1
      BY <2>8 DEF One, Whole
    <3>3. e.den = c * e.num
      BY <2>6, <3>1, <3>2
    <3>4. e.num = 1
      <4>1. e.num \in Nat /\ AbsInt(e.num) = e.num /\ e.den \in Nat
        BY <2>6 DEF AbsInt
      <4>2. Coprime(e.num, e.den)
        BY <4>1, CoprimeGcd DEF InLowestTerms
      <4>3. e.den = e.num * c /\ e.num = e.num * 1
        BY <1>2, <3>3, <4>1
      <4>4. HasFactor(e.num, e.num) /\ HasFactor(e.den, e.num)
        BY <1>2, <4>3 DEF HasFactor
      <4>5. QED
        BY <4>1, <4>2, <4>4 DEF Coprime
    <3>5. e.den = c
      BY <1>2, <3>3, <3>4
    <3>6. c < c
      BY <1>2, <1>5, <3>5
    <3>7. QED
      BY <1>2, <3>6
  <2>9. QED
    BY <2>1, <2>4, <2>5, <2>7, <2>8
<1>6. CASE ~(c > 1)
  <2>1. /\ One \in Rational /\ InLowestTerms(One) /\ One.num > 0
    BY WholeFacts DEF One
  <2>2. AfterCollection(f) = f /\ CollectedExp(f, e) = IF f = NoFactors THEN One ELSE e
    BY <1>4, <1>6
  <2>3. QED
    BY <2>1, <2>2
<1>7. QED
  BY <1>5, <1>6

-----------------------------------------------------------------------------
(* The invariant: what holds of the payload at each place of the program.  *)

MinusOne == Whole(-1)

\* The payload is made of fractions in lowest terms; base and prefactor are never zero.
Fraction(q) == q \in Rational /\ InLowestTerms(q)

FractionsKept(R) ==
    /\ R = [base |-> R.base, exp |-> R.exp, preFactor |-> R.preFactor]
    /\ Fraction(R.base) /\ Fraction(R.exp) /\ Fraction(R.preFactor)
    /\ R.base.num # 0 /\ R.preFactor.num # 0

\* A payload whose sign changes, but that can't be resolved, has no prefactor to lose.
AtCompute(R) ==
    /\ R.exp.num # 0 /\ R.exp # One /\ R.base # One
    /\ R.exp = MinusOne \/ R.base = MinusOne => R.preFactor = One

AtPosExp(R) ==
    /\ R.exp.num > 0
    /\ R.base.num < 0 => IsInt(R.exp)
    /\ R.exp = One \/ R.base \in {One, MinusOne} => R.preFactor \in {One, MinusOne}

AtAllPos(R) ==
    /\ R.base.num > 0 /\ R.exp.num > 0 /\ R.preFactor.num > 0
    /\ R.exp = One \/ R.base = One => R.preFactor = One

\* A first root is always taken, so that the prefactor is in the power.
AtCancel(R) ==
    /\ R.exp.num > 0 /\ R.preFactor.num > 0
    /\ R.exp.num = 1 => R.preFactor = One

\* What is left has no full power of the exponent's denominator.
AtCollect(R, f) ==
    /\ R.exp.num > 0 /\ R.preFactor.num > 0
    /\ R.exp = One => R.preFactor = One
    /\ R.exp.den > 1 => NoRun(f.nums, R.exp.den) /\ NoRun(f.dens, R.exp.den)

\* numpowersimpl.cpp:207 asserts the last conjunct.
AtComponents(R, f) ==
    /\ R.exp.num > 0 /\ R.preFactor.num > 0
    /\ R.exp = One => R.preFactor = One \/ f = NoFactors
    /\ f = NoFactors => R.exp = One

\* Without prime factorization, a base one is not recognized.
Resolved(R) ==
    /\ R.exp = One => R.preFactor = One
    /\ MaxPrimeLimit > 0 /\ R.base = One => R.exp = One

AtGreater(R) ==
    /\ R.base.num > 0 /\ R.exp.num > 0 /\ R.preFactor.num > 0
    /\ Resolved(R)

AtSignBack(R) ==
    /\ R.base.num > 0 /\ R.exp.num >= 0 /\ R.preFactor.num > 0
    /\ Resolved(R)

Signed(R) == Resolved(R) /\ (R.base.num < 0 => R.exp = One)

AtFinish(R) == Signed(R) /\ R.exp.num >= 0

AtSign(R) == Signed(R) /\ R.exp # MinusOne

AtDone(R) ==
    \/ R.base.num < 0 /\ IsFraction(R.exp)
    \/ AtSign(R) /\ (R.exp.num < 0 => IsInt(R.base))

Staged ==
    /\ pc = "compute"                 => AtCompute(result)
    /\ pc = "computePosExp"           => AtPosExp(result)
    /\ pc = "computeAllPos"           => AtAllPos(result)
    /\ pc = "cancelAndExtract"        => AtCancel(result)
    /\ pc = "collectPrimesInPower"    => AtCollect(result, nbPrimes)
    /\ pc = "primesToComponents"      => AtComponents(result, nbPrimes)
    /\ pc = "adjustExpGreaterThanOne" => AtGreater(result)
    /\ pc = "shiftPreFacSignBack"     => AtSignBack(result)
    /\ pc = "finishNegExp"            => AtFinish(result)
    /\ pc = "adjustExpSignAndBase"    => AtSign(result)
    /\ pc = "done"                    => AtDone(result)

Kept ==
    /\ orig \in Payload
    /\ isPreFacNegative \in BOOLEAN /\ inverted \in BOOLEAN /\ simplified \in BOOLEAN
    /\ round \in Nat
    /\ pc \in {"compute", "computePosExp", "computeAllPos", "cancelAndExtract",
               "collectPrimesInPower", "primesToComponents", "adjustExpGreaterThanOne",
               "shiftPreFacSignBack", "finishNegExp", "adjustExpSignAndBase", "done"}
    /\ FractionsKept(result)
    /\ IsReduced(nbPrimes) /\ IsReduced(pfPrimes)

IInv == Kept /\ Staged

-----------------------------------------------------------------------------
(* The methods, each with what it makes of the payload. *)

LEMMA FractionFacts ==
    ASSUME NEW q, Fraction(q)
    PROVE  /\ q \in Rational /\ InLowestTerms(q) /\ q.num \in Int /\ q.den \in Nat \ {0}
           /\ \A n \in Int : q = Whole(n) <=> q.num = n /\ q.den = 1
           /\ q = One <=> q.num = 1 /\ q.den = 1
           /\ q = MinusOne <=> q.num = -1 /\ q.den = 1
<1>1. q \in Rational /\ InLowestTerms(q) /\ q.num \in Int /\ q.den \in Nat \ {0}
  BY DEF Fraction, Rational
<1>2. ASSUME NEW n \in Int PROVE q = Whole(n) <=> q.num = n /\ q.den = 1
  BY <1>1 DEF Whole, Rational
<1>3. QED
  BY <1>1, <1>2 DEF One, MinusOne

LEMMA UnitFacts ==
    /\ Fraction(One) /\ One.num = 1 /\ One.den = 1
    /\ Fraction(MinusOne) /\ MinusOne.num = -1 /\ MinusOne.den = 1
    /\ Reciprocal(One) = One
    /\ \A p, q \in {One, MinusOne} : Times(p, q) \in {One, MinusOne}
    /\ Times(One, One) = One
<1>1. /\ Fraction(One) /\ One.num = 1 /\ One.den = 1
      /\ Fraction(MinusOne) /\ MinusOne.num = -1 /\ MinusOne.den = 1
  BY WholeFacts DEF One, MinusOne, Fraction
<1>2. Reciprocal(One) = One
  <2>1. One \in Rational /\ InLowestTerms(One)
    BY <1>1 DEF Fraction
  <2>2. Reciprocal(One) = [num |-> 1, den |-> 1]
    BY <1>1, <2>1, ReciprocalFacts
  <2>3. QED
    BY <2>2 DEF One, Whole
<1>3. ASSUME NEW p \in {One, MinusOne}, NEW q \in {One, MinusOne}
      PROVE  /\ Times(p, q) \in {One, MinusOne}
             /\ p = One /\ q = One => Times(p, q) = One
  <2> DEFINE t == Times(p, q)
  <2>1. /\ p \in Rational /\ p.num \in {1, -1} /\ p.den = 1
        /\ q \in Rational /\ q.num \in {1, -1} /\ q.den = 1
    BY <1>1 DEF Fraction
  <2>2. /\ Fraction(t)
        /\ \E g \in Nat \ {0} : p.num * q.num = g * t.num /\ p.den * q.den = g * t.den
    BY <2>1, TimesFacts DEF Fraction
  <2>3. PICK g \in Nat \ {0} : p.num * q.num = g * t.num /\ p.den * q.den = g * t.den
    BY <2>2
  <2>4. t.num \in Int /\ t.den \in Nat \ {0}
    BY <2>2, FractionFacts
  <2> HIDE DEF t
  <2>5. g = 1 /\ t.den = 1
    <3>1. g * t.den = 1
      BY <2>1, <2>3
    <3>2. g * t.den >= g /\ g * t.den >= t.den
      BY <2>4
    <3>3. QED
      BY <2>4, <3>1, <3>2
  <2>6. t.num = p.num * q.num
    BY <2>3, <2>4, <2>5
  <2>7. t.num \in {1, -1} /\ (p.num = 1 /\ q.num = 1 => t.num = 1)
    BY <2>1, <2>6
  <2>8. t \in {One, MinusOne} /\ (p.num = 1 /\ q.num = 1 => t = One)
    BY <2>2, <2>5, <2>7, FractionFacts
  <2>9. QED
    BY <1>1, <2>8 DEF t
<1>4. QED
  BY <1>1, <1>2, <1>3

LEMMA ProductOfFractions ==
    ASSUME NEW p, Fraction(p), NEW q \in Rational
    PROVE  /\ Fraction(Times(p, q))
           /\ p.num # 0 /\ q.num # 0 => Times(p, q).num # 0
           /\ p.num > 0 /\ q.num > 0 => Times(p, q).num > 0
BY TimesFacts DEF Fraction

LEMMA NegativeFraction ==
    ASSUME NEW q, Fraction(q)
    PROVE  Fraction(Negative(q)) /\ Negative(q).num = -q.num /\ Negative(q).den = q.den
BY NegativeFacts DEF Fraction

LEMMA ReciprocalFraction ==
    ASSUME NEW q, Fraction(q), q.num # 0
    PROVE  /\ Fraction(Reciprocal(q)) /\ Reciprocal(q).num # 0
           /\ q.num > 0 => Reciprocal(q).num = q.den /\ Reciprocal(q).den = q.num
           /\ Reciprocal(q).num < 0 <=> q.num < 0
<1>1. q \in Rational /\ InLowestTerms(q) /\ q.num \in Int /\ q.den \in Nat \ {0}
  BY FractionFacts
<1>2. /\ Reciprocal(q) = IF q.num > 0 THEN [num |-> q.den, den |-> q.num]
                                      ELSE [num |-> -q.den, den |-> -q.num]
      /\ Reciprocal(q) \in Rational
      /\ InLowestTerms(Reciprocal(q))
  BY <1>1, ReciprocalFacts
<1>3. Fraction(Reciprocal(q))
  BY <1>2 DEF Fraction
<1>4. CASE q.num > 0
  <2>1. Reciprocal(q).num = q.den /\ Reciprocal(q).den = q.num
    BY <1>2, <1>4
  <2>2. QED
    BY <1>1, <1>3, <1>4, <2>1
<1>5. CASE ~(q.num > 0)
  <2>1. Reciprocal(q).num = -q.den
    BY <1>2, <1>5
  <2>2. q.num < 0
    BY <1>1, <1>5
  <2>3. QED
    BY <1>1, <1>3, <2>1, <2>2
<1>6. QED
  BY <1>4, <1>5

\* A payload with new fractions.
LEMMA NewPayload ==
    ASSUME NEW b, NEW e, NEW f, Fraction(b), Fraction(e), Fraction(f), b.num # 0, f.num # 0
    PROVE  FractionsKept([base |-> b, exp |-> e, preFactor |-> f])
BY DEF FractionsKept

LEMMA EvalOfNone == Eval(NoFactors) = One
<1>1. Eval(NoFactors) = Ratio(1, 1)
  <2>1. <<>> \in Vector /\ Len(<<>>) = 0
    BY EmptyVector
  <2>2. ProductOf(<<>>) = 1
    BY <2>1, PartialFacts DEF ProductOf
  <2>3. QED
    BY <2>2 DEF Eval, NoFactors
<1>2. Times(One, One) = Ratio(1, 1)
  <2>1. One.num * One.num = 1 /\ One.den * One.den = 1
    BY UnitFacts
  <2>2. QED
    BY <2>1 DEF Times
<1>3. QED
  BY <1>1, <1>2, UnitFacts

LEMMA NegExpStep ==
    ASSUME NEW R, FractionsKept(R), AtCompute(R), R.exp.num < 0, R.base.num < 0 => IsInt(R.exp),
           NEW N, N = [base |-> R.base, exp |-> Negative(R.exp), preFactor |-> Reciprocal(R.preFactor)]
    PROVE  FractionsKept(N) /\ AtPosExp(N)
<1> DEFINE b == R.base
           e == R.exp
           f == R.preFactor
           n == Negative(e)
           r == Reciprocal(f)
<1>1. /\ R = [base |-> b, exp |-> e, preFactor |-> f]
      /\ Fraction(b) /\ Fraction(e) /\ Fraction(f) /\ b.num # 0 /\ f.num # 0
  BY DEF FractionsKept
<1>2. N = [base |-> b, exp |-> n, preFactor |-> r]
  OBVIOUS
<1>3. /\ e.num < 0 /\ (b.num < 0 => IsInt(e)) /\ b # One
      /\ (e = MinusOne \/ b = MinusOne => f = One)
  BY DEF AtCompute
<1> HIDE DEF b, e, f, n, r
<1>4. Fraction(n) /\ n.num = -e.num /\ n.den = e.den
  BY <1>1, NegativeFraction DEF n
<1>5. Fraction(r) /\ r.num # 0
  BY <1>1, ReciprocalFraction DEF r
<1>6. FractionsKept(N)
  BY <1>1, <1>2, <1>4, <1>5, NewPayload
<1>7. n.num > 0 /\ (b.num < 0 => IsInt(n))
  <2>1. e.num \in Int
    BY <1>1, FractionFacts
  <2>2. QED
    BY <1>3, <1>4, <2>1 DEF IsInt
<1>8. n = One => e = MinusOne
  <2>1. e.num \in Int /\ (e = MinusOne <=> e.num = -1 /\ e.den = 1)
    BY <1>1, FractionFacts
  <2>2. n = One => n.num = 1 /\ n.den = 1
    BY UnitFacts
  <2>3. QED
    BY <1>4, <2>1, <2>2
<1>9. n = One \/ b \in {One, MinusOne} => r \in {One, MinusOne}
  BY <1>3, <1>8, UnitFacts DEF r
<1>10. N.base = b /\ N.exp = n /\ N.preFactor = r
  BY <1>2
<1>11. AtPosExp(N)
  BY <1>7, <1>9, <1>10 DEF AtPosExp
<1>12. QED
  BY <1>6, <1>11

LEMMA PosExpStep ==
    ASSUME NEW R, FractionsKept(R), AtCompute(R), R.exp.num >= 0, R.base.num < 0 => IsInt(R.exp)
    PROVE  AtPosExp(R)
<1>1. R.exp.num \in Int
  BY FractionFacts DEF FractionsKept
<1>2. QED
  BY <1>1 DEF AtCompute, AtPosExp

LEMMA NegBaseStep ==
    ASSUME NEW R, FractionsKept(R), AtPosExp(R), R.base.num < 0,
           NEW N, N = [base |-> Negative(R.base), exp |-> R.exp,
                       preFactor |-> Times(R.preFactor, ToThe(Whole(-1), R.exp))]
    PROVE  FractionsKept(N) /\ AtPosExp(N)
<1> DEFINE b == R.base
           e == R.exp
           f == R.preFactor
           s == ToThe(Whole(-1), e)
           n == Negative(b)
           t == Times(f, s)
<1>1. /\ R = [base |-> b, exp |-> e, preFactor |-> f]
      /\ Fraction(b) /\ Fraction(e) /\ Fraction(f) /\ b.num # 0 /\ f.num # 0
  BY DEF FractionsKept
<1>2. N = [base |-> n, exp |-> e, preFactor |-> t]
  OBVIOUS
<1>3. /\ e.num > 0 /\ IsInt(e) /\ b.num < 0
      /\ (e = One \/ b \in {One, MinusOne} => f \in {One, MinusOne})
  BY DEF AtPosExp
<1>4. e \in Rational
  BY <1>1 DEF Fraction
<1>5. s \in {One, MinusOne}
  BY <1>3, <1>4, SignPowerFacts DEF MinusOne
<1> HIDE DEF b, e, f, s, n, t
<1>6. Fraction(n) /\ n.num = -b.num /\ n.den = b.den
  BY <1>1, NegativeFraction DEF n
<1>7. s \in Rational /\ s.num # 0
  BY <1>5, UnitFacts DEF Fraction
<1>8. Fraction(t) /\ t.num # 0
  BY <1>1, <1>7, ProductOfFractions DEF t
<1>9. b.num \in Int /\ n.num > 0
  <2>1. b.num \in Int
    BY <1>1, FractionFacts
  <2>2. QED
    BY <1>3, <1>6, <2>1
<1>10. FractionsKept(N)
  <2>1. n.num # 0
    BY <1>9
  <2>2. QED
    BY <1>1, <1>2, <1>6, <1>8, <2>1, NewPayload
<1>11. n \in {One, MinusOne} => b = MinusOne
  <2>1. b = MinusOne <=> b.num = -1 /\ b.den = 1
    BY <1>1, FractionFacts
  <2>2. n = One => n.num = 1 /\ n.den = 1
    BY UnitFacts
  <2>3. n = MinusOne => n.num = -1
    BY UnitFacts
  <2>4. QED
    BY <1>6, <1>9, <2>1, <2>2, <2>3
<1>12. e = One \/ n \in {One, MinusOne} => t \in {One, MinusOne}
  BY <1>3, <1>5, <1>11, UnitFacts DEF t
<1>13. n.num < 0 => IsInt(e)
  BY <1>3
<1>14. N.base = n /\ N.exp = e /\ N.preFactor = t
  BY <1>2
<1>15. AtPosExp(N)
  BY <1>3, <1>12, <1>13, <1>14 DEF AtPosExp
<1>16. QED
  BY <1>10, <1>15

LEMMA AbsPreFactorStep ==
    ASSUME NEW R, FractionsKept(R), AtPosExp(R), R.base.num >= 0,
           NEW N, N = [base |-> R.base, exp |-> R.exp,
                       preFactor |-> [R.preFactor EXCEPT !.num = AbsInt(@)]]
    PROVE  FractionsKept(N) /\ AtAllPos(N)
<1> DEFINE b == R.base
           e == R.exp
           f == R.preFactor
           a == [num |-> AbsInt(f.num), den |-> f.den]
<1>1. /\ R = [base |-> b, exp |-> e, preFactor |-> f]
      /\ Fraction(b) /\ Fraction(e) /\ Fraction(f) /\ b.num # 0 /\ f.num # 0
  BY DEF FractionsKept
<1>2. /\ e.num > 0 /\ b.num >= 0
      /\ (e = One \/ b \in {One, MinusOne} => f \in {One, MinusOne})
  BY DEF AtPosExp
<1>3. f = [num |-> f.num, den |-> f.den] /\ f.num \in Int /\ f.den \in Nat \ {0} /\ b.num \in Int
  BY <1>1, FractionFacts DEF Rational
<1>4. N = [base |-> b, exp |-> e, preFactor |-> a]
  <2>1. [f EXCEPT !.num = AbsInt(@)] = a
    BY <1>3
  <2>2. QED
    BY <2>1
<1> HIDE DEF b, e, f
<1>5. Fraction(a) /\ a.num > 0
  <2>1. AbsInt(f.num) \in Int /\ AbsInt(f.num) > 0 /\ AbsInt(AbsInt(f.num)) = AbsInt(f.num)
    BY <1>1, <1>3 DEF AbsInt
  <2>2. a \in Rational
    BY <1>3, <2>1 DEF Rational
  <2>3. InLowestTerms(f)
    BY <1>1, FractionFacts
  <2>4. QED
    BY <2>1, <2>2, <2>3 DEF InLowestTerms, Fraction
<1>6. f \in {One, MinusOne} => a = One
  <2>1. f \in {One, MinusOne} => f.num \in {1, -1} /\ f.den = 1
    BY UnitFacts
  <2>2. f \in {One, MinusOne} => a = [num |-> 1, den |-> 1]
    BY <2>1 DEF AbsInt
  <2>3. QED
    BY <2>2 DEF One, Whole
<1>7. a.num # 0 /\ b.num > 0
  BY <1>1, <1>2, <1>3, <1>5
<1> HIDE DEF a
<1>8. FractionsKept(N)
  BY <1>1, <1>4, <1>5, <1>7, NewPayload
<1>9. QED
  BY <1>2, <1>4, <1>5, <1>6, <1>7, <1>8 DEF AtAllPos

\* What is too large for prime factorization is not one, unless one is too large.
LEMMA SkipStep ==
    ASSUME NEW R, FractionsKept(R), AtAllPos(R),
           ~(\A q \in {R.base, R.preFactor} : AbsInt(q.num) <= MaxPrimeLimit /\ q.den <= MaxPrimeLimit)
    PROVE  AtGreater(R) /\ AtSignBack(R)
<1>1. /\ R.base.num > 0 /\ R.exp.num > 0 /\ R.preFactor.num > 0
      /\ R.exp = One \/ R.base = One => R.preFactor = One
  BY DEF AtAllPos
<1>2. MaxPrimeLimit \in Nat
  BY LimitAssumption
<1>3. MaxPrimeLimit > 0 => R.base # One
  <2>1. One.num = 1 /\ One.den = 1
    BY UnitFacts
  <2>2. MaxPrimeLimit > 0 => AbsInt(One.num) <= MaxPrimeLimit /\ One.den <= MaxPrimeLimit
    BY <1>2, <2>1 DEF AbsInt
  <2>3. QED
    BY <1>1, <2>2
<1>4. Resolved(R)
  BY <1>1, <1>3 DEF Resolved
<1>5. R.exp.num \in Int
  BY FractionFacts DEF FractionsKept
<1>6. QED
  BY <1>1, <1>4, <1>5 DEF AtGreater, AtSignBack

LEMMA DefPrimesStep ==
    ASSUME NEW R, FractionsKept(R), AtAllPos(R), NEW f, IsReduced(f)
    PROVE  LET inPower == ToThe(R.preFactor, Ratio(1, R.exp.num))
               movable == inPower # NotRational
               N == [base |-> R.base, exp |-> R.exp,
                     preFactor |-> IF movable THEN One ELSE R.preFactor]
           IN  /\ FractionsKept(N) /\ AtCancel(N)
               /\ IsReduced(Factorize(R.base))
               /\ IsReduced(IF movable THEN ToTheInt(Factorize(inPower), R.exp.den) ELSE f)
<1> DEFINE b == R.base
           e == R.exp
           g == R.preFactor
           inPower == ToThe(g, Ratio(1, e.num))
           movable == inPower # NotRational
           n == IF movable THEN One ELSE g
           N == [base |-> b, exp |-> e, preFactor |-> n]
<1>1. /\ Fraction(b) /\ Fraction(e) /\ Fraction(g) /\ b.num # 0 /\ g.num # 0
  BY DEF FractionsKept
<1>2. /\ b.num > 0 /\ e.num > 0 /\ g.num > 0
  BY DEF AtAllPos
<1>3. /\ b \in Rational /\ InLowestTerms(b)
      /\ e.num \in Int /\ e.den \in Nat \ {0}
      /\ g \in Rational /\ InLowestTerms(g)
  BY <1>1, FractionFacts
<1>4. e.num \in Nat \ {0}
  BY <1>2, <1>3
<1>5. /\ NotRational \notin Rational
      /\ inPower # NotRational => inPower \in Rational /\ InLowestTerms(inPower) /\ inPower.num > 0
      /\ e.num = 1 => inPower = g
  BY <1>2, <1>3, <1>4, RootFacts
<1> HIDE DEF b, e, g, inPower
<1>6. IsReduced(Factorize(b))
  BY <1>2, <1>3, FactorizeReduced
<1>7. IsReduced(IF movable THEN ToTheInt(Factorize(inPower), e.den) ELSE f)
  <2>1. CASE movable
    <3>1. IsReduced(Factorize(inPower))
      BY <1>5, <2>1, FactorizeReduced
    <3>2. e.den \in Int
      BY <1>3
    <3>3. IsReduced(ToTheInt(Factorize(inPower), e.den))
      BY <3>1, <3>2, ToTheIntReduced
    <3>4. QED
      BY <2>1, <3>3
  <2>2. CASE ~movable
    BY <2>2
  <2>3. QED
    BY <2>1, <2>2
<1>8. Fraction(n) /\ n.num # 0 /\ n.num > 0
  BY <1>1, <1>2, UnitFacts
<1>9. e.num = 1 => n = One
  BY <1>3, <1>5
<1> HIDE DEF n, movable
<1>10. FractionsKept(N)
  BY <1>1, <1>8, NewPayload
<1>11. N.base = b /\ N.exp = e /\ N.preFactor = n
  OBVIOUS
<1>12. AtCancel(N)
  BY <1>2, <1>8, <1>9, <1>11 DEF AtCancel
<1>13. QED
  BY <1>6, <1>7, <1>10, <1>12 DEF b, e, g, inPower, movable, n

LEMMA ExtractStep ==
    ASSUME NEW R, FractionsKept(R), AtCancel(R), NEW f, IsReduced(f)
    PROVE  LET N == [base |-> R.base, exp |-> R.exp,
                     preFactor |-> Times(R.preFactor, Eval(Extraction(f, R.exp)))]
           IN  /\ FractionsKept(N) /\ AtCollect(N, AfterExtraction(f, R.exp))
               /\ IsReduced(AfterExtraction(f, R.exp))
               /\ IsReduced(Extraction(f, R.exp))
<1> DEFINE b == R.base
           e == R.exp
           g == R.preFactor
           x == Extraction(f, e)
           a == AfterExtraction(f, e)
           n == Times(g, Eval(x))
           N == [base |-> b, exp |-> e, preFactor |-> n]
<1>1. /\ Fraction(b) /\ Fraction(e) /\ Fraction(g) /\ b.num # 0 /\ g.num # 0
  BY DEF FractionsKept
<1>2. /\ e.num > 0 /\ g.num > 0 /\ (e.num = 1 => g = One)
  BY DEF AtCancel
<1>3. e \in Rational
  BY <1>1, FractionFacts
<1>4. /\ IsReduced(x) /\ (e.den = 1 => x = NoFactors) /\ IsReduced(a)
      /\ e.den > 1 => NoRun(a.nums, e.den) /\ NoRun(a.dens, e.den)
  BY <1>3, ExtractionReduced
<1> HIDE DEF b, e, g, x, a
<1>5. Eval(x) \in Rational /\ Eval(x).num > 0
  BY <1>4, EvalFacts
<1>6. Fraction(n) /\ n.num > 0
  BY <1>1, <1>2, <1>5, ProductOfFractions
<1>7. e = One => n = One
  <2>1. e = One => e.num = 1 /\ e.den = 1
    BY UnitFacts
  <2>2. QED
    BY <1>2, <1>4, <2>1, EvalOfNone, UnitFacts
<1> HIDE DEF n
<1>8. n.num # 0
  BY <1>6
<1>9. FractionsKept(N)
  BY <1>1, <1>6, <1>8, NewPayload
<1>10. N.base = b /\ N.exp = e /\ N.preFactor = n
  OBVIOUS
<1>11. AtCollect(N, a)
  BY <1>2, <1>4, <1>6, <1>7, <1>10 DEF AtCollect
<1>12. QED
  BY <1>4, <1>9, <1>11 DEF b, e, g, x, a, n

LEMMA CollectStep ==
    ASSUME NEW R, NEW f, FractionsKept(R), IsReduced(f), AtCollect(R, f)
    PROVE  LET N == [base |-> R.base, exp |-> CollectedExp(f, R.exp), preFactor |-> R.preFactor]
           IN  /\ FractionsKept(N) /\ AtComponents(N, AfterCollection(f))
               /\ IsReduced(AfterCollection(f))
<1> DEFINE b == R.base
           e == R.exp
           g == R.preFactor
           c == CollectedExp(f, e)
           a == AfterCollection(f)
           N == [base |-> b, exp |-> c, preFactor |-> g]
<1>1. /\ Fraction(b) /\ Fraction(e) /\ Fraction(g) /\ b.num # 0 /\ g.num # 0
  BY DEF FractionsKept
<1>2. /\ e.num > 0 /\ g.num > 0 /\ (e = One => g = One)
      /\ e.den > 1 => NoRun(f.nums, e.den) /\ NoRun(f.dens, e.den)
  BY DEF AtCollect
<1>3. e \in Rational /\ InLowestTerms(e)
  BY <1>1, FractionFacts
<1>4. /\ IsReduced(a) /\ (a = NoFactors <=> f = NoFactors)
      /\ c \in Rational /\ InLowestTerms(c) /\ c.num > 0
      /\ f = NoFactors => c = One
      /\ c = One => f = NoFactors \/ e = One
  BY <1>2, <1>3, CollectionFacts
<1> HIDE DEF b, e, g, c, a
<1>5. Fraction(c)
  BY <1>4 DEF Fraction
<1>6. FractionsKept(N)
  BY <1>1, <1>5, NewPayload
<1>7. N.base = b /\ N.exp = c /\ N.preFactor = g
  OBVIOUS
<1>8. AtComponents(N, a)
  BY <1>2, <1>4, <1>7 DEF AtComponents
<1>9. QED
  BY <1>4, <1>6, <1>8 DEF b, e, g, c, a

LEMMA ComponentsStep ==
    ASSUME NEW R, NEW f, FractionsKept(R), IsReduced(f), AtComponents(R, f)
    PROVE  LET N == IF Eval(f) = One
                      THEN [base |-> R.preFactor, exp |-> R.exp, preFactor |-> One]
                      ELSE [base |-> Eval(f), exp |-> R.exp, preFactor |-> R.preFactor]
           IN  FractionsKept(N) /\ AtGreater(N)
<1> DEFINE e == R.exp
           g == R.preFactor
           v == Eval(f)
           M == [base |-> g, exp |-> e, preFactor |-> One]
           N == [base |-> v, exp |-> e, preFactor |-> g]
<1>1. /\ Fraction(e) /\ Fraction(g) /\ g.num # 0
  BY DEF FractionsKept
<1>2. /\ e.num > 0 /\ g.num > 0
      /\ e = One => g = One \/ f = NoFactors
      /\ f = NoFactors => e = One
  BY DEF AtComponents
<1>3. Fraction(v) /\ v.num > 0 /\ (v = One <=> f = NoFactors)
  BY EvalFacts, EvalOfNone DEF Fraction
<1> HIDE DEF e, g, v
<1>4. CASE v = One
  <2>1. FractionsKept(M)
    <3>1. Fraction(One) /\ One.num # 0
      BY UnitFacts
    <3>2. QED
      BY <1>1, <3>1, NewPayload
  <2>2. M.base = g /\ M.exp = e /\ M.preFactor = One /\ One.num > 0
    BY UnitFacts
  <2>3. AtGreater(M)
    BY <1>2, <1>3, <1>4, <2>2 DEF AtGreater, Resolved
  <2>4. QED
    BY <1>4, <2>1, <2>3 DEF e, g, v
<1>5. CASE v # One
  <2>1. FractionsKept(N)
    <3>1. v.num # 0
      BY <1>3
    <3>2. QED
      BY <1>1, <1>3, <3>1, NewPayload
  <2>2. N.base = v /\ N.exp = e /\ N.preFactor = g
    OBVIOUS
  <2>3. AtGreater(N)
    BY <1>2, <1>3, <1>5, <2>2 DEF AtGreater, Resolved
  <2>4. QED
    BY <1>5, <2>1, <2>3 DEF e, g, v
<1>6. QED
  BY <1>4, <1>5

LEMMA GreaterStep ==
    ASSUME NEW R, FractionsKept(R), AtGreater(R)
    PROVE  LET floor == R.exp.num \div R.exp.den
               N == [base |-> R.base, exp |-> MinusInt(R.exp, floor),
                     preFactor |-> Times(R.preFactor, ToThe(R.base, Whole(floor)))]
           IN  /\ AtSignBack(R)
               /\ GreaterThan(R.exp, 1) => FractionsKept(N) /\ AtSignBack(N)
<1> DEFINE b == R.base
           e == R.exp
           g == R.preFactor
           floor == e.num \div e.den
           x == MinusInt(e, floor)
           w == ToThe(b, Whole(floor))
           n == Times(g, w)
           N == [base |-> b, exp |-> x, preFactor |-> n]
<1>1. /\ Fraction(b) /\ Fraction(e) /\ Fraction(g) /\ b.num # 0 /\ g.num # 0
  BY DEF FractionsKept
<1>2. /\ b.num > 0 /\ e.num > 0 /\ g.num > 0
      /\ (e = One => g = One)
      /\ (MaxPrimeLimit > 0 /\ b = One => e = One)
  BY DEF AtGreater, Resolved
<1>3. e \in Rational /\ InLowestTerms(e) /\ b \in Rational /\ e.num \in Int /\ e.den \in Nat \ {0}
  BY <1>1, FractionFacts
<1>4. AtSignBack(R)
  BY <1>3 DEF AtGreater, AtSignBack
<1>5. /\ floor \in Nat
      /\ x \in Rational /\ InLowestTerms(x) /\ x.num >= 0 /\ x.num < x.den
  BY <1>2, <1>3, MinusFloorFacts
<1> HIDE DEF b, e, g, floor, x
<1>6. w \in Rational /\ w.num > 0
  BY <1>2, <1>3, <1>5, IntegerPowerFacts
<1> HIDE DEF w
<1>7. Fraction(n) /\ n.num > 0
  BY <1>1, <1>2, <1>6, ProductOfFractions
<1>8. Fraction(x) /\ x # One
  <2>1. One.num = 1 /\ One.den = 1
    BY UnitFacts
  <2>2. QED
    BY <1>5, <2>1 DEF Fraction
<1> HIDE DEF n
<1>9. FractionsKept(N)
  <2>1. n.num # 0
    BY <1>7
  <2>2. QED
    BY <1>1, <1>7, <1>8, <2>1, NewPayload
<1>10. N.base = b /\ N.exp = x /\ N.preFactor = n
  OBVIOUS
<1>11. GreaterThan(e, 1) => e # One
  <2>1. One.num = 1 /\ One.den = 1
    BY UnitFacts
  <2>2. QED
    BY <2>1 DEF GreaterThan
<1>12. GreaterThan(e, 1) => AtSignBack(N)
  BY <1>2, <1>5, <1>7, <1>8, <1>10, <1>11 DEF AtSignBack, Resolved
<1>13. QED
  BY <1>4, <1>9, <1>12 DEF b, e, g, floor, x, w, n

LEMMA SignBackStep ==
    ASSUME NEW R, FractionsKept(R), AtSignBack(R)
    PROVE  LET N == IF R.exp = One
                      THEN [base |-> Negative(R.base), exp |-> R.exp, preFactor |-> R.preFactor]
                      ELSE [base |-> R.base, exp |-> R.exp, preFactor |-> Negative(R.preFactor)]
           IN  /\ AtFinish(R) /\ AtSign(R)
               /\ FractionsKept(N) /\ AtFinish(N) /\ AtSign(N)
<1> DEFINE b == R.base
           e == R.exp
           g == R.preFactor
           c == Negative(b)
           h == Negative(g)
           M == [base |-> c, exp |-> e, preFactor |-> g]
           N == [base |-> b, exp |-> e, preFactor |-> h]
<1>1. /\ Fraction(b) /\ Fraction(e) /\ Fraction(g) /\ b.num # 0 /\ g.num # 0
  BY DEF FractionsKept
<1>2. /\ b.num > 0 /\ e.num >= 0 /\ g.num > 0
      /\ (e = One => g = One)
      /\ (MaxPrimeLimit > 0 /\ b = One => e = One)
  BY DEF AtSignBack, Resolved
<1>3. b.num \in Int /\ e.num \in Int /\ g.num \in Int
  BY <1>1, FractionFacts
<1>4. e # MinusOne /\ ~(b.num < 0)
  <2>1. MinusOne.num = -1
    BY UnitFacts
  <2>2. QED
    BY <1>2, <1>3, <2>1
<1>5. AtFinish(R) /\ AtSign(R)
  BY <1>2, <1>4 DEF AtFinish, AtSign, Signed, Resolved
<1> HIDE DEF b, e, g
<1>6. Fraction(c) /\ c.num < 0 /\ Fraction(h) /\ h.num # 0
  <2>1. Fraction(c) /\ c.num = -b.num /\ Fraction(h) /\ h.num = -g.num
    BY <1>1, NegativeFraction
  <2>2. QED
    BY <1>1, <1>2, <1>3, <2>1
<1> HIDE DEF c, h
<1>7. CASE e = One
  <2>1. c # One /\ c.num # 0
    BY <1>6, UnitFacts
  <2>2. FractionsKept(M)
    BY <1>1, <1>6, <2>1, NewPayload
  <2>3. M.base = c /\ M.exp = e /\ M.preFactor = g
    OBVIOUS
  <2>4. AtFinish(M) /\ AtSign(M)
    BY <1>2, <1>4, <1>7, <2>3 DEF AtFinish, AtSign, Signed, Resolved
  <2>5. QED
    BY <1>5, <1>7, <2>2, <2>4 DEF b, e, g, c
<1>8. CASE e # One
  <2>1. FractionsKept(N)
    BY <1>1, <1>6, NewPayload
  <2>2. N.base = b /\ N.exp = e /\ N.preFactor = h
    OBVIOUS
  <2>3. AtFinish(N) /\ AtSign(N)
    BY <1>2, <1>4, <1>8, <2>2 DEF AtFinish, AtSign, Signed, Resolved
  <2>4. QED
    BY <1>5, <1>8, <2>1, <2>3 DEF b, e, g, h
<1>9. QED
  BY <1>7, <1>8

LEMMA FinishStep ==
    ASSUME NEW R, FractionsKept(R), AtFinish(R)
    PROVE  LET N == [base |-> IF R.exp = One THEN Reciprocal(R.base) ELSE R.base,
                     exp |-> IF R.exp = One THEN R.exp ELSE Negative(R.exp),
                     preFactor |-> Reciprocal(R.preFactor)]
           IN  FractionsKept(N) /\ AtSign(N)
<1> DEFINE b == R.base
           e == R.exp
           g == R.preFactor
           c == IF e = One THEN Reciprocal(b) ELSE b
           x == IF e = One THEN e ELSE Negative(e)
           h == Reciprocal(g)
           N == [base |-> c, exp |-> x, preFactor |-> h]
<1>1. /\ Fraction(b) /\ Fraction(e) /\ Fraction(g) /\ b.num # 0 /\ g.num # 0
  BY DEF FractionsKept
<1>2. /\ e.num >= 0
      /\ (e = One => g = One)
      /\ (MaxPrimeLimit > 0 /\ b = One => e = One)
      /\ (b.num < 0 => e = One)
  BY DEF AtFinish, Signed, Resolved
<1>3. e.num \in Int /\ (e = One <=> e.num = 1 /\ e.den = 1)
  BY <1>1, FractionFacts
<1> HIDE DEF b, e, g
<1>4. Fraction(h) /\ h.num # 0
  BY <1>1, ReciprocalFraction
<1>5. Fraction(c) /\ c.num # 0
  BY <1>1, ReciprocalFraction
<1>6. Fraction(x) /\ (e # One => x.num = -e.num /\ x.den = e.den)
  BY <1>1, NegativeFraction
<1>7. x # MinusOne /\ (x = One => e = One)
  <2>1. One.num = 1 /\ One.den = 1 /\ MinusOne.num = -1 /\ MinusOne.den = 1
    BY UnitFacts
  <2>2. CASE e = One
    <3>1. x = One
      BY <2>2
    <3>2. QED
      BY <2>1, <2>2, <3>1
  <2>3. CASE e # One
    BY <1>2, <1>3, <1>6, <2>1, <2>3
  <2>4. QED
    BY <2>2, <2>3
<1>8. (x = One => h = One) /\ (e = One => x = One)
  BY <1>2, <1>7, UnitFacts
<1>9. /\ e # One => c = b
      /\ c.num < 0 => x = One
      /\ MaxPrimeLimit > 0 /\ c = One => x = One
  BY <1>2, <1>8
<1> HIDE DEF c, x, h
<1>10. FractionsKept(N)
  BY <1>4, <1>5, <1>6, NewPayload
<1>11. N.base = c /\ N.exp = x /\ N.preFactor = h
  OBVIOUS
<1>12. AtSign(N)
  BY <1>7, <1>8, <1>9, <1>11 DEF AtSign, Signed, Resolved
<1>13. QED
  BY <1>10, <1>12 DEF b, e, g, c, x, h

LEMMA SignStep ==
    ASSUME NEW R, FractionsKept(R), AtSign(R)
    PROVE  LET N == [base |-> Reciprocal(R.base), exp |-> Negative(R.exp), preFactor |-> R.preFactor]
               flipped == \/ R.base.num = 1 /\ R.exp # One
                          \/ R.exp.num < 0 /\ IsFraction(R.base)
           IN  /\ flipped => FractionsKept(N) /\ AtDone(N)
               /\ ~flipped => AtDone(R)
<1> DEFINE b == R.base
           e == R.exp
           g == R.preFactor
           c == Reciprocal(b)
           x == Negative(e)
           flipped == \/ b.num = 1 /\ e # One
                      \/ e.num < 0 /\ IsFraction(b)
           N == [base |-> c, exp |-> x, preFactor |-> g]
<1>1. /\ Fraction(b) /\ Fraction(e) /\ Fraction(g) /\ b.num # 0 /\ g.num # 0
  BY DEF FractionsKept
<1>2. /\ e # MinusOne
      /\ (e = One => g = One)
      /\ (MaxPrimeLimit > 0 /\ b = One => e = One)
      /\ (b.num < 0 => e = One)
  BY DEF AtSign, Signed, Resolved
<1>3. /\ e.num \in Int /\ (e = One <=> e.num = 1 /\ e.den = 1)
      /\ (e = MinusOne <=> e.num = -1 /\ e.den = 1)
      /\ b.num \in Int /\ (b = One <=> b.num = 1 /\ b.den = 1)
  BY <1>1, FractionFacts
<1>4. ~flipped => AtDone(R)
  BY DEF AtDone, IsFraction, IsInt
<1> HIDE DEF b, e, g
<1>5. ASSUME flipped PROVE FractionsKept(N) /\ AtDone(N)
  <2>1. e # One /\ b.num > 0
    <3>1. e # One
      BY <1>3, <1>5
    <3>2. QED
      BY <1>1, <1>2, <1>3, <3>1
  <2>2. Fraction(c) /\ c.num = b.den /\ c.den = b.num
    BY <1>1, <2>1, ReciprocalFraction
  <2>3. Fraction(x) /\ x.num = -e.num /\ x.den = e.den
    BY <1>1, NegativeFraction
  <2>4. b.den \in Nat \ {0}
    BY <1>1, FractionFacts
  <2>5. One.num = 1 /\ One.den = 1 /\ MinusOne.num = -1 /\ MinusOne.den = 1
    BY UnitFacts
  <2>6. x # One /\ x # MinusOne
    BY <1>2, <1>3, <2>1, <2>3, <2>5
  <2>7. MaxPrimeLimit > 0 => c # One
    <3>1. c = One => b = One
      BY <1>3, <2>2, <2>5
    <3>2. QED
      BY <1>2, <2>1, <3>1
  <2>8. x.num < 0 => IsInt(c)
    BY <1>3, <1>5, <2>2, <2>3 DEF IsInt
  <2>9. ~(c.num < 0) /\ c.num # 0
    BY <2>2, <2>4
  <2> HIDE DEF c, x
  <2>10. FractionsKept(N)
    BY <1>1, <2>2, <2>3, <2>9, NewPayload
  <2>11. N.base = c /\ N.exp = x /\ N.preFactor = g
    OBVIOUS
  <2>12. AtDone(N)
    BY <2>6, <2>7, <2>8, <2>9, <2>11 DEF AtDone, AtSign, Signed, Resolved
  <2>13. QED
    BY <2>10, <2>12
<1>6. QED
  BY <1>4, <1>5 DEF b, e, g, c, x

\* What is put together again is a power that starts like the first one.
LEMMA ReconstructStep ==
    ASSUME NEW R, FractionsKept(R), AtDone(R), ~(R.base.num < 0 /\ IsFraction(R.exp)),
           R.exp.num # 0, R.exp # One, R.base # One,
           NEW f, Fraction(f), f.num # 0,
           NEW N, N = [base |-> R.base, exp |-> R.exp, preFactor |-> f]
    PROVE  FractionsKept(N) /\ AtCompute(N) /\ N \in Payload
<1> DEFINE b == R.base
           e == R.exp
<1>1. /\ Fraction(b) /\ Fraction(e) /\ b.num # 0
  BY DEF FractionsKept
<1>2. e # MinusOne /\ (b.num < 0 => e = One)
  BY DEF AtDone, AtSign, Signed
<1>3. b # MinusOne
  BY <1>2, UnitFacts
<1>4. N.base = b /\ N.exp = e /\ N.preFactor = f
  OBVIOUS
<1>5. AtCompute(N)
  BY <1>2, <1>3, <1>4 DEF AtCompute
<1>6. FractionsKept(N) /\ N \in Payload
  <2>1. b \in Rational /\ e \in Rational /\ f \in Rational
    BY <1>1 DEF Fraction
  <2> HIDE DEF b, e
  <2>2. N = [base |-> b, exp |-> e, preFactor |-> f]
    BY DEF b, e
  <2>3. N \in Payload
    BY <2>1, <2>2 DEF Payload
  <2>4. FractionsKept(N)
    BY <1>1, <2>2, NewPayload
  <2>5. QED
    BY <2>3, <2>4
<1>7. QED
  BY <1>5, <1>6

-----------------------------------------------------------------------------
(* The invariant holds. *)

LEMMA InitKept ==
    Init => IInv
<1> SUFFICES ASSUME Init PROVE IInv
  OBVIOUS
<1>1. PICK p \in Powers : orig = [base |-> p[1], exp |-> p[2], preFactor |-> One]
  BY DEF Init
<1> DEFINE b == p[1]
           e == p[2]
<1>2. /\ b \in Rational /\ InLowestTerms(b) /\ b.num # 0 /\ b # One
      /\ e \in Rational /\ InLowestTerms(e) /\ e.num # 0 /\ e # One
  BY PowersAssumption
<1>3. orig = [base |-> b, exp |-> e, preFactor |-> One]
  BY <1>1
<1> HIDE DEF b, e
<1>4. Fraction(b) /\ Fraction(e) /\ Fraction(One) /\ One.num # 0 /\ One \in Rational
  BY <1>2, UnitFacts DEF Fraction
<1>5. FractionsKept(orig)
  BY <1>2, <1>3, <1>4, NewPayload
<1>6. orig \in Payload
  BY <1>2, <1>3, <1>4 DEF Payload
<1>7. orig.base = b /\ orig.exp = e /\ orig.preFactor = One
  BY <1>3
<1>8. AtCompute(orig)
  BY <1>2, <1>7 DEF AtCompute
<1>9. /\ result = orig /\ isPreFacNegative = FALSE /\ nbPrimes = NoFactors /\ pfPrimes = NoFactors
      /\ inverted = FALSE /\ simplified = FALSE /\ round = 1 /\ pc = "compute"
  BY DEF Init
<1>10. Kept
  BY <1>5, <1>6, <1>9, NoFactorsReduced DEF Kept
<1>11. Staged
  BY <1>8, <1>9 DEF Staged
<1>12. QED
  BY <1>10, <1>11 DEF IInv

\* A payload that is kept has the types of the model.
LEMMA PayloadFacts ==
    ASSUME NEW R, FractionsKept(R)
    PROVE  /\ R = [base |-> R.base, exp |-> R.exp, preFactor |-> R.preFactor]
           /\ R \in Payload
           /\ InLowestTerms(R.base) /\ InLowestTerms(R.exp) /\ InLowestTerms(R.preFactor)
<1>1. /\ R = [base |-> R.base, exp |-> R.exp, preFactor |-> R.preFactor]
      /\ Fraction(R.base) /\ Fraction(R.exp) /\ Fraction(R.preFactor)
  BY DEF FractionsKept
<1>2. R \in Payload
  BY <1>1 DEF Payload, Fraction
<1>3. QED
  BY <1>1, <1>2 DEF Fraction

LEMMA NextKept ==
    IInv /\ [Next]_vars => IInv'
<1> SUFFICES ASSUME IInv, [Next]_vars PROVE IInv'
  OBVIOUS
<1> DEFINE R == result
<1>0. /\ orig \in Payload
      /\ isPreFacNegative \in BOOLEAN /\ inverted \in BOOLEAN /\ simplified \in BOOLEAN
      /\ round \in Nat
      /\ FractionsKept(result) /\ IsReduced(nbPrimes) /\ IsReduced(pfPrimes)
      /\ R = [base |-> R.base, exp |-> R.exp, preFactor |-> R.preFactor]
  BY PayloadFacts DEF IInv, Kept
<1>1. CASE Reject
  <2>1. /\ pc = "compute" /\ ~IsInputValid /\ pc' = "done" /\ result' = result
        /\ UNCHANGED <<orig, isPreFacNegative, nbPrimes, pfPrimes, inverted, simplified, round>>
    BY <1>1 DEF Reject, Object
  <2>2. AtDone(result')
    BY <2>1 DEF AtDone, IsInputValid
  <2>3. Kept'
    BY <1>0, <2>1 DEF Kept
  <2>4. Staged'
    BY <2>1, <2>2 DEF Staged
  <2>5. QED
    BY <2>3, <2>4 DEF IInv
<1>2. CASE ComputeNegExp
  <2>1. /\ pc = "compute" /\ IsInputValid /\ result.exp.num < 0 /\ pc' = "computePosExp"
        /\ result' = [result EXCEPT !.exp = Negative(@), !.preFactor = Reciprocal(@)]
        /\ inverted' = TRUE
        /\ UNCHANGED <<orig, isPreFacNegative, nbPrimes, pfPrimes, simplified, round>>
    BY <1>2 DEF ComputeNegExp, Object
  <2>2. result' = [base |-> R.base, exp |-> Negative(R.exp), preFactor |-> Reciprocal(R.preFactor)]
    BY <1>0, <2>1
  <2>3. AtCompute(R) /\ (R.base.num < 0 => IsInt(R.exp))
    BY <2>1 DEF IInv, Staged, IsInputValid, IsFraction, IsInt
  <2>4. FractionsKept(result') /\ AtPosExp(result')
    BY <1>0, <2>1, <2>2, <2>3, NegExpStep
  <2>5. Kept'
    BY <1>0, <2>1, <2>4 DEF Kept
  <2>6. Staged'
    BY <2>1, <2>4 DEF Staged
  <2>7. QED
    BY <2>5, <2>6 DEF IInv
<1>3. CASE ComputePosExp
  <2>1. /\ pc = "compute" /\ IsInputValid /\ result.exp.num >= 0 /\ pc' = "computePosExp"
        /\ result' = result
        /\ UNCHANGED <<orig, isPreFacNegative, nbPrimes, pfPrimes, inverted, simplified, round>>
    BY <1>3 DEF ComputePosExp, Object
  <2>2. AtCompute(R) /\ (R.base.num < 0 => IsInt(R.exp))
    BY <2>1 DEF IInv, Staged, IsInputValid, IsFraction, IsInt
  <2>3. AtPosExp(result')
    BY <1>0, <2>1, <2>2, PosExpStep
  <2>4. Kept'
    BY <1>0, <2>1 DEF Kept
  <2>5. Staged'
    BY <2>1, <2>3 DEF Staged
  <2>6. QED
    BY <2>4, <2>5 DEF IInv
<1>4. CASE ShiftNegBase
  <2>1. /\ pc = "computePosExp" /\ result.base.num < 0 /\ pc' = pc
        /\ result' = [result EXCEPT !.base = Negative(@),
                                    !.preFactor = Times(@, ToThe(Whole(-1), result.exp))]
        /\ UNCHANGED <<orig, isPreFacNegative, nbPrimes, pfPrimes, inverted, simplified, round>>
    BY <1>4 DEF ShiftNegBase, Object
  <2>2. result' = [base |-> Negative(R.base), exp |-> R.exp,
                   preFactor |-> Times(R.preFactor, ToThe(Whole(-1), R.exp))]
    BY <1>0, <2>1
  <2>3. AtPosExp(R)
    BY <2>1 DEF IInv, Staged
  <2>4. FractionsKept(result') /\ AtPosExp(result')
    BY <1>0, <2>1, <2>2, <2>3, NegBaseStep
  <2>5. Kept'
    BY <1>0, <2>1, <2>4 DEF Kept
  <2>6. Staged'
    BY <2>1, <2>4 DEF Staged
  <2>7. QED
    BY <2>5, <2>6 DEF IInv
<1>5. CASE ComputePosExpPosBase
  <2>1. /\ pc = "computePosExp" /\ result.base.num >= 0 /\ pc' = "computeAllPos"
        /\ isPreFacNegative' = (result.preFactor.num < 0)
        /\ result' = [result EXCEPT !.preFactor.num = AbsInt(@)]
        /\ UNCHANGED <<orig, nbPrimes, pfPrimes, inverted, simplified, round>>
    BY <1>5 DEF ComputePosExpPosBase, Object
  <2>2. result' = [base |-> R.base, exp |-> R.exp,
                   preFactor |-> [R.preFactor EXCEPT !.num = AbsInt(@)]]
    BY <1>0, <2>1
  <2>3. AtPosExp(R)
    BY <2>1 DEF IInv, Staged
  <2>4. FractionsKept(result') /\ AtAllPos(result')
    BY <1>0, <2>1, <2>2, <2>3, AbsPreFactorStep
  <2>5. isPreFacNegative' \in BOOLEAN
    BY <2>1
  <2>6. Kept'
    BY <1>0, <2>1, <2>4, <2>5 DEF Kept
  <2>7. Staged'
    BY <2>1, <2>4 DEF Staged
  <2>8. QED
    BY <2>6, <2>7 DEF IInv
<1>6. CASE SkipCancel
  <2>1. /\ pc = "computeAllPos" /\ ~AreValuesSmallEnough /\ result' = result
        /\ pc' \in {"adjustExpGreaterThanOne", "shiftPreFacSignBack"}
        /\ UNCHANGED <<orig, isPreFacNegative, nbPrimes, pfPrimes, inverted, simplified, round>>
    BY <1>6 DEF SkipCancel, Object
  <2>2. AtAllPos(R)
    BY <2>1 DEF IInv, Staged
  <2>3. AtGreater(result') /\ AtSignBack(result')
    BY <1>0, <2>1, <2>2, SkipStep DEF AreValuesSmallEnough
  <2>4. Kept'
    BY <1>0, <2>1 DEF Kept
  <2>5. Staged'
    BY <2>1, <2>3 DEF Staged
  <2>6. QED
    BY <2>4, <2>5 DEF IInv
<1>7. CASE DefPrimes
  <2> DEFINE inPower == ToThe(R.preFactor, Ratio(1, R.exp.num))
             movable == inPower # NotRational
  <2>1. /\ pc = "computeAllPos" /\ pc' = "cancelAndExtract"
        /\ nbPrimes' = Factorize(R.base)
        /\ pfPrimes' = IF movable THEN ToTheInt(Factorize(inPower), R.exp.den) ELSE pfPrimes
        /\ result' = IF movable THEN [R EXCEPT !.preFactor = One] ELSE R
        /\ UNCHANGED <<orig, isPreFacNegative, inverted, simplified, round>>
    BY <1>7 DEF DefPrimes, Object
  <2>2. AtAllPos(R)
    BY <2>1 DEF IInv, Staged
  <2> DEFINE N == [base |-> R.base, exp |-> R.exp,
                   preFactor |-> IF movable THEN One ELSE R.preFactor]
  <2>3. /\ FractionsKept(N) /\ AtCancel(N)
        /\ IsReduced(Factorize(R.base))
        /\ IsReduced(IF movable THEN ToTheInt(Factorize(inPower), R.exp.den) ELSE pfPrimes)
    BY <1>0, <2>2, DefPrimesStep
  <2> HIDE DEF movable
  <2>4. result' = N
    BY <1>0, <2>1
  <2> HIDE DEF inPower, N
  <2>5. FractionsKept(result') /\ AtCancel(result') /\ IsReduced(nbPrimes') /\ IsReduced(pfPrimes')
    BY <2>1, <2>3, <2>4
  <2>6. Kept'
    BY <1>0, <2>1, <2>5 DEF Kept
  <2>7. Staged'
    BY <2>1, <2>5 DEF Staged
  <2>8. QED
    BY <2>6, <2>7 DEF IInv
<1>8. CASE CancelAndExtract
  <2> DEFINE f == Multiply(nbPrimes, pfPrimes)
             x == Extraction(f, R.exp)
             a == AfterExtraction(f, R.exp)
  <2>1. /\ pc = "cancelAndExtract" /\ pc' = "collectPrimesInPower"
        /\ nbPrimes' = a /\ pfPrimes' = x
        /\ result' = [R EXCEPT !.preFactor = Times(@, Eval(x))]
        /\ UNCHANGED <<orig, isPreFacNegative, inverted, simplified, round>>
    BY <1>8 DEF CancelAndExtract, Object
  <2>2. AtCancel(R) /\ IsReduced(f)
    BY <1>0, <2>1, MultiplyReduced DEF IInv, Staged
  <2> HIDE DEF f
  <2> DEFINE N == [base |-> R.base, exp |-> R.exp, preFactor |-> Times(R.preFactor, Eval(x))]
  <2>3. FractionsKept(N) /\ AtCollect(N, a) /\ IsReduced(a) /\ IsReduced(x)
    BY <1>0, <2>2, ExtractStep
  <2> HIDE DEF x, a
  <2>4. result' = N
    BY <1>0, <2>1
  <2> HIDE DEF N
  <2>5. FractionsKept(result') /\ AtCollect(result', nbPrimes') /\ IsReduced(nbPrimes') /\ IsReduced(pfPrimes')
    BY <2>1, <2>3, <2>4
  <2>6. Kept'
    BY <1>0, <2>1, <2>5 DEF Kept
  <2>7. Staged'
    BY <2>1, <2>5 DEF Staged
  <2>8. QED
    BY <2>6, <2>7 DEF IInv
<1>9. CASE CollectPrimesInPower
  <2>1. /\ pc = "collectPrimesInPower" /\ pc' = "primesToComponents"
        /\ result' = [R EXCEPT !.exp = CollectedExp(nbPrimes, @)]
        /\ nbPrimes' = AfterCollection(nbPrimes)
        /\ UNCHANGED <<orig, isPreFacNegative, pfPrimes, inverted, simplified, round>>
    BY <1>9 DEF CollectPrimesInPower, Object
  <2>2. result' = [base |-> R.base, exp |-> CollectedExp(nbPrimes, R.exp), preFactor |-> R.preFactor]
    BY <1>0, <2>1
  <2>3. AtCollect(R, nbPrimes)
    BY <2>1 DEF IInv, Staged
  <2>4. FractionsKept(result') /\ AtComponents(result', nbPrimes') /\ IsReduced(nbPrimes')
    BY <1>0, <2>1, <2>2, <2>3, CollectStep
  <2>5. Kept'
    BY <1>0, <2>1, <2>4 DEF Kept
  <2>6. Staged'
    BY <2>1, <2>4 DEF Staged
  <2>7. QED
    BY <2>5, <2>6 DEF IInv
<1>10. CASE PrimesToComponents
  <2>1. /\ pc = "primesToComponents" /\ pc' = "adjustExpGreaterThanOne"
        /\ result' = IF Eval(nbPrimes) = One
                       THEN [R EXCEPT !.base = R.preFactor, !.preFactor = One]
                       ELSE [R EXCEPT !.base = Eval(nbPrimes)]
        /\ UNCHANGED <<orig, isPreFacNegative, nbPrimes, pfPrimes, inverted, simplified, round>>
    BY <1>10 DEF PrimesToComponents, Object
  <2>2. result' = IF Eval(nbPrimes) = One
                   THEN [base |-> R.preFactor, exp |-> R.exp, preFactor |-> One]
                   ELSE [base |-> Eval(nbPrimes), exp |-> R.exp, preFactor |-> R.preFactor]
    <3>1. CASE Eval(nbPrimes) = One
      <4>1. result' = [R EXCEPT !.base = R.preFactor, !.preFactor = One]
        BY <2>1, <3>1
      <4>2. result' = [base |-> R.preFactor, exp |-> R.exp, preFactor |-> One]
        BY <1>0, <4>1
      <4>3. QED
        BY <3>1, <4>2
    <3>2. CASE Eval(nbPrimes) # One
      <4>1. result' = [R EXCEPT !.base = Eval(nbPrimes)]
        BY <2>1, <3>2
      <4>2. result' = [base |-> Eval(nbPrimes), exp |-> R.exp, preFactor |-> R.preFactor]
        BY <1>0, <4>1
      <4>3. QED
        BY <3>2, <4>2
    <3>3. QED
      BY <3>1, <3>2
  <2>3. AtComponents(R, nbPrimes)
    BY <2>1 DEF IInv, Staged
  <2>4. FractionsKept(result') /\ AtGreater(result')
    BY <1>0, <2>2, <2>3, ComponentsStep
  <2>5. Kept'
    BY <1>0, <2>1, <2>4 DEF Kept
  <2>6. Staged'
    BY <2>1, <2>4 DEF Staged
  <2>7. QED
    BY <2>5, <2>6 DEF IInv
<1>11. CASE AdjustExpGreaterThanOne
  <2> DEFINE floor == R.exp.num \div R.exp.den
             N == [base |-> R.base, exp |-> MinusInt(R.exp, floor),
                   preFactor |-> Times(R.preFactor, ToThe(R.base, Whole(floor)))]
  <2>1. /\ pc = "adjustExpGreaterThanOne" /\ pc' = "shiftPreFacSignBack"
        /\ result' = IF GreaterThan(R.exp, 1)
                       THEN [R EXCEPT !.preFactor = Times(@, ToThe(R.base, Whole(floor))),
                                      !.exp = MinusInt(@, floor)]
                       ELSE R
        /\ UNCHANGED <<orig, isPreFacNegative, nbPrimes, pfPrimes, inverted, simplified, round>>
    BY <1>11 DEF AdjustExpGreaterThanOne, Object
  <2>2. AtGreater(R)
    BY <2>1 DEF IInv, Staged
  <2>3. AtSignBack(R) /\ (GreaterThan(R.exp, 1) => FractionsKept(N) /\ AtSignBack(N))
    BY <1>0, <2>2, GreaterStep
  <2> HIDE DEF floor
  <2>4. result' = IF GreaterThan(R.exp, 1) THEN N ELSE R
    <3>1. CASE GreaterThan(R.exp, 1)
      <4>1. result' = [R EXCEPT !.preFactor = Times(@, ToThe(R.base, Whole(floor))),
                                !.exp = MinusInt(@, floor)]
        BY <2>1, <3>1
      <4>2. result' = N
        BY <1>0, <4>1
      <4>3. QED
        BY <3>1, <4>2
    <3>2. QED
      BY <2>1, <3>1
  <2> HIDE DEF N
  <2>5. FractionsKept(result') /\ AtSignBack(result')
    BY <1>0, <2>3, <2>4
  <2>6. Kept'
    BY <1>0, <2>1, <2>5 DEF Kept
  <2>7. Staged'
    BY <2>1, <2>5 DEF Staged
  <2>8. QED
    BY <2>6, <2>7 DEF IInv
<1>12. CASE ShiftPreFacSignBack
  <2> DEFINE N == IF R.exp = One
                    THEN [base |-> Negative(R.base), exp |-> R.exp, preFactor |-> R.preFactor]
                    ELSE [base |-> R.base, exp |-> R.exp, preFactor |-> Negative(R.preFactor)]
  <2>1. /\ pc = "shiftPreFacSignBack" /\ pc' \in {"finishNegExp", "adjustExpSignAndBase"}
        /\ result' = IF ~isPreFacNegative THEN R
                     ELSE IF R.exp = One THEN [R EXCEPT !.base = Negative(@)]
                     ELSE [R EXCEPT !.preFactor = Negative(@)]
        /\ UNCHANGED <<orig, isPreFacNegative, nbPrimes, pfPrimes, inverted, simplified, round>>
    BY <1>12 DEF ShiftPreFacSignBack, Object
  <2>2. AtSignBack(R)
    BY <2>1 DEF IInv, Staged
  <2>3. AtFinish(R) /\ AtSign(R) /\ FractionsKept(N) /\ AtFinish(N) /\ AtSign(N)
    BY <1>0, <2>2, SignBackStep
  <2>4. result' = R \/ result' = N
    BY <1>0, <2>1
  <2> HIDE DEF N
  <2>5. FractionsKept(result') /\ AtFinish(result') /\ AtSign(result')
    BY <1>0, <2>3, <2>4
  <2>6. Kept'
    BY <1>0, <2>1, <2>5 DEF Kept
  <2>7. Staged'
    BY <2>1, <2>5 DEF Staged
  <2>8. QED
    BY <2>6, <2>7 DEF IInv
<1>13. CASE FinishNegExp
  <2> DEFINE N == [base |-> IF R.exp = One THEN Reciprocal(R.base) ELSE R.base,
                   exp |-> IF R.exp = One THEN R.exp ELSE Negative(R.exp),
                   preFactor |-> Reciprocal(R.preFactor)]
  <2>1. /\ pc = "finishNegExp" /\ pc' = "adjustExpSignAndBase"
        /\ result' = [R EXCEPT !.preFactor = Reciprocal(@),
                               !.base = IF R.exp = One THEN Reciprocal(@) ELSE @,
                               !.exp  = IF R.exp = One THEN @ ELSE Negative(@)]
        /\ UNCHANGED <<orig, isPreFacNegative, nbPrimes, pfPrimes, inverted, simplified, round>>
    BY <1>13 DEF FinishNegExp, Object
  <2>2. AtFinish(R)
    BY <2>1 DEF IInv, Staged
  <2>3. FractionsKept(N) /\ AtSign(N)
    BY <1>0, <2>2, FinishStep
  <2>4. result' = N
    BY <1>0, <2>1
  <2> HIDE DEF N
  <2>5. FractionsKept(result') /\ AtSign(result')
    BY <2>3, <2>4
  <2>6. Kept'
    BY <1>0, <2>1, <2>5 DEF Kept
  <2>7. Staged'
    BY <2>1, <2>5 DEF Staged
  <2>8. QED
    BY <2>6, <2>7 DEF IInv
<1>14. CASE AdjustExpSignAndBase
  <2> DEFINE N == [base |-> Reciprocal(R.base), exp |-> Negative(R.exp), preFactor |-> R.preFactor]
             flipped == \/ R.base.num = 1 /\ R.exp # One
                        \/ R.exp.num < 0 /\ IsFraction(R.base)
  <2>1. /\ pc = "adjustExpSignAndBase" /\ pc' = "done"
        /\ result' = IF flipped THEN [R EXCEPT !.base = Reciprocal(@), !.exp = Negative(@)] ELSE R
        /\ UNCHANGED <<orig, isPreFacNegative, nbPrimes, pfPrimes, inverted, simplified, round>>
    BY <1>14 DEF AdjustExpSignAndBase, Object
  <2>2. AtSign(R)
    BY <2>1 DEF IInv, Staged
  <2>3. (flipped => FractionsKept(N) /\ AtDone(N)) /\ (~flipped => AtDone(R))
    BY <1>0, <2>2, SignStep
  <2> HIDE DEF flipped
  <2>4. result' = IF flipped THEN N ELSE R
    <3>1. CASE flipped
      <4>1. result' = [R EXCEPT !.base = Reciprocal(@), !.exp = Negative(@)]
        BY <2>1, <3>1
      <4>2. result' = N
        BY <1>0, <4>1
      <4>3. QED
        BY <3>1, <4>2
    <3>2. QED
      BY <2>1, <3>1
  <2> HIDE DEF N
  <2>5. FractionsKept(result') /\ AtDone(result')
    BY <1>0, <2>3, <2>4
  <2>6. Kept'
    BY <1>0, <2>1, <2>5 DEF Kept
  <2>7. Staged'
    BY <2>1, <2>5 DEF Staged
  <2>8. QED
    BY <2>6, <2>7 DEF IInv
<1>15. ASSUME NEW f, Fraction(f), f.num # 0, Reconstruct(f), simplified' \in BOOLEAN PROVE IInv'
  <2>1. /\ pc = "done" /\ StillPower /\ pc' = "compute"
        /\ orig' = [R EXCEPT !.preFactor = f] /\ result' = orig'
        /\ isPreFacNegative' = FALSE /\ nbPrimes' = NoFactors /\ pfPrimes' = NoFactors
        /\ inverted' = FALSE /\ round' = round + 1
    BY <1>15 DEF Reconstruct
  <2>2. AtDone(R)
    BY <2>1 DEF IInv, Staged
  <2>3. result' = [base |-> R.base, exp |-> R.exp, preFactor |-> f]
    BY <1>0, <2>1
  <2>4. /\ ~(R.base.num < 0 /\ IsFraction(R.exp))
        /\ R.exp.num # 0 /\ R.exp # One /\ R.base # One
    BY <2>1 DEF StillPower, IsInputValid
  <2>5. FractionsKept(result') /\ AtCompute(result') /\ result' \in Payload
    BY <1>0, <1>15, <2>2, <2>3, <2>4, ReconstructStep
  <2>6. round' \in Nat /\ orig' \in Payload /\ isPreFacNegative' \in BOOLEAN /\ inverted' \in BOOLEAN
    <3>1. round' \in Nat
      BY <1>0, <2>1
    <3>2. orig' \in Payload
      BY <2>1, <2>5
    <3>3. isPreFacNegative' \in BOOLEAN /\ inverted' \in BOOLEAN
      BY <2>1
    <3>4. QED
      BY <3>1, <3>2, <3>3
  <2>7. IsReduced(nbPrimes') /\ IsReduced(pfPrimes')
    BY <2>1, NoFactorsReduced
  <2>8. Kept'
    BY <1>15, <2>1, <2>5, <2>6, <2>7 DEF Kept
  <2>9. Staged'
    BY <2>1, <2>5 DEF Staged
  <2>10. QED
    BY <2>8, <2>9 DEF IInv
<1>16. CASE SimplifyAgain
  <2>1. PICK f \in {One, result.preFactor} : Reconstruct(f)
    BY <1>16 DEF SimplifyAgain
  <2>2. Fraction(f) /\ f.num # 0
    BY <1>0, UnitFacts DEF FractionsKept
  <2>3. simplified' \in BOOLEAN
    BY <1>16 DEF SimplifyAgain
  <2>4. QED
    BY <1>15, <2>1, <2>2, <2>3
<1>17. CASE SimplNumAndNumPow
  <2>1. PICK q \in Factors : Reconstruct(Times(result.preFactor, q))
    BY <1>17 DEF SimplNumAndNumPow
  <2>2. q \in Rational /\ q.num # 0
    BY PowersAssumption
  <2>3. Fraction(Times(result.preFactor, q)) /\ Times(result.preFactor, q).num # 0
    BY <1>0, <2>2, ProductOfFractions DEF FractionsKept
  <2>4. simplified' \in BOOLEAN
    BY <1>17 DEF SimplNumAndNumPow
  <2>5. QED
    BY <1>15, <2>1, <2>3, <2>4
<1>18. CASE UNCHANGED vars
  BY <1>18 DEF IInv, Kept, Staged, vars
<1>19. QED
  BY <1>1, <1>2, <1>3, <1>4, <1>5, <1>6, <1>7, <1>8, <1>9, <1>10, <1>11, <1>12, <1>13, <1>14,
     <1>16, <1>17, <1>18 DEF Next

LEMMA SpecKept == Spec => []IInv
<1>1. QED
  BY InitKept, NextKept, PTL DEF Spec

\* Every fraction the class works on is in lowest terms, and the vectors of primes are in
\* ascending order and without common primes whenever an algorithm runs along them: what
\* the iterators of primefac.cpp rely on, for all powers and prime limits.
THEOREM NumPowerTypes == Spec => []TypeOK
<1>1. ASSUME IInv PROVE TypeOK
  <2>1. Kept
    BY <1>1 DEF IInv
  <2>2. /\ result \in Payload
        /\ InLowestTerms(result.base) /\ InLowestTerms(result.exp) /\ InLowestTerms(result.preFactor)
    BY <2>1, PayloadFacts DEF Kept
  <2>3. nbPrimes \in Factorization /\ pfPrimes \in Factorization /\ FactorsReduced
    BY <2>1, ReducedFacts DEF Kept, FactorsReduced
  <2>4. QED
    BY <2>1, <2>2, <2>3 DEF Kept, TypeOK
<1>2. QED
  BY <1>1, SpecKept, PTL

\* What reaches prime factorization is positive, for all powers, factors and limits: the
\* comment at numpowersimpl.cpp:151-152, on which the loops of trial division rely.
THEOREM NumPowerFactorizesPositive == Spec => []PositiveWhenFactorized
<1>1. ASSUME IInv PROVE PositiveWhenFactorized
  BY <1>1 DEF IInv, Staged, AtAllPos, PositiveWhenFactorized
<1>2. QED
  BY <1>1, SpecKept, PTL

\* Whatever is simplified, the result has the form the class promises (numpowersimpl.h:16-30)
\* as long as one itself is not above the prime limit.
THEOREM NumPowerRepresentation ==
    ASSUME MaxPrimeLimit > 0
    PROVE  Spec => []Representation
<1>1. ASSUME IInv PROVE Representation
  <2> SUFFICES ASSUME pc = "done", IsInputValid
               PROVE  /\ result.base.num < 0 => result.exp = One
                      /\ result.exp.num < 0 => IsInt(result.base)
                      /\ result.exp = One => result.preFactor = One
                      /\ result.base = One => result.exp = One
    BY DEF Representation
  <2>1. AtDone(result)
    BY <1>1 DEF IInv, Staged
  <2>2. QED
    BY <2>1 DEF AtDone, AtSign, Signed, Resolved, IsInputValid
<1>2. QED
  BY <1>1, SpecKept, PTL

=============================================================================
