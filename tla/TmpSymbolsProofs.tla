-------------------------- MODULE TmpSymbolsProofs --------------------------
(***************************************************************************)
(* Proofs about TmpSymbols, for any set of instances and any bounds.       *)
(*                                                                         *)
(* The argument: an instance in use by a frame was named after the number  *)
(* of instances alive at its creation.  All of them were owned by the same *)
(* or by outer frames, or by none, and such instances are not destroyed    *)
(* before the frame returns.  So the counter never falls below a name in   *)
(* use, and the next name is larger than all of them.                      *)
(***************************************************************************)
EXTENDS TmpSymbols, FiniteSetTheorems, SequenceTheorems, TLAPS

(***************************************************************************)
(* What birth and death of instances do to Live and to the counter.        *)
(***************************************************************************)

\* createTmpSymbol: one more living instance, and the counter follows.
LEMMA Birth ==
    ASSUME TypeOK, Counted, NEW s \in Sym, id[s] = 0,
           tmpCounter' = tmpCounter + 1,
           id' = [id EXCEPT ![s] = tmpCounter + 1]
    PROVE  /\ Live' = Live \cup {s}
           /\ id' \in [Sym -> Nat]
           /\ tmpCounter' \in Nat
           /\ IsFiniteSet(Live')
           /\ tmpCounter' = Cardinality(Live')
<1>1. Live' = Live \cup {s}
  BY DEF TypeOK, Live
<1>2. s \notin Live
  BY DEF Live
<1>3. QED
  BY <1>1, <1>2, FS_AddElement DEF TypeOK, Counted

\* ~Symbol: the dead instances leave Live, and the counter follows.
LEMMA Death ==
    ASSUME TypeOK, Counted, NEW Dead \in SUBSET Live, Destroy(Dead)
    PROVE  /\ Live' = Live \ Dead
           /\ id' \in [Sym -> Nat]
           /\ \A s \in Live' : id'[s] = id[s]
           /\ \A s \in Sym : id'[s] = 0 <=> s \notin Live'
           /\ tmpCounter' \in Nat
           /\ IsFiniteSet(Live')
           /\ tmpCounter' = Cardinality(Live')
<1>1. /\ id' = [s \in Sym |-> IF s \in Dead THEN 0 ELSE id[s]]
      /\ tmpCounter' = tmpCounter - Cardinality(Dead)
  BY DEF Destroy
<1>2. Live' = Live \ Dead
  BY <1>1 DEF TypeOK, Live
<1>3. Live \cap Dead = Dead
  OBVIOUS
<1>4. /\ IsFiniteSet(Live')
      /\ Cardinality(Live') = Cardinality(Live) - Cardinality(Dead)
  BY <1>2, <1>3, FS_Difference DEF Counted
<1>5. tmpCounter' = Cardinality(Live') /\ tmpCounter' \in Nat
  BY <1>1, <1>4, FS_CardinalityType DEF Counted
<1>6. QED
  BY <1>1, <1>2, <1>4, <1>5 DEF TypeOK, Live

\* The elders of an instance are finitely many, so their number only grows with
\* the set of them.
LEMMA MoreElders ==
    ASSUME NEW S, NEW T, IsFiniteSet(T), S \subseteq T
    PROVE  Cardinality(S) <= Cardinality(T) /\ Cardinality(S) \in Nat
BY FS_Subset, FS_CardinalityType

(***************************************************************************)
(* One lemma per action: it preserves the inductive invariant.             *)
(***************************************************************************)

\* A caller requests a temporary, which belongs to no frame.
LEMMA CreateStep ==
    ASSUME IndInv, NEW s \in Sym, CreateWithReservedName(s)
    PROVE  IndInv'
<1>1. /\ TypeOK /\ Counted /\ References /\ Ordered
      /\ ~requested => Scoped
  BY DEF IndInv
<1>2. /\ depth = 0 /\ id[s] = 0 /\ Cardinality(held) < MaxHeld
      /\ id' = [id EXCEPT ![s] = tmpCounter + 1]
      /\ tmpCounter' = tmpCounter + 1
      /\ held' = held \cup {s}
      /\ UNCHANGED <<owner, rep, depth, kind, arg, work, cache>> /\ requested' = TRUE
  BY DEF CreateWithReservedName
<1>3. /\ Live' = Live \cup {s} /\ id' \in [Sym -> Nat] /\ tmpCounter' \in Nat
      /\ IsFiniteSet(Live') /\ tmpCounter' = Cardinality(Live')
  BY <1>1, <1>2, Birth
<1>4. TypeOK'
  BY <1>1, <1>2, <1>3 DEF TypeOK
<1>5. Counted'
  BY <1>1, <1>2, <1>3 DEF TypeOK, Counted
<1>6. Framed = {} /\ Framed' = {}
  BY <1>1, <1>2 DEF Counted, TypeOK, Framed, Live
<1>7. References'
  <2>1. \A d \in Frame : arg[d] \cup work[d] = {}
    BY <1>1, <1>2 DEF References, Frame
  <2>2. \A x \in Sym : rep[x] = {}
    BY <1>1, <1>6 DEF References, TypeOK
  <2>3. owner[s] = 0
    BY <1>1, <1>2 DEF Counted
  <2>4. Cached' \subseteq Live' /\ \A x \in held' : x \in Live' /\ owner'[x] = 0
    BY <1>1, <1>2, <1>3, <2>3 DEF References, Cached
  <2>5. QED
    BY <1>2, <2>1, <2>2, <2>4 DEF References
<1>8. Ordered'
  BY <1>6 DEF Ordered
<1>9. QED
  BY <1>2, <1>4, <1>5, <1>7, <1>8 DEF IndInv

\* A caller drops a temporary, which no frame mentions.
LEMMA DropStep ==
    ASSUME IndInv, NEW s \in Sym, Drop(s)
    PROVE  IndInv'
<1>1. /\ TypeOK /\ Counted /\ References /\ Ordered
      /\ ~requested => Scoped
  BY DEF IndInv
<1>2. /\ depth = 0 /\ s \in held
      /\ held' = held \ {s}
      /\ Destroy({s} \ Cached)
      /\ UNCHANGED <<owner, rep, depth, kind, arg, work, cache, requested>>
  BY DEF Drop
<1>3. {s} \ Cached \in SUBSET Live
  BY <1>1, <1>2 DEF References
<1>4. /\ Live' = Live \ ({s} \ Cached) /\ id' \in [Sym -> Nat]
      /\ tmpCounter' \in Nat
      /\ IsFiniteSet(Live') /\ tmpCounter' = Cardinality(Live')
  BY <1>1, <1>2, <1>3, Death
<1>5. TypeOK'
  BY <1>1, <1>2, <1>4 DEF TypeOK
<1>6. \A x \in Sym : owner[x] = 0
  BY <1>1, <1>2 DEF Counted, TypeOK
<1>7. Counted'
  BY <1>1, <1>2, <1>4, <1>6 DEF Counted
<1>8. Framed = {} /\ Framed' = {}
  BY <1>2, <1>6 DEF Framed, Live
<1>9. References'
  <2>1. Cached' \subseteq Live' /\ \A x \in held' : x \in Live' /\ owner'[x] = 0
    BY <1>1, <1>2, <1>4 DEF References, Cached
  <2>2. \A d \in Frame : arg[d] \cup work[d] = {}
    BY <1>1, <1>2 DEF References, Frame
  <2>3. \A x \in Sym : rep[x] = {}
    BY <1>1, <1>8 DEF References, TypeOK
  <2>4. QED
    BY <1>2, <2>1, <2>2, <2>3 DEF References
<1>10. Ordered'
  BY <1>8 DEF Ordered
<1>11. requested
  BY <1>1, <1>2 DEF Scoped
<1>12. QED
  BY <1>2, <1>5, <1>7, <1>9, <1>10, <1>11 DEF IndInv

\* Clearing the caches between two calls destroys what only they kept alive.
LEMMA ClearStep ==
    ASSUME IndInv, ClearRegisteredCaches
    PROVE  IndInv'
<1>1. /\ TypeOK /\ Counted /\ References /\ Ordered
      /\ ~requested => Scoped
  BY DEF IndInv
<1>2. /\ depth = 0 /\ cache' = {}
      /\ Destroy(Cached \ held)
      /\ UNCHANGED <<owner, rep, depth, kind, arg, work, held, requested>>
  BY DEF ClearRegisteredCaches
<1>3. Cached \ held \in SUBSET Live
  BY <1>1 DEF References
<1>4. /\ Live' = Live \ (Cached \ held) /\ id' \in [Sym -> Nat]
      /\ tmpCounter' \in Nat
      /\ IsFiniteSet(Live') /\ tmpCounter' = Cardinality(Live')
  BY <1>1, <1>2, <1>3, Death
<1>5. TypeOK'
  BY <1>1, <1>2, <1>4 DEF TypeOK
<1>6. \A x \in Sym : owner[x] = 0
  BY <1>1, <1>2 DEF Counted, TypeOK
<1>7. Counted'
  BY <1>1, <1>2, <1>4, <1>6 DEF Counted
<1>8. Framed = {} /\ Framed' = {}
  BY <1>2, <1>6 DEF Framed, Live
<1>9. /\ \A d \in Frame : arg[d] \cup work[d] = {}
      /\ \A x \in Sym : rep[x] = {}
  BY <1>1, <1>2, <1>8 DEF References, TypeOK, Frame
<1>10. References'
  BY <1>1, <1>2, <1>4, <1>9 DEF References, Cached
<1>11. Ordered'
  BY <1>8 DEF Ordered
<1>12. ~requested => Scoped'
  BY <1>1, <1>2, <1>8, <1>9 DEF Scoped
<1>13. QED
  BY <1>2, <1>5, <1>7, <1>10, <1>11, <1>12 DEF IndInv

\* What a frame may see: living instances, by name in scope.
LEMMA VisibleScope ==
    ASSUME IndInv, NEW x \in Visible
    PROVE  /\ x \in Live /\ owner[x] <= depth
           /\ ~requested => \E o \in Framed : owner[o] <= depth /\ id[o] = id[x]
<1>1. /\ TypeOK /\ Counted /\ References
      /\ ~requested => Scoped
  BY DEF IndInv
<1>2. CASE depth = 0
  <2>1. x \in held
    BY <1>2 DEF Visible
  <2>2. QED
    BY <1>1, <1>2, <2>1 DEF References, Counted, Scoped, Live
<1>3. CASE depth # 0
  <2>1. depth \in Frame /\ x \in work[depth]
    BY <1>1, <1>3 DEF Visible, TypeOK, Frame
  <2>2. x \in Live /\ owner[x] <= depth
    BY <1>1, <2>1 DEF References
  <2>3. ASSUME ~requested, id[x] \in Names(arg[depth])
        PROVE  \E o \in Framed : owner[o] <= depth /\ id[o] = id[x]
    <3>1. PICK a \in arg[depth] : id[a] = id[x]
      BY <2>3 DEF Names
    <3>2. PICK o \in Framed : owner[o] < depth /\ id[o] = id[a]
      BY <1>1, <2>1, <2>3 DEF Scoped
    <3>3. QED
      BY <1>1, <3>1, <3>2 DEF TypeOK, Framed, Live
  <2>4. ASSUME Matches(depth, x)
        PROVE  \E o \in Framed : owner[o] <= depth /\ id[o] = id[x]
    <3>1. PICK o \in Own(depth) : id[o] = id[x]
      BY <2>4 DEF Matches
    <3>2. depth \in Int /\ depth > 0
      BY <2>1, BoundsAssumption DEF Frame
    <3>3. o \in Framed /\ owner[o] <= depth
      BY <3>1, <3>2 DEF Own, Framed
    <3>4. QED
      BY <3>1, <3>3
  <2>5. QED
    BY <1>1, <2>1, <2>2, <2>3, <2>4 DEF Scoped
<1>4. QED
  BY <1>2, <1>3

\* A new frame starts without symbols of its own.
LEMMA EnterStep ==
    ASSUME IndInv, NEW K \in SUBSET Visible, NEW k \in Kind, Enter(k, K)
    PROVE  IndInv'
<1>1. /\ TypeOK /\ Counted /\ References /\ Ordered
      /\ ~requested => Scoped
  BY DEF IndInv
<1>2. /\ depth < MaxDepth /\ depth' = depth + 1
      /\ kind' = [kind EXCEPT ![depth + 1] = k]
      /\ arg'  = [arg EXCEPT ![depth + 1] = K]
      /\ work' = [work EXCEPT ![depth + 1] = K]
      /\ UNCHANGED <<tmpCounter, id, owner, rep, cache, held, requested>>
  BY DEF Enter
<1>3. /\ depth + 1 \in Frame
      /\ \A d \in Frame \ {depth + 1} : arg'[d] = arg[d] /\ work'[d] = work[d]
      /\ arg'[depth + 1] = K /\ work'[depth + 1] = K
  BY <1>1, <1>2, BoundsAssumption DEF TypeOK, Frame
<1>4. /\ Live' = Live /\ Framed' = Framed
      /\ \A d : Own(d)' = Own(d)
  BY <1>2 DEF Live, Framed, Own
<1>5. K \subseteq Sym
  BY VisibleScope DEF Live
<1>6. TypeOK'
  BY <1>1, <1>2, <1>5, BoundsAssumption DEF TypeOK, Frame
<1>7. Counted'
  BY <1>1, <1>2, <1>4 DEF TypeOK, Counted
<1>8. References'
  <2>1. \A d \in Frame : \A x \in arg'[d] \cup work'[d] :
          d <= depth' /\ x \in Live' /\ owner'[x] <= d
    <3> SUFFICES ASSUME NEW d \in Frame, NEW x \in arg'[d] \cup work'[d]
                 PROVE  d <= depth' /\ x \in Live' /\ owner'[x] <= d
      OBVIOUS
    <3>1. CASE d = depth + 1
      <4>1. x \in Visible
        BY <1>3, <3>1
      <4>2. x \in Live /\ owner[x] <= depth
        BY <4>1, VisibleScope
      <4>3. QED
        BY <1>1, <1>2, <1>4, <3>1, <4>2 DEF TypeOK, Live
    <3>2. CASE d # depth + 1
      <4>1. d <= depth /\ x \in Live /\ owner[x] <= d
        BY <1>1, <1>3, <3>2 DEF References
      <4>2. QED
        BY <1>1, <1>2, <1>4, <4>1 DEF TypeOK, Frame
    <3>3. QED
      BY <3>1, <3>2
  <2>2. \A d \in Frame : arg'[d] \subseteq work'[d]
    BY <1>1, <1>3 DEF References
  <2>3. \A d \in Frame : d > 1 => arg'[d] \subseteq work'[d - 1]
    <3> SUFFICES ASSUME NEW d \in Frame, d > 1
                 PROVE  arg'[d] \subseteq work'[d - 1]
      OBVIOUS
    <3>1. d - 1 \in Frame
      BY BoundsAssumption DEF Frame
    <3>2. CASE d = depth + 1
      <4>1. d - 1 = depth /\ depth # 0
        BY <1>1, <3>2 DEF TypeOK
      <4>2. arg'[d] \subseteq work[d - 1]
        BY <1>3, <3>2, <4>1 DEF Visible
      <4>3. depth # depth + 1
        BY <1>1 DEF TypeOK
      <4>4. QED
        BY <1>3, <3>1, <4>1, <4>2, <4>3
    <3>3. CASE d # depth + 1
      <4>1. CASE d - 1 = depth + 1
        <5>1. ~(d <= depth)
          BY <1>1, <4>1, BoundsAssumption DEF TypeOK, Frame
        <5>2. arg[d] = {}
          BY <1>1, <5>1 DEF References
        <5>3. QED
          BY <1>3, <3>3, <5>2
      <4>2. CASE d - 1 # depth + 1
        BY <1>1, <1>3, <3>1, <3>3, <4>2 DEF References
      <4>3. QED
        BY <4>1, <4>2
    <3>4. QED
      BY <3>2, <3>3
  <2>4. QED
    BY <1>1, <1>2, <1>4, <2>1, <2>2, <2>3 DEF References, Cached
<1>9. Ordered'
  BY <1>1, <1>2, <1>4 DEF Ordered, Elders
<1>10. ASSUME ~requested
       PROVE  Scoped'
  <2>1. Scoped
    BY <1>1, <1>10
  <2>2. \A d \in Frame : \A a \in arg'[d] :
          \E o \in Framed' : owner'[o] < d /\ id'[o] = id'[a]
    <3> SUFFICES ASSUME NEW d \in Frame, NEW a \in arg'[d]
                 PROVE  \E o \in Framed : owner[o] < d /\ id[o] = id[a]
      BY <1>2, <1>4
    <3>1. CASE d = depth + 1
      <4>1. PICK o \in Framed : owner[o] <= depth /\ id[o] = id[a]
        BY <1>3, <1>10, <3>1, VisibleScope
      <4>2. QED
        BY <1>1, <3>1, <4>1 DEF TypeOK, Framed, Live
    <3>2. CASE d # depth + 1
      BY <1>3, <2>1, <3>2 DEF Scoped
    <3>3. QED
      BY <3>1, <3>2
  <2>3. \A d \in Frame : \A w \in work'[d] :
          id'[w] \in Names(arg[d])' \/ Matches(d, w)'
    <3> SUFFICES ASSUME NEW d \in Frame, NEW w \in work'[d]
                 PROVE  id[w] \in {id[a] : a \in arg'[d]} \/ Matches(d, w)
      BY <1>2, <1>4 DEF Names, Matches
    <3>1. CASE d = depth + 1
      BY <1>3, <3>1
    <3>2. CASE d # depth + 1
      BY <1>3, <2>1, <3>2 DEF Scoped, Names
    <3>3. QED
      BY <3>1, <3>2
  <2>4. \A s \in Framed' : \A x \in rep'[s] :
           \/ id'[x] \in Names(arg[owner[s]])'
           \/ \E o \in Own(owner[s])' : id'[o] = id'[x] /\ id'[o] < id'[s]
    <3> SUFFICES ASSUME NEW s \in Framed, NEW x \in rep[s]
                 PROVE  \/ id[x] \in {id[a] : a \in arg'[owner[s]]}
                        \/ \E o \in Own(owner[s]) : id[o] = id[x] /\ id[o] < id[s]
      BY <1>2, <1>4 DEF Names
    <3>1. owner[s] \in Frame \ {depth + 1}
      BY <1>1 DEF Counted, TypeOK, Framed, Live, Frame
    <3>2. QED
      BY <1>3, <2>1, <3>1 DEF Scoped, Names
  <2>5. held' = {} /\ \A e \in cache' : Names(e.value)' \subseteq Names(e.key)'
    BY <1>2, <2>1 DEF Scoped, Names
  <2>6. QED
    BY <2>2, <2>3, <2>4, <2>5 DEF Scoped
<1>11. QED
  BY <1>2, <1>6, <1>7, <1>8, <1>9, <1>10 DEF IndInv

\* The name of a symbol in use never exceeds the counter.
LEMMA NamesBounded ==
    ASSUME TypeOK, Counted, Ordered, NEW t \in Framed
    PROVE  id[t] \in Nat /\ id[t] <= tmpCounter
<1>1. Elders(t) \subseteq Live
  BY DEF Elders
<1>2. Cardinality(Elders(t)) <= tmpCounter /\ Cardinality(Elders(t)) \in Nat
  BY <1>1, MoreElders DEF Counted
<1>3. QED
  BY <1>2 DEF Ordered, TypeOK, Framed, Live

\* A new symbol: its name exceeds the counter, hence all names in use.
LEMMA GetStep ==
    ASSUME IndInv, NEW s \in Sym, NEW K \in SUBSET work[depth],
           NewFrameSymbol(s, K)
    PROVE  IndInv'
<1>1. /\ TypeOK /\ Counted /\ References /\ Ordered
      /\ ~requested => Scoped
  BY DEF IndInv
<1>2. /\ depth > 0 /\ id[s] = 0
      /\ tmpCounter' = tmpCounter + 1
      /\ id'    = [id EXCEPT ![s] = tmpCounter + 1]
      /\ owner' = [owner EXCEPT ![s] = depth]
      /\ rep'   = [rep EXCEPT ![s] = K]
      /\ work'  = [work EXCEPT ![depth] = @ \cup {s}]
      /\ UNCHANGED <<depth, kind, arg, cache, held, requested>>
  BY DEF NewFrameSymbol
<1>3. /\ Live' = Live \cup {s} /\ id' \in [Sym -> Nat] /\ tmpCounter' \in Nat
      /\ IsFiniteSet(Live') /\ tmpCounter' = Cardinality(Live')
  BY <1>1, <1>2, Birth
<1>4. /\ depth \in Frame /\ depth \in Nat
      /\ s \notin Live /\ owner[s] = 0 /\ rep[s] = {}
      /\ K \subseteq Sym /\ K = work[depth] \cap K
  <2>1. depth \in Frame /\ depth \in Nat
    BY <1>1, <1>2, BoundsAssumption DEF TypeOK, Frame
  <2>2. s \notin Live /\ owner[s] = 0
    BY <1>1, <1>2 DEF Live, Counted
  <2>3. s \notin Framed
    BY <2>2 DEF Framed
  <2>4. K \subseteq Sym /\ K = work[depth] \cap K
    BY <1>1, <2>1 DEF TypeOK
  <2>5. QED
    BY <1>1, <2>1, <2>2, <2>3, <2>4 DEF References
<1>5. /\ \A x \in Live : x # s /\ id'[x] = id[x] /\ owner'[x] = owner[x] /\ rep'[x] = rep[x]
      /\ id'[s] = tmpCounter + 1 /\ owner'[s] = depth /\ rep'[s] = K
      /\ work'[depth] = work[depth] \cup {s}
      /\ \A d \in Frame \ {depth} : work'[d] = work[d]
  BY <1>1, <1>2, <1>4 DEF TypeOK, Live
<1>6. Framed' = Framed \cup {s}
  BY <1>2, <1>3, <1>4, <1>5 DEF Framed, Live
<1>7. TypeOK'
  BY <1>1, <1>2, <1>3, <1>4, BoundsAssumption DEF TypeOK, Frame
<1>8. Counted'
  BY <1>1, <1>2, <1>3, <1>4 DEF TypeOK, Counted
<1>9. References'
  <2>1. \A d \in Frame : \A x \in arg'[d] \cup work'[d] :
          d <= depth' /\ x \in Live' /\ owner'[x] <= d
    <3> SUFFICES ASSUME NEW d \in Frame, NEW x \in arg'[d] \cup work'[d]
                 PROVE  d <= depth' /\ x \in Live' /\ owner'[x] <= d
      OBVIOUS
    <3>1. CASE x \in arg[d] \cup work[d]
      BY <1>1, <1>2, <1>3, <1>5, <3>1 DEF References
    <3>2. CASE x \notin arg[d] \cup work[d]
      <4>1. x = s /\ d = depth
        BY <1>2, <1>5, <3>2
      <4>2. QED
        BY <1>2, <1>3, <1>4, <1>5, <4>1
    <3>3. QED
      BY <3>1, <3>2
  <2>2. \A t \in Sym : \A x \in rep'[t] :
          t \in Framed' /\ x \in Live' /\ owner'[x] <= owner'[t]
    <3> SUFFICES ASSUME NEW t \in Sym, NEW x \in rep'[t]
                 PROVE  t \in Framed' /\ x \in Live' /\ owner'[x] <= owner'[t]
      OBVIOUS
    <3>1. CASE t = s
      <4>1. x \in Live /\ owner[x] <= depth
        BY <1>1, <1>4, <1>5, <3>1 DEF References
      <4>2. QED
        BY <1>3, <1>5, <1>6, <3>1, <4>1
    <3>2. CASE t # s
      <4>1. x \in rep[t]
        BY <1>1, <1>2, <3>2 DEF TypeOK
      <4>2. t \in Framed /\ x \in Live /\ owner[x] <= owner[t]
        BY <1>1, <4>1 DEF References
      <4>3. QED
        BY <1>3, <1>5, <1>6, <4>2 DEF Framed
    <3>3. QED
      BY <3>1, <3>2
  <2>3. Cached' \subseteq Live' /\ \A x \in held' : x \in Live' /\ owner'[x] = 0
    BY <1>1, <1>2, <1>3, <1>5 DEF References, Cached
  <2>4. \A d \in Frame : arg'[d] \subseteq work'[d]
    BY <1>1, <1>2, <1>5 DEF References
  <2>5. \A d \in Frame : work[d] \subseteq work'[d]
    BY <1>5
  <2>6. \A d \in Frame : d > 1 => arg'[d] \subseteq work'[d - 1]
    <3> SUFFICES ASSUME NEW d \in Frame, d > 1
                 PROVE  arg'[d] \subseteq work'[d - 1]
      OBVIOUS
    <3>1. d - 1 \in Frame
      BY BoundsAssumption DEF Frame
    <3>2. QED
      BY <1>1, <1>2, <2>5, <3>1 DEF References
  <2>7. QED
    BY <2>1, <2>2, <2>3, <2>4, <2>6 DEF References
<1>10. Ordered'
  <2>1. \A t \in Framed : /\ id'[t] = id[t] /\ owner'[t] = owner[t]
                          /\ id'[t] \in Nat /\ id'[t] < id'[s]
                          /\ owner'[t] <= owner'[s]
    <3> TAKE t \in Framed
    <3>1. id[t] \in Nat /\ id[t] <= tmpCounter
      BY <1>1, NamesBounded
    <3>2. owner[t] <= depth /\ t \in Live
      BY <1>1 DEF Counted, Framed, Live
    <3>3. QED
      BY <1>1, <1>5, <3>1, <3>2 DEF TypeOK
  <2>2. \A t \in Framed' : id'[t] <= Cardinality(Elders(t)')
    <3> SUFFICES ASSUME NEW t \in Framed'
                 PROVE  id'[t] <= Cardinality(Elders(t)')
      OBVIOUS
    <3>1. Elders(t)' \subseteq Live'
      BY DEF Elders
    <3>2. CASE t = s
      <4>1. \A x \in Live' : owner'[x] <= owner'[s]
        BY <1>1, <1>3, <1>4, <1>5 DEF Counted, Live
      <4>2. Elders(t)' = Live'
        BY <3>2, <4>1 DEF Elders
      <4>3. QED
        BY <1>1, <1>2, <1>3, <1>5, <3>2, <4>2 DEF TypeOK
    <3>3. CASE t # s
      <4>1. t \in Framed
        BY <1>6, <3>3
      <4>2. Elders(t) \subseteq Elders(t)'
        BY <1>3, <1>5, <2>1, <4>1 DEF Elders
      <4>3. IsFiniteSet(Elders(t)')
        BY <1>3, <3>1, FS_Subset
      <4>4. /\ Cardinality(Elders(t)) <= Cardinality(Elders(t)')
            /\ Cardinality(Elders(t)) \in Nat
        BY <4>2, <4>3, MoreElders
      <4>5. Cardinality(Elders(t)') \in Nat
        BY <4>3, FS_CardinalityType
      <4>6. id[t] <= Cardinality(Elders(t))
        BY <1>1, <4>1 DEF Ordered
      <4>7. QED
        BY <2>1, <4>1, <4>4, <4>5, <4>6
    <3>4. QED
      BY <3>2, <3>3
  <2>3. \A t, u \in Framed' : owner'[t] < owner'[u] => id'[t] < id'[u]
    <3> SUFFICES ASSUME NEW t \in Framed', NEW u \in Framed', owner'[t] < owner'[u]
                 PROVE  id'[t] < id'[u]
      OBVIOUS
    <3>1. owner'[t] \in Int /\ owner'[u] \in Int
      BY <1>7 DEF TypeOK, Framed, Live
    <3>2. t \in Framed
      BY <1>6, <2>1, <3>1
    <3>3. CASE u = s
      BY <2>1, <3>2, <3>3
    <3>4. CASE u \in Framed
      BY <1>1, <2>1, <3>2, <3>4 DEF Ordered
    <3>5. QED
      BY <1>6, <3>3, <3>4
  <2>4. \A t, u \in Framed' : owner'[t] = owner'[u] /\ id'[t] = id'[u] => t = u
    <3> SUFFICES ASSUME NEW t \in Framed', NEW u \in Framed',
                        owner'[t] = owner'[u], id'[t] = id'[u]
                 PROVE  t = u
      OBVIOUS
    <3>1. CASE t \in Framed /\ u \in Framed
      BY <1>1, <2>1, <3>1 DEF Ordered
    <3>2. id'[s] \in Nat
      BY <1>1, <1>5 DEF TypeOK
    <3>3. QED
      BY <1>6, <2>1, <3>1, <3>2
  <2>5. QED
    BY <2>2, <2>3, <2>4 DEF Ordered
<1>11. ASSUME ~requested
       PROVE  Scoped'
  <2>1. Scoped
    BY <1>1, <1>11
  <2>2. \A x \in Cached \cup held : x \in Live
    BY <1>1 DEF References
  <2>3. \A d \in Frame : \A x \in arg[d] \cup work[d] : x \in Live /\ id'[x] = id[x]
    BY <1>1, <1>5 DEF References
  <2>4. /\ \A d \in Frame : Names(arg[d])' = Names(arg[d])
        /\ \A d : Own(d) \subseteq Own(d)'
    <3>1. \A d \in Frame : Names(arg[d])' = Names(arg[d])
      BY <1>2, <2>3 DEF Names
    <3>2. \A d : Own(d) \subseteq Own(d)'
      BY <1>3, <1>5 DEF Own
    <3>3. QED
      BY <3>1, <3>2
  <2>5. \A d \in Frame : \A a \in arg'[d] :
          \E o \in Framed' : owner'[o] < d /\ id'[o] = id'[a]
    <3> SUFFICES ASSUME NEW d \in Frame, NEW a \in arg[d]
                 PROVE  \E o \in Framed' : owner'[o] < d /\ id'[o] = id'[a]
      BY <1>2
    <3>1. PICK o \in Framed : owner[o] < d /\ id[o] = id[a]
      BY <2>1 DEF Scoped
    <3>2. QED
      BY <1>5, <1>6, <2>3, <3>1 DEF Framed
  <2>6. \A d \in Frame : \A w \in work'[d] :
          id'[w] \in Names(arg[d])' \/ Matches(d, w)'
    <3> SUFFICES ASSUME NEW d \in Frame, NEW w \in work'[d],
                        id'[w] \notin Names(arg[d])'
                 PROVE  \E o \in Own(d)' : id'[o] = id'[w]
      BY DEF Matches
    <3>1. CASE w \in work[d]
      <4>1. PICK o \in Own(d) : id[o] = id[w]
        BY <2>1, <2>3, <2>4, <3>1 DEF Scoped, Matches
      <4>2. QED
        BY <1>5, <2>3, <2>4, <3>1, <4>1 DEF Own
    <3>2. CASE w \notin work[d]
      <4>1. w = s /\ d = depth
        BY <1>5, <3>2
      <4>2. s \in Own(d)'
        BY <1>3, <1>5, <4>1 DEF Own
      <4>3. QED
        BY <4>1, <4>2
    <3>3. QED
      BY <3>1, <3>2
  <2>7. \A t \in Framed' : \A x \in rep'[t] :
           \/ id'[x] \in Names(arg[owner[t]])'
           \/ \E o \in Own(owner[t])' : id'[o] = id'[x] /\ id'[o] < id'[t]
    <3> SUFFICES ASSUME NEW t \in Framed', NEW x \in rep'[t],
                        id'[x] \notin Names(arg[owner[t]])'
                 PROVE  \E o \in Own(owner[t])' : id'[o] = id'[x] /\ id'[o] < id'[t]
      OBVIOUS
    <3>1. CASE t = s
      <4>1. x \in work[depth] /\ id'[x] = id[x]
        BY <1>4, <1>5, <2>3, <3>1
      <4>2. id[x] \notin Names(arg[depth])
        BY <1>4, <1>5, <2>4, <3>1, <4>1
      <4>3. PICK o \in Own(depth) : id[o] = id[x]
        BY <1>4, <2>1, <4>1, <4>2 DEF Scoped, Matches
      <4>4. o \in Framed /\ o \in Live
        BY <1>2, <4>3 DEF Own, Framed
      <4>5. id[o] <= tmpCounter /\ id[o] \in Nat
        BY <1>1, <4>4, NamesBounded
      <4>6. id'[o] = id'[x] /\ id'[o] < id'[t]
        BY <1>1, <1>5, <3>1, <4>1, <4>3, <4>4, <4>5 DEF TypeOK
      <4>7. QED
        BY <1>5, <2>4, <3>1, <4>3, <4>6
    <3>2. CASE t # s
      <4>1. /\ t \in Framed /\ x \in rep[t] /\ owner'[t] = owner[t]
            /\ id'[t] = id[t] /\ owner[t] \in Frame
        BY <1>1, <1>5, <1>6, <3>2 DEF Framed, Live, TypeOK, Frame
      <4>2. x \in Live /\ id'[x] = id[x]
        BY <1>1, <1>5, <4>1 DEF References, Framed, Live
      <4>3. id[x] \notin Names(arg[owner[t]])
        BY <2>4, <4>1, <4>2
      <4>4. PICK o \in Own(owner[t]) : id[o] = id[x] /\ id[o] < id[t]
        BY <2>1, <4>1, <4>3 DEF Scoped
      <4>5. o \in Live /\ id'[o] = id[o]
        BY <1>5, <4>4 DEF Own
      <4>6. QED
        BY <2>4, <4>1, <4>2, <4>4, <4>5
    <3>3. QED
      BY <3>1, <3>2
  <2>8. held' = {} /\ \A e \in cache' : Names(e.value)' \subseteq Names(e.key)'
    <3>1. \A e \in cache : \A x \in e.key \cup e.value : x \in Live /\ id'[x] = id[x]
      BY <1>5, <2>2 DEF Cached
    <3>2. \A e \in cache : /\ Names(e.value)' = Names(e.value)
                           /\ Names(e.key)' = Names(e.key)
      BY <3>1 DEF Names
    <3>3. QED
      BY <1>2, <2>1, <3>2 DEF Scoped
  <2>9. QED
    BY <2>5, <2>6, <2>7, <2>8 DEF Scoped
<1>12. QED
  BY <1>2, <1>7, <1>8, <1>9, <1>10, <1>11 DEF IndInv

\* A cache entry is added; its value only names what its key names.
LEMMA MissStep ==
    ASSUME IndInv, NEW K \in SUBSET Visible, NEW V \in SUBSET K, CacheMiss(K, V)
    PROVE  IndInv'
<1>1. /\ TypeOK /\ Counted /\ References /\ Ordered
      /\ ~requested => Scoped
  BY DEF IndInv
<1>2. /\ cache' = cache \cup {[key |-> K, value |-> V]}
      /\ UNCHANGED <<tmpCounter, id, owner, rep, depth, kind, arg, work, held, requested>>
  BY DEF CacheMiss
<1>3. Live' = Live /\ Framed' = Framed /\ \A d : Own(d)' = Own(d)
  BY <1>2 DEF Live, Framed, Own
<1>4. K \subseteq Live /\ V \subseteq Live
  BY VisibleScope
<1>5. TypeOK'
  <2>1. [key |-> K, value |-> V] \in Entry
    BY <1>4 DEF Entry, Live
  <2>2. QED
    BY <1>1, <1>2, <2>1 DEF TypeOK
<1>6. Counted'
  BY <1>1, <1>2, <1>3 DEF Counted
<1>7. References'
  <2>1. Cached' \subseteq Live'
    BY <1>1, <1>2, <1>3, <1>4 DEF References, Cached
  <2>2. QED
    BY <1>1, <1>2, <1>3, <2>1 DEF References
<1>8. Ordered'
  BY <1>1, <1>2, <1>3 DEF Ordered, Elders
<1>9. ASSUME ~requested
      PROVE  Scoped'
  <2>1. Scoped
    BY <1>1, <1>9
  <2>2. /\ id' = id /\ owner' = owner /\ rep' = rep /\ arg' = arg /\ work' = work
        /\ held' = held /\ cache' = cache \cup {[key |-> K, value |-> V]}
    BY <1>2
  <2>3. \A e \in cache' : Names(e.value)' \subseteq Names(e.key)'
    BY <2>1, <2>2 DEF Scoped, Names
  <2>4. QED
    BY <1>3, <2>1, <2>2, <2>3 DEF Scoped, Names, Matches
<1>10. QED
  BY <1>2, <1>5, <1>6, <1>7, <1>8, <1>9 DEF IndInv

\* A cached value only names what the present key names.
LEMMA HitStep ==
    ASSUME IndInv, NEW K \in SUBSET Visible, NEW e \in cache, CacheHit(K, e)
    PROVE  IndInv'
<1>1. /\ TypeOK /\ Counted /\ References /\ Ordered
      /\ ~requested => Scoped
  BY DEF IndInv
<1>2. /\ Names(e.key) = Names(K)
      /\ IF depth = 0
           THEN held' = held \cup e.value /\ UNCHANGED work
           ELSE work' = [work EXCEPT ![depth] = @ \cup e.value] /\ UNCHANGED held
      /\ UNCHANGED <<tmpCounter, id, owner, rep, depth, kind, arg, cache, requested>>
  BY DEF CacheHit
<1>3. Live' = Live /\ Framed' = Framed /\ \A d : Own(d)' = Own(d)
  BY <1>2 DEF Live, Framed, Own
<1>4. /\ e.value \subseteq Live /\ e.value \subseteq Sym
      /\ \A x \in e.value : owner[x] <= depth
  <2>1. e.value \subseteq Live
    BY <1>1 DEF References, Cached
  <2>2. QED
    BY <1>1, <2>1 DEF Counted, Live
<1>5. CASE depth = 0
  <2>1. held' = held \cup e.value /\ UNCHANGED work
    BY <1>2, <1>5
  <2>2. TypeOK'
    BY <1>1, <1>2, <1>4, <2>1 DEF TypeOK
  <2>3. Counted'
    BY <1>1, <1>2, <1>3 DEF Counted
  <2>4. References'
    <3>1. \A x \in e.value : x \in Live /\ owner[x] = 0
      BY <1>1, <1>4, <1>5 DEF TypeOK
    <3>2. \A x \in held' : x \in Live' /\ owner'[x] = 0
      BY <1>1, <1>2, <1>3, <2>1, <3>1 DEF References
    <3>3. Cached' \subseteq Live'
      BY <1>1, <1>2, <1>3 DEF References, Cached
    <3>4. QED
      BY <1>1, <1>2, <1>3, <2>1, <3>2, <3>3 DEF References
  <2>5. Ordered'
    BY <1>1, <1>2, <1>3 DEF Ordered, Elders
  <2>6. ASSUME ~requested
        PROVE  Scoped'
    <3>1. Scoped
      BY <1>1, <2>6
    <3>2. K = {}
      BY <1>5, <3>1 DEF Visible, Scoped
    <3>3. Names(e.value) = {}
      BY <1>2, <3>1, <3>2 DEF Scoped, Names
    <3>4. e.value = {}
      BY <3>3 DEF Names
    <3>5. QED
      BY <1>2, <1>3, <2>1, <3>1, <3>4 DEF Scoped, Names, Matches
  <2>7. QED
    BY <1>2, <2>2, <2>3, <2>4, <2>5, <2>6 DEF IndInv
<1>6. CASE depth # 0
  <2>1. work' = [work EXCEPT ![depth] = @ \cup e.value] /\ UNCHANGED held
    BY <1>2, <1>6
  <2>2. depth \in Frame /\ K \subseteq work[depth]
    BY <1>1, <1>6, BoundsAssumption DEF TypeOK, Frame, Visible
  <2>3. TypeOK'
    BY <1>1, <1>2, <1>4, <2>1, <2>2 DEF TypeOK
  <2>4. Counted'
    BY <1>1, <1>2, <1>3 DEF Counted
  <2>5. /\ work'[depth] = work[depth] \cup e.value
        /\ \A d \in Frame \ {depth} : work'[d] = work[d]
    BY <1>1, <2>1, <2>2 DEF TypeOK
  <2>6. References'
    <3>1. \A d \in Frame : \A x \in arg'[d] \cup work'[d] :
            d <= depth' /\ x \in Live' /\ owner'[x] <= d
      <4> SUFFICES ASSUME NEW d \in Frame, NEW x \in arg'[d] \cup work'[d]
                   PROVE  d <= depth /\ x \in Live /\ owner[x] <= d
        BY <1>2, <1>3
      <4>1. CASE x \in arg[d] \cup work[d]
        BY <1>1, <4>1 DEF References
      <4>2. CASE x \notin arg[d] \cup work[d]
        <5>1. d = depth /\ x \in e.value
          BY <1>2, <2>5, <4>2
        <5>2. depth <= depth
          BY <2>2, BoundsAssumption DEF Frame
        <5>3. QED
          BY <1>4, <5>1, <5>2
      <4>3. QED
        BY <4>1, <4>2
    <3>2. \A d \in Frame : work[d] \subseteq work'[d]
      BY <2>5
    <3>3. \A d \in Frame : arg'[d] \subseteq work'[d]
      BY <1>1, <1>2, <3>2 DEF References
    <3>4. \A d \in Frame : d > 1 => arg'[d] \subseteq work'[d - 1]
      <4> SUFFICES ASSUME NEW d \in Frame, d > 1
                   PROVE  arg'[d] \subseteq work'[d - 1]
        OBVIOUS
      <4>1. d - 1 \in Frame
        BY BoundsAssumption DEF Frame
      <4>2. QED
        BY <1>1, <1>2, <3>2, <4>1 DEF References
    <3>5. QED
      BY <1>1, <1>2, <1>3, <2>1, <3>1, <3>3, <3>4 DEF References, Cached
  <2>7. Ordered'
    BY <1>1, <1>2, <1>3 DEF Ordered, Elders
  <2>8. ASSUME ~requested
        PROVE  Scoped'
    <3>1. Scoped
      BY <1>1, <2>8
    <3>2. \A d \in Frame : \A w \in work'[d] :
            id[w] \in Names(arg[d]) \/ Matches(d, w)
      <4> SUFFICES ASSUME NEW d \in Frame, NEW w \in work'[d]
                   PROVE  id[w] \in Names(arg[d]) \/ Matches(d, w)
        OBVIOUS
      <4>1. CASE w \in work[d]
        BY <3>1, <4>1 DEF Scoped
      <4>2. CASE w \notin work[d]
        <5>1. d = depth /\ w \in e.value
          BY <2>5, <4>2
        <5>2. id[w] \in Names(K)
          BY <1>2, <3>1, <5>1 DEF Scoped, Names
        <5>3. PICK k \in work[depth] : id[k] = id[w]
          BY <2>2, <5>2 DEF Names
        <5>4. id[k] \in Names(arg[d]) \/ Matches(d, k)
          BY <2>2, <3>1, <5>1, <5>3 DEF Scoped
        <5>5. QED
          BY <5>3, <5>4 DEF Matches
      <4>3. QED
        BY <4>1, <4>2
    <3>3. /\ id' = id /\ arg' = arg /\ owner' = owner /\ rep' = rep
          /\ held' = held /\ cache' = cache
      BY <1>2, <2>1
    <3>4. \A d \in Frame : \A w \in work'[d] :
            id'[w] \in Names(arg[d])' \/ Matches(d, w)'
      BY <3>2, <3>3 DEF Names, Matches, Own, Live
    <3>5. /\ held' = {}
          /\ \A d \in Frame : \A a \in arg'[d] :
                \E o \in Framed' : owner'[o] < d /\ id'[o] = id'[a]
          /\ \A s \in Framed' : \A x \in rep'[s] :
                \/ id'[x] \in Names(arg[owner[s]])'
                \/ \E o \in Own(owner[s])' : id'[o] = id'[x] /\ id'[o] < id'[s]
      BY <1>3, <3>1, <3>3 DEF Scoped, Names, Own, Live
    <3>6. \A f \in cache' : Names(f.value)' \subseteq Names(f.key)'
      BY <3>1, <3>3 DEF Scoped, Names
    <3>7. QED
      BY <3>4, <3>5, <3>6 DEF Scoped
  <2>9. QED
    BY <1>2, <2>3, <2>4, <2>6, <2>7, <2>8 DEF IndInv
<1>7. QED
  BY <1>5, <1>6

\* Back-replacement leaves living symbols of outer frames or of none ...
LEMMA ReplacedBack ==
    ASSUME IndInv, NEW d \in Frame, d = depth, NEW F \in SUBSET work[d],
           NEW r \in ReplaceTmpSymbolsBackFrom(d, F)
    PROVE  r \in Live /\ owner[r] <= d - 1
<1>1. r \in Live /\ ~Matches(d, r)
  BY DEF ReplaceTmpSymbolsBackFrom, Reached
<1>2. owner[r] <= d /\ owner[r] # d
  BY <1>1 DEF IndInv, Counted, Matches, Own, Live
<1>3. owner[r] \in Int /\ d \in Int
  BY <1>1 DEF IndInv, TypeOK, Live
<1>4. QED
  BY <1>1, <1>2, <1>3

\* ... and, by name, only symbols of the argument of the frame.
LEMMA ReplacedBackNames ==
    ASSUME IndInv, ~requested, NEW d \in Frame, d = depth,
           NEW F \in SUBSET work[d],
           NEW r \in ReplaceTmpSymbolsBackFrom(d, F)
    PROVE  id[r] \in Names(arg[d])
<1> DEFINE T == {x \in Live : id[x] \in Names(arg[d]) \/ Matches(d, x)}
<1>1. Scoped /\ References
  BY DEF IndInv
<1>2. F \subseteq T
  BY <1>1 DEF Scoped, References
<1>3. ClosedUnder(d, T)
  <2> SUFFICES ASSUME NEW s \in T, NEW o \in Own(d), id[o] = id[s], NEW x \in rep[o]
               PROVE  x \in T
    BY DEF ClosedUnder
  <2>1. x \in Live
    BY <1>1 DEF References, Own, Live
  <2>2. o \in Framed /\ owner[o] = d
    BY BoundsAssumption DEF Own, Framed, Frame
  <2>3. id[x] \in Names(arg[d]) \/ Matches(d, x)
    BY <1>1, <2>2 DEF Scoped, Matches
  <2>4. QED
    BY <2>1, <2>3
<1>4. r \in Reached(d, F) /\ ~Matches(d, r)
  BY DEF ReplaceTmpSymbolsBackFrom
<1>5. r \in T
  BY <1>2, <1>3, <1>4 DEF Reached
<1>6. QED
  BY <1>4, <1>5

\* The symbols of the innermost frame die unless a cache mentions them; no outer frame
\* does.
LEMMA LeaveStep ==
    ASSUME IndInv, depth > 0, NEW F \in SUBSET work[depth], Leave(F)
    PROVE  IndInv'
<1> DEFINE d0     == depth
           result == ReplaceTmpSymbolsBackFrom(d0, F)
           entry  == [key |-> arg[d0], value |-> result]
           cache1 == IF kind[d0] = "normal" THEN cache \cup {entry} ELSE cache
           pinned == UNION {e.key \cup e.value : e \in cache1}
           Dead   == Own(d0) \ pinned
<1>1. /\ TypeOK /\ Counted /\ References /\ Ordered
      /\ ~requested => Scoped
  BY DEF IndInv
<1>2. /\ cache' = cache1
      /\ depth' = d0 - 1
      /\ owner' = [s \in Sym |-> IF owner[s] = d0 THEN 0 ELSE owner[s]]
      /\ rep'   = [s \in Sym |-> IF owner[s] = d0 THEN {} ELSE rep[s]]
      /\ Destroy(Dead)
      /\ work' = [d \in Frame |-> IF d = d0 THEN {}
                                  ELSE IF d = d0 - 1 THEN work[d] \cup result
                                  ELSE work[d]]
      /\ arg'  = [arg EXCEPT ![d0] = {}]
      /\ held' = IF d0 = 1 THEN held \cup result ELSE held
      /\ kind' = kind /\ requested' = requested
  BY DEF Leave
<1>3. d0 \in Frame /\ d0 \in Nat
  BY <1>1, BoundsAssumption DEF TypeOK, Frame
<1>4. Dead \in SUBSET Live
  BY DEF Own
<1>5. /\ Live' = Live \ Dead /\ id' \in [Sym -> Nat] /\ tmpCounter' \in Nat
      /\ \A s \in Live' : id'[s] = id[s]
      /\ \A s \in Sym : id'[s] = 0 <=> s \notin Live'
      /\ IsFiniteSet(Live') /\ tmpCounter' = Cardinality(Live')
  BY <1>1, <1>2, <1>4, Death
<1>6. \A r \in result : r \in Live /\ owner[r] <= d0 - 1
  BY <1>3, ReplacedBack
<1>7. \A s \in Live : owner[s] \in Nat /\ owner[s] <= d0
  BY <1>1 DEF Counted, TypeOK, Live
\* Whatever is not owned by the frame survives it, owner included.
<1>8. \A s \in Live : owner[s] # d0 => s \in Live' /\ owner'[s] = owner[s] /\ rep'[s] = rep[s]
  BY <1>2, <1>5 DEF Own, Live
<1>9. Framed' = {s \in Framed : owner[s] < d0}
  <2>1. \A s \in Framed : owner[s] < d0 => s \in Framed'
    BY <1>3, <1>7, <1>8 DEF Framed
  <2>2. \A s \in Framed' : s \in Framed /\ owner[s] < d0
    BY <1>2, <1>3, <1>5, <1>7 DEF Framed, Live
  <2>3. QED
    BY <2>1, <2>2
<1>10. \A d \in Frame \ {d0} : arg'[d] = arg[d] /\ work[d] \subseteq work'[d]
  BY <1>1, <1>2 DEF TypeOK
<1>11. TypeOK'
  <2>1. result \subseteq Sym
    BY <1>6 DEF Live
  <2>2. entry \in Entry
    BY <1>1, <1>3, <2>1 DEF TypeOK, Entry
  <2>3. cache' \in SUBSET Entry
    BY <1>1, <1>2, <2>2 DEF TypeOK
  <2>4. owner' \in [Sym -> 0 .. MaxDepth] /\ rep' \in [Sym -> SUBSET Sym]
    BY <1>1, <1>2, BoundsAssumption DEF TypeOK
  <2>5. /\ depth' \in 0 .. MaxDepth /\ kind' \in [Frame -> Kind]
        /\ arg' \in [Frame -> SUBSET Sym]
    BY <1>1, <1>2, <1>3, BoundsAssumption DEF TypeOK
  <2>6. work' \in [Frame -> SUBSET Sym] /\ held' \in SUBSET Sym
    BY <1>1, <1>2, <2>1 DEF TypeOK
  <2>7. requested' \in BOOLEAN
    BY <1>1, <1>2 DEF TypeOK
  <2>8. QED
    BY <1>5, <2>3, <2>4, <2>5, <2>6, <2>7 DEF TypeOK
<1>12. Counted'
  <2>1. \A s \in Sym : owner'[s] <= depth'
    <3> TAKE s \in Sym
    <3>1. owner[s] \in Nat /\ owner[s] <= d0
      BY <1>1 DEF Counted, TypeOK
    <3>2. QED
      BY <1>2, <1>3, <3>1
  <2>2. \A s \in Sym : id'[s] = 0 => owner'[s] = 0
    <3> SUFFICES ASSUME NEW s \in Sym, id'[s] = 0, owner[s] # d0
                 PROVE  owner[s] = 0
      BY <1>2
    <3>1. s \notin Live
      BY <1>5, <1>8
    <3>2. QED
      BY <1>1, <3>1 DEF Counted, Live
  <2>3. QED
    BY <1>5, <2>1, <2>2 DEF Counted
<1>13. Cached' \subseteq Live'
  <2>1. Cached' = pinned
    BY <1>2 DEF Cached
  <2>2. arg[d0] \subseteq Live /\ Cached \subseteq Live
    BY <1>1, <1>3 DEF References
  <2>3. pinned \subseteq Cached \cup arg[d0] \cup result
    BY DEF Cached
  <2>4. QED
    BY <1>5, <1>6, <2>1, <2>2, <2>3
<1>14. References'
  <2>1. \A x \in held' : x \in Live' /\ owner'[x] = 0
    <3> TAKE x \in held'
    <3>1. x \in Live /\ owner[x] = 0
      BY <1>1, <1>2, <1>6, <1>7 DEF References
    <3>2. QED
      BY <1>3, <1>8, <3>1
  <2>2. \A d \in Frame : \A x \in arg'[d] \cup work'[d] :
          d <= depth' /\ x \in Live' /\ owner'[x] <= d
    <3> SUFFICES ASSUME NEW d \in Frame, NEW x \in arg'[d] \cup work'[d]
                 PROVE  d <= depth' /\ x \in Live' /\ owner'[x] <= d
      OBVIOUS
    <3>1. d # d0 /\ d \in Nat
      BY <1>1, <1>2, BoundsAssumption DEF TypeOK, Frame
    <3>2. d <= d0 - 1 /\ x \in Live /\ owner[x] <= d
      <4>1. CASE x \in arg[d] \cup work[d]
        <5>1. d <= d0 /\ x \in Live /\ owner[x] <= d
          BY <1>1, <4>1 DEF References
        <5>2. QED
          BY <1>3, <3>1, <5>1
      <4>2. CASE x \notin arg[d] \cup work[d]
        <5>1. d = d0 - 1 /\ x \in result
          BY <1>2, <1>10, <3>1, <4>2
        <5>2. QED
          BY <1>3, <1>6, <5>1
      <4>3. QED
        BY <4>1, <4>2
    <3>3. owner[x] # d0
      BY <1>3, <1>7, <3>1, <3>2
    <3>4. QED
      BY <1>2, <1>8, <3>2, <3>3
  <2>3. \A d \in Frame : arg'[d] \subseteq work'[d]
    <3> TAKE d \in Frame
    <3>1. CASE d = d0
      BY <1>1, <1>2, <3>1 DEF TypeOK
    <3>2. CASE d # d0
      BY <1>1, <1>10, <3>2 DEF References
    <3>3. QED
      BY <3>1, <3>2
  <2>4. \A d \in Frame : d > 1 => arg'[d] \subseteq work'[d - 1]
    <3> SUFFICES ASSUME NEW d \in Frame, d > 1
                 PROVE  arg'[d] \subseteq work'[d - 1]
      OBVIOUS
    <3>1. d - 1 \in Frame
      BY BoundsAssumption DEF Frame
    <3>2. CASE d = d0
      BY <1>1, <1>2, <3>2 DEF TypeOK
    <3>3. CASE d # d0 /\ d - 1 # d0
      BY <1>1, <1>10, <3>1, <3>3 DEF References
    <3>4. CASE d - 1 = d0
      <4>1. ~(d <= d0) /\ d # d0
        BY <1>3, <3>4, BoundsAssumption DEF Frame
      <4>2. arg[d] = {}
        BY <1>1, <4>1 DEF References
      <4>3. QED
        BY <1>10, <4>1, <4>2
    <3>5. QED
      BY <3>2, <3>3, <3>4
  <2>5. \A s \in Sym : \A x \in rep'[s] :
          s \in Framed' /\ x \in Live' /\ owner'[x] <= owner'[s]
    <3> SUFFICES ASSUME NEW s \in Sym, NEW x \in rep'[s]
                 PROVE  s \in Framed' /\ x \in Live' /\ owner'[x] <= owner'[s]
      OBVIOUS
    <3>1. owner[s] # d0 /\ x \in rep[s]
      BY <1>2
    <3>2. s \in Framed /\ x \in Live /\ owner[x] <= owner[s]
      BY <1>1, <3>1 DEF References
    <3>3. s \in Live
      BY <3>2 DEF Framed
    <3>4. owner[s] < d0 /\ owner[s] # d0 /\ owner[x] # d0
      BY <1>3, <1>7, <3>1, <3>2, <3>3
    <3>5. /\ owner'[s] = owner[s] /\ owner'[x] = owner[x]
          /\ x \in Live' /\ s \in Framed'
      BY <1>8, <1>9, <3>2, <3>3, <3>4
    <3>6. QED
      BY <3>2, <3>5
  <2>6. QED
    BY <1>13, <2>1, <2>2, <2>3, <2>4, <2>5 DEF References
<1>15. \A t \in Framed' : t \in Framed /\ id'[t] = id[t] /\ owner'[t] = owner[t] /\ owner[t] < d0
  <2> TAKE t \in Framed'
  <2>1. t \in Framed /\ owner[t] < d0 /\ t \in Live
    BY <1>9 DEF Framed
  <2>2. owner[t] # d0
    BY <1>3, <1>7, <2>1
  <2>3. t \in Live' /\ owner'[t] = owner[t]
    BY <1>8, <2>1, <2>2
  <2>4. QED
    BY <1>5, <2>1, <2>3
<1>16. Ordered'
  <2>1. \A t \in Framed' : id'[t] <= Cardinality(Elders(t)')
    <3> TAKE t \in Framed'
    <3>1. Elders(t) \subseteq Elders(t)'
      <4> SUFFICES ASSUME NEW x \in Elders(t)
                   PROVE  x \in Elders(t)'
        OBVIOUS
      <4>1. x \in Live /\ owner[x] <= owner[t]
        BY DEF Elders
      <4>2. owner[t] < d0 /\ owner[t] \in Nat /\ owner'[t] = owner[t]
        BY <1>7, <1>15 DEF Framed
      <4>3. owner[x] # d0
        BY <1>3, <1>7, <4>1, <4>2
      <4>4. QED
        BY <1>8, <4>1, <4>2, <4>3 DEF Elders
    <3>2. IsFiniteSet(Elders(t)')
      <4>1. Elders(t)' \subseteq Live'
        BY DEF Elders
      <4>2. QED
        BY <1>5, <4>1, FS_Subset
    <3>3. /\ Cardinality(Elders(t)) <= Cardinality(Elders(t)')
          /\ Cardinality(Elders(t)) \in Nat
          /\ Cardinality(Elders(t)') \in Nat
      BY <3>1, <3>2, MoreElders, FS_CardinalityType
    <3>4. id[t] <= Cardinality(Elders(t)) /\ id[t] \in Nat
      BY <1>1, <1>15 DEF Ordered, TypeOK, Framed, Live
    <3>5. QED
      BY <1>15, <3>3, <3>4
  <2>2. /\ \A t, u \in Framed' : owner'[t] < owner'[u] => id'[t] < id'[u]
        /\ \A t, u \in Framed' : owner'[t] = owner'[u] /\ id'[t] = id'[u] => t = u
    BY <1>1, <1>15 DEF Ordered
  <2>3. QED
    BY <2>1, <2>2 DEF Ordered
<1>17. ASSUME ~requested
       PROVE  Scoped'
  <2>1. Scoped
    BY <1>1, <1>17
  <2>2. \A r \in result : id[r] \in Names(arg[d0])
    BY <1>3, <1>17, ReplacedBackNames
  <2>3. \A d \in Frame : \A x \in arg'[d] \cup work'[d] : x \in Live' /\ id'[x] = id[x]
    BY <1>5, <1>14 DEF References
  <2>4. \A d \in Frame \ {d0} : /\ Names(arg[d])' = Names(arg[d])
                                /\ \A o \in Own(d) : o \in Own(d)'
    <3> TAKE d \in Frame \ {d0}
    <3>1. Names(arg[d])' = Names(arg[d])
      BY <1>10, <2>3 DEF Names
    <3>2. \A o \in Own(d) : o \in Own(d)'
      BY <1>8 DEF Own
    <3>3. QED
      BY <3>1, <3>2
  <2>5. held' = {}
    <3>1. CASE d0 = 1
      <4>1. arg[d0] = {}
        <5> SUFFICES ASSUME NEW a \in arg[d0]
                     PROVE  FALSE
          OBVIOUS
        <5>1. PICK o \in Framed : owner[o] < d0
          BY <1>3, <2>1 DEF Scoped
        <5>2. QED
          BY <1>7, <3>1, <5>1 DEF Framed
      <4>2. result = {}
        BY <2>2, <4>1 DEF Names
      <4>3. QED
        BY <1>2, <2>1, <3>1, <4>2 DEF Scoped
    <3>2. CASE d0 # 1
      BY <1>2, <2>1, <3>2 DEF Scoped
    <3>3. QED
      BY <3>1, <3>2
  <2>6. \A d \in Frame : \A a \in arg'[d] :
          \E o \in Framed' : owner'[o] < d /\ id'[o] = id'[a]
    <3> TAKE d \in Frame
    <3> TAKE a \in arg'[d]
    <3>1. d # d0 /\ d <= d0 - 1 /\ d \in Nat
      BY <1>1, <1>2, <1>14, BoundsAssumption DEF References, TypeOK, Frame
    <3>2. a \in arg[d] /\ id'[a] = id[a]
      BY <1>10, <2>3, <3>1
    <3>3. PICK o \in Framed : owner[o] < d /\ id[o] = id[a]
      BY <2>1, <3>2 DEF Scoped
    <3>4. owner[o] < d0
      BY <1>3, <1>7, <3>1, <3>3 DEF Framed
    <3>5. o \in Framed'
      BY <1>9, <3>4
    <3>6. QED
      BY <1>15, <3>2, <3>3, <3>5
  <2>7. \A d \in Frame : \A w \in work'[d] :
          id'[w] \in Names(arg[d])' \/ Matches(d, w)'
    <3> TAKE d \in Frame
    <3> TAKE w \in work'[d]
    <3>1. d # d0 /\ id'[w] = id[w]
      BY <1>2, <2>3
    <3>2. \E v \in work[d] : id[v] = id[w]
      <4>1. CASE w \in work[d]
        BY <4>1
      <4>2. CASE w \notin work[d]
        <5>1. d = d0 - 1 /\ w \in result
          BY <1>2, <3>1, <4>2
        <5>2. PICK a \in arg[d0] : id[a] = id[w]
          BY <2>2, <5>1 DEF Names
        <5>3. d0 > 1
          BY <1>3, <5>1, BoundsAssumption DEF Frame
        <5>4. a \in work[d]
          BY <1>1, <1>3, <5>1, <5>3 DEF References
        <5>5. QED
          BY <5>2, <5>4
      <4>3. QED
        BY <4>1, <4>2
    <3>3. PICK v \in work[d] : id[v] = id[w]
      BY <3>2
    <3>4. CASE id[v] \in Names(arg[d])
      BY <2>4, <3>1, <3>3, <3>4
    <3>5. CASE Matches(d, v)
      <4>1. PICK o \in Own(d) : id[o] = id[v]
        BY <3>5 DEF Matches
      <4>2. o \in Own(d)'
        BY <2>4, <3>1
      <4>3. id'[o] = id[o]
        BY <1>5, <4>2 DEF Own
      <4>4. QED
        BY <3>1, <3>3, <4>1, <4>2, <4>3 DEF Matches
    <3>6. QED
      BY <2>1, <3>4, <3>5 DEF Scoped
  <2>8. \A s \in Framed' : \A x \in rep'[s] :
          \/ id'[x] \in Names(arg[owner[s]])'
          \/ \E o \in Own(owner[s])' : id'[o] = id'[x] /\ id'[o] < id'[s]
    <3> TAKE s \in Framed'
    <3> TAKE x \in rep'[s]
    <3>1. s \in Framed /\ id'[s] = id[s] /\ owner'[s] = owner[s] /\ owner[s] < d0
      BY <1>15
    <3>2. x \in Live' /\ id'[x] = id[x]
      BY <1>5, <1>14 DEF References, Framed, Live
    <3>3. x \in rep[s]
      BY <1>2, <3>1 DEF Framed, Live
    <3>4. owner[s] \in Frame \ {d0}
      BY <1>1, <1>3, <3>1, BoundsAssumption DEF TypeOK, Framed, Live, Frame
    <3>5. CASE id[x] \in Names(arg[owner[s]])
      BY <2>4, <3>1, <3>2, <3>4, <3>5
    <3>6. CASE \E o \in Own(owner[s]) : id[o] = id[x] /\ id[o] < id[s]
      <4>1. PICK o \in Own(owner[s]) : id[o] = id[x] /\ id[o] < id[s]
        BY <3>6
      <4>2. o \in Own(owner[s])'
        BY <2>4, <3>1, <3>4
      <4>3. id'[o] = id[o]
        BY <1>5, <4>2 DEF Own
      <4>4. QED
        BY <3>1, <3>2, <4>1, <4>2, <4>3
    <3>7. QED
      BY <2>1, <3>1, <3>3, <3>5, <3>6 DEF Scoped
  <2>9. \A e \in cache' : Names(e.value)' \subseteq Names(e.key)'
    <3> TAKE e \in cache'
    <3>1. \A x \in e.key \cup e.value : id'[x] = id[x]
      BY <1>5, <1>13 DEF Cached
    <3>2. Names(e.value) \subseteq Names(e.key)
      <4>1. CASE e = entry
        BY <2>2, <4>1 DEF Names
      <4>2. CASE e \in cache
        BY <2>1, <4>2 DEF Scoped
      <4>3. QED
        BY <1>2, <4>1, <4>2
    <3>3. QED
      BY <3>1, <3>2 DEF Names
  <2>10. QED
    BY <2>5, <2>6, <2>7, <2>8, <2>9 DEF Scoped
<1>18. QED
  BY <1>2, <1>11, <1>12, <1>14, <1>16, <1>17 DEF IndInv

-----------------------------------------------------------------------------
(* The invariant of the specification, and what follows from it. *)

\* At the start there are no symbols.
LEMMA InitInv == Init => IndInv
<1> SUFFICES ASSUME Init
             PROVE  IndInv
  OBVIOUS
<1>1. Live = {} /\ Framed = {} /\ Cached = {}
  BY DEF Init, Live, Framed, Cached
<1>2. TypeOK
  <2>1. requested \in BOOLEAN
    BY DEF Init
  <2>2. QED
    BY <2>1, BoundsAssumption DEF Init, TypeOK, Kind
<1>3. Counted
  BY <1>1, FS_EmptySet DEF Init, Counted
<1>4. References
  BY <1>1 DEF Init, References, Frame
<1>5. Ordered
  BY <1>1 DEF Ordered
<1>6. Scoped
  BY <1>1 DEF Init, Scoped, Frame
<1>7. QED
  BY <1>2, <1>3, <1>4, <1>5, <1>6 DEF IndInv

\* Every step keeps the invariant.
LEMMA StepInv == IndInv /\ [Next]_vars => IndInv'
<1> SUFFICES ASSUME IndInv, [Next]_vars
             PROVE  IndInv'
  OBVIOUS
<1>1. ASSUME NEW s \in Sym, CreateWithReservedName(s)
      PROVE  IndInv'
  BY <1>1, CreateStep
<1>2. ASSUME NEW s \in Sym, Drop(s)
      PROVE  IndInv'
  BY <1>2, DropStep
<1>3. CASE ClearRegisteredCaches
  BY <1>3, ClearStep
<1>4. ASSUME NEW K \in SUBSET Visible, NEW k \in Kind, Enter(k, K)
      PROVE  IndInv'
  BY <1>4, EnterStep
<1>5. ASSUME NEW K \in SUBSET Visible, NEW s \in Sym, depth > 0,
             GetTmpSymbolAndStore(s, K)
      PROVE  IndInv'
  <2>1. K \in SUBSET work[depth]
    BY <1>5 DEF Visible, IndInv, TypeOK
  <2>2. QED
    BY <1>5, <2>1, GetStep DEF GetTmpSymbolAndStore
<1>6. ASSUME NEW K \in SUBSET Visible, NEW V \in SUBSET K, CacheMiss(K, V)
      PROVE  IndInv'
  BY <1>6, MissStep
<1>7. ASSUME NEW K \in SUBSET Visible, NEW e \in cache, CacheHit(K, e)
      PROVE  IndInv'
  BY <1>7, HitStep
<1>8. ASSUME depth > 0, NEW s \in Sym, TrigSymbReplacement(s)
      PROVE  IndInv'
  <2>1. depth \in Frame
    BY <1>8, BoundsAssumption DEF IndInv, TypeOK, Frame
  <2>2. arg[depth] \in SUBSET work[depth]
    BY <2>1 DEF IndInv, References
  <2>3. QED
    BY <1>8, <2>2, GetStep DEF TrigSymbReplacement
<1>9. ASSUME depth > 0, NEW F \in SUBSET work[depth], Leave(F)
      PROVE  IndInv'
  BY <1>9, LeaveStep
<1>10. CASE UNCHANGED vars
  <2>1. /\ tmpCounter' = tmpCounter /\ id' = id /\ owner' = owner /\ rep' = rep
        /\ depth' = depth /\ kind' = kind /\ arg' = arg /\ work' = work
        /\ cache' = cache /\ held' = held /\ requested' = requested
    BY <1>10 DEF vars
  <2>2. Live' = Live
    BY <2>1 DEF Live
  <2>3. Framed' = Framed
    BY <2>1, <2>2 DEF Framed
  <2>4. TypeOK'
    BY <2>1 DEF IndInv, TypeOK
  <2>5. Counted'
    BY <2>1, <2>2 DEF IndInv, Counted
  <2>6. References'
    BY <2>1, <2>2, <2>3 DEF IndInv, References, Cached
  <2>7. Ordered'
    BY <2>1, <2>2, <2>3 DEF IndInv, Ordered, Elders
  <2>8. ASSUME ~requested
        PROVE  Scoped'
    <3>1. Scoped
      BY <2>8 DEF IndInv
    <3>2. QED
      BY <2>1, <2>2, <2>3, <3>1 DEF Scoped, Names, Matches, Own
  <2>9. QED
    BY <2>1, <2>4, <2>5, <2>6, <2>7, <2>8 DEF IndInv
<1>11. QED
  BY <1>1, <1>2, <1>3, <1>4, <1>5, <1>6, <1>7, <1>8, <1>9, <1>10 DEF Next

\* The inductive invariant holds in every reachable state.
THEOREM Invariance == Spec => []IndInv
<1>1. Init => IndInv
  BY InitInv
<1>2. IndInv /\ [Next]_vars => IndInv'
  BY StepInv
<1>3. QED
  BY <1>1, <1>2, PTL DEF Spec

\* Every variable of the model of Symbol, SymbolMap and the caches stays in its
\* domain: the counter, an unsigned, never falls below zero.
THEOREM TypeCorrect == Spec => []TypeOK
<1>1. IndInv => TypeOK
  BY DEF IndInv
<1>2. QED
  BY <1>1, Invariance, PTL

\* Symbol::tmpCounter is the number of living temporaries.
THEOREM CounterCorrect == Spec => []CounterCountsLiving
<1>1. IndInv => CounterCountsLiving
  BY DEF IndInv, Counted, CounterCountsLiving
<1>2. QED
  BY <1>1, Invariance, PTL

\* Two symbols in use by active frames never have the same name, although names
\* are reused and the caches keep an arbitrary part of the symbols alive.
THEOREM FrameSymbolsAreDistinct == Spec => []FrameSymbolsDistinct
<1>1. IndInv => FrameSymbolsDistinct
  <2> SUFFICES ASSUME IndInv, NEW s \in Framed, NEW t \in Framed, id[s] = id[t]
               PROVE  s = t
    BY DEF FrameSymbolsDistinct
  <2>1. Ordered /\ TypeOK
    BY DEF IndInv
  <2>2. id[s] \in Nat /\ owner[s] \in Int /\ owner[t] \in Int
    BY <2>1 DEF TypeOK, Framed, Live
  <2>3. ~(owner[s] < owner[t]) /\ ~(owner[t] < owner[s])
    BY <2>1, <2>2 DEF Ordered
  <2>4. owner[s] = owner[t]
    BY <2>2, <2>3
  <2>5. QED
    BY <2>1, <2>4 DEF Ordered
<1>2. QED
  BY <1>1, Invariance, PTL

\* Names in the argument of a frame belong to outer frames, whose names are smaller.
LEMMA ArgumentOlder ==
    ASSUME IndInv, ~requested, NEW d \in Frame, NEW a \in arg[d]
    PROVE  ~Matches(d, a)
<1>1. PICK o \in Framed : owner[o] < d /\ id[o] = id[a]
  BY DEF IndInv, Scoped
<1>2. SUFFICES ASSUME NEW p \in Own(d), id[p] = id[a]
               PROVE  FALSE
  BY DEF Matches
<1>3. p \in Framed /\ owner[p] = d
  BY BoundsAssumption DEF Own, Framed, Frame
<1>4. id[o] < id[p]
  BY <1>1, <1>3 DEF IndInv, Ordered
<1>5. id[o] \in Nat
  BY DEF IndInv, TypeOK, Framed, Live
<1>6. QED
  BY <1>1, <1>2, <1>4, <1>5

\* Without temporaries in the hands of the caller, back-replacement does not touch
\* the symbols of the expression that is normalized.
THEOREM ArgumentsAreUntouched == Spec => []ArgumentUntouched
<1>1. IndInv => ArgumentUntouched
  <2> SUFFICES ASSUME IndInv, ~requested, NEW d \in 1 .. depth, NEW a \in arg[d]
               PROVE  ~Matches(d, a)
    BY DEF ArgumentUntouched
  <2>1. d \in Frame
    BY BoundsAssumption DEF IndInv, TypeOK, Frame
  <2>2. QED
    BY <2>1, ArgumentOlder
<1>2. QED
  BY <1>1, Invariance, PTL

\* A placeholder in the expression another one stands for is the older of the two.
LEMMA PlaceholdersOlder ==
    ASSUME IndInv, ~requested, NEW s \in Framed, NEW x \in rep[s],
           Matches(owner[s], x)
    PROVE  id[x] < id[s]
<1>1. owner[s] \in Frame
  BY BoundsAssumption DEF IndInv, TypeOK, Framed, Live, Frame
<1>2. CASE id[x] \in Names(arg[owner[s]])
  <2>1. PICK a \in arg[owner[s]] : id[a] = id[x]
    BY <1>2 DEF Names
  <2>2. ~Matches(owner[s], a)
    BY <1>1, ArgumentOlder
  <2>3. QED
    BY <2>1, <2>2 DEF Matches
<1>3. CASE \E o \in Own(owner[s]) : id[o] = id[x] /\ id[o] < id[s]
  BY <1>3
<1>4. QED
  BY <1>2, <1>3 DEF IndInv, Scoped

\* The placeholders of a map form no cycle, so that the recursion of
\* SymbolMap::replaceTmpSymbolsBackFrom is well-founded.
THEOREM BackReplacementIsWellFounded == Spec => []BackReplacementTerminates
<1>1. IndInv => BackReplacementTerminates
  BY PlaceholdersOlder DEF BackReplacementTerminates
<1>2. QED
  BY <1>1, Invariance, PTL

\* Entries of the registered caches outlive the symbols they were made of, yet the
\* value of an entry only names what its key names.
THEOREM CachedValuesAreClosed == Spec => []CachedValuesClosed
<1>1. IndInv => CachedValuesClosed
  BY DEF IndInv, Scoped, CachedValuesClosed
<1>2. QED
  BY <1>1, Invariance, PTL

\* No result handed to the caller contains a temporary symbol.
THEOREM NoTemporaryInResults == Spec => []NoTemporaryEscapes
<1>1. IndInv => NoTemporaryEscapes
  BY DEF IndInv, Scoped, NoTemporaryEscapes
<1>2. QED
  BY <1>1, Invariance, PTL

\* A placeholder is substituted by the expression it stands for, in which nothing
\* is left to substitute.
LEMMA RestoredAtOnce ==
    ASSUME IndInv, ~requested, NEW s \in Framed,
           \A o \in Own(owner[s]) \ {s} : id[o] \notin Names(rep[s])
    PROVE  ReplaceTmpSymbolsBackFrom(owner[s], {s}) = rep[s]
<1> DEFINE d == owner[s]
           T0 == {s} \cup rep[s]
<1>1. TypeOK /\ References /\ Ordered
  BY DEF IndInv
<1>2. s \in Sym /\ s \in Own(d) /\ T0 \in SUBSET Live
  BY <1>1 DEF References, Framed, Live, Own
\* The older of two placeholders never mentions the younger one: not even itself.
<1>3. \A x \in rep[s] : ~Matches(d, x)
  <2> SUFFICES ASSUME NEW x \in rep[s], NEW o \in Own(d), id[o] = id[x]
               PROVE  FALSE
    BY DEF Matches
  <2>1. o = s
    BY DEF Names
  <2>2. id[x] < id[s] /\ id[x] = id[s]
    BY <2>1, PlaceholdersOlder DEF Matches
  <2>3. id[s] \in Nat
    BY <1>1, <1>2 DEF TypeOK
  <2>4. QED
    BY <2>2, <2>3
<1>4. ClosedUnder(d, T0)
  <2> SUFFICES ASSUME NEW x \in T0, NEW o \in Own(d), id[o] = id[x]
               PROVE  rep[o] \subseteq T0
    BY DEF ClosedUnder
  <2>1. x = s
    BY <1>3 DEF Matches
  <2>2. o \in Framed /\ owner[o] = owner[s]
    BY DEF Own, Framed
  <2>3. o = s
    BY <1>1, <2>1, <2>2 DEF Ordered
  <2>4. QED
    BY <2>3
<1>5. Reached(d, {s}) = T0
  <2>1. ASSUME NEW x \in Reached(d, {s})
        PROVE  x \in T0
    BY <1>2, <1>4 DEF Reached
  <2>2. ASSUME NEW x \in T0
        PROVE  x \in Reached(d, {s})
    <3> SUFFICES ASSUME NEW T \in SUBSET Live, {s} \subseteq T, ClosedUnder(d, T)
                 PROVE  x \in T
      BY <1>2 DEF Reached
    <3>1. rep[s] \subseteq T
      BY <1>2 DEF ClosedUnder
    <3>2. QED
      BY <3>1
  <2>3. QED
    BY <2>1, <2>2
<1>6. Matches(d, s)
  BY <1>2 DEF Matches
<1>7. QED
  BY <1>3, <1>5, <1>6 DEF ReplaceTmpSymbolsBackFrom

\* Substituting a symbol back gives the expression it was made for: what
\* testsymbolmap.cpp asserts for two symbols holds for every one in use.
THEOREM BackReplacementRestoresNames == Spec => []BackReplacementRestores
<1>1. IndInv => BackReplacementRestores
  BY RestoredAtOnce DEF BackReplacementRestores
<1>2. QED
  BY <1>1, Invariance, PTL

(***************************************************************************)
(* Proof that TmpSymbols implements FreshScopes, for any set of instances  *)
(* and any bounds, callers that hold temporaries included.                 *)
(*                                                                         *)
(* Between two calls no scope is open, so what the caller does is a        *)
(* stutter; so are the accesses to the caches, which create and destroy no *)
(* placeholder.  A new name exceeds the counter, hence every name in use;  *)
(* and what a returning frame destroys was owned by that frame.            *)
(***************************************************************************)

\* One set of names for each active frame.
ScopesOK ==
    /\ Scopes \in Seq(SUBSET Nat)
    /\ Len(Scopes) = depth
    /\ \A d \in 1 .. depth : Scopes[d] = Names(Own(d))

\* The scopes are a sequence of sets of names, one for each active frame.
LEMMA ScopesType == TypeOK => ScopesOK
<1> SUFFICES ASSUME TypeOK
             PROVE  ScopesOK
  OBVIOUS
<1>1. depth \in Nat
  BY DEF TypeOK
<1>2. \A d \in 1 .. depth : Names(Own(d)) \in SUBSET Nat
  BY DEF TypeOK, Names, Own, Live
<1>3. Scopes \in [1 .. depth -> SUBSET Nat]
  BY <1>2 DEF Scopes
<1>4. Scopes \in Seq(SUBSET Nat)
  BY <1>1, <1>3, SeqDef
<1>5. QED
  BY <1>1, <1>4, LenProperties DEF Scopes, ScopesOK

\* The same after a step.
LEMMA ScopesTypeNext == TypeOK' => ScopesOK'
BY ScopesType, PTL

\* A step that leaves the frames and their symbols alone is a stutter.
LEMMA SameScopes ==
    ASSUME UNCHANGED <<depth, id, owner>>
    PROVE  Scopes' = Scopes
BY DEF Scopes, Names, Own, Live

\* Outside the library no scope is open.
LEMMA NoScopes ==
    ASSUME depth = 0, depth' = 0
    PROVE  Scopes' = Scopes
BY DEF Scopes

\* A frame starts with an empty scope.
LEMMA EnterOpens ==
    ASSUME IndInv, IndInv', NEW K, NEW k, Enter(k, K)
    PROVE  Fresh!Open
<1>1. TypeOK /\ TypeOK' /\ Counted
  BY DEF IndInv
<1>2. depth \in Nat /\ depth' = depth + 1 /\ UNCHANGED <<id, owner>>
  BY <1>1 DEF TypeOK, Enter
<1>3. \A d : Names(Own(d))' = Names(Own(d))
  BY <1>2 DEF Names, Own, Live
<1>4. Names(Own(depth + 1)) = {}
  <2>1. \A s \in Sym : owner[s] # depth + 1
    BY <1>1 DEF Counted, TypeOK
  <2>2. QED
    BY <2>1 DEF Names, Own, Live
<1>5. /\ Append(Scopes, {}) \in Seq(SUBSET Nat)
      /\ Len(Append(Scopes, {})) = depth + 1
      /\ \A d \in 1 .. depth : Append(Scopes, {})[d] = Scopes[d]
      /\ Append(Scopes, {})[depth + 1] = {}
  <2>1. {} \in SUBSET Nat
    OBVIOUS
  <2>2. QED
    BY <1>1, <2>1, ScopesType, AppendProperties DEF ScopesOK
<1>6. /\ Scopes' \in Seq(SUBSET Nat)
      /\ Len(Scopes') = depth + 1
      /\ \A d \in 1 .. depth + 1 : Scopes'[d] = Names(Own(d))
  <2>1. /\ Scopes' \in Seq(SUBSET Nat) /\ Len(Scopes') = depth'
        /\ \A d \in 1 .. depth' : Scopes'[d] = Names(Own(d))'
    BY <1>1, ScopesTypeNext DEF ScopesOK
  <2>2. QED
    BY <1>2, <1>3, <2>1
<1>7. \A d \in 1 .. depth + 1 : Scopes'[d] = Append(Scopes, {})[d]
  <2> TAKE d \in 1 .. depth + 1
  <2>1. CASE d = depth + 1
    BY <1>4, <1>5, <1>6, <2>1
  <2>2. CASE d \in 1 .. depth
    BY <1>1, <1>5, <1>6, <2>2, ScopesType DEF ScopesOK
  <2>3. d = depth + 1 \/ d \in 1 .. depth
    BY <1>2
  <2>4. QED
    BY <2>1, <2>2, <2>3
<1>8. Scopes' = Append(Scopes, {})
  BY <1>2, <1>5, <1>6, <1>7, SeqEqual
<1>9. QED
  BY <1>8 DEF Fresh!Open

\* Symbol::createTmpSymbol introduces a name that no active frame uses.
LEMMA NewSymbolIntroduces ==
    ASSUME IndInv, IndInv', NEW s \in Sym, NEW K, NewFrameSymbol(s, K)
    PROVE  Fresh!Introduce
<1> DEFINE new == tmpCounter + 1
<1>1. TypeOK /\ TypeOK' /\ Counted /\ Ordered
  BY DEF IndInv
<1>2. /\ depth > 0 /\ depth' = depth /\ id[s] = 0
      /\ id' = [id EXCEPT ![s] = new]
      /\ owner' = [owner EXCEPT ![s] = depth]
  BY DEF NewFrameSymbol
<1>3. depth \in Nat /\ new \in Nat /\ depth \in 1 .. depth /\ new # 0
  BY <1>1, <1>2 DEF TypeOK
<1>4. \A d \in 1 .. depth : Own(d)' = IF d = depth THEN Own(d) \cup {s} ELSE Own(d)
  <2> TAKE d \in 1 .. depth
  <2>1. d = depth => Own(d)' = Own(d) \cup {s}
    BY <1>1, <1>2, <1>3 DEF TypeOK, Own, Live
  <2>2. d # depth => Own(d)' = Own(d)
    BY <1>1, <1>2, <1>3 DEF TypeOK, Own, Live
  <2>3. QED
    BY <2>1, <2>2
<1>5. id'[s] = new /\ \A t \in Live : id'[t] = id[t]
  BY <1>1, <1>2 DEF TypeOK, Live
<1>6. \A d \in 1 .. depth :
        Names(Own(d))' = IF d = depth THEN Names(Own(d)) \cup {new} ELSE Names(Own(d))
  <2> TAKE d \in 1 .. depth
  <2>1. \A t \in Own(d) : id'[t] = id[t]
    BY <1>5 DEF Own
  <2>2. d = depth => Names(Own(d))' = Names(Own(d)) \cup {new}
    BY <1>4, <1>5, <2>1 DEF Names
  <2>3. d # depth => Names(Own(d))' = Names(Own(d))
    BY <1>4, <2>1 DEF Names
  <2>4. QED
    BY <2>2, <2>3
<1>7. /\ Scopes \in Seq(SUBSET Nat) /\ Len(Scopes) = depth
      /\ \A d \in 1 .. depth : Scopes[d] = Names(Own(d))
  BY <1>1, ScopesType DEF ScopesOK
<1>8. /\ Scopes' \in Seq(SUBSET Nat) /\ Len(Scopes') = depth
      /\ \A d \in 1 .. depth : Scopes'[d] = Names(Own(d))'
  <2>1. /\ Scopes' \in Seq(SUBSET Nat) /\ Len(Scopes') = depth'
        /\ \A d \in 1 .. depth' : Scopes'[d] = Names(Own(d))'
    BY <1>1, ScopesTypeNext DEF ScopesOK
  <2>2. QED
    BY <1>2, <2>1
\* The name exceeds those in use, which the counter bounds.
<1>9. new \notin Fresh!InUse
  <2> SUFFICES ASSUME NEW d \in 1 .. depth, new \in Names(Own(d))
               PROVE  FALSE
    BY <1>7 DEF Fresh!InUse
  <2>1. PICK t \in Own(d) : id[t] = new
    BY DEF Names
  <2>2. t \in Framed
    BY <1>3, <2>1 DEF Own, Framed
  <2>3. id[t] <= tmpCounter
    BY <1>1, <2>2, NamesBounded
  <2>4. QED
    BY <1>1, <2>1, <2>3 DEF TypeOK
<1> DEFINE after == [Scopes EXCEPT ![depth] = @ \cup {new}]
<1>10. /\ after \in Seq(SUBSET Nat) /\ Len(after) = depth
       /\ \A d \in 1 .. depth :
            after[d] = IF d = depth THEN Names(Own(depth)) \cup {new} ELSE Scopes[d]
  <2> DEFINE e == Names(Own(depth)) \cup {new}
  <2>1. e \in SUBSET Nat
    BY <1>3, <1>7, ElementOfSeq
  <2>2. after = [Scopes EXCEPT ![depth] = e]
    BY <1>3, <1>7
  <2> HIDE DEF e
  <2>3. /\ [Scopes EXCEPT ![depth] = e] \in Seq(SUBSET Nat)
        /\ Len([Scopes EXCEPT ![depth] = e]) = Len(Scopes)
        /\ \A d \in 1 .. Len(Scopes) :
             [Scopes EXCEPT ![depth] = e][d] = IF d = depth THEN e ELSE Scopes[d]
    BY <1>3, <1>7, <2>1, ExceptSeq
  <2>4. QED
    BY <1>7, <2>2, <2>3 DEF e
<1> HIDE DEF after, new
<1>11. Scopes' = after
  <2>1. ASSUME NEW d \in 1 .. depth
        PROVE  Scopes'[d] = after[d]
    <3>1. CASE d = depth
      BY <1>6, <1>8, <1>10, <3>1
    <3>2. CASE d # depth
      BY <1>6, <1>7, <1>8, <1>10, <3>2
    <3>3. QED
      BY <3>1, <3>2
  <2>2. QED
    BY <1>8, <1>10, <2>1, SeqEqual
<1>12. new \in Scopes'[depth]
  BY <1>3, <1>6, <1>8
<1>13. QED
  BY <1>2, <1>7, <1>8, <1>9, <1>11, <1>12 DEF Fresh!Introduce, after

\* A frame that returns takes its own symbols with it, or leaves them to the caches,
\* and none of the frames that stay active.
LEMMA LeaveCloses ==
    ASSUME IndInv, IndInv', depth > 0, NEW F, Leave(F)
    PROVE  Fresh!Close
<1> DEFINE result == ReplaceTmpSymbolsBackFrom(depth, F)
           entry  == [key |-> arg[depth], value |-> result]
           cache1 == IF kind[depth] = "normal" THEN cache \cup {entry} ELSE cache
           Dead   == Own(depth) \ UNION {e.key \cup e.value : e \in cache1}
           outer  == SubSeq(Scopes, 1, depth - 1)
<1>1. TypeOK /\ TypeOK' /\ Counted
  BY DEF IndInv
<1>2. /\ depth' = depth - 1 /\ depth \in Nat /\ depth' \in Nat
      /\ owner' = [s \in Sym |-> IF owner[s] = depth THEN 0 ELSE owner[s]]
  BY <1>1 DEF Leave, TypeOK
<1>3. Destroy(Dead)
  BY DEF Leave
<1>4. Dead \in SUBSET Live /\ \A s \in Dead : owner[s] = depth
  BY DEF Own
<1> HIDE DEF Dead
<1>5. /\ Live' = Live \ Dead
      /\ \A s \in Live' : id'[s] = id[s]
  BY <1>1, <1>3, <1>4, Death
<1>6. \A d \in 1 .. depth - 1 : Own(d)' = Own(d)
  <2> SUFFICES ASSUME NEW d \in 1 .. depth - 1
               PROVE  Own(d)' = Own(d)
    OBVIOUS
  <2>1. d # depth /\ d # 0
    BY <1>2
  <2>2. \A s \in Sym : owner'[s] = d <=> owner[s] = d
    BY <1>2, <2>1
  <2>3. \A s \in Live : owner[s] = d => s \in Live'
    BY <1>4, <1>5, <2>1
  <2>4. QED
    BY <1>5, <2>2, <2>3 DEF Own, Live
<1>7. \A d \in 1 .. depth - 1 : Names(Own(d))' = Names(Own(d))
  <2> SUFFICES ASSUME NEW d \in 1 .. depth - 1
               PROVE  Names(Own(d))' = Names(Own(d))
    OBVIOUS
  <2>1. Own(d)' = Own(d) /\ \A s \in Own(d)' : id'[s] = id[s]
    BY <1>5, <1>6 DEF Own
  <2>2. QED
    BY <2>1 DEF Names
<1>8. /\ Scopes \in Seq(SUBSET Nat) /\ Len(Scopes) = depth
      /\ \A d \in 1 .. depth : Scopes[d] = Names(Own(d))
  BY <1>1, ScopesType DEF ScopesOK
<1>9. /\ Scopes' \in Seq(SUBSET Nat) /\ Len(Scopes') = depth - 1
      /\ \A d \in 1 .. depth - 1 : Scopes'[d] = Names(Own(d))
  <2>1. /\ Scopes' \in Seq(SUBSET Nat) /\ Len(Scopes') = depth'
        /\ \A d \in 1 .. depth' : Scopes'[d] = Names(Own(d))'
    BY <1>1, ScopesTypeNext DEF ScopesOK
  <2>2. QED
    BY <1>2, <1>7, <2>1
<1>10. /\ outer \in Seq(SUBSET Nat) /\ Len(outer) = depth - 1
       /\ \A d \in 1 .. depth - 1 : outer[d] = Scopes[d]
  <2>1. \A d \in 1 .. depth - 1 : Scopes[d] \in SUBSET Nat
    BY <1>2, <1>8, ElementOfSeq
  <2>2. /\ outer \in Seq(SUBSET Nat)
        /\ Len(outer) = IF 1 <= depth - 1 THEN (depth - 1) - 1 + 1 ELSE 0
        /\ \A d \in 1 .. (depth - 1) - 1 + 1 : outer[d] = Scopes[1 + d - 1]
    BY <1>2, <2>1, SubSeqProperties
  <2>3. QED
    BY <1>2, <2>2
<1>11. \A d \in 1 .. depth - 1 : Scopes'[d] = outer[d]
  BY <1>2, <1>8, <1>9, <1>10
<1>12. Scopes' = outer
  <2> HIDE DEF outer
  <2>1. QED
    BY <1>9, <1>10, <1>11, SeqEqual
<1>13. Scopes # <<>>
  BY <1>8, EmptySeq
<1>14. QED
  BY <1>8, <1>12, <1>13 DEF Fresh!Close

\* Every step of the library or of its caller is a step of FreshScopes or a stutter.
LEMMA StepRefines ==
    ASSUME IndInv, IndInv', [Next]_vars
    PROVE  [Fresh!Next]_Scopes
<1>1. ASSUME NEW s \in Sym, CreateWithReservedName(s) \/ Drop(s)
      PROVE  Scopes' = Scopes
  BY <1>1, NoScopes DEF CreateWithReservedName, Drop
<1>2. CASE ClearRegisteredCaches
  BY <1>2, NoScopes DEF ClearRegisteredCaches
<1>3. ASSUME NEW K, NEW k, Enter(k, K)
      PROVE  Fresh!Next
  BY <1>3, EnterOpens DEF Fresh!Next
<1>4. ASSUME NEW s \in Sym, NEW K, NewFrameSymbol(s, K)
      PROVE  Fresh!Next
  BY <1>4, NewSymbolIntroduces DEF Fresh!Next
<1>5. ASSUME NEW K, NEW V, CacheMiss(K, V)
      PROVE  Scopes' = Scopes
  BY <1>5, SameScopes DEF CacheMiss
<1>6. ASSUME NEW K, NEW e \in cache, CacheHit(K, e)
      PROVE  Scopes' = Scopes
  BY <1>6, SameScopes DEF CacheHit
<1>7. ASSUME depth > 0, NEW F, Leave(F)
      PROVE  Fresh!Next
  BY <1>7, LeaveCloses DEF Fresh!Next
<1>8. CASE UNCHANGED vars
  BY <1>8, SameScopes DEF vars
<1>9. QED
  BY <1>1, <1>2, <1>3, <1>4, <1>5, <1>6, <1>7, <1>8
     DEF Next, GetTmpSymbolAndStore, TrigSymbReplacement

\* The temporary symbols of the library implement nested scopes of fresh names: the
\* mechanism of counter, destructors and caches cannot be told from one in which a
\* name is never given twice to anything that is in use.
THEOREM TmpSymbolsImplementFreshScopes == Spec => ImplementsFreshScopes
<1>1. Init => Fresh!Init
  BY EmptySeq DEF Init, Fresh!Init, Scopes
<1>2. IndInv /\ IndInv' /\ [Next]_vars => [Fresh!Next]_Scopes
  BY StepRefines
<1>3. QED
  BY <1>1, <1>2, Invariance, PTL DEF Spec, ImplementsFreshScopes, Fresh!Spec
=============================================================================
