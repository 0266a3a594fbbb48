----------------------------- MODULE TmpSymbols -----------------------------
(***************************************************************************)
(* Temporary symbols of tsym: their names, their lifetime and their use as *)
(* placeholders during normalization.                                      *)
(*                                                                         *)
(* A temporary Symbol is named after Symbol::tmpCounter, which is          *)
(* incremented by the factory and DECREMENTED by the destructor: it counts *)
(* the living temporaries, and names are used again.  Symbols are compared *)
(* by name, so everything rests on which instances die before which.  An   *)
(* instance lives while it is reachable from                               *)
(*   - a frame: the SymbolMap of an active Base::normal() or               *)
(*     normalToFraction(), or the locals of contractTrigFctPowers(),       *)
(*   - the keys and values of the registered caches, which are emptied by  *)
(*     clearRegisteredCaches() only, between two calls of the user,        *)
(*   - an expression that the caller holds.                                *)
(*                                                                         *)
(* Expressions are abstracted to the set of temporary Symbol instances     *)
(* that occur in them; the sign flag of a Symbol, which can only make two  *)
(* names differ, is left out.                                              *)
(***************************************************************************)
EXTENDS Integers, FiniteSets, Sequences

CONSTANTS
    Sym,        \* Symbol instances (addresses)
    MaxDepth,   \* bound on nested frames (the nesting of an expression)
    MaxCache,   \* bound on the entries of all registered caches together
    MaxHeld     \* temporaries requested through Symbol::create("tmp#...")

ASSUME BoundsAssumption ==
    MaxDepth \in Nat /\ MaxCache \in Nat /\ MaxHeld \in Nat

VARIABLES
    tmpCounter, \* Symbol::tmpCounter
    id,         \* the number in the name of an instance, 0 when it is not alive
    owner,      \* the frame whose SymbolMap or locals own an instance, 0 if none
    rep,        \* SymbolMap::rep: what the instance stands for
    depth,      \* number of active frames
    kind,       \* what the frame is: see Kind
    arg,        \* the expression the frame was called with
    work,       \* instances in the intermediate results of the frame
    cache,      \* entries of the registered caches
    held,       \* instances in expressions held by the caller
    requested   \* history: the caller ever asked for a reserved name

vars == <<tmpCounter, id, owner, rep, depth, kind, arg, work, cache, held, requested>>

(***************************************************************************)
(* normal   Base::normalViaCache(), whose result goes to a cache,          *)
(* fraction normalToFraction() and normal() of leaves, which are uncached, *)
(* trig     contractTrigFctPowers().                                       *)
(***************************************************************************)
Kind  == {"normal", "fraction", "trig"}
Frame == 1 .. MaxDepth
Entry == [key: SUBSET Sym, value: SUBSET Sym]

Init ==
    /\ tmpCounter = 0
    /\ id    = [s \in Sym |-> 0]
    /\ owner = [s \in Sym |-> 0]
    /\ rep   = [s \in Sym |-> {}]
    /\ depth = 0
    /\ kind  = [d \in Frame |-> "normal"]
    /\ arg   = [d \in Frame |-> {}]
    /\ work  = [d \in Frame |-> {}]
    /\ cache = {}
    /\ held  = {}
    /\ requested = FALSE

-----------------------------------------------------------------------------

Live     == {s \in Sym : id[s] # 0}
Own(d)   == {s \in Live : owner[s] = d}
Cached   == UNION {e.key \cup e.value : e \in cache}
Visible  == IF depth = 0 THEN held ELSE work[depth]

\* FAULT: no recursion, placeholders nested in placeholders survive.
ReplaceTmpSymbolsBackFromOnce(d, S) ==
    {s \in S : \A o \in Own(d) : id[o] # id[s]}
      \cup UNION {rep[o] : o \in {x \in Own(d) : \E s \in S : id[x] = id[s]}}

\* Equality of Symbols is equality of names, so expressions are told apart by
\* the names in them and never by the instances.
Names(S) == {id[s] : s \in S}

(***************************************************************************)
(* SymbolMap::replaceTmpSymbolsBackFrom: whatever has the NAME of a symbol *)
(* of the map is substituted by the expression the map holds for it, until *)
(* nothing changes.  The least set of instances that contains S and is     *)
(* closed under the substitution, without those that were substituted.     *)
(***************************************************************************)
Matches(d, s) == \E o \in Own(d) : id[o] = id[s]

ClosedUnder(d, T) ==
    \A s \in T : \A o \in Own(d) : id[o] = id[s] => rep[o] \subseteq T

Reached(d, S) ==
    {x \in Live : \A T \in SUBSET Live :
                    (S \subseteq T /\ ClosedUnder(d, T)) => x \in T}

ReplaceTmpSymbolsBackFrom(d, S) == {x \in Reached(d, S) : ~Matches(d, x)}

\* FAULT: the destructor of a map subtracts its size, cached symbols included.
DestroyPerMap(Dead) ==
    /\ tmpCounter' = tmpCounter - Cardinality(IF depth > 0 THEN Own(depth) ELSE Dead)
    /\ id' = [s \in Sym |-> IF s \in Dead THEN 0 ELSE id[s]]

(***************************************************************************)
(* The destructors: instances that nothing refers to any more die, each    *)
(* one decrementing the counter.                                           *)
(***************************************************************************)
Destroy(Dead) ==
    /\ tmpCounter' = tmpCounter - Cardinality(Dead)
    /\ id' = [s \in Sym |-> IF s \in Dead THEN 0 ELSE id[s]]

-----------------------------------------------------------------------------
(* The caller, between two calls into the library. *)

\* Symbol::create with a name that starts with the reserved prefix.
CreateWithReservedName(s) ==
    /\ depth = 0
    /\ Cardinality(held) < MaxHeld
    /\ id[s] = 0
    /\ tmpCounter' = tmpCounter + 1
    /\ id' = [id EXCEPT ![s] = tmpCounter + 1]
    /\ held' = held \cup {s}
    /\ requested' = TRUE
    /\ UNCHANGED <<owner, rep, depth, kind, arg, work, cache>>

\* The caller gives up an expression.
Drop(s) ==
    /\ depth = 0
    /\ s \in held
    /\ held' = held \ {s}
    /\ Destroy({s} \ Cached)
    /\ UNCHANGED <<owner, rep, depth, kind, arg, work, cache, requested>>

ClearRegisteredCaches ==
    /\ depth = 0
    /\ cache' = {}
    /\ Destroy(Cached \ held)
    /\ UNCHANGED <<owner, rep, depth, kind, arg, work, held, requested>>

-----------------------------------------------------------------------------
(* Steps of the active frame. *)

\* A frame is entered: a SymbolMap, or the locals of contractTrigFctPowers.
Enter(k, K) ==
    /\ depth < MaxDepth
    /\ depth' = depth + 1
    /\ kind' = [kind EXCEPT ![depth + 1] = k]
    /\ arg'  = [arg EXCEPT ![depth + 1] = K]
    /\ work' = [work EXCEPT ![depth + 1] = K]
    /\ UNCHANGED <<tmpCounter, id, owner, rep, cache, held, requested>>

\* FAULT: the symbol is named before the counter is incremented.
NewFrameSymbolTooEarly(s, S) ==
    /\ depth > 0
    /\ id[s] = 0
    /\ tmpCounter' = tmpCounter + 1
    /\ id'    = [id EXCEPT ![s] = IF tmpCounter = 0 THEN 1 ELSE tmpCounter]
    /\ owner' = [owner EXCEPT ![s] = depth]
    /\ rep'   = [rep EXCEPT ![s] = S]
    /\ work'  = [work EXCEPT ![depth] = @ \cup {s}]
    /\ UNCHANGED <<depth, kind, arg, cache, held, requested>>

\* FAULT: the placeholders of a map are numbered by the size of the map.
NewFrameSymbolPerMap(s, S) ==
    /\ depth > 0
    /\ id[s] = 0
    /\ tmpCounter' = tmpCounter + 1
    /\ id'    = [id EXCEPT ![s] = Cardinality(Own(depth)) + 1]
    /\ owner' = [owner EXCEPT ![s] = depth]
    /\ rep'   = [rep EXCEPT ![s] = S]
    /\ work'  = [work EXCEPT ![depth] = @ \cup {s}]
    /\ UNCHANGED <<depth, kind, arg, cache, held, requested>>

\* Symbol::createTmpSymbol on behalf of the innermost frame, where it stands for
\* an expression in which the symbols S occur.
NewFrameSymbol(s, S) ==
    /\ depth > 0
    /\ id[s] = 0
    /\ tmpCounter' = tmpCounter + 1
    /\ id'    = [id EXCEPT ![s] = tmpCounter + 1]
    /\ owner' = [owner EXCEPT ![s] = depth]
    /\ rep'   = [rep EXCEPT ![s] = S]
    /\ work'  = [work EXCEPT ![depth] = @ \cup {s}]
    /\ UNCHANGED <<depth, kind, arg, cache, held, requested>>

\* SymbolMap::getTmpSymbolAndStore for an expression that is not in the map;
\* one that is yields the symbol stored for it and changes nothing.
GetTmpSymbolAndStore(s, S) ==
    /\ kind[depth] # "trig"
    /\ NewFrameSymbol(s, S)

\* contractTrigFctPowers: a symbol each for sin and cos of the common argument.
TrigSymbReplacement(s) ==
    /\ kind[depth] = "trig"
    /\ Cardinality(Own(depth)) < 2
    /\ NewFrameSymbol(s, arg[depth])

\* A miss of simplifyProduct, simplifySum, expandAsProduct, poly::gcd or
\* poly::divide: the value is built from the operands in the key.
CacheMiss(K, V) ==
    /\ V \subseteq K
    /\ Cardinality(cache) < MaxCache
    /\ cache' = cache \cup {[key |-> K, value |-> V]}
    /\ UNCHANGED <<tmpCounter, id, owner, rep, depth, kind, arg, work, held, requested>>

\* A hit of one of these or of Base::normalViaCache: the instances in the value
\* are those of the call that inserted it, equal to the present ones by name.
CacheHit(K, e) ==
    /\ Names(e.key) = Names(K)
    /\ IF depth = 0
         THEN held' = held \cup e.value /\ UNCHANGED work
         ELSE work' = [work EXCEPT ![depth] = @ \cup e.value] /\ UNCHANGED held
    /\ UNCHANGED <<tmpCounter, id, owner, rep, depth, kind, arg, cache, requested>>

(***************************************************************************)
(* The frame returns: F is its final result, in which the symbols of the   *)
(* frame are replaced back.  The map (or the locals) goes, and with it the *)
(* symbols that no cache entry keeps alive.                                *)
(***************************************************************************)
Leave(F) ==
    LET result == ReplaceTmpSymbolsBackFrom(depth, F)
        entry  == [key |-> arg[depth], value |-> result]
        cache1 == IF kind[depth] = "normal" THEN cache \cup {entry} ELSE cache
        pinned == UNION {e.key \cup e.value : e \in cache1}
    IN  /\ kind[depth] = "trig" => Cardinality(Own(depth)) = 2
        /\ kind[depth] = "normal" => Cardinality(cache) < MaxCache
        /\ cache' = cache1
        /\ depth' = depth - 1
        /\ owner' = [s \in Sym |-> IF owner[s] = depth THEN 0 ELSE owner[s]]
        /\ rep'   = [s \in Sym |-> IF owner[s] = depth THEN {} ELSE rep[s]]
        /\ Destroy(Own(depth) \ pinned)
        /\ work' = [d \in Frame |-> IF d = depth THEN {}
                                    ELSE IF d = depth - 1 THEN work[d] \cup result
                                    ELSE work[d]]
        /\ arg'  = [arg EXCEPT ![depth] = {}]
        /\ held' = IF depth = 1 THEN held \cup result ELSE held
        /\ UNCHANGED <<kind, requested>>

Next ==
    \/ \E s \in Sym : CreateWithReservedName(s) \/ Drop(s)
    \/ ClearRegisteredCaches
    \/ \E K \in SUBSET Visible :
         \/ \E k \in Kind : Enter(k, K)
         \/ \E s \in Sym : depth > 0 /\ GetTmpSymbolAndStore(s, K)
         \/ \E V \in SUBSET K : CacheMiss(K, V)
         \/ \E e \in cache : CacheHit(K, e)
    \/ /\ depth > 0
       /\ \/ \E s \in Sym : TrigSymbReplacement(s)
          \/ \E F \in SUBSET work[depth] : Leave(F)

Spec == Init /\ [][Next]_vars

-----------------------------------------------------------------------------
(* Properties. *)

\* The domain of every variable.
TypeOK ==
    /\ tmpCounter \in Nat
    /\ id \in [Sym -> Nat]
    /\ owner \in [Sym -> 0 .. MaxDepth]
    /\ rep \in [Sym -> SUBSET Sym]
    /\ depth \in 0 .. MaxDepth
    /\ kind \in [Frame -> Kind]
    /\ arg \in [Frame -> SUBSET Sym]
    /\ work \in [Frame -> SUBSET Sym]
    /\ cache \in SUBSET Entry
    /\ held \in SUBSET Sym
    /\ requested \in BOOLEAN

\* However frames, caches and the caller share instances, the counter that names
\* the next symbol is the number of living temporaries: no destruction is counted
\* twice or forgotten (Symbol::createTmpSymbol against ~Symbol).
CounterCountsLiving == tmpCounter = Cardinality(Live)

Framed == {s \in Live : owner[s] > 0}

\* Although names are used again, two placeholders in use by active frames, of the
\* same map or of nested ones, never compare equal (SymbolMap, contractTrigFctPowers).
FrameSymbolsDistinct ==
    \A s, t \in Framed : id[s] = id[t] => s = t

\* No placeholder of a frame is confused with a temporary that occurs in the
\* expression the frame works on: back-replacement leaves the argument alone.
\* It relies on no caller having asked for a temporary.
ArgumentUntouched ==
    ~requested => \A d \in 1 .. depth : \A a \in arg[d] : ~Matches(d, a)

\* The recursion of replaceTmpSymbolsBackFrom ends: a placeholder stands for an
\* expression whose own placeholders of that map are older than itself.
BackReplacementTerminates ==
    ~requested =>
        \A s \in Framed : \A x \in rep[s] :
            Matches(owner[s], x) => id[x] < id[s]

\* A cached value only mentions symbols of its key, so a hit on an entry left
\* behind by symbols that died long ago still speaks of the present arguments.
CachedValuesClosed ==
    ~requested => \A e \in cache : Names(e.value) \subseteq Names(e.key)

\* Replacing a placeholder back yields the names of the expression it stands for
\* (testsymbolmap.cpp:22, BOOST_CHECK_EQUAL(a, map.replaceTmpSymbolsBackFrom(...)));
\* stated for placeholders of expressions without other placeholders of the map.
BackReplacementRestores ==
    ~requested => \A s \in Framed :
        (\A o \in Own(owner[s]) \ {s} : id[o] \notin Names(rep[s])) =>
            Names(ReplaceTmpSymbolsBackFrom(owner[s], {s})) = Names(rep[s])

\* No temporary symbol appears in a result of the library.
NoTemporaryEscapes == ~requested => held = {}

-----------------------------------------------------------------------------
(* What the users of temporary symbols see: see FreshScopes. *)

\* The scope of a frame is the set of names it owns.
Scopes == [d \in 1 .. depth |-> Names(Own(d))]

Fresh == INSTANCE FreshScopes WITH scopes <- Scopes

\* The frames of the library implement nested scopes of fresh names: a symbol is
\* named differently from every placeholder in use, and scopes end in the order of
\* the calls (createTmpSymbol, SymbolMap and contractTrigFctPowers together).
ImplementsFreshScopes == Fresh!Spec

-----------------------------------------------------------------------------
(* The inductive invariant behind these properties (see TmpSymbolsProofs). *)

Elders(s) == {x \in Live : owner[x] <= owner[s]}

\* Living instances are finitely many, counted, and owned by active frames.
Counted ==
    /\ IsFiniteSet(Live)
    /\ tmpCounter = Cardinality(Live)
    /\ \A s \in Sym : owner[s] <= depth /\ (id[s] = 0 => owner[s] = 0)

\* An expression in use mentions living instances of its own or outer frames.
References ==
    /\ Cached \subseteq Live
    /\ \A x \in held : x \in Live /\ owner[x] = 0
    /\ \A d \in Frame : \A x \in arg[d] \cup work[d] :
         d <= depth /\ x \in Live /\ owner[x] <= d
    /\ \A d \in Frame : arg[d] \subseteq work[d]
    /\ \A d \in Frame : d > 1 => arg[d] \subseteq work[d - 1]
    /\ \A s \in Sym : \A x \in rep[s] : 
         s \in Framed /\ x \in Live /\ owner[x] <= owner[s]

\* Names grow from frame to frame and are bounded by what outlives the frame.
Ordered ==
    /\ \A s \in Framed : id[s] <= Cardinality(Elders(s))
    /\ \A s, t \in Framed : owner[s] < owner[t] => id[s] < id[t]
    /\ \A s, t \in Framed : owner[s] = owner[t] /\ id[s] = id[t] => s = t

\* By name, a frame speaks of its argument and its own symbols only.
Scoped ==
    /\ held = {}
    /\ \A d \in Frame : \A a \in arg[d] :
         \E o \in Framed : owner[o] < d /\ id[o] = id[a]
    /\ \A d \in Frame : \A w \in work[d] :
         id[w] \in Names(arg[d]) \/ Matches(d, w)
    /\ \A s \in Framed : \A x \in rep[s] :
         \/ id[x] \in Names(arg[owner[s]])
         \/ \E o \in Own(owner[s]) : id[o] = id[x] /\ id[o] < id[s]
    /\ \A e \in cache : Names(e.value) \subseteq Names(e.key)

\* The conjunction, inductive for the specification.
IndInv == TypeOK /\ Counted /\ References /\ Ordered /\ (~requested => Scoped)

=============================================================================
