------------------------ MODULE ExecutionFrameProofs ------------------------
(***************************************************************************)
(* Proofs about ExecutionFrame for any catalog, policies, queries and      *)
(* times: a refresh gives new data, a frame holds one generation of each   *)
(* relation, and no data a query is given is older than its limits allow.  *)
(* Identities are what ties frames together: two frames in which a         *)
(* relation has one identity hold the same generations below it.           *)
(***************************************************************************)
EXTENDS ExecutionFrame, WellFoundedInduction, NaturalsInduction, TLAPS

(* What the proof needs to know of the kinds of values.                    *)
Structure ==
    /\ now \in Nat
    /\ current \subseteq DOMAIN info
    /\ pc \in [Queries -> {"idle", "frame", "fill"}]
    /\ DOMAIN want = Queries
    /\ began \in [Queries -> Nat]
    /\ at \in [Queries -> Nat]
    /\ DOMAIN gens = Queries
    /\ \A q \in Queries : \A r \in DOMAIN gens[q] : gens[q][r] \in DOMAIN info
    /\ invalidated \in [Queries -> BOOLEAN]
    /\ since \in [Queries -> Nat]

(* Nothing is left of an execution that has ended; one that refreshes is   *)
(* at a relation it was asked to refresh, and fills it only afterwards.    *)
PlaceInv ==
    \A q \in Queries :
        /\ began[q] <= now
        /\ pc[q] = "idle" => DOMAIN gens[q] = {} /\ ~invalidated[q]
        /\ pc[q] = "fill" /\ Order[at[q]] \in want[q].refresh => invalidated[q]
        /\ invalidated[q] => Order[at[q]] \in Resolved(q) \cap want[q].refresh

CurrentKey(q) == Key(q, Order[at[q]])

(* What is published under a key that was invalidated is new ...           *)
VisibleInv ==
    \A q \in Queries : invalidated[q] =>
        \A g \in current : info[g].key = CurrentKey(q) =>
            /\ info[g].published >= began[q]
            /\ IsBase(Order[at[q]]) => info[g].read >= began[q]

(* ... and so is what will be: a fill of that key began later.             *)
FillInv ==
    \A p, q \in Queries :
        pc[p] = "fill" /\ invalidated[q] /\ CurrentKey(p) = CurrentKey(q)
            => since[p] >= began[q]

IInv ==
    /\ Structure
    /\ PlaceInv
    /\ VisibleInv
    /\ FillInv
    /\ RefreshIsNew

-----------------------------------------------------------------------------
(* Relations with the same identity are the same.                          *)
LEMMA IdentityTells ==
  ASSUME NEW given1, NEW given2, NEW r1, NEW r2,
         Identity(given1, r1) = Identity(given2, r2)
  PROVE  r1 = r2
  <1>1. Identity(given1, r1).relation = r1 /\ Identity(given2, r2).relation = r2
    BY DEF Identity
  <1> QED BY <1>1

(* A query whose place and generations stay keeps its key.                 *)
LEMMA KeyStays ==
  ASSUME NEW q \in Queries, gens'[q] = gens[q], at'[q] = at[q]
  PROVE  CurrentKey(q)' = CurrentKey(q)
  BY DEF CurrentKey, Key

(* A fill that uses no generation is as old as its own reads.               *)
LEMMA MinOfOne ==
  ASSUME NEW t \in Nat
  PROVE  Min({t}) = t
  BY DEF Min

-----------------------------------------------------------------------------
(* Nothing is cached and nobody refreshes at first.                         *)
LEMMA InitInv == Init => IInv
  <1> SUFFICES ASSUME Init PROVE IInv OBVIOUS
  <1>1. Structure /\ PlaceInv
    BY DEF Init, Structure, PlaceInv
  <1>2. VisibleInv /\ FillInv /\ RefreshIsNew
    BY DEF Init, VisibleInv, FillInv, RefreshIsNew
  <1> QED BY <1>1, <1>2 DEF IInv

(* A query that begins has no generations yet.                              *)
LEMMA BeginInv ==
  ASSUME IInv, NEW q \in Queries, NEW o \in Options, Begin(q, o)
  PROVE  IInv'
  <1> USE DEF IInv, Structure, Begin, query
  <1>1. Structure'
    OBVIOUS
  <1>2. \A p \in Queries \ {q} : pc'[p] = pc[p] /\ want'[p] = want[p] /\ began'[p] = began[p]
    OBVIOUS
  <1>3. ~invalidated[q] /\ DOMAIN gens[q] = {} /\ pc'[q] = "frame" /\ began'[q] = now
    BY DEF PlaceInv
  <1>4. PlaceInv'
    BY <1>2, <1>3 DEF PlaceInv, Resolved, Needed
  <1>5. \A p \in Queries : CurrentKey(p)' = CurrentKey(p)
    BY KeyStays
  <1>6. VisibleInv'
    BY <1>2, <1>3, <1>5 DEF VisibleInv
  <1>7. FillInv'
    BY <1>2, <1>3, <1>5 DEF FillInv
  <1>8. RefreshIsNew'
    BY <1>2, <1>3 DEF RefreshIsNew
  <1> QED BY <1>1, <1>4, <1>6, <1>7, <1>8

(* A query that registers a relation is not refreshing it.                  *)
LEMMA RegisterInv ==
  ASSUME IInv, NEW q \in Queries, NEW r \in Relations, Register(q, r)
  PROVE  IInv'
  <1> USE DEF IInv, Structure, Register, AtRelation, Advance, query
  <1>1. Structure'
    OBVIOUS
  <1>2. ~invalidated[q] /\ pc[q] = "frame"
    BY DEF PlaceInv
  <1>3. \A p \in Queries \ {q} : at'[p] = at[p] /\ CurrentKey(p)' = CurrentKey(p)
    BY KeyStays
  <1>4. PlaceInv'
    BY <1>2, <1>3 DEF PlaceInv, Resolved, Needed
  <1>5. VisibleInv'
    BY <1>2, <1>3 DEF VisibleInv
  <1>6. FillInv'
    BY <1>2, <1>3 DEF FillInv
  <1>7. RefreshIsNew'
    BY DEF RefreshIsNew
  <1> QED BY <1>1, <1>4, <1>5, <1>6, <1>7

(* After an invalidation nothing is visible under the key, and no fill of   *)
(* it runs.                                                                 *)
LEMMA InvalidateInv ==
  ASSUME IInv, NEW q \in Queries, NEW r \in Relations, Invalidate(q, r)
  PROVE  IInv'
  <1> USE DEF IInv, Structure, Invalidate, AtRelation, query
  <1>1. Structure'
    OBVIOUS
  <1>2. \A p \in Queries \ {q} : invalidated'[p] = invalidated[p]
    OBVIOUS
  <1>3. \A p \in Queries : CurrentKey(p)' = CurrentKey(p)
    BY KeyStays
  <1>4. CurrentKey(q) = Key(q, r) /\ invalidated'[q] /\ pc[q] = "frame"
    BY DEF CurrentKey
  <1>5. PlaceInv'
    BY <1>2, <1>4 DEF PlaceInv, Resolved, Needed
  <1>6. VisibleInv'
    <2>1. \A g \in current' : g \in current /\ info[g].key # CurrentKey(q)
      BY <1>4 DEF Visible
    <2> QED BY <1>2, <1>3, <2>1 DEF VisibleInv
  <1>7. FillInv'
    <2>1. \A p \in Queries : pc[p] = "fill" => CurrentKey(p) # CurrentKey(q)
      BY <1>4 DEF Filling, CurrentKey
    <2> QED BY <1>2, <1>3, <2>1 DEF FillInv
  <1>8. RefreshIsNew'
    BY DEF RefreshIsNew
  <1> QED BY <1>1, <1>5, <1>6, <1>7, <1>8

(* What a refreshing query finds was published under the key since it       *)
(* invalidated it.                                                          *)
LEMMA HitInv ==
  ASSUME IInv, NEW q \in Queries, NEW r \in Relations, NEW g \in current, Hit(q, r, g)
  PROVE  IInv'
  <1> USE DEF IInv, Structure, Hit, Resolving, AtRelation, Bind, Advance, query
  <1>1. Structure'
    OBVIOUS
  <1>2. \A p \in Queries \ {q} : /\ invalidated'[p] = invalidated[p]
                                 /\ at'[p] = at[p] /\ gens'[p] = gens[p]
                                 /\ CurrentKey(p)' = CurrentKey(p)
    BY KeyStays
  <1>3. ~invalidated'[q] /\ pc'[q] = "frame"
    OBVIOUS
  <1>4. PlaceInv'
    BY <1>2, <1>3 DEF PlaceInv, Resolved, Needed
  <1>5. VisibleInv'
    BY <1>2, <1>3 DEF VisibleInv
  <1>6. FillInv'
    BY <1>2, <1>3 DEF FillInv
  <1>7. RefreshIsNew'
    <2>1. info[g].key = CurrentKey(q) /\ r = Order[at[q]]
      BY DEF Fresh, Visible, CurrentKey
    <2>2. r \in want[q].refresh => /\ info[g].published >= began[q]
                                   /\ IsBase(r) => info[g].read >= began[q]
      BY <2>1 DEF VisibleInv
    <2>3. \A x \in DOMAIN gens'[q] : gens'[q][x] = IF x = r THEN g ELSE gens[q][x]
      OBVIOUS
    <2>4. \A x \in DOMAIN gens'[q] : x = r \/ x \in DOMAIN gens[q]
      OBVIOUS
    <2> QED BY <1>2, <2>2, <2>3, <2>4 DEF RefreshIsNew
  <1> QED BY <1>1, <1>4, <1>5, <1>6, <1>7

(* A fill that starts now starts after every query began.                   *)
LEMMA StartFillInv ==
  ASSUME IInv, NEW q \in Queries, NEW r \in Relations, StartFill(q, r)
  PROVE  IInv'
  <1> USE DEF IInv, Structure, StartFill, Resolving, AtRelation, query
  <1>1. Structure'
    OBVIOUS
  <1>2. \A p \in Queries \ {q} : pc'[p] = pc[p] /\ since'[p] = since[p]
    OBVIOUS
  <1>3. \A p \in Queries : CurrentKey(p)' = CurrentKey(p)
    BY KeyStays
  <1>4. PlaceInv'
    BY <1>2 DEF PlaceInv, Resolved, Needed
  <1>5. VisibleInv'
    BY <1>3 DEF VisibleInv
  <1>6. FillInv'
    <2>1. since'[q] = now /\ \A p \in Queries : now >= began[p]
      BY DEF PlaceInv
    <2> QED BY <1>2, <1>3, <2>1 DEF FillInv
  <1>7. RefreshIsNew'
    BY DEF RefreshIsNew
  <1> QED BY <1>1, <1>4, <1>5, <1>6, <1>7

(* What a fill publishes under a key is new to each query that invalidated  *)
(* it.                                                                      *)
LEMMA PublishInv ==
  ASSUME IInv, NEW q \in Queries, NEW r \in Relations, NEW g \in Generations,
         NEW t \in 0..MaxClock, Publish(q, r, g, t)
  PROVE  IInv'
  <1> USE DEF IInv, Structure, Publish, Bind, Advance, query
  <1>1. info'[g].key = CurrentKey(q) /\ info'[g].published = now
    BY DEF CurrentKey
  <1>2. IsBase(r) => info'[g].read = t
    <2> SUFFICES ASSUME IsBase(r) PROVE info'[g].read = t
      OBVIOUS
    <2> DEFINE from == [x \in Inputs(r) \cap DOMAIN gens[q] |-> gens[q][x]]
    <2>1. Inputs(r) = {}
      BY DEF IsBase, Inputs
    <2>2. {t} \cup {info[from[x]].read : x \in DOMAIN from} = {t}
      BY <2>1
    <2>3. Min({t}) = t
      BY MinOfOne
    <2> QED BY <2>2, <2>3
  <1>3. /\ g \in DOMAIN info'
        /\ \A x \in DOMAIN info : x # g /\ x \in DOMAIN info' /\ info'[x] = info[x]
    OBVIOUS
  <1>4. current' \subseteq current \cup {g}
    BY DEF Supersede
  <1>5. Structure'
    BY <1>3, <1>4
  <1>6. \A p \in Queries \ {q} : /\ invalidated'[p] = invalidated[p]
                                 /\ pc'[p] = pc[p]
                                 /\ at'[p] = at[p] /\ gens'[p] = gens[p]
                                 /\ CurrentKey(p)' = CurrentKey(p)
    BY KeyStays
  <1>7. ~invalidated'[q] /\ pc'[q] = "frame" /\ r = Order[at[q]]
    OBVIOUS
  <1>7a. began' = began /\ want' = want
    OBVIOUS
  <1>8. PlaceInv'
    BY <1>6, <1>7 DEF PlaceInv, Resolved, Needed
  <1>9. VisibleInv'
    <2> SUFFICES ASSUME NEW p \in Queries, p # q, invalidated[p], NEW h \in current',
                        info'[h].key = CurrentKey(p)
                 PROVE  /\ info'[h].published >= began[p]
                        /\ IsBase(Order[at[p]]) => info'[h].read >= began[p]
      <3> HIDE DEF Publish, Bind, IInv, Structure
      <3> QED BY <1>6, <1>7, <1>7a DEF VisibleInv
    <2>1. CASE h \in current
      BY <2>1, <1>3 DEF VisibleInv
    <2>2. CASE h = g
      <3>1. CurrentKey(p) = CurrentKey(q)
        BY <1>1, <2>2
      <3>2. Order[at[p]] = r
        BY <3>1, <1>7, IdentityTells DEF CurrentKey, Key
      <3>3. since[q] >= began[p] /\ now >= began[p]
        BY <3>1 DEF FillInv, PlaceInv
      <3>4. t >= began[p]
        BY <3>3
      <3> QED BY <1>1, <1>2, <2>2, <3>2, <3>3, <3>4
    <2> QED BY <1>4, <2>1, <2>2
  <1>10. FillInv'
    BY <1>6, <1>7 DEF FillInv
  <1>11. RefreshIsNew'
    <2>1. r \in want[q].refresh => invalidated[q]
      BY <1>7 DEF PlaceInv
    <2>2. r \in want[q].refresh => since[q] >= began[q]
      BY <2>1 DEF FillInv
    <2>3. r \in want[q].refresh => t >= began[q]
      BY <2>2
    <2>4. now >= began[q]
      BY DEF PlaceInv
    <2>5. \A x \in DOMAIN gens'[q] : gens'[q][x] = IF x = r THEN g ELSE gens[q][x]
      OBVIOUS
    <2>6. \A x \in DOMAIN gens'[q] : x = r \/ x \in DOMAIN gens[q]
      OBVIOUS
    <2>7. \A p \in Queries : \A x \in DOMAIN gens[p] : info'[gens[p][x]] = info[gens[p][x]]
      BY <1>3
    <2> SUFFICES ASSUME NEW p \in Queries, NEW x \in DOMAIN gens'[p],
                        x \in want[p].refresh
                 PROVE  /\ info'[gens'[p][x]].published >= began[p]
                        /\ IsBase(x) => info'[gens'[p][x]].read >= began[p]
      <3> HIDE DEF Publish, Bind, IInv, Structure
      <3> QED BY <1>7a DEF RefreshIsNew
    <2>8. CASE p = q /\ x = r
      BY <1>1, <1>2, <2>3, <2>4, <2>5, <2>8
    <2>9. CASE ~(p = q /\ x = r)
      <3>1. x \in DOMAIN gens[p] /\ gens'[p][x] = gens[p][x]
        BY <1>6, <2>5, <2>6, <2>9
      <3>2. info'[gens'[p][x]] = info[gens[p][x]]
        BY <2>7, <3>1
      <3> QED BY <3>1, <3>2 DEF RefreshIsNew
    <2> QED BY <2>8, <2>9
  <1> QED BY <1>5, <1>8, <1>9, <1>10, <1>11

(* A query that ends leaves nothing behind.                                 *)
LEMMA LeaveInv ==
  ASSUME IInv, NEW q \in Queries, Leave(q)
  PROVE  IInv'
  <1> USE DEF IInv, Structure, Leave
  <1>1. Structure'
    OBVIOUS
  <1>2. \A p \in Queries \ {q} : /\ invalidated'[p] = invalidated[p]
                                 /\ pc'[p] = pc[p] /\ want'[p] = want[p]
                                 /\ began'[p] = began[p] /\ since'[p] = since[p]
                                 /\ at'[p] = at[p] /\ gens'[p] = gens[p]
                                 /\ CurrentKey(p)' = CurrentKey(p)
    BY KeyStays
  <1>3. /\ ~invalidated'[q] /\ pc'[q] = "idle"
        /\ began'[q] = 0 /\ DOMAIN gens'[q] = {}
    OBVIOUS
  <1>4. PlaceInv'
    BY <1>2, <1>3 DEF PlaceInv, Resolved, Needed
  <1>5. VisibleInv'
    BY <1>2, <1>3 DEF VisibleInv
  <1>6. FillInv'
    BY <1>2, <1>3 DEF FillInv
  <1>7. RefreshIsNew'
    BY <1>2, <1>3 DEF RefreshIsNew
  <1> QED BY <1>1, <1>4, <1>5, <1>6, <1>7

(* Evictions, the clock and stuttering leave the queries as they are.      *)
LEMMA OtherInv ==
  ASSUME IInv, UNCHANGED <<info, pc, query, at, gens, acquired, invalidated, since>>,
         current' \subseteq current, now' \in Nat, now' >= now
  PROVE  IInv'
  <1> USE DEF IInv, Structure, query
  <1>1. \A p \in Queries : CurrentKey(p)' = CurrentKey(p)
    BY KeyStays
  <1>2. Structure'
    OBVIOUS
  <1>3. PlaceInv'
    BY DEF PlaceInv, Resolved, Needed
  <1>4. VisibleInv' /\ FillInv'
    BY <1>1 DEF VisibleInv, FillInv
  <1>5. RefreshIsNew'
    BY DEF RefreshIsNew
  <1> QED BY <1>2, <1>3, <1>4, <1>5

-----------------------------------------------------------------------------
(* Every step keeps the invariant.                                          *)
LEMMA StepInv == IInv /\ [Next]_vars => IInv'
  <1> SUFFICES ASSUME IInv, [Next]_vars PROVE IInv' OBVIOUS
  <1>1. ASSUME NEW q \in Queries, NEW o \in Options, Begin(q, o) PROVE IInv'
    BY <1>1, BeginInv
  <1>2. ASSUME NEW q \in Queries, NEW r \in Relations,
               \/ Register(q, r)
               \/ Invalidate(q, r)
               \/ \E g \in current : Hit(q, r, g)
               \/ StartFill(q, r)
               \/ \E g \in Generations, t \in 0..MaxClock : Publish(q, r, g, t)
        PROVE IInv'
    BY <1>2, RegisterInv, InvalidateInv, HitInv, StartFillInv, PublishInv
  <1>3. ASSUME NEW q \in Queries, Leave(q) PROVE IInv'
    BY <1>3, LeaveInv
  <1>4. ASSUME NEW g \in current, Evict(g) PROVE IInv'
    BY <1>4, OtherInv DEF Evict, IInv, Structure
  <1>5. CASE Tick
    BY <1>5, OtherInv DEF Tick, IInv, Structure
  <1>6. CASE UNCHANGED vars
    BY <1>6, OtherInv DEF vars, IInv, Structure
  <1> QED BY <1>1, <1>2, <1>3, <1>4, <1>5, <1>6 DEF Next

(* The invariant holds throughout: refreshes are new because every query,   *)
(* fill and visible generation stays in its place.                          *)
THEOREM Invariant == Spec => []IInv
  BY InitInv, StepInv, PTL DEF Spec

(* What a query asked to refresh is published since it began, and rows of  *)
(* a base relation are read since: the refresh waits for a fill that runs, *)
(* and every later fill of the same key begins after it.                   *)
THEOREM RefreshesAreNew == Spec => []RefreshIsNew
  <1>1. IInv => RefreshIsNew
    BY DEF IInv
  <1> QED BY <1>1, Invariant, PTL

-----------------------------------------------------------------------------
(* Dependencies.                                                           *)

IsGraph(next) == \A y \in Relations : next[y] \subseteq Relations

LEMMA ReachedIsClosed ==
  ASSUME NEW r \in Relations, NEW next, IsGraph(next)
  PROVE  /\ r \in Reached(r, next) /\ Reached(r, next) \subseteq Relations
         /\ \A x \in Reached(r, next) : next[x] \subseteq Reached(r, next)
  BY DEF Reached, IsGraph

LEMMA ReachedIsLeast ==
  ASSUME NEW r, NEW next, NEW S, S \subseteq Relations, r \in S, \A y \in S : next[y] \subseteq S
  PROVE  Reached(r, next) \subseteq S
  BY DEF Reached

LEMMA BelowIsClosed ==
  ASSUME NEW r \in Relations
  PROVE  /\ r \in Below[r] /\ Below[r] \subseteq Relations
         /\ \A x \in Below[r] : Deps[x] \subseteq Below[r]
  <1>1. IsGraph(Deps)
    BY ConstantsAssumption DEF ConstantsAssumption, IsGraph
  <1>2. Below[r] = Reached(r, Deps)
    BY DEF Below
  <1> QED BY <1>1, <1>2, ReachedIsClosed

LEMMA BelowIsLeast ==
  ASSUME NEW r \in Relations, NEW S, S \subseteq Relations, r \in S, \A y \in S : Deps[y] \subseteq S
  PROVE  Below[r] \subseteq S
  <1>1. Below[r] = Reached(r, Deps)
    BY DEF Below
  <1> QED BY <1>1, ReachedIsLeast

LEMMA DepsAreRelations ==
  ASSUME NEW r \in Relations
  PROVE  Deps[r] \subseteq Relations
  BY ConstantsAssumption DEF ConstantsAssumption

(* An input of r is a direct input of r or of an input of r.               *)
LEMMA InputsAreDeps ==
  ASSUME NEW r \in Relations
  PROVE  /\ Inputs(r) \subseteq Below[r]
         /\ \A y \in Below[r] : Deps[y] \subseteq Inputs(r)
         /\ \A x \in Inputs(r) : \E y \in Below[r] : x \in Deps[y]
  <1> DEFINE T == {x \in Relations : \E y \in Below[r] : x \in Deps[y]}
  <1>1. T \subseteq Below[r] /\ \A x \in T : Deps[x] \subseteq T
    BY BelowIsClosed, DepsAreRelations
  <1>2. \A d \in Deps[r] : d \in T
    BY BelowIsClosed, DepsAreRelations
  <1>3. ASSUME NEW d \in Deps[r] PROVE Below[d] \subseteq T
    <2>1. d \in Relations /\ T \subseteq Relations /\ d \in T
      BY <1>2
    <2> HIDE DEF T
    <2> QED BY <1>1, <2>1, BelowIsLeast
  <1>4. Inputs(r) \subseteq T
    BY <1>3 DEF Inputs
  <1>5. \A y \in Below[r] : Deps[y] \subseteq Inputs(r)
    <2> DEFINE U == {r} \cup Inputs(r)
    <2>1. \A d \in Deps[r] : d \in Relations /\ d \in Below[d] /\ Below[d] \subseteq Relations
                             /\ \A y \in Below[d] : Deps[y] \subseteq Below[d]
      BY DepsAreRelations, BelowIsClosed
    <2>2. \A y \in U : Deps[y] \subseteq Inputs(r)
      BY <2>1 DEF Inputs
    <2>3. U \subseteq Relations
      BY <2>1 DEF Inputs
    <2> HIDE DEF U
    <2>4. Below[r] \subseteq U
      BY <2>2, <2>3, BelowIsLeast DEF U
    <2> QED BY <2>2, <2>4
  <1> QED BY <1>1, <1>4, <1>5

LEMMA InputsOfInputs ==
  ASSUME NEW r \in Relations, NEW x \in Below[r]
  PROVE  Inputs(x) \subseteq Inputs(r) /\ Below[x] \subseteq Below[r]
  <1>1. x \in Relations /\ Below[r] \subseteq Relations /\ \A y \in Below[r] : Deps[y] \subseteq Below[r]
    BY BelowIsClosed
  <1>2. Below[x] \subseteq Below[r]
    BY <1>1, BelowIsLeast
  <1> QED BY <1>1, <1>2, InputsAreDeps

(* Inputs come first.                                                      *)
Before(n) == {Order[k] : k \in 1..(n - 1)}

LEMMA InputsPrecede ==
  ASSUME NEW n \in DOMAIN Order
  PROVE  /\ Order[n] \in Relations /\ Inputs(Order[n]) \subseteq Before(n)
         /\ Order[n] \notin Before(n)
         /\ \A x \in Before(n) : x \in Relations /\ Inputs(x) \subseteq Before(n)
  <1>1. /\ Order \in Seq(Relations) /\ n \in 1..Len(Order)
        /\ \A k \in 1..Len(Order) : Order[k] \in Relations /\ Deps[Order[k]] \subseteq Before(k)
        /\ \A k, m \in 1..Len(Order) : Order[k] = Order[m] => k = m
    BY ConstantsAssumption DEF ConstantsAssumption, Before
  <1>2. Before(n) \subseteq Relations
    BY <1>1 DEF Before
  <1>3. ASSUME NEW x \in Before(n) PROVE Deps[x] \subseteq Before(n)
    <2>1. PICK k \in 1..(n - 1) : x = Order[k]
      BY DEF Before
    <2>2. k \in 1..Len(Order) /\ Before(k) \subseteq Before(n)
      BY <1>1 DEF Before
    <2> QED BY <1>1, <2>1, <2>2
  <1>4. ASSUME NEW r \in Relations, Deps[r] \subseteq Before(n) PROVE Inputs(r) \subseteq Before(n)
    <2>1. \A d \in Deps[r] : Below[d] \subseteq Before(n)
      BY <1>2, <1>3, <1>4, BelowIsLeast
    <2> QED BY <2>1 DEF Inputs
  <1>5. Order[n] \notin Before(n)
    BY <1>1 DEF Before
  <1> QED BY <1>1, <1>2, <1>3, <1>4, <1>5

-----------------------------------------------------------------------------
(* Identities.                                                             *)

Reads(given, r) == UNION {Deps[x] : x \in Plain(given, r)}

LEMMA IdentityIs ==
  ASSUME NEW given, NEW r
  PROVE  Identity(given, r) =
           [relation |-> r, inputs |-> [d \in Reads(given, r) \cap DOMAIN given |-> given[d]]]
  BY DEF Identity, Reads

LEMMA PlainIsClosed ==
  ASSUME NEW r \in Relations, NEW given
  PROVE  /\ r \in Plain(given, r) /\ Plain(given, r) \subseteq Below[r]
         /\ \A x \in Plain(given, r) : Deps[x] \ DOMAIN given \subseteq Plain(given, r)
         /\ Reads(given, r) \subseteq Inputs(r)
  <1> DEFINE next == [x \in Relations |-> Deps[x] \ DOMAIN given]
  <1>1. IsGraph(next) /\ \A x \in Relations : next[x] = Deps[x] \ DOMAIN given
    BY DepsAreRelations DEF IsGraph
  <1>2. Plain(given, r) = Reached(r, next)
    BY DEF Plain
  <1> HIDE DEF next
  <1>3. /\ r \in Plain(given, r) /\ Plain(given, r) \subseteq Relations
        /\ \A x \in Plain(given, r) : Deps[x] \ DOMAIN given \subseteq Plain(given, r)
    BY <1>1, <1>2, ReachedIsClosed
  <1>4. Plain(given, r) \subseteq Below[r]
    <2>1. r \in Below[r] /\ Below[r] \subseteq Relations /\ \A x \in Below[r] : next[x] \subseteq Below[r]
      BY <1>1, BelowIsClosed
    <2> QED BY <1>2, <2>1, ReachedIsLeast
  <1>5. Reads(given, r) \subseteq Inputs(r)
    BY <1>4, InputsAreDeps DEF Reads
  <1> QED BY <1>3, <1>4, <1>5

LEMMA PlainIsLeast ==
  ASSUME NEW r \in Relations, NEW given, NEW S, S \subseteq Relations, r \in S,
         \A x \in S : Deps[x] \ DOMAIN given \subseteq S
  PROVE  Plain(given, r) \subseteq S
  <1> DEFINE next == [x \in Relations |-> Deps[x] \ DOMAIN given]
  <1>1. \A x \in S : next[x] \subseteq S
    OBVIOUS
  <1>2. Plain(given, r) = Reached(r, next)
    BY DEF Plain
  <1> HIDE DEF next
  <1> QED BY <1>1, <1>2, ReachedIsLeast

(* Frames that gave the same generations to a set of relations.            *)
Same(f, h, S) == \A x \in S : (x \in DOMAIN f <=> x \in DOMAIN h) /\ (x \in DOMAIN f => f[x] = h[x])

(* Only what r reads decides what it reads.                                *)
LEMMA PlainWithin ==
  ASSUME NEW r \in Relations, NEW f, NEW h, Same(f, h, Reads(h, r))
  PROVE  Plain(f, r) \subseteq Plain(h, r)
  <1>1. /\ r \in Plain(h, r) /\ Plain(h, r) \subseteq Relations
        /\ \A x \in Plain(h, r) : Deps[x] \ DOMAIN h \subseteq Plain(h, r)
    BY PlainIsClosed, BelowIsClosed
  <1>2. \A x \in Plain(h, r) : Deps[x] \subseteq Reads(h, r)
    BY DEF Reads
  <1>3. \A x \in Plain(h, r) : Deps[x] \ DOMAIN f \subseteq Plain(h, r)
    BY <1>1, <1>2 DEF Same
  <1> QED BY <1>1, <1>3, PlainIsLeast

LEMMA SameIdentity ==
  ASSUME NEW r \in Relations, NEW f, NEW h, Same(f, h, Reads(h, r))
  PROVE  Identity(f, r) = Identity(h, r) /\ Plain(f, r) = Plain(h, r)
  <1>1. Plain(f, r) \subseteq Plain(h, r)
    BY PlainWithin
  <1>2. Reads(f, r) \subseteq Reads(h, r)
    BY <1>1 DEF Reads
  <1>3. Same(h, f, Reads(f, r))
    BY <1>2 DEF Same
  <1>4. Plain(h, r) \subseteq Plain(f, r)
    BY <1>3, PlainWithin
  <1>5. Reads(f, r) = Reads(h, r)
    BY <1>1, <1>4 DEF Reads
  <1>6. [d \in Reads(f, r) \cap DOMAIN f |-> f[d]] = [d \in Reads(h, r) \cap DOMAIN h |-> h[d]]
    BY <1>5 DEF Same
  <1> QED BY <1>1, <1>4, <1>6, IdentityIs

LEMMA LocalIdentity ==
  ASSUME NEW r \in Relations, NEW f, NEW h, Same(f, h, Inputs(r))
  PROVE  Identity(f, r) = Identity(h, r)
  <1>1. Same(f, h, Reads(h, r))
    BY PlainIsClosed DEF Same
  <1> QED BY <1>1, SameIdentity

(* One identity in two frames: the direct inputs were given the same       *)
(* generations, or have one identity themselves.                           *)
LEMMA IdentityDescends ==
  ASSUME NEW r \in Relations, NEW f, NEW h, Identity(f, r) = Identity(h, r)
  PROVE  /\ Same(f, h, Deps[r])
         /\ \A d \in Deps[r] \ DOMAIN f : Identity(f, d) = Identity(h, d)
  <1> DEFINE F == Reads(f, r) \cap DOMAIN f
             H == Reads(h, r) \cap DOMAIN h
  <1>1. F = H /\ \A d \in F : f[d] = h[d]
    <2>1. [d \in F |-> f[d]] = [d \in H |-> h[d]]
      BY IdentityIs
    <2>2. F = H
      BY <2>1
    <2>3. \A d \in F : [x \in F |-> f[x]][d] = f[d] /\ [x \in H |-> h[x]][d] = h[d]
      BY <2>2
    <2> HIDE DEF F, H
    <2> QED BY <2>1, <2>2, <2>3
  <1>2. /\ r \in Plain(f, r) /\ \A x \in Plain(f, r) : Deps[x] \ DOMAIN f \subseteq Plain(f, r)
        /\ r \in Plain(h, r) /\ \A x \in Plain(h, r) : Deps[x] \ DOMAIN h \subseteq Plain(h, r)
        /\ Plain(f, r) \subseteq Relations
    BY PlainIsClosed, BelowIsClosed
  <1>3. Deps[r] \subseteq Reads(f, r) /\ Deps[r] \subseteq Reads(h, r)
    BY <1>2 DEF Reads
  <1>4. Same(f, h, Deps[r])
    BY <1>1, <1>3 DEF Same
  <1>5. Plain(f, r) = Plain(h, r)
    <2>1. \A x \in Plain(f, r) : Deps[x] \subseteq Reads(f, r)
      BY DEF Reads
    <2>2. \A x \in Plain(h, r) : Deps[x] \subseteq Reads(h, r)
      BY DEF Reads
    <2> DEFINE S == Plain(f, r) \cap Plain(h, r)
    <2>3. \A x \in S : Deps[x] \ DOMAIN f \subseteq S /\ Deps[x] \ DOMAIN h \subseteq S
      BY <1>1, <1>2, <2>1, <2>2
    <2>4. r \in S /\ S \subseteq Relations
      BY <1>2
    <2> HIDE DEF S
    <2>5. Plain(f, r) \subseteq S /\ Plain(h, r) \subseteq S
      BY <2>3, <2>4, PlainIsLeast
    <2> QED BY <2>5 DEF S
  <1>6. Reads(f, r) = Reads(h, r)
    BY <1>5 DEF Reads
  <1>7. Same(f, h, Reads(f, r))
    BY <1>1, <1>6 DEF Same
  <1>8. ASSUME NEW d \in Deps[r] \ DOMAIN f PROVE Identity(f, d) = Identity(h, d)
    <2>1. d \in Plain(h, r) /\ d \in Relations
      BY <1>2, <1>5
    <2>2. Plain(h, d) \subseteq Plain(h, r)
      <3>1. Plain(h, r) \subseteq Relations
        BY <1>2, <1>5
      <3> QED BY <1>2, <2>1, <3>1, PlainIsLeast
    <2>3. Reads(h, d) \subseteq Reads(h, r)
      BY <2>2 DEF Reads
    <2>4. Same(f, h, Reads(h, d))
      BY <1>6, <1>7, <2>3 DEF Same
    <2> QED BY <2>1, <2>4, SameIdentity
  <1> QED BY <1>4, <1>8

-----------------------------------------------------------------------------
(* The generations of a frame.                                             *)

(* Each generation was given for the identity its relation has in f, where *)
(* i holds the manifests.                                                  *)
Consistent(f, i) == \A x \in DOMAIN f : f[x] \in DOMAIN i /\ i[f[x]].key = Identity(f, x)

(* A relation that has one identity in two frames has the same inputs in   *)
(* both, however deep: where inputs were given a generation its key holds  *)
(* their identity.                                                         *)
LEMMA OneIdentityOneFrame ==
  ASSUME NEW r \in Relations, NEW i, NEW f, NEW h, Consistent(f, i), Consistent(h, i),
         Identity(f, r) = Identity(h, r)
  PROVE  Same(f, h, Inputs(r))
  <1> DEFINE S == {y \in Relations : Identity(f, y) = Identity(h, y)}
  <1>1. ASSUME NEW y \in S PROVE Same(f, h, Deps[y]) /\ Deps[y] \subseteq S
    <2>1. /\ Same(f, h, Deps[y])
          /\ \A d \in Deps[y] \ DOMAIN f : Identity(f, d) = Identity(h, d)
      BY IdentityDescends
    <2>2. ASSUME NEW d \in Deps[y], d \in DOMAIN f PROVE Identity(f, d) = Identity(h, d)
      BY <2>1, <2>2 DEF Same, Consistent
    <2> QED BY <2>1, <2>2, DepsAreRelations
  <1>2. Below[r] \subseteq S
    <2>1. r \in S /\ S \subseteq Relations /\ \A y \in S : Deps[y] \subseteq S
      BY <1>1
    <2> HIDE DEF S
    <2> QED BY <2>1, BelowIsLeast
  <1>3. ASSUME NEW x \in Inputs(r) PROVE Same(f, h, {x})
    <2>1. PICK y \in Below[r] : x \in Deps[y]
      BY InputsAreDeps
    <2>2. Same(f, h, Deps[y])
      BY <1>1, <1>2
    <2> QED BY <2>1, <2>2 DEF Same
  <1> QED BY <1>3 DEF Same

-----------------------------------------------------------------------------
(* What a generation and a frame hold.                                     *)

(* A generation was filled from the generations its key names, and was     *)
(* itself read in the time a fill may take, or one of those is older.      *)
GenerationOk(g) ==
    LET from == info[g].from
    IN  /\ info[g].key.relation \in Relations
        /\ info[g].key = Identity(from, info[g].key.relation)
        /\ DOMAIN from \subseteq Inputs(info[g].key.relation) /\ Consistent(from, info)
        /\ info[g].published \in Nat /\ info[g].read \in Nat
        /\ \/ info[g].read >= info[g].published - Timeout
           \/ \E x \in DOMAIN from : info[g].read >= info[from[x]].read

FrameOk(q) ==
    /\ at[q] >= 1 /\ (pc[q] = "idle" => at[q] = 1) /\ (pc[q] # "idle" => want[q] \in Options)
    /\ at[q] - 1 <= Len(Order)
    /\ DOMAIN gens[q] \subseteq Before(at[q]) \cap Resolved(q) /\ Consistent(gens[q], info)
    /\ \A r \in DOMAIN gens[q] : began[q] - info[gens[q][r]].read <= Allowed(q, r) + Timeout
    /\ pc[q] = "fill" => /\ at[q] \in DOMAIN Order /\ Order[at[q]] \in Resolved(q)
                         /\ began[q] <= since[q]

AgeInv ==
    /\ IInv
    /\ \A g \in DOMAIN info : GenerationOk(g)
    /\ \A q \in Queries : FrameOk(q)

-----------------------------------------------------------------------------
(* Ages.                                                                   *)

LEMMA LeastOne ==
  ASSUME NEW T, T \subseteq Nat, T # {}
  PROVE  Min(T) \in T /\ \A t \in T : Min(T) <= t
  <1> DEFINE R == OpToRel(<, Nat)
  <1>1. \E t \in T : \A s \in T : <<s, t>> \notin R
    BY NatLessThanWellFounded, WFMin
  <1>2. PICK t \in T : \A s \in T : ~(s < t)
    BY <1>1 DEF OpToRel
  <1>3. \A s \in T : t <= s
    BY <1>2
  <1> QED BY <1>3 DEF Min

Limits(q, r) == {want[q].age} \cup {Policy[q][x] : x \in {x \in Resolved(q) : r \in Below[x]}}

LEMMA LimitsAreNumbers ==
  ASSUME NEW q \in Queries, want[q] \in Options, NEW r \in Relations
  PROVE  /\ Limits(q, r) \subseteq Nat /\ Allowed(q, r) = Min(Limits(q, r))
         /\ Allowed(q, r) \in Nat /\ \A t \in Limits(q, r) : Allowed(q, r) <= t
         /\ \A x \in Below[r] : Limits(q, r) \subseteq Limits(q, x)
  <1>1. want[q].age \in Nat
    BY ConstantsAssumption DEF ConstantsAssumption
  <1>2. \A x \in Resolved(q) : Policy[q][x] \in Nat
    BY ConstantsAssumption DEF ConstantsAssumption, Resolved
  <1>3. Limits(q, r) \subseteq Nat /\ Limits(q, r) # {}
    BY <1>1, <1>2 DEF Limits
  <1>4. Allowed(q, r) = Min(Limits(q, r))
    BY DEF Allowed, Limits
  <1>5. \A y \in Resolved(q) : y \in Relations
    BY ConstantsAssumption DEF ConstantsAssumption, Resolved
  <1>6. ASSUME NEW x \in Below[r] PROVE Limits(q, r) \subseteq Limits(q, x)
    <2>1. \A y \in Resolved(q) : r \in Below[y] => x \in Below[y]
      BY <1>5, InputsOfInputs
    <2> QED BY <2>1 DEF Limits
  <1> QED BY <1>3, <1>4, <1>6, LeastOne

(* What limits a relation limits its inputs.                               *)
LEMMA LimitsGoDown ==
  ASSUME NEW q \in Queries, want[q] \in Options, NEW r \in Relations, NEW x \in Inputs(r)
  PROVE  Allowed(q, x) \in Nat /\ Allowed(q, r) \in Nat /\ Allowed(q, x) <= Allowed(q, r)
  <1>1. x \in Below[r] /\ x \in Relations
    BY InputsAreDeps, BelowIsClosed
  <1>2. /\ Allowed(q, x) \in Nat /\ \A t \in Limits(q, x) : Allowed(q, x) <= t
        /\ Limits(q, r) \subseteq Limits(q, x)
        /\ Allowed(q, r) = Min(Limits(q, r)) /\ Limits(q, r) \subseteq Nat /\ Allowed(q, r) \in Nat
    BY <1>1, LimitsAreNumbers
  <1>3. Limits(q, r) # {}
    BY DEF Limits
  <1> QED BY <1>2, <1>3, LeastOne

-----------------------------------------------------------------------------
(* Steps.                                                                  *)

LEMMA InitAges == Init => AgeInv
  <1> SUFFICES ASSUME Init PROVE AgeInv OBVIOUS
  <1>1. IInv
    BY InitInv
  <1>2. Len(Order) \in Nat
    BY ConstantsAssumption DEF ConstantsAssumption
  <1> QED BY <1>1, <1>2 DEF AgeInv, Init, FrameOk, Consistent

(* Generations that are there stay as they are, and with them the frames   *)
(* whose queries do not move.                                              *)
InfoStays == \A g \in DOMAIN info : g \in DOMAIN info' /\ info'[g] = info[g]

LEMMA ConsistentStays ==
  ASSUME InfoStays, NEW f, Consistent(f, info)
  PROVE  Consistent(f, info')
  BY DEF InfoStays, Consistent

LEMMA GenerationStays ==
  ASSUME InfoStays, NEW g \in DOMAIN info, GenerationOk(g)
  PROVE  GenerationOk(g)'
  <1>1. info'[g] = info[g]
    BY DEF InfoStays
  <1>2. Consistent(info[g].from, info) /\ \A x \in DOMAIN info[g].from : info'[info[g].from[x]] = info[info[g].from[x]]
    BY DEF GenerationOk, Consistent, InfoStays
  <1>3. Consistent(info[g].from, info)'
    BY <1>1, <1>2, ConsistentStays
  <1> QED BY <1>1, <1>2, <1>3 DEF GenerationOk

LEMMA AllowedStays ==
  ASSUME NEW q \in Queries, NEW r, want'[q] = want[q]
  PROVE  Allowed(q, r)' = Allowed(q, r) /\ Resolved(q)' = Resolved(q)
  BY DEF Allowed, Resolved, Needed

LEMMA FrameStays ==
  ASSUME InfoStays, NEW q \in Queries, FrameOk(q),
         want'[q] = want[q], gens'[q] = gens[q], at'[q] = at[q], began'[q] = began[q],
         pc'[q] = "idle" <=> pc[q] = "idle",
         pc'[q] = "fill" => /\ at[q] \in DOMAIN Order /\ Order[at[q]] \in Resolved(q)
                            /\ began[q] <= since'[q]
  PROVE  FrameOk(q)'
  <1>1. Resolved(q)' = Resolved(q) /\ \A r : Allowed(q, r)' = Allowed(q, r)
    BY AllowedStays
  <1>2. Consistent(gens[q], info)'
    BY ConsistentStays DEF FrameOk
  <1>3. \A r \in DOMAIN gens[q] : info'[gens[q][r]] = info[gens[q][r]]
    BY DEF FrameOk, Consistent, InfoStays
  <1> QED BY <1>1, <1>2, <1>3 DEF FrameOk

(* A relation is bound to a generation of its identity. What it was filled *)
(* from is what the frame has; either its own rows are recent enough or it *)
(* is no older than one of those.                                          *)
LEMMA BindKeepsFrame ==
  ASSUME AgeInv, InfoStays, NEW q \in Queries, NEW r, NEW g \in DOMAIN info', GenerationOk(g)',
         pc[q] # "idle", at[q] \in DOMAIN Order, r = Order[at[q]], r \in Resolved(q),
         Bind(q, r, g), pc'[q] = "frame", want'[q] = want[q], began'[q] = began[q],
         info'[g].key = Key(q, r),
         info'[g].read >= info'[g].published - Timeout
             => began[q] - info'[g].published <= Allowed(q, r)
  PROVE  FrameOk(q)'
  <1> DEFINE old == gens[q]
             new == [x \in DOMAIN old \cup {r} |-> IF x = r THEN g ELSE old[x]]
  <1>1. FrameOk(q) /\ DOMAIN gens = Queries /\ at[q] \in Nat /\ DOMAIN at = Queries /\ began[q] \in Nat
    BY DEF AgeInv, IInv, Structure
  <1>2. gens'[q] = new /\ at'[q] = at[q] + 1
    BY <1>1 DEF Bind, Advance
  <1>3. at[q] \in 1..Len(Order) /\ Len(Order) \in Nat /\ Timeout \in Nat
    BY ConstantsAssumption DEF ConstantsAssumption
  <1>4. /\ r \in Relations /\ Inputs(r) \subseteq Before(at[q]) /\ r \notin Before(at[q])
        /\ \A x \in Before(at[q]) : x \in Relations /\ Inputs(x) \subseteq Before(at[q])
    BY InputsPrecede
  <1>5. DOMAIN old \subseteq Before(at[q]) /\ DOMAIN old \subseteq Resolved(q) /\ r \notin DOMAIN old
    BY <1>1, <1>4 DEF FrameOk
  <1>6. /\ DOMAIN new = DOMAIN old \cup {r} /\ new[r] = g
        /\ \A x \in DOMAIN old : new[x] = old[x]
    BY <1>5
  <1>7. Before(at[q]) \cup {r} \subseteq Before(at[q] + 1)
    BY <1>3 DEF Before
  <1>8. Resolved(q)' = Resolved(q) /\ \A x : Allowed(q, x)' = Allowed(q, x)
    BY AllowedStays
  <1>9. \A x \in DOMAIN old : old[x] \in DOMAIN info /\ old[x] \in DOMAIN info' /\ info'[old[x]] = info[old[x]]
                              /\ info[old[x]].key = Identity(old, x)
                              /\ began[q] - info[old[x]].read <= Allowed(q, x) + Timeout
    BY <1>1 DEF FrameOk, Consistent, InfoStays
  <1>10. Key(q, r) = Identity(old, r)
    BY DEF Key
  <1> HIDE DEF new, old
  <1>11. \A x \in DOMAIN old \cup {r} : Identity(new, x) = Identity(old, x)
    <2> TAKE x \in DOMAIN old \cup {r}
    <2>1. x \in Relations /\ r \notin Inputs(x)
      BY <1>4, <1>5
    <2>2. Same(new, old, Inputs(x))
      BY <1>6, <2>1 DEF Same
    <2> QED BY <2>1, <2>2, LocalIdentity
  <1>12. Consistent(new, info')
    BY <1>6, <1>9, <1>10, <1>11 DEF Consistent
  <1>13. ASSUME NEW x \in DOMAIN new
         PROVE  began[q] - info'[new[x]].read <= Allowed(q, x) + Timeout
    <2>1. CASE x \in DOMAIN old
      BY <1>6, <1>9, <2>1
    <2>2. CASE x = r
      <3> DEFINE from == info'[g].from
      <3>1. /\ info'[g].key = Identity(from, info'[g].key.relation)
            /\ DOMAIN from \subseteq Inputs(info'[g].key.relation) /\ Consistent(from, info')
            /\ info'[g].published \in Nat /\ info'[g].read \in Nat
            /\ \/ info'[g].read >= info'[g].published - Timeout
               \/ \E y \in DOMAIN from : info'[g].read >= info'[from[y]].read
        BY DEF GenerationOk
      <3>2. info'[g].key.relation = r /\ info'[g].key = Identity(new, r)
        <4>1. Identity(old, r).relation = r
          BY IdentityIs
        <4> QED BY <1>10, <1>11, <4>1
      <3>3. Allowed(q, r) \in Nat
        BY <1>1, <1>4, LimitsAreNumbers DEF FrameOk
      <3>4. CASE info'[g].read >= info'[g].published - Timeout
        BY <1>1, <1>3, <1>6, <2>2, <3>1, <3>3, <3>4
      <3>5. CASE \E y \in DOMAIN from : info'[g].read >= info'[from[y]].read
        <4>1. PICK y \in DOMAIN from : info'[g].read >= info'[from[y]].read
          BY <3>5
        <4>2. Same(from, new, Inputs(r))
          BY <1>4, <1>12, <3>1, <3>2, OneIdentityOneFrame
        <4>3. y \in Inputs(r) /\ y \in DOMAIN new /\ from[y] = new[y] /\ y # r
          BY <1>4, <3>1, <3>2, <4>1, <4>2 DEF Same
        <4>4. y \in DOMAIN old /\ from[y] = old[y]
          BY <1>6, <4>3
        <4>5. began[q] - info'[from[y]].read <= Allowed(q, y) + Timeout
          BY <1>9, <4>4
        <4>6. Allowed(q, y) \in Nat /\ Allowed(q, y) <= Allowed(q, r)
          BY <1>1, <1>4, <4>3, LimitsGoDown DEF FrameOk
        <4>7. info'[from[y]].read \in Nat
          <5>1. old[y] \in DOMAIN info /\ info'[old[y]] = info[old[y]]
            BY <1>9, <4>4
          <5>2. \A h \in DOMAIN info : info[h].read \in Nat
            BY DEF AgeInv, GenerationOk
          <5> QED BY <4>4, <5>1, <5>2
        <4>8. began[q] - info'[from[y]].read <= Allowed(q, r) + Timeout
          <5> HIDE DEF from
          <5> QED BY <1>1, <1>3, <3>3, <4>5, <4>6, <4>7
        <4>9. began[q] - info'[g].read <= Allowed(q, r) + Timeout
          <5>1. info'[g].read \in Nat
            BY <3>1
          <5> HIDE DEF from
          <5> QED BY <1>1, <1>3, <3>3, <4>1, <4>7, <4>8, <5>1
        <4> QED BY <1>6, <2>2, <4>9
      <3> QED BY <3>1, <3>4, <3>5
    <2> QED BY <1>6, <2>1, <2>2
  <1>14. DOMAIN new \subseteq Before(at[q] + 1) /\ DOMAIN new \subseteq Resolved(q)
    BY <1>5, <1>6, <1>7
  <1> QED BY <1>1, <1>2, <1>3, <1>8, <1>12, <1>13, <1>14 DEF FrameOk

(* Who does not move keeps its frame, and manifests hold what they held.   *)
StaysPut(p) ==
    /\ pc'[p] = pc[p] /\ want'[p] = want[p] /\ began'[p] = began[p]
    /\ at'[p] = at[p] /\ gens'[p] = gens[p] /\ since'[p] = since[p]

LEMMA OthersKeepFrames ==
  ASSUME AgeInv, InfoStays, NEW p \in Queries, StaysPut(p)
  PROVE  FrameOk(p)'
  <1>1. FrameOk(p)
    BY DEF AgeInv
  <1>2. pc[p] = "fill" => /\ at[p] \in DOMAIN Order /\ Order[at[p]] \in Resolved(p)
                          /\ began[p] <= since[p]
    BY <1>1 DEF FrameOk
  <1> QED BY <1>1, <1>2, FrameStays DEF StaysPut

LEMMA GenerationsStay ==
  ASSUME AgeInv, info' = info
  PROVE  InfoStays /\ \A g \in DOMAIN info' : GenerationOk(g)'
  <1>1. InfoStays
    BY DEF InfoStays
  <1>2. \A g \in DOMAIN info : GenerationOk(g)
    BY DEF AgeInv
  <1> QED BY <1>1, <1>2, GenerationStays

(* A query that begins has an empty frame.                                 *)
LEMMA BeginAges ==
  ASSUME AgeInv, NEW q \in Queries, NEW o \in Options, Begin(q, o)
  PROVE  AgeInv'
  <1>1. IInv'
    BY BeginInv DEF AgeInv
  <1>2. InfoStays /\ \A g \in DOMAIN info' : GenerationOk(g)'
    BY GenerationsStay DEF Begin
  <1>3. IInv /\ FrameOk(q) /\ DOMAIN want = Queries /\ DOMAIN gens[q] = {}
    BY DEF AgeInv, IInv, Structure, PlaceInv, Begin
  <1>4. pc'[q] = "frame" /\ want'[q] = o /\ gens' = gens /\ at' = at
    BY <1>3 DEF Begin, IInv, Structure
  <1>5. \A p \in Queries \ {q} : StaysPut(p)
    BY <1>3 DEF Begin, IInv, Structure, StaysPut, query
  <1>6. Consistent(gens[q], info)'
    BY <1>3, <1>4 DEF Consistent
  <1>7. FrameOk(q)'
    BY <1>3, <1>4, <1>6 DEF FrameOk
  <1>8. \A p \in Queries \ {q} : FrameOk(p)'
    BY <1>2, <1>5, OthersKeepFrames
  <1> QED BY <1>1, <1>2, <1>7, <1>8 DEF AgeInv

(* A relation that is not cached adds nothing to the frame.                *)
LEMMA RegisterAges ==
  ASSUME AgeInv, NEW q \in Queries, NEW r \in Relations, Register(q, r)
  PROVE  AgeInv'
  <1>1. IInv'
    BY RegisterInv DEF AgeInv
  <1>2. InfoStays /\ \A g \in DOMAIN info' : GenerationOk(g)'
    BY GenerationsStay DEF Register
  <1>3. IInv /\ FrameOk(q) /\ at \in [Queries -> Nat] /\ Len(Order) \in Nat
    BY ConstantsAssumption DEF ConstantsAssumption, AgeInv, IInv, Structure
  <1>4. /\ pc[q] = "frame" /\ at[q] \in DOMAIN Order /\ at'[q] = at[q] + 1 /\ at[q] \in Nat
        /\ pc' = pc /\ want' = want /\ gens' = gens /\ began' = began /\ since' = since
    BY <1>3 DEF Register, AtRelation, Advance, query
  <1>5. \A p \in Queries \ {q} : StaysPut(p)
    <2>1. \A p \in Queries \ {q} : at'[p] = at[p]
      BY <1>3 DEF Register, Advance
    <2> QED BY <1>4, <2>1 DEF StaysPut
  <1>6. Resolved(q)' = Resolved(q) /\ \A x : Allowed(q, x)' = Allowed(q, x)
    BY <1>4, AllowedStays
  <1>7. Consistent(gens[q], info)'
    <2>1. Consistent(gens[q], info')
      BY <1>2, <1>3, ConsistentStays DEF FrameOk
    <2> QED BY <1>4, <2>1
  <1>8. info' = info
    BY DEF Register
  <1>9. Before(at[q]) \subseteq Before(at[q] + 1)
    BY <1>4 DEF Before
  <1>10. at[q] \in 1..Len(Order)
    BY <1>4, ConstantsAssumption DEF ConstantsAssumption
  <1>11. at'[q] >= 1 /\ at'[q] - 1 <= Len(Order)
    BY <1>3, <1>4, <1>10
  <1>12. DOMAIN gens'[q] \subseteq Before(at'[q]) \cap Resolved(q)'
    BY <1>3, <1>4, <1>6, <1>9 DEF FrameOk
  <1>13. \A x \in DOMAIN gens'[q] : began'[q] - info'[gens'[q][x]].read <= Allowed(q, x)' + Timeout
    BY <1>3, <1>4, <1>6, <1>8 DEF FrameOk
  <1>14. FrameOk(q)'
    BY <1>3, <1>4, <1>7, <1>11, <1>12, <1>13 DEF FrameOk
  <1>15. \A p \in Queries \ {q} : FrameOk(p)'
    BY <1>2, <1>5, OthersKeepFrames
  <1> QED BY <1>1, <1>2, <1>14, <1>15 DEF AgeInv

(* Taking files out of sight, the clock and stuttering change no frame.    *)
LEMMA StillAges ==
  ASSUME AgeInv, IInv', info' = info,
         UNCHANGED <<pc, query, at, gens, since>>
  PROVE  AgeInv'
  <1>1. InfoStays /\ \A g \in DOMAIN info' : GenerationOk(g)'
    BY GenerationsStay
  <1>2. \A p \in Queries : StaysPut(p)
    BY DEF StaysPut, query
  <1>3. \A p \in Queries : FrameOk(p)'
    BY <1>1, <1>2, OthersKeepFrames
  <1> QED BY <1>1, <1>3 DEF AgeInv

(* What is visible under the key of r and young enough for r.               *)
LEMMA HitAges ==
  ASSUME AgeInv, NEW q \in Queries, NEW r \in Relations, NEW g \in current, Hit(q, r, g)
  PROVE  AgeInv'
  <1>1. IInv'
    BY HitInv DEF AgeInv
  <1>2. InfoStays /\ \A h \in DOMAIN info' : GenerationOk(h)'
    BY GenerationsStay DEF Hit
  <1>3. IInv /\ FrameOk(q) /\ g \in DOMAIN info /\ now \in Nat /\ began[q] \in Nat /\ began[q] <= now
    BY DEF AgeInv, IInv, Structure, PlaceInv
  <1>4. /\ pc[q] = "frame" /\ at[q] \in DOMAIN Order /\ r = Order[at[q]] /\ r \in Resolved(q)
        /\ Bind(q, r, g) /\ pc' = pc /\ want' = want /\ began' = began /\ since' = since
        /\ info' = info /\ g \in Fresh(q, r)
    BY DEF Hit, Resolving, AtRelation, query
  <1>5. info[g].key = Key(q, r) /\ now - info[g].published <= Allowed(q, r)
    BY <1>4 DEF Fresh, Visible
  <1>6. info[g].published \in Nat /\ Allowed(q, r) \in Nat
    <2>1. GenerationOk(g) /\ want[q] \in Options
      BY <1>3, <1>4 DEF AgeInv, FrameOk
    <2> QED BY <2>1, LimitsAreNumbers DEF GenerationOk
  <1>7. began[q] - info'[g].published <= Allowed(q, r)
    BY <1>3, <1>4, <1>5, <1>6
  <1>8. FrameOk(q)'
    <2>1. g \in DOMAIN info' /\ GenerationOk(g)' /\ info'[g].key = Key(q, r)
      BY <1>2, <1>3, <1>4, <1>5
    <2> QED BY <1>2, <1>4, <1>7, <2>1, BindKeepsFrame
  <1>9. \A p \in Queries \ {q} : StaysPut(p)
    <2>1. \A p \in Queries \ {q} : at'[p] = at[p] /\ gens'[p] = gens[p]
      BY <1>3, <1>4 DEF Bind, Advance, IInv, Structure
    <2> QED BY <1>4, <2>1 DEF StaysPut
  <1>10. \A p \in Queries \ {q} : FrameOk(p)'
    BY <1>2, <1>9, OthersKeepFrames
  <1> QED BY <1>1, <1>2, <1>8, <1>10 DEF AgeInv

(* A fill begins no earlier than its query.                                *)
LEMMA StartFillAges ==
  ASSUME AgeInv, NEW q \in Queries, NEW r \in Relations, StartFill(q, r)
  PROVE  AgeInv'
  <1>1. IInv'
    BY StartFillInv DEF AgeInv
  <1>2. InfoStays /\ \A h \in DOMAIN info' : GenerationOk(h)'
    BY GenerationsStay DEF StartFill
  <1>3. /\ IInv /\ FrameOk(q) /\ began[q] <= now
        /\ pc \in [Queries -> {"idle", "frame", "fill"}] /\ since \in [Queries -> Nat]
    BY DEF AgeInv, IInv, Structure, PlaceInv
  <1>4. /\ pc[q] = "frame" /\ at[q] \in DOMAIN Order /\ Order[at[q]] \in Resolved(q)
        /\ want' = want /\ began' = began /\ gens' = gens /\ at' = at
        /\ pc' = [pc EXCEPT ![q] = "fill"] /\ since' = [since EXCEPT ![q] = now]
    BY DEF StartFill, Resolving, AtRelation, query
  <1>5. pc'[q] = "fill" /\ since'[q] = now
    BY <1>3, <1>4
  <1>6. FrameOk(q)'
    BY <1>2, <1>3, <1>4, <1>5, FrameStays
  <1>7. \A p \in Queries \ {q} : StaysPut(p)
    BY <1>3, <1>4 DEF StaysPut
  <1>8. \A p \in Queries \ {q} : FrameOk(p)'
    BY <1>2, <1>7, OthersKeepFrames
  <1> QED BY <1>1, <1>2, <1>6, <1>8 DEF AgeInv

(* What is published names in its key what it was filled from, and was     *)
(* read in the time the fill took or has the age of one of those.          *)
LEMMA PublishAges ==
  ASSUME AgeInv, NEW q \in Queries, NEW r \in Relations, NEW g \in Generations,
         NEW t \in 0..MaxClock, Publish(q, r, g, t)
  PROVE  AgeInv'
  <1> DEFINE from == [x \in Inputs(r) \cap DOMAIN gens[q] |-> gens[q][x]]
             Reads1 == {t} \cup {info[from[x]].read : x \in DOMAIN from}
             manifest == [key |-> Key(q, r), published |-> now, acquired |-> acquired[q][r],
                          read |-> Min(Reads1), from |-> from]
  <1>1. IInv'
    BY PublishInv DEF AgeInv
  <1>2. /\ pc[q] = "fill" /\ r = Order[at[q]] /\ InTime(q) /\ g \notin DOMAIN info
        /\ t \in since[q]..now /\ Bind(q, r, g)
        /\ info' = [x \in DOMAIN info \cup {g} |-> IF x = g THEN manifest ELSE info[x]]
        /\ pc' = [pc EXCEPT ![q] = "frame"]
        /\ want' = want /\ began' = began /\ since' = since
    BY DEF Publish, query
  <1>3. /\ FrameOk(q) /\ began[q] <= now /\ now \in Nat /\ began[q] \in Nat /\ since[q] \in Nat
        /\ pc \in [Queries -> {"idle", "frame", "fill"}] /\ DOMAIN gens = Queries
        /\ at \in [Queries -> Nat]
    BY DEF AgeInv, IInv, Structure, PlaceInv
  <1>4. /\ at[q] \in DOMAIN Order /\ r \in Resolved(q) /\ began[q] <= since[q] /\ want[q] \in Options
        /\ Consistent(gens[q], info)
    BY <1>2, <1>3 DEF FrameOk
  <1>5. InfoStays
    BY <1>2 DEF InfoStays
  <1>6. g \in DOMAIN info' /\ info'[g] = manifest
    BY <1>2
  <1>7. /\ info'[g].key = Key(q, r) /\ info'[g].published = now
        /\ info'[g].read = Min(Reads1) /\ info'[g].from = from
    BY <1>6
  <1>8. /\ DOMAIN from = Inputs(r) \cap DOMAIN gens[q] /\ \A x \in DOMAIN from : from[x] = gens[q][x]
        /\ \A x \in DOMAIN from : from[x] \in DOMAIN info /\ info'[from[x]] = info[from[x]]
        /\ \A x \in DOMAIN from : info[from[x]].read \in Nat
    <2>1. \A x \in DOMAIN gens[q] : gens[q][x] \in DOMAIN info
      BY <1>4 DEF Consistent
    <2>2. \A h \in DOMAIN info : info[h].read \in Nat
      BY DEF AgeInv, GenerationOk
    <2> QED BY <1>5, <2>1, <2>2 DEF InfoStays
  <1>9. Reads1 \subseteq Nat /\ Reads1 # {} /\ t \in Nat
    <2>1. t \in Nat
      BY <1>2, <1>3
    <2>2. {info[from[x]].read : x \in DOMAIN from} \subseteq Nat
      BY <1>8
    <2> HIDE DEF from
    <2> QED BY <2>1, <2>2
  <1>10. PICK least : least = Min(Reads1)
    OBVIOUS
  <1>10a. /\ least \in Nat
          /\ least = t \/ \E x \in DOMAIN from : least = info[from[x]].read
    <2>1. least \in Reads1
      BY <1>9, <1>10, LeastOne
    <2> HIDE DEF from
    <2> QED BY <1>9, <2>1
  <1>11. Identity(from, r) = Key(q, r)
    <2>1. Same(from, gens[q], Inputs(r))
      BY <1>8 DEF Same
    <2> QED BY <2>1, LocalIdentity DEF Key
  <1>12. Key(q, r).relation = r
    BY IdentityIs DEF Key
  <1>13. Consistent(from, info')
    <2>1. ASSUME NEW x \in DOMAIN from PROVE info'[from[x]].key = Identity(from, x)
      <3>1. x \in Below[r] /\ x \in Relations /\ Inputs(x) \subseteq Inputs(r)
        BY <1>8, InputsAreDeps, InputsOfInputs, BelowIsClosed
      <3>2. Same(from, gens[q], Inputs(x))
        BY <1>8, <3>1 DEF Same
      <3>3. Identity(from, x) = Identity(gens[q], x)
        BY <3>1, <3>2, LocalIdentity
      <3>4. info[gens[q][x]].key = Identity(gens[q], x)
        BY <1>4, <1>8 DEF Consistent
      <3> QED BY <1>8, <3>3, <3>4
    <2>2. \A x \in DOMAIN from : from[x] \in DOMAIN info'
      BY <1>5, <1>8 DEF InfoStays
    <2> QED BY <2>1, <2>2 DEF Consistent
  <1>14. t >= began[q] /\ now - Timeout <= began[q] /\ Timeout \in Nat
    BY <1>2, <1>3, <1>4, ConstantsAssumption DEF ConstantsAssumption, InTime
  <1> HIDE DEF from, Reads1, manifest
  <1>15. \/ info'[g].read >= now - Timeout
         \/ \E x \in DOMAIN from : info'[g].read >= info'[from[x]].read
    <2>1. info'[g].read = least
      BY <1>7, <1>10
    <2>2. CASE least = t
      BY <1>3, <1>9, <1>14, <2>1, <2>2
    <2>3. CASE \E x \in DOMAIN from : least = info[from[x]].read
      <3>1. PICK x \in DOMAIN from : least = info[from[x]].read
        BY <2>3
      <3>2. info'[from[x]].read = least
        BY <1>8, <3>1
      <3> QED BY <1>10a, <2>1, <3>2
    <2> QED BY <1>10a, <2>2, <2>3
  <1>16. info'[g].read \in Nat
    BY <1>7, <1>10, <1>10a
  <1>17. GenerationOk(g)'
    BY <1>3, <1>7, <1>8, <1>11, <1>12, <1>13, <1>15, <1>16 DEF GenerationOk
  <1>18. \A h \in DOMAIN info' : GenerationOk(h)'
    <2>1. \A h \in DOMAIN info' : h = g \/ h \in DOMAIN info
      BY <1>2
    <2>2. \A h \in DOMAIN info : GenerationOk(h)'
      BY <1>5, GenerationStays DEF AgeInv
    <2> QED BY <1>17, <2>1, <2>2
  <1>19. began[q] - info'[g].published <= Allowed(q, r)
    <2>1. Allowed(q, r) \in Nat
      BY <1>4, LimitsAreNumbers
    <2> QED BY <1>3, <1>7, <2>1
  <1>20. FrameOk(q)'
    <2>1. pc[q] # "idle" /\ pc'[q] = "frame"
      BY <1>2, <1>3
    <2> QED BY <1>2, <1>4, <1>5, <1>6, <1>7, <1>17, <1>19, <2>1, BindKeepsFrame
  <1>21. \A p \in Queries \ {q} : StaysPut(p)
    <2>1. \A p \in Queries \ {q} : at'[p] = at[p] /\ gens'[p] = gens[p]
      BY <1>2, <1>3 DEF Bind, Advance
    <2>2. \A p \in Queries \ {q} : pc'[p] = pc[p]
      BY <1>2, <1>3
    <2> QED BY <1>2, <2>1, <2>2 DEF StaysPut
  <1>22. \A p \in Queries \ {q} : FrameOk(p)'
    BY <1>5, <1>21, OthersKeepFrames
  <1> QED BY <1>1, <1>18, <1>20, <1>22 DEF AgeInv

(* A query that ends leaves an empty frame.                                *)
LEMMA LeaveAges ==
  ASSUME AgeInv, NEW q \in Queries, Leave(q)
  PROVE  AgeInv'
  <1>1. IInv'
    BY LeaveInv DEF AgeInv
  <1>2. InfoStays /\ \A h \in DOMAIN info' : GenerationOk(h)'
    BY GenerationsStay DEF Leave
  <1>3. /\ pc'[q] = "idle" /\ at'[q] = 1 /\ gens'[q] = << >> /\ Len(Order) \in Nat
    BY ConstantsAssumption DEF ConstantsAssumption, Leave, AgeInv, IInv, Structure
  <1>4. Consistent(gens[q], info)'
    BY <1>3 DEF Consistent
  <1>5. FrameOk(q)'
    BY <1>3, <1>4 DEF FrameOk
  <1>6. \A p \in Queries \ {q} : StaysPut(p)
    BY DEF Leave, AgeInv, IInv, Structure, StaysPut
  <1>7. \A p \in Queries \ {q} : FrameOk(p)'
    BY <1>2, <1>6, OthersKeepFrames
  <1> QED BY <1>1, <1>2, <1>5, <1>7 DEF AgeInv

LEMMA StepAges == AgeInv /\ [Next]_vars => AgeInv'
  <1> SUFFICES ASSUME AgeInv, [Next]_vars PROVE AgeInv' OBVIOUS
  <1>0. IInv'
    BY StepInv DEF AgeInv
  <1>1. ASSUME NEW q \in Queries, NEW o \in Options, Begin(q, o) PROVE AgeInv'
    BY <1>1, BeginAges
  <1>2. ASSUME NEW q \in Queries, NEW r \in Relations, Register(q, r) PROVE AgeInv'
    BY <1>2, RegisterAges
  <1>3. ASSUME NEW q \in Queries, NEW r \in Relations, Invalidate(q, r) PROVE AgeInv'
    BY <1>0, <1>3, StillAges DEF Invalidate
  <1>4. ASSUME NEW q \in Queries, NEW r \in Relations, NEW g \in current, Hit(q, r, g) PROVE AgeInv'
    BY <1>4, HitAges
  <1>5. ASSUME NEW q \in Queries, NEW r \in Relations, StartFill(q, r) PROVE AgeInv'
    BY <1>5, StartFillAges
  <1>6. ASSUME NEW q \in Queries, NEW r \in Relations, NEW g \in Generations,
               NEW t \in 0..MaxClock, Publish(q, r, g, t)
        PROVE  AgeInv'
    BY <1>6, PublishAges
  <1>7. ASSUME NEW q \in Queries, Leave(q) PROVE AgeInv'
    BY <1>7, LeaveAges
  <1>8. ASSUME NEW g \in current, Evict(g) PROVE AgeInv'
    BY <1>0, <1>8, StillAges DEF Evict
  <1>9. CASE Tick
    BY <1>0, <1>9, StillAges DEF Tick
  <1>10. CASE UNCHANGED vars
    BY <1>0, <1>10, StillAges DEF vars
  <1> QED BY <1>1, <1>2, <1>3, <1>4, <1>5, <1>6, <1>7, <1>8, <1>9, <1>10 DEF Next

(* Frames and manifests fit, and no data is older than its limits, always. *)
THEOREM AgeInvariant == Spec => []AgeInv
  BY InitAges, StepAges, PTL DEF Spec

-----------------------------------------------------------------------------
(* A view and the frame that scans it agree on the generation of every     *)
(* relation both read: the key the view was found under is the identity it *)
(* was filled with, and the same identity is the same frame of inputs.     *)
LEMMA FramesAgree == AgeInv => OneGenerationPerFrame
  <1> SUFFICES ASSUME AgeInv, NEW q \in Queries, NEW r \in DOMAIN gens[q]
               PROVE  \A x \in DOMAIN info[gens[q][r]].from :
                         /\ x \in DOMAIN gens[q]
                         /\ gens[q][x] = info[gens[q][r]].from[x]
    BY DEF OneGenerationPerFrame
  <1>1. PICK g : g = gens[q][r]
    OBVIOUS
  <1>2. PICK from : from = info[g].from
    OBVIOUS
  <1>3. PICK frame : frame = gens[q]
    OBVIOUS
  <1>4. Consistent(frame, info) /\ g \in DOMAIN info /\ info[g].key = Identity(frame, r)
    BY <1>1, <1>3 DEF AgeInv, FrameOk, Consistent
  <1>5. /\ info[g].key = Identity(from, info[g].key.relation)
        /\ info[g].key.relation \in Relations
        /\ DOMAIN from \subseteq Inputs(info[g].key.relation) /\ Consistent(from, info)
    BY <1>2, <1>4 DEF AgeInv, GenerationOk
  <1>6. info[g].key.relation = r
    <2>1. Identity(frame, r).relation = r
      BY DEF Identity
    <2> QED BY <1>4, <2>1
  <1>7. Same(from, frame, Inputs(r))
    BY <1>4, <1>5, <1>6, OneIdentityOneFrame
  <1> QED BY <1>1, <1>2, <1>3, <1>5, <1>6, <1>7 DEF Same

THEOREM OneGeneration == Spec => []OneGenerationPerFrame
  BY AgeInvariant, FramesAgree, PTL

(* The rows a frame scans were read from their sources no longer before    *)
(* the query than the relation's limit and one fill: the limit went down   *)
(* to every input, and a fill lasts no longer than the query that runs it. *)
LEMMA AgesFit == AgeInv => DataWithinLimits
  <1> SUFFICES ASSUME AgeInv, NEW q \in Queries, NEW r \in DOMAIN gens[q]
               PROVE  began[q] - info[gens[q][r]].read
                          <= Min({want[q].age, Policy[q][r]}) + Timeout
    BY DEF DataWithinLimits
  <1>1. PICK limits : limits = {want[q].age, Policy[q][r]}
    OBVIOUS
  <1>2. /\ FrameOk(q) /\ pc[q] \in {"idle", "frame", "fill"} /\ began[q] \in Nat
        /\ pc[q] = "idle" => DOMAIN gens[q] = {}
    BY DEF AgeInv, IInv, Structure, PlaceInv
  <1>3. want[q] \in Options /\ r \in Resolved(q) /\ gens[q][r] \in DOMAIN info
        /\ began[q] - info[gens[q][r]].read <= Allowed(q, r) + Timeout
    BY <1>2 DEF FrameOk, Consistent
  <1>4. r \in Relations /\ r \in Below[r]
    BY <1>3, ConstantsAssumption, BelowIsClosed DEF ConstantsAssumption, Resolved
  <1>5. limits \subseteq Limits(q, r)
    BY <1>1, <1>3, <1>4 DEF Limits
  <1>6. /\ Allowed(q, r) \in Nat /\ Limits(q, r) \subseteq Nat
        /\ \A t \in Limits(q, r) : Allowed(q, r) <= t
    BY <1>3, <1>4, LimitsAreNumbers
  <1>7. limits \subseteq Nat /\ limits # {}
    BY <1>1, <1>5, <1>6
  <1>8. Min(limits) \in limits
    BY <1>7, LeastOne
  <1>9. Min(limits) \in Nat /\ Allowed(q, r) <= Min(limits)
    BY <1>5, <1>6, <1>7, <1>8
  <1>10. info[gens[q][r]].read \in Nat
    BY <1>3 DEF AgeInv, GenerationOk
  <1>11. Timeout \in Nat
    BY ConstantsAssumption DEF ConstantsAssumption
  <1> QED BY <1>1, <1>2, <1>3, <1>6, <1>9, <1>10, <1>11

THEOREM AgesWithinLimits == Spec => []DataWithinLimits
  BY AgeInvariant, AgesFit, PTL
=============================================================================
