------------------------- MODULE CatalogStoreProofs -------------------------
(***************************************************************************)
(* Proofs about the catalog store, whatever definitions and batches there  *)
(* are and however many writers and readers: optimistic publication loses  *)
(* no update, incremental validation is exact, the report of what may be   *)
(* affected leaves nothing out, and search indexes fit their snapshots.    *)
(***************************************************************************)
EXTENDS CatalogStore, SequenceTheorems, FiniteSetTheorems, WellFoundedInduction, TLAPS

(* What a writer holds while it publishes: its copy has the revision it expects, and its draft *)
(* is what the batch makes of that.                                                            *)
DraftOk(w) ==
    /\ publisher[w].pc \in {"apply", "commit"} =>
          /\ publisher[w].base \in DOMAIN snapshots
          /\ CatalogOf(publisher[w].base) = publisher[w].expects
    /\ publisher[w].pc = "commit" /\ publisher[w].draft # Absent =>
          publisher[w].draft.catalog = Applied(publisher[w].expects, publisher[w].batch)

StoreInv ==
    /\ \E S : snapshots \in Seq(S)
    /\ latest \in DOMAIN snapshots
    /\ publisher = [w \in Writers |-> publisher[w]]
    /\ reader = [r \in Readers |-> reader[r]]
    /\ \A r \in Readers : reader[r].pc # "idle" => reader[r].at \in DOMAIN snapshots
    /\ \A w \in Writers : DraftOk(w)

(* Published snapshots keep their catalogs. *)
Kept == \A s \in DOMAIN snapshots : s \in DOMAIN snapshots' /\ CatalogOf(s)' = CatalogOf(s)

LEMMA InitStore == CatalogInit => StoreInv
<1> SUFFICES ASSUME CatalogInit PROVE StoreInv
  OBVIOUS
<1>1. PICK c : snapshots = <<Snapshot(c, Dependents(c), Absent, Absent)>>
  BY DEF CatalogInit
<1>2. snapshots \in Seq({Snapshot(c, Dependents(c), Absent, Absent)}) /\ latest \in DOMAIN snapshots
  BY <1>1 DEF CatalogInit
<1>3. \A w \in Writers : DraftOk(w)
  BY DEF CatalogInit, DraftOk, Idle
<1> QED
  BY <1>2, <1>3 DEF CatalogInit, StoreInv

(* A writer that moves on leaves the others as they are. *)
LEMMA OthersKeep ==
  ASSUME StoreInv, NEW w \in Writers, NEW x,
         publisher' = [publisher EXCEPT ![w] = x], Kept
  PROVE  /\ publisher' = [v \in Writers |-> publisher'[v]]
         /\ publisher'[w] = x
         /\ \A v \in Writers \ {w} : DraftOk(v)'
<1>1. publisher' = [v \in Writers |-> IF v = w THEN x ELSE publisher[v]]
  BY DEF StoreInv
<1>2. ASSUME NEW v \in Writers \ {w} PROVE DraftOk(v)'
  <2>1. publisher'[v] = publisher[v]
    BY <1>1
  <2> QED
    BY <2>1 DEF DraftOk, Kept, StoreInv
<1> QED
  BY <1>1, <1>2

LEMMA Copying ==
  ASSUME StoreInv, NEW w \in Writers, Copy(w)
  PROVE  StoreInv' /\ UNCHANGED <<snapshots, latest>>
<1>1. Kept
  BY DEF Copy, Kept, CatalogOf
<1>2. PICK x : publisher' = [publisher EXCEPT ![w] = x] /\
               (x.pc \in {"apply", "commit"} => x.base = latest /\ CatalogOf(latest) = publisher[w].expects
                    /\ x.expects = publisher[w].expects)
               /\ x.pc # "commit"
  BY DEF Copy, Goes, Stops, Idle
<1>3. DraftOk(w)'
  BY <1>1, <1>2, OthersKeep DEF DraftOk, Kept, StoreInv, Copy, CatalogOf
<1> QED
  BY <1>1, <1>2, <1>3, OthersKeep DEF StoreInv, Copy

LEMMA Expecting ==
  ASSUME StoreInv, NEW w \in Writers, Expect(w) \/ ExceedLimit(w)
  PROVE  StoreInv' /\ UNCHANGED <<snapshots, latest>>
<1>1. Kept /\ UNCHANGED <<snapshots, latest, reader>>
  BY DEF Expect, ExceedLimit, Kept, CatalogOf
<1>2. PICK x : publisher' = [publisher EXCEPT ![w] = x] /\ x.pc \notin {"apply", "commit"}
  BY DEF Expect, ExceedLimit, Stops, Idle
<1>3. DraftOk(w)'
  BY <1>1, <1>2, OthersKeep DEF DraftOk
<1> QED
  BY <1>1, <1>2, <1>3, OthersKeep DEF StoreInv

LEMMA Applying ==
  ASSUME StoreInv, NEW w \in Writers, Apply(w)
  PROVE  StoreInv' /\ UNCHANGED <<snapshots, latest>>
<1> DEFINE new == Applied(CatalogOf(publisher[w].base), publisher[w].batch)
<1>1. Kept /\ UNCHANGED <<snapshots, latest, reader>>
  BY DEF Apply, Kept, CatalogOf
<1>2. PICK x : /\ publisher' = [publisher EXCEPT ![w] = x]
               /\ x.base = publisher[w].base /\ x.expects = publisher[w].expects /\ x.batch = publisher[w].batch
               /\ x.draft # Absent => x.draft.catalog = new
  <2> DEFINE Next(pc, draft, affected) ==
        [pc |-> pc, base |-> publisher[w].base, expects |-> publisher[w].expects, batch |-> publisher[w].batch,
         draft |-> draft, affected |-> affected]
  <2>1. \E pc, draft, affected : /\ publisher' = [publisher EXCEPT ![w] = Next(pc, draft, affected)]
                                 /\ draft # Absent => draft.catalog = new
    BY DEF Apply, Goes, Snapshot
  <2>2. PICK pc, draft, affected : /\ publisher' = [publisher EXCEPT ![w] = Next(pc, draft, affected)]
                                   /\ draft # Absent => draft.catalog = new
    BY <2>1
  <2>3. /\ Next(pc, draft, affected).base = publisher[w].base
        /\ Next(pc, draft, affected).expects = publisher[w].expects
        /\ Next(pc, draft, affected).batch = publisher[w].batch
        /\ Next(pc, draft, affected).draft = draft
    OBVIOUS
  <2> HIDE DEF Next, new
  <2> QED
    BY <2>2, <2>3
<1>3. DraftOk(w)'
  BY <1>1, <1>2, OthersKeep DEF DraftOk, Apply, Kept, StoreInv
<1> QED
  BY <1>1, <1>2, <1>3, OthersKeep DEF StoreInv

LEMMA Committing ==
  ASSUME StoreInv, NEW w \in Writers, Commit(w)
  PROVE  /\ StoreInv'
         /\ \/ CatalogOf(latest)' = CatalogOf(latest)
            \/ /\ publisher[w].expects = CatalogOf(latest)
               /\ CatalogOf(latest)' = Applied(CatalogOf(latest), publisher[w].batch)
<1>1. publisher' = [publisher EXCEPT ![w] = Idle] /\ UNCHANGED reader
  BY DEF Commit, Stops
<1>2. CASE UNCHANGED <<snapshots, latest>>
  <2>1. Kept /\ CatalogOf(latest)' = CatalogOf(latest)
    BY <1>2 DEF Kept, CatalogOf
  <2> QED
    BY <1>1, <1>2, <2>1, OthersKeep DEF StoreInv, DraftOk, Idle
<1>3. CASE /\ CatalogOf(latest) = publisher[w].expects
           /\ latest' = publisher[w].base /\ UNCHANGED snapshots
  <2>1. Kept /\ CatalogOf(latest)' = CatalogOf(latest) /\ latest' \in DOMAIN snapshots'
    BY <1>3 DEF Kept, CatalogOf, Commit, StoreInv, DraftOk
  <2> QED
    BY <1>1, <1>3, <2>1, OthersKeep DEF StoreInv, DraftOk, Idle
<1>4. CASE /\ CatalogOf(latest) = publisher[w].expects /\ publisher[w].draft # Absent
           /\ snapshots' = Append(snapshots, publisher[w].draft) /\ latest' = Len(snapshots) + 1
  <2>1. PICK S : snapshots \in Seq(S)
    BY DEF StoreInv
  <2>2. /\ snapshots' \in Seq(S \cup {publisher[w].draft})
        /\ DOMAIN snapshots' = 1 .. Len(snapshots) + 1
        /\ \A s \in DOMAIN snapshots : s \in DOMAIN snapshots' /\ snapshots'[s] = snapshots[s]
        /\ snapshots'[Len(snapshots) + 1] = publisher[w].draft
        /\ latest' \in DOMAIN snapshots'
    BY <1>4, <2>1
  <2>3. Kept
    BY <2>2 DEF Kept, CatalogOf
  <2>4. CatalogOf(latest)' = Applied(CatalogOf(latest), publisher[w].batch)
    BY <1>4, <2>2 DEF CatalogOf, Commit, StoreInv, DraftOk
  <2> QED
    BY <1>1, <1>4, <2>2, <2>3, <2>4, OthersKeep DEF StoreInv, DraftOk, Idle
<1> QED
  BY <1>2, <1>3, <1>4 DEF Commit

LEMMA Searching ==
  ASSUME StoreInv, NEW r \in Readers, Hold(r) \/ Look(r) \/ TakeSeed(r) \/ KeepIndex(r) \/ LeaveSearch(r)
  PROVE  StoreInv' /\ CatalogOf(latest)' = CatalogOf(latest)
<1>1. UNCHANGED <<latest, publisher>>
  BY DEF Hold, Look, TakeSeed, KeepIndex, LeaveSearch
<1>2. \E S : snapshots' \in Seq(S)
  <2>1. PICK S : snapshots \in Seq(S)
    BY DEF StoreInv
  <2>2. CASE UNCHANGED snapshots
    BY <2>1, <2>2
  <2>3. CASE \E s \in DOMAIN snapshots : \E x : snapshots' = [snapshots EXCEPT ![s] = x]
    <3>0. PICK s \in DOMAIN snapshots : \E x : snapshots' = [snapshots EXCEPT ![s] = x]
      BY <2>3
    <3>1. PICK x : snapshots' = [snapshots EXCEPT ![s] = x]
      BY <3>0
    <3>2. snapshots \in Seq(S \cup {x}) /\ s \in 1 .. Len(snapshots)
      BY <2>1
    <3> QED
      BY <3>1, <3>2, ExceptSeq
  <2> QED
    BY <2>2, <2>3 DEF Hold, Look, TakeSeed, KeepIndex, LeaveSearch, StoreInv
<1>3. Kept /\ DOMAIN snapshots' = DOMAIN snapshots
  BY DEF Kept, CatalogOf, Hold, Look, TakeSeed, KeepIndex, LeaveSearch, StoreInv, Snapshot
<1>4. /\ reader' = [q \in Readers |-> reader'[q]]
      /\ \A q \in Readers : reader'[q].pc # "idle" => reader'[q].at \in DOMAIN snapshots
  BY DEF Hold, Look, TakeSeed, KeepIndex, LeaveSearch, StoreInv, Reads
<1>5. \A w \in Writers : DraftOk(w)'
  BY <1>1, <1>3 DEF DraftOk, Kept, StoreInv
<1> QED
  BY <1>1, <1>2, <1>3, <1>4, <1>5 DEF StoreInv, Kept

LEMMA StepStore ==
  ASSUME StoreInv, [CatalogNext]_catalogVars
  PROVE  /\ StoreInv'
         /\ CatalogOf(latest)' # CatalogOf(latest) =>
              \E w \in Writers : /\ publisher[w].expects = CatalogOf(latest)
                                 /\ CatalogOf(latest)' = Applied(CatalogOf(latest), publisher[w].batch)
<1>1. ASSUME UNCHANGED catalogVars PROVE StoreInv' /\ CatalogOf(latest)' = CatalogOf(latest)
  BY <1>1 DEF catalogVars, StoreInv, DraftOk, CatalogOf
<1>2. ASSUME NEW w \in Writers, Expect(w) \/ Copy(w) \/ Apply(w) \/ ExceedLimit(w)
      PROVE  StoreInv' /\ CatalogOf(latest)' = CatalogOf(latest)
  BY <1>2, Expecting, Copying, Applying DEF CatalogOf
<1> QED
  BY <1>1, <1>2, Committing, Searching DEF CatalogNext

(* No update is lost (CatalogStore::publish): every change of the current catalog is made by a *)
(* writer that expected exactly the catalog it replaces, and makes of it what its batch says. *)
THEOREM NoUpdateIsLost == CatalogSpec => NoLostUpdate
<1>1. CatalogInit => StoreInv
  BY InitStore
<1>2. StoreInv /\ [CatalogNext]_catalogVars => StoreInv'
  BY StepStore
<1>3. StoreInv /\ [CatalogNext]_catalogVars =>
        [CatalogOf(latest)' # CatalogOf(latest) =>
          \E w \in Writers : /\ publisher[w].expects = CatalogOf(latest)
                             /\ CatalogOf(latest)' = Applied(CatalogOf(latest), publisher[w].batch)]_catalogVars
  BY StepStore
<1> QED
  BY <1>1, <1>2, <1>3, PTL DEF CatalogSpec, NoLostUpdate

-----------------------------------------------------------------------------
(* Finite sets. *)

(* Of the sets in a family over a finite set one holds no other. *)
LEMMA SmallestSet ==
  ASSUME NEW N, IsFiniteSet(N), NEW F, F \subseteq SUBSET N, F # {}
  PROVE  \E M \in F : \A S \in F : S \subseteq M => S = M
<1> DEFINE R == StrictSubsetOrdering(N)
<1>1. IsWellFoundedOn(R, FiniteSubsetsOf(N))
  BY FS_StrictSubsetOrderingWellFounded
<1>2. F \subseteq FiniteSubsetsOf(N)
  BY FS_Subset DEF FiniteSubsetsOf
<1>3. \E M \in F : \A S \in F : <<S, M>> \notin R
  BY <1>1, <1>2, WFMin
<1>4. \A M, S \in F : <<S, M>> \notin R => (S \subseteq M => S = M)
  BY DEF StrictSubsetOrdering
<1>5. PICK M \in F : \A S \in F : <<S, M>> \notin R
  BY <1>3
<1>6. ASSUME NEW S \in F, S \subseteq M PROVE S = M
  <2>1. <<S, M>> \notin R
    BY <1>5
  <2> QED
    BY <1>4, <1>6, <2>1
<1> QED
  BY <1>6

(* A set of positions in a sequence has a last one. *)
LEMMA LastOne ==
  ASSUME NEW n \in Nat, NEW T, T \subseteq 1 .. n, T # {}
  PROVE  Max(T) \in T
<1> DEFINE R == OpToRel(<, Nat)
           D == {k \in Nat : n - k \in T}
<1>1. \E k \in D : \A j \in D : <<j, k>> \notin R
  <2>1. D \subseteq Nat /\ D # {}
    <3>1. PICK t \in T : TRUE
      OBVIOUS
    <3>2. n - t \in Nat /\ n - (n - t) = t
      OBVIOUS
    <3> QED
      BY <3>2
  <2> HIDE DEF D
  <2> QED
    BY <2>1, NatLessThanWellFounded, WFMin
<1>2. PICK k \in D : \A j \in D : ~(j < k)
  BY <1>1 DEF OpToRel
<1>3. ASSUME NEW t \in T PROVE n - k >= t
  <2>1. n - t \in D
    <3>1. n - t \in Nat /\ n - (n - t) = t
      OBVIOUS
    <3> QED
      BY <3>1
  <2>2. ~(n - t < k) /\ k \in Nat
    BY <1>2, <2>1
  <2> QED
    BY <2>2
<1> QED
  BY <1>2, <1>3 DEF Max

-----------------------------------------------------------------------------
(* Graphs. *)

IsGraph(g) == \A m \in Names : g[m] \subseteq Names

LEMMA ReachedIsClosed ==
  ASSUME NEW from, from \subseteq Names, NEW g, IsGraph(g)
  PROVE  /\ from \subseteq Reached(from, g) /\ Reached(from, g) \subseteq Names
         /\ \A m \in Reached(from, g) : g[m] \subseteq Reached(from, g)
<1> DEFINE edges == UNION {{m} \X g[m] : m \in Names}
           Closed == {S \in SUBSET Names : from \subseteq S /\ \A e \in edges : e[1] \in S => e[2] \in S}
<1>1. Reached(from, g) = {n \in Names : \A S \in Closed : n \in S}
  BY DEF Reached
<1>2. ASSUME NEW m \in Reached(from, g), NEW k \in g[m] PROVE k \in Reached(from, g)
  <2>1. m \in Names /\ k \in Names
    BY <1>1 DEF IsGraph
  <2>2. <<m, k>> \in edges
    BY <2>1
  <2>3. ASSUME NEW S \in Closed PROVE k \in S
    <3>1. m \in S
      BY <1>1
    <3>2. <<m, k>>[1] \in S => <<m, k>>[2] \in S
      BY <2>2
    <3> QED
      BY <3>1, <3>2
  <2> QED
    BY <1>1, <2>1, <2>3
<1> QED
  BY <1>1, <1>2

LEMMA ReachedIsLeast ==
  ASSUME NEW from, NEW g, NEW S, S \subseteq Names, from \subseteq S, \A m \in S : g[m] \subseteq S
  PROVE  Reached(from, g) \subseteq S
BY DEF Reached

(* What is reached from a set is reached from one of its members, and what is reached from *)
(* a node is the node or is reached from its successors.                                   *)
LEMMA ReachedFromOne ==
  ASSUME NEW from, from \subseteq Names, NEW g, IsGraph(g), NEW n \in Reached(from, g)
  PROVE  \E m \in from : n \in Reached({m}, g)
<1> DEFINE S == {k \in Names : \E m \in from : k \in Reached({m}, g)}
<1>1. from \subseteq S
  BY ReachedIsClosed
<1>2. ASSUME NEW k \in S PROVE g[k] \subseteq S
  <2>1. PICK m \in from : k \in Reached({m}, g)
    OBVIOUS
  <2>2. g[k] \subseteq Reached({m}, g)
    BY <2>1, ReachedIsClosed
  <2> QED
    BY <2>1, <2>2 DEF IsGraph
<1> HIDE DEF S
<1>3. Reached(from, g) \subseteq S
  BY <1>1, <1>2, ReachedIsLeast DEF S
<1> QED
  BY <1>3 DEF S

LEMMA ReachedInSteps ==
  ASSUME NEW m \in Names, NEW g, IsGraph(g), NEW n \in Reached({m}, g), n # m
  PROVE  n \in Reached(g[m], g)
<1> DEFINE S == {m} \cup Reached(g[m], g)
<1>1. /\ g[m] \subseteq Reached(g[m], g) /\ Reached(g[m], g) \subseteq Names
      /\ \A k \in Reached(g[m], g) : g[k] \subseteq Reached(g[m], g)
  <2>1. g[m] \subseteq Names
    BY DEF IsGraph
  <2> QED
    BY <2>1, ReachedIsClosed
<1>2. S \subseteq Names /\ {m} \subseteq S /\ \A k \in S : g[k] \subseteq S
  BY <1>1
<1> HIDE DEF S
<1>3. Reached({m}, g) \subseteq S
  BY <1>2, ReachedIsLeast
<1> QED
  BY <1>3 DEF S

-----------------------------------------------------------------------------
(* Dependencies. *)

LEMMA DependenciesAreNames ==
  ASSUME NEW c \in Catalogs, NEW n \in Names
  PROVE  ViewDeps(c, n) \subseteq Dependencies(c, n) /\ Dependencies(c, n) \subseteq Names
<1>1. CASE Has(c, n)
  <2>1. c[n] \in Revisions
    BY <1>1 DEF Catalogs, Has
  <2>2. ToSet(Def(c, n).deps) \subseteq Names /\ Def(c, n).refs \subseteq Names /\ Def(c, n).rules \subseteq Names
    BY <2>1, CatalogAssumption DEF Def, ToSet
  <2> QED
    BY <2>2 DEF ViewDeps, Dependencies
<1> QED
  BY <1>1 DEF ViewDeps, Dependencies

Views(c) == [n \in Names |-> ViewDeps(c, n)]
Needs(c) == [n \in Names |-> Dependencies(c, n)]

LEMMA CatalogGraphs ==
  ASSUME NEW c \in Catalogs
  PROVE  IsGraph(Views(c)) /\ IsGraph(Needs(c))
BY DependenciesAreNames DEF IsGraph, Views, Needs

(* Relations none of which can be computed first. *)
Circular(c, S) == S # {} /\ S \subseteq Names /\ \A n \in S : ViewDeps(c, n) \cap S # {}

LEMMA ValidIsAcyclic ==
  ASSUME NEW c
  PROVE  ValidCatalog(c) <=> /\ \A n \in Names : Dependencies(c, n) \subseteq Present(c)
                             /\ \A S : ~Circular(c, S)
                             /\ \A n \in Present(c) : ReferencesExist(c, n) /\ KeysAgree(c, n)
BY DEF ValidCatalog, Circular

(* Kahn's algorithm emits everything only if there is no circle: it never emits a member of one. *)
LEMMA FullValidationIsSound ==
  ASSUME NEW c \in Catalogs, FullVerdict(c) = "ok"
  PROVE  ValidCatalog(c) /\ \A n \in Present(c) : LookedUp(c, c, n)
<1>1. /\ \A n \in Names : \A d \in ViewDeps(c, n) : Has(c, d)
      /\ Placed(c) = Present(c)
      /\ \A n \in Present(c) : DefinitionsValid(c, c, n)
  BY DEF FullVerdict
<1>2. ASSUME NEW n \in Names PROVE Dependencies(c, n) \subseteq Present(c)
  <2>1. ViewDeps(c, n) \subseteq Present(c)
    BY <1>1, DependenciesAreNames DEF Present
  <2>2. Has(c, n) => Def(c, n).refs \cup Def(c, n).rules \subseteq Present(c)
    BY <1>1 DEF Present, DefinitionsValid, ReferencesExist
  <2> QED
    BY <2>1, <2>2 DEF Dependencies
<1>3. ASSUME NEW S, Circular(c, S) PROVE FALSE
  <2> DEFINE T == Names \ S
  <2>1. \A m \in Present(c) : ViewDeps(c, m) \subseteq T => m \in T
    BY <1>3 DEF Circular, Present
  <2>2. Placed(c) \subseteq T
    BY <2>1 DEF Placed
  <2>3. PICK n \in S : ViewDeps(c, n) # {}
    BY <1>3 DEF Circular
  <2>4. n \in Present(c)
    BY <1>3, <2>3 DEF Circular, ViewDeps, Present
  <2> QED
    BY <1>1, <2>2, <2>3, <2>4
<1> QED
  BY <1>1, <1>2, <1>3, ValidIsAcyclic DEF DefinitionsValid

(* Two catalogs that differ only in what changed. *)
Edit(old, new, changed) ==
    /\ old \in Catalogs /\ new \in Catalogs /\ changed \subseteq Names
    /\ \A n \in Names \ changed : new[n] = old[n]

LEMMA SameDefinition ==
  ASSUME NEW old, NEW new, NEW n, new[n] = old[n]
  PROVE  /\ Has(new, n) = Has(old, n) /\ Def(new, n) = Def(old, n)
         /\ ViewDeps(new, n) = ViewDeps(old, n) /\ Dependencies(new, n) = Dependencies(old, n)
BY DEF Has, Def, ViewDeps, Dependencies

(* A relation reached from its own dependencies is in a circle: those that are reached from it *)
(* and reach it.                                                                               *)
LEMMA CycleIsCircular ==
  ASSUME NEW c \in Catalogs, NEW n \in Names, n \in Reached(ViewDeps(c, n), Views(c))
  PROVE  \E S : Circular(c, S)
<1> DEFINE g == Views(c)
           R == Reached(ViewDeps(c, n), g)
           S == {m \in R : n \in Reached({m}, g)}
<1>1. IsGraph(g) /\ ViewDeps(c, n) \subseteq Names
  BY CatalogGraphs, DependenciesAreNames
<1>2. ViewDeps(c, n) \subseteq R /\ R \subseteq Names /\ \A m \in R : g[m] \subseteq R
  BY <1>1, ReachedIsClosed
<1>3. n \in Reached({n}, g)
  BY <1>1, ReachedIsClosed
<1>4. ASSUME NEW m \in S PROVE ViewDeps(c, m) \cap S # {}
  <2>1. m \in Names /\ g[m] = ViewDeps(c, m) /\ g[m] \subseteq Names
    BY <1>1, <1>2 DEF IsGraph, Views
  <2>2. n \in Reached(g[m], g)
    BY <1>1, <2>1, ReachedInSteps
  <2>3. PICK k \in g[m] : n \in Reached({k}, g)
    BY <1>1, <2>1, <2>2, ReachedFromOne
  <2>4. k \in R
    BY <1>2, <2>3
  <2> QED
    BY <2>1, <2>3, <2>4
<1>5. n \in S /\ S \subseteq Names
  BY <1>2, <1>3
<1> HIDE DEF S
<1> QED
  BY <1>4, <1>5 DEF Circular

(* A circle that the old catalog has not leads through changed view dependencies, and each member *)
(* of a smallest circle of those reached from there is reached from its own dependencies.         *)
LEMMA CircularIsCycle ==
  ASSUME NEW old, NEW new, NEW changed, Edit(old, new, changed),
         \A S : ~Circular(old, S), NEW C, Circular(new, C)
  PROVE  \E n \in Reached({m \in changed : ViewDeps(old, m) # ViewDeps(new, m)}, Views(new)) :
             n \in Reached(ViewDeps(new, n), Views(new))
<1> DEFINE starts == {m \in changed : ViewDeps(old, m) # ViewDeps(new, m)}
           g == Views(new)
           R == Reached(starts, g)
           F == {S \in SUBSET R : Circular(new, S)}
<1>1. IsGraph(g) /\ starts \subseteq Names /\ new \in Catalogs
  BY CatalogGraphs DEF Edit
<1>2. starts \subseteq R /\ R \subseteq Names /\ \A m \in R : g[m] \subseteq R
  BY <1>1, ReachedIsClosed
<1>3. \A m \in Names : g[m] = ViewDeps(new, m)
  BY DEF Views
<1> HIDE DEF g, R
<1>4. C \cap R \in F
  <2>1. PICK m \in C : ViewDeps(old, m) \cap C = {}
    BY DEF Circular
  <2>2. ViewDeps(new, m) # ViewDeps(old, m) /\ m \in Names
    BY <2>1 DEF Circular
  <2>3. m \in starts
    BY <2>2, SameDefinition DEF Edit
  <2>4. ASSUME NEW k \in C \cap R PROVE ViewDeps(new, k) \cap (C \cap R) # {}
    BY <1>2, <1>3 DEF Circular
  <2> QED
    BY <1>2, <2>3, <2>4 DEF Circular
<1>5. PICK M \in F : \A S \in F : S \subseteq M => S = M
  <2>1. F \subseteq SUBSET Names /\ F # {} /\ IsFiniteSet(Names)
    BY <1>2, <1>4, CatalogAssumption
  <2> HIDE DEF F
  <2> QED
    BY <2>1, SmallestSet
<1>6. M \subseteq R /\ Circular(new, M)
  BY <1>5
<1>7. PICK n \in M : TRUE
  BY <1>6 DEF Circular
<1> DEFINE P == Reached(ViewDeps(new, n), g)
<1>8. n \in R /\ n \in Names
  BY <1>2, <1>6
<1>9. ViewDeps(new, n) \subseteq P /\ P \subseteq Names /\ \A m \in P : g[m] \subseteq P
  <2>1. ViewDeps(new, n) \subseteq Names
    BY <1>1, <1>8, DependenciesAreNames
  <2> QED
    BY <1>1, <2>1, ReachedIsClosed
<1> HIDE DEF P
<1>10. M \cap P \in F
  <2>1. M \cap P # {}
    BY <1>6, <1>9 DEF Circular
  <2>2. ASSUME NEW k \in M \cap P PROVE ViewDeps(new, k) \cap (M \cap P) # {}
    <3>1. ViewDeps(new, k) \subseteq P /\ ViewDeps(new, k) \cap M # {}
      <4>1. k \in Names /\ g[k] \subseteq P
        BY <1>9
      <4> QED
        BY <1>3, <1>6, <4>1 DEF Circular
    <3> QED
      BY <3>1
  <2> QED
    BY <1>6, <2>1, <2>2 DEF Circular
<1>11. n \in P
  BY <1>5, <1>10
<1> QED
  BY <1>8, <1>11 DEF P, R, g

-----------------------------------------------------------------------------
(* Changes. *)

LEMMA AppliedIsEdit ==
  ASSUME NEW old \in Catalogs, NEW batch \in Seq(Changes)
  PROVE  Edit(old, Applied(old, batch), ChangedNames(old, batch))
<1> DEFINE new == Applied(old, batch)
           last(n) == Max(On(batch, n))
<1>1. \A i \in DOMAIN batch : Target(batch[i]) \in Names /\ Outcome(batch[i]) \in Revisions \cup {Absent}
  <2>1. ASSUME NEW x \in Changes PROVE Target(x) \in Names /\ Outcome(x) \in Revisions \cup {Absent}
    BY CatalogAssumption DEF Changes, Target, Outcome
  <2> QED
    BY <2>1
<1>2. ASSUME NEW n \in Names, On(batch, n) # {} PROVE last(n) \in On(batch, n)
  <2>1. On(batch, n) \subseteq 1 .. Len(batch)
    BY DEF On
  <2> QED
    BY <1>2, <2>1, LastOne
<1>3. new = [n \in Names |-> IF On(batch, n) = {} THEN old[n] ELSE Outcome(batch[last(n)])]
  BY DEF Applied
<1> HIDE DEF last, new
<1>4. ASSUME NEW n \in Names
      PROVE  new[n] \in Revisions \cup {Absent} /\ (n \notin ChangedNames(old, batch) => new[n] = old[n])
  <2>1. CASE On(batch, n) = {}
    BY <1>3, <2>1 DEF Catalogs
  <2>2. CASE On(batch, n) # {}
    <3>1. last(n) \in On(batch, n) /\ new[n] = Outcome(batch[last(n)])
      BY <1>2, <1>3, <2>2
    <3> QED
      BY <1>1, <3>1 DEF On, ChangedNames
  <2> QED
    BY <2>1, <2>2
<1>5. new \in Catalogs
  BY <1>3, <1>4 DEF Catalogs
<1> QED
  BY <1>4, <1>5 DEF Edit, ChangedNames, new

(* The dependents that are kept from catalog to catalog are those of the catalog. *)
LEMMA EditedDependentsAreExact ==
  ASSUME NEW old, NEW new, NEW changed, Edit(old, new, changed)
  PROVE  EditedDependents(old, new, Dependents(old), changed) = Dependents(new)
<1> DEFINE before == Dependents(old)
<1>1. ASSUME NEW d \in Names
      PROVE  (before[d] \ {n \in changed : d \in Dependencies(old, n) \ Dependencies(new, n)})
                 \cup {n \in changed : d \in Dependencies(new, n) \ Dependencies(old, n)}
             = {n \in Names : d \in Dependencies(new, n)}
  <2>1. before[d] = {n \in Names : d \in Dependencies(old, n)}
    BY DEF Dependents
  <2>2. \A n \in Names \ changed : Dependencies(new, n) = Dependencies(old, n)
    BY SameDefinition DEF Edit
  <2>3. changed \subseteq Names
    BY DEF Edit
  <2> HIDE DEF before
  <2> QED
    BY <2>1, <2>2, <2>3
<1> QED
  BY <1>1 DEF EditedDependents, Dependents

(* No relation that is not affected changed or depends on one that is, before or after. *)
Apart(old, new, affected) ==
    /\ affected \subseteq Names
    /\ \A n \in Names \ affected : new[n] = old[n] /\ Dependencies(old, n) \cap affected = {}

LEMMA AffectedIsClosed ==
  ASSUME NEW old, NEW new, NEW changed, Edit(old, new, changed)
  PROVE  /\ Apart(old, new, Affected(Dependents(old), Dependents(new), changed))
         /\ changed \subseteq Affected(Dependents(old), Dependents(new), changed)
<1> DEFINE before == Dependents(old)
           after == Dependents(new)
           g == [n \in Names |-> before[n] \cup after[n]]
           A == Reached(changed, g)
<1>1. \A d \in Names : before[d] = {n \in Names : d \in Dependencies(old, n)}
                       /\ after[d] = {n \in Names : d \in Dependencies(new, n)}
  BY DEF Dependents
<1>2. IsGraph(g) /\ changed \subseteq Names
  BY <1>1 DEF IsGraph, Edit
<1>3. \A d \in Names : g[d] = before[d] \cup after[d]
  OBVIOUS
<1> HIDE DEF g, before, after
<1>4. changed \subseteq A /\ A \subseteq Names /\ \A d \in A : g[d] \subseteq A
  BY <1>2, ReachedIsClosed
<1> HIDE DEF A
<1>5. ASSUME NEW n \in Names \ A PROVE new[n] = old[n] /\ Dependencies(old, n) \cap A = {}
  <2>1. \A d \in A : n \notin g[d]
    BY <1>4
  <2>2. \A d \in A : d \notin Dependencies(old, n)
    BY <1>1, <1>3, <1>4, <2>1
  <2>3. n \notin changed
    BY <1>4
  <2> QED
    BY <2>2, <2>3 DEF Edit
<1> QED
  BY <1>4, <1>5 DEF Apart, Affected, A, g, before, after

(* Rules that are read from the draft hold as a whole if they hold where a batch may affect them. *)
LEMMA IncrementalValidationIsSound ==
  ASSUME NEW old, NEW new, NEW changed, NEW affected, Edit(old, new, changed), Apart(old, new, affected),
         ValidCatalog(old), IncrementalVerdict(old, new, affected, changed) = "ok"
  PROVE  ValidCatalog(new)
<1>1. /\ \A n \in affected \cap Present(new) : \A d \in Dependencies(new, n) : Has(new, d)
      /\ \A n \in affected \cap Present(new) : DefinitionsValid(old, new, n)
      /\ \A n \in Reached({m \in changed : ViewDeps(old, m) # ViewDeps(new, m)}, Views(new)) :
             n \notin Reached(ViewDeps(new, n), Views(new))
  <2> DEFINE views == [n \in Names |-> ViewDeps(new, n)]
             starts == {m \in changed : ViewDeps(old, m) # ViewDeps(new, m)}
  <2>1. \A n \in Reached(starts, views) : n \notin Reached(views[n], views)
    BY DEF IncrementalVerdict
  <2>2. \A n \in Reached(starts, views) : views[n] = ViewDeps(new, n)
    BY DEF Reached
  <2>3. \A n \in Reached(starts, views) : n \notin Reached(ViewDeps(new, n), views)
    BY <2>1, <2>2
  <2> QED
    BY <2>3 DEF IncrementalVerdict, Views
<1>2. /\ \A n \in Names : Dependencies(old, n) \subseteq Present(old)
      /\ \A S : ~Circular(old, S)
      /\ \A n \in Present(old) : ReferencesExist(old, n) /\ KeysAgree(old, n)
  BY ValidIsAcyclic
<1>3. \A n \in Names \ affected : new[n] = old[n] /\ Dependencies(old, n) \cap affected = {}
  BY DEF Apart
<1>4. new \in Catalogs /\ old \in Catalogs
  BY DEF Edit
<1>5. ASSUME NEW n \in Names PROVE Dependencies(new, n) \subseteq Present(new)
  <2>1. Dependencies(new, n) \subseteq Names
    BY <1>4, DependenciesAreNames
  <2>2. CASE n \in affected
    <3>1. CASE Has(new, n)
      BY <1>1, <2>1, <2>2, <3>1 DEF Present
    <3> QED
      BY <3>1 DEF Dependencies, ViewDeps
  <2>3. CASE n \notin affected
    <3>1. Dependencies(new, n) = Dependencies(old, n)
      BY <1>3, <2>3, SameDefinition
    <3>2. \A d \in Dependencies(new, n) : d \in Present(old) /\ d \notin affected
      BY <1>2, <1>3, <2>3, <3>1
    <3> QED
      BY <1>3, <3>2 DEF Present, Has
  <2> QED
    BY <2>2, <2>3
<1>6. ASSUME NEW n \in Present(new) PROVE ReferencesExist(new, n) /\ KeysAgree(new, n)
  <2>1. CASE n \in affected
    BY <1>1, <2>1 DEF DefinitionsValid
  <2>2. CASE n \notin affected
    <3>1. n \in Names /\ new[n] = old[n] /\ Has(new, n)
      BY <1>3, <2>2 DEF Present
    <3>2. Has(old, n) /\ Def(new, n) = Def(old, n) /\ Dependencies(new, n) = Dependencies(old, n)
      BY <3>1, SameDefinition
    <3>3. ReferencesExist(old, n) /\ KeysAgree(old, n)
      BY <1>2, <3>1, <3>2 DEF Present
    <3>4. \A d \in Dependencies(old, n) : d \in Names /\ new[d] = old[d]
      BY <1>2, <1>3, <2>2, <3>1 DEF Present
    <3>5. Def(old, n).refs \cup Def(old, n).rules \subseteq Dependencies(old, n)
      BY <3>2 DEF Dependencies
    <3>6. ReferencesExist(new, n)
      BY <3>2, <3>3, <3>4, <3>5 DEF ReferencesExist, Present, Has
    <3>7. KeysAgree(new, n)
      BY <3>2, <3>3, <3>4, <3>5 DEF KeysAgree, Def
    <3> QED
      BY <3>6, <3>7
  <2> QED
    BY <2>1, <2>2
<1>7. ASSUME NEW S, Circular(new, S) PROVE FALSE
  BY <1>1, <1>2, <1>7, CircularIsCycle
<1> QED
  BY <1>5, <1>6, <1>7, ValidIsAcyclic

(* What lags behind: a relation of the new catalog found what it looks up in the old one, or it *)
(* and all it names are as they were.                                                            *)
Same(old, new, n) == \A m \in {n} \cup Dependencies(new, n) : new[m] = old[m]
Follows(old, new) == \A n \in Present(new) : LookedUp(old, new, n) \/ Same(old, new, n)

LEMMA IncrementalValidationFollows ==
  ASSUME NEW old, NEW new, NEW changed, NEW affected, Edit(old, new, changed), Apart(old, new, affected),
         IncrementalVerdict(old, new, affected, changed) = "ok"
  PROVE  Follows(old, new)
<1> SUFFICES ASSUME NEW n \in Present(new) PROVE LookedUp(old, new, n) \/ Same(old, new, n)
  BY DEF Follows
<1>1. CASE n \in affected
  BY <1>1 DEF IncrementalVerdict, DefinitionsValid
<1>2. CASE n \notin affected
  <2>1. n \in Names /\ new[n] = old[n] /\ Dependencies(old, n) \cap affected = {}
    BY <1>2 DEF Apart, Present
  <2>2. Dependencies(new, n) = Dependencies(old, n) /\ Dependencies(new, n) \subseteq Names
    BY <2>1, SameDefinition, DependenciesAreNames DEF Edit
  <2> QED
    BY <2>1, <2>2 DEF Apart, Same
<1> QED
  BY <1>1, <1>2

(* Incremental validation refuses only what breaks a rule as a whole or is not found before. *)
LEMMA IncrementalRefusalIsJust ==
  ASSUME NEW old, NEW new, NEW changed, NEW affected, Edit(old, new, changed), affected \subseteq Names,
         IncrementalVerdict(old, new, affected, changed) # "ok"
  PROVE  ~ValidCatalog(new) \/ \E n \in affected \cap Present(new) : ~LookedUp(old, new, n)
<1> DEFINE views == [n \in Names |-> ViewDeps(new, n)]
           starts == {m \in changed : ViewDeps(old, m) # ViewDeps(new, m)}
<1>1. CASE \E n \in affected \cap Present(new) : \E d \in Dependencies(new, n) : ~Has(new, d)
  BY <1>1 DEF ValidCatalog, Present
<1>2. CASE \E n \in affected \cap Present(new) : ~DefinitionsValid(old, new, n)
  BY <1>2 DEF ValidCatalog, DefinitionsValid
<1>3. CASE \E n \in Reached(starts, views) : n \in Reached(views[n], views)
  <2>1. PICK n \in Reached(starts, views) : n \in Reached(views[n], views)
    BY <1>3
  <2>2. n \in Names
    BY DEF Reached
  <2>3. n \in Reached(ViewDeps(new, n), Views(new))
    <3>1. views[n] = ViewDeps(new, n)
      BY <2>2
    <3> QED
      BY <2>1, <3>1 DEF Views
  <2>4. \E S : Circular(new, S)
    BY <2>2, <2>3, CycleIsCircular DEF Edit
  <2> QED
    BY <2>4, ValidIsAcyclic
<1> QED
  BY <1>1, <1>2, <1>3 DEF IncrementalVerdict

(* What a relation that is not affected depends on, at any distance, is not affected either. *)
LEMMA MeaningIsKept ==
  ASSUME NEW old, NEW new, NEW changed, NEW affected, Edit(old, new, changed), Apart(old, new, affected),
         NEW n \in Names \ affected
  PROVE  Meaning(old, n) = Meaning(new, n)
<1> DEFINE U == Names \ affected
           Ro == Reached({n}, Needs(old))
           Rn == Reached({n}, Needs(new))
<1>1. \A m \in U : /\ new[m] = old[m] /\ Needs(new)[m] = Needs(old)[m] /\ Needs(old)[m] \subseteq U
  <2> TAKE m \in U
  <2>1. new[m] = old[m] /\ Dependencies(old, m) \cap affected = {}
    BY DEF Apart
  <2>2. Dependencies(new, m) = Dependencies(old, m)
    BY <2>1, SameDefinition
  <2>3. Dependencies(old, m) \subseteq Names
    BY DependenciesAreNames DEF Edit
  <2> QED
    BY <2>1, <2>2, <2>3 DEF Needs
<1>2. /\ n \in Ro /\ Ro \subseteq Names /\ \A m \in Ro : Needs(old)[m] \subseteq Ro
      /\ n \in Rn /\ Rn \subseteq Names /\ \A m \in Rn : Needs(new)[m] \subseteq Rn
  <2>1. IsGraph(Needs(old)) /\ IsGraph(Needs(new)) /\ {n} \subseteq Names
    BY CatalogGraphs DEF Edit
  <2> QED
    BY <2>1, ReachedIsClosed
<1>3. U \subseteq Names /\ {n} \subseteq U
  OBVIOUS
<1>4. Ro \subseteq U
  BY <1>1, <1>3, ReachedIsLeast
<1>5. Rn \subseteq U
  BY <1>1, <1>3, ReachedIsLeast
<1>6. Ro \subseteq Rn
  <2>1. \A m \in Rn : Needs(old)[m] \subseteq Rn
    BY <1>1, <1>2, <1>5
  <2>2. {n} \subseteq Rn /\ Rn \subseteq Names
    BY <1>2
  <2> HIDE DEF Rn
  <2> QED
    BY <2>1, <2>2, ReachedIsLeast
<1>7. Rn \subseteq Ro
  <2>1. \A m \in Ro : Needs(new)[m] \subseteq Ro
    BY <1>1, <1>2, <1>4
  <2>2. {n} \subseteq Ro /\ Ro \subseteq Names
    BY <1>2
  <2> HIDE DEF Ro
  <2> QED
    BY <2>1, <2>2, ReachedIsLeast
<1>8. Meaning(old, n) = [m \in Ro |-> old[m]] /\ Meaning(new, n) = [m \in Rn |-> new[m]]
  BY DEF Meaning, Needs
<1>9. Ro = Rn
  BY <1>6, <1>7
<1> HIDE DEF Ro, Rn, U
<1> QED
  BY <1>1, <1>4, <1>8, <1>9

-----------------------------------------------------------------------------
(* Search indexes. *)

(* The relations found under a term, among some names. *)
Found(c, names, t) == {n \in names \cap Present(c) : t \in DOMAIN Def(c, n).terms}

LEMMA IndexIsFound ==
  ASSUME NEW c, NEW names
  PROVE  Index(c, names) =
           [postings |-> [t \in Terms |-> [n \in Found(c, names, t) |-> Def(c, n).terms[t]]],
            footprints |-> [n \in Names |-> {t \in Terms : n \in Found(c, names, t)}]]
BY DEF Index, Found

(* An index that is updated for what changed is the index of the new catalog: under terms that *)
(* are not touched nothing changed, and elsewhere what changed is taken from the new catalog.  *)
LEMMA UpdateIsExact ==
  ASSUME NEW old, NEW new, NEW changed, Edit(old, new, changed)
  PROVE  UpdatedIndex(Index(old, Names), new, changed) = Index(new, Names)
<1> DEFINE Was(t) == Found(old, Names, t)
           Is(t) == Found(new, Names, t)
           Posts(c, s, t) == [n \in s |-> Def(c, n).terms[t]]
           base == Index(old, Names)
           fresh == Index(new, changed)
           touched == UNION {base.footprints[n] \cup fresh.footprints[n] : n \in changed}
           kept(t) == DOMAIN base.postings[t] \ changed
           merged(t) == [n \in kept(t) \cup DOMAIN fresh.postings[t] |->
                            IF n \in kept(t) THEN base.postings[t][n] ELSE fresh.postings[t][n]]
           posting(t) == IF t \notin touched THEN base.postings[t] ELSE merged(t)
           footprint(n) == IF n \in changed THEN fresh.footprints[n] ELSE base.footprints[n]
<1>1. UpdatedIndex(base, new, changed)
        = [postings |-> [t \in Terms |-> posting(t)], footprints |-> [n \in Names |-> footprint(n)]]
  BY DEF UpdatedIndex
<1>2. /\ \A t \in Terms : base.postings[t] = Posts(old, Was(t), t)
      /\ \A n \in Names : base.footprints[n] = {t \in Terms : n \in Was(t)}
  BY IndexIsFound
<1>3. \A t : Found(new, changed, t) = Is(t) \cap changed
  BY DEF Found, Edit
<1>4. /\ \A t \in Terms : fresh.postings[t] = Posts(new, Is(t) \cap changed, t)
      /\ \A n \in Names : fresh.footprints[n] = {t \in Terms : n \in Is(t) \cap changed}
  BY <1>3, IndexIsFound
<1>5. /\ Index(new, Names).postings = [t \in Terms |-> Posts(new, Is(t), t)]
      /\ Index(new, Names) = [postings |-> [t \in Terms |-> Posts(new, Is(t), t)],
                              footprints |-> [n \in Names |-> {t \in Terms : n \in Is(t)}]]
  BY IndexIsFound
<1>6. changed \subseteq Names
  BY DEF Edit
<1>7. \A n \in Names \ changed : /\ Def(new, n) = Def(old, n)
                                 /\ \A t : n \in Was(t) <=> n \in Is(t)
  <2> TAKE n \in Names \ changed
  <2>1. new[n] = old[n]
    BY DEF Edit
  <2> QED
    BY <2>1, SameDefinition DEF Found, Present
<1>8. \A t : Was(t) \subseteq Names /\ Is(t) \subseteq Names
  BY DEF Found
<1> HIDE DEF Was, Is, base, fresh
<1>9. ASSUME NEW t \in Terms PROVE posting(t) = Posts(new, Is(t), t)
  <2>1. base.postings[t] = Posts(old, Was(t), t) /\ fresh.postings[t] = Posts(new, Is(t) \cap changed, t)
    BY <1>2, <1>4
  <2>2. CASE t \notin touched
    <3>1. \A n \in changed : n \notin Was(t) /\ n \notin Is(t)
      BY <1>2, <1>4, <1>6, <2>2
    <3>2. Was(t) = Is(t)
      BY <1>7, <1>8, <3>1
    <3>3. \A n \in Is(t) : Def(new, n) = Def(old, n)
      BY <1>7, <1>8, <3>1
    <3>4. Posts(old, Was(t), t) = Posts(new, Is(t), t)
      BY <3>2, <3>3
    <3> QED
      BY <2>1, <2>2, <3>4
  <2>3. CASE t \in touched
    <3>1. kept(t) = Was(t) \ changed /\ DOMAIN fresh.postings[t] = Is(t) \cap changed
      BY <2>1
    <3>2. kept(t) = Is(t) \ changed
      BY <1>7, <1>8, <3>1
    <3>3. kept(t) \cup DOMAIN fresh.postings[t] = Is(t)
      BY <3>1, <3>2
    <3>4. \A n \in kept(t) : base.postings[t][n] = Def(new, n).terms[t]
      BY <1>7, <1>8, <2>1, <3>1
    <3>5. \A n \in Is(t) \ kept(t) : fresh.postings[t][n] = Def(new, n).terms[t]
      BY <2>1, <3>2
    <3>6. merged(t) = [n \in Is(t) |-> IF n \in kept(t) THEN base.postings[t][n] ELSE fresh.postings[t][n]]
      BY <3>3
    <3>7. merged(t) = Posts(new, Is(t), t)
      <4> HIDE DEF merged, kept
      <4> QED
        BY <3>4, <3>5, <3>6
    <3> QED
      BY <2>3, <3>7
  <2> QED
    BY <2>2, <2>3
<1>10. ASSUME NEW n \in Names PROVE footprint(n) = {t \in Terms : n \in Is(t)}
  BY <1>2, <1>4, <1>7
<1> HIDE DEF posting, footprint, Posts
<1> QED
  BY <1>1, <1>5, <1>9, <1>10 DEF base

-----------------------------------------------------------------------------
(* Every snapshot is sound, and what writers and readers hold fits the snapshot they took it from. *)

SearchOk(c, search) == search # Absent => search = Index(c, Names)
SeedOk(c, seed) ==
    seed # Absent => \E old : Edit(old, c, seed.changed) /\ seed.base = Index(old, Names)
SnapshotOk(s) ==
    /\ s.catalog \in Catalogs /\ ValidCatalog(s.catalog) /\ s.dependents = Dependents(s.catalog)
    /\ SearchOk(s.catalog, s.search) /\ SeedOk(s.catalog, s.seed)

BatchOk(x) == x.pc # "idle" => x.batch \in Seq(Changes)
RefusalOk(x) ==
    x.pc = "refused" =>
        /\ x.base \in DOMAIN snapshots
        /\ LET old == CatalogOf(x.base)
               new == Applied(old, x.batch)
           IN  \/ ~Removable(old, x.batch)
               \/ ~ValidCatalog(new)
               \/ \E n \in x.affected \cap Present(new) : ~LookedUp(old, new, n)
DraftFits(x) ==
    x.draft # Absent => /\ x.base \in DOMAIN snapshots /\ SnapshotOk(x.draft)
                        /\ Follows(CatalogOf(x.base), x.draft.catalog)
                        /\ \A n \in Names \ x.affected :
                               Meaning(CatalogOf(x.base), n) = Meaning(x.draft.catalog, n)
WriterOk(x) == BatchOk(x) /\ RefusalOk(x) /\ DraftFits(x)

ReaderOk(x) == x.pc = "build" => SeedOk(CatalogOf(x.at), x.seed)

SoundInv ==
    /\ StoreInv
    /\ \A s \in DOMAIN snapshots : SnapshotOk(snapshots[s])
    /\ \A w \in Writers : WriterOk(publisher[w])
    /\ \A r \in Readers : ReaderOk(reader[r])

LEMMA InitSound == CatalogInit => SoundInv
<1> SUFFICES ASSUME CatalogInit PROVE SoundInv
  OBVIOUS
<1>1. PICK c \in Catalogs : FullVerdict(c) = "ok" /\ snapshots = <<Snapshot(c, Dependents(c), Absent, Absent)>>
  BY DEF CatalogInit
<1>2. SnapshotOk(Snapshot(c, Dependents(c), Absent, Absent))
  BY <1>1, FullValidationIsSound DEF SnapshotOk, Snapshot, SearchOk, SeedOk
<1>3. \A s \in DOMAIN snapshots : SnapshotOk(snapshots[s])
  <2>1. DOMAIN snapshots = {1} /\ snapshots[1] = Snapshot(c, Dependents(c), Absent, Absent)
    BY <1>1
  <2> QED
    BY <1>2, <2>1
<1>4. WriterOk(Idle)
  BY DEF WriterOk, BatchOk, RefusalOk, DraftFits, Idle
<1>5. \A r \in Readers : ReaderOk(reader[r])
  BY DEF CatalogInit, ReaderOk
<1> QED
  BY <1>3, <1>4, <1>5, InitStore DEF CatalogInit, SoundInv

(* What a writer or a reader holds still fits while the catalogs of snapshots are kept. *)
LEMMA HoldersKeep ==
  ASSUME SoundInv, Kept
  PROVE  /\ \A x : WriterOk(x) => WriterOk(x)'
         /\ \A r \in Readers : ReaderOk(reader[r]) => (reader'[r] = reader[r] => ReaderOk(reader[r])')
<1>1. \A s \in DOMAIN snapshots : s \in DOMAIN snapshots' /\ CatalogOf(s)' = CatalogOf(s)
  BY DEF Kept
<1>2. ASSUME NEW x, WriterOk(x) PROVE WriterOk(x)'
  BY <1>1, <1>2 DEF WriterOk, BatchOk, RefusalOk, DraftFits
<1>3. ASSUME NEW r \in Readers, ReaderOk(reader[r]), reader'[r] = reader[r] PROVE ReaderOk(reader[r])'
  <2>1. reader[r].pc = "build" => reader[r].at \in DOMAIN snapshots
    BY DEF SoundInv, StoreInv
  <2> QED
    BY <1>1, <1>3, <2>1 DEF ReaderOk
<1> QED
  BY <1>2, <1>3

(* A writer moves on and the snapshots stay. *)
LEMMA WriterMoves ==
  ASSUME SoundInv, StoreInv', NEW w \in Writers, NEW x, publisher' = [publisher EXCEPT ![w] = x], WriterOk(x),
         UNCHANGED <<snapshots, latest, reader>>
  PROVE  SoundInv'
<1>1. Kept
  BY DEF Kept, CatalogOf
<1>2. WriterOk(x)' /\ \A v \in Writers : WriterOk(publisher[v])'
  <2>1. WriterOk(x)'
    BY <1>1, HoldersKeep
  <2>2. publisher' = [v \in Writers |-> IF v = w THEN x ELSE publisher[v]]
    BY DEF SoundInv, StoreInv
  <2>3. ASSUME NEW v \in Writers PROVE WriterOk(publisher'[v])
    <3>1. WriterOk(publisher[v])
      BY DEF SoundInv
    <3> QED
      BY <2>2, <3>1
  <2>4. ASSUME NEW v \in Writers PROVE WriterOk(publisher[v])'
    BY <1>1, <2>3 DEF WriterOk, BatchOk, RefusalOk, DraftFits, CatalogOf
  <2> QED
    BY <2>1, <2>4
<1>3. \A r \in Readers : ReaderOk(reader[r])'
  BY <1>1, HoldersKeep DEF SoundInv
<1>4. \A s \in DOMAIN snapshots' : SnapshotOk(snapshots[s])'
  BY DEF SoundInv
<1> QED
  BY <1>2, <1>3, <1>4 DEF SoundInv

LEMMA SoundExpect ==
  ASSUME SoundInv, NEW w \in Writers, Expect(w) \/ Copy(w) \/ ExceedLimit(w)
  PROVE  SoundInv'
<1>1. StoreInv' /\ UNCHANGED <<snapshots, latest, reader>>
  BY Expecting, Copying DEF SoundInv, Expect, Copy, ExceedLimit
<1>2. PICK x : /\ publisher' = [publisher EXCEPT ![w] = x] /\ x.pc # "refused" /\ x.draft = Absent
               /\ x.pc # "idle" => x.batch \in Seq(Changes)
  <2>0. Idle.pc = "idle" /\ Idle.draft = Absent
    BY DEF Idle
  <2>1. CASE Expect(w)
    <3> DEFINE x(batch) == [pc |-> "publish", base |-> Absent, expects |-> CatalogOf(latest), batch |-> batch,
                            draft |-> Absent, affected |-> {}]
    <3>1. PICK batch \in Batches[w] : publisher' = [publisher EXCEPT ![w] = x(batch)]
      BY <2>1 DEF Expect
    <3>2. batch \in Seq(Changes)
      BY CatalogAssumption
    <3>3. x(batch).pc = "publish" /\ x(batch).draft = Absent /\ x(batch).batch = batch
      OBVIOUS
    <3> HIDE DEF x
    <3> QED
      BY <3>1, <3>2, <3>3
  <2>2. CASE Copy(w)
    <3>1. publisher[w].batch \in Seq(Changes)
      BY <2>2 DEF SoundInv, WriterOk, BatchOk, Copy
    <3> DEFINE x == [pc |-> "apply", base |-> latest, expects |-> publisher[w].expects,
                     batch |-> publisher[w].batch, draft |-> Absent, affected |-> {}]
    <3>2. publisher' = [publisher EXCEPT ![w] = x] \/ Stops(w)
      BY <2>2 DEF Copy, Goes
    <3>3. x.pc = "apply" /\ x.draft = Absent /\ x.batch = publisher[w].batch
      OBVIOUS
    <3> HIDE DEF x
    <3> QED
      BY <2>0, <3>1, <3>2, <3>3 DEF Stops
  <2>3. CASE ExceedLimit(w)
    BY <2>0, <2>3 DEF ExceedLimit, Stops
  <2> QED
    BY <2>1, <2>2, <2>3
<1>3. WriterOk(x)
  BY <1>2 DEF WriterOk, BatchOk, RefusalOk, DraftFits
<1> QED
  BY <1>1, <1>2, <1>3, WriterMoves

LEMMA SoundApply ==
  ASSUME SoundInv, NEW w \in Writers, Apply(w)
  PROVE  SoundInv'
<1> DEFINE base == publisher[w].base
           batch == publisher[w].batch
           old == CatalogOf(base)
           new == Applied(old, batch)
           changed == ChangedNames(old, batch)
           before == snapshots[base].dependents
           after == EditedDependents(old, new, before, changed)
           affected == Affected(before, after, changed)
           search == snapshots[base].search
           seed == IF search = Absent THEN Absent ELSE [base |-> search, changed |-> changed]
           draft == Snapshot(new, after, Absent, seed)
           To(pc, d, a) == [pc |-> pc, base |-> base, expects |-> publisher[w].expects, batch |-> batch,
                            draft |-> d, affected |-> a]
<1>1. StoreInv' /\ UNCHANGED <<snapshots, latest, reader>>
  BY Applying DEF SoundInv, Apply
<1>2. /\ base \in DOMAIN snapshots /\ SnapshotOk(snapshots[base]) /\ batch \in Seq(Changes)
  BY DEF SoundInv, StoreInv, DraftOk, WriterOk, BatchOk, Apply
<1>3. /\ old \in Catalogs /\ ValidCatalog(old) /\ before = Dependents(old) /\ SearchOk(old, search)
  BY <1>2 DEF SnapshotOk, CatalogOf
<1>4. \/ publisher' = [publisher EXCEPT ![w] = To("refused", Absent, {})] /\ ~Removable(old, batch)
      \/ publisher' = [publisher EXCEPT ![w] = To("commit", Absent, {})]
      \/ /\ publisher' = [publisher EXCEPT ![w] = To("refused", Absent, affected)]
         /\ IncrementalVerdict(old, new, affected, changed) # "ok"
      \/ /\ publisher' = [publisher EXCEPT ![w] = To("commit", draft, affected)]
         /\ IncrementalVerdict(old, new, affected, changed) = "ok"
  BY DEF Apply, Goes
<1>5. Edit(old, new, changed)
  BY <1>2, <1>3, AppliedIsEdit
<1> HIDE DEF new, changed, old
<1>6. after = Dependents(new)
  BY <1>3, <1>5, EditedDependentsAreExact
<1>7. Apart(old, new, affected)
  BY <1>3, <1>5, <1>6, AffectedIsClosed
<1>8. /\ To("refused", Absent, {}).pc = "refused" /\ To("refused", Absent, {}).draft = Absent
      /\ To("refused", Absent, {}).base = base /\ To("refused", Absent, {}).batch = batch
      /\ To("refused", Absent, affected).pc = "refused" /\ To("refused", Absent, affected).draft = Absent
      /\ To("refused", Absent, affected).base = base /\ To("refused", Absent, affected).batch = batch
      /\ To("refused", Absent, affected).affected = affected
      /\ To("commit", Absent, {}).pc = "commit" /\ To("commit", Absent, {}).draft = Absent
      /\ To("commit", Absent, {}).batch = batch
      /\ To("commit", draft, affected).pc = "commit" /\ To("commit", draft, affected).draft = draft
      /\ To("commit", draft, affected).affected = affected
      /\ To("commit", draft, affected).base = base /\ To("commit", draft, affected).batch = batch
  OBVIOUS
<1>9. /\ draft.catalog = new /\ draft.dependents = after /\ draft.search = Absent /\ draft.seed = seed
  BY DEF Snapshot
<1>10. SeedOk(new, seed)
  <2>1. seed # Absent => seed.base = Index(old, Names) /\ seed.changed = changed
    BY <1>3 DEF SearchOk
  <2> QED
    BY <1>5, <2>1 DEF SeedOk
<1> HIDE DEF To, draft, after, affected, seed, before, search, base, batch
<1>11. CASE publisher' = [publisher EXCEPT ![w] = To("refused", Absent, {})] /\ ~Removable(old, batch)
  <2>1. WriterOk(To("refused", Absent, {}))
    BY <1>2, <1>8, <1>11 DEF WriterOk, BatchOk, RefusalOk, DraftFits, old
  <2> QED
    BY <1>1, <1>11, <2>1, WriterMoves
<1>14. CASE /\ publisher' = [publisher EXCEPT ![w] = To("refused", Absent, affected)]
            /\ IncrementalVerdict(old, new, affected, changed) # "ok"
  <2>1. ~ValidCatalog(new) \/ \E n \in affected \cap Present(new) : ~LookedUp(old, new, n)
    BY <1>5, <1>7, <1>14, IncrementalRefusalIsJust DEF Apart
  <2>2. WriterOk(To("refused", Absent, affected))
    BY <1>2, <1>8, <2>1 DEF WriterOk, BatchOk, RefusalOk, DraftFits, old, new
  <2> QED
    BY <1>1, <1>14, <2>2, WriterMoves
<1>12. CASE publisher' = [publisher EXCEPT ![w] = To("commit", Absent, {})]
  <2>1. WriterOk(To("commit", Absent, {}))
    BY <1>2, <1>8 DEF WriterOk, BatchOk, RefusalOk, DraftFits
  <2> QED
    BY <1>1, <1>12, <2>1, WriterMoves
<1>13. CASE /\ publisher' = [publisher EXCEPT ![w] = To("commit", draft, affected)]
            /\ IncrementalVerdict(old, new, affected, changed) = "ok"
  <2>1. ValidCatalog(new)
    BY <1>3, <1>5, <1>7, <1>13, IncrementalValidationIsSound
  <2>2. SnapshotOk(draft)
    BY <1>5, <1>6, <1>9, <1>10, <2>1 DEF SnapshotOk, SearchOk, Edit
  <2>3. \A n \in Names \ affected : Meaning(old, n) = Meaning(new, n)
    BY <1>5, <1>7, MeaningIsKept
  <2>6. Follows(old, new)
    BY <1>5, <1>7, <1>13, IncrementalValidationFollows
  <2>4. DraftFits(To("commit", draft, affected))
    BY <1>2, <1>8, <1>9, <2>2, <2>3, <2>6 DEF DraftFits, old
  <2>5. WriterOk(To("commit", draft, affected))
    BY <1>2, <1>8, <2>4 DEF WriterOk, BatchOk, RefusalOk
  <2> QED
    BY <1>1, <1>13, <2>5, WriterMoves
<1> QED
  BY <1>4, <1>11, <1>12, <1>13, <1>14

LEMMA SoundCommit ==
  ASSUME SoundInv, NEW w \in Writers, Commit(w)
  PROVE  SoundInv'
<1>1. StoreInv' /\ publisher' = [publisher EXCEPT ![w] = Idle] /\ UNCHANGED reader
  BY Committing DEF SoundInv, Commit, Stops
<1>2. WriterOk(Idle)
  BY DEF WriterOk, BatchOk, RefusalOk, DraftFits, Idle
<1>3. CASE UNCHANGED snapshots
  <2>1. Kept
    BY <1>3 DEF Kept, CatalogOf
  <2> QED
    BY <1>1, <1>2, <1>3, <2>1, HoldersKeep DEF SoundInv, StoreInv
<1>4. CASE publisher[w].draft # Absent /\ snapshots' = Append(snapshots, publisher[w].draft)
  <2>1. PICK S : snapshots \in Seq(S)
    BY DEF SoundInv, StoreInv
  <2>2. /\ \A s \in DOMAIN snapshots : s \in DOMAIN snapshots' /\ snapshots'[s] = snapshots[s]
        /\ \A s \in DOMAIN snapshots' : s \in DOMAIN snapshots \/ snapshots'[s] = publisher[w].draft
    BY <1>4, <2>1
  <2>3. Kept
    BY <2>2 DEF Kept, CatalogOf
  <2>4. SnapshotOk(publisher[w].draft)
    BY <1>4 DEF SoundInv, WriterOk, DraftFits
  <2>5. \A s \in DOMAIN snapshots' : SnapshotOk(snapshots'[s])
    BY <2>2, <2>4 DEF SoundInv
  <2> QED
    BY <1>1, <1>2, <2>3, <2>5, HoldersKeep DEF SoundInv, StoreInv
<1> QED
  BY <1>3, <1>4 DEF Commit

(* A reader moves on, which can leave an index with its snapshot. *)
LEMMA SoundSearch ==
  ASSUME SoundInv, NEW r \in Readers, Hold(r) \/ Look(r) \/ TakeSeed(r) \/ KeepIndex(r) \/ LeaveSearch(r)
  PROVE  SoundInv'
<1>1. StoreInv' /\ UNCHANGED <<latest, publisher>>
  BY Searching DEF SoundInv, Hold, Look, TakeSeed, KeepIndex, LeaveSearch
<1> DEFINE To(pc, at, seed) == [pc |-> pc, at |-> at, seed |-> seed]
<1>2. /\ To("look", latest, Absent).pc = "look" /\ To("idle", Absent, Absent).pc = "idle"
      /\ \A s, x : /\ To("seed", s, Absent).pc = "seed" /\ To("build", s, x).at = s
                  /\ To("build", s, x).seed = x
  OBVIOUS
<1>3. ASSUME Kept, \A s \in DOMAIN snapshots' : SnapshotOk(snapshots'[s]), NEW x, ReaderOk(x)',
             reader' = [reader EXCEPT ![r] = x]
      PROVE  SoundInv'
  <2>1. \A w \in Writers : WriterOk(publisher[w])'
    BY <1>1, <1>3, HoldersKeep DEF SoundInv
  <2>2. \A q \in Readers : ReaderOk(reader[q])'
    <3>1. reader' = [q \in Readers |-> IF q = r THEN x ELSE reader[q]]
      BY <1>3 DEF SoundInv, StoreInv
    <3> TAKE q \in Readers
    <3>2. CASE q = r
      BY <1>3, <3>1, <3>2 DEF ReaderOk
    <3>3. CASE q # r
      BY <1>3, <3>1, <3>3, HoldersKeep DEF SoundInv
    <3> QED
      BY <3>2, <3>3
  <2> QED
    BY <1>1, <1>3, <2>1, <2>2 DEF SoundInv
<1>4. UNCHANGED snapshots => Kept /\ \A s \in DOMAIN snapshots' : SnapshotOk(snapshots'[s])
  BY DEF Kept, CatalogOf, SoundInv
<1>5. CASE Hold(r) \/ Look(r) \/ LeaveSearch(r)
  <2>1. PICK x : x.pc # "build" /\ reader' = [reader EXCEPT ![r] = x]
    BY <1>2, <1>5 DEF Hold, Look, LeaveSearch, Reads
  <2> QED
    BY <1>3, <1>4, <1>5, <2>1 DEF ReaderOk, Hold, Look, LeaveSearch
<1>6. CASE TakeSeed(r)
  <2> DEFINE s == reader[r].at
  <2>0. PICK x : x = To("build", s, snapshots[s].seed)
    OBVIOUS
  <2>1. s \in DOMAIN snapshots
    BY <1>6 DEF TakeSeed, SoundInv, StoreInv
  <2>2. SeedOk(CatalogOf(s), snapshots[s].seed)
    BY <2>1 DEF SoundInv, SnapshotOk, CatalogOf
  <2>3. UNCHANGED snapshots /\ reader' = [reader EXCEPT ![r] = x]
    BY <1>6, <2>0 DEF TakeSeed, Reads
  <2>4. x.at = s /\ x.seed = snapshots[s].seed
    BY <2>0
  <2>5. ReaderOk(x)'
    <3>1. SeedOk(CatalogOf(x.at), x.seed)
      BY <2>2, <2>4
    <3>2. CatalogOf(x.at)' = CatalogOf(x.at)
      BY <2>3 DEF CatalogOf
    <3> QED
      BY <3>1, <3>2 DEF ReaderOk
  <2> QED
    BY <1>3, <1>4, <2>3, <2>5
<1>7. CASE KeepIndex(r)
  <2> DEFINE s == reader[r].at
             c == CatalogOf(s)
             seed == reader[r].seed
             index == IF seed = Absent THEN Index(c, Names) ELSE UpdatedIndex(seed.base, c, seed.changed)
             kept == IF snapshots[s].search = Absent THEN index ELSE snapshots[s].search
             next == Snapshot(c, snapshots[s].dependents, kept, Absent)
  <2>1. s \in DOMAIN snapshots /\ SeedOk(c, seed)
    BY <1>7 DEF KeepIndex, SoundInv, StoreInv, ReaderOk
  <2>2. snapshots' = [snapshots EXCEPT ![s] = next] /\ reader' = [reader EXCEPT ![r] = To("idle", Absent, Absent)]
    BY <1>7 DEF KeepIndex, Reads
  <2>3. /\ next.catalog = c /\ next.dependents = snapshots[s].dependents /\ next.search = kept
        /\ next.seed = Absent
    BY DEF Snapshot
  <2>4. SnapshotOk(snapshots[s]) /\ snapshots[s].catalog = c
    BY <2>1 DEF SoundInv, CatalogOf
  <2>5. index = Index(c, Names)
    <3>1. CASE seed # Absent
      <4>1. PICK old : Edit(old, c, seed.changed) /\ seed.base = Index(old, Names)
        BY <2>1, <3>1 DEF SeedOk
      <4> HIDE DEF c, seed
      <4> QED
        BY <3>1, <4>1, UpdateIsExact
    <3> QED
      BY <3>1
  <2>6. SearchOk(c, kept)
    BY <2>4, <2>5 DEF SnapshotOk, SearchOk
  <2> HIDE DEF c, next, kept, index, s
  <2>7. SnapshotOk(next)
    BY <2>3, <2>4, <2>6 DEF SnapshotOk, SeedOk
  <2>8. /\ DOMAIN snapshots' = DOMAIN snapshots /\ snapshots'[s] = next
        /\ \A t \in DOMAIN snapshots : t # s => snapshots'[t] = snapshots[t]
    BY <2>1, <2>2
  <2>9. Kept
    BY <2>3, <2>4, <2>8 DEF Kept, CatalogOf
  <2>10. \A t \in DOMAIN snapshots' : SnapshotOk(snapshots'[t])
    BY <2>7, <2>8 DEF SoundInv
  <2>11. ReaderOk(To("idle", Absent, Absent))'
    BY <1>2 DEF ReaderOk
  <2> QED
    BY <1>3, <2>2, <2>9, <2>10, <2>11
<1> QED
  BY <1>5, <1>6, <1>7

LEMMA StepSound ==
  SoundInv /\ [CatalogNext]_catalogVars => SoundInv'
<1> SUFFICES ASSUME SoundInv, [CatalogNext]_catalogVars PROVE SoundInv'
  OBVIOUS
<1>1. CASE UNCHANGED catalogVars
  <2>1. UNCHANGED <<snapshots, latest, publisher, reader>>
    BY <1>1 DEF catalogVars
  <2>2. StoreInv'
    BY StepStore DEF SoundInv
  <2>3. Kept
    BY <2>1 DEF Kept, CatalogOf
  <2> QED
    BY <2>1, <2>2, <2>3, HoldersKeep DEF SoundInv
<1> QED
  BY <1>1, SoundExpect, SoundApply, SoundCommit, SoundSearch DEF CatalogNext

LEMMA Soundness == CatalogSpec => []SoundInv
<1> QED
  BY InitSound, StepSound, PTL DEF CatalogSpec

(* Incremental validation against validate(): whatever relations and batches there are, no        *)
(* catalog is published that breaks as a whole a rule read from the draft, and a batch is refused *)
(* only if it breaks one, removes what is not there, or affects a relation that does not find     *)
(* what it looks up in the catalog before.                                                        *)
THEOREM ValidationIsExact == CatalogSpec => []ValidatedAsAWhole
<1>1. SoundInv => ValidatedAsAWhole
  BY DEF SoundInv, StoreInv, SnapshotOk, WriterOk, RefusalOk, ValidatedAsAWhole, PublishedIsValid,
         RefusalsAreJust, CatalogOf
<1> QED
  BY <1>1, Soundness, PTL

(* What is looked up in the catalog before.                                                        *)
LagInv == CatalogOf(latest) = CatalogOf(Len(snapshots)) /\ ChecksLagByOne

LEMMA InitLag == CatalogInit => LagInv
<1> SUFFICES ASSUME CatalogInit PROVE LagInv
  OBVIOUS
<1>1. PICK c \in Catalogs : FullVerdict(c) = "ok" /\ snapshots = <<Snapshot(c, Dependents(c), Absent, Absent)>>
  BY DEF CatalogInit
<1>2. DOMAIN snapshots = {1} /\ Len(snapshots) = 1 /\ latest = 1 /\ CatalogOf(1) = c
  BY <1>1 DEF CatalogInit, CatalogOf, Snapshot
<1>3. \A n \in Present(c) : LookedUp(c, c, n)
  BY <1>1, FullValidationIsSound
<1>4. ASSUME NEW n \in Present(c) PROVE CheckedAt(1, n, 1)
  BY <1>2, <1>3 DEF CheckedAt, Before
<1> QED
  BY <1>2, <1>4 DEF LagInv, ChecksLagByOne

(* Nothing is published.                                                                           *)
LEMMA SameLag ==
  ASSUME LagInv, SoundInv, SoundInv', DOMAIN snapshots' = DOMAIN snapshots, Kept,
         CatalogOf(latest)' = CatalogOf(latest)
  PROVE  LagInv'
<1>1. PICK S, T : snapshots \in Seq(S) /\ snapshots' \in Seq(T)
  BY DEF SoundInv, StoreInv
<1>2. Len(snapshots') = Len(snapshots) /\ Len(snapshots) \in DOMAIN snapshots
      /\ DOMAIN snapshots = 1 .. Len(snapshots)
  BY <1>1 DEF SoundInv, StoreInv
<1>3. CatalogOf(latest)' = CatalogOf(Len(snapshots))'
  BY <1>2 DEF LagInv, Kept
<1>4. ASSUME NEW s \in DOMAIN snapshots, NEW n \in Present(CatalogOf(s)) PROVE \E j \in 1 .. s : CheckedAt(s, n, j)'
  <2>1. PICK j \in 1 .. s : CheckedAt(s, n, j)
    BY DEF LagInv, ChecksLagByOne
  <2>2. s \in Nat /\ \A k \in 1 .. s : k \in DOMAIN snapshots
    BY <1>2
  <2>3. Before(j)' = Before(j)
    BY <2>2 DEF Before, Kept
  <2>4. CatalogOf(s)' = CatalogOf(s) /\ \A k \in j .. s : CatalogOf(k)' = CatalogOf(k)
    BY <2>2 DEF Kept
  <2> QED
    BY <2>1, <2>3, <2>4 DEF CheckedAt
<1>5. \A s \in DOMAIN snapshots : CatalogOf(s)' = CatalogOf(s)
  BY DEF Kept
<1> QED
  BY <1>3, <1>4, <1>5 DEF LagInv, ChecksLagByOne

(* A draft becomes the next snapshot: what it did not check is as in the last one.                 *)
LEMMA CommitLag ==
  ASSUME LagInv, SoundInv, SoundInv', NEW w \in Writers, Commit(w), publisher[w].draft # Absent,
         CatalogOf(latest) = publisher[w].expects
  PROVE  LagInv'
<1>0. PICK last, old, new : last = Len(snapshots) /\ old = CatalogOf(last) /\ new = publisher[w].draft.catalog
  OBVIOUS
<1>1. PICK S : snapshots \in Seq(S)
  BY DEF SoundInv, StoreInv
<1>2. snapshots' = Append(snapshots, publisher[w].draft) /\ latest' = last + 1
  BY <1>0 DEF Commit
<1>3. /\ last \in Nat \ {0} /\ DOMAIN snapshots = 1 .. last /\ DOMAIN snapshots' = 1 .. last + 1
      /\ Len(snapshots') = last + 1
      /\ CatalogOf(last + 1)' = new /\ \A s \in 1 .. last : CatalogOf(s)' = CatalogOf(s)
  <2>1. snapshots' \in Seq(S \cup {publisher[w].draft})
    BY <1>1, <1>2
  <2>2. last \in Nat \ {0} /\ DOMAIN snapshots = 1 .. last
    BY <1>0, <1>1 DEF SoundInv, StoreInv
  <2>3. Len(snapshots') = last + 1 /\ DOMAIN snapshots' = 1 .. last + 1
    BY <1>0, <1>1, <1>2, <2>1, <2>2
  <2>4. snapshots'[last + 1] = publisher[w].draft /\ \A s \in 1 .. last : snapshots'[s] = snapshots[s]
    BY <1>0, <1>1, <1>2, <2>1, <2>2
  <2> QED
    BY <1>0, <2>2, <2>3, <2>4 DEF CatalogOf
<1>4. Follows(old, new)
  <2>1. CatalogOf(publisher[w].base) = old
    BY <1>0 DEF SoundInv, StoreInv, DraftOk, LagInv, Commit
  <2> QED
    BY <1>0, <2>1 DEF SoundInv, WriterOk, DraftFits
<1>5. \A n \in Present(old) : \E j \in 1 .. last : CheckedAt(last, n, j)
  <2>1. last \in DOMAIN snapshots
    BY <1>3
  <2> QED
    BY <1>0, <2>1 DEF LagInv, ChecksLagByOne
<1>6. \A s \in 1 .. last : \A n \in Present(CatalogOf(s)) : \E j \in 1 .. s : CheckedAt(s, n, j)
  BY <1>3 DEF LagInv, ChecksLagByOne
<1>7. ASSUME NEW s \in 1 .. last, NEW j \in 1 .. s PROVE Before(j)' = Before(j)
  BY <1>3 DEF Before
<1>8. ASSUME NEW s \in 1 .. last, NEW n \in Present(CatalogOf(s)) PROVE \E j \in 1 .. s : CheckedAt(s, n, j)'
  <2>1. PICK j \in 1 .. s : CheckedAt(s, n, j)
    BY <1>6
  <2>2. CatalogOf(s)' = CatalogOf(s) /\ \A k \in j .. s : CatalogOf(k)' = CatalogOf(k)
    BY <1>3
  <2> QED
    BY <1>7, <2>1, <2>2 DEF CheckedAt
<1>9. ASSUME NEW n \in Present(new) PROVE \E j \in 1 .. last + 1 : CheckedAt(last + 1, n, j)'
  <2>1. CASE LookedUp(old, new, n)
    <3>1. Before(last + 1)' = old
      <4>1. PICK next : next = last + 1
        OBVIOUS
      <4>2. next # 1 /\ next - 1 = last /\ snapshots'[last].catalog = old
        BY <1>0, <1>3, <4>1 DEF CatalogOf
      <4>3. Before(next)' = old
        BY <4>2 DEF Before, CatalogOf
      <4> QED
        BY <4>1, <4>3 DEF Before, CatalogOf
    <3>2. \A k \in last + 1 .. last + 1 : CatalogOf(k)' = new
      BY <1>3
    <3>3. CheckedAt(last + 1, n, last + 1)'
      BY <1>3, <2>1, <3>1, <3>2 DEF CheckedAt
    <3> QED
      BY <1>3, <3>3
  <2>2. CASE Same(old, new, n)
    <3>1. new[n] = old[n] /\ n \in Present(old)
      BY <2>2 DEF Same, Present, Has
    <3>2. Def(new, n) = Def(old, n) /\ Dependencies(new, n) = Dependencies(old, n)
      BY <3>1, SameDefinition
    <3>3. PICK j \in 1 .. last : CheckedAt(last, n, j)
      BY <1>5, <3>1
    <3>4. Before(j)' = Before(j)
      BY <1>3, <1>7
    <3>5. LookedUp(Before(j), new, n)
      BY <1>0, <3>2, <3>3 DEF CheckedAt, LookedUp, LineagePinned, RulesFit
    <3>6. ASSUME NEW k \in j .. last + 1, NEW m \in {n} \cup Dependencies(new, n)
          PROVE  CatalogOf(k)'[m] = new[m]
      <4>1. new[m] = old[m]
        BY <2>2 DEF Same
      <4>2. CASE k = last + 1
        BY <1>3, <4>2
      <4>3. CASE k # last + 1
        <5>1. k \in j .. last /\ k \in 1 .. last
          BY <1>3, <4>3
        <5> QED
          BY <1>0, <1>3, <3>2, <3>3, <4>1, <5>1 DEF CheckedAt
      <4> QED
        BY <4>2, <4>3
    <3>7. CheckedAt(last + 1, n, j)'
      BY <1>3, <3>4, <3>5, <3>6 DEF CheckedAt
    <3> QED
      BY <1>3, <3>7
  <2> QED
    BY <1>4, <2>1, <2>2 DEF Follows
<1>10. ASSUME NEW s \in DOMAIN snapshots', NEW n \in Present(CatalogOf(s)') PROVE \E j \in 1 .. s : CheckedAt(s, n, j)'
  <2>1. CASE s = last + 1
    BY <1>3, <1>9, <2>1
  <2>2. CASE s # last + 1
    <3>1. s \in 1 .. last
      BY <1>3, <2>2
    <3> QED
      BY <1>3, <1>8, <3>1
  <2> QED
    BY <2>1, <2>2
<1>11. CatalogOf(latest)' = CatalogOf(Len(snapshots))'
  BY <1>2, <1>3 DEF CatalogOf
<1> QED
  BY <1>10, <1>11 DEF LagInv, ChecksLagByOne, Present, Has

LEMMA StepLag == LagInv /\ SoundInv /\ SoundInv' /\ [CatalogNext]_catalogVars => LagInv'
<1> SUFFICES ASSUME LagInv, SoundInv, SoundInv', [CatalogNext]_catalogVars PROVE LagInv'
  OBVIOUS
<1>1. CASE UNCHANGED snapshots /\ CatalogOf(latest)' = CatalogOf(latest)
  <2>1. Kept /\ DOMAIN snapshots' = DOMAIN snapshots
    BY <1>1 DEF Kept, CatalogOf
  <2> QED
    BY <1>1, <2>1, SameLag
<1>2. CASE UNCHANGED catalogVars
  BY <1>1, <1>2 DEF catalogVars, CatalogOf
<1>3. ASSUME NEW w \in Writers, Expect(w) \/ Copy(w) \/ Apply(w) \/ ExceedLimit(w) PROVE LagInv'
  BY <1>1, <1>3 DEF Expect, Copy, Apply, ExceedLimit, CatalogOf
<1>4. ASSUME NEW w \in Writers, Commit(w) PROVE LagInv'
  <2>1. CASE publisher[w].draft # Absent /\ CatalogOf(latest) = publisher[w].expects
    BY <1>4, <2>1, CommitLag
  <2>2. CASE publisher[w].draft = Absent \/ CatalogOf(latest) # publisher[w].expects
    <3>1. UNCHANGED snapshots /\ CatalogOf(latest)' = CatalogOf(latest)
      BY <1>4, <2>2 DEF Commit, CatalogOf, SoundInv, StoreInv, DraftOk
    <3> QED
      BY <1>1, <3>1
  <2> QED
    BY <2>1, <2>2
<1>5. ASSUME NEW r \in Readers, Hold(r) \/ Look(r) \/ TakeSeed(r) \/ LeaveSearch(r) PROVE LagInv'
  BY <1>1, <1>5 DEF Hold, Look, TakeSeed, LeaveSearch, CatalogOf
<1>6. ASSUME NEW r \in Readers, KeepIndex(r) PROVE LagInv'
  <2>1. reader[r].at \in DOMAIN snapshots /\ \E S : snapshots \in Seq(S)
    BY <1>6 DEF KeepIndex, SoundInv, StoreInv
  <2>2. PICK x : snapshots' = [snapshots EXCEPT ![reader[r].at] = x] /\ x.catalog = CatalogOf(reader[r].at)
    <3> DEFINE next(d, index) == Snapshot(CatalogOf(reader[r].at), d, index, Absent)
    <3>1. \A d, index : next(d, index).catalog = CatalogOf(reader[r].at)
      BY DEF Snapshot
    <3>2. \E d, index : snapshots' = [snapshots EXCEPT ![reader[r].at] = next(d, index)]
      BY <1>6 DEF KeepIndex
    <3> QED
      BY <3>1, <3>2
  <2>3. Kept /\ DOMAIN snapshots' = DOMAIN snapshots
    BY <2>1, <2>2 DEF Kept, CatalogOf
  <2>4. CatalogOf(latest)' = CatalogOf(latest)
    BY <1>6, <2>3 DEF KeepIndex, Kept, SoundInv, StoreInv
  <2> QED
    BY <2>3, <2>4, SameLag
<1> QED
  BY <1>2, <1>3, <1>4, <1>5, <1>6 DEF CatalogNext

(* A definition that was not looked at when a batch was published is one whose names the batch     *)
(* left alone (the clone of Catalog keeps its snapshot while incremental() validates it).          *)
THEOREM ChecksLag == CatalogSpec => []ChecksLagByOne
<1>1. LagInv => ChecksLagByOne
  BY DEF LagInv
<1> QED
  BY <1>1, InitLag, StepLag, Soundness, PTL DEF CatalogSpec

(* What a report does not name means the same before and after (affected in incremental()). *)
THEOREM MeaningsAreKept == CatalogSpec => []UnaffectedKeepsMeaning
<1>1. SoundInv => UnaffectedKeepsMeaning
  BY DEF SoundInv, WriterOk, DraftFits, UnaffectedKeepsMeaning
<1> QED
  BY <1>1, Soundness, PTL

(* However a search index came about, from nothing or from an older index and the names that   *)
(* changed, it is the index of its snapshot (search_index(), SearchIndex::update()).            *)
THEOREM IndexesAreExact == CatalogSpec => []IndexIsOfItsSnapshot
<1>1. SoundInv => IndexIsOfItsSnapshot
  BY DEF SoundInv, SnapshotOk, SearchOk, IndexIsOfItsSnapshot, CatalogOf
<1> QED
  BY <1>1, Soundness, PTL
=============================================================================
