---------------------------- MODULE CatalogStore ----------------------------
(***************************************************************************)
(* The catalog of definitions (semantic-catalog: publication.rs,           *)
(* snapshot.rs, search.rs).  A catalog maps relation names to definitions; *)
(* a definition is known by its revision, the digest of its content.       *)
(* Writers publish batches of changes optimistically: they validate a copy *)
(* of the catalog, incrementally if the dependencies of the old one are    *)
(* known, and replace the current catalog if it is still the one they      *)
(* expected.  Every catalog has a snapshot; its search index is built on   *)
(* first use, from the index of the previous snapshot if there is one.     *)
(***************************************************************************)
EXTENDS Naturals, Sequences, FiniteSets, SequencesExt

CONSTANTS Names,            \* names of relations
          Content,          \* revision -> [name, view, deps, refs, rules, key, pin, terms]
          Writers, Readers,
          Batches,          \* writer -> its batches of changes, sequences of [put] or [remove]
          Absent,           \* no definition, no index, no snapshot
          MaxSnapshots      \* snapshots published in a behaviour

Revisions == DOMAIN Content
Catalogs == [Names -> Revisions \cup {Absent}]
Changes == [put : Revisions] \cup [remove : Names]

ASSUME CatalogAssumption ==
    /\ IsFiniteSet(Names)
    /\ Absent \notin Revisions
    /\ \A v \in Revisions : /\ Content[v].name \in Names /\ Content[v].deps \in Seq(Names)
                            /\ Content[v].refs \subseteq Names /\ Content[v].rules \subseteq Names
    /\ \A w \in Writers : Batches[w] \subseteq Seq(Changes)
    /\ MaxSnapshots \in Nat \ {0}

VARIABLES snapshots,        \* every snapshot published: its catalog, dependents, search index and seed
          latest,           \* the snapshot of the current catalog
          publisher,        \* per writer: where it is, what it expects, changes and drafts
          reader            \* per reader: the snapshot it searches and the seed it took

catalogVars == <<snapshots, latest, publisher, reader>>

Has(c, n) == c[n] # Absent
Def(c, n) == Content[c[n]]
Present(c) == {n \in Names : Has(c, n)}

(* dependencies(): the relations a definition names: those a view reads, those its         *)
(* relationships lead to (refs), its allocations, currency rates and calendars (rules).    *)
ViewDeps(c, n) == IF Has(c, n) /\ Def(c, n).view THEN ToSet(Def(c, n).deps) ELSE {}
Dependencies(c, n) ==
    IF Has(c, n) THEN ViewDeps(c, n) \cup Def(c, n).refs \cup Def(c, n).rules ELSE {}
Dependents(c) == [d \in Names |-> {n \in Names : d \in Dependencies(c, n)}]

(* What a worklist reaches in a graph, given as a function to successors: the least set that *)
(* holds where it starts and is closed under the edges.                                      *)
Reached(from, next) ==
    LET edges == UNION {{m} \X next[m] : m \in Names}
        Closed == {S \in SUBSET Names : from \subseteq S /\ \A e \in edges : e[1] \in S => e[2] \in S}
    IN  {n \in Names : \A S \in Closed : n \in S}

-----------------------------------------------------------------------------
(* Validation.                                                             *)

(* validate_definitions(): what a relation of a catalog c says of itself and of others.  It *)
(* reads the relations of c, but for some rules it looks into the snapshot that is kept with *)
(* c: a draft is a clone and keeps that of the catalog before (seen).                        *)
ReferencesExist(c, n) == Def(c, n).refs \cup Def(c, n).rules \subseteq Present(c)

(* The keys of a relationship have one type on both sides. *)
KeysAgree(c, n) == \A r \in Def(c, n).refs : Def(c, r).key = Def(c, n).key

(* The lineage of a view pins the revision of its only source. *)
LineagePinned(seen, c, n) ==
    LET pin == Def(c, n).pin
    IN  pin # Absent => /\ Def(c, n).view
                        /\ Def(c, n).deps = <<Content[pin].name>>
                        /\ seen[Content[pin].name] = pin

(* An allocation, rate or calendar finds both relations, with keys of one type. *)
RulesFit(seen, c, n) ==
    \A r \in Def(c, n).rules : /\ Has(seen, n) /\ Has(seen, r)
                               /\ Def(seen, r).key = Def(seen, n).key

LookedUp(seen, c, n) == LineagePinned(seen, c, n) /\ RulesFit(seen, c, n)

DefinitionsValid(seen, c, n) == ReferencesExist(c, n) /\ KeysAgree(c, n) /\ LookedUp(seen, c, n)

(* validate(): dependencies exist, Kahn's algorithm emits every relation, definitions are valid. *)
(* It emits the least set that holds every relation whose dependencies it holds.                 *)
Placed(c) ==
    LET Closed == {S \in SUBSET Names : \A m \in Present(c) : ViewDeps(c, m) \subseteq S => m \in S}
    IN  {n \in Names : \A S \in Closed : n \in S}

FullVerdict(c) ==
    IF \E n \in Names : \E d \in ViewDeps(c, n) : ~Has(c, d) THEN "missing"
    ELSE IF Placed(c) # Present(c) THEN "cycle"
    ELSE IF \E n \in Present(c) : ~DefinitionsValid(c, c, n) THEN "invalid" ELSE "ok"

(* incremental(): edits the dependents that are known of the old catalog, then checks only the *)
(* relations that may be affected; a cycle can only lead through changed view dependencies.    *)

EditedDependents(old, new, dependents, changed) ==
    [d \in Names |->
        (dependents[d] \ {n \in changed : d \in Dependencies(old, n) \ Dependencies(new, n)})
            \cup {n \in changed : d \in Dependencies(new, n) \ Dependencies(old, n)}]

(* Mutant: what depends directly on a change. *)
AffectedMutant(before, after, changed) ==
    changed \cup UNION {before[n] \cup after[n] : n \in changed}

Affected(before, after, changed) == Reached(changed, [n \in Names |-> before[n] \cup after[n]])

(* Mutant: only what changed itself is validated again. *)
ChangedVerdict(old, new, affected, changed) ==
    LET views == [n \in Names |-> ViewDeps(new, n)]
        checked == changed \cap Present(new)
    IN  IF \E n \in checked : \E d \in Dependencies(new, n) : ~Has(new, d) THEN "missing"
        ELSE IF \E n \in checked : ~DefinitionsValid(old, new, n) THEN "invalid"
        ELSE IF \E n \in Reached(changed, views) : n \in Reached(views[n], views) THEN "cycle"
        ELSE "ok"

IncrementalVerdict(old, new, affected, changed) ==
    LET views == [n \in Names |-> ViewDeps(new, n)]
        starts == {n \in changed : ViewDeps(old, n) # ViewDeps(new, n)}
        checked == affected \cap Present(new)
    IN  IF \E n \in checked : \E d \in Dependencies(new, n) : ~Has(new, d) THEN "missing"
        ELSE IF \E n \in checked : ~DefinitionsValid(old, new, n) THEN "invalid"
        ELSE IF \E n \in Reached(starts, views) : n \in Reached(views[n], views) THEN "cycle"
        ELSE "ok"

-----------------------------------------------------------------------------
(* Changes.                                                                *)

Target(change) == IF "put" \in DOMAIN change THEN Content[change.put].name ELSE change.remove
Outcome(change) == IF "put" \in DOMAIN change THEN change.put ELSE Absent

(* The last change of a relation decides. *)
On(batch, n) == {i \in DOMAIN batch : Target(batch[i]) = n}
Applied(c, batch) ==
    [n \in Names |-> LET on == On(batch, n)
                     IN  IF on = {} THEN c[n] ELSE Outcome(batch[Max(on)])]

(* Every removal finds its relation. *)
Removable(c, batch) ==
    \A i \in DOMAIN batch :
        "remove" \in DOMAIN batch[i] => Has(Applied(c, SubSeq(batch, 1, i - 1)), batch[i].remove)

(* A relation changed, even if a later change undid it, once a change differs from what the *)
(* catalog says of it: the first such change finds the old definition.                      *)
ChangedNames(c, batch) ==
    {n \in Names : \E i \in On(batch, n) : Outcome(batch[i]) # c[n]}

-----------------------------------------------------------------------------
(* Search.  An index maps each term to postings, relations with weights, and each relation *)
(* to the terms it occurs under.                                                           *)

Terms == UNION {DOMAIN Content[v].terms : v \in Revisions}

Index(c, names) ==
    LET of(t) == {n \in names \cap Present(c) : t \in DOMAIN Def(c, n).terms}
    IN  [postings |-> [t \in Terms |-> [n \in of(t) |-> Def(c, n).terms[t]]],
         footprints |-> [n \in Names |-> {t \in Terms : n \in of(t)}]]

(* Mutant: only terms under which a changed relation is found now are touched. *)
UpdatedIndexMutant(base, c, changed) ==
    LET new == Index(c, changed)
        touched == UNION {new.footprints[n] : n \in changed}
        kept(t) == DOMAIN base.postings[t] \ changed
    IN  [postings |-> [t \in Terms |->
            IF t \notin touched THEN base.postings[t]
            ELSE [n \in kept(t) \cup DOMAIN new.postings[t] |->
                    IF n \in kept(t) THEN base.postings[t][n] ELSE new.postings[t][n]]],
         footprints |-> [n \in Names |->
            IF n \in changed THEN new.footprints[n] ELSE base.footprints[n]]]

(* update(): only terms under which a changed relation was or is found are touched. *)
UpdatedIndex(base, c, changed) ==
    LET new == Index(c, changed)
        touched == UNION {base.footprints[n] \cup new.footprints[n] : n \in changed}
        kept(t) == DOMAIN base.postings[t] \ changed
    IN  [postings |-> [t \in Terms |->
            IF t \notin touched THEN base.postings[t]
            ELSE [n \in kept(t) \cup DOMAIN new.postings[t] |->
                    IF n \in kept(t) THEN base.postings[t][n] ELSE new.postings[t][n]]],
         footprints |-> [n \in Names |->
            IF n \in changed THEN new.footprints[n] ELSE base.footprints[n]]]

-----------------------------------------------------------------------------
Snapshot(c, dependents, search, seed) ==
    [catalog |-> c, dependents |-> dependents, search |-> search, seed |-> seed]

(* A draft is absent where a batch changes nothing. *)
Idle == [pc |-> "idle", base |-> Absent, expects |-> Absent, batch |-> <<>>,
         draft |-> Absent, affected |-> {}]

(* CatalogStore::new() takes every catalog that passes validate(). *)
CatalogInit ==
    /\ \E c \in Catalogs :
          /\ \A n \in Present(c) : Def(c, n).name = n
          /\ FullVerdict(c) = "ok"
          /\ snapshots = <<Snapshot(c, Dependents(c), Absent, Absent)>>
    /\ latest = 1
    /\ publisher = [w \in Writers |-> Idle]
    /\ reader = [r \in Readers |-> [pc |-> "idle", at |-> Absent, seed |-> Absent]]

CatalogOf(s) == snapshots[s].catalog

Goes(w, pc, base, draft, affected) ==
    publisher' = [publisher EXCEPT ![w] =
        [pc |-> pc, base |-> base, expects |-> publisher[w].expects, batch |-> publisher[w].batch,
         draft |-> draft, affected |-> affected]]
Stops(w) == publisher' = [publisher EXCEPT ![w] = Idle]

(* An application reads the snapshot that its changes are meant for. *)
Expect(w) ==
    /\ publisher[w].pc \in {"idle", "refused"} /\ Len(snapshots) < MaxSnapshots
    /\ \E batch \in Batches[w] :
          publisher' = [publisher EXCEPT ![w] =
              [pc |-> "publish", base |-> Absent, expects |-> CatalogOf(latest), batch |-> batch,
               draft |-> Absent, affected |-> {}]]
    /\ UNCHANGED <<snapshots, latest, reader>>

(* publish(): copies the current catalog and compares its revision. *)
Copy(w) ==
    /\ publisher[w].pc = "publish"
    /\ IF CatalogOf(latest) = publisher[w].expects
       THEN Goes(w, "apply", latest, Absent, {})
       ELSE Stops(w)                                                \* Conflict
    /\ UNCHANGED <<snapshots, latest, reader>>

(* apply_changes(): makes and validates the draft. Its index can start from that of the copy. *)
Apply(w) ==
    /\ publisher[w].pc = "apply"
    /\ LET base == publisher[w].base
           batch == publisher[w].batch
           old == CatalogOf(base)
           new == Applied(old, batch)
           changed == ChangedNames(old, batch)
           before == snapshots[base].dependents
           after == EditedDependents(old, new, before, changed)
           affected == Affected(before, after, changed)
           search == snapshots[base].search
           seed == IF search = Absent THEN Absent ELSE [base |-> search, changed |-> changed]
       IN  IF ~Removable(old, batch) THEN Goes(w, "refused", base, Absent, {})
           ELSE IF changed = {} THEN Goes(w, "commit", base, Absent, {})
           ELSE IF IncrementalVerdict(old, new, affected, changed) # "ok"
           THEN Goes(w, "refused", base, Absent, affected)
           ELSE Goes(w, "commit", base, Snapshot(new, after, Absent, seed), affected)
    /\ UNCHANGED <<snapshots, latest, reader>>

(* The limits on objects and edges can end the validation of any batch. *)
ExceedLimit(w) ==
    /\ publisher[w].pc = "apply"
    /\ Stops(w)
    /\ UNCHANGED <<snapshots, latest, reader>>

(* Mutant: the revision is not compared again. *)
CommitMutant(w) ==
    /\ publisher[w].pc = "commit"
    /\ IF publisher[w].draft = Absent
       THEN latest' = publisher[w].base /\ UNCHANGED snapshots
       ELSE /\ Len(snapshots) < MaxSnapshots
            /\ snapshots' = Append(snapshots, publisher[w].draft)
            /\ latest' = Len(snapshots) + 1
    /\ Stops(w)
    /\ UNCHANGED reader

(* The write lock: the revision is compared again, then the draft becomes current. *)
Commit(w) ==
    /\ publisher[w].pc = "commit"
    /\ IF CatalogOf(latest) # publisher[w].expects
       THEN UNCHANGED <<snapshots, latest>>                        \* Conflict
       ELSE IF publisher[w].draft = Absent
       THEN latest' = publisher[w].base /\ UNCHANGED snapshots
       ELSE /\ Len(snapshots) < MaxSnapshots
            /\ snapshots' = Append(snapshots, publisher[w].draft)
            /\ latest' = Len(snapshots) + 1
    /\ Stops(w)
    /\ UNCHANGED reader

Reads(r, pc, at, seed) == reader' = [reader EXCEPT ![r] = [pc |-> pc, at |-> at, seed |-> seed]]

(* search_index(): a snapshot without an index builds one, from a seed if it has one. *)
Hold(r) ==
    /\ reader[r].pc = "idle"
    /\ Reads(r, "look", latest, Absent)
    /\ UNCHANGED <<snapshots, latest, publisher>>

Look(r) ==
    /\ reader[r].pc = "look" /\ snapshots[reader[r].at].search = Absent
    /\ Reads(r, "seed", reader[r].at, Absent)
    /\ UNCHANGED <<snapshots, latest, publisher>>

TakeSeed(r) ==
    /\ reader[r].pc = "seed"
    /\ Reads(r, "build", reader[r].at, snapshots[reader[r].at].seed)
    /\ UNCHANGED <<snapshots, latest, publisher>>

(* The first index that is ready is kept. *)
KeepIndex(r) ==
    /\ reader[r].pc = "build"
    /\ LET s == reader[r].at
           seed == reader[r].seed
           index == IF seed = Absent THEN Index(CatalogOf(s), Names)
                    ELSE UpdatedIndex(seed.base, CatalogOf(s), seed.changed)
           kept == IF snapshots[s].search = Absent THEN index ELSE snapshots[s].search
       IN  snapshots' = [snapshots EXCEPT ![s] =
               Snapshot(CatalogOf(s), snapshots[s].dependents, kept, Absent)]
    /\ Reads(r, "idle", Absent, Absent)
    /\ UNCHANGED <<latest, publisher>>

(* An index that is there needs no build, and a build that runs out of budget leaves nothing. *)
LeaveSearch(r) ==
    /\ \/ reader[r].pc = "build"
       \/ reader[r].pc = "look" /\ snapshots[reader[r].at].search # Absent
    /\ Reads(r, "idle", Absent, Absent)
    /\ UNCHANGED <<snapshots, latest, publisher>>

CatalogNext ==
    \/ \E w \in Writers : Expect(w) \/ Copy(w) \/ Apply(w) \/ ExceedLimit(w) \/ Commit(w)
    \/ \E r \in Readers : Hold(r) \/ Look(r) \/ TakeSeed(r) \/ KeepIndex(r) \/ LeaveSearch(r)

CatalogSpec == CatalogInit /\ [][CatalogNext]_catalogVars

-----------------------------------------------------------------------------
(* What the store promises.                                                *)

(* A catalog without dangling references, circular views or keys that do not agree. *)
ValidCatalog(c) ==
    /\ \A n \in Names : Dependencies(c, n) \subseteq Present(c)
    /\ \A S \in (SUBSET Names) \ {{}} : \E n \in S : ViewDeps(c, n) \cap S = {}
    /\ \A n \in Present(c) : ReferencesExist(c, n) /\ KeysAgree(c, n)

PublishedIsValid == ValidCatalog(CatalogOf(latest))

RefusalsAreJust ==
    \A w \in Writers : publisher[w].pc = "refused" =>
        LET old == CatalogOf(publisher[w].base)
            new == Applied(old, publisher[w].batch)
        IN  \/ ~Removable(old, publisher[w].batch)
            \/ ~ValidCatalog(new)
            \/ \E n \in publisher[w].affected \cap Present(new) : ~LookedUp(old, new, n)

(* Incremental validation looks only at what a batch may affect, and yet no catalog is ever *)
(* published that breaks, as a whole, a rule that is read from the draft.  A batch is       *)
(* refused only if what it makes breaks such a rule, it removes what is not there, or a     *)
(* relation it affects does not find what it looks up in the catalog before (incremental()  *)
(* against validate()).                                                                     *)
ValidatedAsAWhole == PublishedIsValid /\ RefusalsAreJust

(* What is looked up in the snapshot kept by the draft lags behind by one publication, and  *)
(* never by more: every definition was checked against the catalog just before the last     *)
(* publication that changed it or anything it names, though batches are validated only      *)
(* where they may affect something (the first catalog was checked against itself).          *)
Before(j) == IF j = 1 THEN CatalogOf(1) ELSE CatalogOf(j - 1)
CheckedAt(s, n, j) ==
    /\ LookedUp(Before(j), CatalogOf(s), n)
    /\ \A k \in j .. s : \A m \in {n} \cup Dependencies(CatalogOf(s), n) :
          CatalogOf(k)[m] = CatalogOf(s)[m]
ChecksLagByOne ==
    \A s \in DOMAIN snapshots : \A n \in Present(CatalogOf(s)) :
        \E j \in 1 .. s : CheckedAt(s, n, j)

(* A lineage names the revision its source has "in the same catalog snapshot", says the     *)
(* comment on ViewOutputLineage.  It does not: see validate_definitions().                  *)
LineageIsCurrent ==
    \A s \in DOMAIN snapshots : \A n \in Present(CatalogOf(s)) :
        LET pin == Def(CatalogOf(s), n).pin
        IN  pin # Absent => CatalogOf(s)[Content[pin].name] = pin

(* The report names every relation whose meaning may have changed: what any other relation *)
(* is defined by, at any distance, is the same before and after.                            *)
Meaning(c, n) == [m \in Reached({n}, [k \in Names |-> Dependencies(c, k)]) |-> c[m]]
UnaffectedKeepsMeaning ==
    \A w \in Writers : publisher[w].draft # Absent =>
        \A n \in Names \ publisher[w].affected :
            Meaning(CatalogOf(publisher[w].base), n) = Meaning(publisher[w].draft.catalog, n)

(* A search index that was updated from an older one, by whichever reader, is the index that *)
(* would be built from the snapshot itself.                                                  *)
IndexIsOfItsSnapshot ==
    \A s \in DOMAIN snapshots :
        snapshots[s].search # Absent => snapshots[s].search = Index(CatalogOf(s), Names)

(* No update is lost: the catalog changes only from what a writer expected to what its batch *)
(* makes of that.                                                                            *)
NoLostUpdate ==
    [][CatalogOf(latest)' # CatalogOf(latest) =>
          \E w \in Writers :
             /\ publisher[w].expects = CatalogOf(latest)
             /\ CatalogOf(latest)' = Applied(CatalogOf(latest), publisher[w].batch)]_catalogVars
=============================================================================
