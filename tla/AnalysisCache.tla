--------------------------- MODULE AnalysisCache ---------------------------
(***************************************************************************)
(* The cache of compiler analyses, AnalysisCache::get_or_build of          *)
(* crates/semantic-compiler/src/typed/dependency_cache.rs.  Callers that    *)
(* hold different catalog snapshots share one cache: an entry is keyed by   *)
(* the exact input and carries the results of the lookups its analysis     *)
(* made, absent ones included.  A caller without a valid entry joins the   *)
(* lock of its identity, looks again, and builds.                          *)
(*                                                                         *)
(* `used' stamps are kept as ranks: only their order is ever looked at.    *)
(* Statistics are left out but for retained_bytes, which the code acts on. *)
(***************************************************************************)
EXTENDS Integers, FiniteSets, Functions

CONSTANTS
    Calls,         \* concurrent calls of get_or_build
    Identities,    \* AnalysisCacheIdentity
    Snapshots,     \* catalog snapshots callers may hold
    Lookups,       \* LookupDependency
    Results,       \* what a lookup may find, Nothing among them
    Values,        \* analyses
    Locks,         \* the per-identity mutexes a process allocates
    Nothing,
    Result,        \* snapshot -> lookup -> its result (lookup_result)
    Declared,      \* identity -> snapshot -> the lookups a build declares
    Value,         \* identity -> snapshot -> what a build returns
    Sizes,         \* bound: the sizes builds report
    MaxEntries, MaxBytes, MaxLookups, MaxActive   \* AnalysisCacheLimits

ASSUME AnalysisAssumption ==
    /\ IsFiniteSet(Identities)
    /\ Nothing \notin Calls \cup Locks \cup Values
    /\ Result \in [Snapshots -> [Lookups -> Results]]
    /\ Declared \in [Identities -> [Snapshots -> SUBSET Lookups]]
    /\ Value \in [Identities -> [Snapshots -> Values]]
    /\ Sizes \subseteq Nat
    /\ MaxEntries \in Nat \ {0} /\ MaxBytes \in Nat \ {0}
    /\ MaxLookups \in Nat \ {0} /\ MaxActive \in Nat \ {0}

(* A build reads its snapshot only through the lookups it declares, so the *)
(* same results lead to the same value: what callers promise.              *)
ASSUME BuildsAreDetermined ==
    \A i \in Identities : \A s, t \in Snapshots :
        (\A l \in Declared[i][s] : Result[s][l] = Result[t][l])
            => Value[i][s] = Value[i][t]

VARIABLES
    entries,    \* identity -> entry, for the identities that have one
    retained,   \* stats.retained_bytes
    rank,       \* identity -> place in the order of last uses
    active,     \* identity -> the lock its Weak names, or Nothing
    guard,      \* lock -> the call that holds it, or Nothing
    place,      \* call -> where it is
    id,         \* call -> its identity
    snap,       \* call -> the snapshot it holds
    lockOf,     \* call -> the lock its Arc keeps alive, or Nothing
    answer      \* call -> the value it is about to return, or Nothing

callVars == <<place, id, snap, lockOf, answer>>
analysisVars == <<entries, retained, rank, active, guard, callVars>>

Captures == UNION {[L -> Results] : L \in SUBSET Lookups}
Entry == [value : Values, dependencies : Captures, bytes : Nat]

-----------------------------------------------------------------------------
(* DependencySet::capture and matches.                                     *)
Capture(s, L) == [l \in L |-> Result[s][l]]

(* Mutant: compares what was found, not what was missing.                  *)
MatchesMutant(dependencies, s) ==
    \A l \in DOMAIN dependencies :
        dependencies[l] # Nothing => Result[s][l] = dependencies[l]

Matches(dependencies, s) ==
    \A l \in DOMAIN dependencies : Result[s][l] = dependencies[l]

Valid(i, s) == i \in DOMAIN entries /\ Matches(entries[i].dependencies, s)

(* The bytes of some entries, counted one by one.                          *)
EntryUnits(e, I) == UNION {{i} \X (1..e[i].bytes) : i \in I}
EntryBytes(I) == Cardinality(EntryUnits(entries, I))

(* i becomes the most recently used.                                       *)
Touch(i) ==
    [j \in Identities |-> IF j = i THEN Cardinality(Identities)
                          ELSE IF rank[j] > rank[i] THEN rank[j] - 1
                          ELSE rank[j]]

InUse(l) == l # Nothing /\ \E c \in Calls : lockOf[c] = l
InFlight == {id[c] : c \in {c \in Calls : lockOf[c] # Nothing}}

(* The names on the books: until the next retain also those whose lock has died. *)
Recorded == {i \in Identities : active[i] # Nothing}
FreeLock(l) == ~InUse(l) /\ \A i \in Identities : active[i] # l

(* Mutant: names of dead locks stay.                                       *)
RetainMutant == active

(* active.retain: identities whose lock no call keeps alive are forgotten. *)
Retain == [i \in Identities |-> IF InUse(active[i]) THEN active[i] ELSE Nothing]

(* The state mutex.  A first look holds it for long enough that others may *)
(* be seen to give back their locks meanwhile, for which they do not need  *)
(* it; what else happens under it is one step.                             *)
StateMutexFree == \A c \in Calls : place[c] # "looking"

-----------------------------------------------------------------------------
AnalysisInit ==
    /\ entries = << >>
    /\ retained = 0
    /\ rank \in [Identities -> 1..Cardinality(Identities)]
    /\ IsInjective(rank)
    /\ active = [i \in Identities |-> Nothing]
    /\ guard = [l \in Locks |-> Nothing]
    /\ place = [c \in Calls |-> "idle"]
    /\ id \in [Calls -> Identities]
    /\ snap \in [Calls -> Snapshots]
    /\ lockOf = [c \in Calls |-> Nothing]
    /\ answer = [c \in Calls |-> Nothing]

Moves(c, to) == place' = [place EXCEPT ![c] = to]

(* The first look takes the state mutex and forgets the locks that died.   *)
(* The code asks them one after the other; those that die meanwhile are    *)
(* here taken to die afterwards.                                           *)
Look(c, i, s) ==
    /\ place[c] = "idle"
    /\ StateMutexFree
    /\ id' = [id EXCEPT ![c] = i]
    /\ snap' = [snap EXCEPT ![c] = s]
    /\ active' = Retain
    /\ Moves(c, "looking")
    /\ UNCHANGED <<entries, retained, rank, guard, lockOf, answer>>

(* A valid entry needs no lock, even when admission is closed.             *)
HitAtOnce(c) ==
    /\ place[c] = "looking"
    /\ Valid(id[c], snap[c])
    /\ rank' = Touch(id[c])
    /\ answer' = [answer EXCEPT ![c] = entries[id[c]].value]
    /\ Moves(c, "returning")
    /\ UNCHANGED <<entries, retained, active, guard, id, snap, lockOf>>

Joinable(c) == InUse(active[id[c]])

Join(c) ==
    /\ place[c] = "looking"
    /\ ~Valid(id[c], snap[c])
    /\ Joinable(c)
    /\ lockOf' = [lockOf EXCEPT ![c] = active[id[c]]]
    /\ Moves(c, "waiting")
    /\ UNCHANGED <<entries, retained, rank, active, guard, id, snap, answer>>

Admit(c, l) ==
    /\ place[c] = "looking"
    /\ ~Valid(id[c], snap[c])
    /\ ~Joinable(c)
    /\ Cardinality(Recorded) < MaxActive
    /\ FreeLock(l)
    /\ active' = [active EXCEPT ![id[c]] = l]
    /\ lockOf' = [lockOf EXCEPT ![c] = l]
    /\ Moves(c, "waiting")
    /\ UNCHANGED <<entries, retained, rank, guard, id, snap, answer>>

(* A name counts even if its lock has died since the retain, and be it the *)
(* call's own.                                                             *)
Refuse(c) ==
    /\ place[c] = "looking"
    /\ ~Valid(id[c], snap[c])
    /\ ~Joinable(c)
    /\ Cardinality(Recorded) >= MaxActive
    /\ Moves(c, "idle")
    /\ UNCHANGED <<entries, retained, rank, active, guard, id, snap, lockOf, answer>>

-----------------------------------------------------------------------------
(* The second look, with the lock of the identity.                         *)
Lock(c) ==
    /\ place[c] = "waiting"
    /\ StateMutexFree
    /\ guard[lockOf[c]] = Nothing
    /\ guard' = [guard EXCEPT ![lockOf[c]] = c]

HitAfterWait(c) ==
    /\ Lock(c)
    /\ Valid(id[c], snap[c])
    /\ rank' = Touch(id[c])
    /\ answer' = [answer EXCEPT ![c] = entries[id[c]].value]
    /\ Moves(c, "returning")
    /\ UNCHANGED <<entries, retained, active, id, snap, lockOf>>

(* Mutant: the bytes of the stale entry stay on the books.                 *)
StartBuildDrift(c) ==
    /\ Lock(c)
    /\ ~Valid(id[c], snap[c])
    /\ entries' = Restrict(entries, DOMAIN entries \ {id[c]})
    /\ Moves(c, "building")
    /\ UNCHANGED <<retained, rank, active, id, snap, lockOf, answer>>

(* Mutant: the lock is dropped before the build.                           *)
StartBuildUnlocked(c) ==
    /\ place[c] = "waiting"
    /\ StateMutexFree
    /\ guard[lockOf[c]] = Nothing
    /\ ~Valid(id[c], snap[c])
    /\ retained' = retained - EntryBytes(DOMAIN entries \cap {id[c]})
    /\ entries' = Restrict(entries, DOMAIN entries \ {id[c]})
    /\ Moves(c, "building")
    /\ UNCHANGED <<rank, active, guard, id, snap, lockOf, answer>>

(* An entry of other results is stale for this caller and goes.            *)
StartBuild(c) ==
    /\ Lock(c)
    /\ ~Valid(id[c], snap[c])
    /\ retained' = retained - EntryBytes(DOMAIN entries \cap {id[c]})
    /\ entries' = Restrict(entries, DOMAIN entries \ {id[c]})
    /\ Moves(c, "building")
    /\ UNCHANGED <<rank, active, id, snap, lockOf, answer>>

-----------------------------------------------------------------------------
(* The end of a build: a value comes back and its lookups are captured on  *)
(* the caller's snapshot.  No lookup, or too many, is an error.            *)
Built(c) ==
    /\ place[c] = "building"
    /\ Cardinality(Declared[id[c]][snap[c]]) \in 1..MaxLookups
    /\ answer' = [answer EXCEPT ![c] = Value[id[c]][snap[c]]]
    /\ Moves(c, "returning")
    /\ UNCHANGED <<active, guard, id, snap, lockOf>>

ReturnOversized(c, bytes) ==
    /\ Built(c)
    /\ bytes > MaxBytes
    /\ UNCHANGED <<entries, retained, rank>>

RoomFor(V, bytes) ==
    /\ Cardinality(DOMAIN entries \ V) < MaxEntries
    /\ bytes + (retained - EntryBytes(V)) <= MaxBytes

(* The loop takes the least recently used entries until the new one fits.  *)
Evicts(V, bytes) ==
    /\ RoomFor(V, bytes)
    /\ \A v \in V, k \in DOMAIN entries \ V : rank[v] < rank[k]
    /\ \A v \in V : (\A w \in V : rank[w] <= rank[v]) => ~RoomFor(V \ {v}, bytes)

Insert(c, bytes, V) ==
    LET entry == [value |-> Value[id[c]][snap[c]],
                  dependencies |-> Capture(snap[c], Declared[id[c]][snap[c]]),
                  bytes |-> bytes]
    IN /\ Built(c)
       /\ StateMutexFree
       /\ bytes <= MaxBytes
       /\ Evicts(V, bytes)
       /\ entries' = [i \in (DOMAIN entries \ V) \cup {id[c]} |->
                         IF i = id[c] THEN entry ELSE entries[i]]
       /\ retained' = retained - EntryBytes(V) + bytes
       /\ rank' = Touch(id[c])

(* Mutant: a dropped future keeps its lock.                                *)
LeaveMutant(c) ==
    /\ place[c] \notin {"idle", "looking"}
    /\ lockOf' = [lockOf EXCEPT ![c] = Nothing]
    /\ answer' = [answer EXCEPT ![c] = Nothing]
    /\ Moves(c, "idle")
    /\ UNCHANGED <<entries, retained, rank, active, guard, id, snap>>

(* The call returns its value or an error of its build, or its future is   *)
(* dropped at an await: the guard goes, then its share of the lock.        *)
Leave(c) ==
    /\ place[c] \notin {"idle", "looking"}
    /\ guard' = [l \in Locks |-> IF guard[l] = c THEN Nothing ELSE guard[l]]
    /\ lockOf' = [lockOf EXCEPT ![c] = Nothing]
    /\ answer' = [answer EXCEPT ![c] = Nothing]
    /\ Moves(c, "idle")
    /\ UNCHANGED <<entries, retained, rank, active, id, snap>>

-----------------------------------------------------------------------------
(* The first look comes to an end.                                         *)
Decide(c) ==
    \/ HitAtOnce(c)
    \/ Join(c)
    \/ \E l \in Locks : Admit(c, l)
    \/ Refuse(c)

LookAgain(c) == HitAfterWait(c) \/ StartBuild(c)

(* A build ends, or a call that has its answer returns.                    *)
Finish(c) ==
    \/ \E bytes \in Sizes : ReturnOversized(c, bytes)
    \/ \E bytes \in Sizes, V \in SUBSET DOMAIN entries : Insert(c, bytes, V)
    \/ place[c] # "waiting" /\ Leave(c)

AnalysisNext ==
    \E c \in Calls :
        \/ \E i \in Identities, s \in Snapshots : Look(c, i, s)
        \/ Decide(c)
        \/ LookAgain(c)
        \/ Finish(c)
        \/ place[c] = "waiting" /\ Leave(c)

AnalysisSpec == AnalysisInit /\ [][AnalysisNext]_analysisVars

(* A look has no await in it, builds end (compilation has a deadline),     *)
(* ready futures are polled, and the asynchronous mutex serves its waiters *)
(* in turn.                                                                *)
AnalysisFairness ==
    \A c \in Calls : /\ WF_analysisVars(Decide(c)) /\ WF_analysisVars(Finish(c))
                     /\ SF_analysisVars(LookAgain(c))

FairAnalysisSpec == AnalysisSpec /\ AnalysisFairness

-----------------------------------------------------------------------------
(* Properties.                                                             *)

(* Every variable but the bytes on the books holds a value of its kind.    *)
Structure ==
    /\ DOMAIN entries \subseteq Identities
    /\ entries \in [DOMAIN entries -> Entry]
    /\ rank \in [Identities -> Nat]
    /\ active \in [Identities -> Locks \cup {Nothing}]
    /\ guard \in [Locks -> Calls \cup {Nothing}]
    /\ place \in [Calls -> {"idle", "looking", "waiting", "building", "returning"}]
    /\ id \in [Calls -> Identities]
    /\ snap \in [Calls -> Snapshots]
    /\ lockOf \in [Calls -> Locks \cup {Nothing}]
    /\ answer \in [Calls -> Values \cup {Nothing}]

(* Every variable holds a value of its kind; in particular retained_bytes, *)
(* an unsigned number, never underflows.                                   *)
AnalysisTypeOK == Structure /\ retained \in Nat

(* A caller gets what a build on its own snapshot would give, whichever    *)
(* snapshot the entry was built on and whatever was published, evicted or  *)
(* rebuilt by callers of other snapshots meanwhile.                        *)
AnswersFit ==
    \A c \in Calls : answer[c] # Nothing => answer[c] = Value[id[c]][snap[c]]

(* One build per identity at a time (the comment on AnalysisCache), even   *)
(* when calls are dropped and the lock of an identity dies and is made     *)
(* again.                                                                  *)
OneBuilder ==
    \A c, d \in Calls :
        place[c] = "building" /\ place[d] = "building" /\ id[c] = id[d] => c = d

(* The books agree with the entries over stale removals, evictions and     *)
(* insertions, so the eviction loop never runs out of entries before the   *)
(* new one fits (its expect("retention requires an old entry")).           *)
RetainedIsSum == retained = EntryBytes(DOMAIN entries)

(* No more identities than max_active_keys have a builder or a waiter.     *)
ActiveWithinLimit == Cardinality(InFlight) <= MaxActive

(* A call is refused only if max_active_keys identities were in flight     *)
(* when it took the state mutex: it counts none of the calls that had      *)
(* ended or been dropped by then, and counts the same until it decides.    *)
(* Of those that end in between it counts the places, its own identity's   *)
(* too.                                                                    *)
RefusedOnlyWhenFull ==
    [][\A c \in Calls :
          /\ place[c] = "idle" /\ place'[c] = "looking" => Recorded' \subseteq InFlight
          /\ place[c] = "looking" /\ place'[c] = "looking" => Recorded' = Recorded
          /\ place[c] = "looking" /\ place'[c] = "idle" =>
                Cardinality(Recorded) >= MaxActive]_analysisVars

(* Who waits for another's build is answered or builds itself, though the  *)
(* builder may fail or be dropped.                                         *)
WaitersServed ==
    \A c \in Calls : place[c] = "waiting" ~> place[c] # "waiting"
=============================================================================
