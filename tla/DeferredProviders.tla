------------------------- MODULE DeferredProviders -------------------------
(***************************************************************************)
(* Providers resolved on the first scan: DeferredBackend, DeferredTable    *)
(* and their shared state in crates/semantic-engine/src/deferred.rs.  A    *)
(* DeferredTable carries the recorded relation and a lock of its own; its  *)
(* scans look in the bounded cache all tables share, and one of them goes  *)
(* cold: it is admitted, takes a permit and asks the backend.  Two tables  *)
(* may stand for one relation, when two engines are bound to one backend.  *)
(*                                                                         *)
(* The last_use stamps are taken under the cache lock and only compared,   *)
(* so the cache is a sequence, the least recently used entry first.        *)
(***************************************************************************)
EXTENDS Integers, FiniteSets, Sequences, SequencesExt

CONSTANTS
    Scans,            \* concurrent calls of DeferredTable::provider
    Deferred,         \* DeferredTables, as resolve() makes them
    Relation,         \* table -> the recorded relation [source, schema]
    Sources, Schemas,
    Scannable,        \* bound: scan -> the tables its plan may scan
    NoTable,
    MaxCached,        \* max_cached_providers
    MaxResolutions,   \* max_concurrent_resolutions
    MaxCold           \* max_active_cold_keys

ASSUME DeferredAssumption ==
    /\ IsFiniteSet(Scans)
    /\ Relation \in [Deferred -> [source : Sources, schema : Schemas]]
    /\ Scannable \in [Scans -> SUBSET Deferred]
    /\ NoTable \notin Deferred \cup Schemas
    /\ MaxCached \in Nat \ {0}
    /\ MaxResolutions \in Nat \ {0}
    /\ MaxCold \in Nat \ {0}

VARIABLES
    live,      \* source -> the schema it has now
    scan,      \* scan -> where it is
    table,     \* scan -> the table it scans, or NoTable
    resolution,     \* table -> the scan that holds its resolution lock, as a set
    cold,      \* active_cold_keys
    permits,   \* permits left in the semaphore
    cache,     \* the cached providers, least recently used first
    got        \* scan -> the schema of the provider it was given, or NoTable

deferredVars == <<live, scan, table, resolution, cold, permits, cache, got>>

-----------------------------------------------------------------------------
(* Mutant: a source has one provider, whatever schema was recorded.        *)
KeyMutant(tab) == [source |-> Relation[tab].source, schema |-> CHOOSE s \in Schemas : TRUE]

(* The digest of a catalog that holds only this relation.                  *)
Key(tab) == Relation[tab]

(* Where the provider of a table is in the cache, and the other ones.      *)
Places(tab) == {i \in DOMAIN cache : cache[i].key = Key(tab)}

Others(tab) ==
    IF Places(tab) = {} THEN cache ELSE RemoveAt(cache, CHOOSE i \in Places(tab) : TRUE)

DeferredInit ==
    /\ live \in [Sources -> Schemas]
    /\ scan = [s \in Scans |-> "idle"]
    /\ table = [s \in Scans |-> NoTable]
    /\ resolution = [tab \in Deferred |-> {}]
    /\ cold = 0
    /\ permits = MaxResolutions
    /\ cache = << >>
    /\ got = [s \in Scans |-> NoTable]

(* The schema of a source changes behind the recorded contracts.           *)
Drift(src, schema) ==
    /\ live' = [live EXCEPT ![src] = schema]
    /\ UNCHANGED <<scan, table, resolution, cold, permits, cache, got>>

ScanGoes(s, to) == scan' = [scan EXCEPT ![s] = to]

(* cached(): a hit makes the entry the most recently used.                 *)
HitCache(s, tab) ==
    /\ \E i \in Places(tab) :
          /\ cache' = Append(Others(tab), cache[i])
          /\ got' = [got EXCEPT ![s] = cache[i].schema]
    /\ ScanGoes(s, "answered")

MissCache(s, tab, to) ==
    /\ Places(tab) = {}
    /\ ScanGoes(s, to)
    /\ UNCHANGED <<cache, got>>

BeginScan(s, tab) ==
    /\ scan[s] = "idle"
    /\ tab \in Scannable[s]
    /\ table' = [table EXCEPT ![s] = tab]
    /\ HitCache(s, tab) \/ MissCache(s, tab, "locking")
    /\ UNCHANGED <<live, resolution, cold, permits>>

(* Mutant: the guard does not live beyond the second look.                 *)
LockTableMutant(s) ==
    /\ scan[s] = "locking"
    /\ resolution[table[s]] = {}
    /\ HitCache(s, table[s]) \/ MissCache(s, table[s], "cold")
    /\ UNCHANGED <<live, table, resolution, cold, permits>>

(* With the lock of its table it looks again.                              *)
LockTable(s) ==
    /\ scan[s] = "locking"
    /\ resolution[table[s]] = {}
    /\ resolution' = [resolution EXCEPT ![table[s]] = {s}]
    /\ HitCache(s, table[s]) \/ MissCache(s, table[s], "cold")
    /\ UNCHANGED <<live, table, cold, permits>>

(* admit_cold().                                                           *)
AdmitCold(s) ==
    /\ scan[s] = "cold"
    /\ cold < MaxCold
    /\ cold' = cold + 1
    /\ ScanGoes(s, "queued")
    /\ UNCHANGED <<live, table, resolution, permits, cache, got>>

RejectCold(s) ==
    /\ scan[s] = "cold"
    /\ cold >= MaxCold
    /\ ScanGoes(s, "failed")
    /\ UNCHANGED <<live, table, resolution, cold, permits, cache, got>>

TakePermit(s) ==
    /\ scan[s] = "queued"
    /\ permits > 0
    /\ permits' = permits - 1
    /\ ScanGoes(s, "resolving")
    /\ UNCHANGED <<live, table, resolution, cold, cache, got>>

(* The backend fails, or answers with a schema that is not the recorded    *)
(* one.                                                                    *)
FailResolve(s) ==
    /\ scan[s] = "resolving"
    /\ ScanGoes(s, "unresolved")
    /\ UNCHANGED <<live, table, resolution, cold, permits, cache, got>>

(* The cache without this key, and without its oldest entry when a new key *)
(* finds it full.                                                          *)
Room(tab) ==
    IF Places(tab) = {} /\ Len(cache) >= MaxCached THEN Tail(cache)
    ELSE Others(tab)

(* The provider has the recorded schema and is kept.                       *)
Keep(s) ==
    LET tab == table[s]
        schema == live[Relation[tab].source]
    IN /\ scan[s] = "resolving"
       /\ schema = Relation[tab].schema
       /\ cache' = Append(Room(tab), [key |-> Key(tab), schema |-> schema])
       /\ got' = [got EXCEPT ![s] = schema]
       /\ ScanGoes(s, "resolved")
       /\ UNCHANGED <<live, table, resolution, cold, permits>>

Admitted(s) == scan[s] \in {"queued", "resolving", "resolved", "unresolved"}
Permitted(s) == scan[s] \in {"resolving", "resolved", "unresolved"}
Over(s) == scan[s] \in {"answered", "resolved", "unresolved", "failed"}

(* Mutant: a scan dropped in the queue keeps its admission.                *)
LeaveAdmitted(s) ==
    /\ scan[s] # "idle"
    /\ resolution' = [tab \in Deferred |-> resolution[tab] \ {s}]
    /\ cold' = IF Permitted(s) THEN cold - 1 ELSE cold
    /\ permits' = IF Permitted(s) THEN permits + 1 ELSE permits
    /\ ScanGoes(s, "idle")
    /\ table' = [table EXCEPT ![s] = NoTable]
    /\ got' = [got EXCEPT ![s] = NoTable]
    /\ UNCHANGED <<live, cache>>

(* Mutant: a permit is given back on success only.                         *)
LeaveUnresolved(s) ==
    /\ scan[s] # "idle"
    /\ resolution' = [tab \in Deferred |-> resolution[tab] \ {s}]
    /\ cold' = IF Admitted(s) THEN cold - 1 ELSE cold
    /\ permits' = IF scan[s] = "resolved" THEN permits + 1 ELSE permits
    /\ ScanGoes(s, "idle")
    /\ table' = [table EXCEPT ![s] = NoTable]
    /\ got' = [got EXCEPT ![s] = NoTable]
    /\ UNCHANGED <<live, cache>>

(* The guards go with the future, whether it returned or is dropped at one *)
(* of its awaits.                                                          *)
LeaveScan(s) ==
    /\ scan[s] # "idle"
    /\ resolution' = [tab \in Deferred |-> resolution[tab] \ {s}]
    /\ cold' = IF Admitted(s) THEN cold - 1 ELSE cold
    /\ permits' = IF Permitted(s) THEN permits + 1 ELSE permits
    /\ ScanGoes(s, "idle")
    /\ table' = [table EXCEPT ![s] = NoTable]
    /\ got' = [got EXCEPT ![s] = NoTable]
    /\ UNCHANGED <<live, cache>>

-----------------------------------------------------------------------------
Resolve(s) == FailResolve(s) \/ Keep(s)
Proceed(s) == AdmitCold(s) \/ RejectCold(s)

ScanStep(s) == LockTable(s) \/ Proceed(s) \/ TakePermit(s) \/ Resolve(s)

(* A dropped future is at an await: for the lock, the permit, the backend. *)
Awaiting(s) == scan[s] \in {"locking", "queued", "resolving"}

DeferredNext ==
    \/ \E src \in Sources, schema \in Schemas : Drift(src, schema)
    \/ \E s \in Scans : \/ \E tab \in Deferred : BeginScan(s, tab)
                        \/ ScanStep(s)
                        \/ (Over(s) \/ Awaiting(s)) /\ LeaveScan(s)

DeferredSpec == DeferredInit /\ [][DeferredNext]_deferredVars

Advance(s) == Proceed(s) \/ Resolve(s) \/ (Over(s) /\ LeaveScan(s))
Acquire(s) == LockTable(s) \/ TakePermit(s)

(* Code between two awaits runs on, backends answer or fail (connectors    *)
(* bound their calls by the deadline of the query), and the asynchronous   *)
(* mutex and semaphore serve who waits in turn.                            *)
DeferredFairness ==
    \A s \in Scans : WF_deferredVars(Advance(s)) /\ SF_deferredVars(Acquire(s))

-----------------------------------------------------------------------------
(* Properties.                                                             *)

(* The state of the deferred providers has its type; in particular the     *)
(* unsigned count of cold tables never falls below zero.                   *)
DeferredTypeOK ==
    /\ live \in [Sources -> Schemas]
    /\ scan \in [Scans -> {"idle", "locking", "cold", "queued", "resolving",
                           "resolved", "unresolved", "answered", "failed"}]
    /\ table \in [Scans -> Deferred \cup {NoTable}]
    /\ resolution \in [Deferred -> SUBSET Scans]
    /\ cold \in Nat
    /\ permits \in Nat
    /\ cache \in Seq([key : [source : Sources, schema : Schemas],
                      schema : Schemas])
    /\ got \in [Scans -> Schemas \cup {NoTable}]

(* Admissions and permits are neither leaked nor given back twice, through *)
(* errors, rejections and futures dropped in the queue: active_cold_keys   *)
(* counts the scans that hold one, and at most max_concurrent_resolutions  *)
(* ask the backend at once.                                                *)
NothingLeaks ==
    /\ cold = Cardinality({s \in Scans : Admitted(s)})
    /\ cold <= MaxCold
    /\ permits + Cardinality({s \in Scans : Permitted(s)}) = MaxResolutions

(* "Same-table followers coalesce before admission": a table has one scan  *)
(* in the queue or at the backend, so the cold scans are of as many        *)
(* tables.                                                                 *)
FollowersCoalesce ==
    \A s, r \in Scans :
        Admitted(s) /\ Admitted(r) /\ table[s] = table[r] => s = r

(* Whoever is given a provider, fresh or cached by another table, gets one *)
(* with the schema its own table recorded, though the source has drifted   *)
(* since or another catalog recorded another schema for it.                *)
ProvidersFit ==
    \A s \in Scans :
        scan[s] \in {"answered", "resolved"} => got[s] = Relation[table[s]].schema

(* Who waits for the lock of a table or for a permit is served, though the *)
(* scans before it fail, are refused or are dropped where they wait.       *)
ScansServed ==
    \A s \in Scans :
        scan[s] \in {"locking", "queued"} ~> scan[s] \notin {"locking", "queued"}
=============================================================================
