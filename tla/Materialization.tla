-------------------------- MODULE Materialization --------------------------
(***************************************************************************)
(* The on-disk materialization cache of                                    *)
(* crates/semantic-materialization/src/lib.rs: several managers (one per    *)
(* process) share one directory of generations and coordinate through      *)
(* advisory file locks, which the operating system drops when a process    *)
(* dies.                                                                   *)
(*                                                                         *)
(*   <key>/refresh.lock   one resolve or invalidate of a key at a time     *)
(*   writer.lock          one fill at a time in the whole directory        *)
(*   catalog.lock         one look at, or change of, a CURRENT pointer     *)
(*   <generation>/lease   shared by readers, exclusive for its eviction    *)
(*                                                                         *)
(* Time is a bounded wall clock that may be set back.  Sizes are counted    *)
(* in units; a batch decodes to one unit and is one to MaxEncoded units    *)
(* of file.  A generation name is taken from those nothing mentions any    *)
(* longer, which stands for an unbounded supply of unique names.           *)
(***************************************************************************)
EXTENDS Naturals, FiniteSets

CONSTANTS
    Managers,       \* MaterializationManagers, one per process
    Requests,       \* callers of resolve and invalidate
    Home,           \* request -> the manager it calls
    Keys,           \* cache keys (SourceDescriptor::cache_key)
    Generations,    \* names of generation directories
    None,           \* no request, no generation, no key
    MaxDisk,        \* CacheOptions::max_disk_bytes
    MaxMemory,      \* CacheOptions::max_memory_bytes
    MaxFill,        \* manager -> MaterializationPolicy::max_fill_bytes
    MaxAge,         \* manager -> MaterializationPolicy::max_age_seconds
    MaxEncoded,     \* bound: file units one decoded unit can take
    MaxClock,       \* bound: the wall clock runs over 0..MaxClock
    MaxFaults,      \* bound: how many deaths and failed removals happen
    TornManifest,   \* whether a death may leave a half-written manifest
    SyncFailure     \* whether the directory fsync after the rename may fail

ASSUME ConstantsAssumption ==
    /\ Home \in [Requests -> Managers]
    /\ None \notin Requests \cup Keys \cup Generations
    /\ MaxDisk \in Nat \ {0} /\ MaxMemory \in Nat
    /\ MaxFill \in [Managers -> Nat \ {0}] /\ MaxAge \in [Managers -> Nat \ {0}]
    /\ \A m \in Managers : MaxFill[m] <= MaxDisk
    /\ MaxEncoded \in Nat \ {0} /\ MaxClock \in Nat /\ MaxFaults \in Nat
    /\ TornManifest \in BOOLEAN /\ SyncFailure \in BOOLEAN

VARIABLES
    dir,        \* generation -> what its directory holds (DirStates)
    info,       \* generation -> its manifest, or what the fill knows of it
    current,    \* key -> the generation its CURRENT file names, or None
    memory,     \* manager -> generations whose batches it retains
    refresh,    \* key -> request that holds refresh.lock, or None
    writer,     \* request that holds writer.lock, or None
    catalog,    \* request that holds catalog.lock across steps, or None
    pc,         \* request -> where it is (Locations)
    key,        \* request -> the key it resolves or invalidates
    gen,        \* request -> the generation it fills, evicts or reads
    tier,       \* request -> "memory" or "disk" for the provider it reads
    passed,     \* request -> generations its eviction found leased
    retain,     \* request -> whether its fill still keeps the batches
    now,        \* the wall clock
    faults,     \* deaths and failed removals so far
    outdated    \* history: generations begun before their key's last
                \* invalidation

diskVars == <<dir, info>>
lockVars == <<refresh, writer, catalog>>
envVars == <<now, faults>>
vars == <<dir, info, current, memory, refresh, writer, catalog, pc, key, gen,
          tier, passed, retain, now, faults, outdated>>

(* A directory without a manifest is "partial"; "torn" has one that does   *)
(* not parse; "complete" has everything; "gutted" lost data files to an    *)
(* interrupted remove_dir_all that had not reached the manifest.           *)
DirStates == {"absent", "partial", "torn", "complete", "gutted"}
Locations ==
    {"idle", "probe", "lock_refresh", "reprobe", "lock_writer", "lock_catalog",
     "evict", "evict_remove", "fill", "publish", "abort", "reading",
     "inv_refresh", "inv_catalog"}
Waiting == {"probe", "lock_refresh", "reprobe", "lock_writer", "lock_catalog",
            "inv_refresh", "inv_catalog"}
Touching == {"fill", "evict_remove", "abort"}
Writing == {"lock_catalog", "evict", "publish"} \cup Touching
Manifest == [key : Keys \cup {None}, bytes : Nat, decoded : Nat,
             acquired : Nat, published : Nat]
NoInfo == [key |-> None, bytes |-> 0, decoded |-> 0, acquired |-> 0,
           published |-> 0]

(* Without its manifest a generation is known only to the managers that    *)
(* retain its batches.                                                     *)
Unrecorded(g) ==
    IF \E m \in Managers : g \in memory[m]
    THEN [NoInfo EXCEPT !.decoded = info[g].decoded]
    ELSE NoInfo

-----------------------------------------------------------------------------
(* What the files say.                                                     *)

HasManifest(g) == dir[g] \in {"complete", "gutted"}
Committed == {g \in Generations : HasManifest(g)}

(* What generations take on disk and decoded: each of their units counts.  *)
Units(size, G) == UNION {{g} \X (1..size[g]) : g \in G}
BytesOf(G) == Cardinality(Units([g \in Generations |-> info[g].bytes], G))
DecodedOf(G) == Cardinality(Units([g \in Generations |-> info[g].decoded], G))

(* A pointer at a directory whose manifest cannot be read is an error.     *)
Dangling(k) == current[k] # None /\ ~HasManifest(current[k])

Fresh(m, g) ==
    /\ info[g].decoded <= MaxFill[m]
    /\ info[g].bytes <= MaxFill[m]
    /\ info[g].published <= now
    /\ now - info[g].published <= MaxAge[m]

Hit(r) ==
    LET g == current[key[r]]
    IN g # None /\ HasManifest(g) /\ Fresh(Home[r], g)

Miss(r) ==
    LET g == current[key[r]]
    IN g # None => HasManifest(g) /\ ~Fresh(Home[r], g)

(* Mutant: eviction takes a lease file without looking at its lock.        *)
LeasedMutant(g) == FALSE

(* Shared leases, and Arcs to retained batches.                            *)
Leased(g) ==
    \E r \in Requests : pc[r] = "reading" /\ tier[r] = "disk" /\ gen[r] = g
Referenced(m, g) ==
    \E r \in Requests : /\ Home[r] = m
                        /\ pc[r] = "reading"
                        /\ tier[r] = "memory"
                        /\ gen[r] = g

(* provider(): the retained batches when this manager has them, else the   *)
(* files under a shared lease.                                             *)
Tier(m, mem, g) == IF g \in mem[m] THEN "memory" ELSE "disk"

Unmentioned(g) ==
    /\ dir[g] = "absent"
    /\ g \notin outdated
    /\ \A k \in Keys : current[k] # g
    /\ \A m \in Managers : g \notin memory[m]
    /\ \A r \in Requests : gen[r] # g

-----------------------------------------------------------------------------
Init ==
    /\ dir = [g \in Generations |-> "absent"]
    /\ info = [g \in Generations |-> NoInfo]
    /\ current = [k \in Keys |-> None]
    /\ memory = [m \in Managers |-> {}]
    /\ refresh = [k \in Keys |-> None]
    /\ writer = None
    /\ catalog = None
    /\ pc = [r \in Requests |-> "idle"]
    /\ key = [r \in Requests |-> None]
    /\ gen = [r \in Requests |-> None]
    /\ tier = [r \in Requests |-> None]
    /\ passed = [r \in Requests |-> {}]
    /\ retain = [r \in Requests |-> FALSE]
    /\ now = 0
    /\ faults = 0
    /\ outdated = {}

Goto(r, to) == pc' = [pc EXCEPT ![r] = to]

(* Returning drops every guard the call holds and its local state.         *)
ReleaseLocks(r) ==
    /\ refresh' = [k \in Keys |-> IF refresh[k] = r THEN None ELSE refresh[k]]
    /\ writer' = IF writer = r THEN None ELSE writer
    /\ catalog' = IF catalog = r THEN None ELSE catalog

Return(r) ==
    /\ Goto(r, "idle")
    /\ key' = [key EXCEPT ![r] = None]
    /\ gen' = [gen EXCEPT ![r] = None]
    /\ tier' = [tier EXCEPT ![r] = None]
    /\ passed' = [passed EXCEPT ![r] = {}]
    /\ retain' = [retain EXCEPT ![r] = FALSE]
    /\ ReleaseLocks(r)

(* A resolve that returns a provider: only the lease or Arc stays.         *)
ReturnProvider(r, mem, g) ==
    /\ Goto(r, "reading")
    /\ gen' = [gen EXCEPT ![r] = g]
    /\ tier' = [tier EXCEPT ![r] = Tier(Home[r], mem, g)]
    /\ passed' = [passed EXCEPT ![r] = {}]
    /\ retain' = [retain EXCEPT ![r] = FALSE]
    /\ ReleaseLocks(r)
    /\ UNCHANGED key

-----------------------------------------------------------------------------
(* resolve(): look, take refresh.lock, look again.                         *)

StartResolve(r, k) ==
    /\ pc[r] = "idle"
    /\ Goto(r, "probe")
    /\ key' = [key EXCEPT ![r] = k]
    /\ UNCHANGED <<dir, info, current, memory, lockVars, gen, tier, passed,
                   retain, envVars, outdated>>

(* cached() under catalog.lock: a fresh manifest is a hit, and its lease   *)
(* is taken before the lock is dropped.                                    *)
CachedHit(r) ==
    /\ pc[r] \in {"probe", "reprobe"}
    /\ catalog = None
    /\ Hit(r)
    /\ ReturnProvider(r, memory, current[key[r]])
    /\ UNCHANGED <<diskVars, current, memory, envVars, outdated>>

CachedMiss(r) ==
    /\ pc[r] \in {"probe", "reprobe"}
    /\ catalog = None
    /\ Miss(r)
    /\ Goto(r, IF pc[r] = "probe" THEN "lock_refresh" ELSE "lock_writer")
    /\ UNCHANGED <<diskVars, current, memory, lockVars, key, gen, tier, passed,
                   retain, envVars, outdated>>

CachedError(r) ==
    /\ pc[r] \in {"probe", "reprobe"}
    /\ catalog = None
    /\ Dangling(key[r])
    /\ Return(r)
    /\ UNCHANGED <<diskVars, current, memory, envVars, outdated>>

(* Mutant: no second look after the lock.                                  *)
LockRefreshMutant(r) ==
    /\ pc[r] \in {"lock_refresh", "inv_refresh"}
    /\ refresh[key[r]] = None
    /\ refresh' = [refresh EXCEPT ![key[r]] = r]
    /\ Goto(r, IF pc[r] = "lock_refresh" THEN "lock_writer" ELSE "inv_catalog")
    /\ UNCHANGED <<diskVars, current, memory, writer, catalog, key, gen, tier,
                   passed, retain, envVars, outdated>>

LockRefresh(r) ==
    /\ pc[r] \in {"lock_refresh", "inv_refresh"}
    /\ refresh[key[r]] = None
    /\ refresh' = [refresh EXCEPT ![key[r]] = r]
    /\ Goto(r, IF pc[r] = "lock_refresh" THEN "reprobe" ELSE "inv_catalog")
    /\ UNCHANGED <<diskVars, current, memory, writer, catalog, key, gen, tier,
                   passed, retain, envVars, outdated>>

LockWriter(r) ==
    /\ pc[r] = "lock_writer"
    /\ writer = None
    /\ writer' = r
    /\ Goto(r, "lock_catalog")
    /\ UNCHANGED <<diskVars, current, memory, refresh, catalog, key, gen, tier,
                   passed, retain, envVars, outdated>>

(* Every lock wait polls and gives up on cancellation or the deadline; an  *)
(* eviction gives up when it cannot read or open what it looks at.         *)
GiveUp(r) ==
    /\ pc[r] \in Waiting \cup {"evict"}
    /\ Return(r)
    /\ UNCHANGED <<diskVars, current, memory, envVars, outdated>>

-----------------------------------------------------------------------------
(* evict(), under writer.lock and catalog.lock.                            *)

(* The scan removes every directory whose manifest cannot be opened.       *)
EvictScan(r) ==
    /\ pc[r] = "lock_catalog"
    /\ catalog = None
    /\ catalog' = r
    /\ dir' = [g \in Generations |->
                  IF dir[g] = "partial" THEN "absent" ELSE dir[g]]
    /\ info' = [g \in Generations |->
                  IF dir[g] = "partial" THEN Unrecorded(g) ELSE info[g]]
    /\ outdated' = {g \in outdated : dir[g] # "partial"}
    /\ Goto(r, "evict")
    /\ UNCHANGED <<current, memory, refresh, writer, key, gen, tier,
                   passed, retain, envVars>>

(* Mutant: makes no room for the fill about to start.                      *)
FitsMutant(r) == BytesOf(Committed) <= MaxDisk

Fits(r) == BytesOf(Committed) + MaxFill[Home[r]] <= MaxDisk
Candidates(r) == Committed \ passed[r]
Oldest(r, g) ==
    /\ g \in Candidates(r)
    /\ \A h \in Candidates(r) : info[g].acquired <= info[h].acquired

(* Mutant: tries the leased generation again and again.                    *)
EvictSkipMutant(r, g) ==
    /\ pc[r] = "evict"
    /\ ~Fits(r)
    /\ Oldest(r, g)
    /\ Leased(g)
    /\ UNCHANGED vars

EvictSkip(r, g) ==
    /\ pc[r] = "evict"
    /\ ~Fits(r)
    /\ Oldest(r, g)
    /\ Leased(g)
    /\ passed' = [passed EXCEPT ![r] = @ \cup {g}]
    /\ UNCHANGED <<diskVars, current, memory, lockVars, pc, key, gen, tier,
                   retain, envVars, outdated>>

(* Mutant: leaves CURRENT to the next fill.                                *)
EvictUnlinkMutant(r, g) ==
    /\ pc[r] = "evict"
    /\ ~Fits(r)
    /\ Oldest(r, g)
    /\ ~Leased(g)
    /\ gen' = [gen EXCEPT ![r] = g]
    /\ Goto(r, "evict_remove")
    /\ UNCHANGED <<diskVars, current, memory, lockVars, key, tier, passed,
                   retain, envVars, outdated>>

(* CURRENT goes first, so a death here leaves an unpublished generation.   *)
EvictUnlink(r, g) ==
    /\ pc[r] = "evict"
    /\ ~Fits(r)
    /\ Oldest(r, g)
    /\ ~Leased(g)
    /\ LET k == info[g].key
       IN current' = [current EXCEPT ![k] = IF @ = g THEN None ELSE @]
    /\ gen' = [gen EXCEPT ![r] = g]
    /\ Goto(r, "evict_remove")
    /\ UNCHANGED <<diskVars, memory, lockVars, key, tier, passed, retain,
                   envVars, outdated>>

EvictRemove(r) ==
    LET g == gen[r]
        m == Home[r]
    IN /\ pc[r] = "evict_remove"
       /\ dir' = [dir EXCEPT ![g] = "absent"]
       /\ info' = [info EXCEPT ![g] = Unrecorded(g)]
       /\ outdated' = outdated \ {g}
       /\ memory' = [memory EXCEPT ![m] =
                        IF Referenced(m, g) THEN @ ELSE @ \ {g}]
       /\ gen' = [gen EXCEPT ![r] = None]
       /\ Goto(r, "evict")
       /\ UNCHANGED <<current, lockVars, key, tier, passed, retain, envVars>>

(* Everything left is leased: the fill is refused.                         *)
EvictFull(r) ==
    /\ pc[r] = "evict"
    /\ ~Fits(r)
    /\ Candidates(r) = {}
    /\ Return(r)
    /\ UNCHANGED <<diskVars, current, memory, envVars, outdated>>

-----------------------------------------------------------------------------
(* The fill, under refresh.lock and writer.lock.                           *)

(* acquired is the age of the oldest input, and never in the future.       *)
BeginFill(r, g, acquired) ==
    /\ pc[r] = "evict"
    /\ Fits(r)
    /\ Unmentioned(g)
    /\ acquired <= now
    /\ catalog' = None
    /\ dir' = [dir EXCEPT ![g] = "partial"]
    /\ info' = [info EXCEPT ![g] =
                   [key |-> key[r], bytes |-> 0, decoded |-> 0,
                    acquired |-> acquired, published |-> 0]]
    /\ gen' = [gen EXCEPT ![r] = g]
    /\ passed' = [passed EXCEPT ![r] = {}]
    /\ retain' = [retain EXCEPT ![r] = MaxMemory # 0]
    /\ Goto(r, "fill")
    /\ UNCHANGED <<current, memory, refresh, writer, key, tier, envVars,
                   outdated>>

(* Mutant: counts what is retained, not what is asked for.                 *)
AdmitsMutant(M, requested) == DecodedOf(M) <= MaxMemory

(* admit_memory(): drop unreferenced entries one by one until the request  *)
(* fits.  Names are random, so any entry may come first.                   *)
Admits(M, requested) == DecodedOf(M) + requested <= MaxMemory
Droppable(m) == {g \in memory[m] : ~Referenced(m, g)}
Admissions(m, requested) ==
    {D \in SUBSET Droppable(m) :
        /\ Admits(memory[m] \ D, requested)
        /\ D = {} \/ \E g \in D : ~Admits((memory[m] \ D) \cup {g}, requested)}
AdmitMemory(m, requested) ==
    IF Admissions(m, requested) = {} THEN {Droppable(m)}
                                     ELSE Admissions(m, requested)

(* One batch: decoded budget, file, disk budget, memory admission.  The    *)
(* file is written before the disk budgets are checked.                    *)
FillBatch(r, encoded) ==
    LET g == gen[r]
        m == Home[r]
        decoded == info[g].decoded + 1
        bytes == info[g].bytes + encoded
    IN /\ pc[r] = "fill"
       /\ decoded <= MaxFill[m]
       /\ bytes <= MaxDisk
       /\ bytes <= MaxFill[m]
       /\ info' = [info EXCEPT ![g].decoded = decoded, ![g].bytes = bytes]
       /\ IF retain[r]
          THEN /\ \E D \in AdmitMemory(m, decoded) :
                     memory' = [memory EXCEPT ![m] = @ \ D]
               /\ retain' = [retain EXCEPT ![r] =
                                Admissions(m, decoded) # {}]
          ELSE UNCHANGED <<memory, retain>>
       /\ UNCHANGED <<dir, current, lockVars, pc, key, gen, tier, passed,
                      envVars, outdated>>

(* A fetch or file error, a changed schema, a spent budget, cancellation   *)
(* or the deadline: the Unpublished guard is about to run.                 *)
FillFails(r) ==
    /\ pc[r] \in {"fill", "publish"}
    /\ Goto(r, "abort")
    /\ UNCHANGED <<diskVars, current, memory, lockVars, key, gen, tier, passed,
                   retain, envVars, outdated>>

(* The stream ended: the manifest is written and synced.                   *)
WriteManifest(r) ==
    /\ pc[r] = "fill"
    /\ info[gen[r]].decoded > 0          \* bound: a stream has a batch
    /\ dir' = [dir EXCEPT ![gen[r]] = "complete"]
    /\ info' = [info EXCEPT ![gen[r]].published = now]
    /\ Goto(r, "publish")
    /\ UNCHANGED <<current, memory, lockVars, key, gen, tier, passed, retain,
                   envVars, outdated>>

(* Under catalog.lock the pointer is renamed over CURRENT; then the        *)
(* batches are retained and the caller gets its provider.                  *)
Publish(r) ==
    LET g == gen[r]
        m == Home[r]
    IN /\ pc[r] = "publish"
       /\ catalog = None
       /\ current' = [current EXCEPT ![key[r]] = g]
       /\ memory' = [memory EXCEPT ![m] = IF retain[r] THEN @ \cup {g} ELSE @]
       /\ ReturnProvider(r, memory', g)
       /\ UNCHANGED <<diskVars, envVars, outdated>>

(* The rename happened, the fsync of its directory did not: the error      *)
(* return still owns the Unpublished guard.                                *)
PublishUnsynced(r) ==
    /\ SyncFailure
    /\ pc[r] = "publish"
    /\ catalog = None
    /\ current' = [current EXCEPT ![key[r]] = gen[r]]
    /\ Goto(r, "abort")
    /\ UNCHANGED <<diskVars, memory, lockVars, key, gen, tier, passed, retain,
                   envVars, outdated>>

(* Dropping Unpublished removes the directory; the locks go after it.      *)
Abort(r) ==
    /\ pc[r] = "abort"
    /\ dir' = [dir EXCEPT ![gen[r]] = "absent"]
    /\ info' = [info EXCEPT ![gen[r]] = NoInfo]
    /\ outdated' = outdated \ {gen[r]}
    /\ Return(r)
    /\ UNCHANGED <<current, memory, envVars>>

(* The consumer drops the provider and its streams.                        *)
CloseProvider(r) ==
    /\ pc[r] = "reading"
    /\ Return(r)
    /\ UNCHANGED <<diskVars, current, memory, envVars, outdated>>

-----------------------------------------------------------------------------
(* invalidate()                                                            *)

(* Mutant: goes straight to catalog.lock.                                  *)
StartInvalidateMutant(r, k) ==
    /\ pc[r] = "idle"
    /\ Goto(r, "inv_catalog")
    /\ key' = [key EXCEPT ![r] = k]
    /\ UNCHANGED <<diskVars, current, memory, lockVars, gen, tier, passed,
                   retain, envVars, outdated>>

StartInvalidate(r, k) ==
    /\ pc[r] = "idle"
    /\ Goto(r, "inv_refresh")
    /\ key' = [key EXCEPT ![r] = k]
    /\ UNCHANGED <<diskVars, current, memory, lockVars, gen, tier, passed,
                   retain, envVars, outdated>>

(* Mutant: deletes the generation with its pointer.                        *)
InvalidateMutant(r) ==
    LET k == key[r]
        m == Home[r]
    IN /\ pc[r] = "inv_catalog"
       /\ catalog = None
       /\ current' = [current EXCEPT ![k] = None]
       /\ dir' = [g \in Generations |->
                     IF g = current[k] THEN "absent" ELSE dir[g]]
       /\ memory' = [memory EXCEPT ![m] = {g \in @ : Referenced(m, g)}]
       /\ Return(r)
       /\ UNCHANGED <<info, outdated, envVars>>

Invalidate(r) ==
    LET k == key[r]
        m == Home[r]
    IN /\ pc[r] = "inv_catalog"
       /\ catalog = None
       /\ current' = [current EXCEPT ![k] = None]
       /\ memory' = [memory EXCEPT ![m] = {g \in @ : Referenced(m, g)}]
       /\ outdated' = outdated \cup
             {g \in Generations : dir[g] # "absent" /\ info[g].key = k}
       /\ Return(r)
       /\ UNCHANGED <<diskVars, envVars>>

-----------------------------------------------------------------------------
(* The environment.                                                        *)

(* SystemTime is a wall clock: it moves, and not only forward.             *)
ClockMoves(t) ==
    /\ t # now
    /\ now' = t
    /\ UNCHANGED <<diskVars, current, memory, lockVars, pc, key, gen, tier,
                   passed, retain, faults, outdated>>

(* What a death, or an error, can leave of the directory that was being    *)
(* written or removed: remove_dir_all takes the files in any order.        *)
Debris(r) ==
    {dir[gen[r]]}
    \cup (IF pc[r] = "fill" /\ TornManifest THEN {"torn"} ELSE {})
    \cup (IF pc[r] \in {"evict_remove", "abort"} THEN {"partial"} ELSE {})
    \cup (IF pc[r] \in {"evict_remove", "abort"} /\ HasManifest(gen[r])
          THEN {"gutted"} ELSE {})

(* remove_dir_all stops half way: evict() returns the error, Unpublished   *)
(* ignores it.                                                             *)
RemovalFails(r) ==
    /\ faults < MaxFaults
    /\ faults' = faults + 1
    /\ pc[r] \in {"evict_remove", "abort"}
    /\ \E d \in Debris(r) : dir' = [dir EXCEPT ![gen[r]] = d]
    /\ Return(r)
    /\ UNCHANGED <<info, current, memory, now, outdated>>

(* A process dies: its locks and leases are dropped by the system, its     *)
(* memory is lost, no guard runs.                                          *)
Crash(m) ==
    LET mine == {r \in Requests : Home[r] = m}
        forget(f, v) == [r \in Requests |-> IF r \in mine THEN v ELSE f[r]]
        drop(holder) == IF holder \in mine THEN None ELSE holder
    IN /\ faults < MaxFaults
       /\ faults' = faults + 1
       /\ \/ \E r \in mine : /\ pc[r] \in Touching
                             /\ \E d \in Debris(r) :
                                   dir' = [dir EXCEPT ![gen[r]] = d]
          \/ /\ \A r \in mine : pc[r] \notin Touching
             /\ UNCHANGED dir
       /\ memory' = [memory EXCEPT ![m] = {}]
       /\ refresh' = [k \in Keys |-> drop(refresh[k])]
       /\ writer' = drop(writer)
       /\ catalog' = drop(catalog)
       /\ pc' = forget(pc, "idle")
       /\ key' = forget(key, None)
       /\ gen' = forget(gen, None)
       /\ tier' = forget(tier, None)
       /\ passed' = forget(passed, {})
       /\ retain' = forget(retain, FALSE)
       /\ UNCHANGED <<info, current, now, outdated>>

-----------------------------------------------------------------------------
Progress(r) ==
    \/ CachedHit(r) \/ CachedMiss(r) \/ CachedError(r)
    \/ LockRefresh(r) \/ LockWriter(r)
    \/ EvictScan(r) \/ EvictRemove(r) \/ EvictFull(r)
    \/ \E g \in Generations : EvictSkip(r, g) \/ EvictUnlink(r, g)
    \/ \E g \in Generations, a \in 0..MaxClock : BeginFill(r, g, a)
    \/ \E e \in 1..MaxEncoded : FillBatch(r, e)
    \/ FillFails(r) \/ WriteManifest(r)
    \/ Publish(r) \/ PublishUnsynced(r) \/ Abort(r)
    \/ Invalidate(r)

Next ==
    \/ \E r \in Requests : \/ Progress(r)
                           \/ GiveUp(r)
                           \/ CloseProvider(r)
                           \/ RemovalFails(r)
                           \/ \E k \in Keys : \/ StartResolve(r, k)
                                              \/ StartInvalidate(r, k)
    \/ \E t \in 0..MaxClock : ClockMoves(t)
    \/ \E m \in Managers : Crash(m)

Spec == Init /\ [][Next]_vars

(* Awaits inside a call are polled by the runtime until they finish.       *)
(* Callers, the clock and deaths owe nothing.                              *)
FairSpec == Spec /\ \A r \in Requests : WF_vars(Progress(r))

-----------------------------------------------------------------------------
(* Properties.                                                             *)

(* Every variable holds a value of its kind; in particular a CURRENT file  *)
(* names a generation and every request is at a place resolve() or         *)
(* invalidate() has.                                                       *)
TypeOK ==
    /\ dir \in [Generations -> DirStates]
    /\ info \in [Generations -> Manifest]
    /\ current \in [Keys -> Generations \cup {None}]
    /\ memory \in [Managers -> SUBSET Generations]
    /\ refresh \in [Keys -> Requests \cup {None}]
    /\ writer \in Requests \cup {None}
    /\ catalog \in Requests \cup {None}
    /\ pc \in [Requests -> Locations]
    /\ key \in [Requests -> Keys \cup {None}]
    /\ gen \in [Requests -> Generations \cup {None}]
    /\ tier \in [Requests -> {"memory", "disk", None}]
    /\ passed \in [Requests -> SUBSET Generations]
    /\ retain \in [Requests -> BOOLEAN]
    /\ now \in Nat
    /\ faults \in Nat
    /\ outdated \subseteq Generations

(* A CURRENT file names a whole generation of its own key, at every        *)
(* instant and after any process died at any point of a fill, an eviction  *)
(* or a cleanup (the order of writes in resolve() and evict()).            *)
CurrentIsComplete ==
    \A k \in Keys : current[k] # None =>
        /\ dir[current[k]] = "complete"
        /\ info[current[k]].key = k

(* Nothing evict(), the Unpublished guard or another process does takes    *)
(* the files, or the retained batches, from under a provider in use.       *)
ReadersKeepTheirFiles ==
    \A r \in Requests : pc[r] = "reading" =>
        IF tier[r] = "disk" THEN dir[gen[r]] = "complete"
                            ELSE gen[r] \in memory[Home[r]]

(* The scan of evict(), which deletes directories without a manifest,      *)
(* never meets the directory of a fill that is still running.              *)
FillKeepsItsDirectory ==
    \A r \in Requests : pc[r] = "fill" => dir[gen[r]] = "partial"

(* The generations with a manifest, published or not, superseded or not,   *)
(* stay within max_disk_bytes whatever fills race, abort or die: admission *)
(* reserves a whole fill before it starts.                                 *)
CommittedWithinBudget == BytesOf(Committed) <= MaxDisk

(* What a manager retains stays within max_memory_bytes although batches   *)
(* are admitted one by one and inserted only after publication.            *)
MemoryWithinBudget ==
    \A m \in Managers : DecodedOf(memory[m]) <= MaxMemory

(* While a fill runs, no other uncommitted directory exists: what earlier  *)
(* deaths left has been removed, as the comment in evict() says.           *)
FillsStartClean ==
    \A r \in Requests : pc[r] = "fill" =>
        \A g \in Generations \ {gen[r]} : dir[g] \notin {"partial", "torn"}

(* A caller past its second look fetches only what nobody has published:   *)
(* it goes past with no generation it could use, and while the clock       *)
(* stands none appears but its own.                                        *)
Past == {"lock_writer", "lock_catalog", "evict", "evict_remove", "fill"}
SingleFlight ==
    [][now' = now =>
          \A r \in Requests :
             pc'[r] \in Past /\ (pc[r] \in Past => ~Hit(r)) => ~Hit(r)']_vars

(* Data acquired before an invalidation of its key is never made current   *)
(* after it, although fills may be running when invalidate() is called.    *)
OutdatedNeverCurrent ==
    \A k \in Keys : current[k] \notin outdated

(* A fill that returns an error has not published its generation (the      *)
(* name of the test concurrent_fill_is_shared_and_failed_refresh_never_    *)
(* publishes).                                                             *)
FailedFillNotPublished ==
    \A r \in Requests : pc[r] = "abort" => current[key[r]] # gen[r]

(* The locks the whole directory shares are given back again and again     *)
(* without help from deadlines: no order of requests, deaths and pinned    *)
(* generations makes a holder wait for ever.                               *)
LocksComeBack == []<>(writer = None) /\ []<>(catalog = None)

(* The design implements the abstract store: readers cannot tell the       *)
(* files, tiers, evictions and deaths from atomic snapshots.               *)
Available == {g \in Generations : \/ dir[g] = "complete"
                                  \/ \E m \in Managers : Referenced(m, g)}
Held == [r \in Requests |-> IF pc[r] = "reading" THEN gen[r] ELSE None]
Store == INSTANCE SnapshotStore WITH
            NoGen <- None,
            visible <- current,
            whole <- Available,
            snapshot <- Held
ImplementsStore == Store!Spec
=============================================================================
