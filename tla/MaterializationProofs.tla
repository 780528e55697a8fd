----------------------- MODULE MaterializationProofs -----------------------
(***************************************************************************)
(* What the materialization cache keeps for any number of processes,       *)
(* requests, keys and generations, and any budgets: proofs about           *)
(* Materialization.                                                        *)
(***************************************************************************)
EXTENDS Materialization, FiniteSetTheorems, TLAPS

(* The locks a request holds are told by where it is.                      *)
LockInv ==
    \A r \in Requests :
        /\ pc[r] \in Writing <=> writer = r
        /\ pc[r] \in {"evict", "evict_remove"} <=> catalog = r

(* A request past "idle" has its key, and holds that key's refresh lock    *)
(* from its second look to its return.                                     *)
KeyInv ==
    \A r \in Requests :
        /\ pc[r] # "idle" => key[r] \in Keys
        /\ pc[r] \in {"reprobe", "lock_writer", "inv_catalog"} \cup Writing
             => refresh[key[r]] = r

(* The generation a writer works on is its own: no pointer names it and    *)
(* no reader leases it.  Only a fill whose pointer could not be synced     *)
(* cleans up a generation that readers can find.                           *)
Owns(r) ==
    /\ \A k \in Keys : current[k] # gen[r]
    /\ ~Leased(gen[r])

GenInv ==
    \A r \in Requests :
        /\ pc[r] \in Touching \cup {"publish", "reading"}
             => gen[r] \in Generations
        /\ pc[r] = "reading" => tier[r] \in {"memory", "disk"}
        /\ pc[r] \in {"fill", "publish", "evict_remove"} => Owns(r)
        /\ pc[r] = "abort" /\ ~SyncFailure => Owns(r)
        /\ pc[r] = "fill" => dir[gen[r]] = "partial"
        /\ pc[r] = "publish" => dir[gen[r]] = "complete"
        /\ pc[r] = "abort" => dir[gen[r]] # "absent"
        /\ pc[r] \in {"fill", "publish"} => info[gen[r]].key = key[r]

(* What a pointer names is of its key, and whole while directories can be  *)
(* synced.                                                                 *)
CurrentInv ==
    \A k \in Keys : current[k] # None =>
        /\ dir[current[k]] # "absent" => info[current[k]].key = k
        /\ ~SyncFailure => dir[current[k]] = "complete"

ReadersInv == ~SyncFailure => ReadersKeepTheirFiles

IInv ==
    /\ TypeOK
    /\ LockInv
    /\ KeyInv
    /\ GenInv
    /\ CurrentInv
    /\ ReadersInv

-----------------------------------------------------------------------------
(* An empty directory and idle callers satisfy the invariant.              *)
THEOREM InitInv == Init => IInv
  BY ConstantsAssumption
  DEF Init, IInv, TypeOK, LockInv, KeyInv, GenInv, Owns, CurrentInv,
      ReadersInv, ReadersKeepTheirFiles, DirStates, Manifest, NoInfo, Locations, Writing,
      Touching, ConstantsAssumption

(* admit_memory() removes nothing a reader holds.                          *)
LEMMA AdmitMemoryDrops ==
  \A m, n : \A D \in AdmitMemory(m, n) : D \subseteq Droppable(m)
  BY DEF AdmitMemory, Admissions

(* A call of resolve() only gets its key.                                  *)
LEMMA StartResolveInv ==
  ASSUME IInv, NEW r \in Requests, NEW k \in Keys, StartResolve(r, k)
  PROVE  IInv'
  <1>1. TypeOK'
    BY DEF IInv, TypeOK, StartResolve, Goto, Locations, lockVars, envVars
  <1>2. LockInv'
    BY DEF IInv, StartResolve, Goto, LockInv, Writing, Touching, lockVars
  <1>3. KeyInv'
    BY DEF IInv, TypeOK, StartResolve, Goto, KeyInv, Writing, Touching,
           lockVars
  <1>4. GenInv'
    BY DEF IInv, StartResolve, Goto, GenInv, Owns, Leased, Touching
  <1>5. CurrentInv'
    BY DEF IInv, StartResolve, CurrentInv
  <1>6. ReadersInv'
    BY DEF IInv, StartResolve, Goto, ReadersInv, ReadersKeepTheirFiles
  <1> QED BY <1>1, <1>2, <1>3, <1>4, <1>5, <1>6 DEF IInv

(* A hit takes its lease on a generation that CURRENT names, so a whole    *)
(* one.                                                                    *)
LEMMA CachedHitInv ==
  ASSUME IInv, NEW r \in Requests, CachedHit(r)
  PROVE  IInv'
  <1>1. TypeOK'
    BY DEF IInv, TypeOK, CachedHit, ReturnProvider, ReleaseLocks, Goto, Tier,
           KeyInv, Locations, diskVars, envVars
  <1>2. LockInv'
    BY DEF IInv, CachedHit, ReturnProvider, ReleaseLocks, Goto, LockInv,
           Writing, Touching
  <1>3. KeyInv'
    BY DEF IInv, TypeOK, CachedHit, ReturnProvider, ReleaseLocks, Goto,
           KeyInv, Writing, Touching
  <1>4. GenInv'
    BY DEF IInv, TypeOK, CachedHit, Hit, ReturnProvider, Goto, Tier, KeyInv,
           GenInv, Owns, Leased, Touching, diskVars
  <1>5. CurrentInv'
    BY DEF IInv, CachedHit, CurrentInv, diskVars
  <1>6. ReadersInv'
    BY DEF IInv, TypeOK, CachedHit, Hit, ReturnProvider, Goto, Tier, KeyInv,
           CurrentInv, ReadersInv, ReadersKeepTheirFiles, diskVars
  <1> QED BY <1>1, <1>2, <1>3, <1>4, <1>5, <1>6 DEF IInv

(* A miss only moves the caller on.                                        *)
LEMMA CachedMissInv ==
  ASSUME IInv, NEW r \in Requests, CachedMiss(r)
  PROVE  IInv'
  <1>1. TypeOK'
    BY DEF IInv, TypeOK, CachedMiss, Goto, Locations, diskVars, lockVars,
           envVars
  <1>2. LockInv'
    BY DEF IInv, CachedMiss, Goto, LockInv, Writing, Touching, lockVars
  <1>3. KeyInv'
    BY DEF IInv, CachedMiss, Goto, KeyInv, Writing, Touching, lockVars
  <1>4. GenInv'
    BY DEF IInv, CachedMiss, Goto, GenInv, Owns, Leased, Touching, diskVars
  <1>5. CurrentInv'
    BY DEF IInv, CachedMiss, CurrentInv, diskVars
  <1>6. ReadersInv'
    BY DEF IInv, CachedMiss, Goto, ReadersInv, ReadersKeepTheirFiles, diskVars
  <1> QED BY <1>1, <1>2, <1>3, <1>4, <1>5, <1>6 DEF IInv

(* A failing look returns with its locks dropped.                          *)
LEMMA CachedErrorInv ==
  ASSUME IInv, NEW r \in Requests, CachedError(r)
  PROVE  IInv'
  <1>1. TypeOK'
    BY DEF IInv, TypeOK, CachedError, Return, ReleaseLocks, Goto, Locations,
           diskVars, envVars
  <1>2. LockInv'
    BY DEF IInv, CachedError, Return, ReleaseLocks, Goto, LockInv, Writing,
           Touching
  <1>3. KeyInv'
    BY DEF IInv, TypeOK, CachedError, Return, ReleaseLocks, Goto, KeyInv,
           Writing, Touching
  <1>4. GenInv'
    BY DEF IInv, CachedError, Return, Goto, GenInv, Owns, Leased, Touching,
           diskVars
  <1>5. CurrentInv'
    BY DEF IInv, CachedError, CurrentInv, diskVars
  <1>6. ReadersInv'
    BY DEF IInv, CachedError, Return, Goto, ReadersInv, ReadersKeepTheirFiles, diskVars
  <1> QED BY <1>1, <1>2, <1>3, <1>4, <1>5, <1>6 DEF IInv

(* refresh.lock is taken by one caller of its key at a time.               *)
LEMMA LockRefreshInv ==
  ASSUME IInv, NEW r \in Requests, LockRefresh(r)
  PROVE  IInv'
  <1>1. TypeOK'
    BY DEF IInv, TypeOK, LockRefresh, Goto, Locations, diskVars, envVars
  <1>2. LockInv'
    BY DEF IInv, LockRefresh, Goto, LockInv, Writing, Touching
  <1>3. KeyInv'
    BY ConstantsAssumption
    DEF IInv, TypeOK, LockRefresh, Goto, KeyInv, ConstantsAssumption
  <1>4. GenInv'
    BY DEF IInv, LockRefresh, Goto, GenInv, Owns, Leased, Touching, diskVars
  <1>5. CurrentInv'
    BY DEF IInv, LockRefresh, CurrentInv, diskVars
  <1>6. ReadersInv'
    BY DEF IInv, LockRefresh, Goto, ReadersInv, ReadersKeepTheirFiles, diskVars
  <1> QED BY <1>1, <1>2, <1>3, <1>4, <1>5, <1>6 DEF IInv

(* writer.lock is taken by one caller in the directory at a time.          *)
LEMMA LockWriterInv ==
  ASSUME IInv, NEW r \in Requests, LockWriter(r)
  PROVE  IInv'
  <1>1. TypeOK'
    BY DEF IInv, TypeOK, LockWriter, Goto, Locations, diskVars, envVars
  <1>2. LockInv'
    BY ConstantsAssumption
    DEF IInv, TypeOK, LockWriter, Goto, LockInv, Writing, ConstantsAssumption
  <1>3. KeyInv'
    BY DEF IInv, LockWriter, Goto, KeyInv
  <1>4. GenInv'
    BY DEF IInv, TypeOK, LockWriter, Goto, LockInv, GenInv, Owns, Leased,
           Writing, Touching
  <1>5. CurrentInv'
    BY DEF IInv, LockWriter, CurrentInv, diskVars
  <1>6. ReadersInv'
    BY DEF IInv, LockWriter, Goto, ReadersInv, ReadersKeepTheirFiles, diskVars
  <1> QED BY <1>1, <1>2, <1>3, <1>4, <1>5, <1>6 DEF IInv

(* A caller that stops waiting leaves only its locks behind, released.     *)
LEMMA GiveUpInv ==
  ASSUME IInv, NEW r \in Requests, GiveUp(r)
  PROVE  IInv'
  <1>1. TypeOK'
    BY DEF IInv, TypeOK, GiveUp, Return, ReleaseLocks, Goto, Locations,
           diskVars, envVars
  <1>2. LockInv'
    <2>1. /\ pc' = [pc EXCEPT ![r] = "idle"]
          /\ writer' = IF writer = r THEN None ELSE writer
          /\ catalog' = IF catalog = r THEN None ELSE catalog
      BY DEF GiveUp, Return, ReleaseLocks, Goto
    <2> QED
      BY <2>1, ConstantsAssumption
      DEF IInv, TypeOK, LockInv, Writing, Touching, ConstantsAssumption
  <1>3. KeyInv'
    BY DEF IInv, TypeOK, GiveUp, Return, ReleaseLocks, Goto, KeyInv, Writing,
           Touching
  <1>4. GenInv'
    BY DEF IInv, TypeOK, GiveUp, Return, Goto, GenInv, Owns, Leased, Touching,
           diskVars
  <1>5. CurrentInv'
    BY DEF IInv, GiveUp, CurrentInv, diskVars
  <1>6. ReadersInv'
    BY DEF IInv, TypeOK, GiveUp, Return, Goto, ReadersInv, ReadersKeepTheirFiles, diskVars
  <1> QED BY <1>1, <1>2, <1>3, <1>4, <1>5, <1>6 DEF IInv

(* The scan runs under writer.lock, so what it removes is nobody's fill.   *)
LEMMA EvictScanInv ==
  ASSUME IInv, NEW r \in Requests, EvictScan(r)
  PROVE  IInv'
  <1>1. TypeOK'
    <2>1. info' \in [Generations -> Manifest]
      BY DEF IInv, TypeOK, EvictScan, Unrecorded, Manifest, NoInfo
    <2> QED
      BY <2>1 DEF IInv, TypeOK, EvictScan, Goto, Locations, DirStates, envVars
  <1>2. LockInv'
    BY DEF IInv, TypeOK, EvictScan, Goto, LockInv, Writing, Touching
  <1>3. KeyInv'
    BY DEF IInv, EvictScan, Goto, KeyInv, Writing
  <1>4. GenInv'
    BY DEF IInv, EvictScan, Goto, LockInv, GenInv, Writing, Touching
  <1>5. CurrentInv'
    BY DEF IInv, TypeOK, EvictScan, CurrentInv
  <1>6. ReadersInv'
    BY DEF IInv, EvictScan, Goto, GenInv, ReadersInv, ReadersKeepTheirFiles
  <1> QED BY <1>1, <1>2, <1>3, <1>4, <1>5, <1>6 DEF IInv

(* Passing over a leased generation changes no file.                       *)
LEMMA EvictSkipInv ==
  ASSUME IInv, NEW r \in Requests, NEW g \in Generations, EvictSkip(r, g)
  PROVE  IInv'
  <1>1. TypeOK'
    BY DEF IInv, TypeOK, EvictSkip, diskVars, lockVars, envVars
  <1>2. LockInv'
    BY DEF IInv, EvictSkip, LockInv, lockVars
  <1>3. KeyInv'
    BY DEF IInv, EvictSkip, KeyInv, lockVars
  <1>4. GenInv'
    BY DEF IInv, EvictSkip, LockInv, GenInv, Writing, Touching
  <1>5. CurrentInv'
    BY DEF IInv, EvictSkip, CurrentInv, diskVars
  <1>6. ReadersInv'
    BY DEF IInv, EvictSkip, ReadersInv, ReadersKeepTheirFiles, diskVars
  <1> QED BY <1>1, <1>2, <1>3, <1>4, <1>5, <1>6 DEF IInv

(* Eviction takes a generation nobody leases and removes its pointer       *)
(* first.                                                                  *)
LEMMA EvictUnlinkInv ==
  ASSUME IInv, NEW r \in Requests, NEW g \in Generations, EvictUnlink(r, g)
  PROVE  IInv'
  <1>1. TypeOK'
    BY ConstantsAssumption
    DEF IInv, TypeOK, EvictUnlink, Goto, Locations, Writing, Touching,
        ConstantsAssumption, diskVars, lockVars, envVars
  <1>2. LockInv'
    BY DEF IInv, EvictUnlink, Goto, LockInv, Writing, Touching, lockVars
  <1>3. KeyInv'
    BY DEF IInv, EvictUnlink, Goto, KeyInv, Writing, lockVars
  <1>4. GenInv'
      BY ConstantsAssumption
      DEF IInv, TypeOK, EvictUnlink, Oldest, Candidates, Committed,
          HasManifest, Goto, LockInv, GenInv, Owns, Leased, Writing, Touching,
          CurrentInv
  <1>5. CurrentInv'
    BY DEF IInv, EvictUnlink, CurrentInv, diskVars
  <1>6. ReadersInv'
    BY DEF IInv, EvictUnlink, Goto, ReadersInv, ReadersKeepTheirFiles, diskVars
  <1> QED BY <1>1, <1>2, <1>3, <1>4, <1>5, <1>6 DEF IInv

(* The directory removed is neither current nor leased.                    *)
LEMMA EvictRemoveInv ==
  ASSUME IInv, NEW r \in Requests, EvictRemove(r)
  PROVE  IInv'
  <1>1. TypeOK'
    BY ConstantsAssumption
    DEF IInv, TypeOK, EvictRemove, Goto, Unrecorded, Locations, DirStates,
        Manifest, NoInfo, Writing, Touching, ConstantsAssumption, lockVars,
        envVars
  <1>2. LockInv'
    BY DEF IInv, EvictRemove, Goto, LockInv, Writing, Touching, lockVars
  <1>3. KeyInv'
    BY DEF IInv, EvictRemove, Goto, KeyInv, Writing, Touching, lockVars
  <1>4. GenInv'
    BY DEF IInv, TypeOK, EvictRemove, Goto, LockInv, GenInv, Writing, Touching
  <1>5. CurrentInv'
    BY DEF IInv, EvictRemove, GenInv, Owns, CurrentInv, Touching
  <1>6. ReadersInv'
    <2> SUFFICES ASSUME ~SyncFailure, NEW q \in Requests, pc'[q] = "reading"
                 PROVE  IF tier'[q] = "disk" THEN dir'[gen'[q]] = "complete"
                                      ELSE gen'[q] \in memory'[Home[q]]
      BY DEF ReadersInv, ReadersKeepTheirFiles
    <2>1. q # r /\ pc[q] = "reading" /\ gen'[q] = gen[q] /\ tier'[q] = tier[q]
      BY DEF IInv, EvictRemove, Goto
    <2>2. gen[q] \in Generations /\ gen[r] \in Generations /\ ~Leased(gen[r])
      BY <2>1 DEF IInv, GenInv, Owns, EvictRemove, Touching
    <2>3. CASE tier[q] = "disk"
      BY <2>1, <2>2, <2>3 DEF IInv, ReadersInv, ReadersKeepTheirFiles, EvictRemove, Leased
    <2>4. CASE tier[q] # "disk"
      <3>1. gen[q] \in memory[Home[q]] /\ tier[q] = "memory"
        BY <2>1, <2>4 DEF IInv, ReadersInv, ReadersKeepTheirFiles, GenInv
      <3>2. Home[q] = Home[r] /\ gen[q] = gen[r] => Referenced(Home[r], gen[r])
        BY <2>1, <3>1 DEF Referenced
      <3> QED
        BY <2>1, <2>4, <3>1, <3>2, ConstantsAssumption
        DEF IInv, TypeOK, EvictRemove, ConstantsAssumption
    <2> QED BY <2>3, <2>4
  <1> QED BY <1>1, <1>2, <1>3, <1>4, <1>5, <1>6 DEF IInv

(* A refused fill returns with its locks dropped.                          *)
LEMMA EvictFullInv ==
  ASSUME IInv, NEW r \in Requests, EvictFull(r)
  PROVE  IInv'
  <1>1. TypeOK'
    BY DEF IInv, TypeOK, EvictFull, Return, ReleaseLocks, Goto, Locations,
           diskVars, envVars
  <1>2. LockInv'
    BY ConstantsAssumption
    DEF IInv, TypeOK, EvictFull, Return, ReleaseLocks, Goto, LockInv, Writing,
        Touching, ConstantsAssumption
  <1>3. KeyInv'
    BY DEF IInv, TypeOK, EvictFull, Return, ReleaseLocks, Goto, KeyInv,
           Writing, Touching
  <1>4. GenInv'
    BY DEF IInv, EvictFull, Return, Goto, LockInv, GenInv, Writing, Touching
  <1>5. CurrentInv'
    BY DEF IInv, EvictFull, CurrentInv, diskVars
  <1>6. ReadersInv'
    BY DEF IInv, EvictFull, Return, Goto, ReadersInv, ReadersKeepTheirFiles, diskVars
  <1> QED BY <1>1, <1>2, <1>3, <1>4, <1>5, <1>6 DEF IInv

(* A fill starts in a directory nothing mentions.                          *)
LEMMA BeginFillInv ==
  ASSUME IInv, NEW r \in Requests, NEW g \in Generations,
         NEW a \in 0 .. MaxClock,
         BeginFill(r, g, a)
  PROVE  IInv'
  <1>1. TypeOK'
    <2>1. info' \in [Generations -> Manifest]
      BY ConstantsAssumption
      DEF IInv, TypeOK, BeginFill, Manifest, ConstantsAssumption
    <2> QED
      BY <2>1, ConstantsAssumption
      DEF IInv, TypeOK, BeginFill, Goto, Locations, DirStates, envVars
  <1>2. LockInv'
    BY ConstantsAssumption
    DEF IInv, TypeOK, BeginFill, Goto, LockInv, Writing, Touching,
        ConstantsAssumption
  <1>3. KeyInv'
    BY DEF IInv, BeginFill, Goto, KeyInv, Writing
  <1>4. GenInv'
    BY DEF IInv, TypeOK, BeginFill, Goto, Unmentioned, GenInv, Owns, Leased
  <1>5. CurrentInv'
    BY DEF IInv, BeginFill, Unmentioned, CurrentInv
  <1>6. ReadersInv'
    BY DEF IInv, BeginFill, Goto, Unmentioned, ReadersInv, ReadersKeepTheirFiles
  <1> QED BY <1>1, <1>2, <1>3, <1>4, <1>5, <1>6 DEF IInv

(* A batch grows the fill's own generation and drops only batches nobody   *)
(* reads.                                                                  *)
LEMMA FillBatchInv ==
  ASSUME IInv, NEW r \in Requests, NEW e \in 1 .. MaxEncoded, FillBatch(r, e)
  PROVE  IInv'
  <1>1. TypeOK'
    <2>1. info' \in [Generations -> Manifest]
      BY DEF IInv, TypeOK, GenInv, FillBatch, Manifest, Touching
    <2>2. memory' \in [Managers -> SUBSET Generations]
      BY DEF IInv, TypeOK, FillBatch
    <2>3. retain' \in [Requests -> BOOLEAN]
      BY DEF IInv, TypeOK, FillBatch
    <2> QED
      BY <2>1, <2>2, <2>3 DEF IInv, TypeOK, FillBatch, envVars, lockVars
  <1>2. LockInv'
    BY DEF IInv, FillBatch, LockInv, lockVars
  <1>3. KeyInv'
    BY DEF IInv, FillBatch, KeyInv, lockVars
  <1>4. GenInv'
    BY DEF IInv, TypeOK, FillBatch, GenInv, Owns, Leased, Touching
  <1>5. CurrentInv'
    BY DEF IInv, TypeOK, FillBatch, CurrentInv
  <1>6. ReadersInv'
    <2>1. \A m \in Managers : \A x \in memory[m] : x \notin memory'[m] =>
            ~Referenced(m, x)
      <3>1. CASE memory' = memory
        BY <3>1
      <3>2. ASSUME NEW D \in AdmitMemory(Home[r], info[gen[r]].decoded + 1),
                   memory' = [memory EXCEPT ![Home[r]] = @ \ D]
            PROVE \A m \in Managers : \A x \in memory[m] :
                     x \notin memory'[m] => ~Referenced(m, x)
        <4>1. D \subseteq Droppable(Home[r])
          BY AdmitMemoryDrops
        <4> QED BY <4>1, <3>2 DEF IInv, TypeOK, Droppable
      <3> QED BY <3>1, <3>2 DEF FillBatch
    <2>. QED BY <2>1, ConstantsAssumption
    DEF IInv, TypeOK, GenInv, FillBatch, ReadersInv, ReadersKeepTheirFiles, Referenced,
        ConstantsAssumption
  <1> QED BY <1>1, <1>2, <1>3, <1>4, <1>5, <1>6 DEF IInv

(* An error in a fill only arms the cleanup.                               *)
LEMMA FillFailsInv ==
  ASSUME IInv, NEW r \in Requests, FillFails(r)
  PROVE  IInv'
  <1>1. TypeOK'
    BY DEF IInv, TypeOK, FillFails, Goto, Locations, diskVars, lockVars,
           envVars
  <1>2. LockInv'
    BY DEF IInv, FillFails, Goto, LockInv, Writing, Touching, lockVars
  <1>3. KeyInv'
    BY DEF IInv, FillFails, Goto, KeyInv, Writing, Touching, lockVars
  <1>4. GenInv'
    BY DEF IInv, TypeOK, FillFails, Goto, LockInv, GenInv, Owns, Leased,
           Writing, Touching, diskVars
  <1>5. CurrentInv'
    BY DEF IInv, FillFails, CurrentInv, diskVars
  <1>6. ReadersInv'
    BY DEF IInv, FillFails, Goto, ReadersInv, ReadersKeepTheirFiles, diskVars
  <1> QED BY <1>1, <1>2, <1>3, <1>4, <1>5, <1>6 DEF IInv

(* The manifest completes a directory no pointer names yet.                *)
LEMMA WriteManifestInv ==
  ASSUME IInv, NEW r \in Requests, WriteManifest(r)
  PROVE  IInv'
  <1>1. TypeOK'
    BY DEF IInv, TypeOK, WriteManifest, Goto, GenInv, Locations, DirStates,
           Manifest, Touching, lockVars, envVars
  <1>2. LockInv'
    BY DEF IInv, WriteManifest, Goto, LockInv, Writing, Touching, lockVars
  <1>3. KeyInv'
    BY DEF IInv, WriteManifest, Goto, KeyInv, Writing, Touching, lockVars
  <1>4. GenInv'
    BY DEF IInv, TypeOK, WriteManifest, Goto, LockInv, GenInv, Owns, Leased,
           Writing, Touching
  <1>5. CurrentInv'
    BY DEF IInv, TypeOK, WriteManifest, GenInv, Owns, CurrentInv, Touching
  <1>6. ReadersInv'
    BY DEF IInv, WriteManifest, Goto, ReadersInv, ReadersKeepTheirFiles
  <1> QED BY <1>1, <1>2, <1>3, <1>4, <1>5, <1>6 DEF IInv

(* The pointer is given a complete generation of its key, and the caller   *)
(* reads it.                                                               *)
LEMMA PublishInv ==
  ASSUME IInv, NEW r \in Requests, Publish(r)
  PROVE  IInv'
  <1>1. TypeOK'
    <2>1. gen[r] \in Generations /\ key[r] \in Keys /\ Home[r] \in Managers
      BY ConstantsAssumption
      DEF IInv, GenInv, KeyInv, Publish, ConstantsAssumption
    <2>2. /\ current' \in [Keys -> Generations \cup {None}]
          /\ memory' \in [Managers -> SUBSET Generations]
      BY <2>1 DEF IInv, TypeOK, Publish
    <2>3. /\ refresh' \in [Keys -> Requests \cup {None}]
          /\ writer' \in Requests \cup {None}
          /\ catalog' \in Requests \cup {None}
      BY DEF IInv, TypeOK, Publish, ReturnProvider, ReleaseLocks
    <2>4. /\ pc' \in [Requests -> Locations]
          /\ gen' \in [Requests -> Generations \cup {None}]
          /\ tier' \in [Requests -> {"memory", "disk", None}]
          /\ passed' \in [Requests -> SUBSET Generations]
          /\ retain' \in [Requests -> BOOLEAN]
      BY <2>1 DEF IInv, TypeOK, Publish, ReturnProvider, Tier, Goto, Locations
    <2> QED
      BY <2>1, <2>2, <2>3, <2>4
      DEF IInv, TypeOK, Publish, ReturnProvider, diskVars, envVars
  <1>2. LockInv'
    BY DEF IInv, TypeOK, Publish, ReturnProvider, ReleaseLocks, Goto, LockInv,
           Writing, Touching
  <1>3. KeyInv'
    BY DEF IInv, TypeOK, Publish, ReturnProvider, ReleaseLocks, Goto, KeyInv,
           Writing, Touching
  <1>4. GenInv'
    BY DEF IInv, TypeOK, Publish, ReturnProvider, Goto, Tier, LockInv, GenInv,
           Writing, Touching
  <1>5. CurrentInv'
    BY DEF IInv, Publish, GenInv, CurrentInv, diskVars
  <1>6. ReadersInv'
    BY DEF IInv, TypeOK, Publish, ReturnProvider, Goto, Tier, GenInv,
           ReadersInv, ReadersKeepTheirFiles, diskVars
  <1> QED BY <1>1, <1>2, <1>3, <1>4, <1>5, <1>6 DEF IInv

(* A pointer whose directory could not be synced is there all the same,    *)
(* and names a generation that is about to be removed.                     *)
LEMMA PublishUnsyncedInv ==
  ASSUME IInv, NEW r \in Requests, PublishUnsynced(r)
  PROVE  IInv'
  <1>1. TypeOK'
    BY DEF IInv, TypeOK, PublishUnsynced, Goto, GenInv, KeyInv, Locations,
           diskVars, lockVars, envVars
  <1>2. LockInv'
    BY DEF IInv, PublishUnsynced, Goto, LockInv, Writing, Touching, lockVars
  <1>3. KeyInv'
    BY DEF IInv, PublishUnsynced, Goto, KeyInv, Writing, Touching, lockVars
  <1>4. GenInv'
    BY DEF IInv, TypeOK, PublishUnsynced, Goto, LockInv, GenInv, Writing,
           Touching, diskVars
  <1>5. CurrentInv'
    BY DEF IInv, TypeOK, PublishUnsynced, GenInv, KeyInv, CurrentInv, diskVars
  <1>6. ReadersInv'
    BY DEF PublishUnsynced, ReadersInv
  <1> QED BY <1>1, <1>2, <1>3, <1>4, <1>5, <1>6 DEF IInv

(* The guard removes a directory that is neither current nor leased.       *)
LEMMA AbortInv ==
  ASSUME IInv, NEW r \in Requests, Abort(r)
  PROVE  IInv'
  <1>1. TypeOK'
    BY DEF IInv, TypeOK, Abort, Return, ReleaseLocks, Goto, Locations,
           DirStates, Manifest, NoInfo, envVars
  <1>2. LockInv'
    BY DEF IInv, TypeOK, Abort, Return, ReleaseLocks, Goto, LockInv, Writing,
           Touching
  <1>3. KeyInv'
    BY DEF IInv, TypeOK, Abort, Return, ReleaseLocks, Goto, KeyInv, Writing,
           Touching
  <1>4. GenInv'
    BY DEF IInv, TypeOK, Abort, Return, Goto, LockInv, GenInv, Writing,
           Touching
  <1>5. CurrentInv'
    BY DEF IInv, TypeOK, Abort, LockInv, GenInv, Owns, CurrentInv, Touching
  <1>6. ReadersInv'
    BY DEF IInv, Abort, Return, Goto, GenInv, Owns, Leased,
           ReadersInv, ReadersKeepTheirFiles, Touching
  <1> QED BY <1>1, <1>2, <1>3, <1>4, <1>5, <1>6 DEF IInv

(* A reader that lets go changes no file.                                  *)
LEMMA CloseProviderInv ==
  ASSUME IInv, NEW r \in Requests, CloseProvider(r)
  PROVE  IInv'
  <1>1. TypeOK'
    BY DEF IInv, TypeOK, CloseProvider, Return, ReleaseLocks, Goto, Locations,
           diskVars, envVars
  <1>2. LockInv'
    BY DEF IInv, CloseProvider, Return, ReleaseLocks, Goto, LockInv, Writing,
           Touching
  <1>3. KeyInv'
    BY DEF IInv, TypeOK, CloseProvider, Return, ReleaseLocks, Goto, KeyInv,
           Writing, Touching
  <1>4. GenInv'
    BY DEF IInv, TypeOK, CloseProvider, Return, Goto, GenInv, Owns, Leased,
           Touching, diskVars
  <1>5. CurrentInv'
    BY DEF IInv, CloseProvider, CurrentInv, diskVars
  <1>6. ReadersInv'
    BY DEF IInv, TypeOK, CloseProvider, Return, Goto, ReadersInv, ReadersKeepTheirFiles,
           diskVars
  <1> QED BY <1>1, <1>2, <1>3, <1>4, <1>5, <1>6 DEF IInv

(* A call of invalidate() only gets its key.                               *)
LEMMA StartInvalidateInv ==
  ASSUME IInv, NEW r \in Requests, NEW k \in Keys, StartInvalidate(r, k)
  PROVE  IInv'
  <1>1. TypeOK'
    BY DEF IInv, TypeOK, StartInvalidate, Goto, Locations, diskVars, lockVars,
           envVars
  <1>2. LockInv'
    BY DEF IInv, StartInvalidate, Goto, LockInv, Writing, Touching, lockVars
  <1>3. KeyInv'
    BY DEF IInv, TypeOK, StartInvalidate, Goto, KeyInv, Writing, Touching,
           lockVars
  <1>4. GenInv'
    BY DEF IInv, StartInvalidate, Goto, GenInv, Owns, Leased, Touching,
           diskVars
  <1>5. CurrentInv'
    BY DEF IInv, StartInvalidate, CurrentInv, diskVars
  <1>6. ReadersInv'
    BY DEF IInv, StartInvalidate, Goto, ReadersInv, ReadersKeepTheirFiles, diskVars
  <1> QED BY <1>1, <1>2, <1>3, <1>4, <1>5, <1>6 DEF IInv

(* Invalidation removes a pointer and batches nobody reads, never a        *)
(* directory.                                                              *)
LEMMA InvalidateInv ==
  ASSUME IInv, NEW r \in Requests, Invalidate(r)
  PROVE  IInv'
  <1>1. TypeOK'
    BY DEF IInv, TypeOK, Invalidate, Return, ReleaseLocks, Goto, Locations,
           Writing, Touching, diskVars, envVars
  <1>2. LockInv'
    BY DEF IInv, Invalidate, Return, ReleaseLocks, Goto, LockInv, Writing,
           Touching
  <1>3. KeyInv'
    BY DEF IInv, TypeOK, Invalidate, Return, ReleaseLocks, Goto, KeyInv,
           Writing, Touching
  <1>4. GenInv'
    BY ConstantsAssumption
    DEF IInv, Invalidate, Return, Goto, GenInv, Owns, Leased, Touching,
        ConstantsAssumption, diskVars
  <1>5. CurrentInv'
    BY DEF IInv, Invalidate, CurrentInv, diskVars
  <1>6. ReadersInv'
    <2>1. \A m \in Managers : \A x \in memory[m] : x \notin memory'[m] =>
            ~Referenced(m, x)
      BY DEF IInv, Invalidate
    <2>2. \A q \in Requests : pc'[q] = "reading" =>
            pc[q] = "reading" /\ gen'[q] = gen[q] /\ tier'[q] = tier[q]
      BY DEF IInv, Invalidate, Return, Goto
    <2>. QED BY <2>1, <2>2, ConstantsAssumption
    DEF IInv, TypeOK, GenInv, Invalidate, ReadersInv, ReadersKeepTheirFiles, Referenced,
        ConstantsAssumption, diskVars
  <1> QED BY <1>1, <1>2, <1>3, <1>4, <1>5, <1>6 DEF IInv

(* The invariant does not speak of time.                                   *)
LEMMA ClockMovesInv ==
  ASSUME IInv, NEW t \in 0 .. MaxClock, ClockMoves(t)
  PROVE  IInv'
  <1>1. TypeOK'
    BY DEF IInv, TypeOK, ClockMoves, diskVars, lockVars
  <1>2. LockInv'
    BY DEF IInv, ClockMoves, LockInv, lockVars
  <1>3. KeyInv'
    BY DEF IInv, ClockMoves, KeyInv, lockVars
  <1>4. GenInv'
    BY DEF IInv, ClockMoves, GenInv, Owns, Leased, diskVars
  <1>5. CurrentInv'
    BY DEF IInv, ClockMoves, CurrentInv, diskVars
  <1>6. ReadersInv'
    BY DEF IInv, ClockMoves, ReadersInv, ReadersKeepTheirFiles, diskVars
  <1> QED BY <1>1, <1>2, <1>3, <1>4, <1>5, <1>6 DEF IInv

(* A death damages at most the directory its process owned, and frees its  *)
(* locks.                                                                  *)
LEMMA CrashInv ==
  ASSUME IInv, NEW m \in Managers, Crash(m)
  PROVE  IInv'
  <1>1. TypeOK'
    <2>1. dir' \in [Generations -> DirStates]
      BY DEF IInv, TypeOK, Crash, Debris, DirStates
    <2>2. /\ refresh' \in [Keys -> Requests \cup {None}]
          /\ writer' \in Requests \cup {None}
          /\ catalog' \in Requests \cup {None}
      BY DEF IInv, TypeOK, Crash
    <2>3. /\ pc' \in [Requests -> Locations]
          /\ gen' \in [Requests -> Generations \cup {None}]
          /\ tier' \in [Requests -> {"memory", "disk", None}]
          /\ key' \in [Requests -> Keys \cup {None}]
          /\ passed' \in [Requests -> SUBSET Generations]
          /\ retain' \in [Requests -> BOOLEAN]
      BY DEF IInv, TypeOK, Crash, Locations
    <2>4. memory' \in [Managers -> SUBSET Generations]
      BY DEF IInv, TypeOK, Crash
    <2>5. /\ faults' \in Nat
          /\ now' \in Nat
          /\ info' = info
          /\ current' = current
          /\ outdated' = outdated
      BY DEF IInv, TypeOK, Crash
    <2> QED
      BY <2>1, <2>2, <2>3, <2>4, <2>5 DEF IInv, TypeOK
  <1>2. LockInv'
    BY ConstantsAssumption
    DEF IInv, Crash, LockInv, Writing, Touching, ConstantsAssumption
  <1>3. KeyInv'
    BY DEF IInv, Crash, KeyInv, Writing, Touching
  <1>4. GenInv'
    BY DEF IInv, Crash, LockInv, GenInv, Owns, Leased, Writing, Touching
  <1>5. CurrentInv'
    <2> SUFFICES ASSUME NEW k \in Keys, current[k] # None
                 PROVE  /\ dir'[current[k]] # "absent"
                             => info[current[k]].key = k
                        /\ ~SyncFailure => dir'[current[k]] = "complete"
      BY DEF Crash, CurrentInv
    <2>1. CASE UNCHANGED dir
      BY <2>1 DEF IInv, CurrentInv
    <2>2. ASSUME NEW q \in Requests, pc[q] \in Touching,
                 NEW d \in Debris(q), dir' = [dir EXCEPT ![gen[q]] = d]
          PROVE  /\ dir'[current[k]] # "absent" => dir[current[k]] # "absent"
                 /\ ~SyncFailure => dir'[current[k]] = dir[current[k]]
      BY <2>2 DEF IInv, TypeOK, GenInv, Owns, Touching
    <2> QED BY <2>1, <2>2 DEF IInv, CurrentInv, Crash
  <1>6. ReadersInv'
    BY DEF IInv, TypeOK, Crash, GenInv, Owns, Leased, ReadersInv,
           ReadersKeepTheirFiles, Touching
  <1> QED BY <1>1, <1>2, <1>3, <1>4, <1>5, <1>6 DEF IInv

(* A removal that stops half way leaves a directory that nobody points at  *)
(* or reads.                                                               *)
LEMMA RemovalFailsInv ==
  ASSUME IInv, NEW r \in Requests, RemovalFails(r)
  PROVE  IInv'
  <1>1. TypeOK'
    <2>1. dir' \in [Generations -> DirStates]
      BY DEF IInv, TypeOK, RemovalFails, Debris, DirStates
    <2> QED
      BY <2>1 DEF IInv, TypeOK, RemovalFails, Return, ReleaseLocks, Goto,
         Locations
  <1>2. LockInv'
    <2>1. /\ pc' = [pc EXCEPT ![r] = "idle"]
          /\ writer' = IF writer = r THEN None ELSE writer
          /\ catalog' = IF catalog = r THEN None ELSE catalog
      BY DEF RemovalFails, Return, ReleaseLocks, Goto
    <2> QED
      BY <2>1, ConstantsAssumption
      DEF IInv, TypeOK, LockInv, Writing, Touching, ConstantsAssumption
  <1>3. KeyInv'
    BY DEF IInv, TypeOK, RemovalFails, Return, ReleaseLocks, Goto, KeyInv,
           Writing, Touching
  <1>4. GenInv'
    BY DEF IInv, TypeOK, RemovalFails, Return, Goto, LockInv, GenInv, Owns,
           Leased, Writing, Touching
  <1>5. CurrentInv'
    BY DEF IInv, TypeOK, RemovalFails, GenInv, Owns, CurrentInv, Touching
  <1>6. ReadersInv'
    BY DEF IInv, RemovalFails, Return, Goto, GenInv, Owns, Leased,
           ReadersInv, ReadersKeepTheirFiles, Touching
  <1> QED BY <1>1, <1>2, <1>3, <1>4, <1>5, <1>6 DEF IInv

(* A step that changes nothing keeps the invariant.                        *)
LEMMA StutterInv ==
  ASSUME IInv, UNCHANGED vars
  PROVE  IInv'
  <1>1. TypeOK'
    BY DEF IInv, TypeOK, vars
  <1>2. LockInv' /\ KeyInv'
    BY DEF IInv, LockInv, KeyInv, vars
  <1>3. GenInv'
    BY DEF IInv, GenInv, Owns, Leased, vars
  <1>4. CurrentInv' /\ ReadersInv'
    BY DEF IInv, CurrentInv, ReadersInv, ReadersKeepTheirFiles, vars
  <1> QED BY <1>1, <1>2, <1>3, <1>4 DEF IInv

(* A call's own progress keeps the invariant.                               *)
LEMMA ProgressInv ==
  ASSUME IInv, NEW r \in Requests, Progress(r)
  PROVE  IInv'
  <1>1. CASE CachedHit(r) \/ CachedMiss(r) \/ CachedError(r)
    BY <1>1, CachedHitInv, CachedMissInv, CachedErrorInv
  <1>2. CASE LockRefresh(r) \/ LockWriter(r)
    BY <1>2, LockRefreshInv, LockWriterInv
  <1>3. CASE EvictScan(r) \/ EvictRemove(r) \/ EvictFull(r)
    BY <1>3, EvictScanInv, EvictRemoveInv, EvictFullInv
  <1>4. CASE \E g \in Generations : EvictSkip(r, g) \/ EvictUnlink(r, g)
    BY <1>4, EvictSkipInv, EvictUnlinkInv
  <1>5. CASE \E g \in Generations, a \in 0..MaxClock : BeginFill(r, g, a)
    BY <1>5, BeginFillInv
  <1>6. CASE \E e \in 1..MaxEncoded : FillBatch(r, e)
    BY <1>6, FillBatchInv
  <1>7. CASE FillFails(r) \/ WriteManifest(r) \/ Publish(r) \/ Abort(r)
    BY <1>7, FillFailsInv, WriteManifestInv, PublishInv, AbortInv
  <1>8. CASE Invalidate(r)
    BY <1>8, InvalidateInv
  <1>9. CASE PublishUnsynced(r)
    BY <1>9, PublishUnsyncedInv
  <1> QED
    BY <1>1, <1>2, <1>3, <1>4, <1>5, <1>6, <1>7, <1>8, <1>9 DEF Progress

(* Every step of the system keeps the invariant.                            *)
LEMMA StepInv ==
  ASSUME IInv, [Next]_vars
  PROVE  IInv'
  <1>1. CASE UNCHANGED vars
    BY <1>1, StutterInv
  <1>2. ASSUME NEW r \in Requests, Progress(r) PROVE IInv'
    BY <1>2, ProgressInv
  <1>3. ASSUME NEW r \in Requests,
               GiveUp(r) \/ CloseProvider(r) \/ RemovalFails(r)
        PROVE  IInv'
    BY <1>3, GiveUpInv, CloseProviderInv, RemovalFailsInv
  <1>4. ASSUME NEW r \in Requests, NEW k \in Keys,
               StartResolve(r, k) \/ StartInvalidate(r, k)
        PROVE  IInv'
    BY <1>4, StartResolveInv, StartInvalidateInv
  <1>5. ASSUME NEW t \in 0..MaxClock, ClockMoves(t) PROVE IInv'
    BY <1>5, ClockMovesInv
  <1>6. ASSUME NEW m \in Managers, Crash(m) PROVE IInv'
    BY <1>6, CrashInv
  <1> QED BY <1>1, <1>2, <1>3, <1>4, <1>5, <1>6 DEF Next

-----------------------------------------------------------------------------
(* The inductive invariant holds at all times: locks, keys and generations *)
(* are held as resolve(), evict() and invalidate() assume.                 *)
THEOREM Invariant == Spec => []IInv
  <1>1. IInv /\ [Next]_vars => IInv'
    BY StepInv
  <1> QED BY <1>1, InitInv, PTL DEF Spec

(* Every variable keeps its type: a CURRENT file names a generation, and a *)
(* call is at a place the code has.                                        *)
THEOREM TypeCorrect == Spec => []TypeOK
  <1>1. IInv => TypeOK
    BY DEF IInv
  <1> QED BY <1>1, Invariant, PTL

(* A CURRENT file names a whole generation of its key, whatever fills,     *)
(* evictions, invalidations and deaths interleave.                         *)
THEOREM CurrentComplete ==
  ASSUME ~SyncFailure
  PROVE  Spec => []CurrentIsComplete
  <1>1. IInv => CurrentIsComplete
    BY DEF IInv, CurrentInv, CurrentIsComplete
  <1> QED BY <1>1, Invariant, PTL

(* No step of any process takes the files or the batches of a provider     *)
(* that resolve() has returned and that is still in use.                   *)
THEOREM ReadersKeep ==
  ASSUME ~SyncFailure
  PROVE  Spec => []ReadersKeepTheirFiles
  <1>1. IInv => ReadersKeepTheirFiles
    BY DEF IInv, ReadersInv
  <1> QED BY <1>1, Invariant, PTL

(* The scan of evict() never removes the directory of a running fill.      *)
THEOREM FillKeeps == Spec => []FillKeepsItsDirectory
  <1>1. IInv => FillKeepsItsDirectory
    BY DEF IInv, GenInv, FillKeepsItsDirectory
  <1> QED BY <1>1, Invariant, PTL

-----------------------------------------------------------------------------
(* What invalidate() promises.  Holding refresh.lock, it meets no fill of  *)
(* its key; what it marks as outdated can become current no more.          *)
OInv ==
    /\ OutdatedNeverCurrent
    /\ \A r \in Requests :
          pc[r] \in {"fill", "publish"} => gen[r] \notin outdated

(* Two callers that both hold one key's refresh.lock are one caller.       *)
LEMMA OneRefresher ==
  ASSUME IInv, NEW r \in Requests, NEW q \in Requests,
         pc[r] = "inv_catalog", pc[q] \in {"fill", "publish"}
  PROVE  key[r] # key[q]
  BY DEF IInv, KeyInv, Writing, Touching

(* Outside invalidate(), generations are only taken from the outdated ones, *)
(* and only a fill of a generation that is not outdated moves a pointer.   *)
LEMMA ProgressOutdated ==
  ASSUME IInv, OInv, NEW r \in Requests, Progress(r)
  PROVE  OInv'
  <1>1. CASE CachedHit(r) \/ CachedMiss(r) \/ CachedError(r)
    BY <1>1 DEF IInv, TypeOK, OInv, OutdatedNeverCurrent, CachedHit,
       CachedMiss, CachedError, ReturnProvider, Return, Goto, diskVars
  <1>2. CASE LockRefresh(r) \/ LockWriter(r)
    BY <1>2 DEF IInv, TypeOK, OInv, OutdatedNeverCurrent, LockRefresh,
       LockWriter, Goto
  <1>3. CASE EvictScan(r) \/ EvictRemove(r) \/ EvictFull(r)
    BY <1>3 DEF IInv, TypeOK, OInv, OutdatedNeverCurrent, EvictScan,
       EvictRemove, EvictFull, Return, Goto
  <1>4. ASSUME NEW g \in Generations, EvictSkip(r, g) PROVE OInv'
    BY <1>4 DEF OInv, OutdatedNeverCurrent, EvictSkip
  <1>5. ASSUME NEW g \in Generations, EvictUnlink(r, g) PROVE OInv'
    <2>1. None \notin outdated /\ outdated' = outdated
      BY <1>5, ConstantsAssumption
      DEF IInv, TypeOK, EvictUnlink, ConstantsAssumption
    <2>2. \A k \in Keys : current'[k] \in {current[k], None}
      BY <1>5 DEF IInv, TypeOK, EvictUnlink
    <2>3. \A q \in Requests :
             pc'[q] \in {"fill", "publish"} => pc'[q] = pc[q] /\ gen'[q] = gen[q]
      BY <1>5 DEF IInv, TypeOK, EvictUnlink, Goto
    <2> QED BY <2>1, <2>2, <2>3 DEF OInv, OutdatedNeverCurrent
  <1>6. CASE \E g \in Generations, a \in 0..MaxClock : BeginFill(r, g, a)
    BY <1>6 DEF IInv, TypeOK, OInv, OutdatedNeverCurrent, BeginFill,
       Unmentioned, Goto
  <1>7. CASE \E e \in 1..MaxEncoded : FillBatch(r, e)
    BY <1>7 DEF OInv, OutdatedNeverCurrent, FillBatch
  <1>8. CASE FillFails(r) \/ WriteManifest(r) \/ Abort(r)
    BY <1>8 DEF IInv, TypeOK, OInv, OutdatedNeverCurrent, FillFails,
       WriteManifest, Abort, Return, Goto
  <1>9. CASE Publish(r)
    BY <1>9 DEF IInv, TypeOK, OInv, OutdatedNeverCurrent, Publish,
       ReturnProvider, Goto
  <1>11. CASE PublishUnsynced(r)
    BY <1>11 DEF IInv, TypeOK, OInv, OutdatedNeverCurrent, PublishUnsynced,
       Goto
  <1>10. CASE Invalidate(r)
    <2>1. ASSUME NEW k \in Keys PROVE current'[k] \notin outdated'
      BY <1>10, <2>1, ConstantsAssumption
      DEF IInv, TypeOK, OInv, OutdatedNeverCurrent, CurrentInv, Invalidate,
          ConstantsAssumption
    <2>2. ASSUME NEW q \in Requests, pc'[q] \in {"fill", "publish"}
          PROVE  gen'[q] \notin outdated'
      <3>1. /\ pc[q] = pc'[q]
            /\ gen[q] = gen'[q]
            /\ pc[r] = "inv_catalog"
        BY <1>10, <2>2 DEF IInv, TypeOK, Invalidate, Return, Goto
      <3>2. info[gen[q]].key # key[r]
        BY <2>2, <3>1, OneRefresher DEF IInv, GenInv
      <3> QED BY <1>10, <2>2, <3>1, <3>2 DEF OInv, Invalidate
    <2> QED BY <2>1, <2>2 DEF OInv, OutdatedNeverCurrent
  <1> QED
    BY <1>1, <1>2, <1>3, <1>4, <1>5, <1>6, <1>7, <1>8, <1>9, <1>10,
       <1>11
    DEF Progress

(* Every step keeps outdated generations from becoming current.            *)
LEMMA StepOutdated ==
  ASSUME IInv, OInv, [Next]_vars
  PROVE  OInv'
  <1>1. CASE UNCHANGED vars
    BY <1>1 DEF OInv, OutdatedNeverCurrent, vars
  <1>2. ASSUME NEW r \in Requests, Progress(r) PROVE OInv'
    BY <1>2, ProgressOutdated
  <1>3. ASSUME NEW r \in Requests,
               GiveUp(r) \/ CloseProvider(r) \/ RemovalFails(r)
        PROVE  OInv'
    BY <1>3 DEF IInv, TypeOK, OInv, OutdatedNeverCurrent, GiveUp,
       CloseProvider, RemovalFails, Return, Goto
  <1>4. ASSUME NEW r \in Requests, NEW k \in Keys,
               StartResolve(r, k) \/ StartInvalidate(r, k)
        PROVE  OInv'
    BY <1>4 DEF IInv, TypeOK, OInv, OutdatedNeverCurrent, StartResolve,
       StartInvalidate, Goto
  <1>5. ASSUME NEW t \in 0..MaxClock, ClockMoves(t) PROVE OInv'
    BY <1>5 DEF OInv, OutdatedNeverCurrent, ClockMoves
  <1>6. ASSUME NEW m \in Managers, Crash(m) PROVE OInv'
    BY <1>6 DEF OInv, OutdatedNeverCurrent, Crash
  <1> QED BY <1>1, <1>2, <1>3, <1>4, <1>5, <1>6 DEF Next

(* Data fetched before an invalidation of its key is never current after   *)
(* it, although fills may be running when invalidate() is called.          *)
THEOREM InvalidationHolds == Spec => []OutdatedNeverCurrent
  <1>1. Init => OInv
    BY DEF Init, OInv, OutdatedNeverCurrent
  <1>2. IInv /\ OInv /\ [Next]_vars => OInv'
    BY StepOutdated
  <1>3. OInv => OutdatedNeverCurrent
    BY DEF OInv
  <1> QED BY <1>1, <1>2, <1>3, Invariant, PTL DEF Spec

-----------------------------------------------------------------------------
(* Facts about sizes.                                                      *)

(* Fewer generations of the same sizes take no more units.                 *)
LEMMA FewerUnits ==
  ASSUME NEW s, NEW t, NEW G, NEW H,
         IsFiniteSet(Units(s, H)), G \subseteq H, \A g \in G : t[g] = s[g]
  PROVE  /\ IsFiniteSet(Units(t, G))
         /\ Cardinality(Units(t, G)) \in Nat
         /\ Cardinality(Units(s, H)) \in Nat
         /\ Cardinality(Units(t, G)) <= Cardinality(Units(s, H))
  <1>1. Units(t, G) \in SUBSET Units(s, H)
    BY DEF Units
  <1> QED BY <1>1, FS_Subset, FS_CardinalityType

(* A generation takes as many units as its size.                           *)
LEMMA OwnUnits ==
  ASSUME NEW g, NEW n \in Nat
  PROVE  IsFiniteSet({g} \X (1..n)) /\ Cardinality({g} \X (1..n)) = n
  <1> DEFINE f == [i \in 1..n |-> <<g, i>>]
  <1>1. f \in Bijection(1..n, {g} \X (1..n))
    <2>1. f \in [1..n -> {g} \X (1..n)]
      OBVIOUS
    <2>2. \A i, j \in 1..n : f[i] = f[j] => i = j
      OBVIOUS
    <2>3. \A u \in {g} \X (1..n) : \E i \in 1..n : f[i] = u
      OBVIOUS
    <2> QED BY <2>1, <2>2, <2>3 DEF Bijection, Injection, Surjection, IsInjective
  <1>2. IsFiniteSet(1..n) /\ Cardinality(1..n) = n
    BY FS_Interval
  <1> QED BY <1>1, <1>2, FS_Bijection DEF ExistsBijection

(* One more generation takes at most its size more.                        *)
LEMMA OneMoreUnits ==
  ASSUME NEW s, NEW t, NEW G, NEW h,
         IsFiniteSet(Units(s, G)), \A g \in G : t[g] = s[g], t[h] \in Nat
  PROVE  /\ IsFiniteSet(Units(t, G \cup {h}))
         /\ Cardinality(Units(t, G \cup {h})) \in Nat
         /\ Cardinality(Units(s, G)) \in Nat
         /\ Cardinality(Units(t, G \cup {h})) <= Cardinality(Units(s, G)) + t[h]
  <1> DEFINE A == Units(s, G)
             B == {h} \X (1..t[h])
  <1>1. Units(t, G \cup {h}) = A \cup B
    BY DEF Units
  <1>2. IsFiniteSet(B) /\ Cardinality(B) = t[h]
    BY OwnUnits
  <1>3. IsFiniteSet(A) /\ Cardinality(A) \in Nat
    BY FS_CardinalityType
  <1> HIDE DEF A, B
  <1>4. Cardinality(A \cap B) \in Nat
    BY <1>3, FS_Subset, FS_CardinalityType
  <1>5. /\ IsFiniteSet(A \cup B)
        /\ Cardinality(A \cup B) = Cardinality(A) + t[h] - Cardinality(A \cap B)
    BY <1>2, <1>3, FS_Union
  <1>6. Cardinality(A \cup B) \in Nat
    BY <1>5, FS_CardinalityType
  <1>7. Cardinality(A \cup B) <= Cardinality(A) + t[h]
    BY <1>3, <1>4, <1>5
  <1> QED BY <1>1, <1>3, <1>5, <1>6, <1>7 DEF A

-----------------------------------------------------------------------------
(* The disk budget: whoever fills has room for the whole of its fill beside *)
(* what is committed, and nobody else commits.                             *)
Bytes == [g \in Generations |-> info[g].bytes]
DiskInv ==
    /\ IsFiniteSet(Units(Bytes, Committed))
    /\ CommittedWithinBudget
    /\ \A r \in Requests : pc[r] = "fill" =>
          /\ BytesOf(Committed) + MaxFill[Home[r]] <= MaxDisk
          /\ info[gen[r]].bytes <= MaxFill[Home[r]]

(* Nothing new is committed, and no fill starts or grows.                  *)
SpendsNoDisk ==
    /\ \A g \in Generations : HasManifest(g)' =>
          HasManifest(g) /\ info'[g].bytes = info[g].bytes
    /\ \A r \in Requests : pc'[r] = "fill" =>
          /\ pc[r] = "fill"
          /\ gen'[r] = gen[r]
          /\ info'[gen[r]].bytes = info[gen[r]].bytes

(* A step that spends no disk keeps within its budget.                     *)
LEMMA SparingKeepsDisk ==
  ASSUME DiskInv, SpendsNoDisk
  PROVE  DiskInv'
  <1>1. Committed' \subseteq Committed
    BY DEF SpendsNoDisk, Committed
  <1>2. \A g \in Committed' : Bytes'[g] = Bytes[g]
    BY DEF SpendsNoDisk, Committed, Bytes
  <1>3. /\ IsFiniteSet(Units(Bytes', Committed'))
        /\ BytesOf(Committed)' \in Nat
        /\ BytesOf(Committed) \in Nat
        /\ BytesOf(Committed)' <= BytesOf(Committed)
    BY <1>1, <1>2, FewerUnits DEF DiskInv, BytesOf, Bytes
  <1>4. \A m \in Managers : MaxFill[m] \in Nat
    BY ConstantsAssumption DEF ConstantsAssumption
  <1>5. \A r \in Requests : Home[r] \in Managers
    BY ConstantsAssumption DEF ConstantsAssumption
  <1>6. CommittedWithinBudget'
    BY <1>3, ConstantsAssumption
    DEF DiskInv, CommittedWithinBudget, ConstantsAssumption
  <1>7. ASSUME NEW r \in Requests, pc'[r] = "fill"
        PROVE  /\ BytesOf(Committed)' + MaxFill[Home[r]] <= MaxDisk
               /\ info'[gen'[r]].bytes <= MaxFill[Home[r]]
    BY <1>3, <1>4, <1>5, <1>7, ConstantsAssumption
    DEF DiskInv, SpendsNoDisk, ConstantsAssumption
  <1> QED BY <1>3, <1>6, <1>7 DEF DiskInv

(* Outside a fill no step spends disk.                                     *)
LEMMA OthersSpareDisk ==
  ASSUME IInv, NEW r \in Requests
  PROVE  /\ CachedHit(r) \/ CachedMiss(r) \/ CachedError(r) => SpendsNoDisk
         /\ LockRefresh(r) \/ LockWriter(r) => SpendsNoDisk
         /\ EvictScan(r) \/ EvictRemove(r) \/ EvictFull(r) => SpendsNoDisk
         /\ \A g \in Generations :
               EvictSkip(r, g) \/ EvictUnlink(r, g) => SpendsNoDisk
         /\ FillFails(r) \/ Publish(r) \/ PublishUnsynced(r) => SpendsNoDisk
         /\ Abort(r) \/ Invalidate(r) => SpendsNoDisk
         /\ GiveUp(r) \/ CloseProvider(r) \/ RemovalFails(r) => SpendsNoDisk
         /\ \A k \in Keys :
               StartResolve(r, k) \/ StartInvalidate(r, k) => SpendsNoDisk
  <1> USE DEF IInv, TypeOK, SpendsNoDisk, HasManifest, Goto, diskVars
  <1>1. CachedHit(r) \/ CachedMiss(r) \/ CachedError(r) => SpendsNoDisk
    BY DEF CachedHit, CachedMiss, CachedError, ReturnProvider, Return
  <1>2. LockRefresh(r) \/ LockWriter(r) => SpendsNoDisk
    BY DEF LockRefresh, LockWriter
  <1>3. EvictScan(r) => SpendsNoDisk
    BY DEF EvictScan, LockInv, Writing, Touching
  <1>4. EvictRemove(r) => SpendsNoDisk
    BY DEF EvictRemove, LockInv, Writing, Touching
  <1>5. EvictFull(r) => SpendsNoDisk
    BY DEF EvictFull, Return
  <1>6. \A g \in Generations :
           EvictSkip(r, g) \/ EvictUnlink(r, g) => SpendsNoDisk
    BY DEF EvictSkip, EvictUnlink
  <1>7. FillFails(r) \/ Publish(r) \/ PublishUnsynced(r) => SpendsNoDisk
    BY DEF FillFails, Publish, PublishUnsynced, ReturnProvider
  <1>8. Abort(r) => SpendsNoDisk
    BY DEF Abort, Return, LockInv, Writing, Touching
  <1>9. Invalidate(r) => SpendsNoDisk
    BY DEF Invalidate, Return
  <1>10. GiveUp(r) \/ CloseProvider(r) => SpendsNoDisk
    BY DEF GiveUp, CloseProvider, Return
  <1>11. RemovalFails(r) => SpendsNoDisk
    BY DEF RemovalFails, Return, Debris
  <1>12. \A k \in Keys :
            StartResolve(r, k) \/ StartInvalidate(r, k) => SpendsNoDisk
    BY DEF StartResolve, StartInvalidate
  <1> QED
    BY <1>1, <1>2, <1>3, <1>4, <1>5, <1>6, <1>7, <1>8, <1>9, <1>10, <1>11,
       <1>12

(* A death commits nothing.                                                *)
LEMMA CrashSparesDisk ==
  ASSUME IInv, NEW m \in Managers, Crash(m)
  PROVE  SpendsNoDisk
  BY DEF IInv, TypeOK, SpendsNoDisk, HasManifest, Crash, Debris

(* A fill starts only where the whole of it fits.                          *)
LEMMA BeginFillKeepsDisk ==
  ASSUME IInv, DiskInv, NEW r \in Requests, NEW g \in Generations,
         NEW a \in 0 .. MaxClock, BeginFill(r, g, a)
  PROVE  DiskInv'
  <1>1. Committed' = Committed
    BY DEF IInv, TypeOK, BeginFill, Unmentioned, Committed, HasManifest
  <1>2. \A h \in Committed : info'[h].bytes = info[h].bytes
    BY DEF IInv, TypeOK, BeginFill, Unmentioned, Committed, HasManifest
  <1>3. /\ IsFiniteSet(Units(Bytes', Committed'))
        /\ BytesOf(Committed)' \in Nat
        /\ BytesOf(Committed) \in Nat
        /\ BytesOf(Committed)' <= BytesOf(Committed)
    BY <1>1, <1>2, FewerUnits DEF DiskInv, BytesOf, Bytes, Committed
  <1>4. /\ BytesOf(Committed) + MaxFill[Home[r]] <= MaxDisk
        /\ MaxFill[Home[r]] \in Nat
        /\ MaxDisk \in Nat
    BY ConstantsAssumption DEF BeginFill, Fits, ConstantsAssumption
  <1>5. CommittedWithinBudget'
    BY <1>3, <1>4 DEF CommittedWithinBudget
  <1>6. \A q \in Requests : pc'[q] = "fill" => q = r
    BY DEF IInv, TypeOK, BeginFill, Goto, LockInv, Writing, Touching
  <1>7. info'[gen'[r]].bytes = 0
    BY DEF IInv, TypeOK, BeginFill
  <1> QED BY <1>3, <1>4, <1>5, <1>6, <1>7 DEF DiskInv

(* A batch stays within the fill's own budget.                             *)
LEMMA FillBatchKeepsDisk ==
  ASSUME IInv, DiskInv, NEW r \in Requests, NEW e \in 1 .. MaxEncoded,
         FillBatch(r, e)
  PROVE  DiskInv'
  <1>1. gen[r] \in Generations /\ dir[gen[r]] = "partial" /\ pc[r] = "fill"
    BY DEF IInv, GenInv, FillBatch, Touching
  <1>2. Committed' = Committed
    BY DEF FillBatch, Committed, HasManifest
  <1>3. \A h \in Committed : info'[h].bytes = info[h].bytes
    BY <1>1 DEF IInv, TypeOK, FillBatch, Committed, HasManifest
  <1>4. /\ IsFiniteSet(Units(Bytes', Committed'))
        /\ BytesOf(Committed)' \in Nat
        /\ BytesOf(Committed) \in Nat
        /\ BytesOf(Committed)' <= BytesOf(Committed)
    BY <1>2, <1>3, FewerUnits DEF DiskInv, BytesOf, Bytes, Committed
  <1>5. /\ BytesOf(Committed) + MaxFill[Home[r]] <= MaxDisk
        /\ MaxFill[Home[r]] \in Nat
        /\ MaxDisk \in Nat
    BY <1>1, ConstantsAssumption DEF DiskInv, ConstantsAssumption
  <1>6. CommittedWithinBudget'
    BY <1>4, <1>5 DEF CommittedWithinBudget
  <1>7. \A q \in Requests : pc'[q] = "fill" => q = r
    BY <1>1 DEF IInv, FillBatch, LockInv, Writing, Touching
  <1>8. info'[gen'[r]].bytes <= MaxFill[Home[r]]
    <2>1. gen' = gen /\ info[gen[r]].bytes + e <= MaxFill[Home[r]]
      BY DEF FillBatch
    <2>2. info'[gen[r]].bytes = info[gen[r]].bytes + e
      BY <1>1 DEF IInv, TypeOK, Manifest, FillBatch
    <2> QED BY <2>1, <2>2
  <1> QED BY <1>4, <1>5, <1>6, <1>7, <1>8 DEF DiskInv

(* The manifest commits what was reserved, or less.                        *)
LEMMA WriteManifestKeepsDisk ==
  ASSUME IInv, DiskInv, NEW r \in Requests, WriteManifest(r)
  PROVE  DiskInv'
  <1> DEFINE g == gen[r]
  <1>1. g \in Generations /\ dir[g] = "partial" /\ pc[r] = "fill"
    BY DEF IInv, GenInv, WriteManifest, Touching
  <1>2. Committed' = Committed \cup {g}
    BY <1>1 DEF IInv, TypeOK, WriteManifest, Committed, HasManifest
  <1>3. \A h \in Generations : info'[h].bytes = info[h].bytes
    BY DEF IInv, TypeOK, WriteManifest
  <1>4. info[g].bytes \in Nat /\ info[g].bytes <= MaxFill[Home[r]]
    BY <1>1 DEF IInv, TypeOK, Manifest, DiskInv
  <1>5. /\ IsFiniteSet(Units(Bytes', Committed'))
        /\ BytesOf(Committed)' \in Nat
        /\ BytesOf(Committed) \in Nat
        /\ BytesOf(Committed)' <= BytesOf(Committed) + info[g].bytes
    <2>1. \A h \in Committed : Bytes'[h] = Bytes[h]
      BY <1>3 DEF Bytes, Committed
    <2>2. Bytes'[g] = info[g].bytes
      BY <1>1, <1>3 DEF Bytes
    <2>3. IsFiniteSet(Units(Bytes, Committed))
      BY DEF DiskInv
    <2> HIDE DEF g
    <2>4. /\ IsFiniteSet(Units(Bytes', Committed \cup {g}))
          /\ Cardinality(Units(Bytes', Committed \cup {g})) \in Nat
          /\ Cardinality(Units(Bytes, Committed)) \in Nat
          /\ Cardinality(Units(Bytes', Committed \cup {g}))
               <= Cardinality(Units(Bytes, Committed)) + Bytes'[g]
      BY <1>4, <2>1, <2>2, <2>3, OneMoreUnits
    <2> QED BY <1>2, <2>2, <2>4 DEF BytesOf, Bytes
  <1>6. /\ BytesOf(Committed) + MaxFill[Home[r]] <= MaxDisk
        /\ MaxFill[Home[r]] \in Nat
        /\ MaxDisk \in Nat
    BY <1>1, ConstantsAssumption DEF DiskInv, ConstantsAssumption
  <1>7. CommittedWithinBudget'
    BY <1>4, <1>5, <1>6 DEF CommittedWithinBudget
  <1>8. \A q \in Requests : pc'[q] # "fill"
    BY <1>1 DEF IInv, TypeOK, WriteManifest, Goto, LockInv, Writing, Touching
  <1> QED BY <1>5, <1>7, <1>8 DEF DiskInv

(* Every step keeps within the disk budget.                                *)
LEMMA StepDisk ==
  ASSUME IInv, DiskInv, [Next]_vars
  PROVE  DiskInv'
  <1>1. CASE UNCHANGED vars
    <2>1. SpendsNoDisk
      BY <1>1 DEF vars, SpendsNoDisk, HasManifest
    <2> QED BY <2>1, SparingKeepsDisk
  <1>2. ASSUME NEW r \in Requests, Progress(r) PROVE DiskInv'
    <2>1. CASE SpendsNoDisk
      BY <2>1, SparingKeepsDisk
    <2>2. ASSUME NEW g \in Generations, NEW a \in 0 .. MaxClock,
                 BeginFill(r, g, a)
          PROVE  DiskInv'
      BY <2>2, BeginFillKeepsDisk
    <2>3. ASSUME NEW e \in 1 .. MaxEncoded, FillBatch(r, e) PROVE DiskInv'
      BY <2>3, FillBatchKeepsDisk
    <2>4. CASE WriteManifest(r)
      BY <2>4, WriteManifestKeepsDisk
    <2> QED BY <1>2, <2>1, <2>2, <2>3, <2>4, OthersSpareDisk DEF Progress
  <1>3. ASSUME NEW r \in Requests,
               \/ GiveUp(r) \/ CloseProvider(r) \/ RemovalFails(r)
               \/ \E k \in Keys : StartResolve(r, k) \/ StartInvalidate(r, k)
        PROVE  DiskInv'
    BY <1>3, OthersSpareDisk, SparingKeepsDisk
  <1>4. ASSUME NEW t \in 0..MaxClock, ClockMoves(t) PROVE DiskInv'
    <2>1. SpendsNoDisk
      BY <1>4 DEF ClockMoves, SpendsNoDisk, HasManifest, diskVars
    <2> QED BY <2>1, SparingKeepsDisk
  <1>5. ASSUME NEW m \in Managers, Crash(m) PROVE DiskInv'
    BY <1>5, CrashSparesDisk, SparingKeepsDisk
  <1> QED BY <1>1, <1>2, <1>3, <1>4, <1>5 DEF Next

(* What is committed never exceeds max_disk_bytes, whatever fills race,    *)
(* fail half way or die: a fill starts only where the whole of it fits,    *)
(* and only the holder of writer.lock commits.                             *)
THEOREM DiskBudget == Spec => []CommittedWithinBudget
  <1>1. Init => DiskInv
    <2> SUFFICES ASSUME Init PROVE DiskInv
      OBVIOUS
    <2>1. Committed = {}
      BY DEF Init, Committed, HasManifest
    <2>2. Units(Bytes, Committed) = {}
      BY <2>1 DEF Units
    <2>3. BytesOf(Committed) = 0
      BY <2>2, FS_EmptySet DEF BytesOf, Bytes
    <2>4. \A r \in Requests : pc[r] # "fill"
      BY DEF Init
    <2> QED
      BY <2>2, <2>3, <2>4, FS_EmptySet, ConstantsAssumption
      DEF DiskInv, CommittedWithinBudget, ConstantsAssumption
  <1>2. IInv /\ DiskInv /\ [Next]_vars => DiskInv'
    BY StepDisk
  <1>3. DiskInv => CommittedWithinBudget
    BY DEF DiskInv
  <1> QED BY <1>1, <1>2, <1>3, Invariant, PTL DEF Spec

-----------------------------------------------------------------------------
(* The memory budget: what is being filled for memory is admitted beside   *)
(* what the manager retains, and is not retained yet.                      *)
Decoded == [g \in Generations |-> info[g].decoded]
Keeping(r) == pc[r] \in {"fill", "publish"} /\ retain[r]
MemoryInv ==
    /\ \A m \in Managers : /\ IsFiniteSet(Units(Decoded, memory[m]))
                           /\ DecodedOf(memory[m]) <= MaxMemory
    /\ \A r \in Requests : pc[r] \in {"fill", "publish", "abort"} =>
          \A m \in Managers : gen[r] \notin memory[m]
    /\ \A r \in Requests : Keeping(r) =>
          DecodedOf(memory[Home[r]]) + info[gen[r]].decoded <= MaxMemory

(* Nothing new is retained, and no fill starts or grows.                   *)
SpendsNoMemory ==
    /\ \A m \in Managers :
          /\ memory'[m] \subseteq memory[m]
          /\ \A g \in memory'[m] : info'[g].decoded = info[g].decoded
    /\ \A r \in Requests : pc'[r] \in {"fill", "publish", "abort"} =>
          /\ pc[r] \in {"fill", "publish", "abort"}
          /\ gen'[r] = gen[r]
          /\ pc'[r] # "abort" => /\ pc[r] # "abort"
                                 /\ retain'[r] = retain[r]
                                 /\ info'[gen[r]].decoded = info[gen[r]].decoded

(* Where less is retained, less memory is taken.                           *)
LEMMA LessMemory ==
  ASSUME MemoryInv, NEW m \in Managers,
         memory[m] \subseteq Generations,
         memory'[m] \subseteq memory[m],
         \A g \in memory'[m] : info'[g].decoded = info[g].decoded
  PROVE  /\ IsFiniteSet(Units(Decoded', memory'[m]))
         /\ DecodedOf(memory[m])' \in Nat
         /\ DecodedOf(memory[m]) \in Nat
         /\ DecodedOf(memory[m])' <= DecodedOf(memory[m])
         /\ DecodedOf(memory[m])' <= MaxMemory
  <1>1. /\ IsFiniteSet(Units(Decoded', memory'[m]))
        /\ DecodedOf(memory[m])' \in Nat
        /\ DecodedOf(memory[m]) \in Nat
        /\ DecodedOf(memory[m])' <= DecodedOf(memory[m])
    <2>1. \A g \in memory'[m] : Decoded'[g] = Decoded[g]
      BY DEF Decoded
    <2> QED BY <2>1, FewerUnits DEF MemoryInv, DecodedOf, Decoded
  <1> QED
    BY <1>1, ConstantsAssumption DEF MemoryInv, ConstantsAssumption

(* A step that retains nothing new keeps within the budget.                *)
LEMMA SparingKeepsMemory ==
  ASSUME IInv, IInv', MemoryInv, SpendsNoMemory
  PROVE  MemoryInv'
  <1>1. ASSUME NEW m \in Managers
        PROVE  /\ IsFiniteSet(Units(Decoded', memory'[m]))
               /\ DecodedOf(memory[m])' \in Nat
               /\ DecodedOf(memory[m]) \in Nat
               /\ DecodedOf(memory[m])' <= DecodedOf(memory[m])
               /\ DecodedOf(memory[m])' <= MaxMemory
    BY LessMemory DEF IInv, TypeOK, SpendsNoMemory
  <1>2. ASSUME NEW r \in Requests, pc'[r] \in {"fill", "publish", "abort"}
        PROVE  \A m \in Managers : gen'[r] \notin memory'[m]
    BY <1>2 DEF MemoryInv, SpendsNoMemory
  <1>3. ASSUME NEW r \in Requests, Keeping(r)'
        PROVE  DecodedOf(memory[Home[r]])' + info'[gen'[r]].decoded <= MaxMemory
    <2>1. Home[r] \in Managers /\ MaxMemory \in Nat
      BY ConstantsAssumption DEF ConstantsAssumption
    <2>2. Keeping(r) /\ info'[gen'[r]].decoded = info[gen[r]].decoded
      BY <1>3 DEF Keeping, SpendsNoMemory
    <2>3. info[gen[r]].decoded \in Nat
      BY <2>2 DEF Keeping, IInv, TypeOK, GenInv, Manifest, Touching
    <2>4. DecodedOf(memory[Home[r]]) + info[gen[r]].decoded <= MaxMemory
      BY <2>2 DEF MemoryInv
    <2>5. /\ DecodedOf(memory[Home[r]])' \in Nat
          /\ DecodedOf(memory[Home[r]]) \in Nat
          /\ DecodedOf(memory[Home[r]])' <= DecodedOf(memory[Home[r]])
      BY <1>1, <2>1
    <2> QED BY <2>1, <2>2, <2>3, <2>4, <2>5
  <1> QED BY <1>1, <1>2, <1>3 DEF MemoryInv

(* What loses its manifest keeps its decoded size while it is retained.    *)
LEMMA UnrecordedKeepsDecoded ==
  ASSUME NEW m \in Managers, NEW g \in memory[m]
  PROVE  Unrecorded(g).decoded = info[g].decoded
  BY DEF Unrecorded, NoInfo

(* Outside a fill and its publication no step spends memory.               *)
LEMMA OthersSpareMemory ==
  ASSUME IInv, MemoryInv, NEW r \in Requests
  PROVE  /\ CachedHit(r) \/ CachedMiss(r) \/ CachedError(r) => SpendsNoMemory
         /\ LockRefresh(r) \/ LockWriter(r) => SpendsNoMemory
         /\ EvictScan(r) \/ EvictRemove(r) \/ EvictFull(r) => SpendsNoMemory
         /\ \A g \in Generations :
               EvictSkip(r, g) \/ EvictUnlink(r, g) => SpendsNoMemory
         /\ FillFails(r) \/ WriteManifest(r) \/ PublishUnsynced(r)
               => SpendsNoMemory
         /\ Abort(r) \/ Invalidate(r) => SpendsNoMemory
         /\ GiveUp(r) \/ CloseProvider(r) \/ RemovalFails(r) => SpendsNoMemory
         /\ \A k \in Keys :
               StartResolve(r, k) \/ StartInvalidate(r, k) => SpendsNoMemory
  <1> USE DEF IInv, TypeOK, SpendsNoMemory, Goto, diskVars
  <1>1. CachedHit(r) \/ CachedMiss(r) \/ CachedError(r) => SpendsNoMemory
    BY DEF CachedHit, CachedMiss, CachedError, ReturnProvider, Return
  <1>2. LockRefresh(r) \/ LockWriter(r) => SpendsNoMemory
    BY DEF LockRefresh, LockWriter
  <1>3. EvictScan(r) => SpendsNoMemory
    BY UnrecordedKeepsDecoded DEF EvictScan, LockInv, Writing, Touching
  <1>4. EvictRemove(r) => SpendsNoMemory
    BY UnrecordedKeepsDecoded, ConstantsAssumption
    DEF EvictRemove, LockInv, Writing, Touching, ConstantsAssumption
  <1>5. EvictFull(r) => SpendsNoMemory
    BY DEF EvictFull, Return
  <1>6. \A g \in Generations :
           EvictSkip(r, g) \/ EvictUnlink(r, g) => SpendsNoMemory
    BY DEF EvictSkip, EvictUnlink
  <1>7. FillFails(r) \/ WriteManifest(r) \/ PublishUnsynced(r)
           => SpendsNoMemory
    <2>1. FillFails(r) \/ PublishUnsynced(r) => SpendsNoMemory
      BY DEF FillFails, PublishUnsynced
    <2>2. WriteManifest(r) => SpendsNoMemory
      BY DEF WriteManifest
    <2> QED BY <2>1, <2>2
  <1>8. Abort(r) => SpendsNoMemory
    <2> SUFFICES ASSUME Abort(r) PROVE SpendsNoMemory
      OBVIOUS
    <2>1. \A m \in Managers : gen[r] \notin memory[m]
      BY DEF Abort, MemoryInv
    <2>2. memory' = memory /\ info' = [info EXCEPT ![gen[r]] = NoInfo]
      BY DEF Abort
    <2>3. \A m \in Managers : \A g \in memory[m] : info'[g] = info[g]
      BY <2>1, <2>2
    <2>4. \A q \in Requests : pc'[q] \notin {"fill", "publish", "abort"}
      BY DEF Abort, Return, LockInv, Writing, Touching
    <2> QED BY <2>2, <2>3, <2>4
  <1>9. Invalidate(r) => SpendsNoMemory
    <2> SUFFICES ASSUME Invalidate(r) PROVE SpendsNoMemory
      OBVIOUS
    <2>1. \A m \in Managers : memory'[m] \subseteq memory[m]
      BY DEF Invalidate
    <2>2. info' = info
      BY DEF Invalidate
    <2>3. \A q \in Requests : pc'[q] \in {"fill", "publish", "abort"} =>
             pc'[q] = pc[q] /\ gen'[q] = gen[q] /\ retain'[q] = retain[q]
      BY DEF Invalidate, Return
    <2> QED BY <2>1, <2>2, <2>3
  <1>10. GiveUp(r) \/ CloseProvider(r) => SpendsNoMemory
    BY DEF GiveUp, CloseProvider, Return
  <1>11. RemovalFails(r) => SpendsNoMemory
    BY DEF RemovalFails, Return
  <1>12. \A k \in Keys :
            StartResolve(r, k) \/ StartInvalidate(r, k) => SpendsNoMemory
    BY DEF StartResolve, StartInvalidate
  <1> QED
    BY <1>1, <1>2, <1>3, <1>4, <1>5, <1>6, <1>7, <1>8, <1>9, <1>10, <1>11,
       <1>12

(* A process that dies retains nothing.                                    *)
LEMMA CrashSparesMemory ==
  ASSUME IInv, NEW m \in Managers, Crash(m)
  PROVE  SpendsNoMemory
  BY DEF IInv, TypeOK, SpendsNoMemory, Crash

(* A fill starts with nothing decoded, in a name no memory knows.          *)
LEMMA BeginFillKeepsMemory ==
  ASSUME IInv, MemoryInv, NEW r \in Requests, NEW g \in Generations,
         NEW a \in 0 .. MaxClock, BeginFill(r, g, a)
  PROVE  MemoryInv'
  <1>1. memory' = memory /\ gen' = [gen EXCEPT ![r] = g]
    BY DEF BeginFill
  <1>2. \A m \in Managers : g \notin memory[m]
    BY DEF BeginFill, Unmentioned
  <1>3. \A m \in Managers : \A h \in memory[m] : info'[h] = info[h]
    BY <1>2 DEF IInv, TypeOK, BeginFill
  <1>4. ASSUME NEW m \in Managers
        PROVE  /\ IsFiniteSet(Units(Decoded', memory'[m]))
               /\ DecodedOf(memory[m])' \in Nat
               /\ DecodedOf(memory[m])' <= MaxMemory
    BY <1>1, <1>3, LessMemory DEF IInv, TypeOK
  <1>5. \A q \in Requests : pc'[q] \in {"fill", "publish", "abort"} => q = r
    BY DEF IInv, TypeOK, BeginFill, Goto, LockInv, Writing, Touching
  <1>6. info'[gen'[r]].decoded = 0 /\ gen'[r] = g
    BY DEF IInv, TypeOK, BeginFill
  <1>7. Home[r] \in Managers
    BY ConstantsAssumption DEF ConstantsAssumption
  <1> QED BY <1>1, <1>2, <1>4, <1>5, <1>6, <1>7 DEF MemoryInv, Keeping

(* A batch is admitted with all that its fill keeps so far, or nothing of  *)
(* the fill is kept.                                                       *)
LEMMA FillBatchKeepsMemory ==
  ASSUME IInv, MemoryInv, NEW r \in Requests, NEW e \in 1 .. MaxEncoded,
         FillBatch(r, e)
  PROVE  MemoryInv'
  <1> DEFINE g == gen[r]
             m == Home[r]
             n == info[g].decoded + 1
  <1>1. g \in Generations /\ pc[r] = "fill" /\ m \in Managers
    BY ConstantsAssumption
    DEF IInv, GenInv, FillBatch, Touching, ConstantsAssumption
  <1>2. \A p \in Managers : g \notin memory[p]
    BY <1>1 DEF MemoryInv
  <1>3. \A p \in Managers : memory'[p] \subseteq memory[p]
    BY DEF IInv, TypeOK, FillBatch
  <1>4. \A p \in Managers : \A h \in memory[p] : info'[h] = info[h]
    BY <1>2 DEF IInv, TypeOK, FillBatch
  <1>5. ASSUME NEW p \in Managers
        PROVE  /\ IsFiniteSet(Units(Decoded', memory'[p]))
               /\ DecodedOf(memory[p])' \in Nat
               /\ DecodedOf(memory[p])' <= MaxMemory
    BY <1>3, <1>4, LessMemory DEF IInv, TypeOK
  <1>6. \A q \in Requests : pc[q] \in {"fill", "publish", "abort"} => q = r
    BY <1>1 DEF IInv, LockInv, Writing, Touching
  <1>7. gen' = gen /\ pc' = pc /\ info'[g].decoded = n
    BY <1>1 DEF IInv, TypeOK, FillBatch
  <1>8. ASSUME retain'[r]
        PROVE  DecodedOf(memory[m])' + n <= MaxMemory
    <2>1. retain[r]
      BY <1>8 DEF FillBatch
    <2>2. Admissions(m, n) # {}
      BY <1>8, <2>1 DEF IInv, TypeOK, FillBatch
    <2>3. PICK D \in AdmitMemory(m, n) :
             memory' = [memory EXCEPT ![m] = @ \ D]
      BY <2>1 DEF FillBatch
    <2>4. DecodedOf(memory[m] \ D) + n <= MaxMemory
      BY <2>2, <2>3 DEF AdmitMemory, Admissions, Admits
    <2>5. memory'[m] = memory[m] \ D
      BY <1>1, <2>3 DEF IInv, TypeOK
    <2>6. \A h \in memory[m] \ D : Decoded'[h] = Decoded[h]
      BY <1>1, <1>4 DEF Decoded, IInv, TypeOK
    <2>7. IsFiniteSet(Units(Decoded, memory[m] \ D))
      <3>1. IsFiniteSet(Units(Decoded, memory[m]))
        BY <1>1 DEF MemoryInv
      <3> QED BY <3>1, FewerUnits
    <2>8. /\ DecodedOf(memory[m])' \in Nat
          /\ DecodedOf(memory[m] \ D) \in Nat
          /\ DecodedOf(memory[m])' <= DecodedOf(memory[m] \ D)
      <3> DEFINE G == memory'[m]
                 H == memory[m] \ D
      <3>1. G \subseteq H /\ \A h \in G : Decoded'[h] = Decoded[h]
        BY <2>5, <2>6
      <3>2. /\ Cardinality(Units(Decoded', G)) \in Nat
            /\ Cardinality(Units(Decoded, H)) \in Nat
            /\ Cardinality(Units(Decoded', G)) <= Cardinality(Units(Decoded, H))
        <4> HIDE DEF G, H
        <4> QED BY <2>7, <3>1, FewerUnits DEF H
      <3>3. DecodedOf(memory[m])' = Cardinality(Units(Decoded', G))
        BY DEF DecodedOf, Decoded
      <3>4. DecodedOf(H) = Cardinality(Units(Decoded, H))
        BY DEF DecodedOf, Decoded
      <3> QED BY <3>2, <3>3, <3>4
    <2>9. n \in Nat /\ MaxMemory \in Nat
      BY <1>1, ConstantsAssumption
      DEF IInv, TypeOK, Manifest, ConstantsAssumption
    <2> QED BY <2>4, <2>8, <2>9
  <1> QED
    BY <1>1, <1>2, <1>3, <1>5, <1>6, <1>7, <1>8 DEF MemoryInv, Keeping

(* What is retained was admitted.                                          *)
LEMMA PublishKeepsMemory ==
  ASSUME IInv, MemoryInv, NEW r \in Requests, Publish(r)
  PROVE  MemoryInv'
  <1> DEFINE g == gen[r]
             m == Home[r]
  <1>1. g \in Generations /\ pc[r] = "publish" /\ m \in Managers
    BY ConstantsAssumption
    DEF IInv, GenInv, Publish, ConstantsAssumption
  <1>2. info' = info
    BY DEF Publish, diskVars
  <1>3. \A q \in Requests : pc'[q] \notin {"fill", "publish", "abort"}
    BY <1>1 DEF IInv, TypeOK, Publish, ReturnProvider, Goto, LockInv, Writing,
       Touching
  <1>4. ASSUME NEW p \in Managers, memory'[p] = memory[p]
        PROVE  /\ IsFiniteSet(Units(Decoded', memory'[p]))
               /\ DecodedOf(memory[p])' <= MaxMemory
    BY <1>2, <1>4, LessMemory DEF IInv, TypeOK
  <1>5. ASSUME retain[r]
        PROVE  /\ IsFiniteSet(Units(Decoded', memory'[m]))
               /\ DecodedOf(memory[m])' <= MaxMemory
    <2>1. memory'[m] = memory[m] \cup {g}
      BY <1>1, <1>5 DEF IInv, TypeOK, Publish
    <2>2. /\ DecodedOf(memory[m]) + info[g].decoded <= MaxMemory
          /\ IsFiniteSet(Units(Decoded, memory[m]))
      BY <1>1, <1>5 DEF MemoryInv, Keeping
    <2>3. Decoded' = Decoded /\ Decoded[g] = info[g].decoded
      BY <1>1, <1>2 DEF Decoded
    <2>4. info[g].decoded \in Nat
      BY <1>1 DEF IInv, TypeOK, Manifest
    <2> HIDE DEF g, m
    <2>5. /\ IsFiniteSet(Units(Decoded, memory[m] \cup {g}))
          /\ Cardinality(Units(Decoded, memory[m] \cup {g})) \in Nat
          /\ Cardinality(Units(Decoded, memory[m])) \in Nat
          /\ Cardinality(Units(Decoded, memory[m] \cup {g}))
               <= Cardinality(Units(Decoded, memory[m])) + Decoded[g]
      BY <2>2, <2>3, <2>4, OneMoreUnits
    <2>6. MaxMemory \in Nat
      BY ConstantsAssumption DEF ConstantsAssumption
    <2>7. /\ DecodedOf(memory[m]) = Cardinality(Units(Decoded, memory[m]))
          /\ DecodedOf(memory[m])'
               = Cardinality(Units(Decoded', memory'[m]))
      BY DEF DecodedOf, Decoded
    <2> QED BY <2>1, <2>2, <2>3, <2>4, <2>5, <2>6, <2>7
  <1>6. \A p \in Managers : memory'[p] = memory[p] \/ (p = m /\ retain[r])
    BY <1>1 DEF IInv, TypeOK, Publish
  <1> QED BY <1>3, <1>4, <1>5, <1>6 DEF MemoryInv, Keeping

(* Every step keeps within the memory budgets.                             *)
LEMMA StepMemory ==
  ASSUME IInv, IInv', MemoryInv, [Next]_vars
  PROVE  MemoryInv'
  <1>1. CASE UNCHANGED vars
    <2>1. SpendsNoMemory
      BY <1>1 DEF vars, SpendsNoMemory
    <2> QED BY <2>1, SparingKeepsMemory
  <1>2. ASSUME NEW r \in Requests, Progress(r) PROVE MemoryInv'
    <2>1. CASE SpendsNoMemory
      BY <2>1, SparingKeepsMemory
    <2>2. ASSUME NEW g \in Generations, NEW a \in 0 .. MaxClock,
                 BeginFill(r, g, a)
          PROVE  MemoryInv'
      BY <2>2, BeginFillKeepsMemory
    <2>3. ASSUME NEW e \in 1 .. MaxEncoded, FillBatch(r, e) PROVE MemoryInv'
      BY <2>3, FillBatchKeepsMemory
    <2>4. CASE Publish(r)
      BY <2>4, PublishKeepsMemory
    <2> QED BY <1>2, <2>1, <2>2, <2>3, <2>4, OthersSpareMemory DEF Progress
  <1>3. ASSUME NEW r \in Requests,
               \/ GiveUp(r) \/ CloseProvider(r) \/ RemovalFails(r)
               \/ \E k \in Keys : StartResolve(r, k) \/ StartInvalidate(r, k)
        PROVE  MemoryInv'
    BY <1>3, OthersSpareMemory, SparingKeepsMemory
  <1>4. ASSUME NEW t \in 0..MaxClock, ClockMoves(t) PROVE MemoryInv'
    <2>1. SpendsNoMemory
      BY <1>4 DEF ClockMoves, SpendsNoMemory, diskVars
    <2> QED BY <2>1, SparingKeepsMemory
  <1>5. ASSUME NEW m \in Managers, Crash(m) PROVE MemoryInv'
    BY <1>5, CrashSparesMemory, SparingKeepsMemory
  <1> QED BY <1>1, <1>2, <1>3, <1>4, <1>5 DEF Next

(* What a manager retains never decodes to more than max_memory_bytes,     *)
(* although a fill is admitted batch by batch and retained only when it is *)
(* published.                                                              *)
THEOREM MemoryBudget == Spec => []MemoryWithinBudget
  <1>1. Init => MemoryInv
    <2> SUFFICES ASSUME Init PROVE MemoryInv
      OBVIOUS
    <2>1. \A m \in Managers : memory[m] = {}
      BY DEF Init
    <2>2. \A m \in Managers : Units(Decoded, memory[m]) = {}
      BY <2>1 DEF Units
    <2>3. \A m \in Managers : DecodedOf(memory[m]) = 0
      BY <2>2, FS_EmptySet DEF DecodedOf, Decoded
    <2>4. \A r \in Requests : pc[r] \notin {"fill", "publish", "abort"}
      BY DEF Init
    <2>5. IsFiniteSet({}) /\ 0 <= MaxMemory
      BY FS_EmptySet, ConstantsAssumption DEF ConstantsAssumption
    <2> QED BY <2>2, <2>3, <2>4, <2>5 DEF MemoryInv, Keeping
  <1>2. IInv /\ IInv' /\ MemoryInv /\ [Next]_vars => MemoryInv'
    BY StepMemory
  <1>3. MemoryInv => MemoryWithinBudget
    BY DEF MemoryInv, MemoryWithinBudget
  <1> QED BY <1>1, <1>2, <1>3, Invariant, PTL DEF Spec

-----------------------------------------------------------------------------
(* Single flight.  What a pointer names gains no manifest, and keeps the   *)
(* one it has.                                                             *)
FilesAge ==
    \A k \in Keys :
        current[k] # None /\ dir'[current[k]] \in {"complete", "gutted"} =>
            HasManifest(current[k]) /\ info'[current[k]] = info[current[k]]

(* The pointer of a caller's key stays, or is taken away.                  *)
PointerAges(r) ==
    /\ key'[r] = key[r]
    /\ key[r] \in Keys
    /\ current'[key[r]] \in {current[key[r]], None}

(* Where the clock stands, files and pointers that age give no new hit.    *)
LEMMA AgingGivesNoHit ==
  ASSUME NEW r \in Requests, FilesAge, PointerAges(r), now' = now, ~Hit(r)
  PROVE  ~Hit(r)'
  <1>1. SUFFICES ASSUME current'[key[r]] = current[key[r]],
                        current[key[r]] # None,
                        HasManifest(current[key[r]])'
                 PROVE  ~Hit(r)'
    BY DEF Hit, PointerAges
  <1> QED BY <1>1 DEF Hit, HasManifest, Fresh, FilesAge, PointerAges

(* Files that pointers name are never written again: a fill owns its       *)
(* generation, and a cleanup only takes away.                              *)
LEMMA FilesOnlyAge ==
  ASSUME IInv, [Next]_vars
  PROVE  FilesAge
  <1> USE DEF IInv, TypeOK, FilesAge, HasManifest, diskVars
  <1>1. CASE UNCHANGED <<dir, info>>
    BY <1>1
  <1>2. ASSUME NEW r \in Requests, EvictScan(r) PROVE FilesAge
    BY <1>2 DEF EvictScan
  <1>3. ASSUME NEW r \in Requests, EvictRemove(r) PROVE FilesAge
    BY <1>3 DEF EvictRemove, GenInv, Owns
  <1>4. ASSUME NEW r \in Requests, NEW g \in Generations,
               NEW a \in 0 .. MaxClock, BeginFill(r, g, a)
        PROVE  FilesAge
    BY <1>4 DEF BeginFill, Unmentioned
  <1>5. ASSUME NEW r \in Requests, NEW e \in 1 .. MaxEncoded, FillBatch(r, e)
        PROVE  FilesAge
    BY <1>5 DEF FillBatch, GenInv, Owns
  <1>6. ASSUME NEW r \in Requests, WriteManifest(r) PROVE FilesAge
    BY <1>6 DEF WriteManifest, GenInv, Owns
  <1>7. ASSUME NEW r \in Requests, Abort(r) PROVE FilesAge
    BY <1>7 DEF Abort
  <1>8. ASSUME NEW r \in Requests, RemovalFails(r) PROVE FilesAge
    BY <1>8 DEF RemovalFails, Debris
  <1>9. ASSUME NEW m \in Managers, Crash(m) PROVE FilesAge
    BY <1>9 DEF Crash, Debris
  <1>10. ASSUME NEW r \in Requests,
                \/ CachedHit(r) \/ CachedMiss(r) \/ CachedError(r)
                \/ LockRefresh(r) \/ LockWriter(r) \/ EvictFull(r)
                \/ \E g \in Generations : EvictSkip(r, g) \/ EvictUnlink(r, g)
                \/ FillFails(r) \/ Publish(r) \/ PublishUnsynced(r)
                \/ Invalidate(r) \/ GiveUp(r) \/ CloseProvider(r)
                \/ \E k \in Keys : StartResolve(r, k) \/ StartInvalidate(r, k)
         PROVE  FilesAge
    <2>1. UNCHANGED <<dir, info>>
      BY <1>10 DEF CachedHit, CachedMiss, CachedError, LockRefresh, LockWriter,
         EvictFull, EvictSkip, EvictUnlink, FillFails, Publish,
         PublishUnsynced, Invalidate, GiveUp, CloseProvider, StartResolve,
         StartInvalidate
    <2> QED BY <2>1, <1>1
  <1>11. CASE UNCHANGED vars \/ \E t \in 0..MaxClock : ClockMoves(t)
    BY <1>11, <1>1 DEF vars, ClockMoves
  <1> QED
    BY <1>2, <1>3, <1>4, <1>5, <1>6, <1>7, <1>8, <1>9, <1>10, <1>11
    DEF Next, Progress

(* Past its second look a caller keeps its key to itself: whoever moves    *)
(* that key's pointer elsewhere must hold its refresh.lock.                *)
LEMMA PastKeepsPointer ==
  ASSUME IInv, [Next]_vars, NEW r \in Requests, pc[r] \in Past, pc'[r] \in Past
  PROVE  PointerAges(r)
  <1> USE DEF IInv, TypeOK, Past, Goto, PointerAges
  <1>1. key[r] \in Keys /\ refresh[key[r]] = r
    BY DEF KeyInv, Writing, Touching
  <1>2. ASSUME NEW q \in Requests,
               Publish(q) \/ PublishUnsynced(q) \/ Invalidate(q)
        PROVE  PointerAges(r)
    <2>1. q # r
      BY <1>2 DEF Publish, PublishUnsynced, Invalidate
    <2>2. key[q] # key[r]
      BY <1>1, <1>2, <2>1
      DEF KeyInv, Writing, Publish, PublishUnsynced, Invalidate
    <2> QED
      BY <1>1, <1>2, <2>1, <2>2
      DEF Publish, PublishUnsynced, Invalidate, ReturnProvider, Return
  <1>3. ASSUME NEW q \in Requests, NEW g \in Generations, EvictUnlink(q, g)
        PROVE  PointerAges(r)
    BY <1>1, <1>3 DEF EvictUnlink
  <1>4. ASSUME NEW q \in Requests,
               \/ CachedHit(q) \/ CachedMiss(q) \/ CachedError(q)
               \/ LockRefresh(q) \/ LockWriter(q)
               \/ GiveUp(q) \/ CloseProvider(q) \/ RemovalFails(q)
        PROVE  PointerAges(r)
    BY <1>1, <1>4 DEF CachedHit, CachedMiss, CachedError, LockRefresh,
       LockWriter, GiveUp, CloseProvider, RemovalFails, ReturnProvider, Return
  <1>5. ASSUME NEW q \in Requests,
               \/ EvictScan(q) \/ EvictRemove(q) \/ EvictFull(q)
               \/ \E g \in Generations : EvictSkip(q, g)
               \/ \E g \in Generations, a \in 0 .. MaxClock : BeginFill(q, g, a)
               \/ \E e \in 1 .. MaxEncoded : FillBatch(q, e)
               \/ FillFails(q) \/ WriteManifest(q) \/ Abort(q)
        PROVE  PointerAges(r)
    BY <1>1, <1>5 DEF EvictScan, EvictRemove, EvictFull, EvictSkip, BeginFill,
       FillBatch, FillFails, WriteManifest, Abort, Return
  <1>6. ASSUME NEW q \in Requests, NEW k \in Keys,
               StartResolve(q, k) \/ StartInvalidate(q, k)
        PROVE  PointerAges(r)
    BY <1>1, <1>6 DEF StartResolve, StartInvalidate
  <1>7. CASE UNCHANGED vars \/ \E t \in 0..MaxClock : ClockMoves(t)
    BY <1>1, <1>7 DEF vars, ClockMoves
  <1>8. ASSUME NEW m \in Managers, Crash(m) PROVE PointerAges(r)
    BY <1>1, <1>8 DEF Crash
  <1> QED
    BY <1>2, <1>3, <1>4, <1>5, <1>6, <1>7, <1>8 DEF Next, Progress

(* The only way past the second look is a miss.                            *)
LEMMA PastAfterMiss ==
  ASSUME IInv, [Next]_vars, NEW r \in Requests, pc[r] \notin Past,
         pc'[r] \in Past
  PROVE  ~Hit(r) /\ PointerAges(r)
  <1> USE DEF IInv, TypeOK, Past, Goto
  <1>1. CachedMiss(r)
    <2>1. \E q \in Requests : Progress(q)
      <3>1. ASSUME NEW q \in Requests,
                   GiveUp(q) \/ CloseProvider(q) \/ RemovalFails(q)
            PROVE  FALSE
        BY <3>1 DEF GiveUp, CloseProvider, RemovalFails, Return
      <3>2. ASSUME NEW q \in Requests, NEW k \in Keys,
                   StartResolve(q, k) \/ StartInvalidate(q, k)
            PROVE  FALSE
        BY <3>2 DEF StartResolve, StartInvalidate
      <3>3. ASSUME NEW m \in Managers, Crash(m) PROVE FALSE
        BY <3>3 DEF Crash
      <3>4. ~(UNCHANGED vars \/ \E t \in 0..MaxClock : ClockMoves(t))
        BY DEF vars, ClockMoves
      <3> QED BY <3>1, <3>2, <3>3, <3>4 DEF Next
    <2>2. ASSUME NEW q \in Requests, Progress(q) PROVE CachedMiss(r)
      <3>1. ASSUME NEW g \in Generations, EvictSkip(q, g) \/ EvictUnlink(q, g)
            PROVE  FALSE
        BY <3>1 DEF EvictSkip, EvictUnlink
      <3>2. ASSUME NEW g \in Generations, NEW a \in 0 .. MaxClock,
                   BeginFill(q, g, a)
            PROVE  FALSE
        BY <3>2 DEF BeginFill
      <3>3. ASSUME NEW e \in 1 .. MaxEncoded, FillBatch(q, e) PROVE FALSE
        BY <3>3 DEF FillBatch
      <3>4. ~(CachedHit(q) \/ CachedError(q) \/ LockRefresh(q) \/ LockWriter(q))
        BY DEF CachedHit, CachedError, LockRefresh, LockWriter, ReturnProvider,
           Return
      <3>5. ~(EvictScan(q) \/ EvictRemove(q) \/ EvictFull(q))
        BY DEF EvictScan, EvictRemove, EvictFull, Return
      <3>6. ~(\/ FillFails(q) \/ WriteManifest(q) \/ Publish(q)
              \/ PublishUnsynced(q) \/ Abort(q) \/ Invalidate(q))
        BY DEF FillFails, WriteManifest, Publish, PublishUnsynced, Abort,
           Invalidate, ReturnProvider, Return
      <3>7. CachedMiss(q) => q = r
        BY DEF CachedMiss
      <3> QED
        BY <2>2, <3>1, <3>2, <3>3, <3>4, <3>5, <3>6, <3>7 DEF Progress
    <2> QED BY <2>1, <2>2
  <1>2. key' = key /\ current' = current /\ key[r] \in Keys
    BY <1>1 DEF CachedMiss, KeyInv
  <1> QED BY <1>1, <1>2 DEF CachedMiss, Hit, Miss, PointerAges

(* While the clock stands no caller past its second look is given a        *)
(* generation it could have used: of the callers of a key that miss        *)
(* together, in any processes, one fetches and the others use its data.    *)
THEOREM OneFlight == Spec => SingleFlight
  <1>1. IInv /\ [Next]_vars =>
          [now' = now =>
             \A r \in Requests :
                pc'[r] \in Past /\ (pc[r] \in Past => ~Hit(r))
                   => ~Hit(r)']_vars
    <2> SUFFICES ASSUME IInv, [Next]_vars, now' = now,
                        NEW r \in Requests, pc'[r] \in Past,
                        pc[r] \in Past => ~Hit(r)
                 PROVE  ~Hit(r)'
      OBVIOUS
    <2>1. ~Hit(r) /\ PointerAges(r)
      BY PastKeepsPointer, PastAfterMiss
    <2> QED BY <2>1, FilesOnlyAge, AgingGivesNoHit
  <1> QED BY <1>1, Invariant, PTL DEF Spec, SingleFlight
=============================================================================
