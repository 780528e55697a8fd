--------------------- MODULE MaterializationRefinement ---------------------
(***************************************************************************)
(* The materialization cache implements the abstract snapshot store, for   *)
(* any number of processes, requests, keys and generations.                *)
(***************************************************************************)
EXTENDS MaterializationProofs

(* A generation that is being filled or published has no reader yet.       *)
RInv ==
    \A r \in Requests : pc[r] \in {"fill", "publish"} =>
        \A q \in Requests : pc[q] = "reading" => gen[q] # gen[r]

(* Readers come from nowhere and change nothing; some may be gone.         *)
FewerReaders ==
    \A q \in Requests : pc'[q] = "reading" =>
        pc[q] = "reading" /\ gen'[q] = gen[q] /\ tier'[q] = tier[q]

(* Nothing becomes visible, whole or read.                                 *)
Quiet ==
    /\ current' = current
    /\ \A g \in Generations : dir'[g] = "complete" => dir[g] = "complete"
    /\ FewerReaders

(* What a key or a reader reaches is available.                            *)
Reached ==
    /\ \A k \in Keys : current[k] # None => current[k] \in Available
    /\ \A q \in Requests : Held[q] # None => Held[q] \in Available

-----------------------------------------------------------------------------
(* A quiet step lets readers go and frees what nobody reaches: in the      *)
(* store it is one Release.                                                *)
LEMMA QuietIsRelease ==
  ASSUME ~SyncFailure, IInv, IInv', Quiet
  PROVE  Store!Next
  <1> DEFINE R == {q \in Requests : Held'[q] # Held[q]}
             G == Available \ Available'
  <1>1. Held' = [q \in Requests |-> IF q \in R THEN None ELSE Held[q]]
    BY DEF Quiet, FewerReaders, Held
  <1>2. Available' \subseteq Available
    BY DEF Quiet, FewerReaders, Available, Referenced
  <1>3. Reached'
    BY ConstantsAssumption
    DEF IInv, TypeOK, GenInv, CurrentInv, ReadersInv, ReadersKeepTheirFiles,
        Available, Referenced, Held, Reached, ConstantsAssumption
  <1>4. None \notin Available
    BY ConstantsAssumption DEF Available, ConstantsAssumption
  <1>5. Store!Release(R, G)
    <2>1. G \cap Store!Reachable(current, Held') = {}
      BY <1>3, <1>4 DEF Store!Reachable, Quiet, Reached
    <2> QED BY <1>1, <1>2, <2>1 DEF Store!Release, Quiet
  <1>6. R \in SUBSET Requests /\ G \in SUBSET Available
    OBVIOUS
  <1> QED BY <1>5, <1>6 DEF Store!Next

(* Steps of a call that no reader can see.                                 *)
LEMMA QuietProgress ==
  ASSUME IInv, NEW r \in Requests
  PROVE  /\ CachedMiss(r) \/ CachedError(r) => Quiet
         /\ LockRefresh(r) \/ LockWriter(r) => Quiet
         /\ EvictScan(r) \/ EvictRemove(r) \/ EvictFull(r) => Quiet
         /\ \A g \in Generations : EvictSkip(r, g) => Quiet
         /\ \A g \in Generations, a \in 0..MaxClock :
               BeginFill(r, g, a) => Quiet
         /\ \A e \in 1..MaxEncoded : FillBatch(r, e) => Quiet
         /\ FillFails(r) \/ Abort(r) => Quiet
  <1>1. CachedMiss(r) \/ CachedError(r) => Quiet
    BY DEF IInv, TypeOK, Quiet, FewerReaders, CachedMiss, CachedError, Return,
       Goto, diskVars
  <1>2. LockRefresh(r) \/ LockWriter(r) => Quiet
    BY DEF IInv, TypeOK, Quiet, FewerReaders, LockRefresh, LockWriter, Goto,
       diskVars
  <1>3. EvictScan(r) \/ EvictRemove(r) \/ EvictFull(r) => Quiet
    BY DEF IInv, TypeOK, Quiet, FewerReaders, EvictScan, EvictRemove,
       EvictFull, Return, Goto, diskVars
  <1>4. \A g \in Generations : EvictSkip(r, g) => Quiet
    BY DEF Quiet, FewerReaders, EvictSkip, diskVars
  <1>5. \A g \in Generations, a \in 0..MaxClock : BeginFill(r, g, a) => Quiet
    BY DEF IInv, TypeOK, Quiet, FewerReaders, BeginFill, Goto
  <1>6. \A e \in 1..MaxEncoded : FillBatch(r, e) => Quiet
    BY DEF Quiet, FewerReaders, FillBatch
  <1>7. FillFails(r) \/ Abort(r) => Quiet
    BY DEF IInv, TypeOK, Quiet, FewerReaders, FillFails, Abort, Return, Goto,
       diskVars
  <1> QED BY <1>1, <1>2, <1>3, <1>4, <1>5, <1>6, <1>7

(* What callers and the environment do that no new reader can see.         *)
LEMMA QuietOthers ==
  ASSUME IInv
  PROVE  /\ \A r \in Requests :
               GiveUp(r) \/ CloseProvider(r) \/ RemovalFails(r) => Quiet
         /\ \A r \in Requests, k \in Keys :
               StartResolve(r, k) \/ StartInvalidate(r, k) => Quiet
         /\ \A t \in 0..MaxClock : ClockMoves(t) => Quiet
         /\ \A m \in Managers : Crash(m) => Quiet
  <1>1. \A r \in Requests :
           GiveUp(r) \/ CloseProvider(r) \/ RemovalFails(r) => Quiet
    BY DEF IInv, TypeOK, Quiet, FewerReaders, GiveUp, CloseProvider,
       RemovalFails, Debris, HasManifest, Return, Goto, diskVars
  <1>2. \A r \in Requests, k \in Keys :
           StartResolve(r, k) \/ StartInvalidate(r, k) => Quiet
    BY DEF IInv, TypeOK, Quiet, FewerReaders, StartResolve, StartInvalidate,
       Goto, diskVars
  <1>3. \A t \in 0..MaxClock : ClockMoves(t) => Quiet
    BY DEF Quiet, FewerReaders, ClockMoves, diskVars
  <1>4. \A m \in Managers : Crash(m) => Quiet
    BY DEF IInv, TypeOK, Quiet, FewerReaders, Crash, Debris, HasManifest
  <1> QED BY <1>1, <1>2, <1>3, <1>4

(* A step that leaves readers and directories alone changes the store's    *)
(* state only through its pointers.                                        *)
LEMMA SameReaders ==
  ASSUME dir' = dir,
         \A q \in Requests : pc'[q] = "reading" <=> pc[q] = "reading",
         \A q \in Requests : pc[q] = "reading" =>
             gen'[q] = gen[q] /\ tier'[q] = tier[q]
  PROVE  Held' = Held /\ Available' = Available
  <1>1. Held' = Held
    BY DEF Held
  <1>2. Available' = Available
    BY DEF Available, Referenced
  <1> QED BY <1>1, <1>2

-----------------------------------------------------------------------------
(* A hit opens the visible snapshot of its key.                            *)
LEMMA CachedHitOpens ==
  ASSUME ~SyncFailure, IInv, NEW r \in Requests, CachedHit(r)
  PROVE  Store!Next
  <1>1. /\ key[r] \in Keys
        /\ current[key[r]] # None
        /\ current[key[r]] \in Generations
        /\ dir[current[key[r]]] = "complete"
    BY DEF IInv, TypeOK, KeyInv, CurrentInv, CachedHit, Hit
  <1>2. /\ Held[r] = None
        /\ Held' = [Held EXCEPT ![r] = current[key[r]]]
    BY DEF IInv, TypeOK, CachedHit, ReturnProvider, Goto, Held
  <1>3. Available' = Available
    BY <1>1 DEF IInv, TypeOK, CachedHit, ReturnProvider, Goto, Available,
       Referenced, diskVars
  <1>4. Store!Open(r, key[r])
    BY <1>1, <1>2, <1>3 DEF Store!Open, CachedHit
  <1> QED BY <1>1, <1>4 DEF Store!Next

(* Eviction withdraws a snapshot that is still visible; its readers keep   *)
(* it until they let go.                                                   *)
LEMMA EvictUnlinkWithdraws ==
  ASSUME IInv, NEW r \in Requests, NEW g \in Generations, EvictUnlink(r, g)
  PROVE  Store!Next \/ UNCHANGED Store!vars
  <1>1. Held' = Held /\ Available' = Available
    BY SameReaders DEF IInv, TypeOK, EvictUnlink, Goto, diskVars
  <1>2. CASE info[g].key \in Keys /\ current[info[g].key] = g
    <2>1. Store!Withdraw(info[g].key)
      BY <1>1, <1>2 DEF EvictUnlink, Store!Withdraw
    <2> QED BY <1>2, <2>1 DEF Store!Next
  <1>3. CASE ~(info[g].key \in Keys /\ current[info[g].key] = g)
    <2>1. current' = current
      BY <1>3 DEF IInv, TypeOK, EvictUnlink
    <2> QED BY <1>1, <2>1 DEF Store!vars
  <1> QED BY <1>2, <1>3

(* The manifest makes a snapshot whole that nobody can reach.              *)
LEMMA WriteManifestCompletes ==
  ASSUME IInv, RInv, NEW r \in Requests, WriteManifest(r)
  PROVE  Store!Next
  <1> DEFINE g == gen[r]
  <1>1. g \in Generations /\ dir[g] = "partial"
    BY DEF IInv, GenInv, WriteManifest, Touching
  <1>2. \A k \in Keys : current[k] # g
    BY DEF IInv, GenInv, Owns, WriteManifest, Touching
  <1>3. \A q \in Requests : Held[q] # g
    BY <1>1, ConstantsAssumption
    DEF RInv, WriteManifest, Held, ConstantsAssumption
  <1>4. g \notin Available
    BY <1>1, <1>3 DEF Available, Referenced, Held
  <1>5. Held' = Held
    BY DEF IInv, TypeOK, WriteManifest, Goto, Held
  <1>6. Available' = Available \cup {g}
    BY <1>1 DEF IInv, TypeOK, WriteManifest, Goto, Available, Referenced
  <1>7. Store!Complete(g)
    BY <1>2, <1>3, <1>4, <1>5, <1>6
    DEF Store!Complete, Store!Reachable, WriteManifest
  <1> QED BY <1>1, <1>7 DEF Store!Next

(* The rename publishes a whole snapshot nobody could reach, and its maker *)
(* reads it.                                                               *)
LEMMA PublishPublishes ==
  ASSUME IInv, RInv, NEW r \in Requests, Publish(r)
  PROVE  Store!Next
  <1> DEFINE g == gen[r]
  <1>1. g \in Generations /\ dir[g] = "complete" /\ key[r] \in Keys
    BY DEF IInv, GenInv, KeyInv, Publish
  <1>2. \A k \in Keys : current[k] # g
    BY DEF IInv, GenInv, Owns, Publish
  <1>3. \A q \in Requests : Held[q] # g
    BY <1>1, ConstantsAssumption
    DEF RInv, Publish, Held, ConstantsAssumption
  <1>4. Held[r] = None /\ Held' = [Held EXCEPT ![r] = g]
    BY DEF IInv, TypeOK, Publish, ReturnProvider, Goto, Held
  <1>5. Available' = Available /\ g \in Available
    BY <1>1 DEF IInv, TypeOK, Publish, ReturnProvider, Goto, Available,
       Referenced, diskVars
  <1>6. Store!Publish(r, key[r], g)
    BY <1>2, <1>3, <1>4, <1>5 DEF Store!Publish, Store!Reachable, Publish
  <1> QED BY <1>1, <1>6 DEF Store!Next

(* Invalidation withdraws the visible snapshot of its key.                 *)
LEMMA InvalidateWithdraws ==
  ASSUME IInv, NEW r \in Requests, Invalidate(r)
  PROVE  Store!Next
  <1>1. Held' = Held /\ Available' = Available
    BY SameReaders DEF IInv, TypeOK, Invalidate, Return, Goto, diskVars
  <1>2. key[r] \in Keys
    BY DEF IInv, KeyInv, Invalidate
  <1>3. Store!Withdraw(key[r])
    BY <1>1 DEF Invalidate, Store!Withdraw
  <1> QED BY <1>2, <1>3 DEF Store!Next

-----------------------------------------------------------------------------
(* The fills that run after a step are those that ran before it.           *)
SameFills ==
    \A q \in Requests : pc'[q] \in {"fill", "publish"} =>
        pc[q] \in {"fill", "publish"} /\ gen'[q] = gen[q]

(* Without a new reader or a new fill, no reader meets a fill.             *)
LEMMA QuietKeepsRInv ==
  ASSUME RInv, FewerReaders, SameFills
  PROVE  RInv'
  BY DEF RInv, FewerReaders, SameFills

(* No call's own progress lets a reader at an unpublished generation: new  *)
(* readers get what is current, or what they publish themselves.           *)
LEMMA ProgressRInv ==
  ASSUME ~SyncFailure, IInv, RInv, NEW r \in Requests, Progress(r)
  PROVE  RInv'
  <1> USE DEF IInv, TypeOK, Goto
  <1>1. CASE CachedHit(r)
    <2>1. SameFills /\ pc[r] \notin {"fill", "publish"}
      BY <1>1 DEF SameFills, CachedHit, ReturnProvider
    <2>2. /\ key[r] \in Keys
          /\ gen'[r] = current[key[r]]
      BY <1>1 DEF KeyInv, CachedHit, ReturnProvider
    <2>3. \A q \in Requests : pc[q] \in {"fill", "publish"} =>
             gen[q] # current[key[r]]
      BY <2>2 DEF GenInv, Owns, Touching
    <2>4. \A q \in Requests \ {r} : pc'[q] = "reading" =>
             pc[q] = "reading" /\ gen'[q] = gen[q]
      BY <1>1 DEF CachedHit, ReturnProvider
    <2> QED BY <2>1, <2>2, <2>3, <2>4 DEF SameFills, RInv
  <1>2. CASE CachedMiss(r) \/ CachedError(r)
    <2>1. SameFills
      BY <1>2 DEF SameFills, CachedMiss, CachedError, Return
    <2> QED BY <1>2, <2>1, QuietProgress, QuietKeepsRInv DEF Quiet
  <1>3. CASE LockRefresh(r) \/ LockWriter(r)
    <2>1. SameFills
      BY <1>3 DEF SameFills, LockRefresh, LockWriter
    <2> QED BY <1>3, <2>1, QuietProgress, QuietKeepsRInv DEF Quiet
  <1>4. CASE EvictScan(r) \/ EvictRemove(r) \/ EvictFull(r)
    <2>1. SameFills
      BY <1>4 DEF SameFills, EvictScan, EvictRemove, EvictFull, Return
    <2> QED BY <1>4, <2>1, QuietProgress, QuietKeepsRInv DEF Quiet
  <1>5. ASSUME NEW g \in Generations, EvictSkip(r, g) \/ EvictUnlink(r, g)
        PROVE  RInv'
    BY <1>5 DEF RInv, EvictSkip, EvictUnlink
  <1>6. ASSUME NEW g \in Generations, NEW a \in 0..MaxClock,
               BeginFill(r, g, a)
        PROVE  RInv'
    BY <1>6 DEF RInv, BeginFill, Unmentioned
  <1>7. ASSUME NEW e \in 1..MaxEncoded, FillBatch(r, e) PROVE RInv'
    BY <1>7 DEF RInv, FillBatch
  <1>8. CASE FillFails(r) \/ Abort(r)
    <2>1. SameFills
      BY <1>8 DEF SameFills, FillFails, Abort, Return
    <2> QED BY <1>8, <2>1, QuietProgress, QuietKeepsRInv DEF Quiet
  <1>9. CASE WriteManifest(r)
    BY <1>9 DEF RInv, WriteManifest
  <1>10. CASE Publish(r)
    <2>1. \A q \in Requests : pc'[q] \notin {"fill", "publish"}
      BY <1>10, ConstantsAssumption
      DEF LockInv, Writing, Touching, Publish, ReturnProvider
    <2> QED BY <2>1 DEF RInv
  <1>11. CASE Invalidate(r)
    BY <1>11 DEF RInv, Invalidate, Return
  <1>12. ~PublishUnsynced(r)
    BY DEF PublishUnsynced
  <1> QED
    BY <1>1, <1>2, <1>3, <1>4, <1>5, <1>6, <1>7, <1>8, <1>9, <1>10, <1>11,
       <1>12
    DEF Progress

(* No step lets a reader at an unpublished generation.                     *)
LEMMA StepRInv ==
  ASSUME ~SyncFailure, IInv, RInv, [Next]_vars
  PROVE  RInv'
  <1> USE DEF IInv, TypeOK, Goto
  <1>1. CASE UNCHANGED vars
    BY <1>1 DEF RInv, vars
  <1>2. ASSUME NEW r \in Requests, Progress(r) PROVE RInv'
    BY <1>2, ProgressRInv
  <1>3. ASSUME NEW r \in Requests,
               GiveUp(r) \/ CloseProvider(r) \/ RemovalFails(r)
        PROVE  RInv'
    <2>1. SameFills
      BY <1>3 DEF SameFills, GiveUp, CloseProvider, RemovalFails, Return
    <2> QED BY <1>3, <2>1, QuietOthers, QuietKeepsRInv DEF Quiet
  <1>4. ASSUME NEW r \in Requests, NEW k \in Keys,
               StartResolve(r, k) \/ StartInvalidate(r, k)
        PROVE  RInv'
    <2>1. SameFills
      BY <1>4 DEF SameFills, StartResolve, StartInvalidate
    <2> QED BY <1>4, <2>1, QuietOthers, QuietKeepsRInv DEF Quiet
  <1>5. ASSUME NEW t \in 0..MaxClock, ClockMoves(t) PROVE RInv'
    BY <1>5 DEF RInv, ClockMoves
  <1>6. ASSUME NEW m \in Managers, Crash(m) PROVE RInv'
    <2>1. SameFills
      BY <1>6 DEF SameFills, Crash
    <2> QED BY <1>6, <2>1, QuietOthers, QuietKeepsRInv DEF Quiet
  <1> QED BY <1>1, <1>2, <1>3, <1>4, <1>5, <1>6 DEF Next

-----------------------------------------------------------------------------
(* A step of a call is a step of the store, or one no reader can see.      *)
LEMMA ProgressRefines ==
  ASSUME ~SyncFailure, IInv, IInv', RInv, NEW r \in Requests, Progress(r)
  PROVE  Store!Next \/ UNCHANGED Store!vars
  <1>1. CASE Quiet
    BY <1>1, QuietIsRelease
  <1>2. CASE CachedHit(r) \/ WriteManifest(r) \/ Publish(r) \/ Invalidate(r)
    BY <1>2, CachedHitOpens, WriteManifestCompletes, PublishPublishes,
       InvalidateWithdraws
  <1>3. ASSUME NEW g \in Generations, EvictUnlink(r, g)
        PROVE  Store!Next \/ UNCHANGED Store!vars
    BY <1>3, EvictUnlinkWithdraws
  <1>4. ~PublishUnsynced(r)
    BY DEF PublishUnsynced
  <1> QED BY <1>1, <1>2, <1>3, <1>4, QuietProgress DEF Progress

(* Every step of the design is a step of the store, or one no reader sees. *)
LEMMA StepRefines ==
  ASSUME ~SyncFailure, IInv, IInv', RInv, [Next]_vars
  PROVE  Store!Next \/ UNCHANGED Store!vars
  <1>1. CASE UNCHANGED vars
    <2>1. Held' = Held /\ Available' = Available
      BY <1>1, SameReaders DEF vars
    <2> QED BY <1>1, <2>1 DEF vars, Store!vars
  <1>2. ASSUME NEW r \in Requests, Progress(r)
        PROVE  Store!Next \/ UNCHANGED Store!vars
    BY <1>2, ProgressRefines
  <1>3. CASE Quiet
    BY <1>3, QuietIsRelease
  <1> QED BY <1>1, <1>2, <1>3, QuietOthers DEF Next

(* The cache, with its locks, leases, fills, evictions and deaths, is an   *)
(* atomic snapshot store to its readers.                                   *)
THEOREM Refinement ==
  ASSUME ~SyncFailure
  PROVE  Spec => ImplementsStore
  <1>1. Init => RInv
    BY DEF Init, RInv
  <1>2. IInv /\ RInv /\ [Next]_vars => RInv'
    BY StepRInv
  <1>3. Init => Store!Init
    BY DEF Init, Store!Init, Available, Referenced, Held
  <1>4. IInv /\ IInv' /\ RInv /\ [Next]_vars => [Store!Next]_Store!vars
    BY StepRefines
  <1> QED
    BY <1>1, <1>2, <1>3, <1>4, Invariant, PTL
    DEF Spec, ImplementsStore, Store!Spec
=============================================================================
