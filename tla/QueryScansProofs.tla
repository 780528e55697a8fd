-------------------------- MODULE QueryScansProofs --------------------------
(***************************************************************************)
(* Proofs about the scans of queries: for every number of queries, tasks   *)
(* and tables, cancel() reaches who waits and is final, charges add up to  *)
(* the counter, admissions and permits are neither leaked nor given back   *)
(* twice, one scan of a table goes cold at a time and providers have the   *)
(* schema their table recorded; and a scan that is polled and dropped by   *)
(* run() behaves as run() and the deferred providers do on their own.      *)
(***************************************************************************)
EXTENDS QueryScans, FiniteSetTheorems, TLAPS

-----------------------------------------------------------------------------
(* Cancellation.  A task between enable() and its check is signalled, too, *)
(* once cancel() is through, or it has yet to find the flag.               *)
WakeInv ==
    /\ runs \in [Tasks -> {"idle", "enabled", "waiting", "polling"}]
    /\ signalled \in [Tasks -> BOOLEAN]
    /\ cancelling \in [Queries -> {"no", "stored", "done"}]
    /\ cancelled \in [Queries -> BOOLEAN]
    /\ \A q \in Queries : cancelling[q] # "no" => cancelled[q]
    /\ NoWakeupIsLost

LEMMA InitWakes == QueryInit => WakeInv
  BY QueryAssumption DEF QueryInit, WakeInv, NoWakeupIsLost

(* cancel() stores the flag before it wakes those who have registered.     *)
LEMMA CancelWakes ==
  ASSUME WakeInv, NEW q \in Queries, CancelOrExpire(q)
  PROVE  WakeInv'
  <1> USE QueryAssumption DEF WakeInv, NoWakeupIsLost, runVars
  <1>1. CASE StoreCancel(q)
    BY <1>1 DEF StoreCancel
  <1>2. CASE NotifyWaiters(q)
    BY <1>2 DEF NotifyWaiters, Registered
  <1>3. CASE Expire(q)
    BY <1>3 DEF Expire
  <1> QED BY <1>1, <1>2, <1>3 DEF CancelOrExpire

RunStep(t) ==
    \/ Enable(t) \/ RefuseRun(t) \/ Wait(t)
    \/ Wake(t) \/ Poll(t) \/ Pend(t) \/ Complete(t) \/ TimeOut(t)

(* A task waits only after it found no flag, so cancel() is not through.   *)
LEMMA RunWakes ==
  ASSUME WakeInv, NEW t \in Tasks, RunStep(t)
  PROVE  WakeInv'
  <1> USE QueryAssumption DEF WakeInv, NoWakeupIsLost, cancelVars, RunGoes
  <1>1. CASE Enable(t)
    BY <1>1 DEF Enable
  <1>2. CASE Wait(t)
    BY <1>2 DEF Wait, MayGoOn
  <1>3. CASE Poll(t) \/ Pend(t)
    BY <1>3 DEF Poll, Pend
  <1>4. CASE RefuseRun(t) \/ Wake(t) \/ Complete(t) \/ TimeOut(t)
    BY <1>4 DEF RefuseRun, Wake, Complete, TimeOut
  <1> QED BY <1>1, <1>2, <1>3, <1>4 DEF RunStep

LEMMA WakeStays == WakeInv /\ UNCHANGED <<cancelled, cancelling, runVars>> => WakeInv'
  BY DEF WakeInv, NoWakeupIsLost, runVars

LEMMA ChargesWakeNobody ==
  ASSUME NEW p \in Partitions, ChargeStep(p)
  PROVE  UNCHANGED <<cancelled, cancelling, runVars>>
  BY DEF ChargeStep, StartCharge, Load, Exchange, Exhaust, cancelVars

LEMMA NextWakes == WakeInv /\ [QueryNext]_queryVars => WakeInv'
  <1> SUFFICES ASSUME WakeInv, [QueryNext]_queryVars PROVE WakeInv'
    OBVIOUS
  <1>1. CASE \E q \in Queries : CancelOrExpire(q)
    BY <1>1, CancelWakes
  <1>2. CASE \E t \in Tasks : RunStep(t)
    BY <1>2, RunWakes
  <1>3. CASE \E p \in Partitions : ChargeStep(p)
    BY <1>3, ChargesWakeNobody, WakeStays
  <1>4. CASE UNCHANGED queryVars
    BY <1>4, WakeStays DEF queryVars, cancelVars
  <1> QED BY <1>1, <1>2, <1>3, <1>4 DEF QueryNext, RunStep

(* A cancel() that comes between the check of run() and its wait still     *)
(* wakes it.                                                               *)
THEOREM CancelReachesWaiters == QuerySpec => []NoWakeupIsLost
  <1>1. WakeInv => NoWakeupIsLost
    BY DEF WakeInv
  <1> QED BY <1>1, InitWakes, NextWakes, PTL DEF QuerySpec

(* An operation is polled from the wait, and only by who is not signalled. *)
LEMMA PollsUnsignalled ==
  ASSUME NEW t \in Tasks, [QueryNext]_queryVars, WakeInv,
         runs'[t] = "polling", runs[t] # "polling"
  PROVE  runs[t] = "waiting" /\ ~signalled[t]
  <1>1. \A p \in Partitions : ~ChargeStep(p)
    BY ChargesWakeNobody DEF runVars
  <1>2. \A q \in Queries : ~CancelOrExpire(q)
    BY DEF CancelOrExpire, StoreCancel, NotifyWaiters, Expire, runVars
  <1>3. PICK u \in Tasks : RunStep(u)
    BY <1>1, <1>2 DEF QueryNext, RunStep, queryVars, runVars
  <1> USE DEF WakeInv, RunGoes
  <1>4. CASE Poll(u)
    BY <1>4 DEF Poll
  <1>5. CASE Enable(u) \/ RefuseRun(u) \/ Wait(u) \/ Wake(u)
    BY <1>5 DEF Enable, RefuseRun, Wait, Wake
  <1>6. CASE Pend(u) \/ Complete(u) \/ TimeOut(u)
    BY <1>6 DEF Pend, Complete, TimeOut
  <1> QED BY <1>3, <1>4, <1>5, <1>6 DEF RunStep

(* Once cancel() has returned no operation of its query is polled again.   *)
THEOREM CancelledStays == QuerySpec => CancelIsFinal
  <1>1. WakeInv /\ [QueryNext]_queryVars =>
            [\A t \in Tasks : runs'[t] = "polling" /\ runs[t] # "polling"
                 => cancelling[Owner[t]] # "done"]_queryVars
    BY PollsUnsignalled DEF WakeInv, NoWakeupIsLost
  <1> QED BY <1>1, InitWakes, NextWakes, PTL DEF QuerySpec, CancelIsFinal

-----------------------------------------------------------------------------
(* The counters keep their type: the sum that is stored has not wrapped.   *)

LEMMA AskedFits ==
  ASSUME QueryTypeOK, NEW p \in Partitions
  PROVE  asked[p] \in 0..MaxUsize
  <1>1. asked[p] \in Amounts \cup {0}
    BY DEF QueryTypeOK
  <1>2. MaxUsize \in Nat /\ Amounts \subseteq 0..MaxUsize
    BY QueryAssumption
  <1>3. 0 \in 0..MaxUsize
    BY <1>2
  <1> QED BY <1>1, <1>2, <1>3

LEMMA ChargeTypes ==
  ASSUME QueryTypeOK, NEW p \in Partitions, ChargeStep(p)
  PROVE  QueryTypeOK'
  <1> USE QueryAssumption DEF QueryTypeOK, cancelVars, runVars
  <1>1. CASE \E n \in Amounts : StartCharge(p, n)
    BY <1>1 DEF StartCharge
  <1>2. CASE Load(p)
    BY <1>2 DEF Load
  <1>3. CASE Exchange(p)
    <2>1. asked[p] \in 0..MaxUsize
      BY AskedFits
    <2>2. seen[p] \in 0..MaxUsize /\ charged[p] \in Nat
      OBVIOUS
    <2>3. seen[p] + asked[p] <= MaxUsize
      BY <1>3 DEF Exchange, Affordable
    <2>4. seen[p] + asked[p] \in 0..MaxUsize /\ charged[p] + asked[p] \in Nat
      BY <2>1, <2>2, <2>3
    <2> QED BY <1>3, <2>4 DEF Exchange
  <1>4. CASE Exhaust(p)
    BY <1>4 DEF Exhaust
  <1> QED BY <1>1, <1>2, <1>3, <1>4 DEF ChargeStep

LEMMA OtherTypes ==
  ASSUME QueryTypeOK,
         \/ \E q \in Queries : CancelOrExpire(q)
         \/ \E t \in Tasks : RunStep(t)
  PROVE  QueryTypeOK'
  <1> USE QueryAssumption DEF QueryTypeOK, runVars, chargeVars, cancelVars
  <1>1. ASSUME NEW q \in Queries, CancelOrExpire(q) PROVE QueryTypeOK'
    <2>1. CASE StoreCancel(q)
      BY <2>1 DEF StoreCancel
    <2>2. CASE NotifyWaiters(q)
      <3>1. signalled' \in [Tasks -> BOOLEAN]
        BY <2>2 DEF NotifyWaiters
      <3> QED BY <2>2, <3>1 DEF NotifyWaiters
    <2>3. CASE Expire(q)
      BY <2>3 DEF Expire
    <2> QED BY <1>1, <2>1, <2>2, <2>3 DEF CancelOrExpire
  <1>2. ASSUME NEW t \in Tasks, RunStep(t) PROVE QueryTypeOK'
    <2>1. CASE Enable(t)
      BY <2>1 DEF Enable
    <2>2. ASSUME NEW to \in {"idle", "enabled", "waiting", "polling"}, RunGoes(t, to)
          PROVE  QueryTypeOK'
      BY <2>2 DEF RunGoes
    <2> QED BY <1>2, <2>1, <2>2 DEF RunStep, RefuseRun, Wait, Wake, Poll, Pend, Complete, TimeOut
  <1> QED BY <1>1, <1>2

LEMMA InitTypes == QueryInit => QueryTypeOK
  BY QueryAssumption DEF QueryInit, QueryTypeOK

LEMMA NextTypes == QueryTypeOK /\ [QueryNext]_queryVars => QueryTypeOK'
  <1> SUFFICES ASSUME QueryTypeOK, [QueryNext]_queryVars PROVE QueryTypeOK'
    OBVIOUS
  <1>1. CASE UNCHANGED queryVars
    BY <1>1 DEF QueryTypeOK, queryVars, cancelVars, runVars, chargeVars
  <1>2. CASE QueryNext
    BY <1>2, ChargeTypes, OtherTypes DEF QueryNext, RunStep
  <1> QED BY <1>1, <1>2

(* The state of run(), cancel() and charge() has its type.                 *)
THEOREM QueryTypes == QuerySpec => []QueryTypeOK
  BY InitTypes, NextTypes, PTL DEF QuerySpec

(* As many numbers as numbers with a mark.                                 *)
LEMMA Marked ==
  ASSUME NEW u, NEW row, IsFiniteSet(row)
  PROVE  IsFiniteSet({u} \X row) /\ Cardinality({u} \X row) = Cardinality(row)
  <1> DEFINE pairs == {u} \X row
             mark == [i \in row |-> <<u, i>>]
  <1>1. mark \in Bijection(row, pairs)
    <2>1. mark \in [row -> pairs]
      OBVIOUS
    <2>2. \A i, j \in row : mark[i] = mark[j] => i = j
      OBVIOUS
    <2>3. \A v \in pairs : \E i \in row : mark[i] = v
      OBVIOUS
    <2> QED BY <2>1, <2>2, <2>3 DEF Bijection, Injection, Surjection, IsInjective
  <1>2. ExistsBijection(row, pairs)
    BY <1>1 DEF ExistsBijection
  <1> HIDE DEF pairs
  <1>3. IsFiniteSet(pairs) /\ Cardinality(pairs) = Cardinality(row)
    BY <1>2, FS_Bijection
  <1> QED BY <1>3 DEF pairs

-----------------------------------------------------------------------------
(* Charges.  The bytes of a query are those of its partitions, each with a *)
(* number of its own.                                                      *)
OwnBytes(q) == UNION {BytesFrom(p) : p \in {p \in Partitions : Owner[p] = q}}

ChargeInv ==
    /\ QueryTypeOK
    /\ \A q \in Queries : IsFiniteSet(OwnBytes(q))
    /\ ChargesAddUp

LEMMA InitCharges == QueryInit => ChargeInv
  <1> SUFFICES ASSUME QueryInit PROVE ChargeInv
    OBVIOUS
  <1>1. QueryTypeOK
    BY InitTypes
  <1>2. \A q \in Queries : OwnBytes(q) = {}
    <2>1. \A p \in Partitions : charged[p] = 0
      BY DEF QueryInit
    <2> QED BY <2>1 DEF OwnBytes, BytesFrom
  <1>3. \A q \in Queries : ChargesOf(q) = 0 /\ IsFiniteSet(OwnBytes(q))
    BY <1>2, FS_EmptySet DEF ChargesOf, OwnBytes
  <1>4. \A q \in Queries : spent[q] = 0
    BY DEF QueryInit
  <1>5. 0 <= Budget
    BY QueryAssumption
  <1> QED BY <1>1, <1>3, <1>4, <1>5 DEF ChargeInv, ChargesAddUp

(* What does not charge changes no bytes.                                  *)
LEMMA NothingCharged ==
  ASSUME ChargeInv, QueryTypeOK', UNCHANGED <<spent, charged>>
  PROVE  ChargeInv'
  BY DEF ChargeInv, ChargesAddUp, ChargesOf, OwnBytes, BytesFrom

(* An exchange that succeeds adds the bytes it asked for, and nobody has   *)
(* come between since it compared the sum with the budget.                 *)
LEMMA ExchangeCharges ==
  ASSUME ChargeInv, NEW p \in Partitions, Exchange(p)
  PROVE  ChargeInv'
  <1> DEFINE q == Owner[p]
             n == asked[p]
             new == {p} \X ((charged[p] + 1)..(charged[p] + n))
  <1>1. QueryTypeOK'
    BY ChargeTypes DEF ChargeInv, ChargeStep
  <1>2. /\ q \in Queries /\ n \in Nat /\ charged \in [Partitions -> Nat]
        /\ spent \in [Queries -> 0..MaxUsize] /\ Budget \in Nat /\ MaxUsize \in Nat
    BY QueryAssumption, AskedFits DEF ChargeInv, QueryTypeOK
  <1>3. /\ spent' = [spent EXCEPT ![q] = seen[p] + n] /\ spent[q] = seen[p]
        /\ charged' = [charged EXCEPT ![p] = @ + n] /\ seen[p] + n <= Budget
    BY DEF Exchange, Affordable
  <1>4. BytesFrom(p)' = BytesFrom(p) \cup new /\ BytesFrom(p) \cap new = {}
    <2>1. charged[p] \in Nat /\ charged'[p] = charged[p] + n
      BY <1>2, <1>3
    <2>2. 1..(charged[p] + n) = (1..charged[p]) \cup ((charged[p] + 1)..(charged[p] + n))
      BY <1>2, <2>1
    <2> QED BY <1>2, <2>1, <2>2 DEF BytesFrom
  <1>5. \A r \in Partitions \ {p} : BytesFrom(r)' = BytesFrom(r) /\ BytesFrom(r) \cap new = {}
    BY <1>2, <1>3 DEF BytesFrom
  <1>6. OwnBytes(q)' = OwnBytes(q) \cup new /\ OwnBytes(q) \cap new = {}
    BY <1>4, <1>5 DEF OwnBytes
  <1>7. \A r \in Queries \ {q} : OwnBytes(r)' = OwnBytes(r)
    BY <1>5 DEF OwnBytes
  <1>8. IsFiniteSet(new) /\ Cardinality(new) = n
    <2>1. PICK k \in Nat : k = charged[p]
      BY <1>2
    <2>2. PICK m \in Nat : m = n
      BY <1>2
    <2> DEFINE row == (k + 1)..(k + m)
    <2>3. IsFiniteSet(row) /\ Cardinality(row) = m
      BY FS_Interval
    <2>4. new = {p} \X row
      BY <2>1, <2>2
    <2> HIDE DEF row, new
    <2> QED BY <2>2, <2>3, <2>4, Marked
  <1>9. /\ IsFiniteSet(OwnBytes(q)) /\ spent[q] = Cardinality(OwnBytes(q))
    BY <1>2 DEF ChargeInv, ChargesAddUp, ChargesOf, OwnBytes
  <1>10. IsFiniteSet(OwnBytes(q) \cup new) /\ Cardinality(OwnBytes(q) \cup new) = spent[q] + n
    <2> HIDE DEF new, q, n
    <2>1. Cardinality(OwnBytes(q) \cap new) = 0
      BY <1>6, FS_EmptySet
    <2>2. Cardinality(OwnBytes(q)) \in Nat /\ Cardinality(new) \in Nat
      BY <1>8, <1>9, FS_CardinalityType
    <2>3. /\ IsFiniteSet(OwnBytes(q) \cup new)
          /\ Cardinality(OwnBytes(q) \cup new)
               = Cardinality(OwnBytes(q)) + Cardinality(new) - Cardinality(OwnBytes(q) \cap new)
      BY <1>8, <1>9, FS_Union
    <2> QED BY <1>8, <1>9, <2>1, <2>2, <2>3
  <1> HIDE DEF new
  <1>11. ASSUME NEW r \in Queries
         PROVE  /\ IsFiniteSet(OwnBytes(r)') /\ spent'[r] = Cardinality(OwnBytes(r)')
                /\ spent'[r] <= Budget
    <2>1. CASE r = q
      BY <1>2, <1>3, <1>6, <1>10, <2>1
    <2>2. CASE r # q
      BY <1>2, <1>3, <1>7, <2>2 DEF ChargeInv, ChargesAddUp, ChargesOf, OwnBytes
    <2> QED BY <2>1, <2>2
  <1> QED BY <1>1, <1>11 DEF ChargeInv, ChargesAddUp, ChargesOf, OwnBytes

LEMMA NextCharges == ChargeInv /\ [QueryNext]_queryVars => ChargeInv'
  <1> SUFFICES ASSUME ChargeInv, [QueryNext]_queryVars PROVE ChargeInv'
    OBVIOUS
  <1>1. QueryTypeOK'
    BY NextTypes DEF ChargeInv
  <1>2. CASE UNCHANGED queryVars \/ \E q \in Queries : CancelOrExpire(q)
    BY <1>1, <1>2, NothingCharged
       DEF queryVars, chargeVars, CancelOrExpire, StoreCancel, NotifyWaiters, Expire
  <1>3. ASSUME NEW t \in Tasks, RunStep(t) PROVE ChargeInv'
    BY <1>1, <1>3, NothingCharged
       DEF RunStep, Enable, RefuseRun, Wait, Wake, Poll, Pend, Complete, TimeOut, RunGoes, chargeVars
  <1>4. ASSUME NEW p \in Partitions, ChargeStep(p) PROVE ChargeInv'
    <2>1. CASE Exchange(p)
      BY <2>1, ExchangeCharges
    <2>2. CASE ~Exchange(p)
      BY <1>1, <1>4, <2>2, NothingCharged DEF ChargeStep, StartCharge, Load, Exhaust
    <2> QED BY <2>1, <2>2
  <1> QED BY <1>2, <1>3, <1>4 DEF QueryNext, RunStep

(* However partitions charge at the same time, the counter of a query is   *)
(* what was accepted for it, and that is within its budget.                *)
THEOREM ChargesAreExact == QuerySpec => []ChargesAddUp
  <1>1. ChargeInv => ChargesAddUp
    BY DEF ChargeInv
  <1> QED BY <1>1, InitCharges, NextCharges, PTL DEF QuerySpec

-----------------------------------------------------------------------------
(* The deferred providers.  Who is past the second look holds the lock of  *)
(* its table alone.                                                        *)
Cold(s) == scan[s] = "cold" \/ Admitted(s)
AdmittedScans == {s \in Scans : Admitted(s)}
PermittedScans == {s \in Scans : Permitted(s)}

PlaceInv ==
    /\ scan \in [Scans -> {"idle", "locking", "cold", "queued", "resolving",
                           "resolved", "unresolved", "answered", "failed"}]
    /\ table \in [Scans -> Deferred \cup {NoTable}]
    /\ \A s \in Scans : scan[s] # "idle" => table[s] \in Deferred
    /\ resolution \in [Deferred -> SUBSET Scans]
    /\ \A s \in Scans : Cold(s) => resolution[table[s]] = {s}

CountInv ==
    /\ IsFiniteSet(Scans)
    /\ cold = Cardinality(AdmittedScans)
    /\ cold <= MaxCold
    /\ permits + Cardinality(PermittedScans) = MaxResolutions
    /\ permits \in Int

HoldInv == PlaceInv /\ CountInv

LEMMA InitHolds == DeferredInit => HoldInv
  <1> SUFFICES ASSUME DeferredInit PROVE HoldInv
    OBVIOUS
  <1>1. PlaceInv
    BY DEF DeferredInit, PlaceInv, Cold, Admitted
  <1>2. AdmittedScans = {} /\ PermittedScans = {}
    BY DEF DeferredInit, AdmittedScans, PermittedScans, Admitted, Permitted
  <1>3. CountInv
    BY <1>2, FS_EmptySet, DeferredAssumption DEF DeferredInit, CountInv
  <1> QED BY <1>1, <1>3 DEF HoldInv

(* The two sets only depend on where the scans are.                        *)
LEMMA CountsStay ==
  ASSUME HoldInv, UNCHANGED <<cold, permits>>,
         AdmittedScans' = AdmittedScans, PermittedScans' = PermittedScans
  PROVE  CountInv'
  BY DEF HoldInv, CountInv

(* The size of a set of scans when one enters or leaves.                   *)
LEMMA CountOne ==
  ASSUME IsFiniteSet(Scans), NEW S \in SUBSET Scans, NEW s \in Scans
  PROVE  /\ Cardinality(S) \in Nat
         /\ s \notin S => Cardinality(S \cup {s}) = Cardinality(S) + 1
         /\ s \in S => Cardinality(S \ {s}) = Cardinality(S) - 1
  <1>1. IsFiniteSet(S)
    BY FS_Subset
  <1> QED BY <1>1, FS_AddElement, FS_RemoveElement, FS_CardinalityType

(* Steps of a scan that touch neither count.                               *)
LEMMA UncountedHolds ==
  ASSUME HoldInv, NEW s \in Scans,
         (\E tab \in Deferred : BeginScan(s, tab)) \/ LockTable(s) \/ RejectCold(s) \/ Resolve(s)
  PROVE  HoldInv'
  <1> USE DEF HoldInv, PlaceInv, ScanGoes, HitCache, MissCache, Cold, Admitted
  <1>1. CASE \E tab \in Deferred : BeginScan(s, tab)
    <2>1. PlaceInv' BY <1>1 DEF BeginScan
    <2>2. AdmittedScans' = AdmittedScans /\ PermittedScans' = PermittedScans
      BY <1>1 DEF BeginScan, AdmittedScans, PermittedScans, Permitted
    <2> QED BY <1>1, <2>1, <2>2, CountsStay DEF BeginScan
  <1>2. CASE LockTable(s)
    <2>1. PlaceInv' BY <1>2 DEF LockTable
    <2>2. AdmittedScans' = AdmittedScans /\ PermittedScans' = PermittedScans
      BY <1>2 DEF LockTable, AdmittedScans, PermittedScans, Permitted
    <2> QED BY <1>2, <2>1, <2>2, CountsStay DEF LockTable
  <1>3. CASE RejectCold(s)
    <2>1. PlaceInv' BY <1>3 DEF RejectCold
    <2>2. AdmittedScans' = AdmittedScans /\ PermittedScans' = PermittedScans
      BY <1>3 DEF RejectCold, AdmittedScans, PermittedScans, Permitted
    <2> QED BY <1>3, <2>1, <2>2, CountsStay DEF RejectCold
  <1>4. CASE Resolve(s)
    <2>1. PlaceInv' BY <1>4 DEF Resolve, FailResolve, Keep
    <2>2. AdmittedScans' = AdmittedScans /\ PermittedScans' = PermittedScans
      BY <1>4 DEF Resolve, FailResolve, Keep, AdmittedScans, PermittedScans, Permitted
    <2> QED BY <1>4, <2>1, <2>2, CountsStay DEF Resolve, FailResolve, Keep
  <1> QED BY <1>1, <1>2, <1>3, <1>4

LEMMA AdmitHolds ==
  ASSUME HoldInv, NEW s \in Scans, AdmitCold(s)
  PROVE  HoldInv'
  <1>1. PlaceInv'
    BY DEF HoldInv, PlaceInv, Cold, AdmitCold, ScanGoes, Admitted
  <1>2. AdmittedScans' = AdmittedScans \cup {s} /\ s \notin AdmittedScans
    BY DEF HoldInv, PlaceInv, AdmitCold, ScanGoes, AdmittedScans, Admitted
  <1>3. PermittedScans' = PermittedScans
    BY DEF HoldInv, PlaceInv, AdmitCold, ScanGoes, PermittedScans, Permitted
  <1>4. AdmittedScans \in SUBSET Scans
    BY DEF AdmittedScans
  <1>5. /\ IsFiniteSet(Scans) /\ cold = Cardinality(AdmittedScans)
        /\ permits + Cardinality(PermittedScans) = MaxResolutions /\ permits \in Int
    BY DEF HoldInv, CountInv
  <1>6. /\ Cardinality(AdmittedScans \cup {s}) = Cardinality(AdmittedScans) + 1
        /\ Cardinality(AdmittedScans) \in Nat
    BY <1>2, <1>4, <1>5, CountOne
  <1>7. cold' = cold + 1 /\ cold < MaxCold /\ permits' = permits
    BY DEF AdmitCold
  <1>8. CountInv'
    BY <1>2, <1>3, <1>5, <1>6, <1>7, DeferredAssumption DEF CountInv
  <1> QED BY <1>1, <1>8 DEF HoldInv

LEMMA PermitHolds ==
  ASSUME HoldInv, NEW s \in Scans, TakePermit(s)
  PROVE  HoldInv'
  <1>1. PlaceInv'
    BY DEF HoldInv, PlaceInv, Cold, TakePermit, ScanGoes, Admitted
  <1>2. AdmittedScans' = AdmittedScans
    BY DEF HoldInv, PlaceInv, TakePermit, ScanGoes, AdmittedScans, Admitted
  <1>3. PermittedScans' = PermittedScans \cup {s} /\ s \notin PermittedScans
    BY DEF HoldInv, PlaceInv, TakePermit, ScanGoes, PermittedScans, Permitted
  <1>4. PermittedScans \in SUBSET Scans
    BY DEF PermittedScans
  <1>5. /\ IsFiniteSet(Scans) /\ cold = Cardinality(AdmittedScans) /\ cold <= MaxCold
        /\ permits + Cardinality(PermittedScans) = MaxResolutions /\ permits \in Int
    BY DEF HoldInv, CountInv
  <1>6. /\ Cardinality(PermittedScans \cup {s}) = Cardinality(PermittedScans) + 1
        /\ Cardinality(PermittedScans) \in Nat
    BY <1>3, <1>4, <1>5, CountOne
  <1>7. permits' = permits - 1 /\ cold' = cold
    BY DEF TakePermit
  <1>8. CountInv'
    BY <1>2, <1>3, <1>5, <1>6, <1>7, DeferredAssumption DEF CountInv
  <1> QED BY <1>1, <1>8 DEF HoldInv

(* Wherever a scan leaves, it gives back what it has and no more.          *)
LEMMA LeaveHolds ==
  ASSUME HoldInv, NEW s \in Scans, LeaveScan(s)
  PROVE  HoldInv'
  <1>1. PlaceInv'
    BY DEF HoldInv, PlaceInv, Cold, LeaveScan, ScanGoes, Admitted
  <1>2. AdmittedScans' = AdmittedScans \ {s} /\ PermittedScans' = PermittedScans \ {s}
    BY DEF HoldInv, PlaceInv, LeaveScan, ScanGoes, AdmittedScans, PermittedScans,
           Admitted, Permitted
  <1>3. AdmittedScans \in SUBSET Scans /\ PermittedScans \in SUBSET Scans
    BY DEF AdmittedScans, PermittedScans
  <1>4. /\ cold' = IF s \in AdmittedScans THEN cold - 1 ELSE cold
        /\ permits' = IF s \in PermittedScans THEN permits + 1 ELSE permits
    BY DEF LeaveScan, AdmittedScans, PermittedScans
  <1>5. /\ IsFiniteSet(Scans) /\ cold = Cardinality(AdmittedScans) /\ cold <= MaxCold
        /\ permits + Cardinality(PermittedScans) = MaxResolutions /\ permits \in Int
    BY DEF HoldInv, CountInv
  <1>6. /\ Cardinality(AdmittedScans) \in Nat /\ Cardinality(PermittedScans) \in Nat
        /\ s \in AdmittedScans =>
              Cardinality(AdmittedScans \ {s}) = Cardinality(AdmittedScans) - 1
        /\ s \in PermittedScans =>
              Cardinality(PermittedScans \ {s}) = Cardinality(PermittedScans) - 1
    BY <1>3, <1>5, CountOne
  <1>7. /\ s \notin AdmittedScans => AdmittedScans \ {s} = AdmittedScans
        /\ s \notin PermittedScans => PermittedScans \ {s} = PermittedScans
    OBVIOUS
  <1>8. cold' = Cardinality(AdmittedScans \ {s}) /\ cold' <= MaxCold
    <2>1. MaxCold \in Int BY DeferredAssumption
    <2>2. CASE s \in AdmittedScans BY <1>4, <1>5, <1>6, <2>1, <2>2
    <2>3. CASE s \notin AdmittedScans BY <1>4, <1>5, <1>7, <2>3
    <2> QED BY <2>2, <2>3
  <1>9. permits' + Cardinality(PermittedScans \ {s}) = MaxResolutions /\ permits' \in Int
    <2>1. CASE s \in PermittedScans BY <1>4, <1>5, <1>6, <2>1
    <2>2. CASE s \notin PermittedScans BY <1>4, <1>5, <1>7, <2>2
    <2> QED BY <2>1, <2>2
  <1>10. CountInv'
    BY <1>2, <1>5, <1>8, <1>9 DEF CountInv
  <1> QED BY <1>1, <1>10 DEF HoldInv

LEMMA StandHolds ==
  ASSUME HoldInv, UNCHANGED <<scan, table, resolution, cold, permits>>
  PROVE  HoldInv'
  BY DEF HoldInv, PlaceInv, CountInv, Cold, AdmittedScans, PermittedScans, Admitted, Permitted

LEMMA NextHolds == HoldInv /\ [DeferredNext]_deferredVars => HoldInv'
  <1> SUFFICES ASSUME HoldInv, [DeferredNext]_deferredVars PROVE HoldInv'
    OBVIOUS
  <1>1. CASE UNCHANGED deferredVars \/ \E src \in Sources, schema \in Schemas : Drift(src, schema)
    BY <1>1, StandHolds DEF deferredVars, Drift
  <1>2. ASSUME NEW s \in Scans,
               \/ \E tab \in Deferred : BeginScan(s, tab)
               \/ ScanStep(s)
               \/ LeaveScan(s)
        PROVE  HoldInv'
    BY <1>2, UncountedHolds, AdmitHolds, PermitHolds, LeaveHolds DEF ScanStep, Proceed
  <1> QED BY <1>1, <1>2 DEF DeferredNext

(* No admission and no permit is leaked or given back twice.               *)
THEOREM AdmissionsComeBack == DeferredSpec => []NothingLeaks
  <1>1. HoldInv => NothingLeaks
    BY DEF HoldInv, CountInv, NothingLeaks, AdmittedScans, PermittedScans
  <1> QED BY <1>1, InitHolds, NextHolds, PTL DEF DeferredSpec

(* One scan of a table at a time is admitted, the others wait for it.      *)
THEOREM OneColdScan == DeferredSpec => []FollowersCoalesce
  <1>1. HoldInv => FollowersCoalesce
    BY DEF HoldInv, PlaceInv, FollowersCoalesce, Cold
  <1> QED BY <1>1, InitHolds, NextHolds, PTL DEF DeferredSpec

-----------------------------------------------------------------------------
(* Providers.  What is cached under a key has the schema the key names.    *)
Entry == [key : [source : Sources, schema : Schemas], schema : Schemas]
Entries == {e \in Entry : e.schema = e.key.schema}

FitInv ==
    /\ HoldInv
    /\ DeferredTypeOK
    /\ cache \in Seq(Entries)
    /\ ProvidersFit

LEMMA InitFits == DeferredInit => FitInv
  <1> SUFFICES ASSUME DeferredInit PROVE FitInv
    OBVIOUS
  <1>1. HoldInv
    BY InitHolds
  <1>2. DeferredTypeOK
    BY DeferredAssumption DEF DeferredInit, DeferredTypeOK
  <1>3. cache \in Seq(Entries) /\ ProvidersFit
    BY DEF DeferredInit, ProvidersFit
  <1> QED BY <1>1, <1>2, <1>3 DEF FitInv

(* Entries that are dropped or put last are entries still.                 *)
LEMMA OthersFit ==
  ASSUME FitInv, NEW tab
  PROVE  Others(tab) \in Seq(Entries) /\ \A i \in Places(tab) : cache[i] \in Entries
  <1>1. cache \in Seq(Entries)
    BY DEF FitInv
  <1>2. \A i \in Places(tab) : i \in 1..Len(cache) /\ cache[i] \in Entries
    BY <1>1 DEF Places
  <1>3. ASSUME NEW i \in 1..Len(cache) PROVE RemoveAt(cache, i) \in Seq(Entries)
    <2>1. SubSeq(cache, 1, i - 1) \in Seq(Entries) /\ SubSeq(cache, i + 1, Len(cache)) \in Seq(Entries)
      BY <1>1
    <2> QED BY <2>1 DEF RemoveAt
  <1> QED BY <1>1, <1>2, <1>3 DEF Others

LEMMA RoomFits ==
  ASSUME FitInv, NEW tab
  PROVE  Room(tab) \in Seq(Entries)
  <1>1. cache \in Seq(Entries) /\ Others(tab) \in Seq(Entries)
    BY OthersFit DEF FitInv
  <1>2. ASSUME Len(cache) >= MaxCached PROVE Tail(cache) \in Seq(Entries)
    <2>1. cache # << >>
      BY <1>1, <1>2, DeferredAssumption
    <2> QED BY <1>1, <2>1
  <1> QED BY <1>1, <1>2 DEF Room

(* A hit gives what is cached under the key of the table.                  *)
LEMMA HitFits ==
  ASSUME FitInv, NEW s \in Scans, NEW tab \in Deferred, HitCache(s, tab)
  PROVE  /\ cache' \in Seq(Entries)
         /\ got' = [got EXCEPT ![s] = Relation[tab].schema]
         /\ Relation[tab].schema \in Schemas
  <1>1. PICK i \in Places(tab) : /\ cache' = Append(Others(tab), cache[i])
                                 /\ got' = [got EXCEPT ![s] = cache[i].schema]
    BY DEF HitCache
  <1>2. cache[i] \in Entries /\ Others(tab) \in Seq(Entries) /\ cache[i].key = Relation[tab]
    BY OthersFit DEF Places, Key
  <1>3. cache[i].schema = Relation[tab].schema
    BY <1>2 DEF Entries
  <1>4. Relation[tab].schema \in Schemas
    BY DeferredAssumption
  <1> QED BY <1>1, <1>2, <1>3, <1>4

(* Whether it hits or misses, a scan that looks in the cache keeps it fit. *)
LEMMA LookFits ==
  ASSUME FitInv, HoldInv', NEW s \in Scans, NEW tab \in Deferred,
         NEW to \in {"locking", "cold"}, HitCache(s, tab) \/ MissCache(s, tab, to),
         table'[s] = tab, \A r \in Scans \ {s} : table'[r] = table[r],
         UNCHANGED <<live, cold, permits>>
  PROVE  FitInv'
  <1>1. /\ scan \in [Scans -> {"idle", "locking", "cold", "queued", "resolving",
                               "resolved", "unresolved", "answered", "failed"}]
        /\ got \in [Scans -> Schemas \cup {NoTable}] /\ cache \in Seq(Entries) /\ ProvidersFit
        /\ live \in [Sources -> Schemas] /\ cold \in Nat /\ permits \in Nat
    BY DEF FitInv, DeferredTypeOK
  <1>2. /\ cache' \in Seq(Entries) /\ got' \in [Scans -> Schemas \cup {NoTable}]
        /\ \A r \in Scans \ {s} : got'[r] = got[r] /\ scan'[r] = scan[r]
        /\ \/ scan'[s] = "answered" /\ got'[s] = Relation[tab].schema
           \/ scan'[s] = to
    <2>1. CASE HitCache(s, tab)
      <3>1. cache' \in Seq(Entries) /\ got' = [got EXCEPT ![s] = Relation[tab].schema]
            /\ Relation[tab].schema \in Schemas
        BY <2>1, HitFits
      <3>2. scan' = [scan EXCEPT ![s] = "answered"]
        BY <2>1 DEF HitCache, ScanGoes
      <3> QED BY <1>1, <3>1, <3>2
    <2>2. CASE MissCache(s, tab, to)
      BY <1>1, <2>2 DEF MissCache, ScanGoes
    <2> QED BY <2>1, <2>2
  <1>3. ProvidersFit'
    BY <1>1, <1>2 DEF ProvidersFit
  <1>4. cache' \in Seq(Entry)
    BY <1>2 DEF Entries
  <1>5. DeferredTypeOK'
    BY <1>1, <1>2, <1>4 DEF DeferredTypeOK, HoldInv, PlaceInv, Entry
  <1> QED BY <1>2, <1>3, <1>5 DEF FitInv

(* A step that gives no provider keeps those that were given.              *)
LEMMA OtherStepFits ==
  ASSUME FitInv, HoldInv', NEW s \in Scans, UNCHANGED <<live, cache>>, permits' >= 0,
         \A r \in Scans \ {s} : UNCHANGED <<scan[r], table[r], got[r]>>,
         scan'[s] \notin {"answered", "resolved"},
         got' \in [Scans -> Schemas \cup {NoTable}]
  PROVE  FitInv'
  <1>1. cold' \in Nat /\ permits' \in Nat
    <2>1. AdmittedScans' \in SUBSET Scans
      BY DEF AdmittedScans
    <2>2. Cardinality(AdmittedScans') \in Nat
      BY <2>1, FS_Subset, FS_CardinalityType DEF HoldInv, CountInv
    <2> QED BY <2>2 DEF HoldInv, CountInv
  <1>2. ProvidersFit'
    BY DEF FitInv, ProvidersFit
  <1>3. DeferredTypeOK'
    BY <1>1 DEF FitInv, DeferredTypeOK, HoldInv, PlaceInv
  <1> QED BY <1>2, <1>3 DEF FitInv

(* The provider a scan keeps has the schema its table recorded.            *)
LEMMA KeepFits ==
  ASSUME FitInv, HoldInv', NEW s \in Scans, Keep(s)
  PROVE  FitInv'
  <1> DEFINE tab == table[s]
             schema == live[Relation[tab].source]
             new == [key |-> Key(tab), schema |-> schema]
  <1>1. /\ scan \in [Scans -> {"idle", "locking", "cold", "queued", "resolving",
                               "resolved", "unresolved", "answered", "failed"}]
        /\ got \in [Scans -> Schemas \cup {NoTable}] /\ ProvidersFit
        /\ live \in [Sources -> Schemas] /\ cold \in Nat /\ permits \in Nat
    BY DEF FitInv, DeferredTypeOK
  <1>2. /\ schema = Relation[tab].schema /\ cache' = Append(Room(tab), new)
        /\ got' = [got EXCEPT ![s] = schema] /\ scan' = [scan EXCEPT ![s] = "resolved"]
        /\ UNCHANGED <<live, table, resolution, cold, permits>> /\ scan[s] = "resolving"
    BY DEF Keep, ScanGoes
  <1>3. tab \in Deferred
    BY <1>2 DEF FitInv, HoldInv, PlaceInv
  <1>4. Key(tab) \in [source : Sources, schema : Schemas] /\ schema = Key(tab).schema
        /\ schema \in Schemas
    BY <1>2, <1>3, DeferredAssumption DEF Key
  <1>5. new \in Entries
    BY <1>4 DEF Entries, Entry
  <1>6. cache' \in Seq(Entries)
    <2>1. Room(tab) \in Seq(Entries)
      BY RoomFits
    <2> HIDE DEF new, tab
    <2> QED BY <1>2, <1>5, <2>1
  <1>7. ProvidersFit'
    BY <1>1, <1>2 DEF ProvidersFit
  <1>8. cache' \in Seq(Entry) /\ got' \in [Scans -> Schemas \cup {NoTable}]
    BY <1>1, <1>2, <1>4, <1>6 DEF Entries
  <1>9. DeferredTypeOK'
    BY <1>1, <1>2, <1>8 DEF DeferredTypeOK, HoldInv, PlaceInv, Entry
  <1> QED BY <1>6, <1>7, <1>9 DEF FitInv

LEMMA ScanFits ==
  ASSUME FitInv, HoldInv', NEW s \in Scans, ScanStep(s)
  PROVE  FitInv'
  <1>1. /\ scan \in [Scans -> {"idle", "locking", "cold", "queued", "resolving",
                               "resolved", "unresolved", "answered", "failed"}]
        /\ got \in [Scans -> Schemas \cup {NoTable}] /\ permits \in Nat
    BY DEF FitInv, DeferredTypeOK
  <1>2. CASE LockTable(s)
    <2>1. table[s] \in Deferred /\ table' = table
      BY <1>2 DEF LockTable, FitInv, HoldInv, PlaceInv
    <2>2. HitCache(s, table[s]) \/ MissCache(s, table[s], "cold")
      BY <1>2 DEF LockTable
    <2>3. UNCHANGED <<live, cold, permits>>
      BY <1>2 DEF LockTable
    <2> QED BY <2>1, <2>2, <2>3, LookFits
  <1>3. CASE AdmitCold(s)
    BY <1>1, <1>3, OtherStepFits DEF AdmitCold, ScanGoes
  <1>4. CASE RejectCold(s)
    BY <1>1, <1>4, OtherStepFits DEF RejectCold, ScanGoes
  <1>5. CASE TakePermit(s)
    BY <1>1, <1>5, OtherStepFits DEF TakePermit, ScanGoes
  <1>6. CASE FailResolve(s)
    BY <1>1, <1>6, OtherStepFits DEF FailResolve, ScanGoes
  <1>7. CASE Keep(s)
    BY <1>7, KeepFits
  <1> QED BY <1>2, <1>3, <1>4, <1>5, <1>6, <1>7 DEF ScanStep, Proceed, Resolve

LEMMA NextFits == FitInv /\ [DeferredNext]_deferredVars => FitInv'
  <1> SUFFICES ASSUME FitInv, [DeferredNext]_deferredVars PROVE FitInv'
    OBVIOUS
  <1>1. HoldInv'
    BY NextHolds DEF FitInv
  <1>2. CASE UNCHANGED deferredVars
    BY <1>1, <1>2 DEF deferredVars, FitInv, DeferredTypeOK, ProvidersFit
  <1>3. ASSUME NEW src \in Sources, NEW schema \in Schemas, Drift(src, schema)
        PROVE  FitInv'
    BY <1>1, <1>3 DEF Drift, FitInv, DeferredTypeOK, ProvidersFit
  <1>4. ASSUME NEW s \in Scans, NEW tab \in Deferred, BeginScan(s, tab) PROVE FitInv'
    <2>1. table'[s] = tab /\ \A r \in Scans \ {s} : table'[r] = table[r]
      BY <1>4 DEF BeginScan, FitInv, HoldInv, PlaceInv
    <2>2. /\ HitCache(s, tab) \/ MissCache(s, tab, "locking")
          /\ UNCHANGED <<live, cold, permits>>
      BY <1>4 DEF BeginScan
    <2> QED BY <1>1, <2>1, <2>2, LookFits
  <1>5. ASSUME NEW s \in Scans, ScanStep(s) PROVE FitInv'
    BY <1>1, <1>5, ScanFits
  <1>6. ASSUME NEW s \in Scans, LeaveScan(s) PROVE FitInv'
    <2>1. /\ \A r \in Scans \ {s} : UNCHANGED <<scan[r], table[r], got[r]>>
          /\ scan'[s] = "idle" /\ got' \in [Scans -> Schemas \cup {NoTable}]
          /\ UNCHANGED <<live, cache>>
      BY <1>6 DEF LeaveScan, ScanGoes, FitInv, DeferredTypeOK, HoldInv, PlaceInv
    <2>2. permits' >= 0
      BY <1>6 DEF LeaveScan, FitInv, DeferredTypeOK
    <2> QED BY <1>1, <2>1, <2>2, OtherStepFits
  <1> QED BY <1>2, <1>3, <1>4, <1>5, <1>6 DEF DeferredNext

(* Whoever is given a provider has one with the schema its table recorded, *)
(* through hits, evictions and drifts.                                     *)
THEOREM ProvidersMatch == DeferredSpec => []ProvidersFit
  <1>1. FitInv => ProvidersFit
    BY DEF FitInv
  <1> QED BY <1>1, InitFits, NextFits, PTL DEF DeferredSpec

(* The counters of the admission stay within the machine types.            *)
THEOREM DeferredTypes == DeferredSpec => []DeferredTypeOK
  <1>1. FitInv => DeferredTypeOK
    BY DEF FitInv
  <1> QED BY <1>1, InitFits, NextFits, PTL DEF DeferredSpec

-----------------------------------------------------------------------------
(* The composition.                                                        *)

LEMMA PathSteps == [QueryScansNext]_scanVars => [QueryNext]_queryVars /\ [DeferredNext]_deferredVars
  <1> SUFFICES ASSUME [QueryScansNext]_scanVars
               PROVE  [QueryNext]_queryVars /\ [DeferredNext]_deferredVars
    OBVIOUS
  <1> USE ScansAreTasks
  <1>1. CASE \E q \in Queries : CancelOrExpire(q) /\ UNCHANGED deferredVars
    BY <1>1 DEF QueryNext
  <1>2. ASSUME NEW t \in Tasks, AwaitScan(t) PROVE QueryNext /\ UNCHANGED deferredVars
    BY <1>2 DEF AwaitScan, QueryNext
  <1>3. ASSUME NEW t \in Tasks, PollScan(t) PROVE UNCHANGED queryVars /\ DeferredNext
    BY <1>3 DEF PollScan, DeferredNext
  <1>4. ASSUME NEW t \in Tasks, ReturnScan(t) PROVE QueryNext /\ DeferredNext
    BY <1>4 DEF ReturnScan, QueryNext, DeferredNext
  <1>5. ASSUME NEW t \in Tasks, DropScan(t)
        PROVE  QueryNext /\ [DeferredNext]_deferredVars
    BY <1>5 DEF DropScan, QueryNext, DeferredNext
  <1>6. CASE \E src \in Sources, schema \in Schemas : Drift(src, schema) /\ UNCHANGED queryVars
    BY <1>6 DEF DeferredNext
  <1>7. CASE UNCHANGED scanVars
    BY <1>7 DEF scanVars
  <1> QED BY <1>1, <1>2, <1>3, <1>4, <1>5, <1>6, <1>7 DEF QueryScansNext

(* Polled by run() and dropped where run() ends, the scans do nothing that *)
(* deferred.rs and run() do not do on their own.                           *)
THEOREM ScansCompose == QueryScansSpec => QuerySpec /\ DeferredSpec
  <1>1. QueryScansInit => QueryInit /\ DeferredInit
    BY DEF QueryScansInit
  <1> QED BY <1>1, PathSteps, PTL DEF QueryScansSpec, QuerySpec, DeferredSpec

(* What is proved of the parts holds of the scans of queries.              *)
THEOREM ScansKeepPromises ==
    QueryScansSpec => /\ [](NoWakeupIsLost /\ ChargesAddUp)
                      /\ [](NothingLeaks /\ FollowersCoalesce /\ ProvidersFit)
                      /\ CancelIsFinal
  BY ScansCompose, CancelReachesWaiters, CancelledStays, ChargesAreExact,
     AdmissionsComeBack, OneColdScan, ProvidersMatch, PTL
=============================================================================
