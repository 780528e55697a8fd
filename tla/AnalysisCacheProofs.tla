------------------------ MODULE AnalysisCacheProofs ------------------------
(***************************************************************************)
(* What the analysis cache keeps for any calls, identities, snapshots and  *)
(* limits: proofs about AnalysisCache.  Answers fit the snapshots of their *)
(* callers, one call builds an identity, refusals are justified, and the   *)
(* books agree with the entries and stay within the limits.                *)
(***************************************************************************)
EXTENDS AnalysisCache, FiniteSetTheorems, TLAPS

(* A call that keeps a lock alive keeps the one its identity is recorded   *)
(* with, and no other identity is recorded with it.                        *)
LocksInv ==
    /\ \A c \in Calls : lockOf[c] # Nothing => active[id[c]] = lockOf[c]
    /\ \A i, j \in Identities :
          InUse(active[i]) /\ active[i] = active[j] => i = j

(* Where a call is tells what it holds.                                    *)
PlaceInv ==
    \A c \in Calls :
        /\ place[c] \in {"idle", "looking"} => lockOf[c] = Nothing
        /\ place[c] \in {"waiting", "building"} => lockOf[c] # Nothing
        /\ place[c] = "building" => guard[lockOf[c]] = c
        /\ place[c] # "returning" => answer[c] = Nothing

(* Every entry was built on some snapshot and captured on the same one.    *)
EntriesInv ==
    \A i \in DOMAIN entries : \E s \in Snapshots :
        /\ entries[i].value = Value[i][s]
        /\ entries[i].dependencies = Capture(s, Declared[i][s])

IInv ==
    /\ Structure
    /\ LocksInv
    /\ PlaceInv
    /\ EntriesInv
    /\ AnswersFit
    /\ ActiveWithinLimit

-----------------------------------------------------------------------------
(* Looking up names on a snapshot gives a capture.                         *)
LEMMA CaptureType ==
  ASSUME NEW s \in Snapshots, NEW L \in SUBSET Lookups
  PROVE  Capture(s, L) \in Captures
  <1>1. Capture(s, L) \in [L -> Results]
    BY AnalysisAssumption DEF Capture, AnalysisAssumption
  <1> QED BY <1>1 DEF Captures

(* An entry that matches a snapshot holds what a build on it would give.   *)
LEMMA ValidFits ==
  ASSUME EntriesInv, NEW i \in Identities, NEW s \in Snapshots, Valid(i, s)
  PROVE  entries[i].value = Value[i][s]
  <1>1. PICK t \in Snapshots :
           /\ entries[i].value = Value[i][t]
           /\ entries[i].dependencies = Capture(t, Declared[i][t])
    BY DEF EntriesInv, Valid
  <1>2. \A l \in Declared[i][t] : Result[t][l] = Result[s][l]
    BY <1>1 DEF Valid, Matches, Capture
  <1> QED BY <1>1, <1>2, BuildsAreDetermined DEF BuildsAreDetermined

(* After the dead locks are forgotten, the recorded identities are those   *)
(* in flight.                                                              *)
LEMMA RetainIsInFlight ==
  ASSUME Structure, LocksInv
  PROVE  {i \in Identities : Retain[i] # Nothing} = InFlight
  <1> DEFINE R == {i \in Identities : Retain[i] # Nothing}
  <1>1. ASSUME NEW i \in R PROVE i \in InFlight
    <2>1. i \in Identities /\ InUse(active[i])
      BY <1>1 DEF Retain
    <2>2. PICK c \in Calls : lockOf[c] = active[i] /\ lockOf[c] # Nothing
      BY <2>1 DEF InUse
    <2>3. id[c] = i
      BY <2>1, <2>2 DEF Structure, LocksInv
    <2> QED BY <2>2, <2>3 DEF InFlight
  <1>2. ASSUME NEW c \in Calls, lockOf[c] # Nothing PROVE id[c] \in R
    BY <1>2 DEF Structure, LocksInv, InUse, Retain
  <1> QED BY <1>1, <1>2 DEF InFlight

(* An identity in flight is recorded.                                      *)
LEMMA InFlightIsRecorded ==
  ASSUME Structure, LocksInv
  PROVE  /\ InFlight \subseteq Recorded
         /\ Cardinality(Recorded) \in Nat /\ Cardinality(InFlight) \in Nat
         /\ Cardinality(InFlight) <= Cardinality(Recorded)
  <1>1. InFlight \subseteq Recorded
    BY DEF Structure, LocksInv, InFlight, Recorded
  <1>2. IsFiniteSet(Recorded)
    BY AnalysisAssumption, FS_Subset DEF AnalysisAssumption, Recorded
  <1> QED BY <1>1, <1>2, FS_Subset, FS_CardinalityType

(* The identities in flight are finitely many.                             *)
LEMMA InFlightFinite ==
  ASSUME Structure
  PROVE  IsFiniteSet(InFlight) /\ Cardinality(InFlight) \in Nat
  <1>1. InFlight \subseteq Identities
    BY DEF Structure, InFlight
  <1> QED
    BY <1>1, AnalysisAssumption, FS_Subset, FS_CardinalityType
    DEF AnalysisAssumption

(* Ranks stay natural numbers.                                             *)
LEMMA TouchType ==
  ASSUME Structure, NEW i \in Identities
  PROVE  Touch(i) \in [Identities -> Nat]
  <1>1. Cardinality(Identities) \in Nat
    BY AnalysisAssumption, FS_CardinalityType DEF AnalysisAssumption
  <1> QED BY <1>1 DEF Structure, Touch

(* Forgetting dead locks keeps the type of what is recorded.               *)
LEMMA RetainType ==
  ASSUME Structure
  PROVE  Retain \in [Identities -> Locks \cup {Nothing}]
  BY DEF Structure, Retain

-----------------------------------------------------------------------------
(* An empty cache and idle callers satisfy the invariant.                  *)
LEMMA InitInv == AnalysisInit => IInv
  <1> SUFFICES ASSUME AnalysisInit PROVE IInv
    OBVIOUS
  <1>1. Structure
    <2>1. rank \in [Identities -> Nat]
      BY AnalysisAssumption, FS_CardinalityType DEF AnalysisInit, AnalysisAssumption
    <2> QED BY <2>1 DEF AnalysisInit, Structure
  <1>2. LocksInv /\ PlaceInv /\ EntriesInv /\ AnswersFit
    BY DEF AnalysisInit, LocksInv, PlaceInv, EntriesInv, AnswersFit, InUse
  <1>3. ActiveWithinLimit
    <2>1. InFlight = {}
      BY DEF AnalysisInit, InFlight
    <2> QED
      BY <2>1, FS_EmptySet, AnalysisAssumption
      DEF ActiveWithinLimit, AnalysisAssumption
  <1> QED BY <1>1, <1>2, <1>3 DEF IInv

(* The identities in flight are the same when no lock is taken or given    *)
(* back and no call in flight changes its identity.                        *)
LEMMA SameInFlight ==
  ASSUME lockOf' = lockOf,
         \A c \in Calls : lockOf[c] # Nothing => id'[c] = id[c]
  PROVE  InFlight' = InFlight
  BY DEF InFlight

(* A first look forgets dead locks only, and gives an idle call its        *)
(* identity and snapshot.                                                  *)
LEMMA LookInv ==
  ASSUME IInv, NEW c \in Calls, NEW i \in Identities, NEW s \in Snapshots,
         Look(c, i, s)
  PROVE  IInv'
  <1> USE DEF IInv, Look, Moves
  <1>1. Structure'
    BY RetainType DEF Structure
  <1>2. LocksInv'
    BY DEF Structure, LocksInv, PlaceInv, Retain, InUse
  <1>3. PlaceInv'
    BY DEF Structure, PlaceInv
  <1>4. EntriesInv'
    BY DEF EntriesInv
  <1>5. AnswersFit'
    BY DEF Structure, PlaceInv, AnswersFit
  <1>6. ActiveWithinLimit'
    <2>1. InFlight' = InFlight
      BY SameInFlight DEF Structure, PlaceInv
    <2> QED BY <2>1 DEF ActiveWithinLimit
  <1> QED BY <1>1, <1>2, <1>3, <1>4, <1>5, <1>6

(* A valid entry is returned without a lock.                               *)
LEMMA HitAtOnceInv ==
  ASSUME IInv, NEW c \in Calls, HitAtOnce(c)
  PROVE  IInv'
  <1> USE DEF IInv, HitAtOnce, Moves
  <1>1. Structure'
    <2>1. id[c] \in Identities /\ entries[id[c]].value \in Values
      BY DEF Structure, Entry, Valid
    <2> QED BY <2>1, TouchType DEF Structure
  <1>2. LocksInv'
    BY DEF LocksInv, InUse
  <1>3. PlaceInv'
    BY DEF Structure, PlaceInv
  <1>4. EntriesInv'
    BY DEF EntriesInv
  <1>5. AnswersFit'
    BY ValidFits DEF Structure, AnswersFit
  <1>6. ActiveWithinLimit'
    BY SameInFlight DEF ActiveWithinLimit
  <1> QED BY <1>1, <1>2, <1>3, <1>4, <1>5, <1>6

(* A call joins the calls in flight for its identity.                      *)
LEMMA JoinInv ==
  ASSUME IInv, NEW c \in Calls, Join(c)
  PROVE  IInv'
  <1> USE DEF IInv, Join, Joinable, Moves
  <1>1. Structure'
    BY DEF Structure
  <1>2. LocksInv'
    BY DEF Structure, LocksInv, InUse
  <1>3. PlaceInv'
    BY DEF Structure, PlaceInv, InUse
  <1>4. EntriesInv'
    BY DEF EntriesInv
  <1>5. AnswersFit'
    BY DEF AnswersFit
  <1>6. ActiveWithinLimit'
    <2>1. PICK d \in Calls : lockOf[d] = active[id[c]] /\ lockOf[d] # Nothing
      BY DEF InUse
    <2>2. id[d] = id[c]
      BY <2>1 DEF Structure, LocksInv, InUse
    <2>3. InFlight' = InFlight
      BY <2>1, <2>2 DEF Structure, InFlight
    <2> QED BY <2>3 DEF ActiveWithinLimit
  <1> QED BY <1>1, <1>2, <1>3, <1>4, <1>5, <1>6

(* A new identity enters while there is a place for it, with a lock that   *)
(* nobody else uses.                                                       *)
LEMMA AdmitInv ==
  ASSUME IInv, NEW c \in Calls, NEW l \in Locks, Admit(c, l)
  PROVE  IInv'
  <1> USE DEF IInv, Admit, Joinable, Moves
  <1>1. Structure'
    BY DEF Structure
  <1>2. LocksInv'
    <2>1. \A d \in Calls : lockOf[d] # Nothing => id[d] # id[c]
      BY DEF Structure, LocksInv, InUse
    <2>2. \A j \in Identities : active[j] # l
      BY DEF FreeLock
    <2>3. \A d \in Calls : lockOf'[d] # Nothing => active'[id'[d]] = lockOf'[d]
      BY <2>1 DEF Structure, LocksInv
    <2>4. ASSUME NEW j \in Identities, NEW k \in Identities,
                 InUse(active[j])', active'[j] = active'[k]
          PROVE  j = k
      <3>1. CASE j = id[c] \/ k = id[c]
        BY <2>2, <2>4, <3>1 DEF Structure
      <3>2. CASE j # id[c] /\ k # id[c]
        BY <2>2, <2>4, <3>2 DEF Structure, LocksInv, InUse
      <3> QED BY <3>1, <3>2
    <2> QED BY <2>3, <2>4 DEF LocksInv
  <1>3. PlaceInv'
    BY AnalysisAssumption DEF Structure, PlaceInv, AnalysisAssumption
  <1>4. EntriesInv'
    BY DEF EntriesInv
  <1>5. AnswersFit'
    BY DEF AnswersFit
  <1>6. ActiveWithinLimit'
    <2>1. InFlight' \subseteq InFlight \cup {id[c]}
      BY DEF Structure, InFlight
    <2>2. Cardinality(InFlight) < MaxActive
      BY InFlightIsRecorded, AnalysisAssumption DEF AnalysisAssumption
    <2>3. /\ IsFiniteSet(InFlight \cup {id[c]})
          /\ Cardinality(InFlight \cup {id[c]}) \in Nat
      BY InFlightFinite, FS_AddElement, FS_CardinalityType
    <2>4. Cardinality(InFlight \cup {id[c]}) <= Cardinality(InFlight) + 1
      <3>1. Cardinality(InFlight \cup {id[c]}) =
               IF id[c] \in InFlight THEN Cardinality(InFlight)
                                     ELSE Cardinality(InFlight) + 1
        BY InFlightFinite, FS_AddElement, Zenon
      <3> QED BY <3>1, InFlightFinite
    <2>5. /\ Cardinality(InFlight') <= Cardinality(InFlight \cup {id[c]})
          /\ Cardinality(InFlight') \in Nat
      BY <2>1, <2>3, FS_Subset, FS_CardinalityType
    <2> QED
      BY <2>2, <2>3, <2>4, <2>5, InFlightFinite, AnalysisAssumption
      DEF ActiveWithinLimit, AnalysisAssumption
  <1> QED BY <1>1, <1>2, <1>3, <1>4, <1>5, <1>6

(* A refused call leaves nothing behind.                                   *)
LEMMA RefuseInv ==
  ASSUME IInv, NEW c \in Calls, Refuse(c)
  PROVE  IInv'
  <1> USE DEF IInv, Refuse, Moves
  <1>1. Structure'
    BY DEF Structure
  <1>2. LocksInv'
    BY DEF LocksInv, InUse
  <1>3. PlaceInv'
    BY DEF Structure, PlaceInv
  <1>4. EntriesInv'
    BY DEF EntriesInv
  <1>5. AnswersFit'
    BY DEF AnswersFit
  <1>6. ActiveWithinLimit'
    BY SameInFlight DEF ActiveWithinLimit
  <1> QED BY <1>1, <1>2, <1>3, <1>4, <1>5, <1>6

-----------------------------------------------------------------------------
(* Whoever takes the guard of its identity finds that nobody builds it.    *)
LEMMA OneBuilderInv == IInv => OneBuilder
  BY DEF IInv, Structure, LocksInv, PlaceInv, OneBuilder

(* The second look returns what fits the caller's snapshot.                *)
LEMMA HitAfterWaitInv ==
  ASSUME IInv, NEW c \in Calls, HitAfterWait(c)
  PROVE  IInv'
  <1> USE DEF IInv, HitAfterWait, Lock, Moves
  <1>1. Structure'
    <2>1. id[c] \in Identities /\ entries[id[c]].value \in Values
      BY DEF Structure, Entry, Valid
    <2> QED BY <2>1, TouchType DEF Structure
  <1>2. LocksInv'
    BY DEF LocksInv, InUse
  <1>3. PlaceInv'
    BY AnalysisAssumption DEF Structure, PlaceInv, AnalysisAssumption
  <1>4. EntriesInv'
    BY DEF EntriesInv
  <1>5. AnswersFit'
    BY ValidFits DEF Structure, AnswersFit
  <1>6. ActiveWithinLimit'
    BY SameInFlight DEF ActiveWithinLimit
  <1> QED BY <1>1, <1>2, <1>3, <1>4, <1>5, <1>6

(* A stale entry goes before its identity is built again.                  *)
LEMMA StartBuildInv ==
  ASSUME IInv, NEW c \in Calls, StartBuild(c)
  PROVE  IInv'
  <1> USE DEF IInv, StartBuild, Lock, Moves
  <1>1. /\ DOMAIN entries' \subseteq DOMAIN entries
        /\ entries' \in [DOMAIN entries' -> Entry]
        /\ \A i \in DOMAIN entries' : entries'[i] = entries[i]
    BY DEF Structure, Restrict
  <1>2. Structure'
    BY <1>1 DEF Structure
  <1>3. LocksInv'
    BY DEF LocksInv, InUse
  <1>4. PlaceInv'
    BY AnalysisAssumption DEF Structure, PlaceInv, AnalysisAssumption
  <1>5. EntriesInv'
    BY <1>1 DEF EntriesInv
  <1>6. AnswersFit'
    BY DEF AnswersFit
  <1>7. ActiveWithinLimit'
    BY SameInFlight DEF ActiveWithinLimit
  <1> QED BY <1>2, <1>3, <1>4, <1>5, <1>6, <1>7

(* The end of a build answers its caller.                                  *)
LEMMA BuiltInv ==
  ASSUME IInv, NEW c \in Calls, Built(c),
         DOMAIN entries' \subseteq Identities,
         entries' \in [DOMAIN entries' -> Entry],
        rank' \in [Identities -> Nat], EntriesInv'
  PROVE  IInv'
  <1> USE DEF IInv, Built, Moves
  <1>1. Value[id[c]][snap[c]] \in Values
    BY AnalysisAssumption DEF Structure, AnalysisAssumption
  <1>2. Structure'
    BY <1>1 DEF Structure
  <1>3. LocksInv'
    BY DEF LocksInv, InUse
  <1>4. PlaceInv'
    BY DEF Structure, PlaceInv
  <1>5. AnswersFit'
    BY DEF Structure, AnswersFit
  <1>6. ActiveWithinLimit'
    BY SameInFlight DEF ActiveWithinLimit
  <1> QED BY <1>2, <1>3, <1>4, <1>5, <1>6

(* An insertion keeps old entries or drops them; the new one was captured  *)
(* on the snapshot it was built on.                                        *)
LEMMA InsertInv ==
  ASSUME IInv, NEW c \in Calls, NEW bytes \in Sizes,
         NEW V \in SUBSET DOMAIN entries, 
         Insert(c, bytes, V)
  PROVE  IInv'
  <1> DEFINE i == id[c]
             s == snap[c]
             new == [value |-> Value[i][s],
                     dependencies |-> Capture(s, Declared[i][s]),
                     bytes |-> bytes]
  <1>1. i \in Identities /\ s \in Snapshots
    BY DEF IInv, Structure
  <1>2. new \in Entry
    <2>1. Value[i][s] \in Values /\ Declared[i][s] \in SUBSET Lookups
      BY <1>1, AnalysisAssumption DEF AnalysisAssumption
    <2>2. bytes \in Nat
      BY AnalysisAssumption DEF AnalysisAssumption
    <2> QED BY <1>1, <2>1, <2>2, CaptureType DEF Entry
  <1>3. entries' = [j \in (DOMAIN entries \ V) \cup {i} |->
                       IF j = i THEN new ELSE entries[j]]
    BY DEF Insert
  <1>4. /\ DOMAIN entries' \subseteq Identities
        /\ entries' \in [DOMAIN entries' -> Entry]
    BY <1>1, <1>2, <1>3 DEF IInv, Structure
  <1>5. EntriesInv'
    <2>1. ASSUME NEW j \in DOMAIN entries'
          PROVE  \E t \in Snapshots :
                    /\ entries'[j].value = Value[j][t]
                    /\ entries'[j].dependencies = Capture(t, Declared[j][t])
      <3>1. CASE j = i
        BY <1>1, <1>3, <3>1
      <3>2. CASE j # i
        BY <1>3, <2>1, <3>2 DEF IInv, EntriesInv
      <3> QED BY <3>1, <3>2
    <2> QED BY <2>1 DEF EntriesInv, Capture
  <1>6. rank' \in [Identities -> Nat]
    BY <1>1, TouchType DEF Insert, IInv
  <1>7. Built(c)
    BY DEF Insert
  <1> QED BY <1>4, <1>5, <1>6, <1>7, BuiltInv

(* A call that ends, however it ends, gives up its guard and its lock.     *)
LEMMA LeaveInv ==
  ASSUME IInv, NEW c \in Calls, Leave(c)
  PROVE  IInv'
  <1> USE DEF IInv, Leave, Moves
  <1>1. Structure'
    BY DEF Structure
  <1>2. LocksInv'
    BY DEF Structure, LocksInv, InUse
  <1>3. PlaceInv'
    BY DEF Structure, PlaceInv
  <1>4. EntriesInv'
    BY DEF EntriesInv
  <1>5. AnswersFit'
    BY DEF Structure, AnswersFit
  <1>6. ActiveWithinLimit'
    <2>1. InFlight' \subseteq InFlight
      BY DEF Structure, InFlight
    <2>2. /\ Cardinality(InFlight') <= Cardinality(InFlight)
          /\ Cardinality(InFlight') \in Nat
      BY <2>1, InFlightFinite, FS_Subset, FS_CardinalityType
    <2> QED
      BY <2>2, InFlightFinite, AnalysisAssumption
      DEF ActiveWithinLimit, AnalysisAssumption
  <1> QED BY <1>1, <1>2, <1>3, <1>4, <1>5, <1>6

-----------------------------------------------------------------------------
(* Every step keeps the invariant.                                         *)
LEMMA StepInv == IInv /\ [AnalysisNext]_analysisVars => IInv'
  <1> SUFFICES ASSUME IInv, [AnalysisNext]_analysisVars PROVE IInv'
    OBVIOUS
  <1>1. CASE UNCHANGED analysisVars
    <2>1. Structure' /\ LocksInv' /\ PlaceInv'
      BY <1>1 DEF IInv, Structure, LocksInv, PlaceInv, InUse, analysisVars, callVars
    <2>2. EntriesInv' /\ AnswersFit' /\ ActiveWithinLimit'
      BY <1>1 DEF IInv, EntriesInv, AnswersFit, ActiveWithinLimit, InFlight,
                  analysisVars, callVars
    <2> QED BY <2>1, <2>2 DEF IInv
  <1>2. ASSUME NEW c \in Calls, NEW i \in Identities, NEW s \in Snapshots, Look(c, i, s)
        PROVE  IInv'
    BY <1>2, LookInv
  <1>3. ASSUME NEW c \in Calls, Decide(c) PROVE IInv'
    BY <1>3, HitAtOnceInv, JoinInv, AdmitInv, RefuseInv DEF Decide
  <1>4. ASSUME NEW c \in Calls, LookAgain(c) PROVE IInv'
    BY <1>4, HitAfterWaitInv, StartBuildInv DEF LookAgain
  <1>5. ASSUME NEW c \in Calls, NEW bytes \in Sizes, ReturnOversized(c, bytes)
        PROVE  IInv'
    <2>1. Built(c) /\ entries' = entries /\ rank' = rank
      BY <1>5 DEF ReturnOversized
    <2>2. EntriesInv'
      BY <2>1 DEF IInv, EntriesInv
    <2> QED BY <2>1, <2>2, BuiltInv DEF IInv, Structure
  <1>6. ASSUME NEW c \in Calls, NEW bytes \in Sizes,
               NEW V \in SUBSET DOMAIN entries, Insert(c, bytes, V)
        PROVE  IInv'
    BY <1>6, InsertInv
  <1>7. ASSUME NEW c \in Calls, Leave(c) PROVE IInv'
    BY <1>7, LeaveInv
  <1> QED BY <1>1, <1>2, <1>3, <1>4, <1>5, <1>6, <1>7 DEF AnalysisNext, Finish

(* Entries come from one snapshot each, locks from one identity each, and  *)
(* callers hold what their place says, at all times.                       *)
THEOREM Invariant == AnalysisSpec => []IInv
  BY InitInv, StepInv, PTL DEF AnalysisSpec

(* A caller gets what a build on its own snapshot would give, whoever      *)
(* filled the cache and on whatever snapshot.                              *)
THEOREM AnswersFitSnapshots == AnalysisSpec => []AnswersFit
  <1>1. IInv => AnswersFit
    BY DEF IInv
  <1> QED BY <1>1, Invariant, PTL

(* No two calls build the analysis of one identity at once.                *)
THEOREM SingleBuilder == AnalysisSpec => []OneBuilder
  BY OneBuilderInv, Invariant, PTL

(* The identities in flight stay within max_active_keys.                   *)
THEOREM ActiveBounded == AnalysisSpec => []ActiveWithinLimit
  <1>1. IInv => ActiveWithinLimit
    BY DEF IInv
  <1> QED BY <1>1, Invariant, PTL

(* One call at a time is in the state mutex with its first look.           *)
OneLooks ==
    \A c, d \in Calls : place[c] = "looking" /\ place[d] = "looking" => c = d

LEMMA StepLooks == IInv /\ OneLooks /\ [AnalysisNext]_analysisVars => OneLooks'
  <1> SUFFICES ASSUME IInv, OneLooks, [AnalysisNext]_analysisVars PROVE OneLooks'
    OBVIOUS
  <1>0. place \in [Calls -> {"idle", "looking", "waiting", "building", "returning"}]
    BY DEF IInv, Structure
  <1>1. CASE UNCHANGED analysisVars
    BY <1>1 DEF OneLooks, analysisVars, callVars
  <1>2. ASSUME NEW c \in Calls, NEW i \in Identities, NEW s \in Snapshots, Look(c, i, s)
        PROVE  OneLooks'
    BY <1>0, <1>2 DEF Look, StateMutexFree, Moves, OneLooks
  <1>3. ASSUME NEW c \in Calls, NEW to, to # "looking", Moves(c, to) PROVE OneLooks'
    BY <1>0, <1>3 DEF Moves, OneLooks
  <1>4. ASSUME NEW c \in Calls, Decide(c) PROVE OneLooks'
    BY <1>3, <1>4 DEF Decide, HitAtOnce, Join, Admit, Refuse
  <1>5. ASSUME NEW c \in Calls, LookAgain(c) \/ Finish(c) \/ Leave(c) PROVE OneLooks'
    BY <1>3, <1>5 DEF LookAgain, HitAfterWait, StartBuild, Finish, ReturnOversized, Insert, Built, Leave
  <1> QED BY <1>1, <1>2, <1>4, <1>5 DEF AnalysisNext

(* A call is refused only when max_active_keys identities were in flight   *)
(* as its look began: calls that had ended by then, in whatever way, take  *)
(* no place, and nothing is recorded while it looks.                       *)
THEOREM RefusalsJustified == AnalysisSpec => RefusedOnlyWhenFull
  <1> DEFINE A(c) ==
          /\ place[c] = "idle" /\ place'[c] = "looking" => Recorded' \subseteq InFlight
          /\ place[c] = "looking" /\ place'[c] = "looking" => Recorded' = Recorded
          /\ place[c] = "looking" /\ place'[c] = "idle" =>
                Cardinality(Recorded) >= MaxActive
  <1>1. IInv /\ OneLooks /\ [AnalysisNext]_analysisVars => [\A c \in Calls : A(c)]_analysisVars
    <2> SUFFICES ASSUME IInv, OneLooks, AnalysisNext, NEW c \in Calls PROVE A(c)
      OBVIOUS
    <2>0. place \in [Calls -> {"idle", "looking", "waiting", "building", "returning"}]
      BY DEF IInv, Structure
    <2>1. ASSUME NEW d \in Calls, NEW i \in Identities, NEW s \in Snapshots, Look(d, i, s)
          PROVE  A(c)
      <3>1. Recorded' = {j \in Identities : Retain[j] # Nothing}
        BY <2>1 DEF Look, Recorded
      <3>2. Recorded' = InFlight
        BY <3>1, RetainIsInFlight DEF IInv
      <3> QED BY <2>0, <2>1, <3>2 DEF Look, StateMutexFree, Moves
    <2>2. ASSUME NEW d \in Calls, Decide(d) PROVE A(c)
      <3>1. CASE c = d
        BY <2>0, <2>2, <3>1 DEF Decide, HitAtOnce, Join, Admit, Refuse, Moves
      <3>2. CASE c # d
        BY <2>0, <2>2, <3>2 DEF Decide, HitAtOnce, Join, Admit, Refuse, Moves, OneLooks
      <3> QED BY <3>1, <3>2
    <2>3. ASSUME NEW d \in Calls, LookAgain(d) \/ Finish(d) \/ Leave(d) PROVE A(c)
      <3>1. active' = active /\ \E to \in {"idle", "building", "returning"} : Moves(d, to)
        BY <2>3 DEF LookAgain, HitAfterWait, StartBuild, Finish, ReturnOversized, Insert, Built, Leave
      <3>2. place[d] # "looking"
        BY <2>3 DEF LookAgain, HitAfterWait, StartBuild, Lock, Finish, ReturnOversized, Insert, Built, Leave
      <3> QED BY <2>0, <3>1, <3>2 DEF Moves, Recorded
    <2> QED BY <2>1, <2>2, <2>3 DEF AnalysisNext
  <1>2. AnalysisInit => OneLooks
    BY DEF AnalysisInit, OneLooks
  <1>3. AnalysisSpec => []OneLooks
    BY <1>2, StepLooks, Invariant, PTL DEF AnalysisSpec
  <1> QED BY <1>1, <1>3, Invariant, PTL DEF AnalysisSpec, RefusedOnlyWhenFull

-----------------------------------------------------------------------------
(* The books.  Bytes of different entries are different units.             *)

(* As many numbers as numbers with a mark.                                 *)
LEMMA Marked ==
  ASSUME NEW u, NEW n \in Nat
  PROVE  IsFiniteSet({u} \X (1..n)) /\ Cardinality({u} \X (1..n)) = n
  <1> DEFINE f == [k \in 1..n |-> <<u, k>>]
  <1>1. f \in Bijection(1..n, {u} \X (1..n))
    <2>1. f \in [1..n -> {u} \X (1..n)]
      OBVIOUS
    <2>2. \A k, m \in 1..n : f[k] = f[m] => k = m
      OBVIOUS
    <2>3. \A v \in {u} \X (1..n) : \E k \in 1..n : f[k] = v
      OBVIOUS
    <2> QED BY <2>1, <2>2, <2>3 DEF Bijection, Injection, Surjection, IsInjective
  <1>2. IsFiniteSet(1..n) /\ Cardinality(1..n) = n
    BY FS_Interval
  <1> QED BY <1>1, <1>2, FS_Bijection DEF ExistsBijection

LEMMA SameUnits ==
  ASSUME NEW e, NEW f, NEW I, \A i \in I : f[i].bytes = e[i].bytes
  PROVE  EntryUnits(f, I) = EntryUnits(e, I)
  BY DEF EntryUnits

(* Sizes of disjoint sets of entries add up.                               *)
LEMMA UnitsAdd ==
  ASSUME NEW e, NEW I, NEW J, I \cap J = {}, IsFiniteSet(EntryUnits(e, I)), IsFiniteSet(EntryUnits(e, J))
  PROVE  /\ IsFiniteSet(EntryUnits(e, I \cup J))
         /\ Cardinality(EntryUnits(e, I)) \in Nat /\ Cardinality(EntryUnits(e, J)) \in Nat
         /\ Cardinality(EntryUnits(e, I \cup J)) = Cardinality(EntryUnits(e, I)) + Cardinality(EntryUnits(e, J))
  <1> DEFINE A == EntryUnits(e, I)
             B == EntryUnits(e, J)
  <1>1. EntryUnits(e, I \cup J) = A \cup B /\ A \cap B = {}
    BY DEF EntryUnits
  <1>2. Cardinality(A) \in Nat /\ Cardinality(B) \in Nat
    BY FS_CardinalityType
  <1> HIDE DEF A, B
  <1>3. Cardinality(A \cap B) = 0
    BY <1>1, FS_EmptySet
  <1>4. /\ IsFiniteSet(A \cup B)
        /\ Cardinality(A \cup B) = Cardinality(A) + Cardinality(B) - Cardinality(A \cap B)
    BY FS_Union DEF A, B
  <1>5. Cardinality(A \cup B) = Cardinality(A) + Cardinality(B)
    BY <1>2, <1>3, <1>4
  <1> QED BY <1>1, <1>2, <1>4, <1>5 DEF A, B

LEMMA FewerUnits ==
  ASSUME NEW e, NEW I, NEW J, I \subseteq J, IsFiniteSet(EntryUnits(e, J))
  PROVE  IsFiniteSet(EntryUnits(e, I))
  <1>1. EntryUnits(e, I) \in SUBSET EntryUnits(e, J)
    BY DEF EntryUnits
  <1> QED BY <1>1, FS_Subset

(* retained_bytes is the size of the entries, and who builds an identity   *)
(* has taken its entry out.                                                *)
BooksInv ==
    /\ IInv
    /\ IsFiniteSet(EntryUnits(entries, DOMAIN entries))
    /\ RetainedIsSum
    /\ retained <= MaxBytes
    /\ Cardinality(DOMAIN entries) <= MaxEntries
    /\ \A c \in Calls : place[c] = "building" => id[c] \notin DOMAIN entries

LEMMA InitBooks == AnalysisInit => BooksInv
  <1> SUFFICES ASSUME AnalysisInit PROVE BooksInv
    OBVIOUS
  <1>1. EntryUnits(entries, DOMAIN entries) = {} /\ DOMAIN entries = {}
    BY DEF AnalysisInit, EntryUnits
  <1>2. IsFiniteSet({}) /\ Cardinality({}) = 0
    BY FS_EmptySet
  <1>3. IsFiniteSet(EntryUnits(entries, DOMAIN entries)) /\ RetainedIsSum
    BY <1>1, <1>2 DEF AnalysisInit, RetainedIsSum, EntryBytes
  <1>4. retained <= MaxBytes /\ Cardinality(DOMAIN entries) <= MaxEntries
    BY <1>1, <1>2, AnalysisAssumption DEF AnalysisAssumption, AnalysisInit
  <1>5. \A c \in Calls : place[c] = "building" => id[c] \notin DOMAIN entries
    BY <1>1
  <1> QED BY <1>3, <1>4, <1>5, InitInv DEF BooksInv

(* Steps that leave the entries as they are.                               *)
LEMMA SameBooks ==
  ASSUME BooksInv, IInv', UNCHANGED <<entries, retained>>,
         \A c \in Calls : place'[c] = "building" => place[c] = "building" /\ id'[c] = id[c]
  PROVE  BooksInv'
  BY DEF BooksInv, RetainedIsSum, EntryBytes

(* A stale entry leaves the books when it leaves the cache.                *)
LEMMA StartBuildBooks ==
  ASSUME BooksInv, NEW c \in Calls, StartBuild(c)
  PROVE  BooksInv'
  <1> DEFINE I == DOMAIN entries \cap {id[c]}
             J == DOMAIN entries \ {id[c]}
  <1>1. IInv'
    BY StartBuildInv DEF BooksInv
  <1>2. /\ retained' = retained - EntryBytes(I) /\ DOMAIN entries' = J
        /\ \A j \in J : entries'[j] = entries[j]
        /\ place' = [place EXCEPT ![c] = "building"] /\ id' = id
    BY DEF StartBuild, Lock, Moves, Restrict
  <1>3. I \cup J = DOMAIN entries /\ I \cap J = {}
    OBVIOUS
  <1>4. IsFiniteSet(EntryUnits(entries, I)) /\ IsFiniteSet(EntryUnits(entries, J))
    BY FewerUnits DEF BooksInv
  <1> HIDE DEF I, J
  <1>5. /\ Cardinality(EntryUnits(entries, I)) \in Nat /\ Cardinality(EntryUnits(entries, J)) \in Nat
        /\ retained = Cardinality(EntryUnits(entries, I)) + Cardinality(EntryUnits(entries, J))
    <2>1. retained = Cardinality(EntryUnits(entries, I \cup J))
      BY <1>3 DEF BooksInv, RetainedIsSum, EntryBytes
    <2>2. /\ Cardinality(EntryUnits(entries, I)) \in Nat /\ Cardinality(EntryUnits(entries, J)) \in Nat
          /\ Cardinality(EntryUnits(entries, I \cup J))
               = Cardinality(EntryUnits(entries, I)) + Cardinality(EntryUnits(entries, J))
      BY <1>3, <1>4, UnitsAdd
    <2> QED BY <2>1, <2>2
  <1>6. EntryUnits(entries', J) = EntryUnits(entries, J)
    BY <1>2, SameUnits
  <1>7. /\ IsFiniteSet(EntryUnits(entries', DOMAIN entries')) /\ RetainedIsSum' /\ retained' <= retained
    BY <1>2, <1>4, <1>5, <1>6 DEF RetainedIsSum, EntryBytes
  <1>8. Cardinality(DOMAIN entries') <= MaxEntries
    <2>1. IsFiniteSet(DOMAIN entries) /\ J \in SUBSET DOMAIN entries
      BY AnalysisAssumption, FS_Subset DEF AnalysisAssumption, BooksInv, IInv, Structure, J
    <2>2. Cardinality(J) <= Cardinality(DOMAIN entries) /\ Cardinality(J) \in Nat
          /\ Cardinality(DOMAIN entries) \in Nat
      BY <2>1, FS_Subset, FS_CardinalityType
    <2> QED BY <1>2, <2>2, AnalysisAssumption DEF AnalysisAssumption, BooksInv
  <1>9. retained \in Nat /\ retained' \in Nat
    BY <1>2, <1>5 DEF EntryBytes
  <1>10. retained' <= MaxBytes
    BY <1>7, <1>9, AnalysisAssumption DEF AnalysisAssumption, BooksInv
  <1>11. \A d \in Calls : place'[d] = "building" => id'[d] \notin DOMAIN entries'
    BY <1>2 DEF BooksInv, IInv, Structure, J
  <1> QED BY <1>1, <1>7, <1>8, <1>10, <1>11 DEF BooksInv

(* What is inserted was not there, as its builder took it out and is the   *)
(* only one; what is evicted leaves room for it.                           *)
LEMMA InsertBooks ==
  ASSUME BooksInv, NEW c \in Calls, NEW bytes \in Sizes, NEW V \in SUBSET DOMAIN entries,
         Insert(c, bytes, V)
  PROVE  BooksInv'
  <1> DEFINE i == id[c]
             J == DOMAIN entries \ V
  <1>1. IInv'
    BY InsertInv DEF BooksInv
  <1>2. i \notin DOMAIN entries /\ bytes \in Nat /\ place[c] = "building"
    BY AnalysisAssumption DEF AnalysisAssumption, BooksInv, Insert, Built
  <1>3. /\ retained' = retained - EntryBytes(V) + bytes /\ DOMAIN entries' = J \cup {i}
        /\ \A j \in J : entries'[j] = entries[j]
        /\ entries'[i].bytes = bytes
        /\ place' = [place EXCEPT ![c] = "returning"] /\ id' = id
        /\ Cardinality(J) < MaxEntries /\ bytes + (retained - EntryBytes(V)) <= MaxBytes
    BY <1>2 DEF Insert, Built, Moves, Evicts, RoomFor
  <1>4. V \cup J = DOMAIN entries /\ V \cap J = {}
    OBVIOUS
  <1>5. IsFiniteSet(EntryUnits(entries, V)) /\ IsFiniteSet(EntryUnits(entries, J))
    BY FewerUnits DEF BooksInv
  <1>6. i \notin J
    BY <1>2
  <1> HIDE DEF J
  <1>7. /\ Cardinality(EntryUnits(entries, V)) \in Nat /\ Cardinality(EntryUnits(entries, J)) \in Nat
        /\ retained = Cardinality(EntryUnits(entries, V)) + Cardinality(EntryUnits(entries, J))
    <2>1. retained = Cardinality(EntryUnits(entries, V \cup J))
      BY <1>4 DEF BooksInv, RetainedIsSum, EntryBytes
    <2>2. /\ Cardinality(EntryUnits(entries, V)) \in Nat /\ Cardinality(EntryUnits(entries, J)) \in Nat
          /\ Cardinality(EntryUnits(entries, V \cup J))
               = Cardinality(EntryUnits(entries, V)) + Cardinality(EntryUnits(entries, J))
      BY <1>4, <1>5, UnitsAdd
    <2> QED BY <2>1, <2>2
  <1>8. EntryUnits(entries', J) = EntryUnits(entries, J)
    BY <1>3, SameUnits
  <1>9. IsFiniteSet(EntryUnits(entries', {i})) /\ Cardinality(EntryUnits(entries', {i})) = bytes
    <2>1. EntryUnits(entries', {i}) = {i} \X (1..bytes)
      BY <1>3 DEF EntryUnits
    <2>2. PICK u : u = i
      OBVIOUS
    <2>3. IsFiniteSet({u} \X (1..bytes)) /\ Cardinality({u} \X (1..bytes)) = bytes
      BY <1>2, Marked
    <2> QED BY <2>1, <2>2, <2>3
  <1> HIDE DEF i
  <1>10. PICK new : new = entries'
    OBVIOUS
  <1>11. /\ IsFiniteSet(EntryUnits(new, J \cup {i}))
         /\ Cardinality(EntryUnits(new, J \cup {i}))
              = Cardinality(EntryUnits(new, J)) + Cardinality(EntryUnits(new, {i}))
    <2>1. J \cap {i} = {}
      BY <1>6
    <2> QED BY <1>5, <1>8, <1>9, <1>10, <2>1, UnitsAdd
  <1>12. IsFiniteSet(EntryUnits(entries', DOMAIN entries')) /\ RetainedIsSum'
    <2>1. Cardinality(EntryUnits(entries', DOMAIN entries')) = Cardinality(EntryUnits(entries, J)) + bytes
      BY <1>3, <1>8, <1>9, <1>10, <1>11
    <2>2. retained' = Cardinality(EntryUnits(entries, J)) + bytes
      BY <1>2, <1>3, <1>7 DEF EntryBytes
    <2> QED BY <1>3, <1>10, <1>11, <2>1, <2>2 DEF RetainedIsSum, EntryBytes
  <1>13. retained' <= MaxBytes
    <2>1. EntryBytes(V) \in Nat /\ retained \in Nat /\ MaxBytes \in Nat
      BY <1>7, AnalysisAssumption DEF AnalysisAssumption, EntryBytes
    <2> QED BY <1>2, <1>3, <2>1
  <1>14. Cardinality(DOMAIN entries') <= MaxEntries
    <2>1. IsFiniteSet(J)
      BY AnalysisAssumption, FS_Subset DEF AnalysisAssumption, BooksInv, IInv, Structure, J
    <2>2. Cardinality(J) \in Nat /\ Cardinality(J \cup {i}) = Cardinality(J) + 1
      BY <1>6, <2>1, FS_AddElement, FS_CardinalityType
    <2> QED BY <1>3, <2>2, AnalysisAssumption DEF AnalysisAssumption
  <1>15. \A d \in Calls : place'[d] = "building" => id'[d] \notin DOMAIN entries'
    <2> SUFFICES ASSUME NEW d \in Calls, place'[d] = "building" PROVE id'[d] \notin DOMAIN entries'
      OBVIOUS
    <2>1. d # c /\ place[d] = "building" /\ id'[d] = id[d]
      BY <1>3 DEF BooksInv, IInv, Structure
    <2>2. id[d] # i
      BY <1>2, <2>1, OneBuilderInv DEF BooksInv, OneBuilder, i
    <2> QED BY <1>3, <2>1, <2>2 DEF BooksInv, J
  <1> QED BY <1>1, <1>12, <1>13, <1>14, <1>15 DEF BooksInv

LEMMA StepBooks == BooksInv /\ [AnalysisNext]_analysisVars => BooksInv'
  <1> SUFFICES ASSUME BooksInv, [AnalysisNext]_analysisVars PROVE BooksInv'
    OBVIOUS
  <1>0. IInv' /\ place \in [Calls -> {"idle", "looking", "waiting", "building", "returning"}]
        /\ id \in [Calls -> Identities]
    BY StepInv DEF BooksInv, IInv, Structure
  <1>1. CASE UNCHANGED analysisVars
    BY <1>0, <1>1, SameBooks DEF analysisVars, callVars
  <1>2. ASSUME NEW c \in Calls, NEW i \in Identities, NEW s \in Snapshots, Look(c, i, s)
        PROVE  BooksInv'
    BY <1>0, <1>2, SameBooks DEF Look, Moves
  <1>3. ASSUME NEW c \in Calls, Decide(c) PROVE BooksInv'
    BY <1>0, <1>3, SameBooks DEF Decide, HitAtOnce, Join, Admit, Refuse, Moves
  <1>4. ASSUME NEW c \in Calls, HitAfterWait(c) PROVE BooksInv'
    BY <1>0, <1>4, SameBooks DEF HitAfterWait, Moves
  <1>5. ASSUME NEW c \in Calls, StartBuild(c) PROVE BooksInv'
    BY <1>5, StartBuildBooks
  <1>6. ASSUME NEW c \in Calls, NEW bytes \in Sizes, ReturnOversized(c, bytes)
        PROVE  BooksInv'
    BY <1>0, <1>6, SameBooks DEF ReturnOversized, Built, Moves
  <1>7. ASSUME NEW c \in Calls, NEW bytes \in Sizes,
               NEW V \in SUBSET DOMAIN entries, Insert(c, bytes, V)
        PROVE  BooksInv'
    BY <1>7, InsertBooks
  <1>8. ASSUME NEW c \in Calls, Leave(c) PROVE BooksInv'
    BY <1>0, <1>8, SameBooks DEF Leave, Moves
  <1> QED BY <1>1, <1>2, <1>3, <1>4, <1>5, <1>6, <1>7, <1>8 DEF AnalysisNext, LookAgain, Finish

LEMMA Books == AnalysisSpec => []BooksInv
  BY InitBooks, StepBooks, PTL DEF AnalysisSpec

(* retained_bytes is the sum of the entries, whoever removes, evicts and   *)
(* inserts: an identity is inserted only by the one call that removed it.  *)
THEOREM BooksBalance == AnalysisSpec => []RetainedIsSum
  <1>1. BooksInv => RetainedIsSum
    BY DEF BooksInv
  <1> QED BY <1>1, Books, PTL

(* The cache keeps within max_entries and max_retained_bytes.              *)
WithinLimits == retained <= MaxBytes /\ Cardinality(DOMAIN entries) <= MaxEntries

THEOREM CacheBounded == AnalysisSpec => []WithinLimits
  <1>1. BooksInv => WithinLimits
    BY DEF BooksInv, WithinLimits
  <1> QED BY <1>1, Books, PTL

(* Every variable holds a value of its kind; the unsigned retained_bytes   *)
(* does not underflow.                                                     *)
THEOREM Types == AnalysisSpec => []AnalysisTypeOK
  <1>1. BooksInv => AnalysisTypeOK
    BY FS_CardinalityType DEF BooksInv, IInv, AnalysisTypeOK, RetainedIsSum, EntryBytes
  <1> QED BY <1>1, Books, PTL

(* The eviction loop never runs out of entries: with all of them gone, an  *)
(* analysis that is not too large by itself fits (the expect of            *)
(* get_or_build).                                                          *)
RoomCanBeMade == \A bytes \in Sizes : bytes <= MaxBytes => RoomFor(DOMAIN entries, bytes)

THEOREM EvictionsSuffice == AnalysisSpec => []RoomCanBeMade
  <1>1. BooksInv => RoomCanBeMade
    <2> SUFFICES ASSUME BooksInv, NEW bytes \in Sizes, bytes <= MaxBytes
                 PROVE  RoomFor(DOMAIN entries, bytes)
      BY DEF RoomCanBeMade
    <2>1. Cardinality(DOMAIN entries \ DOMAIN entries) = 0
      BY FS_EmptySet
    <2>2. retained = EntryBytes(DOMAIN entries) /\ retained \in Nat
      BY FS_CardinalityType DEF BooksInv, RetainedIsSum, EntryBytes
    <2>3. bytes \in Nat /\ MaxEntries \in Nat \ {0} /\ MaxBytes \in Nat
      BY AnalysisAssumption DEF AnalysisAssumption
    <2> QED BY <2>1, <2>2, <2>3 DEF RoomFor
  <1> QED BY <1>1, Books, PTL
=============================================================================
