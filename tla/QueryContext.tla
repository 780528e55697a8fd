---------------------------- MODULE QueryContext ----------------------------
(***************************************************************************)
(* The context a query shares with everything it starts: QueryContext of   *)
(* crates/semantic-runtime/src/lib.rs.  It carries the cancellation of the *)
(* query, its deadline and its budgets.  Tasks wait for operations through *)
(* run(), partitions charge the budgets from other threads, and cancel()   *)
(* comes from anywhere.  One counter stands for the three, which share one *)
(* function; a second cancel() stores and wakes nothing new, so there is   *)
(* one per query.                                                          *)
(***************************************************************************)
EXTENDS Integers, FiniteSets

CONSTANTS
    Queries,
    Tasks,         \* what waits for operations through run()
    Partitions,    \* what charges the budgets
    Owner,         \* task or partition -> its query
    Amounts,       \* bound: the bytes one charge may ask for
    Budget,        \* the limit of the counter
    MaxUsize       \* the largest usize

ASSUME QueryAssumption ==
    /\ IsFiniteSet(Partitions)
    /\ Owner \in [Tasks \cup Partitions -> Queries]
    /\ MaxUsize \in Nat
    /\ Amounts \subseteq 0..MaxUsize
    /\ Budget \in 0..MaxUsize

VARIABLES
    cancelled,    \* query -> the flag of cancel()
    cancelling,   \* query -> how far its cancel() has come
    expired,      \* query -> whether its deadline has passed
    runs,         \* task -> where its run() is
    signalled,    \* task -> whether its Notified is complete
    spent,        \* query -> the counter
    charging,     \* partition -> where its charge is
    asked,        \* partition -> the bytes it is charging
    seen,         \* partition -> the count its fetch_update has loaded
    charged       \* history: partition -> the bytes accepted from it

cancelVars == <<cancelled, cancelling, expired>>
runVars == <<runs, signalled>>
chargeVars == <<spent, charging, asked, seen, charged>>
queryVars == <<cancelVars, runVars, chargeVars>>

QueryInit ==
    /\ cancelled = [q \in Queries |-> FALSE]
    /\ cancelling = [q \in Queries |-> "no"]
    /\ expired = [q \in Queries |-> FALSE]
    /\ runs = [t \in Tasks |-> "idle"]
    /\ signalled = [t \in Tasks |-> FALSE]
    /\ spent = [q \in Queries |-> 0]
    /\ charging = [p \in Partitions |-> "idle"]
    /\ asked = [p \in Partitions |-> 0]
    /\ seen = [p \in Partitions |-> 0]
    /\ charged = [p \in Partitions |-> 0]

(* check(): the query is neither cancelled nor late.                       *)
MayGoOn(q) == ~cancelled[q] /\ ~expired[q]

-----------------------------------------------------------------------------
(* cancel() stores the flag, then wakes who is registered at that moment.  *)

StoreCancel(q) ==
    /\ cancelling[q] = "no"
    /\ cancelled' = [cancelled EXCEPT ![q] = TRUE]
    /\ cancelling' = [cancelling EXCEPT ![q] = "stored"]
    /\ UNCHANGED <<expired, runVars, chargeVars>>

(* Mutant: without enable(), a task is registered when it is polled.       *)
RegisteredMutant(t) == runs[t] = "polling"

(* A task is registered from enable() until its run() ends.                *)
Registered(t) == runs[t] \in {"enabled", "waiting", "polling"}

NotifyWaiters(q) ==
    /\ cancelling[q] = "stored"
    /\ signalled' = [t \in Tasks |->
                        signalled[t] \/ (Owner[t] = q /\ Registered(t))]
    /\ cancelling' = [cancelling EXCEPT ![q] = "done"]
    /\ UNCHANGED <<cancelled, expired, runs, chargeVars>>

(* The clock reaches the deadline.                                         *)
Expire(q) ==
    /\ ~expired[q]
    /\ expired' = [expired EXCEPT ![q] = TRUE]
    /\ UNCHANGED <<cancelled, cancelling, runVars, chargeVars>>

-----------------------------------------------------------------------------
(* run(): register for the notification, then check, then wait.            *)

Enable(t) ==
    /\ runs[t] = "idle"
    /\ runs' = [runs EXCEPT ![t] = "enabled"]
    /\ signalled' = [signalled EXCEPT ![t] = FALSE]
    /\ UNCHANGED <<cancelVars, chargeVars>>

RunGoes(t, to) ==
    /\ runs' = [runs EXCEPT ![t] = to]
    /\ UNCHANGED <<cancelVars, signalled, chargeVars>>

RefuseRun(t) ==
    /\ runs[t] = "enabled"
    /\ ~MayGoOn(Owner[t])
    /\ RunGoes(t, "idle")

Wait(t) ==
    /\ runs[t] = "enabled"
    /\ MayGoOn(Owner[t])
    /\ RunGoes(t, "waiting")

(* select! is biased: each poll looks at the notification first, then    *)
(* polls the operation, and the deadline when that is not ready.           *)
Wake(t) ==
    /\ runs[t] = "waiting"
    /\ signalled[t]
    /\ RunGoes(t, "idle")

Poll(t) ==
    /\ runs[t] = "waiting"
    /\ ~signalled[t]
    /\ RunGoes(t, "polling")

Complete(t) ==
    /\ runs[t] = "polling"
    /\ RunGoes(t, "idle")

Pend(t) ==
    /\ runs[t] = "polling"
    /\ ~expired[Owner[t]]
    /\ RunGoes(t, "waiting")

TimeOut(t) ==
    /\ runs[t] = "polling"
    /\ expired[Owner[t]]
    /\ RunGoes(t, "idle")

-----------------------------------------------------------------------------
(* charge(): after the check, fetch_update loads the counter and repeats   *)
(* its compare-and-exchange until nobody comes between.                    *)
StartCharge(p, n) ==
    /\ charging[p] = "idle"
    /\ MayGoOn(Owner[p])
    /\ charging' = [charging EXCEPT ![p] = "loading"]
    /\ asked' = [asked EXCEPT ![p] = n]
    /\ UNCHANGED <<cancelVars, runVars, spent, seen, charged>>

(* The first load, or the value a failed exchange returns.                 *)
Load(p) ==
    /\ \/ charging[p] = "loading"
       \/ charging[p] = "updating" /\ spent[Owner[p]] # seen[p]
    /\ seen' = [seen EXCEPT ![p] = spent[Owner[p]]]
    /\ charging' = [charging EXCEPT ![p] = "updating"]
    /\ UNCHANGED <<cancelVars, runVars, spent, asked, charged>>

(* Mutant: the sum wraps before it is compared.                            *)
AffordableMutant(p) == (seen[p] + asked[p]) % (MaxUsize + 1) <= Budget

(* checked_add, then the limit.                                            *)
Affordable(p) ==
    /\ seen[p] + asked[p] <= MaxUsize
    /\ seen[p] + asked[p] <= Budget

(* Mutant: stores without comparing.                                       *)
ExchangeMutant(p) ==
    /\ charging[p] = "updating"
    /\ Affordable(p)
    /\ spent' = [spent EXCEPT ![Owner[p]] = seen[p] + asked[p]]
    /\ charged' = [charged EXCEPT ![p] = @ + asked[p]]
    /\ charging' = [charging EXCEPT ![p] = "idle"]
    /\ UNCHANGED <<cancelVars, runVars, asked, seen>>

Exchange(p) ==
    /\ charging[p] = "updating"
    /\ Affordable(p)
    /\ spent[Owner[p]] = seen[p]
    /\ spent' = [spent EXCEPT ![Owner[p]] = seen[p] + asked[p]]
    /\ charged' = [charged EXCEPT ![p] = @ + asked[p]]
    /\ charging' = [charging EXCEPT ![p] = "idle"]
    /\ UNCHANGED <<cancelVars, runVars, asked, seen>>

(* The bytes are refused and the counter keeps what it had.                *)
Exhaust(p) ==
    /\ charging[p] = "updating"
    /\ ~Affordable(p)
    /\ charging' = [charging EXCEPT ![p] = "idle"]
    /\ UNCHANGED <<cancelVars, runVars, spent, asked, seen, charged>>

-----------------------------------------------------------------------------
CancelOrExpire(q) == StoreCancel(q) \/ NotifyWaiters(q) \/ Expire(q)

ChargeStep(p) ==
    \/ \E n \in Amounts : StartCharge(p, n)
    \/ Load(p) \/ Exchange(p) \/ Exhaust(p)

QueryNext ==
    \/ \E q \in Queries : CancelOrExpire(q)
    \/ \E t \in Tasks : \/ Enable(t) \/ RefuseRun(t) \/ Wait(t)
                        \/ Wake(t) \/ Poll(t) \/ Pend(t) \/ Complete(t)
                        \/ TimeOut(t)
    \/ \E p \in Partitions : ChargeStep(p)

QuerySpec == QueryInit /\ [][QueryNext]_queryVars

-----------------------------------------------------------------------------
(* Properties.                                                             *)

(* The bytes accepted for q, counted one by one.                           *)
BytesFrom(p) == {p} \X (1..charged[p])
ChargesOf(q) == Cardinality(UNION {BytesFrom(p) : p \in {p \in Partitions : Owner[p] = q}})

(* The state of run(), cancel() and charge() has its type.                 *)
QueryTypeOK ==
    /\ cancelled \in [Queries -> BOOLEAN]
    /\ cancelling \in [Queries -> {"no", "stored", "done"}]
    /\ expired \in [Queries -> BOOLEAN]
    /\ runs \in [Tasks -> {"idle", "enabled", "waiting", "polling"}]
    /\ signalled \in [Tasks -> BOOLEAN]
    /\ spent \in [Queries -> 0..MaxUsize]
    /\ charging \in [Partitions -> {"idle", "loading", "updating"}]
    /\ asked \in [Partitions -> Amounts \cup {0}]
    /\ seen \in [Partitions -> 0..MaxUsize]
    /\ charged \in [Partitions -> Nat]

(* Partitions that charge at the same time lose none of each other's       *)
(* bytes: the counter is the sum of what was accepted, and that sum, not   *)
(* only the counter, stays within the budget.                              *)
ChargesAddUp ==
    \A q \in Queries : /\ spent[q] = ChargesOf(q)
                       /\ ChargesOf(q) <= Budget

(* A cancel() that comes between the check of run() and its wait still     *)
(* reaches it: once cancel() is through, whoever waits for an operation of *)
(* the query has been woken, though the operation may never be ready.      *)
NoWakeupIsLost ==
    \A t \in Tasks :
        cancelling[Owner[t]] = "done" /\ runs[t] \in {"waiting", "polling"}
            => signalled[t]

(* Once cancel() has returned, no operation of the query is polled again,  *)
(* whether its run() was about to wait, waiting, or had not begun.         *)
CancelIsFinal ==
    [][\A t \in Tasks :
          runs'[t] = "polling" /\ runs[t] # "polling"
              => cancelling[Owner[t]] # "done"]_queryVars
=============================================================================
