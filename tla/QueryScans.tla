----------------------------- MODULE QueryScans -----------------------------
(***************************************************************************)
(* The scans of queries: crates/semantic-engine/src/query.rs plans and     *)
(* reads under QueryContext::run, and what run() awaits is the resolution  *)
(* of a deferred provider.  The scan moves while run() polls it; when      *)
(* run() ends early, woken by cancel() or late, the future of the scan is  *)
(* dropped where it waits.                                                 *)
(***************************************************************************)
EXTENDS QueryContext, DeferredProviders

ASSUME ScansAreTasks == Scans = Tasks

scanVars == <<queryVars, deferredVars>>

QueryScansInit == QueryInit /\ DeferredInit

(* run() before, between and after the polls of the scan.                  *)
AwaitScan(t) ==
    /\ \/ Enable(t) \/ RefuseRun(t) \/ Wait(t) \/ Poll(t)
       \/ Pend(t) /\ Awaiting(t)
    /\ UNCHANGED deferredVars

(* The scan is polled and moves on.                                        *)
PollScan(t) ==
    /\ runs[t] = "polling"
    /\ ScanStep(t) \/ \E tab \in Deferred : BeginScan(t, tab)
    /\ UNCHANGED queryVars

(* The scan is ready and run() returns its provider or its error.          *)
ReturnScan(t) == Complete(t) /\ Over(t) /\ LeaveScan(t)

(* run() ends and drops the future it was waiting for.                     *)
DropScan(t) ==
    \/ Wake(t) /\ scan[t] = "idle" /\ UNCHANGED deferredVars
    \/ Wake(t) /\ Awaiting(t) /\ LeaveScan(t)
    \/ TimeOut(t) /\ Awaiting(t) /\ LeaveScan(t)

QueryScansNext ==
    \/ \E q \in Queries : CancelOrExpire(q) /\ UNCHANGED deferredVars
    \/ \E t \in Tasks : AwaitScan(t) \/ PollScan(t) \/ ReturnScan(t) \/ DropScan(t)
    \/ \E src \in Sources, schema \in Schemas :
           Drift(src, schema) /\ UNCHANGED queryVars

QueryScansSpec == QueryScansInit /\ [][QueryScansNext]_scanVars
=============================================================================
