---------------------------- MODULE AtomicWrites ----------------------------
(***************************************************************************)
(* What native writes promise, whatever calls are dropped, answers are     *)
(* lost and connections are closed: the changes of a transaction are its   *)
(* own until it ends; at one moment all of them become durable, or none    *)
(* ever does; and what its owner is told of that, once, is true and stays  *)
(* true.  WriteSession.tla is the design that implements this.             *)
(***************************************************************************)
CONSTANTS
    Handles,       \* the transactions
    Tables,        \* tables written
    None           \* nobody, or nothing told

VARIABLES
    state,         \* handle -> "idle", "open" or "over"
    written,       \* handle -> tables its open transaction has changed
    holder,        \* table -> the transaction that may change it, or None
    accepted,      \* handle -> tables whose change was reported applied
    durable,       \* handle -> tables whose changes are committed
    outcome        \* handle -> what its owner was told at the end, or None

vars == <<state, written, holder, accepted, durable, outcome>>

Init ==
    /\ state = [h \in Handles |-> "idle"]
    /\ written = [h \in Handles |-> {}]
    /\ holder = [t \in Tables |-> None]
    /\ accepted = [h \in Handles |-> {}]
    /\ durable = [h \in Handles |-> {}]
    /\ outcome = [h \in Handles |-> None]

(* The owner may be refused although a transaction has begun.              *)
Begin(h) ==
    /\ state[h] = "idle"
    /\ state' = [state EXCEPT ![h] = "open"]
    /\ outcome' \in {outcome, [outcome EXCEPT ![h] = "Refused"]}
    /\ UNCHANGED <<written, holder, accepted, durable>>

(* A table is changed by one transaction at a time.                        *)
Write(h, t) ==
    /\ state[h] = "open"
    /\ holder[t] \in {None, h}
    /\ holder' = [holder EXCEPT ![t] = h]
    /\ written' = [written EXCEPT ![h] = @ \cup {t}]
    /\ UNCHANGED <<state, accepted, durable, outcome>>

(* The owner is told that a change was applied, before anything is durable. *)
Accept(h, t) ==
    /\ outcome[h] = None /\ durable[h] = {}
    /\ state[h] # "idle"
    /\ state[h] = "open" => t \in written[h]
    /\ accepted' = [accepted EXCEPT ![h] = @ \cup {t}]
    /\ UNCHANGED <<state, written, holder, durable, outcome>>

(* Everything that was accepted becomes durable and nothing else, and only *)
(* where the owner was not told that nothing would; or all is undone.      *)
End(h) ==
    /\ state[h] = "open"
    /\ state' = [state EXCEPT ![h] = "over"]
    /\ written' = [written EXCEPT ![h] = {}]
    /\ holder' = [t \in Tables |-> IF holder[t] = h THEN None ELSE holder[t]]
    /\ \/ UNCHANGED durable
       \/ /\ written[h] = accepted[h]
          /\ outcome[h] \in {None, "OutcomeUnknown"}
          /\ durable' = [durable EXCEPT ![h] = written[h]]
    /\ UNCHANGED <<accepted, outcome>>

(* "OutcomeUnknown" is the one answer that promises nothing.               *)
Tell(h, told) ==
    /\ outcome[h] = None
    /\ state[h] # "idle"
    /\ told = "Committed" => state[h] = "over" /\ durable[h] = accepted[h]
    /\ told \in {"Aborted", "Refused"} => durable[h] = {}
    /\ outcome' = [outcome EXCEPT ![h] = told]
    /\ UNCHANGED <<state, written, holder, accepted, durable>>

Next ==
    \E h \in Handles :
        \/ Begin(h) \/ End(h)
        \/ \E t \in Tables : Write(h, t) \/ Accept(h, t)
        \/ \E told \in {"Committed", "Aborted", "OutcomeUnknown", "Refused"} : Tell(h, told)

Spec == Init /\ [][Next]_vars
=============================================================================
