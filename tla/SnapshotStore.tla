--------------------------- MODULE SnapshotStore ---------------------------
(***************************************************************************)
(* What the materialization cache promises to its readers, whatever its    *)
(* files, locks and processes do: for every cache key at most one visible   *)
(* snapshot, which is always whole; a reader keeps the snapshot it was      *)
(* given, whole, until it lets go of it.  Materialization.tla is the        *)
(* design that implements this.                                            *)
(***************************************************************************)
CONSTANTS
    Keys,          \* cache keys
    Generations,   \* snapshot identities
    Requests,      \* the readers
    NoGen          \* "no snapshot"

VARIABLES
    visible,       \* key -> the snapshot a new reader is given, or NoGen
    whole,         \* the snapshots all of whose data can be read
    snapshot       \* reader -> the snapshot it reads, or NoGen

vars == <<visible, whole, snapshot>>

(* A snapshot somebody can still reach: through a key or through a reader. *)
Reachable(v, s) == {v[k] : k \in Keys} \cup {s[r] : r \in Requests}

Init ==
    /\ visible = [k \in Keys |-> NoGen]
    /\ whole = {}
    /\ snapshot = [r \in Requests |-> NoGen]

(* A snapshot's last byte arrives; nobody sees it yet. *)
Complete(g) ==
    /\ g \notin whole \cup Reachable(visible, snapshot)
    /\ whole' = whole \cup {g}
    /\ UNCHANGED <<visible, snapshot>>

(* A whole snapshot becomes the one of its key, and its maker reads it. *)
Publish(r, k, g) ==
    /\ g \in whole
    /\ g \notin Reachable(visible, snapshot)
    /\ snapshot[r] = NoGen
    /\ visible' = [visible EXCEPT ![k] = g]
    /\ snapshot' = [snapshot EXCEPT ![r] = g]
    /\ UNCHANGED whole

Open(r, k) ==
    /\ snapshot[r] = NoGen
    /\ visible[k] # NoGen
    /\ snapshot' = [snapshot EXCEPT ![r] = visible[k]]
    /\ UNCHANGED <<visible, whole>>

(* Eviction and invalidation take a snapshot from its key, not from its    *)
(* readers.                                                                *)
Withdraw(k) ==
    /\ visible' = [visible EXCEPT ![k] = NoGen]
    /\ UNCHANGED <<whole, snapshot>>

(* Some readers let go (one of them, or all those of a dying process), and *)
(* snapshots nobody can reach any longer lose their data.                  *)
Release(R, G) ==
    /\ snapshot' = [r \in Requests |-> IF r \in R THEN NoGen ELSE snapshot[r]]
    /\ G \cap Reachable(visible, snapshot') = {}
    /\ whole' = whole \ G
    /\ UNCHANGED visible

Next ==
    \/ \E g \in Generations : Complete(g)
    \/ \E r \in Requests, k \in Keys, g \in Generations : Publish(r, k, g)
    \/ \E r \in Requests, k \in Keys : Open(r, k)
    \/ \E k \in Keys : Withdraw(k)
    \/ \E R \in SUBSET Requests, G \in SUBSET whole : Release(R, G)

Spec == Init /\ [][Next]_vars

-----------------------------------------------------------------------------
TypeOK ==
    /\ visible \in [Keys -> Generations \cup {NoGen}]
    /\ whole \subseteq Generations
    /\ snapshot \in [Requests -> Generations \cup {NoGen}]

(* Whatever can be reached is whole: the contract readers rely on. *)
ReachableIsWhole ==
    Reachable(visible, snapshot) \subseteq whole \cup {NoGen}
=============================================================================
