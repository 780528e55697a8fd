-------------------------- MODULE MCAnalysisCache --------------------------
(***************************************************************************)
(* Small catalogs for the analysis cache.  The value of an analysis is     *)
(* what its lookups found.  Most identities look up one name; one looks up *)
(* a second name if it finds the first, which one snapshot does not have.  *)
(* Two calls may meet on that one; a third keeps another place busy and    *)
(* has its entry evicted.  Calls ask for what Asked says.                  *)
(***************************************************************************)
EXTENDS AnalysisCache, TLC

CONSTANTS a, b, adaptive, i1, i2, c1, c2, c3, x, y, s2, s3, l1, l2

Found == s2 :> (a :> Nothing @@ b :> x) @@ s3 :> (a :> x @@ b :> y)
FoundBy == [s \in Snapshots |-> Found[s]]
Looks == [i \in Identities |-> [s \in Snapshots |->
             IF i # adaptive THEN {b}
             ELSE IF Found[s][a] = Nothing THEN {a} ELSE {a, b}]]
Analysis == [i \in Identities |-> [s \in Snapshots |->
                [l \in Looks[i][s] |-> Found[s][l]]]]
Analyses == {Analysis[i][s] : i \in Identities, s \in Snapshots}

Asked == c1 :> {adaptive} \X Snapshots @@ c2 :> {adaptive, i1} \X Snapshots @@ c3 :> {<<i2, s3>>}

AskedInit == /\ AnalysisInit
             /\ \A c \in Calls : id[c] = CHOOSE i \in Identities : <<i, s3>> \in Asked[c]
             /\ snap = [c \in Calls |-> s3]

LockOrder == l1 :> 1 @@ l2 :> 2

(* The names of the locks mean nothing: a new one gets the first that is free. *)
FirstFree == \A c \in Calls, l \in Locks :
    lockOf'[c] \notin {lockOf[c], Nothing} /\ ~InUse(lockOf'[c]) /\ FreeLock(l)
        => LockOrder[lockOf'[c]] <= LockOrder[l]

AskedNext == AnalysisNext /\ FirstFree /\ \A c \in Calls : <<id'[c], snap'[c]>> \in Asked[c]
=============================================================================
