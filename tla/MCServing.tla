----------------------------- MODULE MCServing -----------------------------
(***************************************************************************)
(* Instances of two parts that share no state and hold what others wait    *)
(* for: the native write transactions with their connections, the deferred *)
(* providers with their locks and permits. A behaviour is one of one of    *)
(* them; the other stays as it is initially, where no step of its own that *)
(* fairness asks for is possible. Table e2 recorded another schema of the  *)
(* source than the others.                                                 *)
(***************************************************************************)
EXTENDS MCWriteSession, DeferredProviders

VARIABLE part
servingVars == <<part, vars, deferredVars>>

(* Three tables at an admission of two: one scan can be refused while      *)
(* others wait for a permit or for the lock of their table.                *)
CONSTANTS s1, s2, s3, e1, e2, e3

TablesOf == s1 :> {e1} @@ s2 :> {e1, e2} @@ s3 :> {e1, e3}
Contracts == [tab \in Deferred |-> [source |-> "s", schema |-> IF tab = e2 THEN "y" ELSE "x"]]

ServingInit ==
    /\ part \in {"session", "providers"}
    /\ part = "providers" \/ live = [src \in Sources |-> "x"]
    /\ Init /\ DeferredInit

ServingNext ==
    /\ UNCHANGED part
    /\ \/ part = "session" /\ Next /\ UNCHANGED deferredVars
       \/ part = "providers" /\ DeferredNext /\ UNCHANGED vars

ServingSpec ==
    /\ ServingInit /\ [][ServingNext]_servingVars
    /\ Fairness /\ DeferredFairness
=============================================================================
