---------------------------- MODULE MCQueryPath ----------------------------
(***************************************************************************)
(* Instances of the parts a query passes that share no state: the catalog  *)
(* that resolves it, the graph compiler, the scans and the charges under   *)
(* its context.  A behaviour is one of one part; the others stay as they   *)
(* are initially.  Of the catalog, two writers publish, or one while a     *)
(* reader searches.                                                        *)
(***************************************************************************)
EXTENDS MCCatalogStore, MCQueryGraph, QueryScans, TLC

VARIABLE part
pathVars == <<part, catalogVars, graphVars, scanVars>>

(* A query with three scans and two partitions; e1 and e2 are tables       *)
(* of one relation, e3 and e4 recorded other schemas of the same source.   *)
CONSTANTS q1, t1, t2, t3, p1, p2, e1, e2, e3, e4

OwnerOf == [x \in Tasks \cup Partitions |-> q1]
TablesOf == t1 :> {e1} @@ t2 :> {e1, e2} @@ t3 :> {e3, e4}
Schema == e1 :> "x" @@ e2 :> "x" @@ e3 :> "y" @@ e4 :> "z"
Contracts == [tab \in Deferred |-> [source |-> "s", schema |-> Schema[tab]]]

-----------------------------------------------------------------------------
(* Where the parts stand that a behaviour is not about.                    *)
CatalogRests == snapshots = <<Snapshot([n \in Names |-> Absent], [n \in Names |-> {}], Absent, Absent)>>
GraphRests == GraphStart(<<RowsOf("total")>>)
ScansRest == live = [src \in Sources |-> "x"]

PathInit ==
    /\ part \in {"catalog", "search", "graph", "scans", "charges"}
    /\ part \in {"catalog", "search"} \/ CatalogRests
    /\ part = "graph" \/ GraphRests
    /\ part = "scans" \/ ScansRest
    /\ CatalogInit /\ GraphInit /\ QueryInit /\ DeferredInit

PathNext ==
    /\ UNCHANGED part
    /\ \/ part = "catalog" /\ UNCHANGED <<reader, graphVars, scanVars>> /\ CatalogNext
       \/ /\ part = "search" /\ CatalogNext /\ UNCHANGED <<graphVars, scanVars>>
          /\ publisher'["w2"] = publisher["w2"]
       \/ part = "graph" /\ GraphNext /\ UNCHANGED <<catalogVars, scanVars>>
       \/ part = "scans" /\ QueryScansNext /\ UNCHANGED <<catalogVars, graphVars>>
       \/ /\ part = "charges"
          /\ \/ \E p \in Partitions : ChargeStep(p)
             \/ \E q \in Queries : CancelOrExpire(q)
          /\ UNCHANGED <<catalogVars, graphVars, deferredVars>>

PathSpec == PathInit /\ [][PathNext]_pathVars

(* Every part keeps the types of its variables: among them, a grain names slots its node has, *)
(* and the counters of budgets and admissions stay within their machine types.                *)
PathTypeOK == GraphTypeOK /\ QueryTypeOK /\ DeferredTypeOK
=============================================================================
