------------------------------ MODULE MCWaits ------------------------------
(***************************************************************************)
(* Instances of two parts that share no state and hold what others wait    *)
(* for: the analysis cache with its builders, the materialization cache    *)
(* with its lock files.  A behaviour is one of one part; the other stays   *)
(* as it is initially, where no step of its own that fairness asks for is  *)
(* possible.  Of the files, three requests use them while every fsync      *)
(* succeeds, or two while the one after a rename may fail.                 *)
(***************************************************************************)
EXTENDS MCAnalysisCache, MCMaterialization

VARIABLE part
waitsVars == <<part, analysisVars, vars>>

(* Where the analysis cache stands in the behaviours not about it.         *)
AnalysesRest == rank = CHOOSE f \in [Identities -> 1..Cardinality(Identities)] : IsInjective(f)

WaitsInit ==
    /\ part \in {"analyses", "files", "unsynced"}
    /\ part = "analyses" \/ AnalysesRest
    /\ AskedInit /\ Init

WaitsNext ==
    /\ UNCHANGED part
    /\ \/ part = "analyses" /\ AskedNext /\ UNCHANGED vars
       \/ /\ part \in {"files", "unsynced"} /\ Next /\ UNCHANGED analysisVars
          /\ part = "files" => \A r \in Requests : pc[r] = "publish" => pc'[r] # "abort"
          /\ part = "unsynced" => pc'[r2] = "idle"

WaitsSpec ==
    /\ WaitsInit /\ [][WaitsNext]_waitsVars
    /\ AnalysisFairness /\ \A r \in Requests : WF_vars(Progress(r))
=============================================================================
