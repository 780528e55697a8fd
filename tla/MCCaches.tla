------------------------------ MODULE MCCaches ------------------------------
(***************************************************************************)
(* Two instances of the materialization cache that share no state. In      *)
(* "crash" one request in each of two processes uses two keys while the    *)
(* clock moves, with fills of one batch and no memory tier; in "shared"    *)
(* two requests of one process and one of another meet on one key with     *)
(* fills of several batches, the clock stands, and the request of the      *)
(* other process is the one that invalidates. A behaviour is one of one of *)
(* them.                                                                   *)
(***************************************************************************)
EXTENDS MCMaterialization

VARIABLE part
cachesVars == <<part, vars>>

Small == INSTANCE Materialization WITH
    MaxDisk <- 2, MaxMemory <- 0, MaxFill <- FillOne, MaxEncoded <- 1, MaxClock <- 1,
    TornManifest <- FALSE

CachesInit == part \in {"crash", "shared"} /\ Init

CachesNext ==
    /\ UNCHANGED part
    /\ \/ part = "crash" /\ Small!Next /\ pc'[r2] = "idle"
       \/ /\ part = "shared" /\ Next
          /\ \E k \in Keys : /\ \A r \in Requests : key'[r] \in {k, None}
                             /\ \A g \in Generations : info'[g].key \in {k, None}
          /\ "inv_refresh" \notin {pc'[r1], pc'[r2]}

CachesSpec == CachesInit /\ [][CachesNext]_cachesVars
=============================================================================
