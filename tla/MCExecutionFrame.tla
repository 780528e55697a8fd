-------------------------- MODULE MCExecutionFrame --------------------------
(***************************************************************************)
(* A small catalog for execution_frame: a base relation, a view of it      *)
(* without a policy, and a materialized view of that view with a stricter  *)
(* policy than the base relation's.                                        *)
(***************************************************************************)
EXTENDS ExecutionFrame, TLC

CONSTANTS source, bridge, strict, q1, q2

Catalog == source :> {} @@ bridge :> {source} @@ strict :> {bridge}
InputsFirst == <<source, bridge, strict>>
Policies == [q \in Queries |-> source :> 3 @@ strict :> 1]
Unlimited == MaxClock + 1
Ask(root, age, refresh) == [root |-> root, age |-> age, refresh |-> refresh]
Asked == {Ask(strict, Unlimited, {}), Ask(strict, Unlimited, {source}),
          Ask(source, 1, {})}

Interchangeable == Permutations(Generations) \cup Permutations(Queries)
=============================================================================
