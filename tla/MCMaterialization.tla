------------------------- MODULE MCMaterialization -------------------------
(***************************************************************************)
(* The sizes at which the materialization cache is checked.                *)
(***************************************************************************)
EXTENDS Materialization, TLC

CONSTANTS m1, m2, r1, r2, r3

(* One request in each of two processes, or two in the first.              *)
HomePairs == r1 :> m1 @@ r2 :> m2
HomeThree == r1 :> m1 @@ r2 :> m1 @@ r3 :> m2
FillOne == [m \in Managers |-> 1]
FillTwo == [m \in Managers |-> 2]
AgeOne == [m \in Managers |-> 1]

Symmetric == Permutations(Generations) \cup Permutations(Keys)
=============================================================================
