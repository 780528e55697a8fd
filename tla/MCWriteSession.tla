--------------------------- MODULE MCWriteSession ---------------------------
(***************************************************************************)
(* The sizes at which native write transactions are checked.               *)
(***************************************************************************)
EXTENDS WriteSession, TLC

Symmetric == Permutations(Connections) \cup Permutations(Tables)
=============================================================================
