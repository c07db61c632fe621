------------------------ MODULE MCDurableOperations ------------------------
(* Small instances of DurableOperations for TLC. *)
EXTENDS DurableOperations, TLC

MCSymmetry == Permutations(Operations) \cup Permutations(Workspaces)
=============================================================================
