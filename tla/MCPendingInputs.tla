-------------------------- MODULE MCPendingInputs --------------------------
(* Instances of PendingInputs for TLC: see the .cfg files. *)
EXTENDS PendingInputs, TLC

Symmetry == Permutations(Clients) \cup Permutations(Workers) \cup Permutations(Ids)
=============================================================================
