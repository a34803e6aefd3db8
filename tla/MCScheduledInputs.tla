------------------------- MODULE MCScheduledInputs -------------------------
(* Symmetry for ScheduledInputs: neither inputs nor goroutine slots are told apart. *)
EXTENDS ScheduledInputs, TLC

Symmetric == Permutations(Inputs) \cup Permutations(Callbacks)
=============================================================================
