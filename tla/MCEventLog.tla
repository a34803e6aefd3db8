----------------------------- MODULE MCEventLog -----------------------------
(* Instances of EventLog for TLC: see the .cfg files. *)
EXTENDS EventLog, TLC

Symmetric == Permutations(Emitters) \cup Permutations(Messages)
=============================================================================
