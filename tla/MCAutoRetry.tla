---------------------------- MODULE MCAutoRetry ----------------------------
(* AutoRetry for TLC.  Liveness is checked, so no symmetry is declared; the *)
(* choice of a free timer in ArmCreate and Restart is deterministic, since  *)
(* identities make no difference.                                           *)
EXTENDS AutoRetry
=============================================================================
