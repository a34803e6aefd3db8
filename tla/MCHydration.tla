----------------------------- MODULE MCHydration -----------------------------
\* Hydration for TLC.
EXTENDS Hydration
=============================================================================
