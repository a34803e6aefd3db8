------------------------------ MODULE MCCodexRun ------------------------------
\* CodexRun for TLC.
EXTENDS CodexRun
CONSTANTS c1, c2
=============================================================================
