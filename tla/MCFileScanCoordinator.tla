----------------------- MODULE MCFileScanCoordinator -----------------------
EXTENDS FileScanCoordinator, TLC

CONSTANTS a, b, status, stats, other

\* two kinds of scan of one repository and one of another
Both == (status :> a @@ stats :> a @@ other :> b)
Single == [k \in Keys |-> a]

Symmetry == Permutations(Callers) \cup Permutations(Keys \ {other})

=============================================================================
