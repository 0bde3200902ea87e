----------------------- MODULE MCSnapshotCacheHistory -----------------------
(* Small instances of SnapshotCacheHistory for TLC.                        *)
EXTENDS SnapshotCacheHistory, TLC

\* Calls are interchangeable, and so are expire goroutines.
Symmetry == Permutations(Queries) \cup Permutations(Expirers)

=============================================================================
