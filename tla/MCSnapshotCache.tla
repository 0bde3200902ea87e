-------------------------- MODULE MCSnapshotCache --------------------------
(* Small instances of SnapshotCache for TLC; its temporal properties are   *)
(* checked without symmetry.                                               *)
EXTENDS SnapshotCache

=============================================================================
