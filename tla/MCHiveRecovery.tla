--------------------------- MODULE MCHiveRecovery ---------------------------
(* Small instances of HiveRecovery for TLC.                                *)
EXTENDS HiveRecovery

\* One page, the other, or one past the cap.
MCChanges == {{1}, {2}, {3}}

\* Two commits, the second over the first.
MCPast == <<{2}, {1}>>

=============================================================================
