---------------------------- MODULE MCIndexWalk ----------------------------
(* Small instances of IndexWalk for TLC.                                   *)
EXTENDS IndexWalk, SequencesExt

\* Lists of at most two elements, fast indexes of at most two slots.
MCPlain ==
  {[kind |-> "fast", count |-> n, elements |-> <<>>] : n \in {1, 2}}
  \cup {[kind |-> k, count |-> 0, elements |-> <<>>] : k \in {"node", "other", "absent"}}

MCLists ==
  {[kind |-> "list", count |-> 0, elements |-> s] : s \in BoundedSeq(Cells, MaxList)}

\* The last cell is no list: a chain through all of them ends there.
MCHives ==
  {h \in [Cells -> MCPlain \cup MCLists] :
     \A c \in Cells : h[c].kind = "list" => \E k \in Cells : k > c}

=============================================================================
