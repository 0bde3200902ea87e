---------------------------- MODULE MCHiveReplay ----------------------------
(* Small instances of HiveReplay for TLC.                                  *)
EXTENDS HiveReplay, SequencesExt

CONSTANT MaxEntries  \* bound on the entries of a log

\* A page of the hive, another one and a page that grows it by two, and a page
\* past the cap.
MCPageSets == {{1}, {2, 4}, {MaxPages + 1}}

MCBins == {2, MaxPages}

MCEntries ==
  [number : Numbers, pages : {{1}}, bins : MCBins, form : {"valid"}]
  \cup [number : Numbers, pages : MCPageSets, bins : {2}, form : {"valid"}]
  \cup [number : Numbers, pages : {{1}}, bins : {2}, form : {"torn"}]
  \cup [number : {1}, pages : {{}}, bins : {0}, form : {"malformed"}]

MCBodies == BoundedSeq(MCEntries, MaxEntries)

\* Logs as their writer leaves them: consecutive entries, none damaged.
MCConsecutive ==
  {log \in BoundedSeq({e \in MCEntries : e.form = "valid" /\ e.pages = {1}}, MaxEntries) :
     \A k \in 2..Len(log) : log[k].number = log[k - 1].number + 1}

=============================================================================
