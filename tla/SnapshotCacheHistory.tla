------------------------ MODULE SnapshotCacheHistory ------------------------
(***************************************************************************)
(* SnapshotCache with history variables, for the promises of               *)
(* tables/tables.go and of the repository's README about durations and     *)
(* numbers of loads.  The history reads the cache and never steers it.     *)
(***************************************************************************)
EXTENDS SnapshotCache

VARIABLES
  keptLabel,  \* label under which the last remembered load was made
  loadTime    \* time since the current load began, up to Timeout; 0 between loads

history == <<keptLabel, loadTime>>

HInit == Init /\ keptLabel = 0 /\ loadTime = 0

\* A load that is remembered ends.
Remember(q) == LoadSucceeds(q) \/ (LoadFails(q) /\ ctx[q] # "canceled")

\* A load that leaves nothing behind ends.
Forget(q) == (LoadFails(q) /\ ctx[q] = "canceled") \/ LoadPanics(q)

Loading == \E q \in Queries : pc[q] \in {"read", "parse"}

HNext ==
  \/ /\ \E q \in Queries : Remember(q)
     /\ keptLabel' = label
     /\ loadTime' = 0
  \/ /\ \E q \in Queries : Forget(q)
     /\ keptLabel' = keptLabel
     /\ loadTime' = 0
  \/ /\ Tick
     /\ keptLabel' = keptLabel
     /\ loadTime' = IF Loading /\ loadTime < Timeout THEN loadTime + 1 ELSE loadTime
  \/ /\ \/ \E q \in Queries :
             \/ Begin(q) \/ Cancel(q) \/ Deadline(q) \/ Acquire(q) \/ Abandon(q)
             \/ StatFails(q) \/ StatSees(q) \/ ServeCached(q) \/ ServeFailure(q)
             \/ StartLoad(q) \/ ReadHive(q) \/ BuildRows(q)
        \/ \E e \in Expirers : ExpireStep(e)
        \/ RewriteHive \/ AppendLog
     /\ UNCHANGED history

HSpec == HInit /\ [][HNext]_<<vars, history>>

\* Time passes in loads and between calls only: a free slot is taken, and every
\* other step of a call done, without delay.
Prompt ==
  \A q \in Queries :
    \/ pc[q] \in {"idle", "rows", "read", "parse"}
    \/ pc[q] = "queued" /\ sem = 1

\* The history of a host where calls are prompt, no caller ever goes away (as on
\* Windows, where thrift's connectivity check is a stub) and nothing panics.
PromptSpec ==
  /\ HInit
  /\ [][ /\ HNext
         /\ Tick => Prompt
         /\ ~\E q \in Queries : Cancel(q) \/ LoadPanics(q) ]_<<vars, history>>

-----------------------------------------------------------------------------

\* Inside the TTL of a remembered load the hive is not loaded again unless its
\* (mtime, size) moved since that load: one read and one parse serve every
\* table of a join, and a broken host is not read again for every query.  The
\* expire goroutine, a cancelled load or a panic in between do not change that.
SharedWithinWindow ==
  [][\A q \in Queries : StartLoad(q) /\ age < TTL => label # keptLabel]_<<vars, history>>

\* "the cache can remember a hive too slow to load": a failure is blamed on the
\* hive's slowness only by a load that had the whole of generateTimeout.
SlowVerdictIsAboutLoad ==
  [][err' = "slow" /\ err # "slow" => loadTime = Timeout]_<<vars, history>>

==============================================================================
