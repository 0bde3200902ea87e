------------------------------ MODULE HiveRead ------------------------------
(***************************************************************************)
(* Read and ReadFiles of internal/hive/hive_windows.go: how one call       *)
(* acquires the hive and its logs while the Compatibility Appraiser opens  *)
(* and closes them.  The plain route is refused while the appraiser holds  *)
(* the files; only then is the volume opened, and the logs follow the      *)
(* route of the hive.  The two calls are the same until they hold a hive.  *)
(*                                                                         *)
(* The bytes of the hive are "clean", "dirty" (the two sequence numbers of *)
(* the base block differ) or "bad" (no base block).  Replay is HiveReplay: *)
(* here it recovers the hive, returns it as it was, or fails.              *)
(***************************************************************************)
EXTENDS Naturals

Hive == "Amcache.hve"
Logs == {"Amcache.hve.LOG1", "Amcache.hve.LOG2"}

VARIABLES
  locked,    \* the appraiser holds the files so that opens are refused
  ctx,       \* the call's context
  pc,
  refused,   \* the hive's plain read ended in a sharing or lock violation
  raw,       \* source.raw
  data,      \* the bytes of the hive the call holds
  replayed,  \* Result.Replayed
  logs,      \* the logs read
  touched,   \* the files the call has tried to read
  volume     \* those of them it tried to read through the volume

call == <<pc, refused, raw, data, replayed, logs, touched, volume>>
vars == <<locked, ctx, call>>

TypeOK ==
  /\ locked \in BOOLEAN
  /\ ctx \in {"live", "done"}
  /\ pc \in {"idle", "path", "plain", "opened", "violation", "raw", "found",
             "acquired", "dirty", "logs", "recheck", "filelogs",
             "ok", "captured", "failed"}
  /\ refused \in BOOLEAN
  /\ raw \in BOOLEAN
  /\ data \in {"none", "clean", "dirty", "bad"}
  /\ replayed \in BOOLEAN
  /\ logs \subseteq Logs
  /\ touched \subseteq {Hive} \cup Logs
  /\ volume \subseteq touched

Fresh ==
  /\ refused = FALSE /\ raw = FALSE /\ data = "none" /\ replayed = FALSE
  /\ logs = {} /\ touched = {} /\ volume = {}

Init == locked \in BOOLEAN /\ ctx = "live" /\ pc = "idle" /\ Fresh

Goto(place) == pc' = place

-----------------------------------------------------------------------------

Begin ==
  /\ pc = "idle"
  /\ Goto("path")
  /\ UNCHANGED <<locked, ctx, refused, raw, data, replayed, logs, touched, volume>>

\* hivePath: the Windows directory, or an error.
FindPath ==
  /\ pc = "path"
  /\ pc' \in {"plain", "failed"}
  /\ UNCHANGED <<locked, ctx, refused, raw, data, replayed, logs, touched, volume>>

\* The hive is opened, a regular file within its cap.
PlainOpens ==
  /\ pc = "plain"
  /\ ~locked
  /\ touched' = {Hive}
  /\ Goto("opened")
  /\ UNCHANGED <<locked, ctx, refused, raw, data, replayed, logs, volume>>

\* An open hive can be read to its end whatever the appraiser does meanwhile.
PlainReads ==
  /\ pc = "opened"
  /\ data' \in {"clean", "dirty", "bad"}
  /\ Goto("acquired")
  /\ UNCHANGED <<locked, ctx, refused, raw, replayed, logs, touched, volume>>

\* A violation at the open, or raised in the middle of the read.
PlainRefused ==
  /\ pc \in {"plain", "opened"}
  /\ locked
  /\ refused' = TRUE
  /\ touched' = {Hive}
  /\ Goto("violation")
  /\ UNCHANGED <<locked, ctx, raw, data, replayed, logs, volume>>

\* Mutant of PlainFails: any failure of the plain read is tried on the volume.
PlainFailsToVolume ==
  /\ pc \in {"plain", "opened"}
  /\ touched' = {Hive}
  /\ Goto("violation")
  /\ UNCHANGED <<locked, ctx, refused, raw, data, replayed, logs, volume>>

\* The hive is absent, not a regular file, over its cap or unreadable.
PlainFails ==
  /\ pc \in {"plain", "opened"}
  /\ touched' = {Hive}
  /\ Goto("failed")
  /\ UNCHANGED <<locked, ctx, refused, raw, data, replayed, logs, volume>>

\* No volume is opened for a call whose context has ended.
CheckBeforeRaw ==
  /\ pc = "violation"
  /\ Goto(IF ctx = "done" THEN "failed" ELSE "raw")
  /\ UNCHANGED <<locked, ctx, refused, raw, data, replayed, logs, touched, volume>>

\* The volume is opened and the runs of the hive are found on it.
RawFinds ==
  /\ pc = "raw"
  /\ volume' = {Hive}
  /\ Goto("found")
  /\ UNCHANGED <<locked, ctx, refused, raw, data, replayed, logs, touched>>

RawReads ==
  /\ pc = "found"
  /\ data' \in {"clean", "dirty", "bad"}
  /\ raw' = TRUE
  /\ Goto("acquired")
  /\ UNCHANGED <<locked, ctx, refused, replayed, logs, touched, volume>>

\* The volume cannot be opened, is not NTFS, lacks the file, or comes up short.
RawFails ==
  /\ pc \in {"raw", "found"}
  /\ volume' = {Hive}
  /\ Goto("failed")
  /\ UNCHANGED <<locked, ctx, refused, raw, data, replayed, logs, touched>>

\* Mutant of Decide: the logs are read whatever the hive is.
DecideToReplay ==
  /\ pc = "acquired"
  /\ Goto(IF data = "bad" THEN "failed" ELSE "dirty")
  /\ replayed' = (data = "dirty")
  /\ UNCHANGED <<locked, ctx, refused, raw, data, logs, touched, volume>>

\* Dirty on the bytes that were read.
Decide ==
  /\ pc = "acquired"
  /\ \/ data = "bad" /\ Goto("failed")
     \/ data = "clean" /\ Goto("ok")
     \/ data = "dirty" /\ Goto("dirty")
  /\ replayed' = (data = "dirty")
  /\ UNCHANGED <<locked, ctx, refused, raw, data, logs, touched, volume>>

CheckBeforeLogs ==
  /\ pc = "dirty"
  /\ Goto(IF ctx = "done" THEN "failed" ELSE "logs")
  /\ UNCHANGED <<locked, ctx, refused, raw, data, replayed, logs, touched, volume>>

\* Mutant of ReadLog: the logs are read through the filesystem.
ReadLogPlain(log) ==
  /\ pc \in {"logs", "filelogs"}
  /\ log \notin touched
  /\ touched' = touched \cup {log}
  /\ UNCHANGED volume
  /\ logs' = logs \/ (~locked /\ logs' = logs \cup {log})
  /\ UNCHANGED <<locked, ctx, pc, refused, raw, data, replayed>>

\* readLog, through the route that produced the hive.  A log that cannot be read
\* is left out; on the plain route a log the appraiser holds cannot be.
ReadLog(log) ==
  /\ pc \in {"logs", "filelogs"}
  /\ log \notin touched
  /\ log = "Amcache.hve.LOG2" => "Amcache.hve.LOG1" \in touched
  /\ touched' = touched \cup {log}
  /\ volume' = IF raw THEN volume \cup {log} ELSE volume
  /\ logs' = logs \/ ((raw \/ ~locked) /\ logs' = logs \cup {log})
  /\ UNCHANGED <<locked, ctx, pc, refused, raw, data, replayed>>

\* Replay recovers the hive or returns it as it was.
Replay ==
  /\ pc = "logs"
  /\ Logs \subseteq touched
  /\ data' = "dirty" \/ (logs # {} /\ data' = "clean")
  /\ Goto("recheck")
  /\ UNCHANGED <<locked, ctx, refused, raw, replayed, logs, touched, volume>>

ReplayFails ==
  /\ pc = "logs"
  /\ Logs \subseteq touched
  /\ Goto("failed")
  /\ UNCHANGED <<locked, ctx, refused, raw, data, replayed, logs, touched, volume>>

\* Mutant of Recheck: what Replay returned is taken for clean.
RecheckNothing ==
  /\ pc = "recheck"
  /\ Goto("ok")
  /\ UNCHANGED <<locked, ctx, refused, raw, data, replayed, logs, touched, volume>>

\* A hive that is still dirty is an error, with the log reads that failed.
Recheck ==
  /\ pc = "recheck"
  /\ Goto(IF data = "dirty" THEN "failed" ELSE "ok")
  /\ UNCHANGED <<locked, ctx, refused, raw, data, replayed, logs, touched, volume>>

\* ReadFiles reads both logs whether or not the hive is dirty.
CheckBeforeFiles ==
  /\ pc = "acquired"
  /\ Goto(IF ctx = "done" THEN "failed" ELSE "filelogs")
  /\ UNCHANGED <<locked, ctx, refused, raw, data, replayed, logs, touched, volume>>

\* ReadFiles returns what it read, without replaying it.
Capture ==
  /\ pc = "filelogs"
  /\ Logs \subseteq touched
  /\ Goto("captured")
  /\ UNCHANGED <<locked, ctx, refused, raw, data, replayed, logs, touched, volume>>

\* Mutant of Return: the next call starts on the route this one ended on.
ReturnOnRoute ==
  /\ pc \in {"ok", "captured", "failed"}
  /\ Goto("idle")
  /\ ctx' = "live"
  /\ refused' = FALSE /\ data' = "none" /\ replayed' = FALSE
  /\ logs' = {} /\ touched' = {}
  /\ UNCHANGED <<locked, raw, volume>>

Return ==
  /\ pc \in {"ok", "captured", "failed"}
  /\ Goto("idle")
  /\ ctx' = "live"
  /\ refused' = FALSE /\ raw' = FALSE /\ data' = "none" /\ replayed' = FALSE
  /\ logs' = {} /\ touched' = {} /\ volume' = {}
  /\ UNCHANGED locked

\* The call's context ends.
EndContext ==
  /\ ctx = "live"
  /\ pc # "idle"
  /\ ctx' = "done"
  /\ UNCHANGED <<locked, call>>

\* The appraiser opens or closes the hive and its logs, at any moment.
Appraiser ==
  /\ locked' = ~locked
  /\ UNCHANGED <<ctx, call>>

Next ==
  \/ Begin \/ FindPath
  \/ PlainOpens \/ PlainReads \/ PlainRefused \/ PlainFails
  \/ CheckBeforeRaw \/ RawFinds \/ RawReads \/ RawFails
  \/ Decide \/ CheckBeforeLogs \/ CheckBeforeFiles \/ Capture
  \/ \E log \in Logs : ReadLog(log)
  \/ Replay \/ ReplayFails \/ Recheck
  \/ Return \/ EndContext \/ Appraiser

Spec == Init /\ [][Next]_vars

-----------------------------------------------------------------------------

\* Data returned with a nil error is clean, whichever route the bytes came by,
\* whichever logs were missing and whatever Replay made of the others.
OkIsClean == pc = "ok" => data = "clean"

\* The volume is opened only by a call whose own plain read of the hive was
\* refused by the appraiser, however the locks changed since.
VolumeOnlyWhenRefused == volume # {} => refused

\* A Read that returns a clean hive from disk has not touched the logs: a log is
\* read only if the hive's bytes were dirty, which the result then says.
LogsOnlyWhenDirty == pc = "ok" /\ ~replayed => touched = {Hive}

\* The logs are read the way the hive was: logs read through the filesystem are
\* never replayed over a hive read below it, nor the other way round, and a
\* captured fixture is never put together from both.
OneRoute == pc \in {"recheck", "captured"} => volume = IF raw THEN touched ELSE {}

=============================================================================
