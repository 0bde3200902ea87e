------------------------- MODULE HiveRecoveryProofs -------------------------
(***************************************************************************)
(* Theorems about one call of Read or ReadFiles.                           *)
(*                                                                         *)
(* First the route alone, HiveRead: what a call that returns data has done,*)
(* for any behaviour of the appraiser, the filesystem and the volume.  Then*)
(* HiveRecovery: the bytes, the replay and the writes of the appraiser are *)
(* added to the route and never change it, so what is proved of the route  *)
(* holds of the call with its bytes.  Last, RInv, the inductive invariant  *)
(* that ties the bytes a call holds to the commits they are from, and what *)
(* it says of the hive that a replay returns.                              *)
(***************************************************************************)
EXTENDS HiveRecovery, Induction, SequenceTheorems

-----------------------------------------------------------------------------
(* The route of a call.                                                    *)

\* Which files have been touched, by which route, at each place of the call.
RouteOK ==
  /\ pc \in {"idle", "path", "plain"} => touched = {} /\ ~raw
  /\ pc = "opened" => touched = {Hive} /\ ~raw
  /\ pc \in {"violation", "raw", "found"} => touched = {Hive} /\ refused /\ ~raw
  /\ pc = "found" => volume = {Hive}
  /\ pc \in {"acquired", "dirty"} => touched = {Hive}
  /\ pc # "failed" /\ raw => volume = touched
  /\ pc \notin {"failed", "found"} /\ ~raw => volume = {}
  /\ raw => refused
  /\ volume # {} => refused

\* What the call knows of the bytes it holds.
DataOK ==
  /\ pc = "ok" => data = "clean"
  /\ pc \in {"dirty", "logs"} => data = "dirty"
  /\ pc = "recheck" => data \in {"clean", "dirty"}
  /\ pc \in {"dirty", "logs", "recheck"} => replayed
  /\ pc = "ok" /\ ~replayed => touched = {Hive}

IInv == TypeOK /\ RouteOK /\ DataOK

\* A step of the call, of its context or of the appraiser keeps the invariant.
LEMMA StepInv ==
  ASSUME IInv, [Next]_vars
  PROVE  IInv'
  <1> USE DEF IInv, TypeOK, RouteOK, DataOK, Hive, Logs, Goto
  <1>1. CASE UNCHANGED vars BY <1>1 DEF vars, call
  <1>2. CASE Begin BY <1>2 DEF Begin
  <1>3. CASE FindPath BY <1>3 DEF FindPath
  <1>4. CASE PlainReads BY <1>4 DEF PlainReads
  <1>5. CASE PlainRefused BY <1>5 DEF PlainRefused
  <1>6. CASE PlainFails BY <1>6 DEF PlainFails
  <1>7. CASE CheckBeforeRaw BY <1>7 DEF CheckBeforeRaw
  <1>8. CASE RawReads BY <1>8 DEF RawReads
  <1>9. CASE RawFails BY <1>9 DEF RawFails
  <1>10. CASE Decide BY <1>10 DEF Decide
  <1>11. CASE CheckBeforeLogs BY <1>11 DEF CheckBeforeLogs
  <1>12. CASE Replay BY <1>12 DEF Replay
  <1>13. CASE ReplayFails BY <1>13 DEF ReplayFails
  <1>14. CASE Recheck BY <1>14 DEF Recheck
  <1>15. CASE Return BY <1>15 DEF Return
  <1>16. ASSUME NEW log \in Logs, ReadLog(log) PROVE IInv'
    BY <1>16 DEF ReadLog
  <1>17. CASE EndContext BY <1>17 DEF EndContext, call
  <1>18. CASE Appraiser BY <1>18 DEF Appraiser, call
  <1>19. CASE PlainOpens BY <1>19 DEF PlainOpens
  <1>20. CASE RawFinds BY <1>20 DEF RawFinds
  <1>21. CASE CheckBeforeFiles BY <1>21 DEF CheckBeforeFiles
  <1>22. CASE Capture BY <1>22 DEF Capture
  <1> QED
    BY <1>1, <1>2, <1>3, <1>4, <1>5, <1>6, <1>7, <1>8, <1>9, <1>10,
       <1>11, <1>12, <1>13, <1>14, <1>15, <1>16, <1>17, <1>18,
       <1>19, <1>20, <1>21, <1>22 DEF Next

\* The invariant holds in every behaviour.
THEOREM ReadInv == Spec => []IInv
  <1>1. Init => IInv
    BY DEF Init, Fresh, IInv, TypeOK, RouteOK, DataOK
  <1> QED BY <1>1, StepInv, PTL DEF Spec

\* Bytes returned without an error are never dirty.
THEOREM ReadReturnsClean == Spec => []OkIsClean
  BY ReadInv, PTL DEF IInv, DataOK, OkIsClean

\* The privileged volume handle is opened for a refused plain read only.
THEOREM VolumeNeedsRefusal == Spec => []VolumeOnlyWhenRefused
  BY ReadInv, PTL DEF IInv, RouteOK, VolumeOnlyWhenRefused

\* The logs follow the route of the hive, however the locks change meanwhile.
THEOREM RouteIsOne == Spec => []OneRoute
  <1>1. IInv => OneRoute
    <2> SUFFICES ASSUME IInv, pc \in {"recheck", "captured"}
                 PROVE  volume = IF raw THEN touched ELSE {}
      BY DEF OneRoute
    <2>1. CASE raw BY <2>1 DEF IInv, RouteOK
    <2>2. CASE ~raw BY <2>2 DEF IInv, RouteOK
    <2> QED BY <2>1, <2>2
  <1> QED BY <1>1, ReadInv, PTL

\* The logs of a hive that Read found clean on disk are not touched.
THEOREM IdleLogsUntouched == Spec => []LogsOnlyWhenDirty
  BY ReadInv, PTL DEF IInv, DataOK, LogsOnlyWhenDirty

-----------------------------------------------------------------------------
(* Its bytes go with the route.                                            *)

\* The appraiser writes while the call is where it was.
LEMMA WritesLeaveRoute ==
  ASSUME AppraiserWrites
  PROVE  UNCHANGED vars
  BY DEF AppraiserWrites, GoDirty, EndEntry, FlushDone, Restart, BeginEntry, FlushPage,
         Write

\* Replaying the bytes that were read takes no step of the route.
LEMMA ReplayingLeavesRoute ==
  ASSUME GateLogs \/ (\E i \in DOMAIN ready : OpenReadyLog(i)) \/ ReplayStep
  PROVE  UNCHANGED vars
  BY DEF GateLogs, OpenReadyLog, ReplayStep, Replays

\* A step that reads or drops bytes is the step of the route it goes with.
LEMMA BytesFollowRoute ==
  ASSUME \/ OpenHive \/ FindHive \/ ReadBlock \/ PlainEnds \/ RawEnds \/ AllowLogs
         \/ \E log \in Logs : TakeLog(log)
         \/ Replayed \/ ReplayGivesUp \/ ReturnBytes
  PROVE  Next \/ UNCHANGED vars
  <1>1. CASE OpenHive BY <1>1 DEF OpenHive, Next
  <1>2. CASE FindHive BY <1>2 DEF FindHive, Next
  <1>3. CASE ReadBlock BY <1>3 DEF ReadBlock
  <1>4. CASE PlainEnds BY <1>4 DEF PlainEnds, Next
  <1>5. CASE RawEnds BY <1>5 DEF RawEnds, Next
  <1>6. CASE AllowLogs BY <1>6 DEF AllowLogs, Next
  <1>7. ASSUME NEW log \in Logs, TakeLog(log) PROVE Next
    BY <1>7 DEF TakeLog, Next
  <1>8. CASE Replayed BY <1>8 DEF Replayed, Next
  <1>9. CASE ReplayGivesUp BY <1>9 DEF ReplayGivesUp, Next
  <1>10. CASE ReturnBytes BY <1>10 DEF ReturnBytes, Next
  <1> QED BY <1>1, <1>2, <1>3, <1>4, <1>5, <1>6, <1>7, <1>8, <1>9, <1>10

\* Every call of Read or ReadFiles with its bytes, beside any appraiser, takes the
\* route that HiveRead describes.
THEOREM RecoveryImplementsRead == RecoverySpec => Spec
  <1>1. RecoveryInit => Init
    BY DEF RecoveryInit
  <1>2. [RecoveryNext]_allVars => [Next]_vars
    <2> SUFFICES ASSUME [RecoveryNext]_allVars PROVE Next \/ UNCHANGED vars
      OBVIOUS
    <2>1. CASE UNCHANGED allVars
      BY <2>1 DEF allVars
    <2>2. CASE Moves
      BY <2>2 DEF Moves, Surroundings, Next
    <2> QED
      BY <2>1, <2>2, WritesLeaveRoute, ReplayingLeavesRoute, BytesFollowRoute
         DEF RecoveryNext
  <1> QED BY <1>1, <1>2, PTL DEF RecoverySpec, Spec

\* A hive returned without an error is one whose last look at the base block was
\* clean, with the bytes and the appraiser in the model too.
THEOREM RecoveredIsClean == RecoverySpec => []OkIsClean
  BY RecoveryImplementsRead, ReadReturnsClean, PTL

\* The volume is opened for a hive that was refused, whatever the appraiser writes.
THEOREM RecoveryVolumeNeedsRefusal == RecoverySpec => []VolumeOnlyWhenRefused
  BY RecoveryImplementsRead, VolumeNeedsRefusal, PTL

\* The hive and its logs come by one route, whatever the appraiser writes.
THEOREM RecoveryRouteIsOne == RecoverySpec => []OneRoute
  BY RecoveryImplementsRead, RouteIsOne, PTL

\* A plain read that succeeds went to the end of the file as it was at that moment:
\* a file that grew past the cap is refused, for any cap.
THEOREM GrownIsRefused == RecoverySpec => NeverCut
  <1>1. ASSUME RecoveryNext, PlainReads
        PROVE  Len(got) >= Len(hive)
    <2>1. pc = "opened" /\ pc' = "acquired"
      BY <1>1 DEF PlainReads, Goto
    <2>2. ~AppraiserWrites /\ ~ReplayStep
          /\ ~(GateLogs \/ \E i \in DOMAIN ready : OpenReadyLog(i))
      BY <2>1, WritesLeaveRoute, ReplayingLeavesRoute DEF vars, call
    <2>3. ~Moves
      BY <2>1 DEF Moves, Surroundings, Begin, FindPath, PlainRefused, PlainFails,
                  CheckBeforeRaw, RawFails, Decide, CheckBeforeFiles, Capture, Recheck,
                  EndContext, Appraiser, Goto, call
    <2>4. ~(FindHive \/ RawEnds \/ AllowLogs \/ Replayed \/ ReplayGivesUp \/ ReturnBytes)
      BY <2>1 DEF FindHive, RawEnds, AllowLogs, Replayed, ReplayGivesUp, ReturnBytes,
                  RawFinds, RawReads, CheckBeforeLogs, Replay, ReplayFails, Return, Goto
    <2>5. ~OpenHive /\ ~ReadBlock /\ \A log \in Logs : ~TakeLog(log)
      BY <2>1 DEF OpenHive, ReadBlock, TakeLog, PlainOpens, ReadLog, Goto, vars, call
    <2>6. PlainEnds
      BY <1>1, <2>2, <2>3, <2>4, <2>5 DEF RecoveryNext
    <2>7. Cap \in Int /\ Len(got) <= Cap /\ AtEnd /\ ReadLimit = Cap + 1
      BY <2>1, <2>6, RecoveryAssumption DEF PlainEnds, ReadLimit, Cap
    <2> QED BY <2>7 DEF AtEnd
  <1>2. [RecoveryNext]_allVars => [PlainReads => Len(got) >= Len(hive)]_allVars
    BY <1>1
  <1> QED BY <1>2, PTL DEF RecoverySpec, NeverCut

-----------------------------------------------------------------------------
(* What holds of the disk, of the bytes read and of the replay.            *)

RP == INSTANCE HiveReplayProofs
       WITH logs <- ready, baseSeq2 <- BaseSeq2, SeqLimit <- MaxCommits + 3,
            MaxLogs <- 2, HiveSizes <- 0..MaxPages, Bodies <- Seq(LogEntry)

\* The appraiser's commits: the hive grows a page at a time.
HistoryOK ==
  /\ changed \in Seq(Changes)
  /\ Commits <= MaxCommits
  /\ \A n \in 1..Commits : changed[n] \subseteq 1..(FirstSize + n)
  /\ \A n \in 0..Commits : \A p \in 1..SizeAt(n) :
       p <= FirstSize \/ \E k \in 1..n : p \in changed[k]

Sound(e) ==
  /\ e.number \in 1..Commits
  /\ e.bins = SizeAt(e.number)
  /\ changed[e.number] \subseteq e.pages

AllSound(entries) == \A k \in DOMAIN entries : Sound(entries[k])

Bytes(file) ==
  /\ file \in Seq(BaseBlock \cup 0..MaxCommits)
  /\ Blocks(file)
  /\ file # <<>> => file[1].seq2 <= Commits

DiskOK ==
  /\ Bytes(hive) /\ hive # <<>>
  /\ files \in [Logs -> Log] /\ active \in Logs
  /\ files[active].base \in 1..(Commits + 1)
  /\ Commits - files[active].base + 1 <= Len(files[active].entries)
  /\ \A log \in Logs : AllSound(files[log].entries)

HeldOK ==
  /\ Bytes(got)
  /\ want \in 0..Cap
  /\ read \in Seq(Log) /\ \A k \in DOMAIN read : AllSound(read[k].entries)
  /\ disturbed \in BOOLEAN

HeldPlace ==
  /\ pc \in {"idle", "path", "plain", "violation", "raw"} => got = <<>>
  /\ pc = "opened" => Len(got) <= Cap + 1
  /\ pc = "found" => want # 0 /\ Len(got) <= want
  /\ pc \in {"acquired", "dirty", "logs", "recheck", "ok"} => got # <<>> /\ Len(got) <= Cap

Idle ==
  /\ ready = <<>> /\ opened = {} /\ body = <<>> /\ expected = 0
  /\ out = <<>> /\ applied = <<>> /\ header = NoHeader /\ phase = "gate"

Listed(p) == \E k \in DOMAIN applied : p \in applied[k].pages

Replaying == pc \in {"logs", "recheck"} \/ (pc = "ok" /\ replayed)

\* What a page of the hive under replay is from.
PagesOK ==
  \A p \in 1..(Len(got) - 1) : p \in DOMAIN out /\ (out[p] = R!Primary \/ Listed(p))

DownClosed == \A p \in DOMAIN out : 1..p \subseteq DOMAIN out

DoneOK ==
  phase = "done" /\ applied # <<>> =>
    header.bins = RP!LastEntry.bins /\ (header.bins = 0 \/ header.bins \in DOMAIN out)

ReplayState ==
  /\ RP!IInv
  /\ AllSound(body) /\ AllSound(applied)
  /\ DownClosed
  /\ DoneOK

ReplayPlace ==
  /\ pc = "logs" => DOMAIN ready \subseteq DOMAIN read
  /\ pc \notin {"logs", "recheck", "ok", "failed"} => Idle
  /\ Replaying => PagesOK
  /\ Replaying /\ pc # "logs" => phase = "done"
  /\ Replaying /\ pc # "logs" /\ data # "dirty" => applied # <<>>

Idlers ==
  {"idle", "path", "plain", "opened", "violation", "raw", "found", "acquired", "dirty",
   "filelogs", "captured"}

RInv == HistoryOK /\ DiskOK /\ HeldOK /\ HeldPlace /\ ReplayState /\ ReplayPlace

-----------------------------------------------------------------------------
(* Commits, and what they leave in a page.                                 *)

\* The bounds on the commits and the logs of a call meet what Replay assumes.
LEMMA ReplayAssumptionHolds == RP!ReplayAssumption
  <1>1. MaxPages \in Nat /\ MaxCommits \in Nat /\ FirstSize \in 1..MaxPages
    BY RecoveryAssumption
  <1>2. MaxCommits + 3 \in Nat \ {0} /\ Numbers \subseteq 0..(MaxCommits + 3 - 2)
    BY <1>1 DEF Numbers
  <1>3. LogEntry \subseteq RP!Entry
    BY DEF LogEntry, RP!Entry
  <1>4. \A log \in Seq(LogEntry) : log \in Seq(RP!Entry)
    <2> TAKE log \in Seq(LogEntry)
    <2>1. \A i \in 1..Len(log) : log[i] \in RP!Entry
      BY <1>3
    <2> QED BY <2>1, SeqDef
  <1> QED BY <1>1, <1>2, <1>4 DEF RP!ReplayAssumption

\* The newest commit in a set of them.
LEMMA LargestIs ==
  ASSUME NEW S \in SUBSET Nat, S # {}, NEW bound \in Nat, \A x \in S : x <= bound
  PROVE  Largest(S) \in S /\ \A y \in S : y <= Largest(S)
  BY GreatestNatural DEF Largest

\* The commit a page is from.
LEMMA ContentIs ==
  ASSUME NEW n \in Nat, NEW p
  PROVE  /\ Content(n, p) \in 0..n
         /\ Content(n, p) # 0 => p \in changed[Content(n, p)]
         /\ \A k \in 1..n : p \in changed[k] => k <= Content(n, p)
  <1> DEFINE S == {k \in 1..n : p \in changed[k]} \cup {0}
  <1>1. S \in SUBSET Nat /\ S # {} /\ \A x \in S : x <= n
    OBVIOUS
  <1>2. Largest(S) \in S /\ \A y \in S : y <= Largest(S)
    BY <1>1, LargestIs
  <1> QED BY <1>2 DEF Content

\* A page has the content of an older generation unless a commit since changed it.
LEMMA ContentKept ==
  ASSUME NEW m \in Nat, NEW n \in Nat, m <= n, NEW p,
         \A k \in (m + 1)..n : p \notin changed[k]
  PROVE  Content(n, p) = Content(m, p)
  <1> DEFINE a == Content(m, p)
             b == Content(n, p)
  <1>1. /\ a \in 0..m /\ (a # 0 => p \in changed[a])
        /\ \A k \in 1..m : p \in changed[k] => k <= a
    BY ContentIs
  <1>2. /\ b \in 0..n /\ (b # 0 => p \in changed[b])
        /\ \A k \in 1..n : p \in changed[k] => k <= b
    BY ContentIs
  <1> HIDE DEF a, b
  <1>3. a <= b
    BY <1>1, <1>2
  <1>4. b <= a
    <2>1. b # 0 => b \in 1..m
      BY <1>2
    <2> QED BY <1>1, <1>2, <2>1
  <1>5. a = b
    BY <1>1, <1>2, <1>3, <1>4
  <1> QED BY <1>5 DEF a, b

\* The size of a generation.
LEMMA SizeIs ==
  ASSUME HistoryOK, NEW n \in 0..Commits
  PROVE  /\ SizeAt(n) \in Nat /\ FirstSize <= SizeAt(n) /\ SizeAt(n) <= FirstSize + n
         /\ \A k \in 1..n : \A p \in changed[k] : p <= SizeAt(n)
         /\ SizeAt(n) = FirstSize \/ \E k \in 1..n : SizeAt(n) \in changed[k]
  <1> DEFINE S == {FirstSize} \cup UNION {changed[k] : k \in 1..n}
  <1>1. FirstSize \in Nat /\ Commits \in Nat /\ n \in Nat
    BY RecoveryAssumption DEF HistoryOK, Commits
  <1>2. \A k \in 1..n : k \in 1..Commits /\ FirstSize + k <= FirstSize + n
    BY <1>1
  <1>3. \A k \in 1..n : \A p \in changed[k] : p \in Nat /\ p <= FirstSize + n
    <2> TAKE k \in 1..n
    <2>1. changed[k] \subseteq 1..(FirstSize + k)
      BY <1>2 DEF HistoryOK
    <2> QED BY <1>1, <1>2, <2>1
  <1>4. S \in SUBSET Nat /\ S # {} /\ FirstSize + n \in Nat /\ \A x \in S : x <= FirstSize + n
    BY <1>1, <1>3
  <1>5. Largest(S) \in S /\ \A y \in S : y <= Largest(S)
    BY <1>4, LargestIs
  <1>6. SizeAt(n) = Largest(S)
    BY DEF SizeAt
  <1> HIDE DEF S
  <1>7. SizeAt(n) \in S /\ \A y \in S : y <= SizeAt(n)
    BY <1>5, <1>6
  <1> QED BY <1>4, <1>7 DEF S

\* No commit is taken back.
Grows ==
  /\ Commits <= Commits'
  /\ \A n \in 1..Commits : changed'[n] = changed[n]

\* What is sound of a history stays sound of a longer one.
LEMMA GrowsKeeps ==
  ASSUME Grows, Commits \in Nat, Commits' \in Nat
  PROVE  /\ \A n \in 0..Commits : SizeAt(n)' = SizeAt(n) /\ \A p : Content(n, p)' = Content(n, p)
         /\ \A e : Sound(e) => Sound(e)'
         /\ \A entries : AllSound(entries) => AllSound(entries)'
         /\ \A file : Bytes(file) => Bytes(file)'
  <1>1. \A n \in 0..Commits : \A k \in 1..n : k \in 1..Commits
    OBVIOUS
  <1>2. ASSUME NEW n \in 0..Commits PROVE SizeAt(n)' = SizeAt(n)
    <2>1. {changed'[k] : k \in 1..n} = {changed[k] : k \in 1..n}
      BY <1>1 DEF Grows
    <2> QED BY <2>1 DEF SizeAt, Largest
  <1>3. ASSUME NEW n \in 0..Commits, NEW p PROVE Content(n, p)' = Content(n, p)
    <2>1. {k \in 1..n : p \in changed'[k]} = {k \in 1..n : p \in changed[k]}
      BY <1>1 DEF Grows
    <2> QED BY <2>1 DEF Content, Largest
  <1>4. ASSUME NEW e, Sound(e) PROVE Sound(e)'
    <2>1. e.number \in 1..Commits /\ e.number \in 0..Commits /\ e.number \in 1..Commits'
      BY <1>4 DEF Sound, Grows
    <2>2. e.bins = SizeAt(e.number)'
      BY <1>2, <1>4, <2>1 DEF Sound
    <2>3. changed'[e.number] \subseteq e.pages
      BY <1>4, <2>1 DEF Sound, Grows
    <2> QED BY <2>1, <2>2, <2>3 DEF Sound
  <1>5. ASSUME NEW entries, AllSound(entries) PROVE AllSound(entries)'
    BY <1>4, <1>5 DEF AllSound
  <1>6. ASSUME NEW file, Bytes(file) PROVE Bytes(file)'
    <2>1. file # <<>> => file[1] \in BaseBlock
      BY <1>6 DEF Bytes, Blocks
    <2>2. file # <<>> => file[1].seq2 \in Nat
      BY <2>1, RecoveryAssumption DEF BaseBlock, Numbers
    <2>3. file # <<>> => file[1].seq2 <= Commits'
      BY <1>6, <2>2 DEF Bytes, Grows
    <2> QED BY <1>6, <2>3 DEF Bytes, Blocks
  <1> QED BY <1>2, <1>3, <1>4, <1>5, <1>6

\* A commit adds at most one page past the end.
LEMMA GrownSize ==
  ASSUME NEW size \in Nat, NEW pages \in SUBSET (1..(size + 1))
  PROVE  LET grown == Largest(pages \cup {size}) IN
         /\ grown \in Nat
         /\ grown \in {size, size + 1}
         /\ grown \in pages \cup {size}
         /\ \A p \in pages : p <= grown
  <1> DEFINE T == pages \cup {size}
  <1>1. T \in SUBSET Nat /\ T # {} /\ size + 1 \in Nat /\ \A x \in T : x <= size + 1
    OBVIOUS
  <1>2. Largest(T) \in T /\ \A y \in T : y <= Largest(T)
    BY <1>1, LargestIs
  <1>3. Largest(T) \in Nat /\ size <= Largest(T) /\ Largest(T) <= size + 1
    BY <1>1, <1>2
  <1> QED BY <1>2, <1>3

\* A commit extends the history by at most a page past the end.
LEMMA CommitHistory ==
  ASSUME HistoryOK, NEW pages \in Changes, BeginEntry(pages)
  PROVE  /\ HistoryOK' /\ Grows
         /\ Commits' = Commits + 1 /\ changed'[Commits + 1] = pages
         /\ SizeAt(Commits)' = Largest(pages \cup {SizeAt(Commits)})
  <1> DEFINE size == SizeAt(Commits)
             grown == Largest(pages \cup {size})
  <1>1. /\ changed \in Seq(Changes) /\ changed' = Append(changed, pages)
        /\ Commits < MaxCommits
    BY DEF BeginEntry, HistoryOK
  <1>2. /\ Commits \in Nat /\ MaxCommits \in Nat /\ FirstSize \in Nat
        /\ Commits' = Commits + 1 /\ changed' \in Seq(Changes)
        /\ changed'[Commits + 1] = pages
        /\ \A n \in 1..Commits : changed'[n] = changed[n]
    BY <1>1, RecoveryAssumption DEF Commits
  <1>3. Grows
    BY <1>2 DEF Grows
  <1>4. /\ size \in Nat /\ FirstSize <= size /\ size <= FirstSize + Commits
        /\ \A k \in 1..Commits : \A p \in changed[k] : p <= size
        /\ size = FirstSize \/ \E k \in 1..Commits : size \in changed[k]
    <2>1. Commits \in 0..Commits
      BY <1>2
    <2> QED BY <2>1, SizeIs
  <1>5. pages \in SUBSET (1..(size + 1))
    BY DEF BeginEntry
  <1> HIDE DEF size
  <1>6. /\ grown \in Nat /\ grown \in {size, size + 1} /\ grown \in pages \cup {size}
        /\ \A p \in pages : p <= grown
    BY <1>4, <1>5, GrownSize
  <1> HIDE DEF grown
  <1>7. \A n \in 1..Commits' : changed'[n] \subseteq 1..(FirstSize + n)
    <2> TAKE n \in 1..Commits'
    <2>1. CASE n \in 1..Commits
      BY <2>1, <1>2 DEF HistoryOK
    <2>2. CASE n = Commits + 1
      <3>1. size + 1 <= FirstSize + n
        BY <2>2, <1>2, <1>4
      <3>2. \A p \in pages : p \in 1..(FirstSize + n)
        BY <3>1, <2>2, <1>2, <1>4, <1>5
      <3> QED BY <3>2, <2>2, <1>2
    <2>3. n \in 1..Commits \/ n = Commits + 1
      BY <1>2
    <2> QED BY <2>1, <2>2, <2>3
  <1> DEFINE S == {FirstSize} \cup UNION {changed'[k] : k \in 1..(Commits + 1)}
  <1>8. grown \in S
    <2>1. CASE grown \in pages
      BY <2>1, <1>2
    <2>2. CASE grown = size
      BY <2>2, <1>2, <1>4
    <2> QED BY <2>1, <2>2, <1>6
  <1>9. \A y \in S : y \in Nat /\ y <= grown
    <2> TAKE y \in S
    <2>1. CASE y = FirstSize
      BY <2>1, <1>2, <1>4, <1>6
    <2>2. ASSUME NEW k \in 1..Commits, y \in changed[k] PROVE y \in Nat /\ y <= grown
      <3>1. changed[k] \subseteq 1..(FirstSize + k)
        BY DEF HistoryOK
      <3>2. y <= size /\ y \in Nat
        BY <2>2, <3>1, <1>4
      <3> QED BY <3>2, <1>4, <1>6
    <2>3. CASE y \in pages
      BY <2>3, <1>5, <1>6
    <2>4. y = FirstSize \/ y \in pages \/ \E k \in 1..Commits : y \in changed[k]
      BY <1>2
    <2> QED BY <2>1, <2>2, <2>3, <2>4
  <1>10. SizeAt(Commits)' = grown
    <2>1. SizeAt(Commits)' = Largest(S)
      BY <1>2 DEF SizeAt, Largest
    <2> HIDE DEF S
    <2>2. S \in SUBSET Nat /\ S # {}
      BY <1>8, <1>9
    <2>3. Largest(S) \in S /\ \A y \in S : y <= Largest(S)
      BY <1>6, <1>9, <2>2, LargestIs
    <2>4. grown <= Largest(S) /\ Largest(S) <= grown /\ Largest(S) \in Nat
      BY <1>8, <1>9, <2>3
    <2>5. Largest(S) = grown
      BY <1>6, <2>4
    <2> QED BY <2>1, <2>5
  <1>11. \A n \in 0..Commits' : \A p \in 1..SizeAt(n)' :
           p <= FirstSize \/ \E k \in 1..n : p \in changed'[k]
    <2> TAKE n \in 0..Commits'
    <2>1. CASE n \in 0..Commits
      <3>1. SizeAt(n)' = SizeAt(n)
        BY <2>1, <1>2, <1>3, GrowsKeeps
      <3>2. \A p \in 1..SizeAt(n) : p <= FirstSize \/ \E k \in 1..n : p \in changed[k]
        BY <2>1 DEF HistoryOK
      <3>3. \A k \in 1..n : changed'[k] = changed[k]
        BY <2>1, <1>2
      <3> QED BY <3>1, <3>2, <3>3
    <2>2. CASE n = Commits + 1
      <3> SUFFICES ASSUME NEW p \in 1..grown
                   PROVE  p <= FirstSize \/ \E k \in 1..n : p \in changed'[k]
        <4>1. n = Commits'
          BY <2>2, <1>2
        <4> QED BY <4>1, <1>10
      <3>1. CASE p \in 1..size
        <4>1. p <= FirstSize \/ \E k \in 1..Commits : p \in changed[k]
          <5>1. Commits \in 0..Commits
            BY <1>2
          <5> QED BY <3>1, <5>1 DEF HistoryOK, size
        <4>2. \A k \in 1..Commits : k \in 1..n /\ changed'[k] = changed[k]
          BY <2>2, <1>2
        <4> QED BY <4>1, <4>2
      <3>2. CASE p \notin 1..size
        <4>1. p = grown /\ p # size
          BY <3>2, <1>4, <1>6
        <4>2. p \in pages
          BY <4>1, <1>6
        <4> QED BY <4>2, <2>2, <1>2
      <3> QED BY <3>1, <3>2
    <2>3. n \in 0..Commits \/ n = Commits + 1
      BY <1>2
    <2> QED BY <2>1, <2>2, <2>3
  <1>12. HistoryOK'
    <2>1. Commits' <= MaxCommits
      BY <1>1, <1>2
    <2> QED BY <1>2, <1>7, <1>11, <2>1 DEF HistoryOK
  <1> QED BY <1>2, <1>3, <1>10, <1>12 DEF grown, size

\* A sequence with one element replaced, or one more at its end.
Put(s, place, x) ==
  [k \in DOMAIN s \cup {place} |-> IF k = place THEN x ELSE s[k]]

Puts(new, s, place, x) ==
  /\ Len(s) <= Len(new) /\ place <= Len(new)
  /\ \A k \in DOMAIN new :
       \/ new[k] = x /\ k = place
       \/ k \in DOMAIN s /\ new[k] = s[k]
  /\ place # 1 => s # <<>> /\ new[1] = s[1]

\* One place of a sequence is overwritten, or the next one filled.
LEMMA PutIs ==
  ASSUME NEW S, NEW s \in Seq(S), NEW place \in 1..(Len(s) + 1), NEW x \in S
  PROVE  /\ Put(s, place, x) \in Seq(S) /\ Put(s, place, x) # <<>>
         /\ Puts(Put(s, place, x), s, place, x)
  <1> DEFINE n == IF place = Len(s) + 1 THEN Len(s) + 1 ELSE Len(s)
  <1>1. n \in Nat /\ DOMAIN s \cup {place} = 1..n /\ Len(s) <= n /\ place <= n /\ n # 0
    <2>1. Len(s) \in Nat /\ DOMAIN s = 1..Len(s)
      OBVIOUS
    <2> QED BY <2>1
  <1>2. \A k \in 1..n : (IF k = place THEN x ELSE s[k]) \in S
    <2>1. \A k \in DOMAIN s : s[k] \in S
      OBVIOUS
    <2> QED BY <1>1, <2>1
  <1> HIDE DEF n
  <1>3. Put(s, place, x) \in [1..n -> S]
    BY <1>1, <1>2 DEF Put
  <1>4. Put(s, place, x) \in Seq(S)
    BY <1>1, <1>3, SeqDef
  <1>5. Len(Put(s, place, x)) = n
    <2> DEFINE t == Put(s, place, x)
    <2>1. t \in Seq(S) /\ DOMAIN t = 1..n
      BY <1>3, <1>4
    <2> HIDE DEF t
    <2>2. Len(t) \in Nat /\ DOMAIN t = 1..Len(t)
      BY <2>1
    <2>3. Len(t) = n
      BY <1>1, <2>1, <2>2
    <2> QED BY <2>3 DEF t
  <1>6. \A k \in DOMAIN s \cup {place} : Put(s, place, x)[k] = IF k = place THEN x ELSE s[k]
    BY DEF Put
  <1>7. DOMAIN Put(s, place, x) = DOMAIN s \cup {place}
    BY DEF Put
  <1>8. Put(s, place, x) # <<>>
    BY <1>1, <1>5
  <1>9. place # 1 => s # <<>> /\ 1 \in DOMAIN s
    OBVIOUS
  <1>10. place # 1 => s # <<>> /\ Put(s, place, x)[1] = s[1]
    BY <1>6, <1>9
  <1>11. \A k \in DOMAIN Put(s, place, x) :
           \/ Put(s, place, x)[k] = x /\ k = place
           \/ k \in DOMAIN s /\ Put(s, place, x)[k] = s[k]
    BY <1>6, <1>7
  <1> HIDE DEF Put
  <1>12. Len(s) <= Len(Put(s, place, x)) /\ place <= Len(Put(s, place, x))
    BY <1>1, <1>5
  <1> QED BY <1>4, <1>8, <1>10, <1>11, <1>12 DEF Puts

\* What a file is made of.
Block == BaseBlock \cup 0..MaxCommits

\* A file whose block is overwritten, or that a page is added to, is a file.
LEMMA BytesPut ==
  ASSUME NEW file, Bytes(file), file # <<>>,
         NEW place \in 1..(Len(file) + 1), NEW block \in Block,
         place = 1 => block \in BaseBlock /\ block.seq2 <= Commits,
         place # 1 => block \in 0..MaxCommits
  PROVE  Bytes(Put(file, place, block)) /\ Put(file, place, block) # <<>>
  <1> DEFINE new == Put(file, place, block)
  <1>1. /\ file \in Seq(Block) /\ file[1] \in BaseBlock /\ file[1].seq2 <= Commits
        /\ \A i \in 2..Len(file) : file[i] \in 0..MaxCommits
    BY DEF Bytes, Blocks, Block
  <1>2. /\ new \in Seq(Block) /\ new # <<>>
        /\ \A k \in DOMAIN new :
             \/ new[k] = block /\ k = place
             \/ k \in DOMAIN file /\ new[k] = file[k]
        /\ place # 1 => new[1] = file[1]
    <2>1. file \in Seq(Block) /\ block \in Block /\ place \in 1..(Len(file) + 1)
      BY <1>1
    <2>2. new \in Seq(Block) /\ new # <<>> /\ Puts(new, file, place, block)
      BY <2>1, PutIs
    <2>3. \A k \in DOMAIN new :
             \/ new[k] = block /\ k = place
             \/ k \in DOMAIN file /\ new[k] = file[k]
      BY <2>2 DEF Puts
    <2>4. place # 1 => new[1] = file[1]
      BY <2>2 DEF Puts
    <2> QED BY <2>2, <2>3, <2>4
  <1> HIDE DEF new
  <1>3. DOMAIN new = 1..Len(new) /\ Len(new) \in Nat /\ 1 \in DOMAIN new
        /\ DOMAIN file = 1..Len(file) /\ Len(file) \in Nat
    <2>1. file \in Seq(Block) /\ new \in Seq(Block) /\ new # <<>>
      BY <1>1, <1>2
    <2> HIDE DEF Block
    <2> QED BY <2>1
  <1>4. new[1] \in BaseBlock /\ new[1].seq2 <= Commits
    <2>1. CASE place = 1
      <3>1. new[1] = block \/ new[1] = file[1]
        BY <1>2, <1>3
      <3> QED BY <3>1, <2>1, <1>1
    <2>2. CASE place # 1
      BY <2>2, <1>1, <1>2
    <2> QED BY <2>1, <2>2
  <1>5. \A i \in 2..Len(new) : new[i] \in 0..MaxCommits
    <2> TAKE i \in 2..Len(new)
    <2>1. i \in DOMAIN new /\ i # 1
      BY <1>3
    <2>2. CASE new[i] = block /\ i = place
      BY <2>1, <2>2
    <2>3. CASE i \in DOMAIN file /\ new[i] = file[i]
      <3>1. i \in 2..Len(file)
        BY <2>1, <2>3, <1>3
      <3> QED BY <3>1, <2>3, <1>1
    <2> QED BY <2>1, <2>2, <2>3, <1>2
  <1>6. Bytes(new)
    BY <1>2, <1>4, <1>5 DEF Bytes, Blocks, Block
  <1> QED BY <1>2, <1>6 DEF new

-----------------------------------------------------------------------------
(* The appraiser keeps the invariant.                                      *)

\* Without a commit nothing that is known of the files read changes.
LEMMA SameHistory ==
  ASSUME HistoryOK, UNCHANGED changed
  PROVE  /\ HistoryOK' /\ Grows /\ Commits' = Commits
         /\ \A e : Sound(e)' <=> Sound(e)
         /\ \A entries : AllSound(entries)' <=> AllSound(entries)
         /\ \A file : Bytes(file)' <=> Bytes(file)
         /\ \A n, p : Content(n, p)' = Content(n, p)
         /\ \A n : SizeAt(n)' = SizeAt(n)
  <1>1. Commits' = Commits /\ Commits \in Nat
    BY DEF Commits, HistoryOK
  <1>2. \A n : SizeAt(n)' = SizeAt(n)
    BY DEF SizeAt, Largest
  <1>3. \A n, p : Content(n, p)' = Content(n, p)
    BY DEF Content, Largest
  <1>4. HistoryOK' /\ Grows
    BY <1>1, <1>2 DEF HistoryOK, Grows
  <1>5. \A e : Sound(e)' <=> Sound(e)
    BY <1>1, <1>2 DEF Sound
  <1>6. \A entries : AllSound(entries)' <=> AllSound(entries)
    BY <1>5 DEF AllSound
  <1>7. \A file : Bytes(file)' <=> Bytes(file)
    BY <1>1 DEF Bytes, Blocks
  <1> QED BY <1>1, <1>2, <1>3, <1>4, <1>5, <1>6, <1>7

\* A write to the hive alone.
LEMMA HiveInv ==
  ASSUME HistoryOK, DiskOK, UNCHANGED <<files, active, changed>>, Bytes(hive'), hive' # <<>>
  PROVE  HistoryOK' /\ DiskOK' /\ Grows
  <1>1. HistoryOK' /\ Grows /\ Commits' = Commits
        /\ \A entries : AllSound(entries)' <=> AllSound(entries)
    BY SameHistory
  <1>2. Bytes(hive)'
    BY <1>1 DEF Bytes, Blocks
  <1> QED BY <1>1, <1>2 DEF DiskOK

\* The base block of a file.
LEMMA HeadIs ==
  ASSUME DiskOK
  PROVE  /\ hive[1] \in BaseBlock /\ hive[1].seq2 <= Commits
         /\ 1 \in 1..(Len(hive) + 1) /\ Len(hive) \in Nat /\ DOMAIN hive = 1..Len(hive)
         /\ Len(hive) # 0
  <1>1. hive \in Seq(Block) /\ hive # <<>> /\ hive[1] \in BaseBlock /\ hive[1].seq2 <= Commits
    BY DEF DiskOK, Bytes, Blocks, Block
  <1> QED BY <1>1

\* The hive is marked dirty ahead of the entry.
LEMMA GoDirtyInv ==
  ASSUME HistoryOK, DiskOK, GoDirty
  PROVE  HistoryOK' /\ DiskOK' /\ Grows
  <1> DEFINE block == [hive[1] EXCEPT !.seq1 = Commits + 1]
  <1>1. Commits \in Nat /\ Commits < MaxCommits /\ MaxCommits \in Nat
    BY RecoveryAssumption DEF GoDirty, HistoryOK, Commits
  <1>2. block \in BaseBlock /\ block.seq2 <= Commits
    <2>1. hive[1] \in BaseBlock /\ hive[1].seq2 <= Commits /\ Commits + 1 \in Numbers
      BY <1>1, HeadIs DEF Numbers
    <2> QED BY <2>1 DEF BaseBlock
  <1>3. hive' = Put(hive, 1, block)
    <2>1. DOMAIN hive = DOMAIN hive \cup {1}
      BY HeadIs
    <2>2. hive' = [hive EXCEPT ![1] = block]
      BY DEF GoDirty
    <2> QED BY <2>1, <2>2 DEF Put
  <1> HIDE DEF block
  <1>4. Bytes(Put(hive, 1, block)) /\ Put(hive, 1, block) # <<>>
    BY <1>2, HeadIs, BytesPut DEF DiskOK, Block
  <1> QED BY <1>3, <1>4, HiveInv DEF GoDirty

\* The flush ends with the base block.
LEMMA FlushDoneInv ==
  ASSUME HistoryOK, DiskOK, FlushDone
  PROVE  HistoryOK' /\ DiskOK' /\ Grows
  <1> DEFINE block == [seq1 |-> Commits, seq2 |-> Commits, bins |-> SizeAt(Commits)]
  <1>1. Commits \in Nat /\ Commits <= MaxCommits /\ MaxCommits \in Nat
    BY RecoveryAssumption DEF HistoryOK, Commits
  <1>2. block \in BaseBlock /\ block.seq2 <= Commits
    <2>1. Commits \in 0..Commits
      BY <1>1
    <2>2. SizeAt(Commits) \in Nat /\ Commits \in Numbers
      BY <1>1, <2>1, SizeIs DEF Numbers
    <2> QED BY <1>1, <2>2 DEF BaseBlock
  <1>3. hive' = Put(hive, 1, block)
    <2>1. DOMAIN hive = DOMAIN hive \cup {1}
      BY HeadIs
    <2>2. hive' = [hive EXCEPT ![1] = block]
      BY DEF FlushDone
    <2> QED BY <2>1, <2>2 DEF Put
  <1> HIDE DEF block
  <1>4. Bytes(Put(hive, 1, block)) /\ Put(hive, 1, block) # <<>>
    BY <1>2, HeadIs, BytesPut DEF DiskOK, Block
  <1> QED BY <1>3, <1>4, HiveInv DEF FlushDone

\* A page of the newest commit is put in its place.
LEMMA FlushPageInv ==
  ASSUME HistoryOK, DiskOK, NEW p \in 1..(MaxPages + 1), FlushPage(p)
  PROVE  HistoryOK' /\ DiskOK' /\ Grows
  <1>1. Commits \in Nat /\ Commits <= MaxCommits /\ MaxCommits \in Nat /\ MaxPages \in Nat
    BY RecoveryAssumption DEF HistoryOK, Commits
  <1>2. Content(Commits, p) \in 0..MaxCommits
    <2>1. Content(Commits, p) \in 0..Commits
      BY <1>1, ContentIs
    <2> QED BY <1>1, <2>1
  <1>3. hive' = Put(hive, p + 1, Content(Commits, p))
    BY DEF FlushPage, Put
  <1>4. p + 1 \in 1..(Len(hive) + 1) /\ p + 1 # 1
    <2>1. p <= Len(hive) /\ Len(hive) \in Nat
      BY HeadIs DEF FlushPage
    <2> QED BY <1>1, <2>1
  <1>5. Bytes(Put(hive, p + 1, Content(Commits, p))) /\ Put(hive, p + 1, Content(Commits, p)) # <<>>
    BY <1>2, <1>4, BytesPut DEF DiskOK, Block
  <1> QED BY <1>3, <1>5, HiveInv DEF FlushPage

\* A log begins again at the next commit.
LEMMA RestartInv ==
  ASSUME HistoryOK, DiskOK, NEW log \in Logs, Restart(log)
  PROVE  HistoryOK' /\ DiskOK' /\ Grows
  <1>1. HistoryOK' /\ Grows /\ Commits' = Commits /\ Commits \in Nat /\ Commits < MaxCommits
        /\ MaxCommits \in Nat
        /\ (\A entries : AllSound(entries)' <=> AllSound(entries))
        /\ \A file : Bytes(file)' <=> Bytes(file)
    <2>1. UNCHANGED changed
      BY DEF Restart
    <2>2. Commits \in Nat /\ Commits < MaxCommits /\ MaxCommits \in Nat
      BY RecoveryAssumption DEF Restart, HistoryOK, Commits
    <2> QED BY <2>1, <2>2, SameHistory
  <1>2. files \in [Logs -> Log] /\ files' = [files EXCEPT ![log].base = Commits + 1]
    BY DEF DiskOK, Restart
  <1>3. Commits + 1 \in Numbers
    BY <1>1 DEF Numbers
  <1>4. files' \in [Logs -> Log]
    <2>1. [files[log] EXCEPT !.base = Commits + 1] \in Log
      BY <1>2, <1>3 DEF Log
    <2>2. files' = [files EXCEPT ![log] = [files[log] EXCEPT !.base = Commits + 1]]
      BY <1>2
    <2> QED BY <1>2, <2>1, <2>2
  <1>5. files'[log].base = Commits + 1
        /\ \A other \in Logs : files'[other].entries = files[other].entries
    BY <1>2 DEF Log
  <1>6. active' = log /\ hive' = hive
    BY DEF Restart
  <1>7. Commits' - files'[log].base + 1 <= Len(files'[log].entries)
    <2>1. files'[log].entries \in Seq(LogEntry)
      BY <1>4 DEF Log
    <2>2. Len(files'[log].entries) \in Nat
      BY <2>1
    <2> QED BY <1>1, <1>5, <2>2
  <1>8. \A other \in Logs : AllSound(files'[other].entries)
    BY <1>5 DEF DiskOK
  <1>9. Bytes(hive)' /\ hive' # <<>>
    <2>1. Bytes(hive) /\ hive # <<>>
      BY DEF DiskOK
    <2> QED BY <2>1, <1>1, <1>6 DEF Bytes, Blocks
  <1>10. \A other \in Logs : AllSound(files[other].entries)'
    BY <1>1, <1>8 DEF AllSound, Sound
  <1> QED BY <1>1, <1>4, <1>5, <1>6, <1>7, <1>9, <1>10 DEF DiskOK

\* The newest entry is completed.
LEMMA EndEntryInv ==
  ASSUME HistoryOK, DiskOK, EndEntry
  PROVE  HistoryOK' /\ DiskOK' /\ Grows
  <1> DEFINE entries == files[active].entries
             place == Place(Commits)
             new == [entries EXCEPT ![place].form = "valid"]
  <1>1. HistoryOK' /\ Grows /\ Commits' = Commits
        /\ (\A es : AllSound(es)' <=> AllSound(es))
        /\ \A file : Bytes(file)' <=> Bytes(file)
    BY SameHistory DEF EndEntry
  <1>2. /\ files \in [Logs -> Log] /\ active \in Logs /\ active' = active
        /\ files' = [files EXCEPT ![active].entries = new]
    BY DEF DiskOK, EndEntry
  <1>3. entries \in Seq(LogEntry) /\ files[active].base \in Numbers \cup {R!Unusable}
    BY <1>2 DEF Log
  <1> HIDE DEF entries, place
  <1>4. new \in Seq(LogEntry) /\ Len(new) = Len(entries) /\ DOMAIN new = DOMAIN entries
        /\ \A k \in DOMAIN new :
             /\ new[k] \in LogEntry
             /\ new[k].number = entries[k].number
             /\ new[k].pages = entries[k].pages
             /\ new[k].bins = entries[k].bins
    <2>1. DOMAIN new = DOMAIN entries /\ DOMAIN entries = 1..Len(entries) /\ Len(entries) \in Nat
      BY <1>3
    <2>2. ASSUME NEW k \in DOMAIN entries
          PROVE  /\ new[k] \in LogEntry
                 /\ new[k].number = entries[k].number
                 /\ new[k].pages = entries[k].pages
                 /\ new[k].bins = entries[k].bins
      <3>1. entries[k] \in LogEntry
        BY <1>3
      <3>2. new[k] = IF k = place THEN [entries[k] EXCEPT !.form = "valid"] ELSE entries[k]
        OBVIOUS
      <3> QED BY <3>1, <3>2 DEF LogEntry
    <2> HIDE DEF new
    <2>3. new \in [1..Len(entries) -> LogEntry]
      <3>1. \A k \in 1..Len(entries) : new[k] \in LogEntry
        BY <2>1, <2>2
      <3>2. new = [k \in 1..Len(entries) |-> new[k]]
        BY <2>1 DEF new
      <3> QED BY <3>1, <3>2
    <2>4. new \in Seq(LogEntry)
      BY <2>1, <2>3, SeqDef
    <2>5. Len(new) = Len(entries)
      BY <2>1, <2>3, <2>4
    <2> QED BY <2>1, <2>2, <2>4, <2>5
  <1> HIDE DEF new
  <1>5. /\ files' \in [Logs -> Log]
        /\ files'[active].entries = new /\ files'[active].base = files[active].base
        /\ \A log \in Logs \ {active} : files'[log] = files[log]
    <2>1. [files[active] EXCEPT !.entries = new] \in Log
      BY <1>2, <1>4 DEF Log
    <2>2. files' = [files EXCEPT ![active] = [files[active] EXCEPT !.entries = new]]
      BY <1>2
    <2> QED BY <1>2, <2>1, <2>2 DEF Log
  <1>6. AllSound(new)
    <2>1. AllSound(entries)
      BY <1>2 DEF DiskOK, entries
    <2> QED BY <2>1, <1>4 DEF AllSound, Sound
  <1>7. \A log \in Logs : AllSound(files'[log].entries)
    BY <1>5, <1>6 DEF DiskOK
  <1>8. Bytes(hive)' /\ hive' # <<>>
    <2>1. Bytes(hive) /\ hive # <<>> /\ hive' = hive
      BY DEF DiskOK, EndEntry
    <2> QED BY <2>1, <1>1 DEF Bytes, Blocks
  <1>9. \A log \in Logs : AllSound(files[log].entries)'
    BY <1>1, <1>7 DEF AllSound, Sound
  <1>10. /\ files'[active].base \in 1..(Commits + 1)
         /\ Commits - files'[active].base + 1 <= Len(files'[active].entries)
    BY <1>4, <1>5 DEF DiskOK, entries
  <1> QED BY <1>1, <1>2, <1>5, <1>8, <1>9, <1>10 DEF DiskOK

\* A commit is written to the active log.
LEMMA BeginEntryInv ==
  ASSUME HistoryOK, DiskOK, NEW pages \in Changes, BeginEntry(pages)
  PROVE  HistoryOK' /\ DiskOK' /\ Grows
  <1> DEFINE entries == files[active].entries
             base == files[active].base
  <1>1. /\ HistoryOK' /\ Grows /\ Commits' = Commits + 1 /\ changed'[Commits + 1] = pages
        /\ SizeAt(Commits)' = Largest(pages \cup {SizeAt(Commits)})
    BY CommitHistory
  <1>2. /\ Commits \in Nat /\ Commits < MaxCommits /\ MaxCommits \in Nat
        /\ Commits' \in Nat
    BY <1>1, RecoveryAssumption DEF BeginEntry, HistoryOK, Commits
  <1>3. (\A e : Sound(e) => Sound(e)')
        /\ (\A es : AllSound(es) => AllSound(es)')
        /\ \A file : Bytes(file) => Bytes(file)'
    BY <1>1, <1>2, GrowsKeeps
  <1>4. /\ files \in [Logs -> Log] /\ active \in Logs /\ active' = active /\ hive' = hive
        /\ base \in 1..(Commits + 1) /\ Commits - base + 1 <= Len(entries)
        /\ entries \in Seq(LogEntry)
    BY DEF DiskOK, BeginEntry, Log
  <1>5. PICK lists :
          /\ lists = IF base = Commits + 1 THEN pages \cup Lacking(Commits) ELSE pages
          /\ files' = [files EXCEPT ![active].entries =
               Put(entries, Place(Commits + 1),
                   [number |-> Commits + 1, pages |-> lists, form |-> "torn",
                    bins |-> Largest(pages \cup {SizeAt(Commits)})])]
    BY DEF BeginEntry, Put
  <1>6. PICK entry :
          entry = [number |-> Commits + 1, pages |-> lists, form |-> "torn",
                   bins |-> Largest(pages \cup {SizeAt(Commits)})]
    OBVIOUS
  <1>7. PICK place : place = Place(Commits + 1)
    OBVIOUS
  <1>8. PICK new : new = Put(entries, place, entry)
    OBVIOUS
  <1>9. files' = [files EXCEPT ![active].entries = new]
    BY <1>5, <1>6, <1>7, <1>8
  <1>10. entry \in LogEntry
    <2>1. Commits + 1 \in Numbers
      BY <1>2 DEF Numbers
    <2>2. Commits \in 0..Commits
      BY <1>2
    <2>3. pages \in SUBSET (1..(SizeAt(Commits) + 1)) /\ SizeAt(Commits) \in Nat
      BY <2>2, SizeIs DEF BeginEntry
    <2>4. Largest(pages \cup {SizeAt(Commits)}) \in Nat
      BY <2>3, GrownSize
    <2>5. Lacking(Commits) \subseteq Nat \ {0}
      BY <2>3 DEF Lacking
    <2>6. pages \subseteq Nat \ {0}
      BY RecoveryAssumption
    <2>7. lists \in SUBSET (Nat \ {0})
      BY <2>5, <2>6, <1>5
    <2> QED BY <2>1, <2>4, <2>7, <1>6 DEF LogEntry
  <1>11. place \in 1..(Len(entries) + 1)
    <2>1. Len(entries) \in Nat
      BY <1>4
    <2>2. place = (Commits + 1) - base + 1
      BY <1>7 DEF Place
    <2> HIDE DEF base, entries
    <2> QED BY <2>1, <2>2, <1>2, <1>4
  <1>12. new \in Seq(LogEntry) /\ Puts(new, entries, place, entry)
    BY <1>4, <1>8, <1>10, <1>11, PutIs
  <1>13. Sound(entry)'
    <2>1. entry.number = Commits' /\ pages \subseteq entry.pages /\ entry.bins = SizeAt(Commits)'
      BY <1>1, <1>5, <1>6
    <2>2. entry.number \in 1..Commits'
      BY <1>1, <1>2, <2>1
    <2>3. entry.bins = SizeAt(entry.number)'
      BY <2>1 DEF SizeAt, Largest
    <2>4. changed'[entry.number] \subseteq entry.pages
      BY <1>1, <2>1
    <2> QED BY <2>2, <2>3, <2>4 DEF Sound
  <1>14. AllSound(new)'
    <2> SUFFICES ASSUME NEW k \in DOMAIN new PROVE Sound(new[k])'
      BY DEF AllSound
    <2>1. CASE new[k] = entry
      BY <2>1, <1>13
    <2>2. CASE k \in DOMAIN entries /\ new[k] = entries[k]
      <3>1. PICK e : e = entries[k]
        OBVIOUS
      <3>2. Sound(e)
        BY <2>2, <3>1, <1>4 DEF DiskOK, AllSound
      <3> QED BY <2>2, <3>1, <3>2, <1>3
    <2> QED BY <2>1, <2>2, <1>12 DEF Puts
  <1>15. /\ files' \in [Logs -> Log]
         /\ files'[active].entries = new /\ files'[active].base = base
         /\ \A log \in Logs \ {active} : files'[log] = files[log]
    <2>1. [files[active] EXCEPT !.entries = new] \in Log
      BY <1>4, <1>12 DEF Log
    <2>2. files' = [files EXCEPT ![active] = [files[active] EXCEPT !.entries = new]]
      BY <1>9
    <2> QED BY <1>4, <2>1, <2>2 DEF Log
  <1>16. ASSUME NEW log \in Logs PROVE AllSound(files[log].entries)'
    <2>1. CASE log = active
      <3>1. files'[log].entries = new
        BY <2>1, <1>15
      <3> QED BY <3>1, <1>14 DEF AllSound
    <2>2. CASE log # active
      <3>1. PICK es : es = files[log].entries
        OBVIOUS
      <3>2. AllSound(es)'
        BY <3>1, <1>3 DEF DiskOK
      <3>3. files'[log].entries = es
        BY <2>2, <3>1, <1>15
      <3> QED BY <3>2, <3>3 DEF AllSound
    <2> QED BY <2>1, <2>2
  <1>17. Bytes(hive)' /\ hive' # <<>>
    <2>1. PICK file : file = hive
      OBVIOUS
    <2>2. Bytes(file)' /\ file # <<>>
      BY <2>1, <1>3 DEF DiskOK
    <2> QED BY <2>1, <2>2, <1>4 DEF Bytes, Blocks
  <1>18. /\ files'[active].base \in 1..(Commits' + 1)
         /\ Commits' - files'[active].base + 1 <= Len(files'[active].entries)
    <2>1. place = (Commits + 1) - base + 1 /\ place <= Len(new)
      BY <1>7, <1>12 DEF Place, Puts
    <2>2. Len(new) \in Nat
      BY <1>12
    <2>3. files'[active].base = base /\ files'[active].entries = new
      BY <1>15
    <2> HIDE DEF base
    <2> QED BY <2>1, <2>2, <2>3, <1>1, <1>2, <1>4
  <1> QED BY <1>1, <1>4, <1>15, <1>16, <1>17, <1>18 DEF DiskOK

\* Whatever the appraiser writes.
LEMMA WritesInv ==
  ASSUME HistoryOK, DiskOK, AppraiserWrites
  PROVE  HistoryOK' /\ DiskOK' /\ Grows
  BY GoDirtyInv, FlushDoneInv, FlushPageInv, RestartInv, EndEntryInv, BeginEntryInv
     DEF AppraiserWrites

-----------------------------------------------------------------------------
(* The replay keeps it.                                                    *)

\* The sequence number of the hive that was read is that of a commit.
LEMMA BaseSeq2Is ==
  ASSUME Bytes(got), HistoryOK
  PROVE  BaseSeq2 \in Numbers /\ BaseSeq2 \in 0..Commits
  <1>1. 0 \in Numbers /\ Commits \in Nat
    BY RecoveryAssumption DEF Numbers, HistoryOK, Commits
  <1>2. CASE got = <<>>
    BY <1>1, <1>2 DEF BaseSeq2
  <1>3. CASE got # <<>>
    <2>1. got[1] \in BaseBlock /\ got[1].seq2 <= Commits
      BY <1>3 DEF Bytes, Blocks
    <2>2. got[1].seq2 \in Numbers /\ got[1].seq2 \in Nat
      BY <2>1, RecoveryAssumption DEF BaseBlock, Numbers
    <2> QED BY <1>1, <1>3, <2>1, <2>2 DEF BaseSeq2
  <1> QED BY <1>2, <1>3

\* A replay that has not begun.
LEMMA IdleInv ==
  ASSUME Idle, Bytes(got), HistoryOK
  PROVE  ReplayState
  <1> USE DEF Idle
  <1>1. BaseSeq2 \in Numbers /\ MaxCommits \in Nat /\ MaxPages \in Nat /\ 0 \in Numbers
    BY BaseSeq2Is, RecoveryAssumption DEF Numbers
  <1>2. RP!TypeOK
    BY <1>1 DEF RP!TypeOK, NoHeader
  <1>3. RP!ChainOK /\ RP!LastOK /\ RP!NextOK /\ RP!HeaderOK /\ RP!PagesHeld
    BY DEF RP!ChainOK, RP!LastOK, RP!NextOK, RP!HeaderOK, RP!PagesHeld
  <1>4. RP!NewestImageWins /\ RP!GapsOnlyAtBases
    BY DEF RP!NewestImageWins, RP!GapsOnlyAtBases
  <1>5. RP!IInv
    BY <1>2, <1>3, <1>4 DEF RP!IInv
  <1> QED BY <1>5 DEF ReplayState, AllSound, DownClosed, DoneOK

\* The bytes of the hive stay, or are dropped.
LEMMA ReplayStays ==
  ASSUME ReplayState, Bytes(got), HistoryOK, HistoryOK', Grows, UNCHANGED replay,
         got' = got \/ got' = <<>>
  PROVE  ReplayState'
  <1>1. /\ BaseSeq2 \in Numbers /\ BaseSeq2' \in Numbers /\ BaseSeq2' <= BaseSeq2
        /\ BaseSeq2 \in Nat /\ BaseSeq2' \in Nat
    <2>1. BaseSeq2 \in Numbers /\ BaseSeq2 \in Nat /\ 0 \in Numbers
      BY BaseSeq2Is, RecoveryAssumption DEF Numbers
    <2>2. BaseSeq2' = BaseSeq2 \/ BaseSeq2' = 0
      BY DEF BaseSeq2
    <2> QED BY <2>1, <2>2
  <1> USE DEF replay
  <1>2. RP!TypeOK'
    BY <1>1 DEF RP!TypeOK, ReplayState, RP!IInv
  <1>3. RP!ChainOK'
    <2>1. RP!ChainOK /\ RP!TypeOK
      BY DEF ReplayState, RP!IInv
    <2>2. Numbers \subseteq Int /\ expected \in Int
      BY <2>1 DEF Numbers, RP!TypeOK
    <2>0. \A x \in Int : BaseSeq2 <= x => BaseSeq2' <= x
      BY <1>1
    <2>3. \A k \in DOMAIN applied :
            applied[k].number \in Numbers /\ BaseSeq2' <= applied[k].number
            /\ applied[k].number < expected
      <3> TAKE k \in DOMAIN applied
      <3>1. applied[k].number \in Numbers /\ BaseSeq2 <= applied[k].number
            /\ applied[k].number < expected
        BY <2>1 DEF RP!ChainOK
      <3> QED BY <2>0, <2>2, <3>1
    <2>4. \A i \in DOMAIN ready : ready[i] \in Numbers /\ BaseSeq2' <= ready[i]
      <3> TAKE i \in DOMAIN ready
      <3>1. ready[i] \in Numbers /\ BaseSeq2 <= ready[i]
        BY <2>1 DEF RP!ChainOK
      <3> QED BY <2>0, <2>2, <3>1
    <2>5. opened # {} => BaseSeq2' <= expected
      BY <1>1, <2>1, <2>2 DEF RP!ChainOK
    <2> QED BY <2>1, <2>3, <2>4, <2>5 DEF RP!ChainOK
  <1>4. RP!LastOK' /\ RP!NextOK' /\ RP!HeaderOK' /\ RP!PagesHeld'
    BY DEF RP!LastOK, RP!NextOK, RP!HeaderOK, RP!PagesHeld, RP!LastEntry, ReplayState, RP!IInv
  <1>5. RP!NewestImageWins' /\ RP!GapsOnlyAtBases'
    BY DEF RP!NewestImageWins, RP!GapsOnlyAtBases, ReplayState, RP!IInv
  <1>6. RP!IInv'
    BY <1>2, <1>3, <1>4, <1>5 DEF RP!IInv
  <1>7. AllSound(body)' /\ AllSound(applied)'
    <2>1. Commits \in Nat /\ Commits' \in Nat
      BY DEF HistoryOK, Commits
    <2>2. PICK b, a : b = body /\ a = applied
      OBVIOUS
    <2>3. AllSound(b)' /\ AllSound(a)'
      BY <2>1, <2>2, GrowsKeeps DEF ReplayState
    <2> QED BY <2>2, <2>3 DEF AllSound
  <1> QED BY <1>6, <1>7 DEF ReplayState, RP!LastEntry, DownClosed, DoneOK

\* The steps of Replay are steps of HiveReplay.
LEMMA ReplayStepIs ==
  ASSUME NEW i
  PROVE  /\ R!Gate <=> RP!Gate
         /\ R!OpenLog(i) <=> RP!OpenLog(i)
         /\ R!ApplyEntry <=> RP!ApplyEntry
         /\ R!OverCap <=> RP!OverCap
         /\ R!LeaveLog <=> RP!LeaveLog
         /\ R!FinishUnchanged <=> RP!FinishUnchanged
         /\ R!FinishReplayed <=> RP!FinishReplayed
         /\ R!BinsMissing <=> RP!BinsMissing
  <1>1. (R!Continues <=> RP!Continues) /\ R!Zero = RP!Zero /\ R!Unusable = RP!Unusable
        /\ (R!Fail <=> RP!Fail) /\ R!LastEntry = RP!LastEntry
    BY DEF R!Continues, RP!Continues, R!Zero, RP!Zero, R!Unusable, RP!Unusable,
           R!Fail, RP!Fail, R!LastEntry, RP!LastEntry
  <1>2. \A e : R!Written(e) = RP!Written(e)
    BY <1>1 DEF R!Written, RP!Written
  <1>3. R!Gate <=> RP!Gate
    BY <1>1 DEF R!Gate, RP!Gate
  <1>4. R!OpenLog(i) <=> RP!OpenLog(i)
    BY DEF R!OpenLog, RP!OpenLog, R!NextLog, RP!NextLog
  <1>5. R!ApplyEntry <=> RP!ApplyEntry
    BY <1>1, <1>2 DEF R!ApplyEntry, RP!ApplyEntry
  <1>6. (R!OverCap <=> RP!OverCap) /\ (R!LeaveLog <=> RP!LeaveLog)
    BY <1>1 DEF R!OverCap, RP!OverCap, R!LeaveLog, RP!LeaveLog
  <1>7. /\ R!FinishUnchanged <=> RP!FinishUnchanged
        /\ R!FinishReplayed <=> RP!FinishReplayed
        /\ R!BinsMissing <=> RP!BinsMissing
    BY <1>1 DEF R!FinishUnchanged, RP!FinishUnchanged, R!FinishReplayed, RP!FinishReplayed,
                R!BinsMissing, RP!BinsMissing
  <1> QED BY <1>3, <1>4, <1>5, <1>6, <1>7

\* An entry that is applied leaves every page of the copy with its image or its entry.
LEMMA ApplyKeeps ==
  ASSUME RP!IInv, AllSound(body), AllSound(applied), DownClosed, PagesOK,
         RP!ApplyEntry, UNCHANGED got
  PROVE  /\ RP!IInv' /\ DownClosed' /\ PagesOK' /\ phase' = "entries"
         /\ \A k \in DOMAIN applied' : Sound(applied'[k])
         /\ \A k \in DOMAIN body' : Sound(body'[k])
  <1>1. RP!IInv'
    BY RP!ApplyInv, ReplayAssumptionHolds
  <1>2. /\ body \in Seq(RP!Entry) /\ body # <<>> /\ applied \in Seq(RP!Entry)
        /\ applied' = Append(applied, Head(body)) /\ body' = Tail(body)
        /\ out' = RP!Written(Head(body)) /\ phase' = "entries"
        /\ Head(body).pages \subseteq 1..MaxPages
    BY DEF RP!IInv, RP!TypeOK, RP!ApplyEntry, RP!Continues
  <1>3. Head(body) = body[1] /\ 1 \in DOMAIN body /\ Head(body) \in RP!Entry
        /\ (\A k \in DOMAIN Tail(body) : k + 1 \in DOMAIN body /\ Tail(body)[k] = body[k + 1])
    BY <1>2
  <1>4. DOMAIN applied = 1..Len(applied) /\ DOMAIN applied' = 1..(Len(applied) + 1)
        /\ applied'[Len(applied) + 1] = Head(body) /\ Len(applied) \in Nat
        /\ \A k \in DOMAIN applied : applied'[k] = applied[k]
    BY <1>2, <1>3
  <1>5. \A k \in DOMAIN applied' : Sound(applied'[k])
    <2> TAKE k \in DOMAIN applied'
    <2>1. CASE k \in DOMAIN applied
      BY <2>1, <1>4 DEF AllSound
    <2>2. CASE k = Len(applied) + 1
      BY <2>2, <1>3, <1>4 DEF AllSound
    <2> QED BY <2>1, <2>2, <1>4
  <1>6. \A k \in DOMAIN body' : Sound(body'[k])
    BY <1>2, <1>3 DEF AllSound
  <1> DEFINE pages == Head(body).pages
  <1>7. /\ DOMAIN out' = DOMAIN out \cup UNION {1..r : r \in pages}
        /\ \A p \in DOMAIN out' :
             out'[p] = IF p \in pages THEN Head(body).number
                       ELSE IF p \in DOMAIN out THEN out[p] ELSE RP!Zero
    BY <1>2 DEF RP!Written
  <1>8. DownClosed'
    <2> SUFFICES ASSUME NEW p \in DOMAIN out' PROVE 1..p \subseteq DOMAIN out'
      BY DEF DownClosed
    <2>1. CASE p \in DOMAIN out
      BY <2>1, <1>7 DEF DownClosed
    <2>2. CASE \E r \in pages : p \in 1..r
      <3>1. PICK r \in pages : p \in 1..r
        BY <2>2
      <3>2. 1..p \subseteq 1..r
        <4>1. r \in Nat
          BY <1>2, RecoveryAssumption
        <4> QED BY <3>1, <4>1
      <3> QED BY <3>1, <3>2, <1>7
    <2> QED BY <2>1, <2>2, <1>7
  <1>9. PagesOK'
    <2> SUFFICES ASSUME NEW p \in 1..(Len(got) - 1)
                 PROVE  p \in DOMAIN out' /\ (out'[p] = R!Primary \/ Listed(p)')
      BY DEF PagesOK
    <2>1. p \in DOMAIN out /\ (out[p] = R!Primary \/ Listed(p))
      BY DEF PagesOK
    <2>2. p \in DOMAIN out'
      BY <2>1, <1>7
    <2>3. CASE p \in pages
      <3>1. Len(applied) + 1 \in DOMAIN applied' /\ p \in applied'[Len(applied) + 1].pages
        BY <2>3, <1>4
      <3> QED BY <2>2, <3>1 DEF Listed
    <2>4. CASE p \notin pages /\ out[p] = R!Primary
      BY <2>1, <2>2, <2>4, <1>7
    <2>5. CASE Listed(p)
      <3>1. PICK k \in DOMAIN applied : p \in applied[k].pages
        BY <2>5 DEF Listed
      <3>2. k \in DOMAIN applied' /\ p \in applied'[k].pages
        BY <3>1, <1>4
      <3> QED BY <2>2, <3>2 DEF Listed
    <2> QED BY <2>1, <2>3, <2>4, <2>5
  <1> QED BY <1>1, <1>2, <1>5, <1>6, <1>8, <1>9

\* The steps of Replay that leave what was applied as it is.
LEMMA OtherStepsKeep ==
  ASSUME ReplayState, HeldOK, pc = "logs", ReplayPlace, UNCHANGED <<vars, disk, held, disturbed>>,
         \/ GateLogs \/ (\E i \in DOMAIN ready : OpenReadyLog(i))
         \/ R!OverCap \/ R!LeaveLog
         \/ R!FinishUnchanged \/ R!FinishReplayed \/ R!BinsMissing
  PROVE  /\ RP!IInv'
         /\ (\A k \in DOMAIN body' : Sound(body'[k]))
         /\ UNCHANGED <<out, applied>>
         /\ DOMAIN ready' \subseteq DOMAIN read
         /\ DoneOK'
  <1>0. RP!IInv /\ AllSound(body) /\ DOMAIN ready \subseteq DOMAIN read
    BY DEF ReplayState, ReplayPlace
  <1>1. CASE GateLogs
    <2>1. RP!Gate
      BY <1>1, ReplayStepIs DEF GateLogs
    <2>2. RP!IInv'
      BY <1>0, <2>1, RP!GateInv, ReplayAssumptionHolds
    <2>3. UNCHANGED <<body, out, applied>> /\ phase' = "open"
      BY <2>1 DEF RP!Gate
    <2>4. DOMAIN ready' \subseteq DOMAIN read
      BY <1>1 DEF GateLogs
    <2> QED BY <1>0, <2>2, <2>3, <2>4 DEF AllSound, DoneOK
  <1>2. ASSUME NEW i \in DOMAIN ready, OpenReadyLog(i)
        PROVE  /\ RP!IInv' /\ (\A k \in DOMAIN body' : Sound(body'[k]))
               /\ UNCHANGED <<out, applied>> /\ DOMAIN ready' \subseteq DOMAIN read
               /\ DoneOK'
    <2>1. RP!OpenLog(i)
      BY <1>2, ReplayStepIs DEF OpenReadyLog
    <2>2. RP!IInv'
      BY <1>0, <2>1, RP!OpenInv, ReplayAssumptionHolds
    <2>3. UNCHANGED <<ready, out, applied>> /\ phase' = "entries"
      BY <2>1 DEF RP!OpenLog
    <2>4. body' = read[i].entries /\ AllSound(read[i].entries)
      BY <1>0, <1>2 DEF OpenReadyLog, HeldOK
    <2>5. \A k \in DOMAIN body' : Sound(body'[k])
      BY <2>4 DEF AllSound
    <2> QED BY <1>0, <2>2, <2>3, <2>5 DEF DoneOK
  <1>3. CASE R!OverCap \/ R!LeaveLog \/ R!FinishUnchanged \/ R!FinishReplayed \/ R!BinsMissing
    <2>1. RP!OverCap \/ RP!LeaveLog \/ RP!FinishUnchanged \/ RP!FinishReplayed \/ RP!BinsMissing
      BY <1>3, ReplayStepIs
    <2>2. RP!IInv'
      BY <1>0, <2>1, RP!EndInv, ReplayAssumptionHolds
    <2>3. UNCHANGED <<ready, out, applied>> /\ (body' = body \/ body' = <<>>)
      BY <2>1 DEF RP!OverCap, RP!LeaveLog, RP!FinishUnchanged, RP!FinishReplayed,
                  RP!BinsMissing, RP!Fail
    <2>4. \A k \in DOMAIN body' : Sound(body'[k])
      BY <1>0, <2>3 DEF AllSound
    <2>5. DoneOK'
      <3>1. CASE RP!FinishReplayed
        <4>1. /\ header' = [seq |-> RP!LastEntry.number, bins |-> RP!LastEntry.bins]
              /\ RP!LastEntry.bins = 0 \/ RP!LastEntry.bins \in DOMAIN out
              /\ RP!LastEntry' = RP!LastEntry
          BY <3>1 DEF RP!FinishReplayed, RP!LastEntry
        <4> QED BY <4>1, <2>3 DEF DoneOK
      <3>2. CASE RP!OverCap \/ RP!LeaveLog \/ RP!BinsMissing
        BY <3>2 DEF RP!OverCap, RP!LeaveLog, RP!BinsMissing, RP!Fail, DoneOK
      <3>3. CASE RP!FinishUnchanged
        BY <3>3 DEF RP!FinishUnchanged, DoneOK
      <3> QED BY <2>1, <3>1, <3>2, <3>3
    <2> QED BY <1>0, <2>2, <2>3, <2>4, <2>5
  <1> QED BY <1>1, <1>2, <1>3

\* Replay keeps what is known of the pages and of the entries.
LEMMA ReplayKeeps ==
  ASSUME HistoryOK, ReplayState, HeldOK, ReplayPlace,
         GateLogs \/ (\E i \in DOMAIN ready : OpenReadyLog(i)) \/ ReplayStep
  PROVE  ReplayState' /\ ReplayPlace'
  <1>1. pc = "logs" /\ UNCHANGED <<vars, disk, held, disturbed>>
    BY DEF GateLogs, OpenReadyLog, ReplayStep, Replays
  <1>2. \A e : Sound(e)' <=> Sound(e)
    BY <1>1, SameHistory DEF disk
  <1>3. pc' = pc /\ got' = got /\ read' = read /\ replayed' = replayed
    BY <1>1 DEF vars, call, held
  <1>4. DownClosed /\ PagesOK /\ RP!IInv /\ AllSound(body) /\ AllSound(applied)
        /\ DOMAIN ready \subseteq DOMAIN read
    BY <1>1 DEF ReplayState, ReplayPlace, Replaying
  <1>5. CASE R!ApplyEntry
    <2>1. RP!ApplyEntry
      BY <1>5, ReplayStepIs
    <2>2. /\ RP!IInv' /\ DownClosed' /\ PagesOK' /\ phase' = "entries"
          /\ \A k \in DOMAIN applied' : Sound(applied'[k])
          /\ \A k \in DOMAIN body' : Sound(body'[k])
      BY <1>3, <1>4, <2>1, ApplyKeeps
    <2>3. AllSound(body)' /\ AllSound(applied)' /\ DoneOK'
      BY <1>2, <2>2 DEF AllSound, DoneOK
    <2>4. UNCHANGED ready
      BY <2>1 DEF RP!ApplyEntry
    <2> QED BY <1>1, <1>3, <1>4, <2>2, <2>3, <2>4 DEF ReplayState, ReplayPlace, Replaying
  <1>6. CASE ~R!ApplyEntry
    <2>1. /\ RP!IInv' /\ DoneOK'
          /\ (\A k \in DOMAIN body' : Sound(body'[k]))
          /\ UNCHANGED <<out, applied>>
          /\ DOMAIN ready' \subseteq DOMAIN read
      BY <1>1, <1>6, OtherStepsKeep DEF ReplayStep
    <2>2. AllSound(body)' /\ AllSound(applied)'
      BY <1>2, <1>4, <2>1 DEF AllSound
    <2>3. DownClosed' /\ PagesOK'
      BY <1>3, <1>4, <2>1 DEF DownClosed, PagesOK, Listed
    <2> QED BY <1>1, <1>3, <2>1, <2>2, <2>3 DEF ReplayState, ReplayPlace, Replaying
  <1> QED BY <1>5, <1>6

-----------------------------------------------------------------------------
(* The call keeps it.                                                      *)

\* The steps of the call leave the disk as it is.
LEMMA DiskStays ==
  ASSUME HistoryOK, DiskOK, UNCHANGED disk
  PROVE  HistoryOK' /\ DiskOK' /\ Grows /\ Commits' = Commits
  <1>1. /\ HistoryOK' /\ Grows /\ Commits' = Commits
        /\ \A entries : AllSound(entries)' <=> AllSound(entries)
    BY SameHistory DEF disk
  <1>2. Bytes(hive)' /\ hive' # <<>>
    BY <1>1 DEF DiskOK, disk, Bytes, Blocks
  <1> QED BY <1>1, <1>2 DEF DiskOK, disk

\* What is known of bytes that are kept.
LEMMA HeldStays ==
  ASSUME HistoryOK, HistoryOK', Grows, HeldOK,
         UNCHANGED held \/ (got' = <<>> /\ want' = 0 /\ read' = <<>>),
         disturbed' \in BOOLEAN
  PROVE  HeldOK'
  <1>1. /\ Commits \in Nat /\ Commits' \in Nat
        /\ Cap \in Nat
    BY RecoveryAssumption DEF HistoryOK, Commits, Cap
  <1>2. CASE got' = <<>> /\ want' = 0 /\ read' = <<>>
    <2>1. Bytes(got)'
      BY <1>2 DEF Bytes, Blocks
    <2> QED BY <1>1, <1>2, <2>1 DEF HeldOK, Cap
  <1>3. CASE UNCHANGED held
    <2>1. PICK file : file = got
      OBVIOUS
    <2>2. Bytes(file)' /\ got' = file
      BY <1>1, <1>3, <2>1, GrowsKeeps DEF HeldOK, held
    <2>3. Bytes(got)'
      BY <2>2 DEF Bytes, Blocks
    <2>4. ASSUME NEW k \in DOMAIN read PROVE AllSound(read[k].entries)'
      <3>1. PICK es : es = read[k].entries
        OBVIOUS
      <3>2. AllSound(es)' /\ read' = read
        BY <1>1, <1>3, <3>1, GrowsKeeps DEF HeldOK, held
      <3> QED BY <3>1, <3>2 DEF AllSound
    <2> QED BY <1>1, <1>3, <2>3, <2>4 DEF HeldOK, held, Cap
  <1> QED BY <1>2, <1>3

\* Where the steps that move no bytes go.
LEMMA MovesGo ==
  ASSUME Moves
  PROVE  /\ \/ pc' = pc /\ UNCHANGED <<data, replayed>>
            \/ /\ pc = "recheck" /\ pc' = IF data = "dirty" THEN "failed" ELSE "ok"
               /\ UNCHANGED <<data, replayed>>
            \/ /\ pc \in Idlers
               /\ pc' \in Idlers \cup {"failed"} \/ (pc' = "ok" /\ ~replayed')
         /\ pc' \in {"idle", "path", "plain", "raw"} =>
              pc \in {"idle", "path", "plain", "violation", "raw"}
         /\ pc' = "opened" => pc = "opened"
         /\ pc' = "found" => pc = "found"
         /\ pc' \in {"acquired", "dirty", "logs", "recheck", "ok"} =>
              pc \in {"acquired", "dirty", "logs", "recheck", "ok"}
  <1> USE DEF Goto, Idlers
  <1>1. CASE Begin BY <1>1 DEF Begin
  <1>2. CASE FindPath BY <1>2 DEF FindPath
  <1>3. CASE PlainRefused BY <1>3 DEF PlainRefused
  <1>4. CASE PlainFails BY <1>4 DEF PlainFails
  <1>5. CASE CheckBeforeRaw BY <1>5 DEF CheckBeforeRaw
  <1>6. CASE RawFails BY <1>6 DEF RawFails
  <1>7. CASE Decide BY <1>7 DEF Decide
  <1>8. CASE CheckBeforeFiles BY <1>8 DEF CheckBeforeFiles
  <1>9. CASE Capture BY <1>9 DEF Capture
  <1>10. CASE Recheck BY <1>10 DEF Recheck
  <1>11. CASE Surroundings BY <1>11 DEF Surroundings, EndContext, Appraiser, call
  <1> QED BY <1>1, <1>2, <1>3, <1>4, <1>5, <1>6, <1>7, <1>8, <1>9, <1>10, <1>11 DEF Moves

\* The steps of the call that move no bytes keep the invariant.
LEMMA MovesInv ==
  ASSUME RInv, Moves
  PROVE  RInv'
  <1>0. HistoryOK /\ DiskOK /\ HeldOK /\ HeldPlace /\ ReplayState /\ ReplayPlace
    BY DEF RInv
  <1>1. HistoryOK' /\ DiskOK' /\ Grows
    BY <1>0, DiskStays DEF Moves
  <1>2. UNCHANGED replay
        /\ IF pc' \in {"violation", "failed"}
             THEN got' = <<>> /\ want' = 0 /\ read' = <<>> /\ disturbed' = FALSE
             ELSE UNCHANGED <<got, want, read, disturbed>>
    BY DEF Moves
  <1>3. HeldOK'
    <2>1. UNCHANGED held \/ (got' = <<>> /\ want' = 0 /\ read' = <<>>)
      <3>1. CASE pc' \in {"violation", "failed"}
        BY <1>2, <3>1
      <3>2. CASE pc' \notin {"violation", "failed"}
        BY <1>2, <3>2 DEF held
      <3> QED BY <3>1, <3>2
    <2>2. disturbed' \in BOOLEAN
      BY <1>0, <1>2 DEF HeldOK
    <2> QED BY <1>0, <1>1, <2>1, <2>2, HeldStays
  <1>4. ReplayState'
    BY <1>0, <1>1, <1>2, ReplayStays DEF HeldOK
  <1>5. HeldPlace'
    <2>1. CASE pc' \in {"violation", "failed"}
      BY <1>2, <2>1 DEF HeldPlace
    <2>2. CASE pc' \notin {"violation", "failed"}
      <3>1. got' = got /\ want' = want
        BY <1>2, <2>2
      <3>2. /\ pc' \in {"idle", "path", "plain", "raw"} =>
                 pc \in {"idle", "path", "plain", "violation", "raw"}
            /\ pc' = "opened" => pc = "opened"
            /\ pc' = "found" => pc = "found"
            /\ pc' \in {"acquired", "dirty", "logs", "recheck", "ok"} =>
                 pc \in {"acquired", "dirty", "logs", "recheck", "ok"}
        BY <2>2, MovesGo DEF Idlers
      <3>3. Cap' = Cap
        BY DEF Cap
      <3> QED BY <1>0, <2>2, <3>1, <3>2 DEF HeldPlace, Cap
    <2> QED BY <2>1, <2>2
  <1>6. ReplayPlace'
    <2>1. UNCHANGED <<ready, out, applied, phase>> /\ (Idle => Idle')
      BY <1>2 DEF replay, Idle
    <2>2. CASE pc' = pc /\ UNCHANGED <<data, replayed>>
      <3>1. CASE pc' \in {"violation", "failed"}
        BY <1>0, <2>1, <2>2, <3>1 DEF ReplayPlace, Replaying
      <3>2. CASE pc' \notin {"violation", "failed"}
        <4>1. got' = got /\ read' = read
          BY <1>2, <3>2
        <4>2. PagesOK => PagesOK'
          BY <2>1, <4>1 DEF PagesOK, Listed
        <4> QED BY <1>0, <2>1, <2>2, <4>1, <4>2 DEF ReplayPlace, Replaying
      <3> QED BY <3>1, <3>2
    <2>3. CASE /\ pc = "recheck" /\ pc' = IF data = "dirty" THEN "failed" ELSE "ok"
               /\ UNCHANGED <<data, replayed>>
      <3>1. CASE pc' = "failed"
        BY <3>1 DEF ReplayPlace, Replaying
      <3>2. CASE pc' = "ok" /\ data # "dirty"
        <4>1. got' = got
          BY <1>2, <3>2
        <4>2. PagesOK /\ phase = "done" /\ applied # <<>>
          BY <1>0, <2>3, <3>2 DEF ReplayPlace, Replaying
        <4>3. PagesOK'
          BY <2>1, <4>1, <4>2 DEF PagesOK, Listed
        <4> QED BY <2>1, <3>2, <4>2, <4>3 DEF ReplayPlace, Replaying
      <3> QED BY <2>3, <3>1, <3>2
    <2>4. CASE /\ pc \in Idlers
               /\ pc' \in Idlers \cup {"failed"} \/ (pc' = "ok" /\ ~replayed')
      <3>1. Idle'
        BY <1>0, <2>1, <2>4 DEF ReplayPlace, Idlers
      <3> QED BY <2>4, <3>1 DEF ReplayPlace, Replaying, Idlers
    <2> QED BY <2>2, <2>3, <2>4, MovesGo
  <1> QED BY <1>1, <1>3, <1>4, <1>5, <1>6 DEF RInv

\* Until a replay begins nothing has to be known of it but that.
LEMMA IdleStays ==
  ASSUME ReplayPlace, pc \in Idlers, UNCHANGED replay, HistoryOK', Bytes(got)',
         pc' \in Idlers \cup {"failed"}
  PROVE  ReplayState' /\ ReplayPlace'
  <1>1. Idle'
    BY DEF ReplayPlace, Idlers, Idle, replay
  <1>2. ReplayState'
    <2>1. (Idle /\ Bytes(got) /\ HistoryOK => ReplayState)'
      BY IdleInv, PTL
    <2> QED BY <1>1, <2>1
  <1> QED BY <1>1, <1>2 DEF ReplayPlace, Replaying, Idlers

\* The hive is opened, or found on the volume, before any of it is read.
LEMMA OpenFindInv ==
  ASSUME RInv, OpenHive \/ FindHive
  PROVE  RInv'
  <1>0. HistoryOK /\ DiskOK /\ HeldOK /\ HeldPlace /\ ReplayPlace
    BY DEF RInv
  <1>1. HistoryOK' /\ DiskOK' /\ Grows /\ Commits' = Commits
    BY <1>0, DiskStays DEF OpenHive, FindHive
  <1>2. /\ pc \in {"plain", "raw"} /\ got = <<>> /\ got' = got /\ read' = read
        /\ disturbed' = disturbed /\ UNCHANGED replay
        /\ \/ pc' = "opened" /\ want' = want
           \/ pc' = "found" /\ want' = Len(hive) /\ Len(hive) <= Cap
    BY <1>0 DEF OpenHive, FindHive, PlainOpens, RawFinds, Goto, held, HeldPlace
  <1>3. Cap \in Nat
    BY RecoveryAssumption DEF Cap
  <1>4. want' \in 0..Cap /\ (pc' = "found" => want' # 0)
    BY <1>0, <1>2, <1>3, HeadIs DEF HeldOK
  <1>5. (Bytes(got)' <=> Bytes(got)) /\ \A es : AllSound(es)' <=> AllSound(es)
    <2>1. UNCHANGED changed
      BY DEF OpenHive, FindHive, disk
    <2> QED BY <1>0, <1>2, <2>1, SameHistory DEF Bytes, Blocks
  <1>6. HeldOK'
    BY <1>0, <1>2, <1>4, <1>5 DEF HeldOK, Cap, AllSound, Sound
  <1>7. HeldPlace'
    <2>1. Len(got) = 0
      BY <1>2
    <2> QED BY <1>2, <1>3, <1>4, <2>1 DEF HeldPlace, Cap
  <1>8. ReplayState' /\ ReplayPlace'
    BY <1>0, <1>1, <1>2, <1>6, IdleStays DEF Idlers, HeldOK
  <1> QED BY <1>1, <1>6, <1>7, <1>8 DEF RInv

\* One more block of the hive is read.
LEMMA ReadBlockInv ==
  ASSUME RInv, ReadBlock
  PROVE  RInv'
  <1>0. HistoryOK /\ DiskOK /\ HeldOK /\ HeldPlace /\ ReplayPlace
    BY DEF RInv
  <1>1. HistoryOK' /\ DiskOK' /\ Grows /\ Commits' = Commits
    BY <1>0, DiskStays DEF ReadBlock
  <1>2. /\ pc \in {"opened", "found"} /\ pc' = pc /\ want' = want /\ read' = read
        /\ disturbed' = disturbed /\ UNCHANGED replay /\ UNCHANGED changed
        /\ got' = Append(got, hive[Len(got) + 1])
        /\ Len(got) # ReadLimit /\ ~(Len(got) >= Len(hive))
    BY DEF ReadBlock, vars, call, AtEnd, disk
  <1>3. Cap \in Nat /\ want \in Nat /\ got \in Seq(Block) /\ hive \in Seq(Block)
    BY <1>0, RecoveryAssumption DEF Cap, HeldOK, DiskOK, Bytes, Block
  <1>4. /\ Len(got) \in Nat /\ Len(hive) \in Nat /\ Len(got) + 1 \in 1..Len(hive)
        /\ Len(got') = Len(got) + 1 /\ got' \in Seq(Block) /\ got' # <<>>
        /\ got'[Len(got) + 1] = hive[Len(got) + 1]
        /\ \A i \in 1..Len(got) : got'[i] = got[i]
    <2> HIDE DEF Block
    <2>1. Len(got) \in Nat /\ Len(hive) \in Nat /\ Len(got) + 1 \in 1..Len(hive)
      BY <1>2, <1>3
    <2>2. hive[Len(got) + 1] \in Block
      BY <1>3, <2>1
    <2>3. Len(got') = Len(got) + 1 /\ got' \in Seq(Block)
      BY <1>2, <1>3, <2>2
    <2>4. got' # <<>>
      BY <2>1, <2>3
    <2> QED BY <1>2, <1>3, <2>1, <2>2, <2>3, <2>4
  <1>5. Bytes(got')
    <2>1. got'[1] \in BaseBlock /\ got'[1].seq2 <= Commits
      <3>1. CASE Len(got) = 0
        BY <3>1, <1>0, <1>4, HeadIs
      <3>2. CASE Len(got) # 0
        <4>1. 1 \in 1..Len(got) /\ got # <<>>
          BY <3>2, <1>4
        <4> QED BY <4>1, <1>0, <1>4 DEF HeldOK, Bytes, Blocks
      <3> QED BY <3>1, <3>2
    <2>2. \A i \in 2..Len(got') : got'[i] \in 0..MaxCommits
      <3> TAKE i \in 2..Len(got')
      <3>1. CASE i = Len(got) + 1
        <4>1. i \in 2..Len(hive) /\ got'[i] = hive[i]
          BY <3>1, <1>4
        <4> QED BY <4>1, <1>0 DEF DiskOK, Bytes, Blocks
      <3>2. CASE i \in 2..Len(got)
        <4>1. got # <<>> /\ got'[i] = got[i]
          BY <3>2, <1>4
        <4> QED BY <3>2, <4>1, <1>0 DEF HeldOK, Bytes, Blocks
      <3> QED BY <3>1, <3>2, <1>4
    <2> QED BY <1>4, <2>1, <2>2 DEF Bytes, Blocks, Block
  <1>6. (\A es : AllSound(es)' <=> AllSound(es)) /\ Bytes(got)'
    <2>1. \A es : AllSound(es)' <=> AllSound(es)
      BY <1>0, <1>2, SameHistory
    <2> QED BY <1>1, <1>5, <2>1 DEF Bytes, Blocks
  <1>7. HeldOK'
    BY <1>0, <1>2, <1>6 DEF HeldOK, Cap, AllSound, Sound
  <1>8. HeldPlace'
    <2>1. pc = "opened" => Len(got') <= Cap + 1
      BY <1>0, <1>2, <1>3, <1>4 DEF HeldPlace, ReadLimit
    <2>2. pc = "found" => want' # 0 /\ Len(got') <= want'
      BY <1>0, <1>2, <1>3, <1>4 DEF HeldPlace, ReadLimit
    <2> QED BY <1>2, <2>1, <2>2 DEF HeldPlace, Cap
  <1>9. ReplayState' /\ ReplayPlace'
    BY <1>0, <1>1, <1>2, <1>6, IdleStays DEF Idlers
  <1> QED BY <1>1, <1>7, <1>8, <1>9 DEF RInv

\* The last block was read.
LEMMA EndsInv ==
  ASSUME RInv, PlainEnds \/ RawEnds
  PROVE  RInv'
  <1>0. HistoryOK /\ DiskOK /\ HeldOK /\ HeldPlace /\ ReplayPlace
    BY DEF RInv
  <1>1. HistoryOK' /\ DiskOK' /\ Grows /\ Commits' = Commits
    BY <1>0, DiskStays DEF PlainEnds, RawEnds
  <1>2. /\ pc \in {"opened", "found"} /\ pc' = "acquired"
        /\ UNCHANGED held /\ disturbed' = disturbed /\ UNCHANGED replay
    BY DEF PlainEnds, RawEnds, PlainReads, RawReads, Goto
  <1>3. Cap \in Nat /\ want \in 0..Cap /\ Len(got) \in Nat /\ Len(hive) \in Nat /\ Len(hive) # 0
    <2>1. got \in Seq(Block)
      BY <1>0 DEF HeldOK, Bytes, Block
    <2> QED BY <2>1, <1>0, HeadIs, RecoveryAssumption DEF Cap, HeldOK
  <1>4. Len(got) <= Cap /\ Len(got) # 0
    <2>1. CASE PlainEnds
      <3>1. pc = "opened" /\ Len(got) <= Cap /\ (Len(got) = Cap + 1 \/ Len(got) >= Len(hive))
        BY <2>1 DEF PlainEnds, PlainReads, AtEnd, ReadLimit
      <3> QED BY <3>1, <1>3
    <2>2. CASE RawEnds
      <3>1. pc = "found" /\ Len(got) = want
        BY <2>2 DEF RawEnds, RawReads
      <3> QED BY <3>1, <1>0, <1>3 DEF HeldPlace
    <2> QED BY <2>1, <2>2
  <1>5. HeldOK'
    BY <1>0, <1>1, <1>2, HeldStays DEF HeldOK
  <1>6. HeldPlace'
    <2>1. got # <<>>
      BY <1>4
    <2> QED BY <1>2, <1>4, <2>1 DEF HeldPlace, held, Cap
  <1>7. ReplayState' /\ ReplayPlace'
    BY <1>0, <1>1, <1>2, <1>5, IdleStays DEF Idlers, HeldOK
  <1> QED BY <1>1, <1>5, <1>6, <1>7 DEF RInv

\* Replay begins with a copy of the hive that was read.
LEMMA AllowLogsInv ==
  ASSUME RInv, AllowLogs
  PROVE  RInv'
  <1>0. HistoryOK /\ DiskOK /\ HeldOK /\ HeldPlace /\ ReplayPlace
    BY DEF RInv
  <1>1. HistoryOK' /\ DiskOK' /\ Grows /\ Commits' = Commits
    BY <1>0, DiskStays DEF AllowLogs
  <1>2. /\ pc = "dirty" /\ pc' \in {"failed", "logs"}
        /\ got' = got /\ want' = want /\ read' = read /\ disturbed' = disturbed
        /\ out' = [p \in 1..(Len(got) - 1) |-> R!Primary]
        /\ header' = [seq |-> BaseSeq2, bins |-> Len(got) - 1]
        /\ UNCHANGED <<ready, opened, body, expected, applied, phase>>
    BY DEF AllowLogs, CheckBeforeLogs, Goto, held
  <1>3. /\ ready = <<>> /\ opened = {} /\ body = <<>> /\ expected = 0 /\ applied = <<>>
        /\ phase = "gate" /\ got # <<>> /\ Len(got) <= Cap
    BY <1>0, <1>2 DEF ReplayPlace, Idle, HeldPlace
  <1>4. HeldOK'
    BY <1>0, <1>1, <1>2, HeldStays DEF HeldOK, held
  <1>5. HeldPlace'
    BY <1>2, <1>3 DEF HeldPlace, Cap
  <1>6. /\ Len(got) - 1 \in Nat /\ Len(got) - 1 \in 0..MaxPages /\ MaxPages \in Nat
        /\ BaseSeq2 \in Numbers /\ BaseSeq2' = BaseSeq2 /\ MaxCommits \in Nat
    <2>1. got \in Seq(Block)
      BY <1>0 DEF HeldOK, Bytes, Block
    <2>2. Len(got) \in Nat /\ Len(got) # 0
      BY <2>1, <1>3
    <2>3. BaseSeq2 \in Numbers /\ MaxPages \in Nat /\ MaxCommits \in Nat
      BY <1>0, BaseSeq2Is, RecoveryAssumption DEF HeldOK
    <2>4. Len(got) <= MaxPages + 1
      BY <1>3 DEF Cap
    <2> QED BY <2>2, <2>3, <2>4, <1>2 DEF BaseSeq2
  <1>7. RP!TypeOK'
    <2>1. /\ DOMAIN out' \subseteq 1..MaxPages
          /\ out' \in [DOMAIN out' -> RP!Images]
      BY <1>2, <1>6 DEF RP!Images, RP!Primary, R!Primary
    <2>2. header' \in [seq : Numbers, bins : Nat]
      BY <1>2, <1>6
    <2> QED BY <1>2, <1>3, <1>6, <2>1, <2>2 DEF RP!TypeOK
  <1>8. RP!ChainOK' /\ RP!LastOK' /\ RP!NextOK' /\ RP!HeaderOK' /\ RP!PagesHeld'
    BY <1>2, <1>3 DEF RP!ChainOK, RP!LastOK, RP!NextOK, RP!HeaderOK, RP!PagesHeld
  <1>9. RP!NewestImageWins' /\ RP!GapsOnlyAtBases'
    BY <1>2, <1>3 DEF RP!NewestImageWins, RP!GapsOnlyAtBases, RP!Primary, R!Primary
  <1>10. ReplayState'
    <2>1. RP!IInv'
      BY <1>7, <1>8, <1>9 DEF RP!IInv
    <2>2. AllSound(body)' /\ AllSound(applied)' /\ DoneOK'
      BY <1>2, <1>3 DEF AllSound, DoneOK
    <2>3. DownClosed'
      BY <1>2, <1>6 DEF DownClosed
    <2> QED BY <2>1, <2>2, <2>3 DEF ReplayState
  <1>11. ReplayPlace'
    <2>1. PagesOK'
      BY <1>2 DEF PagesOK
    <2>2. DOMAIN ready' = {}
      BY <1>2, <1>3
    <2> QED BY <1>2, <2>1, <2>2 DEF ReplayPlace, Replaying
  <1> QED BY <1>1, <1>4, <1>5, <1>10, <1>11 DEF RInv

\* A log is read as it is on disk, or left out.
LEMMA TakeLogInv ==
  ASSUME RInv, NEW log \in Logs, TakeLog(log)
  PROVE  RInv'
  <1>0. HistoryOK /\ DiskOK /\ HeldOK /\ HeldPlace /\ ReplayPlace /\ ReplayState
    BY DEF RInv
  <1>1. HistoryOK' /\ DiskOK' /\ Grows /\ Commits' = Commits
    BY <1>0, DiskStays DEF TakeLog
  <1>2. /\ pc \in {"logs", "filelogs"} /\ pc' = pc
        /\ got' = got /\ want' = want /\ disturbed' = disturbed /\ UNCHANGED replay
        /\ read' = read \/ read' = Append(read, files[log])
    BY DEF TakeLog, ReadLog
  <1>3. read \in Seq(Log) /\ files[log] \in Log /\ AllSound(files[log].entries)
    BY <1>0 DEF HeldOK, DiskOK
  <1>4. read' \in Seq(Log) /\ DOMAIN read \subseteq DOMAIN read'
        /\ \A k \in DOMAIN read' :
             AllSound(read'[k].entries)
    <2>1. CASE read' = read
      BY <2>1, <1>0 DEF HeldOK
    <2>2. CASE read' = Append(read, files[log])
      <3>1. /\ read' \in Seq(Log) /\ DOMAIN read' = 1..(Len(read) + 1)
            /\ DOMAIN read = 1..Len(read) /\ Len(read) \in Nat
            /\ read'[Len(read) + 1] = files[log]
            /\ \A k \in DOMAIN read : read'[k] = read[k]
        BY <2>2, <1>3
      <3>2. ASSUME NEW k \in DOMAIN read' PROVE AllSound(read'[k].entries)
        <4>1. CASE k \in DOMAIN read
          BY <4>1, <3>1, <1>0 DEF HeldOK
        <4>2. CASE k = Len(read) + 1
          BY <4>2, <3>1, <1>3
        <4> QED BY <4>1, <4>2, <3>1
      <3> QED BY <3>1, <3>2
    <2> QED BY <1>2, <2>1, <2>2
  <1>5. HeldOK'
    <2>1. UNCHANGED changed
      BY DEF TakeLog, disk
    <2>2. (\A e : Sound(e)' <=> Sound(e)) /\ (\A file : Bytes(file)' <=> Bytes(file))
      BY <1>0, <2>1, SameHistory
    <2>3. Bytes(got)'
      BY <1>0, <1>2, <2>2 DEF HeldOK, Bytes, Blocks
    <2>4. \A k \in DOMAIN read' : AllSound(read[k].entries)'
      BY <1>4, <2>2 DEF AllSound
    <2> QED BY <1>0, <1>2, <1>4, <2>3, <2>4 DEF HeldOK, Cap
  <1>6. HeldPlace'
    BY <1>0, <1>2 DEF HeldPlace, Cap
  <1>7. ReplayState'
    BY <1>0, <1>1, <1>2, ReplayStays DEF HeldOK
  <1>8. ReplayPlace'
    <2>1. Idle => Idle'
      BY <1>2 DEF replay, Idle
    <2>2. PagesOK => PagesOK'
      BY <1>2 DEF replay, PagesOK, Listed
    <2>3. ready' = ready
      BY <1>2 DEF replay
    <2> QED BY <1>0, <1>2, <1>4, <2>1, <2>2, <2>3 DEF ReplayPlace, Replaying
  <1> QED BY <1>1, <1>5, <1>6, <1>7, <1>8 DEF RInv

\* What Replay returned, or that it gave up.
LEMMA ReplayedInv ==
  ASSUME RInv, Replayed \/ ReplayGivesUp
  PROVE  RInv'
  <1>0. HistoryOK /\ DiskOK /\ HeldOK /\ HeldPlace /\ ReplayPlace /\ ReplayState
    BY DEF RInv
  <1>1. HistoryOK' /\ DiskOK' /\ Grows /\ Commits' = Commits
    BY <1>0, DiskStays DEF Replayed, ReplayGivesUp
  <1>2. /\ pc = "logs" /\ UNCHANGED held /\ disturbed' = disturbed /\ UNCHANGED replay
        /\ \/ pc' = "failed"
           \/ /\ pc' = "recheck" /\ phase = "done"
              /\ data' = IF applied = <<>> THEN "dirty" ELSE "clean"
    BY DEF Replayed, ReplayGivesUp, Replay, ReplayFails, Goto
  <1>3. HeldOK'
    BY <1>0, <1>1, <1>2, HeldStays DEF HeldOK
  <1>4. HeldPlace'
    BY <1>0, <1>2 DEF HeldPlace, Cap, held
  <1>5. ReplayState'
    BY <1>0, <1>1, <1>2, ReplayStays DEF HeldOK, held
  <1>6. ReplayPlace'
    <2>1. PagesOK
      BY <1>0, <1>2 DEF ReplayPlace, Replaying
    <2>2. PagesOK'
      BY <1>2, <2>1 DEF replay, held, PagesOK, Listed
    <2>3. phase' = phase /\ applied' = applied
      BY <1>2 DEF replay
    <2> QED BY <1>2, <2>2, <2>3 DEF ReplayPlace, Replaying
  <1> QED BY <1>1, <1>3, <1>4, <1>5, <1>6 DEF RInv

\* The bytes of a call are dropped when it returns.
LEMMA ReturnInv ==
  ASSUME RInv, ReturnBytes
  PROVE  RInv'
  <1>0. HistoryOK /\ DiskOK /\ HeldOK
    BY DEF RInv
  <1>1. HistoryOK' /\ DiskOK' /\ Grows /\ Commits' = Commits
    BY <1>0, DiskStays DEF ReturnBytes
  <1>2. /\ pc' = "idle" /\ Idle' /\ got' = <<>> /\ want' = 0 /\ read' = <<>>
        /\ disturbed' = FALSE
    BY DEF ReturnBytes, Return, Goto, Idle, NoHeader
  <1>3. HeldOK'
    BY <1>0, <1>1, <1>2, HeldStays
  <1>4. HeldPlace'
    BY <1>2 DEF HeldPlace
  <1>5. (Idle /\ Bytes(got) /\ HistoryOK => ReplayState)'
    BY IdleInv, PTL
  <1>6. ReplayState'
    BY <1>1, <1>2, <1>3, <1>5 DEF HeldOK
  <1>7. ReplayPlace'
    BY <1>2 DEF ReplayPlace, Replaying
  <1> QED BY <1>1, <1>3, <1>4, <1>6, <1>7 DEF RInv

\* A write of the appraiser keeps the invariant, for it works beside the call.
LEMMA WriteKeepsRInv ==
  ASSUME RInv, AppraiserWrites
  PROVE  RInv'
  <1>0. HistoryOK /\ DiskOK /\ HeldOK /\ HeldPlace /\ ReplayPlace /\ ReplayState
    BY DEF RInv
  <1>1. HistoryOK' /\ DiskOK' /\ Grows
    BY <1>0, WritesInv
  <1>2. UNCHANGED <<vars, held, replay>> /\ disturbed' \in BOOLEAN
    BY DEF AppraiserWrites, GoDirty, EndEntry, FlushDone, Restart, BeginEntry, FlushPage, Write
  <1>3. HeldOK'
    BY <1>0, <1>1, <1>2, HeldStays
  <1>4. pc' = pc /\ got' = got /\ want' = want /\ read' = read /\ replayed' = replayed
        /\ data' = data
    BY <1>2 DEF vars, call, held
  <1>5. HeldPlace'
    BY <1>0, <1>4 DEF HeldPlace, Cap
  <1>6. ReplayState'
    BY <1>0, <1>1, <1>2, <1>4, ReplayStays DEF HeldOK
  <1>7. ReplayPlace'
    <2>1. UNCHANGED <<ready, out, applied, phase>> /\ (Idle => Idle')
      BY <1>2 DEF replay, Idle
    <2>2. PagesOK => PagesOK'
      BY <1>4, <2>1 DEF PagesOK, Listed
    <2> QED BY <1>0, <1>4, <2>1, <2>2 DEF ReplayPlace, Replaying
  <1> QED BY <1>1, <1>3, <1>5, <1>6, <1>7 DEF RInv

\* The steps of Replay keep the invariant.
LEMMA ReplayStepsInv ==
  ASSUME RInv, GateLogs \/ (\E i \in DOMAIN ready : OpenReadyLog(i)) \/ ReplayStep
  PROVE  RInv'
  <1>0. HistoryOK /\ DiskOK /\ HeldOK /\ HeldPlace /\ ReplayPlace /\ ReplayState
    BY DEF RInv
  <1>1. UNCHANGED <<vars, disk, held, disturbed>>
    BY DEF GateLogs, OpenReadyLog, ReplayStep, Replays
  <1>2. HistoryOK' /\ DiskOK' /\ Grows
    BY <1>0, <1>1, DiskStays
  <1>3. HeldOK'
    BY <1>0, <1>1, <1>2, HeldStays DEF HeldOK
  <1>4. HeldPlace'
    BY <1>0, <1>1 DEF HeldPlace, Cap, vars, call, held
  <1> QED BY <1>0, <1>2, <1>3, <1>4, ReplayKeeps DEF RInv

\* The hive of the first state: its base block, and the pages as the past left them.
LEMMA InitHive ==
  ASSUME RecoveryInit
  PROVE  /\ hive \in Seq(Block) /\ Len(hive) = 1 + FirstSize
         /\ hive[1] = [seq1 |-> Len(Past), seq2 |-> Len(Past), bins |-> FirstSize]
         /\ hive[1] \in BaseBlock
         /\ \A p \in 1..FirstSize :
              /\ hive[p + 1] = Largest({n \in DOMAIN Past : p \in Past[n]} \cup {0})
              /\ hive[p + 1] \in 0..MaxCommits
  <1>1. /\ MaxPages \in Nat /\ MaxCommits \in Nat /\ FirstSize \in 1..MaxPages /\ FirstSize \in Nat
        /\ Past \in Seq(Changes) /\ Len(Past) <= MaxCommits /\ Len(Past) \in Nat
        /\ DOMAIN Past = 1..Len(Past)
    BY RecoveryAssumption
  <1> DEFINE head == [seq1 |-> Len(Past), seq2 |-> Len(Past), bins |-> FirstSize]
             pages == [p \in 1..FirstSize |->
                        Largest({n \in DOMAIN Past : p \in Past[n]} \cup {0})]
  <1>2. head \in BaseBlock
    <2>1. Len(Past) \in Numbers
      BY <1>1 DEF Numbers
    <2> QED BY <2>1, <1>1 DEF BaseBlock
  <1>3. pages \in [1..FirstSize -> 0..MaxCommits]
    <2> SUFFICES ASSUME NEW p \in 1..FirstSize
                 PROVE  Largest({n \in DOMAIN Past : p \in Past[n]} \cup {0}) \in 0..MaxCommits
      OBVIOUS
    <2> DEFINE S == {n \in DOMAIN Past : p \in Past[n]} \cup {0}
    <2>1. S \in SUBSET Nat /\ S # {} /\ \A x \in S : x <= MaxCommits
      BY <1>1
    <2>0. \A x \in Nat : x <= MaxCommits => x \in 0..MaxCommits
      BY <1>1
    <2> HIDE DEF S
    <2>2. Largest(S) \in S
      BY <1>1, <2>1, LargestIs
    <2>3. Largest(S) \in 0..MaxCommits
      BY <2>0, <2>1, <2>2
    <2> QED BY <2>3 DEF S
  <1> HIDE DEF head, pages
  <1>4. hive = <<head>> \o pages
    BY DEF RecoveryInit, head, pages
  <1>5. pages \in Seq(0..MaxCommits) /\ Len(pages) = FirstSize
    BY <1>1, <1>3, SeqDef
  <1>6. pages \in Seq(Block)
    <2>1. pages \in [1..FirstSize -> Block]
      BY <1>3 DEF Block
    <2> QED BY <1>1, <2>1, SeqDef
  <1>7. <<head>> \in Seq(Block) /\ Len(<<head>>) = 1 /\ <<head>>[1] = head
    BY <1>2 DEF Block
  <1>8. hive \in Seq(Block) /\ Len(hive) = 1 + FirstSize
        /\ \A i \in 1..(1 + FirstSize) :
             hive[i] = IF i <= 1 THEN <<head>>[i] ELSE pages[i - 1]
    <2> HIDE DEF Block
    <2>1. hive \in Seq(Block) /\ Len(hive) = Len(<<head>>) + Len(pages)
          /\ \A i \in 1..(Len(<<head>>) + Len(pages)) :
               hive[i] = IF i <= Len(<<head>>) THEN <<head>>[i] ELSE pages[i - Len(<<head>>)]
      BY <1>4, <1>6, <1>7, ConcatProperties
    <2> QED BY <2>1, <1>5, <1>7
  <1>9. hive[1] = head
    BY <1>1, <1>7, <1>8
  <1>10. ASSUME NEW p \in 1..FirstSize PROVE hive[p + 1] = pages[p]
    <2>1. p + 1 \in 1..(1 + FirstSize) /\ ~(p + 1 <= 1) /\ (p + 1) - 1 = p
      BY <1>1
    <2> QED BY <1>8, <2>1
  <1>11. ASSUME NEW p \in 1..FirstSize
         PROVE  pages[p] = Largest({n \in DOMAIN Past : p \in Past[n]} \cup {0})
    BY DEF pages
  <1>12. \A p \in 1..FirstSize : pages[p] \in 0..MaxCommits
    BY <1>3
  <1> QED BY <1>2, <1>8, <1>9, <1>10, <1>11, <1>12 DEF head

\* The invariant holds of a clean hive and a call that has not begun.
LEMMA InitRInv == RecoveryInit => RInv
  <1> SUFFICES ASSUME RecoveryInit PROVE RInv
    OBVIOUS
  <1>1. /\ MaxPages \in Nat /\ MaxCommits \in Nat /\ FirstSize \in 1..MaxPages /\ FirstSize \in Nat
        /\ Past \in Seq(Changes) /\ Len(Past) <= MaxCommits /\ Len(Past) \in Nat
        /\ DOMAIN Past = 1..Len(Past)
        /\ \A n \in DOMAIN Past : Past[n] \subseteq 1..FirstSize
    BY RecoveryAssumption
  <1>2. changed = Past /\ Commits = Len(Past) /\ Commits \in Nat
    BY <1>1 DEF RecoveryInit, Commits
  <1>3. \A n \in 0..Commits : SizeAt(n) = FirstSize
    <2> TAKE n \in 0..Commits
    <2> DEFINE S == {FirstSize} \cup UNION {changed[k] : k \in 1..n}
    <2>1. \A x \in S : x \in Nat /\ x <= FirstSize
      <3>1. \A k \in 1..n : changed[k] \subseteq 1..FirstSize
        BY <1>1, <1>2
      <3> QED BY <3>1, <1>1
    <2>2. FirstSize \in S
      OBVIOUS
    <2>3. SizeAt(n) = Largest(S)
      BY DEF SizeAt
    <2> HIDE DEF S
    <2>4. S \in SUBSET Nat /\ S # {}
      BY <2>1, <2>2
    <2>5. Largest(S) \in S /\ \A y \in S : y <= Largest(S)
      BY <1>1, <2>1, <2>4, LargestIs
    <2>6. Largest(S) <= FirstSize /\ FirstSize <= Largest(S) /\ Largest(S) \in Nat
      BY <2>1, <2>2, <2>5
    <2> QED BY <1>1, <2>3, <2>6
  <1>4. HistoryOK
    <2>1. \A n \in 1..Commits : changed[n] \subseteq 1..(FirstSize + n)
      <3> TAKE n \in 1..Commits
      <3>1. changed[n] \subseteq 1..FirstSize /\ FirstSize <= FirstSize + n
        BY <1>1, <1>2
      <3> QED BY <3>1, <1>1
    <2> QED BY <1>1, <1>2, <1>3, <2>1 DEF HistoryOK
  <1>8. Bytes(hive) /\ hive # <<>>
    <2>1. /\ hive \in Seq(Block) /\ Len(hive) = 1 + FirstSize
          /\ hive[1] \in BaseBlock /\ hive[1].seq2 = Commits
      BY <1>2, InitHive
    <2>2. \A i \in 2..Len(hive) : hive[i] \in 0..MaxCommits
      <3> TAKE i \in 2..Len(hive)
      <3>1. i - 1 \in 1..FirstSize /\ (i - 1) + 1 = i
        BY <1>1, <2>1
      <3> QED BY <3>1, InitHive
    <2>3. hive # <<>>
      <3>1. Len(hive) # 0
        BY <1>1, <2>1
      <3> QED BY <3>1
    <2> QED BY <1>2, <2>1, <2>2, <2>3 DEF Bytes, Blocks, Block
  <1>9. DiskOK
    <2> DEFINE first == [n \in DOMAIN Past |->
                           [number |-> n, pages |-> Past[n], bins |-> FirstSize, form |-> "valid"]]
    <2>1. \A n \in DOMAIN Past : first[n] \in LogEntry /\ Sound(first[n])
      <3> TAKE n \in DOMAIN Past
      <3>1. n \in Numbers /\ n \in 1..Commits /\ n \in 0..Commits
        BY <1>1, <1>2 DEF Numbers
      <3>2. Past[n] \in SUBSET (Nat \ {0})
        BY <1>1
      <3>3. first[n] \in LogEntry
        BY <1>1, <3>1, <3>2 DEF LogEntry
      <3> QED BY <1>2, <1>3, <3>1, <3>3 DEF Sound
    <2>2. first \in Seq(LogEntry) /\ Len(first) = Len(Past) /\ DOMAIN first = DOMAIN Past
      <3>1. first \in [1..Len(Past) -> LogEntry]
        BY <1>1, <2>1
      <3> HIDE DEF first
      <3>2. first \in Seq(LogEntry)
        BY <1>1, <3>1, SeqDef
      <3> QED BY <1>1, <3>1, <3>2
    <2>3. AllSound(first)
      BY <2>1, <2>2 DEF AllSound
    <2>4. files = [log \in Logs |->
                     IF log = active THEN [base |-> 1, entries |-> first]
                     ELSE [base |-> R!Unusable, entries |-> <<>>]]
          /\ active \in Logs
      BY DEF RecoveryInit, Logs
    <2> HIDE DEF first
    <2>5. 1 \in Numbers /\ <<>> \in Seq(LogEntry) /\ AllSound(<<>>)
      BY <1>1 DEF Numbers, AllSound
    <2>6. files \in [Logs -> Log]
      BY <2>2, <2>4, <2>5 DEF Log
    <2>7. \A log \in Logs : AllSound(files[log].entries)
      BY <2>3, <2>4, <2>5
    <2>8. files[active].base = 1 /\ Len(files[active].entries) = Commits
      BY <1>2, <2>2, <2>4
    <2> QED BY <1>2, <1>8, <2>4, <2>6, <2>7, <2>8 DEF DiskOK
  <1>10. Idle /\ got = <<>> /\ want = 0 /\ read = <<>> /\ disturbed = FALSE /\ pc = "idle"
    BY DEF RecoveryInit, Idle, NoHeader, Init
  <1>11. HeldOK /\ HeldPlace
    <2>1. Bytes(got)
      BY <1>10 DEF Bytes, Blocks
    <2>2. Cap \in Nat
      BY <1>1 DEF Cap
    <2>3. HeldPlace
      BY <1>10 DEF HeldPlace
    <2>4. read \in Seq(Log) /\ DOMAIN read = {}
      BY <1>10
    <2>5. want \in 0..Cap
      BY <1>10, <2>2
    <2> QED BY <1>10, <2>1, <2>3, <2>4, <2>5 DEF HeldOK
  <1>12. ReplayState /\ ReplayPlace
    BY <1>4, <1>10, <1>11, IdleInv DEF HeldOK, ReplayPlace, Replaying
  <1> QED BY <1>4, <1>9, <1>11, <1>12 DEF RInv

\* What is known of the disk, of the bytes read and of the replay holds throughout.
THEOREM RecoveryInv == RecoverySpec => []RInv
  <1>1. RInv /\ [RecoveryNext]_allVars => RInv'
    <2> SUFFICES ASSUME RInv, [RecoveryNext]_allVars PROVE RInv'
      OBVIOUS
    <2>1. CASE UNCHANGED allVars
      <3>1. UNCHANGED <<disk, held, disturbed, replay>> /\ pc' = pc /\ data' = data
            /\ replayed' = replayed
        BY <2>1 DEF allVars, vars, call
      <3>2. HistoryOK' /\ DiskOK' /\ Grows
        BY <3>1, DiskStays DEF RInv
      <3>3. HeldOK'
        BY <3>1, <3>2, HeldStays DEF RInv, HeldOK
      <3>4. HeldPlace'
        BY <3>1 DEF RInv, HeldPlace, Cap, held
      <3>5. ReplayState'
        BY <3>1, <3>2, ReplayStays DEF RInv, HeldOK, held
      <3>6. ReplayPlace'
        BY <3>1 DEF RInv, ReplayPlace, Replaying, Idle, PagesOK, Listed, held, replay
      <3> QED BY <3>2, <3>3, <3>4, <3>5, <3>6 DEF RInv
    <2>2. CASE RecoveryNext
      BY <2>2, WriteKeepsRInv, MovesInv, OpenFindInv, ReadBlockInv, EndsInv, AllowLogsInv,
         TakeLogInv, ReplayStepsInv, ReplayedInv, ReturnInv DEF RecoveryNext
    <2> QED BY <2>1, <2>2
  <1> QED BY InitRInv, <1>1, PTL DEF RecoverySpec

-----------------------------------------------------------------------------
(* What follows from it.                                                   *)

\* The bytes, the logs and the replay keep their types.
THEOREM RecoveryTypes == RecoverySpec => []RecoveryTypeOK
  <1>1. RInv /\ IInv => RecoveryTypeOK
    <2> SUFFICES ASSUME RInv, IInv PROVE RecoveryTypeOK
      OBVIOUS
    <2>1. Cap \in Nat
      BY RecoveryAssumption DEF Cap
    <2>2. Blocks(hive) /\ hive # <<>> /\ files \in [Logs -> Log] /\ active \in Logs
      BY DEF RInv, DiskOK, Bytes
    <2>3. Blocks(got) /\ want \in Nat /\ read \in Seq(Log) /\ disturbed \in BOOLEAN
      BY <2>1 DEF RInv, HeldOK, Bytes
    <2>4. changed \in Seq(Changes) /\ TypeOK
      BY DEF RInv, HistoryOK, IInv
    <2>5. R!TypeOK
      <3>1. RP!TypeOK
        BY DEF RInv, ReplayState, RP!IInv
      <3>2. R!Entry = RP!Entry /\ R!Images = RP!Images
        BY DEF R!Entry, RP!Entry, R!Images, RP!Images, R!Primary, RP!Primary, R!Zero, RP!Zero
      <3> QED BY <3>1, <3>2 DEF R!TypeOK, RP!TypeOK
    <2> QED BY <2>2, <2>3, <2>4, <2>5 DEF RecoveryTypeOK
  <1>2. Spec => []IInv
    BY ReadInv
  <1> QED BY <1>1, <1>2, RecoveryInv, RecoveryImplementsRead, PTL

\* The entries of a chain without a gap have every number from the first to the last.
LEMMA ChainCovers ==
  ASSUME NEW S, NEW chain \in Seq(S), chain # <<>>,
         \A k \in DOMAIN chain : chain[k].number \in Nat,
         \A k \in 2..Len(chain) : chain[k].number = chain[k - 1].number + 1
  PROVE  /\ \A n \in chain[1].number..chain[Len(chain)].number :
              \E k \in DOMAIN chain : chain[k].number = n
         /\ \A k \in DOMAIN chain : chain[1].number <= chain[k].number
  <1> DEFINE T == {i \in Nat : i + 1 \in 1..Len(chain) => chain[i + 1].number = chain[1].number + i}
             first == chain[1].number
  <1>1. Len(chain) \in Nat /\ DOMAIN chain = 1..Len(chain) /\ 1 \in DOMAIN chain
        /\ Len(chain) \in DOMAIN chain /\ first \in Nat
    BY SMT
  <1>2. 0 \in T
    BY <1>1
  <1>3. ASSUME NEW i \in Nat, i \in T PROVE i + 1 \in T
    <2> SUFFICES ASSUME (i + 1) + 1 \in 1..Len(chain)
                 PROVE  chain[(i + 1) + 1].number = first + (i + 1)
      OBVIOUS
    <2>1. PICK k : k = (i + 1) + 1
      OBVIOUS
    <2>2. k \in 2..Len(chain) /\ k - 1 = i + 1 /\ i + 1 \in 1..Len(chain)
      BY <2>1, <1>1
    <2>3. chain[k].number = chain[k - 1].number + 1
      BY <2>2
    <2>4. chain[i + 1].number = first + i
      BY <1>3, <2>2
    <2>5. chain[k].number = (first + i) + 1
      BY <2>2, <2>3, <2>4
    <2> HIDE DEF first
    <2> QED BY <2>1, <2>5, <1>1
  <1> HIDE DEF T
  <1>4. \A i \in Nat : i \in T
    BY <1>2, <1>3, StepInduction
  <1>5. \A k \in 1..Len(chain) : chain[k].number = first + (k - 1)
    <2> TAKE k \in 1..Len(chain)
    <2>1. k - 1 \in T /\ (k - 1) + 1 = k
      BY <1>1, <1>4
    <2> QED BY <2>1 DEF T
  <1>6. ASSUME NEW n \in first..chain[Len(chain)].number
        PROVE  \E k \in DOMAIN chain : chain[k].number = n
    <2>1. chain[Len(chain)].number = first + (Len(chain) - 1)
      BY <1>1, <1>5
    <2>2. PICK k : k = n - first + 1
      OBVIOUS
    <2> HIDE DEF first
    <2>3. k \in 1..Len(chain) /\ first + (k - 1) = n
      BY <2>1, <2>2, <1>1
    <2>4. chain[k].number = n
      BY <2>3, <1>5
    <2> QED BY <2>3, <2>4, <1>1
  <1>7. \A k \in DOMAIN chain : first <= chain[k].number
    <2> TAKE k \in DOMAIN chain
    <2>1. chain[k].number = first + (k - 1) /\ k \in 1..Len(chain)
      BY <1>1, <1>5
    <2> HIDE DEF first
    <2> QED BY <2>1, <1>1
  <1> QED BY <1>6, <1>7

\* Every commit of an unbroken chain is in an entry that was applied.
LEMMA ChainHolds ==
  ASSUME RInv, applied # <<>>,
         \A k \in 2..Len(applied) : applied[k].number = applied[k - 1].number + 1
  PROVE  /\ \A n \in applied[1].number..RP!LastEntry.number :
              \E k \in DOMAIN applied :
                applied[k].number = n /\ changed[n] \subseteq applied[k].pages
         /\ \A k \in DOMAIN applied : applied[1].number <= applied[k].number
  <1>1. /\ applied \in Seq(RP!Entry)
        /\ \A k \in DOMAIN applied : Sound(applied[k]) /\ applied[k].number \in Nat
    <2>1. \A k \in DOMAIN applied : Sound(applied[k])
      BY DEF RInv, ReplayState, AllSound
    <2>2. Commits \in Nat
      BY DEF RInv, HistoryOK, Commits
    <2> QED BY <2>1, <2>2 DEF RInv, ReplayState, RP!IInv, RP!TypeOK, Sound
  <1>3. RP!LastEntry = applied[Len(applied)]
    BY DEF RP!LastEntry
  <1>4. /\ \A n \in applied[1].number..RP!LastEntry.number :
             \E k \in DOMAIN applied : applied[k].number = n
        /\ \A k \in DOMAIN applied : applied[1].number <= applied[k].number
    BY <1>1, <1>3, ChainCovers
  <1> QED BY <1>1, <1>4 DEF Sound

\* A hive that was replayed is not returned without an entry applied.
LEMMA ReplayedApplied ==
  ASSUME RInv, IInv, pc = "ok", replayed
  PROVE  applied # <<>>
  <1>1. data = "clean"
    BY DEF IInv, DataOK
  <1> QED BY <1>1 DEF RInv, ReplayPlace, Replaying

\* The last entry applied is one of them, of a commit that is not behind the hive.
LEMMA LastApplied ==
  ASSUME RInv, applied # <<>>
  PROVE  /\ applied \in Seq(RP!Entry) /\ Len(applied) \in DOMAIN applied /\ 1 \in DOMAIN applied
         /\ RP!LastEntry = applied[Len(applied)] /\ Sound(RP!LastEntry)
         /\ BaseSeq2 <= RP!LastEntry.number
         /\ \A k \in DOMAIN applied :
              applied[k].number \in 1..Commits /\ applied[k].number <= RP!LastEntry.number
  <1>1. RP!IInv /\ AllSound(applied)
    BY DEF RInv, ReplayState
  <1>2. applied \in Seq(RP!Entry)
    BY <1>1 DEF RP!IInv, RP!TypeOK
  <1>3. Len(applied) \in DOMAIN applied /\ 1 \in DOMAIN applied
    BY <1>2
  <1>4. RP!LastEntry = applied[Len(applied)]
    BY DEF RP!LastEntry
  <1>5. \A k \in DOMAIN applied : applied[k].number <= RP!LastEntry.number
    BY <1>1 DEF RP!IInv, RP!LastOK
  <1>6. \A k \in DOMAIN applied : BaseSeq2 <= applied[k].number
    BY <1>1 DEF RP!IInv, RP!ChainOK
  <1> QED BY <1>1, <1>2, <1>3, <1>4, <1>5, <1>6 DEF AllSound, Sound

\* Entries without a gap, over the pages that the hive was read with, give the
\* generation of the last one: every page is listed by an entry or as it was in a
\* generation that the first entry follows.
LEMMA ChainWhole ==
  ASSUME RInv, pc = "ok", replayed, applied # <<>>,
         \A k \in 2..Len(applied) : applied[k].number = applied[k - 1].number + 1,
         NEW base \in 0..Commits, base <= RP!LastEntry.number, applied[1].number <= base + 1,
         \A p \in 1..SizeAt(base) :
           (p + 1 \in DOMAIN got /\ got[p + 1] = Content(base, p)) \/ Listed(p)
  PROVE  ReturnedSeq = RP!LastEntry.number /\ Whole(RP!LastEntry.number)
  <1> DEFINE last == RP!LastEntry.number
  <1>1. /\ phase = "done" /\ PagesOK /\ RP!IInv /\ HistoryOK /\ AllSound(applied)
        /\ DownClosed /\ DoneOK
    BY DEF RInv, ReplayPlace, ReplayState, Replaying
  <1>2. /\ applied \in Seq(RP!Entry) /\ Len(applied) \in DOMAIN applied /\ 1 \in DOMAIN applied
        /\ RP!LastEntry = applied[Len(applied)] /\ Sound(RP!LastEntry)
    BY LastApplied
  <1>3. /\ Commits \in Nat /\ base \in 0..Commits /\ last \in 1..Commits /\ base <= last
        /\ applied[1].number \in 1..Commits /\ applied[1].number <= base + 1
        /\ \A k \in DOMAIN applied : applied[k].number \in 1..Commits /\ applied[k].number <= last
    <2>1. Commits \in Nat
      BY <1>1 DEF HistoryOK, Commits
    <2>2. \A k \in DOMAIN applied : applied[k].number \in 1..Commits /\ applied[k].number <= last
      BY LastApplied
    <2> QED BY <1>2, <2>1, <2>2
  <1>4. /\ ReturnedSeq = last /\ ReturnedBins = SizeAt(last)
        /\ SizeAt(last) \in DOMAIN out
    <2>1. header.seq = last
      BY <1>1 DEF RP!IInv, RP!HeaderOK
    <2>2. header.bins = RP!LastEntry.bins /\ (header.bins = 0 \/ header.bins \in DOMAIN out)
      BY <1>1 DEF DoneOK
    <2>3. RP!LastEntry.bins = SizeAt(last)
      BY <1>2 DEF Sound
    <2>4. SizeAt(last) # 0
      <3>1. last \in 0..Commits /\ FirstSize # 0 /\ FirstSize \in Nat
        BY <1>3, RecoveryAssumption
      <3>2. SizeAt(last) \in Nat /\ FirstSize <= SizeAt(last)
        BY <1>1, <3>1, SizeIs
      <3> QED BY <3>1, <3>2
    <2> QED BY <2>1, <2>2, <2>3, <2>4 DEF ReturnedSeq, ReturnedBins
  <1> HIDE DEF last
  <1>5. SizeAt(last) <= ReturnedSize
    <2>1. 1..SizeAt(last) \subseteq DOMAIN out
      BY <1>1, <1>4 DEF DownClosed
    <2>2. DOMAIN out \subseteq 1..MaxPages /\ MaxPages \in Nat
      BY <1>1, RecoveryAssumption DEF RP!IInv, RP!TypeOK
    <2>3. IsFiniteSet(DOMAIN out)
      <3>1. IsFiniteSet(1..MaxPages)
        BY <2>2, FS_Interval
      <3> QED BY <2>2, <3>1, FS_Subset
    <2>4. SizeAt(last) \in Nat
      BY <1>4, <2>2
    <2>5. Cardinality(1..SizeAt(last)) = SizeAt(last)
      BY <2>4, FS_Interval
    <2>6. Cardinality(1..SizeAt(last)) <= Cardinality(DOMAIN out)
      BY <2>1, <2>3, FS_Subset
    <2> QED BY <2>5, <2>6 DEF ReturnedSize
  <1>6. ASSUME NEW p \in 1..SizeAt(last) PROVE Image(p) = Content(last, p)
    <2>1. p \in DOMAIN out /\ p \in Nat
      BY <1>1, <1>4 DEF DownClosed
    <2>2. \A n \in applied[1].number..last :
            \E k \in DOMAIN applied : applied[k].number = n /\ changed[n] \subseteq applied[k].pages
      BY ChainHolds DEF last
    <2>3. LET listing == {k \in DOMAIN applied : p \in applied[k].pages} IN
          IF listing = {} THEN out[p] \in {RP!Primary, RP!Zero}
          ELSE \E k \in listing :
                 /\ out[p] = applied[k].number
                 /\ \A j \in listing : applied[j].number <= applied[k].number
      BY <1>1, <2>1 DEF RP!IInv, RP!NewestImageWins
    <2>4. CASE Listed(p)
      <3>1. PICK k \in DOMAIN applied :
              /\ out[p] = applied[k].number
              /\ \A j \in DOMAIN applied : p \in applied[j].pages => applied[j].number <= applied[k].number
        BY <2>3, <2>4 DEF Listed
      <3>2. PICK a : a = applied[k].number
        OBVIOUS
      <3>3. a \in 1..Commits /\ a <= last /\ out[p] = a /\ applied[1].number <= a
        BY <1>3, <3>1, <3>2, ChainHolds
      <3>4. \A n \in (a + 1)..last : p \notin changed[n]
        <4> TAKE n \in (a + 1)..last
        <4>1. n \in applied[1].number..last /\ n > a /\ n \in Nat
          BY <1>3, <3>3
        <4>2. PICK j \in DOMAIN applied : applied[j].number = n /\ changed[n] \subseteq applied[j].pages
          BY <2>2, <4>1
        <4>3. p \in changed[n] => n <= a
          BY <3>1, <3>2, <4>2
        <4> QED BY <4>1, <4>3, <1>3, <3>3
      <3>5. Content(last, p) = Content(a, p)
        BY <1>3, <3>3, <3>4, ContentKept
      <3>6. out[p] # R!Primary /\ out[p] # R!Zero
        BY <3>3, <1>3 DEF R!Primary, R!Zero
      <3> QED BY <3>3, <3>5, <3>6 DEF Image
    <2>5. CASE ~Listed(p)
      <3>1. \A n \in (base + 1)..last : p \notin changed[n]
        <4> TAKE n \in (base + 1)..last
        <4>1. n \in applied[1].number..last
          BY <1>3
        <4> QED BY <2>2, <2>5, <4>1 DEF Listed
      <3>2. Content(last, p) = Content(base, p)
        BY <1>3, <3>1, ContentKept
      <3>3. p <= SizeAt(base)
        <4>1. last \in 0..Commits /\ base \in 0..Commits /\ SizeAt(base) \in Nat
              /\ FirstSize <= SizeAt(base) /\ FirstSize \in Nat
              /\ \A k \in 1..base : \A q \in changed[k] : q <= SizeAt(base)
          BY <1>1, <1>3, SizeIs, RecoveryAssumption
        <4>2. p <= FirstSize \/ \E k \in 1..last : p \in changed[k]
          BY <1>1, <4>1 DEF HistoryOK
        <4>3. ASSUME NEW k \in 1..last, p \in changed[k] PROVE p <= SizeAt(base)
          <5>1. k \in 1..base
            BY <3>1, <4>1, <4>3
          <5> QED BY <4>1, <4>3, <5>1
        <4> QED BY <2>1, <4>1, <4>2, <4>3
      <3>4. p + 1 \in DOMAIN got /\ got[p + 1] = Content(base, p)
        <4>1. p \in 1..SizeAt(base)
          BY <2>1, <3>3
        <4> QED BY <2>5, <4>1 DEF Listed
      <3>5. out[p] = R!Primary
        <4>1. got \in Seq(Block)
          BY DEF RInv, HeldOK, Bytes, Block
        <4>2. p \in 1..(Len(got) - 1)
          <5> HIDE DEF Block
          <5>1. DOMAIN got = 1..Len(got) /\ Len(got) \in Nat
            BY <4>1
          <5> QED BY <2>1, <3>4, <5>1
        <4> QED BY <1>1, <2>5, <4>2 DEF PagesOK
      <3> QED BY <3>2, <3>4, <3>5 DEF Image
    <2> QED BY <2>4, <2>5
  <1> QED BY <1>4, <1>5, <1>6 DEF Whole, last

\* Whatever the appraiser wrote and when, entries without a gap over the pages that
\* the hive was read with give one generation of it, for any cap and any commits.
THEOREM ConnectedWhole == RecoverySpec => []ConnectedReadIsWhole
  <1>1. RInv /\ IInv => ConnectedReadIsWhole
    <2> SUFFICES ASSUME RInv, IInv, pc = "ok", replayed, Connected PROVE Whole(ReturnedSeq)
      BY DEF ConnectedReadIsWhole
    <2>1. applied # <<>>
      BY ReplayedApplied
    <2>2. /\ applied[1].number <= BaseSeq2 + 1
          /\ \A k \in 2..Len(applied) : applied[k].number = applied[k - 1].number + 1
          /\ \A p \in 1..SizeAt(BaseSeq2) :
               (p + 1 \in DOMAIN got /\ got[p + 1] = Content(BaseSeq2, p)) \/ Listed(p)
      BY DEF Connected, Listed
    <2>3. BaseSeq2 \in 0..Commits
      BY BaseSeq2Is DEF RInv, HeldOK
    <2>4. BaseSeq2 <= RP!LastEntry.number
      BY <2>1, LastApplied
    <2> QED BY <2>1, <2>2, <2>3, <2>4, ChainWhole
  <1>2. Spec => []IInv
    BY ReadInv
  <1> QED BY <1>1, <1>2, RecoveryInv, RecoveryImplementsRead, PTL

=============================================================================
