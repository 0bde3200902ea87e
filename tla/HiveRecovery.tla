---------------------------- MODULE HiveRecovery ----------------------------
(***************************************************************************)
(* A call of Read, byte for byte, beside the appraiser that writes what it *)
(* reads: HiveRead says which route the call takes, HiveReplay what the    *)
(* replay makes of the logs, and this module what bytes they work on.      *)
(*                                                                         *)
(* A file of hive type is its base block followed by its pages.  A page is *)
(* known by the commit that wrote what is in it, 0 being the first one; a  *)
(* commit is known by its number and the pages it changed.  The call reads *)
(* the hive block by block; each log is read in one step, its last entry   *)
(* perhaps torn.                                                           *)
(*                                                                         *)
(* The appraiser is not part of the repository.  It does what the comments *)
(* of hive/replay.go say of a live hive: a commit is an entry in one of    *)
(* two circular logs, the hive is dirty on disk until it is flushed, and   *)
(* meanwhile the logs are restarted in turn.  A restarted log begins with  *)
(* an entry that holds every page the hive on disk still lacks.            *)
(***************************************************************************)
EXTENDS HiveRead, Integers, Sequences, FiniteSets

CONSTANTS
  MaxPages,    \* MaxHiveBytes, in pages of hive bins data
  FirstSize,   \* size of the hive, in pages, before the first commit
  Past,        \* the commits already flushed, from the first log
  Changes,     \* sets of pages that a commit can change
  MaxCommits   \* bound on the commits

ASSUME RecoveryAssumption ==
  /\ MaxPages \in Nat /\ MaxCommits \in Nat
  /\ FirstSize \in 1..MaxPages
  /\ Len(Past) <= MaxCommits
  /\ \A pages \in Changes : pages \subseteq Nat \ {0} /\ pages # {}
  /\ Past \in Seq(Changes) /\ \A n \in DOMAIN Past : Past[n] \subseteq 1..FirstSize

VARIABLES
  hive,      \* the blocks of Amcache.hve on disk
  files,     \* the logs on disk
  active,    \* the log that takes the next entry
  changed,   \* changed[n]: the pages commit n changed
  got,       \* the blocks of the hive the call has read
  want,      \* the size of the hive found on the volume, in blocks
  read,      \* the bytes of the logs read (logs in Read)
  disturbed, \* a file was written since the call opened the hive
  ready, opened, body, expected, out, applied, header, phase \* of Replay

disk == <<hive, files, active, changed>>
held == <<got, want, read>>
replay == <<ready, opened, body, expected, out, applied, header, phase>>
allVars == <<vars, disk, held, disturbed, replay>>

Numbers == 0..(MaxCommits + 1)

BaseSeq2 == IF got = <<>> THEN 0 ELSE got[1].seq2

LogEntry ==
  [number : Numbers, pages : SUBSET (Nat \ {0}), bins : Nat,
   form : {"valid", "torn"}]

R == INSTANCE HiveReplay
       WITH logs <- ready, baseSeq2 <- BaseSeq2, SeqLimit <- MaxCommits + 3,
            MaxLogs <- 2, HiveSizes <- 0..MaxPages, Bodies <- Seq(LogEntry)

BaseBlock == [seq1 : Numbers, seq2 : Numbers, bins : Nat]

Blocks(file) ==
  file # <<>> => /\ file[1] \in BaseBlock
                 /\ \A i \in 2..Len(file) : file[i] \in 0..MaxCommits

Log == [base : Numbers \cup {R!Unusable}, entries : Seq(LogEntry)]

RecoveryTypeOK ==
  /\ TypeOK
  /\ Blocks(hive) /\ hive # <<>> /\ Blocks(got)
  /\ files \in [Logs -> Log]
  /\ active \in Logs
  /\ changed \in Seq(Changes)
  /\ want \in Nat
  /\ read \in Seq(Log)
  /\ disturbed \in BOOLEAN
  /\ R!TypeOK

NoHeader == [seq |-> 0, bins |-> 0]

Largest(S) == CHOOSE x \in S : \A y \in S : y <= x

\* The hive is clean; one log holds the past commits, the other was never used.
RecoveryInit ==
  /\ Init
  /\ changed = Past
  /\ active = "Amcache.hve.LOG1"
  /\ files = [log \in Logs |->
                IF log = active
                  THEN [base |-> 1, entries |->
                         [n \in DOMAIN Past |->
                            [number |-> n, pages |-> Past[n], bins |-> FirstSize,
                             form |-> "valid"]]]
                  ELSE [base |-> R!Unusable, entries |-> <<>>]]
  /\ hive = <<[seq1 |-> Len(Past), seq2 |-> Len(Past), bins |-> FirstSize]>>
             \o [p \in 1..FirstSize |->
                   Largest({n \in DOMAIN Past : p \in Past[n]} \cup {0})]
  /\ got = <<>> /\ want = 0 /\ read = <<>> /\ disturbed = FALSE
  /\ ready = <<>> /\ opened = {} /\ body = <<>> /\ expected = 0
  /\ out = <<>> /\ applied = <<>> /\ header = NoHeader /\ phase = "gate"

-----------------------------------------------------------------------------
(* What the appraiser has committed.                                       *)

\* The commit that wrote page p of generation n.
Content(n, p) == Largest({k \in 1..n : p \in changed[k]} \cup {0})

SizeAt(n) == Largest({FirstSize} \cup UNION {changed[k] : k \in 1..n})

Commits == Len(changed)

\* The place of the next entry in the active log; older entries lie behind it.
Place(n) == n - files[active].base + 1

\* The newest entry is complete.
Settled ==
  Commits > 0 /\ files[active].base \in 1..Commits
    => files[active].entries[Place(Commits)].form = "valid"

Durable == IF Settled THEN Commits ELSE Commits - 1

\* Pages of generation n that the hive on disk does not hold.
Lacking(n) ==
  {p \in 1..SizeAt(n) : p + 1 \notin DOMAIN hive \/ hive[p + 1] # Content(n, p)}

\* The call has every byte it works on, or needs none.
Resident ==
  \/ pc \in {"recheck", "filelogs", "ok", "captured", "failed"}
  \/ pc = "logs" /\ Logs \subseteq touched

\* The appraiser writes a file.  What it does while the call works on bytes it
\* already has cannot be told from what it does later.
Write ==
  /\ locked
  /\ ~Resident
  /\ disturbed' = (pc \notin {"idle", "path", "plain", "violation", "raw"})
  /\ UNCHANGED <<vars, held, replay>>

GoDirty ==
  /\ hive[1].seq1 = hive[1].seq2
  /\ Commits < MaxCommits
  /\ hive' = [hive EXCEPT ![1].seq1 = Commits + 1]
  /\ UNCHANGED <<files, active, changed>>
  /\ Write

\* The other log, or either once the hive is flushed.  Its old entries stay.
Restart(log) ==
  /\ Settled
  /\ Commits < MaxCommits
  /\ log # active \/ hive[1].seq2 = Commits
  /\ files[log].base # Commits + 1
  /\ files' = [files EXCEPT ![log].base = Commits + 1]
  /\ active' = log
  /\ UNCHANGED <<hive, changed>>
  /\ Write

BeginEntry(pages) ==
  LET n == Commits + 1
      entries == files[active].entries
      lists == IF files[active].base = n
                 THEN pages \cup Lacking(Commits) ELSE pages
      entry == [number |-> n, pages |-> lists, form |-> "torn",
                bins |-> Largest(pages \cup {SizeAt(Commits)})] IN
  /\ Settled
  /\ Commits < MaxCommits
  /\ hive[1].seq1 # hive[1].seq2
  /\ files[active].base > hive[1].seq2
  /\ pages \subseteq 1..(SizeAt(Commits) + 1)
  /\ changed' = Append(changed, pages)
  /\ files' = [files EXCEPT ![active].entries =
                 [k \in DOMAIN entries \cup {Place(n)} |->
                    IF k = Place(n) THEN entry ELSE entries[k]]]
  /\ UNCHANGED <<hive, active>>
  /\ Write

EndEntry ==
  /\ ~Settled
  /\ files' = [files EXCEPT ![active].entries[Place(Commits)].form = "valid"]
  /\ UNCHANGED <<hive, active, changed>>
  /\ Write

\* A page is flushed once the log has it.
FlushPage(p) ==
  /\ Settled
  /\ hive[1].seq1 # hive[1].seq2
  /\ p \in Lacking(Commits)
  /\ p <= Len(hive)
  /\ hive' = [i \in DOMAIN hive \cup {p + 1} |->
                IF i = p + 1 THEN Content(Commits, p) ELSE hive[i]]
  /\ UNCHANGED <<files, active, changed>>
  /\ Write

FlushDone ==
  /\ Settled
  /\ hive[1].seq2 < Commits
  /\ Lacking(Commits) = {}
  /\ hive' = [hive EXCEPT ![1] =
                [seq1 |-> Commits, seq2 |-> Commits, bins |-> SizeAt(Commits)]]
  /\ UNCHANGED <<files, active, changed>>
  /\ Write

AppraiserWrites ==
  \/ GoDirty \/ EndEntry \/ FlushDone
  \/ \E log \in Logs : Restart(log)
  \/ \E pages \in Changes : BeginEntry(pages)
  \/ \E p \in 1..(MaxPages + 1) : FlushPage(p)

-----------------------------------------------------------------------------
(* The bytes the call reads.                                               *)

Cap == MaxPages + 1  \* MaxHiveBytes, in blocks

\* Dirty: the two sequence numbers of the base block that was read.
State == IF got[1].seq1 = got[1].seq2 THEN "clean" ELSE "dirty"

\* A file that is over the cap when it is opened is refused.
OpenHive ==
  /\ PlainOpens
  /\ Len(hive) <= Cap
  /\ UNCHANGED <<disk, held, disturbed, replay>>

\* The runs found on the volume say how long the file is, and bound the read.
FindHive ==
  /\ RawFinds
  /\ Len(hive) <= Cap
  /\ want' = Len(hive)
  /\ UNCHANGED <<disk, got, read, disturbed, replay>>

\* Mutant of ReadLimit: the extra block is not read.
ReadLimitNoExtra == IF pc = "opened" THEN Cap ELSE want

\* One more block than the cap on the plain route: the sign of a file that grew.
ReadLimit == IF pc = "opened" THEN Cap + 1 ELSE want

AtEnd == Len(got) = ReadLimit \/ Len(got) >= Len(hive)

ReadBlock ==
  /\ pc \in {"opened", "found"}
  /\ ~AtEnd
  /\ got' = Append(got, hive[Len(got) + 1])
  /\ UNCHANGED <<vars, disk, want, read, disturbed, replay>>

\* A file that grew past the cap is refused.
PlainEnds ==
  /\ AtEnd
  /\ Len(got) <= Cap
  /\ PlainReads
  /\ data' \in {State, "bad"}
  /\ UNCHANGED <<disk, held, disturbed, replay>>

\* Every byte of the size found, or an error.
RawEnds ==
  /\ Len(got) = want
  /\ RawReads
  /\ data' \in {State, "bad"}
  /\ UNCHANGED <<disk, held, disturbed, replay>>

\* Replay starts on a copy of the hive; its context is not looked at again.
AllowLogs ==
  /\ CheckBeforeLogs
  /\ out' = [p \in 1..(Len(got) - 1) |-> R!Primary]
  /\ header' = [seq |-> BaseSeq2, bins |-> Len(got) - 1]
  /\ UNCHANGED <<disk, held, disturbed, ready, opened, body, expected, applied, phase>>

\* A log that cannot be read is not given to Replay.
TakeLog(log) ==
  /\ ReadLog(log)
  /\ read' = IF pc = "logs" /\ logs' # logs THEN Append(read, files[log]) ELSE read
  /\ UNCHANGED <<disk, got, want, disturbed, replay>>

-----------------------------------------------------------------------------
(* Replay over the bytes that were read.                                   *)

Replays ==
  /\ pc = "logs"
  /\ Logs \subseteq touched
  /\ UNCHANGED <<vars, disk, held, disturbed>>

\* The base block of a log is in its first sector, apart from the entries.
GateLogs ==
  /\ Replays
  /\ phase = "gate"
  /\ ready' = [i \in {j \in DOMAIN read : /\ read[j].base # R!Unusable
                                          /\ read[j].base >= BaseSeq2}
                 |-> read[i].base]
  /\ R!Gate

OpenReadyLog(i) ==
  /\ Replays
  /\ body' = read[i].entries
  /\ R!OpenLog(i)

ReplayStep ==
  /\ Replays
  /\ \/ R!ApplyEntry \/ R!OverCap \/ R!LeaveLog
     \/ R!FinishUnchanged \/ R!FinishReplayed \/ R!BinsMissing

\* What Replay returns is clean exactly when it applied an entry.
Replayed ==
  /\ phase = "done"
  /\ Replay
  /\ data' = IF applied = <<>> THEN "dirty" ELSE "clean"
  /\ UNCHANGED <<disk, held, disturbed, replay>>

ReplayGivesUp ==
  /\ phase = "failed"
  /\ ReplayFails
  /\ UNCHANGED <<disk, held, disturbed, replay>>

\* The bytes of a call go with it.
ReturnBytes ==
  /\ Return
  /\ got' = <<>> /\ want' = 0 /\ read' = <<>> /\ disturbed' = FALSE
  /\ ready' = <<>> /\ opened' = {} /\ body' = <<>> /\ expected' = 0
  /\ out' = <<>> /\ applied' = <<>> /\ header' = NoHeader /\ phase' = "gate"
  /\ UNCHANGED disk

\* The context ends just before a look at it, and the appraiser opens or closes
\* the files while that can make a difference to what the call reads.
Surroundings ==
  \/ EndContext /\ pc \in {"violation", "acquired", "dirty"}
  \/ Appraiser /\ ~Resident /\ ~raw

\* The steps of the call that move no bytes; a read that fails keeps none.
Moves ==
  /\ \/ Begin \/ FindPath \/ PlainRefused \/ PlainFails
     \/ CheckBeforeRaw \/ RawFails
     \/ Decide \/ CheckBeforeFiles \/ Capture \/ Recheck
     \/ Surroundings
  /\ IF pc' \in {"violation", "failed"}
       THEN got' = <<>> /\ want' = 0 /\ read' = <<>> /\ disturbed' = FALSE
       ELSE UNCHANGED <<got, want, read, disturbed>>
  /\ UNCHANGED <<disk, replay>>

RecoveryNext ==
  \/ AppraiserWrites \/ Moves
  \/ OpenHive \/ FindHive \/ ReadBlock \/ PlainEnds \/ RawEnds \/ AllowLogs
  \/ \E log \in Logs : TakeLog(log)
  \/ GateLogs \/ (\E i \in DOMAIN ready : OpenReadyLog(i)) \/ ReplayStep
  \/ Replayed \/ ReplayGivesUp \/ ReturnBytes

RecoverySpec == RecoveryInit /\ [][RecoveryNext]_allVars

-----------------------------------------------------------------------------

\* The commit that wrote page p of the bytes the call returns.
Image(p) ==
  IF ~replayed THEN got[p + 1]
  ELSE IF out[p] = R!Primary THEN got[p + 1]
  ELSE IF out[p] = R!Zero THEN -1
  ELSE Content(out[p], p)

ReturnedSize == IF replayed THEN Cardinality(DOMAIN out) ELSE Len(got) - 1
ReturnedSeq  == IF replayed THEN header.seq ELSE BaseSeq2
ReturnedBins == IF replayed THEN header.bins ELSE got[1].bins

\* The bytes returned are generation n of the hive, every page of it.
Whole(n) ==
  /\ ReturnedBins = SizeAt(n)
  /\ SizeAt(n) <= ReturnedSize
  /\ \A p \in 1..SizeAt(n) : Image(p) = Content(n, p)

\* A read that no write disturbed, of the hive and both logs, returns the newest
\* generation the appraiser committed, whole, whatever was half done on disk: a
\* flush that got to some of the pages, a log that was being restarted, an entry
\* written in part, old entries behind it.
QuietReadIsWhole ==
  pc = "ok" /\ ~disturbed /\ (replayed => logs = Logs)
    => ReturnedSeq = Durable /\ Whole(Durable)

\* Whatever is written between and after the reads, and whichever log is missing:
\* a chain of entries that begins at or before the generation after the hive's and
\* has no gap, over a hive of which every page that no entry holds was read as its
\* generation left it, gives one generation.
Connected ==
  /\ \A p \in 1..SizeAt(BaseSeq2) :
       \/ p + 1 \in DOMAIN got /\ got[p + 1] = Content(BaseSeq2, p)
       \/ \E k \in DOMAIN applied : p \in applied[k].pages
  /\ applied[1].number <= BaseSeq2 + 1
  /\ \A k \in 2..Len(applied) : applied[k].number = applied[k - 1].number + 1

ConnectedReadIsWhole ==
  pc = "ok" /\ replayed /\ Connected => Whole(ReturnedSeq)

\* The bytes of a plain read go to the end of the file: one that grows past the
\* cap while it is read is refused, and never cut at the cap.
NeverCut == [][PlainReads => Len(got) >= Len(hive)]_allVars

\* "Data returned with a nil error is always clean", never "the bytes, they may be
\* from two generations at once": on the raw route, where the appraiser has the
\* hive open, the pages returned are those of one generation.
ReadIsOneGeneration ==
  pc = "ok" /\ raw =>
    \E n \in 0..Commits : \A p \in 1..ReturnedSize : Image(p) = Content(n, p)

=============================================================================
