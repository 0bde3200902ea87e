--------------------------- MODULE HiveQuietProofs ---------------------------
(***************************************************************************)
(* The theorem about a read that no write disturbed, QuietReadIsWhole.     *)
(*                                                                         *)
(* RInv, of HiveRecoveryProofs, says where bytes are from.  It does not say*)
(* that they are all there.  QInv adds what the appraiser's order of writes*)
(* keeps true of the disk at every instant (QuietDisk), what a call has    *)
(* read of it while nothing was written (QuietHeld), and which entry of    *)
(* which log a replay of those bytes has got to (Trace).  That the replay  *)
(* reaches the newest durable entry, and from where every page is known,   *)
(* follows.                                                                *)
(***************************************************************************)
EXTENDS HiveRecoveryProofs

-----------------------------------------------------------------------------
(* The invariant.                                                          *)

Log1 == "Amcache.hve.LOG1"
Log2 == "Amcache.hve.LOG2"

FlushedTo == hive[1].seq2

\* Every page of generation m is in a list, or on disk as it was then, or in a commit since.
Covered(m, lists) ==
  \A p \in 1..SizeAt(m) :
    \/ p \in lists
    \/ p + 1 \in DOMAIN hive /\ hive[p + 1] = Content(m, p)
    \/ \E k \in (m + 1)..Durable : p \in changed[k]

CleanIsWhole ==
  hive[1].seq1 = hive[1].seq2 =>
    /\ FlushedTo = Commits
    /\ Settled
    /\ hive[1].bins = SizeAt(Commits)
    /\ Lacking(Commits) = {}

\* n entries from the base on, and nothing but older ones behind.
Run(log, n) ==
  \A k \in DOMAIN files[log].entries :
    IF k <= n
      THEN files[log].entries[k].number = files[log].base + k - 1
      ELSE files[log].entries[k].number < files[log].base

ActiveRun ==
  /\ Run(active, Commits - files[active].base + 1)
  /\ \A k \in DOMAIN files[active].entries :
       k <= Durable - files[active].base + 1 => files[active].entries[k].form = "valid"

\* The first n entries are a run, complete.
UpTo(log, n) ==
  /\ n <= Len(files[log].entries)
  /\ Run(log, n)
  /\ \A k \in 1..n : files[log].entries[k].form = "valid"

OtherRun ==
  \A log \in Logs \ {active} :
    /\ files[log].base <= files[active].base
    /\ files[log].base >= FlushedTo =>
         Run(log, 0) \/ UpTo(log, files[active].base - files[log].base)

LogsCover ==
  \A log \in Logs :
    /\ files[log].base \in (FlushedTo + 1)..Commits
    /\ files[log].entries # <<>>
    /\ files[log].entries[1].number = files[log].base
    => Covered(files[log].base - 1, files[log].entries[1].pages)

QuietDisk ==
  /\ CleanIsWhole
  /\ ActiveRun
  /\ OtherRun
  /\ Covered(FlushedTo, {})
  /\ LogsCover
  /\ FlushedTo <= Durable

\* The logs are tried in order, and what was read of them is kept for a replay.
InOrder ==
  /\ logs \subseteq touched
  /\ Log2 \in touched => Log1 \in touched
  /\ pc \in Idlers => read = <<>>

\* What an undisturbed call has read is what is on disk.
QuietHive ==
  ~disturbed =>
    /\ pc \in {"opened", "found"} => Len(got) <= Len(hive) /\ \A i \in 1..Len(got) : got[i] = hive[i]
    /\ pc = "found" => want = Len(hive)
    /\ pc \in {"acquired", "dirty", "logs", "recheck", "ok"} => got = hive
    /\ (pc = "acquired" /\ data = "clean") \/ (pc = "ok" /\ ~replayed) => got[1].seq1 = got[1].seq2

QuietLogs ==
  ~disturbed /\ Replaying =>
    /\ logs = {} => read = <<>>
    /\ logs = {Log1} => read = <<files[Log1]>>
    /\ logs = Logs => read = <<files[Log1], files[Log2]>>

QuietHeld == InOrder /\ QuietHive /\ QuietLogs

\* A replay of the files on disk, none of them written or missing.
AllRead == Replaying /\ Logs \subseteq touched /\ logs = Logs /\ ~disturbed

\* The log at a place of read, and the logs that Replay has reached.
LogAt(i) == IF i = 1 THEN Log1 ELSE Log2

Reached == {LogAt(i) : i \in opened}

ReadyOK ==
  /\ DOMAIN ready = {i \in {1, 2} : files[LogAt(i)].base >= FlushedTo}
  /\ \A i \in DOMAIN ready : ready[i] = files[LogAt(i)].base
  /\ active \in Reached => \A i \in DOMAIN ready \ opened : ready[i] >= files[active].base

\* The entries applied have no gap, and begin where a log does.
NoGap ==
  /\ \A k \in 2..Len(applied) : applied[k].number = applied[k - 1].number + 1
  /\ applied # <<>> =>
       /\ expected = applied[Len(applied)].number + 1
       /\ \E log \in Logs :
            /\ files[log].base >= FlushedTo
            /\ files[log].entries # <<>>
            /\ applied[1] = files[log].entries[1]
            /\ applied[1].number = files[log].base

\* The first j entries of a log have been applied.
After(log, j) ==
  /\ j \in 0..Len(files[log].entries)
  /\ Len(body) = Len(files[log].entries) - j
  /\ \A k \in 1..Len(body) : body[k] = files[log].entries[k + j]

InActive(j) ==
  /\ active \in Reached
  /\ After(active, j)
  /\ j <= Durable - files[active].base + 1
  /\ expected = files[active].base + j
  /\ applied = <<>> => j = 0

\* The log before the active one.
InOther(log, j) ==
  /\ active \notin Reached /\ log \in Reached
  /\ files[log].base >= FlushedTo
  /\ After(log, j)
  /\ expected = files[log].base + j
  /\ IF j = 0 THEN applied = <<>>
     ELSE /\ applied # <<>>
          /\ j <= files[active].base - files[log].base
          /\ UpTo(log, files[active].base - files[log].base)

\* A log that begins where the active one does and came after it.
InLast(log) ==
  /\ active \in Reached
  /\ After(log, 0)
  /\ files[log].base = files[active].base /\ files[log].base >= FlushedTo
  /\ expected = Durable + 1

InLogs ==
  \/ \E j \in Nat : InActive(j)
  \/ \E log \in Logs \ {active} : InLast(log) \/ \E j \in Nat : InOther(log, j)

Between ==
  IF active \in Reached THEN expected = Durable + 1
  ELSE opened # {} =>
         /\ expected <= files[active].base
         /\ applied # <<>> => expected = files[active].base

\* A replay of those files, once the gate is behind it.
Chained ==
  /\ ReadyOK
  /\ NoGap
  /\ phase = "entries" => InLogs
  /\ phase \in {"open", "done"} => Between
  /\ phase = "done" => opened = DOMAIN ready

Trace ==
  /\ pc = "logs" /\ phase # "gate" => Logs \subseteq touched
  /\ AllRead /\ phase \notin {"gate", "failed"} => Chained

QInv == QuietDisk /\ QuietHeld /\ Trace

-----------------------------------------------------------------------------
(* What the appraiser writes keeps what is known of the disk.              *)

\* The newest generation the appraiser has in its logs is the newest or the one before.
LEMMA DurableIs ==
  ASSUME HistoryOK, DiskOK
  PROVE  /\ Commits \in Nat /\ Durable \in Nat /\ Durable <= Commits
         /\ Settled \in BOOLEAN
         /\ Settled => Durable = Commits
         /\ ~Settled => /\ Durable = Commits - 1 /\ Commits # 0
                        /\ files[active].base \in 1..Commits
                        /\ files[active].entries[Place(Commits)].form # "valid"
         /\ FlushedTo \in Nat /\ FlushedTo <= Commits
         /\ files[active].base \in Nat
  <1>1. Commits \in Nat /\ files[active].base \in 1..(Commits + 1)
    BY DEF HistoryOK, Commits, DiskOK
  <1>2. Settled \in BOOLEAN
    BY DEF Settled
  <1>3. ~Settled => Commits # 0 /\ files[active].base \in 1..Commits
                    /\ files[active].entries[Place(Commits)].form # "valid"
    BY DEF Settled
  <1>4. FlushedTo \in Nat /\ FlushedTo <= Commits
    <2>1. hive[1] \in BaseBlock /\ hive[1].seq2 <= Commits
      BY HeadIs
    <2> QED BY <2>1, RecoveryAssumption DEF FlushedTo, BaseBlock, Numbers
  <1> QED BY <1>1, <1>2, <1>3, <1>4 DEF Durable

\* What is said of the logs is said of the logs alone.
LEMMA SameLogs ==
  ASSUME HistoryOK, UNCHANGED <<files, active, changed>>
  PROVE  /\ Settled' = Settled /\ Durable' = Durable /\ Commits' = Commits
         /\ \A n, p : Content(n, p)' = Content(n, p)
         /\ \A n : SizeAt(n)' = SizeAt(n)
         /\ ActiveRun => ActiveRun'
         /\ FlushedTo \in Nat /\ FlushedTo' \in Nat /\ FlushedTo <= FlushedTo'
            /\ (\A log \in Logs : files[log].base \in Int) /\ OtherRun => OtherRun'
  <1>1. Commits' = Commits
        /\ (\A n, p : Content(n, p)' = Content(n, p))
        /\ \A n : SizeAt(n)' = SizeAt(n)
    BY SameHistory
  <1>2. Settled' = Settled
    BY <1>1 DEF Settled, Place
  <1>3. Durable' = Durable
    BY <1>1, <1>2 DEF Durable
  <1>4. ActiveRun => ActiveRun'
    BY <1>1, <1>3 DEF ActiveRun, Run
  <1>5. FlushedTo \in Nat /\ FlushedTo' \in Nat /\ FlushedTo <= FlushedTo'
          /\ (\A log \in Logs : files[log].base \in Int) /\ OtherRun => OtherRun'
    <2> SUFFICES ASSUME FlushedTo \in Nat, FlushedTo' \in Nat, FlushedTo <= FlushedTo',
                        \A log \in Logs : files[log].base \in Int, OtherRun,
                        NEW log \in Logs \ {active}
                 PROVE  /\ files[log].base <= files[active].base
                        /\ files[log].base >= FlushedTo' =>
                             Run(log, 0) \/ UpTo(log, files[active].base - files[log].base)
      BY DEF OtherRun, Run, UpTo
    <2>1. files[log].base >= FlushedTo' => files[log].base >= FlushedTo
      OBVIOUS
    <2> QED BY <2>1 DEF OtherRun
  <1> QED BY <1>1, <1>2, <1>3, <1>4, <1>5

\* A page that is in a list, on disk or changed since stays so, whatever is written.
LEMMA CoveredStays ==
  ASSUME HistoryOK, DiskOK, HistoryOK', DiskOK', Grows, NEW m \in 0..Commits, NEW lists,
         Covered(m, lists), Durable <= Durable',
         \/ \A p \in Nat \ {0} :
              p + 1 \in DOMAIN hive => p + 1 \in DOMAIN hive' /\ hive'[p + 1] = hive[p + 1]
         \/ \E p \in Nat : FlushPage(p)
  PROVE  Covered(m, lists)'
  <1>1. /\ Commits \in Nat /\ Commits' \in Nat /\ Durable \in Nat /\ Durable' \in Nat
        /\ Durable <= Commits
    <2>1. (HistoryOK /\ DiskOK => Commits \in Nat /\ Durable \in Nat)'
      BY DurableIs, PTL
    <2> QED BY <2>1, DurableIs
  <1>2. SizeAt(m)' = SizeAt(m) /\ \A p : Content(m, p)' = Content(m, p)
    BY <1>1, GrowsKeeps
  <1>3. \A k \in (m + 1)..Durable : k \in (m + 1)..Durable' /\ changed'[k] = changed[k]
    BY <1>1 DEF Grows
  <1>4. SizeAt(m) \in Nat
    BY SizeIs
  <1> SUFFICES ASSUME NEW p \in 1..SizeAt(m), p \notin lists,
                      ~ \E k \in (m + 1)..Durable' : p \in changed'[k]
               PROVE  p + 1 \in DOMAIN hive' /\ hive'[p + 1] = Content(m, p)
    BY <1>2 DEF Covered
  <1>5. p \in Nat \ {0}
    BY <1>4
  <1>6. p + 1 \in DOMAIN hive /\ hive[p + 1] = Content(m, p)
    BY <1>3 DEF Covered
  <1>7. CASE \A q \in Nat \ {0} :
               q + 1 \in DOMAIN hive => q + 1 \in DOMAIN hive' /\ hive'[q + 1] = hive[q + 1]
    BY <1>5, <1>6, <1>7
  <1>8. ASSUME NEW q \in Nat, FlushPage(q)
        PROVE  p + 1 \in DOMAIN hive' /\ hive'[p + 1] = Content(m, p)
    <2>1. /\ DOMAIN hive' = DOMAIN hive \cup {q + 1}
          /\ \A i \in DOMAIN hive' : hive'[i] = IF i = q + 1 THEN Content(Commits, q) ELSE hive[i]
          /\ Settled
      BY <1>8 DEF FlushPage
    <2>2. CASE p # q
      <3>1. p + 1 # q + 1
        BY <1>5, <1>8, <2>2
      <3> QED BY <2>1, <3>1, <1>6
    <2>3. CASE p = q
      <3>1. hive'[p + 1] = Content(Commits, p) /\ p + 1 \in DOMAIN hive'
        BY <2>1, <2>3
      <3>2. Durable = Commits
        BY <2>1, DurableIs
      <3>3. \A k \in (m + 1)..Commits : p \notin changed[k]
        BY <1>3, <3>2
      <3>4. m \in Nat /\ m <= Commits
        BY <1>1
      <3>5. Content(Commits, p) = Content(m, p)
        BY <1>1, <3>3, <3>4, ContentKept
      <3> QED BY <3>1, <3>5
    <2> QED BY <2>2, <2>3
  <1> QED BY <1>7, <1>8

\* The bases and the entries of the logs; the logs are two.
LEMMA BasesAre ==
  ASSUME DiskOK
  PROVE  /\ \A log \in Logs : files[log].base \in Int /\ files[log].entries \in Seq(LogEntry)
         /\ \A log \in Logs \ {active} : \A other \in Logs : other # log => other = active
  <1>1. \A log \in Logs : files[log].base \in Numbers \cup {R!Unusable}
                          /\ files[log].entries \in Seq(LogEntry)
    BY DEF DiskOK, Log
  <1>2. Numbers \subseteq Int /\ R!Unusable \in Int
    BY DEF Numbers, R!Unusable
  <1>3. active \in Logs
    BY DEF DiskOK
  <1> QED BY <1>1, <1>2, <1>3 DEF Logs

\* The base block is marked dirty: the pages and the logs stay.
LEMMA GoDirtyQuiet ==
  ASSUME HistoryOK, DiskOK, QuietDisk, GoDirty
  PROVE  QuietDisk'
  <1>1. HistoryOK' /\ DiskOK' /\ Grows
    BY GoDirtyInv
  <1>2. /\ UNCHANGED <<files, active, changed>> /\ hive' = [hive EXCEPT ![1].seq1 = Commits + 1]
    BY DEF GoDirty
  <1>3. /\ Commits \in Nat /\ hive[1] \in BaseBlock /\ 1 \in DOMAIN hive
    BY DurableIs, HeadIs
  <1>4. /\ hive'[1].seq1 = Commits + 1 /\ hive'[1].seq2 = hive[1].seq2
        /\ DOMAIN hive' = DOMAIN hive
        /\ \A i \in DOMAIN hive : i # 1 => hive'[i] = hive[i]
    BY <1>2, <1>3 DEF BaseBlock
  <1>5. FlushedTo' = FlushedTo /\ FlushedTo \in Nat /\ FlushedTo <= Commits
    BY <1>4, DurableIs DEF FlushedTo
  <1>6. /\ Durable' = Durable /\ Commits' = Commits
        /\ ActiveRun' /\ OtherRun'
    BY <1>2, <1>5, BasesAre, SameLogs DEF QuietDisk
  <1>7. CleanIsWhole'
    BY <1>3, <1>4, <1>5 DEF CleanIsWhole, FlushedTo
  <1>8. \A p \in Nat \ {0} :
          p + 1 \in DOMAIN hive => p + 1 \in DOMAIN hive' /\ hive'[p + 1] = hive[p + 1]
    BY <1>4
  <1>9. Durable \in Nat /\ Durable <= Durable'
    BY <1>6, DurableIs
  <1>10. ASSUME NEW m \in 0..Commits, NEW lists, Covered(m, lists) PROVE Covered(m, lists)'
    BY <1>1, <1>8, <1>9, <1>10, CoveredStays
  <1>11. Covered(FlushedTo, {})'
    <2>1. PICK m : m = FlushedTo
      OBVIOUS
    <2>2. m \in 0..Commits /\ Covered(m, {})
      BY <2>1, <1>3, <1>5 DEF QuietDisk
    <2>3. Covered(m, {})' /\ m = FlushedTo'
      BY <1>5, <1>10, <2>1, <2>2
    <2> QED BY <2>3 DEF Covered
  <1>12. LogsCover'
    <2> SUFFICES ASSUME NEW log \in Logs,
                        files[log].base \in (FlushedTo + 1)..Commits,
                        files[log].entries # <<>>,
                        files[log].entries[1].number = files[log].base
                 PROVE  Covered(files[log].base - 1, files[log].entries[1].pages)'
      BY <1>2, <1>5, <1>6 DEF LogsCover
    <2>1. PICK m, lists : m = files[log].base - 1 /\ lists = files[log].entries[1].pages
      OBVIOUS
    <2>2. m \in 0..Commits /\ Covered(m, lists)
      BY <2>1, <1>3, <1>5 DEF QuietDisk, LogsCover
    <2>3. Covered(m, lists)' /\ m = files'[log].base - 1 /\ lists = files'[log].entries[1].pages
      BY <1>2, <1>10, <2>1, <2>2
    <2> QED BY <2>3 DEF Covered
  <1> QED BY <1>5, <1>6, <1>7, <1>11, <1>12 DEF QuietDisk

\* A page is flushed: a page of an older generation that it overwrites was changed since.
LEMMA FlushPageQuiet ==
  ASSUME HistoryOK, DiskOK, QuietDisk, NEW q \in 1..(MaxPages + 1), FlushPage(q)
  PROVE  QuietDisk'
  <1>1. HistoryOK' /\ DiskOK' /\ Grows
    BY FlushPageInv
  <1>2. /\ UNCHANGED <<files, active, changed>> /\ q \in Nat /\ hive[1].seq1 # hive[1].seq2
        /\ hive' = [i \in DOMAIN hive \cup {q + 1} |->
                     IF i = q + 1 THEN Content(Commits, q) ELSE hive[i]]
    BY RecoveryAssumption DEF FlushPage
  <1>3. /\ Commits \in Nat /\ hive[1] \in BaseBlock /\ 1 \in DOMAIN hive
    BY DurableIs, HeadIs
  <1>4. hive'[1] = hive[1]
    <2>1. q + 1 # 1
      BY <1>2
    <2> QED BY <1>2, <1>3, <2>1
  <1>5. FlushedTo' = FlushedTo /\ FlushedTo \in Nat /\ FlushedTo <= Commits
    BY <1>4, DurableIs DEF FlushedTo
  <1>6. /\ Durable' = Durable /\ Commits' = Commits
        /\ ActiveRun' /\ OtherRun'
    BY <1>2, <1>5, BasesAre, SameLogs DEF QuietDisk
  <1>7. CleanIsWhole'
    BY <1>2, <1>4 DEF CleanIsWhole
  <1>9. Durable \in Nat /\ Durable <= Durable'
    BY <1>6, DurableIs
  <1>10. ASSUME NEW m \in 0..Commits, NEW lists, Covered(m, lists) PROVE Covered(m, lists)'
    <2>1. \E p \in Nat : FlushPage(p)
      BY <1>2
    <2> QED BY <1>1, <2>1, <1>9, <1>10, CoveredStays
  <1>11. Covered(FlushedTo, {})'
    <2>1. PICK m : m = FlushedTo
      OBVIOUS
    <2>2. m \in 0..Commits /\ Covered(m, {})
      BY <2>1, <1>3, <1>5 DEF QuietDisk
    <2>3. Covered(m, {})' /\ m = FlushedTo'
      BY <1>5, <1>10, <2>1, <2>2
    <2> QED BY <2>3 DEF Covered
  <1>12. LogsCover'
    <2> SUFFICES ASSUME NEW log \in Logs,
                        files[log].base \in (FlushedTo + 1)..Commits,
                        files[log].entries # <<>>,
                        files[log].entries[1].number = files[log].base
                 PROVE  Covered(files[log].base - 1, files[log].entries[1].pages)'
      BY <1>2, <1>5, <1>6 DEF LogsCover
    <2>1. PICK m, lists : m = files[log].base - 1 /\ lists = files[log].entries[1].pages
      OBVIOUS
    <2>2. m \in 0..Commits /\ Covered(m, lists)
      BY <2>1, <1>3, <1>5 DEF QuietDisk, LogsCover
    <2>3. Covered(m, lists)' /\ m = files'[log].base - 1 /\ lists = files'[log].entries[1].pages
      BY <1>2, <1>10, <2>1, <2>2
    <2> QED BY <2>3 DEF Covered
  <1> QED BY <1>5, <1>6, <1>7, <1>11, <1>12 DEF QuietDisk

\* The flush ends: the hive on disk is the newest generation.
LEMMA FlushDoneQuiet ==
  ASSUME HistoryOK, DiskOK, QuietDisk, FlushDone
  PROVE  QuietDisk'
  <1> DEFINE block == [seq1 |-> Commits, seq2 |-> Commits, bins |-> SizeAt(Commits)]
  <1>1. HistoryOK' /\ DiskOK' /\ Grows
    BY FlushDoneInv
  <1>2. /\ UNCHANGED <<files, active, changed>> /\ Settled /\ Lacking(Commits) = {}
        /\ hive' = [hive EXCEPT ![1] = block]
    BY DEF FlushDone
  <1>3. /\ Commits \in Nat /\ 1 \in DOMAIN hive /\ Durable = Commits
    BY <1>2, DurableIs, HeadIs
  <1>4. /\ hive'[1] = block /\ DOMAIN hive' = DOMAIN hive
        /\ \A i \in DOMAIN hive : i # 1 => hive'[i] = hive[i]
    BY <1>2, <1>3
  <1>5. FlushedTo' = Commits /\ FlushedTo \in Nat /\ FlushedTo <= Commits
    BY <1>4, DurableIs DEF FlushedTo
  <1>6. /\ Durable' = Durable /\ Commits' = Commits /\ Settled' = Settled
        /\ ActiveRun' /\ OtherRun'
        /\ (\A n, p : Content(n, p)' = Content(n, p))
        /\ \A n : SizeAt(n)' = SizeAt(n)
    <2>1. FlushedTo \in Nat /\ FlushedTo' \in Nat /\ FlushedTo <= FlushedTo'
      BY <1>3, <1>5
    <2> QED BY <1>2, <2>1, BasesAre, SameLogs DEF QuietDisk
  <1>7. SizeAt(Commits) \in Nat
    <2>1. Commits \in 0..Commits
      BY <1>3
    <2> QED BY <2>1, SizeIs
  <1>8. \A p \in 1..SizeAt(Commits) : p + 1 \in DOMAIN hive' /\ hive'[p + 1] = Content(Commits, p)
    <2> TAKE p \in 1..SizeAt(Commits)
    <2>1. p + 1 \in DOMAIN hive /\ hive[p + 1] = Content(Commits, p)
      BY <1>2 DEF Lacking
    <2>2. p + 1 # 1
      BY <1>7
    <2> QED BY <2>1, <2>2, <1>4
  <1>9. PICK c : c = Commits
    OBVIOUS
  <1>10. /\ SizeAt(c)' = SizeAt(c) /\ \A p : Content(c, p)' = Content(c, p)
    BY <1>6
  <1>11. (Lacking(c) = {})'
    BY <1>8, <1>9, <1>10 DEF Lacking
  <1>12. CleanIsWhole'
    <2>1. FlushedTo' = Commits' /\ Settled'
      BY <1>2, <1>5, <1>6
    <2>2. hive'[1].bins = SizeAt(Commits)'
      <3>1. Commits' = c
        BY <1>6, <1>9
      <3>2. SizeAt(Commits)' = SizeAt(c)'
        BY <3>1 DEF SizeAt, Largest
      <3> QED BY <3>2, <1>4, <1>9, <1>10
    <2>3. Lacking(Commits)' = {}
      <3>1. Commits' = c
        BY <1>6, <1>9
      <3>2. Lacking(Commits)' = Lacking(c)'
        BY <3>1 DEF Lacking, SizeAt, Content, Largest
      <3> QED BY <3>2, <1>11
    <2> QED BY <2>1, <2>2, <2>3 DEF CleanIsWhole
  <1>13. Covered(FlushedTo, {})'
    <2>1. Covered(c, {})'
      BY <1>8, <1>9, <1>10 DEF Covered
    <2>2. FlushedTo' = c
      BY <1>5, <1>9
    <2> QED BY <2>1, <2>2 DEF Covered
  <1>14. LogsCover'
    <2>1. \A log \in Logs : files'[log].base \notin (FlushedTo' + 1)..Commits'
      BY <1>3, <1>5, <1>6
    <2> QED BY <2>1 DEF LogsCover
  <1>15. FlushedTo' <= Durable'
    BY <1>3, <1>5, <1>6
  <1> QED BY <1>6, <1>12, <1>13, <1>14, <1>15 DEF QuietDisk

\* A log is restarted: the run in the other one goes up to its first number.
LEMMA RestartQuiet ==
  ASSUME HistoryOK, DiskOK, QuietDisk, NEW log \in Logs, Restart(log)
  PROVE  QuietDisk'
  <1>1. HistoryOK' /\ DiskOK' /\ Grows
    BY RestartInv
  <1>2. /\ hive' = hive /\ changed' = changed /\ Settled /\ active' = log
        /\ files' = [files EXCEPT ![log].base = Commits + 1]
        /\ log # active \/ FlushedTo = Commits
        /\ files[log].base # Commits + 1
    BY DEF Restart, FlushedTo
  <1>3. /\ Commits \in Nat /\ Durable = Commits /\ FlushedTo \in Nat /\ FlushedTo <= Commits
        /\ files[active].base \in 1..(Commits + 1) /\ files[active].base \in Nat
    BY <1>2, DurableIs DEF DiskOK
  <1>4. /\ Commits' = Commits /\ FlushedTo' = FlushedTo
        /\ (\A n, p : Content(n, p)' = Content(n, p))
        /\ \A n : SizeAt(n)' = SizeAt(n)
    BY <1>2, SameHistory DEF FlushedTo
  <1>5. /\ files'[log].base = Commits + 1
        /\ \A other \in Logs : files'[other].entries = files[other].entries
        /\ \A other \in Logs \ {log} : files'[other] = files[other]
    BY <1>2 DEF DiskOK, Log
  <1>6. Settled' /\ Durable' = Commits
    <2>1. files'[active'].base \notin 1..Commits'
      BY <1>2, <1>3, <1>4, <1>5
    <2>2. Settled'
      BY <2>1 DEF Settled
    <2> QED BY <2>2, <1>4 DEF Durable
  <1>7. \A other \in Logs : \A k \in DOMAIN files[other].entries :
          files[other].entries[k].number \in 1..Commits
    BY DEF DiskOK, AllSound, Sound
  <1>8. ActiveRun'
    <2>1. /\ active' = log /\ files'[log].entries = files[log].entries
          /\ Commits' - files'[log].base + 1 = 0 /\ Durable' - files'[log].base + 1 = 0
      BY <1>2, <1>3, <1>4, <1>5, <1>6
    <2>2. \A k \in DOMAIN files[log].entries :
            k \in Nat /\ k # 0 /\ files[log].entries[k].number < files'[log].base
      <3> TAKE k \in DOMAIN files[log].entries
      <3>1. files[log].entries \in Seq(LogEntry)
        BY BasesAre
      <3>2. k \in Nat /\ k # 0
        BY <3>1
      <3>3. files[log].entries[k].number \in 1..Commits
        BY <1>7
      <3> QED BY <3>2, <3>3, <1>3, <1>5
    <2>3. \A k \in DOMAIN files[log].entries : ~(k <= 0)
      BY <2>2
    <2> QED BY <2>1, <2>2, <2>3 DEF ActiveRun, Run
  <1>9. OtherRun'
    <2> SUFFICES ASSUME NEW other \in Logs \ {log}
                 PROVE  /\ files[other].base <= Commits + 1
                        /\ files[other].base >= FlushedTo =>
                             Run(other, 0) \/ UpTo(other, Commits + 1 - files[other].base)
      <3> SUFFICES ASSUME NEW other \in Logs \ {log},
                          /\ files[other].base <= Commits + 1
                          /\ files[other].base >= FlushedTo =>
                               Run(other, 0) \/ UpTo(other, Commits + 1 - files[other].base)
                   PROVE  /\ files'[other].base <= files'[log].base
                          /\ files'[other].base >= FlushedTo' =>
                               \/ Run(other, 0)'
                               \/ UpTo(other, files[log].base - files[other].base)'
        BY <1>2 DEF OtherRun, UpTo, Run
      <3>1. files'[other] = files[other] /\ files'[log].base = Commits + 1
            /\ FlushedTo' = FlushedTo
        BY <1>4, <1>5
      <3>2. PICK n : n = Commits + 1 - files[other].base
        OBVIOUS
      <3>3. files'[log].base - files'[other].base = n
        BY <3>1, <3>2, <1>3, BasesAre
      <3>4. Run(other, 0) => Run(other, 0)'
        BY <3>1 DEF Run
      <3>5. UpTo(other, n) => UpTo(other, n)'
        BY <3>1 DEF UpTo, Run
      <3>6. UpTo(other, n)' => UpTo(other, files[log].base - files[other].base)'
        BY <3>3 DEF UpTo, Run
      <3> QED BY <3>1, <3>2, <3>4, <3>5, <3>6
    <2>1. files[other].base \in Int /\ files[other].entries \in Seq(LogEntry)
          /\ Len(files[other].entries) \in Nat
          /\ DOMAIN files[other].entries = 1..Len(files[other].entries)
      BY BasesAre
    <2>2. CASE other = active
      <3> DEFINE n == Commits + 1 - files[active].base
      <3>1. /\ n \in Int /\ n = Commits - files[active].base + 1
            /\ n = Durable - files[active].base + 1
        BY <1>3
      <3>2. n <= Len(files[active].entries) /\ Run(active, n)
        BY <3>1 DEF DiskOK, QuietDisk, ActiveRun
      <3>3. \A k \in DOMAIN files[active].entries : k <= n => files[active].entries[k].form = "valid"
        BY <3>1 DEF QuietDisk, ActiveRun
      <3>4. \A k \in 1..n : k \in DOMAIN files[active].entries /\ k <= n
        BY <2>1, <2>2, <3>1, <3>2
      <3> QED BY <2>2, <1>3, <3>2, <3>3, <3>4 DEF UpTo
    <2>3. CASE other # active
      <3>1. log = active /\ other \in Logs \ {active} /\ FlushedTo = Commits
        BY <2>3, <1>2 DEF DiskOK, Logs
      <3>2. /\ files[other].base <= files[active].base
            /\ files[other].base >= FlushedTo =>
                 \/ Run(other, 0)
                 \/ Run(other, files[active].base - files[other].base)
        BY <3>1 DEF QuietDisk, OtherRun, UpTo
      <3>3. files[active].base <= Commits
        BY <3>1, <1>2, <1>3
      <3>4. files[other].base >= FlushedTo => files[active].base - files[other].base = 0
        BY <3>1, <3>2, <3>3, <2>1, <1>3
      <3> QED BY <3>2, <3>3, <3>4, <2>1, <1>3
    <2> QED BY <2>2, <2>3
  <1>10. CleanIsWhole'
    <2>1. Lacking(Commits)' = Lacking(Commits) /\ SizeAt(Commits)' = SizeAt(Commits)
      BY <1>2 DEF Lacking, SizeAt, Content, Largest, Commits
    <2> QED BY <1>2, <1>4, <1>6, <2>1 DEF QuietDisk, CleanIsWhole
  <1>11. ASSUME NEW m \in 0..Commits, NEW lists, Covered(m, lists) PROVE Covered(m, lists)'
    <2>1. Durable <= Durable'
      BY <1>3, <1>6
    <2>2. \A p \in Nat \ {0} :
            p + 1 \in DOMAIN hive => p + 1 \in DOMAIN hive' /\ hive'[p + 1] = hive[p + 1]
      BY <1>2
    <2> QED BY <1>1, <2>1, <2>2, <1>11, CoveredStays
  <1>12. Covered(FlushedTo, {})'
    <2>1. PICK m : m = FlushedTo
      OBVIOUS
    <2>2. m \in 0..Commits /\ Covered(m, {})
      BY <2>1, <1>3 DEF QuietDisk
    <2>3. Covered(m, {})' /\ m = FlushedTo'
      BY <1>4, <1>11, <2>1, <2>2
    <2> QED BY <2>3 DEF Covered
  <1>13. LogsCover'
    <2> SUFFICES ASSUME NEW other \in Logs,
                        files'[other].base \in (FlushedTo + 1)..Commits,
                        files'[other].entries # <<>>,
                        files'[other].entries[1].number = files'[other].base
                 PROVE  Covered(files[other].base - 1, files[other].entries[1].pages)'
      BY <1>4 DEF LogsCover
    <2>0. files'[other] = files[other]
      <3>1. other # log
        BY <1>3, <1>5
      <3> QED BY <3>1, <1>5
    <2>1. PICK m, lists : m = files[other].base - 1 /\ lists = files[other].entries[1].pages
      OBVIOUS
    <2>2. m \in 0..Commits /\ Covered(m, lists)
      BY <2>0, <2>1, <1>3 DEF QuietDisk, LogsCover
    <2>3. Covered(m, lists)' /\ m = files'[other].base - 1 /\ lists = files'[other].entries[1].pages
      BY <1>11, <2>0, <2>1, <2>2
    <2> QED BY <2>3 DEF Covered
  <1>14. FlushedTo' <= Durable'
    BY <1>3, <1>4, <1>6
  <1> QED BY <1>8, <1>9, <1>10, <1>12, <1>13, <1>14 DEF QuietDisk

\* The newest entry is completed.
LEMMA EndEntryQuiet ==
  ASSUME HistoryOK, DiskOK, QuietDisk, EndEntry
  PROVE  QuietDisk'
  <1> DEFINE entries == files[active].entries
             base == files[active].base
             place == Place(Commits)
             new == [entries EXCEPT ![place].form = "valid"]
  <1>1. HistoryOK' /\ DiskOK' /\ Grows
    BY EndEntryInv
  <1>2. /\ hive' = hive /\ changed' = changed /\ ~Settled /\ active' = active /\ active \in Logs
        /\ files' = [files EXCEPT ![active].entries = new]
    BY DEF EndEntry, DiskOK
  <1>3. /\ Commits \in Nat /\ Durable = Commits - 1 /\ Commits # 0 /\ base \in 1..Commits
        /\ FlushedTo \in Nat /\ FlushedTo <= Commits /\ FlushedTo <= Durable
        /\ entries[place].form # "valid"
    BY <1>2, DurableIs DEF QuietDisk
  <1>4. /\ Commits' = Commits /\ FlushedTo' = FlushedTo
        /\ (\A n, p : Content(n, p)' = Content(n, p))
        /\ \A n : SizeAt(n)' = SizeAt(n)
    BY <1>2, SameHistory DEF FlushedTo
  <1>5. /\ entries \in Seq(LogEntry) /\ place = Commits - base + 1
        /\ place <= Len(entries) /\ place \in Nat \ {0} /\ Len(entries) \in Nat
    <2>1. entries \in Seq(LogEntry) /\ place = Commits - base + 1
      BY <1>2, BasesAre DEF Place
    <2>2. place <= Len(entries)
      BY <2>1 DEF DiskOK
    <2> HIDE DEF entries, base, place
    <2> QED BY <2>1, <2>2, <1>3
  <1>6. /\ DOMAIN new = DOMAIN entries /\ place \in DOMAIN entries
        /\ \A k \in DOMAIN entries :
             /\ new[k].number = entries[k].number /\ new[k].pages = entries[k].pages
             /\ k # place => new[k] = entries[k]
             /\ k = place => new[k].form = "valid"
    <2> HIDE DEF entries, place
    <2>1. \A k \in DOMAIN entries : entries[k] \in LogEntry
      BY <1>5
    <2>2. place \in DOMAIN entries
      BY <1>5
    <2> QED BY <2>1, <2>2 DEF LogEntry
  <1>7. /\ files'[active].entries = new /\ files'[active].base = base
        /\ \A log \in Logs \ {active} : files'[log] = files[log]
    BY <1>2 DEF DiskOK, Log
  <1> HIDE DEF new
  <1>8. Settled' /\ Durable' = Commits
    <2>1. Place(Commits)' = place
      BY <1>2, <1>4, <1>7 DEF Place
    <2>2. files'[active'].entries[Place(Commits)'].form = "valid"
      BY <2>1, <1>2, <1>6, <1>7
    <2>3. Settled'
      BY <2>2 DEF Settled
    <2> QED BY <2>3, <1>4 DEF Durable
  <1> HIDE DEF place
  <1>9. ActiveRun'
    <2>1. Run(active, place) /\ \A k \in DOMAIN entries : k <= Durable - base + 1 => entries[k].form = "valid"
      BY <1>5 DEF QuietDisk, ActiveRun
    <2>2. /\ Commits' - files'[active].base + 1 = place
          /\ Durable' - files'[active].base + 1 = place
      BY <1>4, <1>5, <1>7, <1>8
    <2>3. \A k \in DOMAIN new :
            IF k <= place THEN new[k].number = base + k - 1 ELSE new[k].number < base
      BY <2>1, <1>6 DEF Run
    <2>0. files'[active'].entries = new /\ files'[active'].base = base
      BY <1>2, <1>7
    <2>4. \A k \in DOMAIN new : k <= place => new[k].form = "valid"
      <3> TAKE k \in DOMAIN new
      <3>1. CASE k = place
        BY <3>1, <1>6
      <3>2. CASE k # place
        <4>1. k \in Nat
          BY <1>5, <1>6
        <4>2. k <= place => k <= Durable - base + 1
          <5> HIDE DEF base
          <5> QED BY <3>2, <4>1, <1>3, <1>5
        <4> QED BY <3>2, <4>2, <2>1, <1>6
      <3> QED BY <3>1, <3>2
    <2> HIDE DEF base, entries
    <2> QED BY <2>0, <2>2, <2>3, <2>4, <1>2 DEF ActiveRun, Run
  <1>10. OtherRun'
    <2>1. \A log \in Logs \ {active} : files'[log] = files[log]
      BY <1>7
    <2> QED BY <2>1, <1>2, <1>4, <1>7 DEF QuietDisk, OtherRun, UpTo, Run
  <1>11. CleanIsWhole'
    BY <1>2 DEF QuietDisk, CleanIsWhole
  <1>12. ASSUME NEW m \in 0..Commits, NEW lists, Covered(m, lists) PROVE Covered(m, lists)'
    <2>1. Durable <= Durable'
      BY <1>3, <1>8
    <2>2. \A p \in Nat \ {0} :
            p + 1 \in DOMAIN hive => p + 1 \in DOMAIN hive' /\ hive'[p + 1] = hive[p + 1]
      BY <1>2
    <2> QED BY <1>1, <2>1, <2>2, <1>12, CoveredStays
  <1>13. Covered(FlushedTo, {})'
    <2>1. PICK m : m = FlushedTo
      OBVIOUS
    <2>2. m \in 0..Commits /\ Covered(m, {})
      BY <2>1, <1>3 DEF QuietDisk
    <2>3. Covered(m, {})' /\ m = FlushedTo'
      BY <1>4, <1>12, <2>1, <2>2
    <2> QED BY <2>3 DEF Covered
  <1>14. LogsCover'
    <2> SUFFICES ASSUME NEW log \in Logs,
                        files'[log].base \in (FlushedTo + 1)..Commits,
                        files'[log].entries # <<>>,
                        files'[log].entries[1].number = files'[log].base
                 PROVE  Covered(files[log].base - 1, files[log].entries[1].pages)'
      BY <1>4 DEF LogsCover
    <2>0. /\ files'[log].base = files[log].base
          /\ files[log].entries # <<>>
          /\ files'[log].entries[1].number = files[log].entries[1].number
          /\ files'[log].entries[1].pages = files[log].entries[1].pages
      <3>1. CASE log # active
        BY <3>1, <1>7
      <3>2. CASE log = active
        <4>1. entries # <<>> /\ 1 \in DOMAIN entries
          <5> HIDE DEF entries
          <5> QED BY <1>5
        <4> QED BY <3>2, <4>1, <1>6, <1>7
      <3> QED BY <3>1, <3>2
    <2>1. PICK m, lists : m = files[log].base - 1 /\ lists = files[log].entries[1].pages
      OBVIOUS
    <2>2. m \in 0..Commits /\ Covered(m, lists)
      BY <2>0, <2>1, <1>3 DEF QuietDisk, LogsCover
    <2>3. Covered(m, lists)' /\ m = files'[log].base - 1 /\ lists = files'[log].entries[1].pages
      BY <1>12, <2>0, <2>1, <2>2
    <2> QED BY <2>3 DEF Covered
  <1>15. FlushedTo' <= Durable'
    BY <1>3, <1>4, <1>8
  <1> QED BY <1>9, <1>10, <1>11, <1>13, <1>14, <1>15 DEF QuietDisk

\* A commit put an entry with a list of pages at a place of the active log.
Begun(new, lists, place, pages) ==
  /\ place = Commits - files[active].base + 2 /\ place \in Nat \ {0}
  /\ lists = IF files[active].base = Commits + 1 THEN pages \cup Lacking(Commits) ELSE pages
  /\ active' = active /\ files'[active].entries = new
  /\ files'[active].base = files[active].base
  /\ \A log \in Logs \ {active} : files'[log] = files[log]
  /\ DOMAIN new = DOMAIN files[active].entries \cup {place}
  /\ new[place].number = Commits + 1 /\ new[place].pages = lists
  /\ new[place].form = "torn"
  /\ \A k \in DOMAIN files[active].entries : k # place => new[k] = files[active].entries[k]
  /\ place # 1 => 1 \in DOMAIN files[active].entries

\* What a commit puts in the active log.
LEMMA EntryBegun ==
  ASSUME HistoryOK, DiskOK, NEW pages \in Changes, BeginEntry(pages)
  PROVE  \E new, lists, place : Begun(new, lists, place, pages)
  <1> DEFINE entries == files[active].entries
             base == files[active].base
             place == Place(Commits + 1)
             lists == IF base = Commits + 1 THEN pages \cup Lacking(Commits) ELSE pages
             entry == [number |-> Commits + 1, pages |-> lists, form |-> "torn",
                       bins |-> Largest(pages \cup {SizeAt(Commits)})]
             new == [k \in DOMAIN entries \cup {place} |->
                       IF k = place THEN entry ELSE entries[k]]
  <1>1. /\ files \in [Logs -> Log] /\ active \in Logs /\ active' = active
        /\ files' = [files EXCEPT ![active].entries = new]
    BY DEF DiskOK, BeginEntry
  <1>2. /\ files'[active].entries = new /\ files'[active].base = base
        /\ \A log \in Logs \ {active} : files'[log] = files[log]
    BY <1>1 DEF Log
  <1>3. /\ entry.number = Commits + 1 /\ entry.pages = lists /\ entry.form = "torn"
    OBVIOUS
  <1> HIDE DEF entry
  <1>4. /\ DOMAIN new = DOMAIN entries \cup {place} /\ new[place] = entry
        /\ \A k \in DOMAIN entries : k # place => new[k] = entries[k]
    OBVIOUS
  <1> HIDE DEF new, lists
  <1>5. place = Commits - base + 2 /\ place \in Nat \ {0} /\ (place # 1 => 1 \in DOMAIN entries)
    <2>1. /\ Commits \in Nat /\ base \in 1..(Commits + 1)
          /\ Commits - base + 1 <= Len(entries)
          /\ entries \in Seq(LogEntry)
      BY BasesAre, DurableIs DEF DiskOK
    <2>2. place = (Commits + 1) - base + 1
      BY DEF Place
    <2> HIDE DEF entries, base, place
    <2>3. place = Commits - base + 2 /\ place \in Nat \ {0}
      BY <2>1, <2>2
    <2>4. Len(entries) \in Nat /\ DOMAIN entries = 1..Len(entries)
      BY <2>1
    <2>5. place # 1 => 1 <= Len(entries)
      BY <2>1, <2>3, <2>4
    <2> QED BY <2>3, <2>4, <2>5
  <1> HIDE DEF place
  <1>6. Begun(new, lists, place, pages)
    BY <1>1, <1>2, <1>3, <1>4, <1>5 DEF lists, Begun
  <1> QED BY <1>6

\* A commit is begun: the generation before it is still the newest the logs have.
LEMMA BeginEntryQuiet ==
  ASSUME HistoryOK, DiskOK, QuietDisk, NEW pages \in Changes, BeginEntry(pages)
  PROVE  QuietDisk'
  <1> DEFINE entries == files[active].entries
             base == files[active].base
  <1>1. HistoryOK' /\ DiskOK' /\ Grows
    BY BeginEntryInv
  <1>2. /\ hive' = hive /\ Settled /\ hive[1].seq1 # hive[1].seq2
    BY DEF BeginEntry
  <1>3. /\ Commits \in Nat /\ Durable = Commits /\ FlushedTo \in Nat /\ FlushedTo <= Commits
        /\ base \in 1..(Commits + 1)
    BY <1>2, DurableIs DEF DiskOK
  <1>4. Commits' = Commits + 1 /\ FlushedTo' = FlushedTo
    BY <1>2, CommitHistory DEF FlushedTo
  <1>5. PICK new, lists, place :
          /\ place = Commits - base + 2 /\ place \in Nat \ {0}
          /\ lists = IF base = Commits + 1 THEN pages \cup Lacking(Commits) ELSE pages
          /\ active' = active /\ files'[active].entries = new
          /\ files'[active].base = base
          /\ \A log \in Logs \ {active} : files'[log] = files[log]
          /\ DOMAIN new = DOMAIN entries \cup {place}
          /\ new[place].number = Commits + 1 /\ new[place].pages = lists
          /\ new[place].form = "torn"
          /\ \A k \in DOMAIN entries : k # place => new[k] = entries[k]
          /\ place # 1 => 1 \in DOMAIN entries
    BY EntryBegun DEF Begun
  <1>6. ~Settled' /\ Durable' = Commits
    <2>1. Place(Commits)' = place
      <3>1. Place(Commits)' = (Commits + 1) - base + 1
        BY <1>4, <1>5 DEF Place
      <3> QED BY <3>1, <1>3, <1>5
    <2>2. files'[active'].entries[Place(Commits)'].form # "valid"
      BY <2>1, <1>5
    <2>3. files'[active'].base \in 1..Commits' /\ Commits' > 0
      BY <1>3, <1>4, <1>5
    <2>4. ~Settled'
      BY <2>2, <2>3 DEF Settled
    <2> QED BY <2>4, <1>3, <1>4 DEF Durable
  <1>7. /\ entries \in Seq(LogEntry) /\ \A k \in DOMAIN entries : k \in Nat
        /\ active \in Logs
        /\ \A log \in Logs : \A k \in DOMAIN files[log].entries :
             files[log].entries[k].number \in 1..Commits
    <2>1. entries \in Seq(LogEntry) /\ active \in Logs
      BY BasesAre DEF DiskOK
    <2>2. \A k \in DOMAIN entries : k \in Nat
      <3> HIDE DEF entries
      <3> QED BY <2>1
    <2> QED BY <2>1, <2>2 DEF DiskOK, AllSound, Sound
  <1>8. ActiveRun'
    <2>1. Run(active, place - 1)
          /\ \A k \in DOMAIN entries : k <= place - 1 => entries[k].form = "valid"
      <3>1. Commits - base + 1 = place - 1
        BY <1>3, <1>5
      <3> QED BY <3>1, <1>3 DEF QuietDisk, ActiveRun
    <2>2. /\ files'[active'].entries = new /\ files'[active'].base = base
          /\ Commits' - base + 1 = place
          /\ Durable' - base + 1 = place - 1
      BY <1>3, <1>4, <1>5, <1>6
    <2>3. \A k \in DOMAIN new :
            IF k <= place THEN new[k].number = base + k - 1 ELSE new[k].number < base
      <3> TAKE k \in DOMAIN new
      <3>1. CASE k = place
        <4>1. new[k].number = Commits + 1
          BY <3>1, <1>5
        <4>2. Commits + 1 = base + place - 1
          BY <1>3, <1>5
        <4>3. k <= place
          BY <3>1, <1>5
        <4> QED BY <4>1, <4>2, <4>3, <3>1
      <3>2. CASE k # place
        <4>1. k \in DOMAIN entries /\ new[k] = entries[k] /\ k \in Nat
          BY <3>2, <1>5, <1>7
        <4>2. k <= place <=> k <= place - 1
          BY <3>2, <4>1, <1>5
        <4>3. IF k <= place - 1 THEN entries[k].number = base + k - 1 ELSE entries[k].number < base
          BY <2>1, <4>1 DEF Run
        <4> QED BY <4>1, <4>2, <4>3
      <3> QED BY <3>1, <3>2
    <2>4. \A k \in DOMAIN new : k <= place - 1 => new[k].form = "valid"
      <3> TAKE k \in DOMAIN new
      <3>1. CASE k = place
        BY <3>1, <1>5
      <3>2. CASE k # place
        BY <3>2, <2>1, <1>5
      <3> QED BY <3>1, <3>2
    <2> HIDE DEF base, entries
    <2> QED BY <2>2, <2>3, <2>4 DEF ActiveRun, Run
  <1>10. OtherRun'
    <2>1. /\ \A log \in Logs \ {active} : files'[log] = files[log]
          /\ active' = active /\ files'[active].base = files[active].base
      BY <1>5
    <2> QED BY <2>1, <1>4 DEF QuietDisk, OtherRun, UpTo, Run
  <1>11. CleanIsWhole'
    BY <1>2 DEF CleanIsWhole
  <1>12. ASSUME NEW m \in 0..Commits, NEW ls, Covered(m, ls) PROVE Covered(m, ls)'
    <2>1. Durable <= Durable'
      BY <1>3, <1>6
    <2>2. \A p \in Nat \ {0} :
            p + 1 \in DOMAIN hive => p + 1 \in DOMAIN hive' /\ hive'[p + 1] = hive[p + 1]
      BY <1>2
    <2> QED BY <1>1, <2>1, <2>2, <1>12, CoveredStays
  <1>13. Covered(FlushedTo, {})'
    <2>1. PICK m : m = FlushedTo
      OBVIOUS
    <2>2. m \in 0..Commits /\ Covered(m, {})
      BY <2>1, <1>3 DEF QuietDisk
    <2>3. Covered(m, {})' /\ m = FlushedTo'
      BY <1>4, <1>12, <2>1, <2>2
    <2> QED BY <2>3 DEF Covered
  <1>14. LogsCover'
    <2> SUFFICES ASSUME NEW log \in Logs,
                        files'[log].base \in (FlushedTo + 1)..(Commits + 1),
                        files'[log].entries # <<>>,
                        files'[log].entries[1].number = files'[log].base
                 PROVE  Covered(files[log].base - 1, files[log].entries[1].pages)'
      BY <1>4 DEF LogsCover
    <2>0. PICK m, ls : m = files'[log].base - 1 /\ ls = files'[log].entries[1].pages
      OBVIOUS
    <2>1. m \in 0..Commits
      BY <2>0, <1>3
    <2>2. CASE log # active \/ place # 1
      <3>1. /\ files'[log].base = files[log].base
            /\ files'[log].entries[1] = files[log].entries[1]
            /\ files[log].entries # <<>>
        <4>1. CASE log # active
          BY <4>1, <1>5
        <4>2. CASE log = active /\ place # 1
          <5>1. 1 \in DOMAIN entries
            BY <4>2, <1>5
          <5>2. entries # <<>>
            <6> HIDE DEF entries
            <6> QED BY <5>1, <1>7
          <5> QED BY <4>2, <5>1, <5>2, <1>5
        <4> QED BY <2>2, <4>1, <4>2
      <3>2. 1 \in DOMAIN files[log].entries
        <4>1. files[log].entries \in Seq(LogEntry)
          BY BasesAre
        <4> QED BY <4>1, <3>1
      <3>3. files[log].base \in (FlushedTo + 1)..Commits
        BY <3>1, <3>2, <1>3, <1>7
      <3>4. Covered(m, ls)
        BY <2>0, <3>1, <3>3 DEF QuietDisk, LogsCover
      <3> QED BY <2>0, <2>1, <3>4, <1>12 DEF Covered
    <2>3. CASE log = active /\ place = 1
      <3>1. base = Commits + 1 /\ m = Commits
        BY <2>0, <2>3, <1>3, <1>5
      <3>2. ls = pages \cup Lacking(Commits)
        BY <2>0, <2>3, <3>1, <1>5
      <3>3. \A p \in 1..SizeAt(m) : p \in ls \/ (p + 1 \in DOMAIN hive /\ hive[p + 1] = Content(m, p))
        BY <3>1, <3>2 DEF Lacking
      <3>4. Covered(m, ls)
        BY <3>3 DEF Covered
      <3> QED BY <2>0, <2>1, <3>4, <1>12 DEF Covered
    <2> QED BY <2>2, <2>3
  <1>15. FlushedTo' <= Durable'
    BY <1>3, <1>4, <1>6
  <1> QED BY <1>8, <1>10, <1>11, <1>13, <1>14, <1>15 DEF QuietDisk

\* Whatever the appraiser writes, its files can be recovered from.
LEMMA WritesQuiet ==
  ASSUME HistoryOK, DiskOK, QuietDisk, AppraiserWrites
  PROVE  QuietDisk'
  BY GoDirtyQuiet, FlushDoneQuiet, FlushPageQuiet, RestartQuiet, EndEntryQuiet, BeginEntryQuiet
     DEF AppraiserWrites

-----------------------------------------------------------------------------
(* At the start, and while the call works.                                 *)

\* A clean hive, its past commits in one log and none in the other.
LEMMA InitQuiet == RecoveryInit => QuietDisk
  <1> SUFFICES ASSUME RecoveryInit PROVE QuietDisk
    OBVIOUS
  <1>1. /\ FirstSize \in 1..MaxPages /\ MaxPages \in Nat /\ FirstSize \in Nat
        /\ Past \in Seq(Changes) /\ Len(Past) \in Nat /\ DOMAIN Past = 1..Len(Past)
        /\ \A n \in DOMAIN Past : Past[n] \subseteq 1..FirstSize
    BY RecoveryAssumption
  <1>2. changed = Past /\ Commits = Len(Past) /\ Commits \in Nat
    BY <1>1 DEF RecoveryInit, Commits
  <1>3. HistoryOK /\ DiskOK
    BY InitRInv DEF RInv
  <1>4. SizeAt(Commits) = FirstSize
    <2>1. Commits \in 0..Commits
      BY <1>2
    <2>2. /\ SizeAt(Commits) \in Nat
          /\ SizeAt(Commits) = FirstSize \/ \E k \in 1..Commits : SizeAt(Commits) \in changed[k]
          /\ FirstSize <= SizeAt(Commits)
      BY <1>3, <2>1, SizeIs
    <2>3. \A k \in 1..Commits : changed[k] \subseteq 1..FirstSize
      BY <1>1, <1>2
    <2> QED BY <2>2, <2>3, <1>1
  <1>5. /\ DOMAIN hive = 1..(1 + FirstSize)
        /\ hive[1] = [seq1 |-> Commits, seq2 |-> Commits, bins |-> FirstSize]
    <2>1. hive \in Seq(Block) /\ Len(hive) = 1 + FirstSize
      BY InitHive
    <2> HIDE DEF Block
    <2>2. DOMAIN hive = 1..Len(hive)
      BY <2>1
    <2> QED BY <2>1, <2>2, <1>2, InitHive
  <1>6. \A p \in 1..SizeAt(Commits) : p + 1 \in DOMAIN hive /\ hive[p + 1] = Content(Commits, p)
    <2> TAKE p \in 1..SizeAt(Commits)
    <2>1. hive[p + 1] = Largest({n \in DOMAIN Past : p \in Past[n]} \cup {0})
      BY <1>4, InitHive
    <2>2. {n \in DOMAIN Past : p \in Past[n]} = {k \in 1..Commits : p \in changed[k]}
      BY <1>1, <1>2
    <2>3. p + 1 \in DOMAIN hive
      BY <1>1, <1>4, <1>5
    <2> QED BY <2>1, <2>2, <2>3 DEF Content
  <1>7. FlushedTo = Commits /\ hive[1].bins = SizeAt(Commits)
    BY <1>4, <1>5 DEF FlushedTo
  <1> DEFINE first == [n \in DOMAIN Past |->
                        [number |-> n, pages |-> Past[n], bins |-> FirstSize, form |-> "valid"]]
  <1>8. files = [log \in Logs |->
                   IF log = active THEN [base |-> 1, entries |-> first]
                   ELSE [base |-> R!Unusable, entries |-> <<>>]]
        /\ active \in Logs
    BY DEF RecoveryInit, Logs
  <1>9. /\ files[active].base = 1 /\ files[active].entries = first
        /\ \A log \in Logs \ {active} : files[log].base = -1
    BY <1>8 DEF R!Unusable
  <1>10. /\ DOMAIN first = 1..Commits
         /\ \A k \in 1..Commits : first[k].number = k /\ first[k].form = "valid"
    BY <1>1, <1>2
  <1> HIDE DEF first
  <1>11. Settled
    <2>1. Place(Commits) = Commits
      BY <1>2, <1>9 DEF Place
    <2> QED BY <2>1, <1>2, <1>9, <1>10 DEF Settled
  <1>12. Durable = Commits
    BY <1>11 DEF Durable
  <1>13. ActiveRun
    <2>1. Commits - files[active].base + 1 = Commits
      BY <1>2, <1>9
    <2>2. \A k \in DOMAIN first : k \in Nat /\ k <= Commits /\ first[k].number = files[active].base + k - 1
      BY <1>2, <1>9, <1>10
    <2> QED BY <2>1, <2>2, <1>9, <1>10 DEF ActiveRun, Run
  <1>14. OtherRun
    BY <1>2, <1>7, <1>9 DEF OtherRun
  <1>15. Lacking(Commits) = {}
    BY <1>6 DEF Lacking
  <1>16. CleanIsWhole
    BY <1>7, <1>11, <1>15 DEF CleanIsWhole
  <1>17. Covered(FlushedTo, {})
    BY <1>6, <1>7 DEF Covered
  <1>18. LogsCover
    BY <1>2, <1>7 DEF LogsCover
  <1> QED BY <1>2, <1>7, <1>12, <1>13, <1>14, <1>16, <1>17, <1>18 DEF QuietDisk

\* The steps of the call leave what the files say.
LEMMA DiskStaysQuiet ==
  ASSUME QuietDisk, UNCHANGED disk
  PROVE  QuietDisk'
  <1>1. /\ Commits' = Commits /\ FlushedTo' = FlushedTo /\ Settled' = Settled
    BY DEF disk, Commits, FlushedTo, Settled, Place
  <1>2. Durable' = Durable
    BY <1>1 DEF Durable
  <1>3. Lacking(Commits)' = Lacking(Commits) /\ SizeAt(Commits)' = SizeAt(Commits)
    BY DEF disk, Lacking, SizeAt, Content, Largest, Commits
  <1>4. CleanIsWhole'
    BY <1>1, <1>3 DEF QuietDisk, CleanIsWhole, disk
  <1>5. ActiveRun' /\ OtherRun'
    BY <1>1, <1>2 DEF QuietDisk, ActiveRun, OtherRun, Run, UpTo, disk
  <1>6. ASSUME NEW m, NEW lists, Covered(m, lists) PROVE Covered(m, lists)'
    BY <1>2, <1>6 DEF disk, Covered, SizeAt, Content, Largest
  <1>7. Covered(FlushedTo, {})'
    <2>1. PICK m : m = FlushedTo
      OBVIOUS
    <2>2. Covered(m, {})' /\ m = FlushedTo'
      BY <1>1, <1>6, <2>1 DEF QuietDisk
    <2> QED BY <2>2 DEF Covered
  <1>8. LogsCover'
    <2> SUFFICES ASSUME NEW log \in Logs,
                        files[log].base \in (FlushedTo + 1)..Commits,
                        files[log].entries # <<>>,
                        files[log].entries[1].number = files[log].base
                 PROVE  Covered(files[log].base - 1, files[log].entries[1].pages)'
      BY <1>1 DEF LogsCover, disk
    <2>1. PICK m, lists : m = files[log].base - 1 /\ lists = files[log].entries[1].pages
      OBVIOUS
    <2>2. Covered(m, lists)
      BY <2>1 DEF QuietDisk, LogsCover
    <2>3. Covered(m, lists)' /\ m = files'[log].base - 1 /\ lists = files'[log].entries[1].pages
      BY <1>6, <2>1, <2>2 DEF disk
    <2> QED BY <2>3 DEF Covered
  <1> QED BY <1>1, <1>2, <1>4, <1>5, <1>7, <1>8 DEF QuietDisk

-----------------------------------------------------------------------------
(* What an undisturbed call has read.                                      *)

\* A call that works on bytes it has is not disturbed by a write, and one that has
\* read nothing yet has nothing to be disturbed.
LEMMA WriteQuietHeld ==
  ASSUME QuietHeld, AppraiserWrites
  PROVE  QuietHeld'
  <1>1. /\ UNCHANGED <<vars, held, replay>>
        /\ disturbed' = (pc \notin {"idle", "path", "plain", "violation", "raw"})
    BY DEF AppraiserWrites, GoDirty, EndEntry, FlushDone, Restart, BeginEntry, FlushPage, Write
  <1>2. InOrder'
    BY <1>1 DEF QuietHeld, InOrder, vars, call, held
  <1>3. pc' = pc
    BY <1>1 DEF vars, call
  <1>4. ~disturbed' => pc' \in {"idle", "path", "plain", "violation", "raw"}
    BY <1>1, <1>3
  <1> QED BY <1>2, <1>4 DEF QuietHeld, QuietHive, QuietLogs, Replaying

\* The steps of Replay read no file.
LEMMA ReplayStepsQuietHeld ==
  ASSUME QuietHeld, UNCHANGED <<vars, disk, held, disturbed>>
  PROVE  QuietHeld'
  BY DEF QuietHeld, InOrder, QuietHive, QuietLogs, Replaying, vars, call, disk, held

\* Which logs and files the steps that move no bytes leave.
LEMMA MovesTouch ==
  ASSUME Moves, TypeOK, RouteOK, DataOK, logs \subseteq touched
  PROVE  /\ logs' = logs
         /\ touched' = touched \/ (touched' = {Hive} /\ logs = {})
         /\ pc' = "ok" /\ ~replayed' => (pc = "ok" /\ ~replayed) \/ (pc = "acquired" /\ data = "clean")
         /\ pc' = "acquired" => pc = "acquired" /\ data' = data
         /\ pc' \in {"logs", "recheck"} \/ (pc' = "ok" /\ replayed') =>
              pc \in {"logs", "recheck"} \/ (pc = "ok" /\ replayed)
         /\ pc' \in Idlers => pc \in Idlers
  <1> USE DEF Goto, Idlers
  <1>0. pc \in {"plain", "opened"} => logs = {}
    <2>1. pc \in {"plain", "opened"} => touched \subseteq {Hive}
      BY DEF RouteOK
    <2> QED BY <2>1 DEF TypeOK, Logs, Hive
  <1>1. CASE Begin BY <1>1 DEF Begin
  <1>2. CASE FindPath BY <1>2 DEF FindPath
  <1>3. CASE PlainRefused BY <1>0, <1>3 DEF PlainRefused
  <1>4. CASE PlainFails BY <1>0, <1>4 DEF PlainFails
  <1>5. CASE CheckBeforeRaw BY <1>5 DEF CheckBeforeRaw
  <1>6. CASE RawFails BY <1>6 DEF RawFails
  <1>7. CASE Decide BY <1>7 DEF Decide
  <1>8. CASE CheckBeforeFiles BY <1>8 DEF CheckBeforeFiles
  <1>9. CASE Capture BY <1>9 DEF Capture
  <1>10. CASE Recheck BY <1>10 DEF Recheck, DataOK
  <1>11. CASE Surroundings BY <1>11 DEF Surroundings, EndContext, Appraiser, call
  <1> QED BY <1>1, <1>2, <1>3, <1>4, <1>5, <1>6, <1>7, <1>8, <1>9, <1>10, <1>11 DEF Moves

\* The steps that move no bytes keep the ones that were read.
LEMMA MovesQuietHeld ==
  ASSUME QuietHeld, IInv, Moves
  PROVE  QuietHeld'
  <1>0. InOrder /\ QuietHive /\ QuietLogs
    BY DEF QuietHeld
  <1>1. /\ logs' = logs
        /\ touched' = touched \/ (touched' = {Hive} /\ logs = {})
        /\ pc' = "ok" /\ ~replayed' => (pc = "ok" /\ ~replayed) \/ (pc = "acquired" /\ data = "clean")
        /\ pc' = "acquired" => pc = "acquired" /\ data' = data
        /\ pc' \in {"logs", "recheck"} \/ (pc' = "ok" /\ replayed') =>
             pc \in {"logs", "recheck"} \/ (pc = "ok" /\ replayed)
        /\ pc' \in Idlers => pc \in Idlers
    BY <1>0, MovesTouch DEF IInv, InOrder
  <1>2. /\ IF pc' \in {"violation", "failed"}
             THEN got' = <<>> /\ want' = 0 /\ read' = <<>> /\ disturbed' = FALSE
             ELSE UNCHANGED <<got, want, read, disturbed>>
        /\ hive' = hive /\ files' = files
    BY DEF Moves, disk
  <1>3. InOrder'
    <2>1. logs' \subseteq touched' /\ (Log2 \in touched' => Log1 \in touched')
      BY <1>0, <1>1 DEF InOrder, Log1, Log2, Hive
    <2>2. pc' \in Idlers => read' = <<>>
      BY <1>0, <1>1, <1>2 DEF InOrder
    <2> QED BY <2>1, <2>2 DEF InOrder
  <1>4. CASE pc' \in {"violation", "failed"}
    BY <1>3, <1>4 DEF QuietHeld, QuietHive, QuietLogs, Replaying
  <1>5. CASE pc' \notin {"violation", "failed"}
    <2>1. got' = got /\ want' = want /\ read' = read /\ disturbed' = disturbed
      BY <1>2, <1>5
    <2>2. /\ pc' = "opened" => pc = "opened"
          /\ pc' = "found" => pc = "found"
          /\ pc' \in {"acquired", "dirty", "logs", "recheck", "ok"} =>
               pc \in {"acquired", "dirty", "logs", "recheck", "ok"}
      BY MovesGo
    <2>3. QuietHive'
      BY <1>0, <1>1, <1>2, <2>1, <2>2 DEF QuietHive
    <2>4. QuietLogs'
      BY <1>0, <1>1, <1>2, <2>1 DEF QuietLogs, Replaying
    <2> QED BY <1>3, <2>3, <2>4 DEF QuietHeld
  <1> QED BY <1>4, <1>5

\* The hive is opened, or found, before any of it is read.
LEMMA OpenFindQuietHeld ==
  ASSUME RInv, IInv, QuietHeld, OpenHive \/ FindHive
  PROVE  QuietHeld'
  <1>1. /\ pc \in {"plain", "raw"} /\ pc' \in {"opened", "found"}
        /\ got = <<>> /\ got' = got /\ read' = read /\ hive' = hive
        /\ pc' = "found" => want' = Len(hive)
        /\ logs' = logs /\ (touched' = {Hive} \/ touched' = touched)
    BY DEF RInv, HeldPlace, OpenHive, FindHive, PlainOpens, RawFinds, Goto, held, disk
  <1>2. logs' = logs /\ logs \subseteq Logs
    BY DEF OpenHive, FindHive, PlainOpens, RawFinds, IInv, TypeOK
  <1>3. logs \subseteq touched'
    <2>1. CASE pc = "plain"
      <3>1. touched = {}
        BY <2>1 DEF IInv, RouteOK
      <3> QED BY <3>1 DEF QuietHeld, InOrder
    <2>2. CASE pc = "raw"
      <3>1. touched = {Hive}
        BY <2>2 DEF IInv, RouteOK
      <3> QED BY <3>1, <1>1 DEF QuietHeld, InOrder
    <2> QED BY <1>1, <2>1, <2>2
  <1>4. InOrder'
    BY <1>1, <1>2, <1>3 DEF QuietHeld, InOrder, Idlers, Log1, Log2, Hive
  <1>5. Len(got) = 0 /\ Len(hive) \in Nat
    BY <1>1, HeadIs DEF RInv
  <1>6. Len(got') <= Len(hive') /\ \A i \in 1..Len(got') : got'[i] = hive'[i]
    BY <1>1, <1>5
  <1>7. pc' \in {"opened", "found"} /\ (pc' = "found" => want' = Len(hive'))
    BY <1>1
  <1> QED BY <1>4, <1>6, <1>7 DEF QuietHeld, QuietHive, QuietLogs, Replaying

\* A block of the hive is read after those before it.
LEMMA ReadBlockQuietHeld ==
  ASSUME RInv, QuietHeld, ReadBlock
  PROVE  QuietHeld'
  <1>1. /\ pc \in {"opened", "found"} /\ pc' = pc /\ want' = want /\ read' = read
        /\ logs' = logs /\ touched' = touched
        /\ disturbed' = disturbed /\ hive' = hive
        /\ got' = Append(got, hive[Len(got) + 1])
        /\ ~(Len(got) >= Len(hive))
    BY DEF ReadBlock, vars, call, AtEnd, disk
  <1>2. /\ Len(got) \in Nat /\ Len(hive) \in Nat /\ Len(got) + 1 <= Len(hive)
        /\ Len(got') = Len(got) + 1
        /\ got'[Len(got) + 1] = hive[Len(got) + 1]
        /\ \A i \in 1..Len(got) : got'[i] = got[i]
    <2>1. got \in Seq(Block) /\ hive \in Seq(Block)
      BY DEF RInv, HeldOK, DiskOK, Bytes, Block
    <2> HIDE DEF Block
    <2>2. Len(got) \in Nat /\ Len(hive) \in Nat /\ Len(got) + 1 \in 1..Len(hive)
      BY <1>1, <2>1
    <2>3. hive[Len(got) + 1] \in Block
      BY <2>1, <2>2
    <2> QED BY <1>1, <2>1, <2>2, <2>3
  <1>3. InOrder'
    BY <1>1 DEF QuietHeld, InOrder
  <1>4. ~disturbed => Len(got') <= Len(hive') /\ \A i \in 1..Len(got') : got'[i] = hive'[i]
    <2>1. ~disturbed => \A i \in 1..Len(got) : got[i] = hive[i]
      BY <1>1 DEF QuietHeld, QuietHive
    <2>2. \A i \in 1..Len(got') : i \in 1..Len(got) \/ i = Len(got) + 1
      BY <1>2
    <2>3. Len(got') <= Len(hive)
      BY <1>2
    <2> QED BY <2>1, <2>2, <2>3, <1>1, <1>2
  <1>5. ~disturbed /\ pc = "found" => want' = Len(hive')
    BY <1>1 DEF QuietHeld, QuietHive
  <1> QED BY <1>1, <1>3, <1>4, <1>5 DEF QuietHeld, QuietHive, QuietLogs, Replaying

\* The last block was read: the call has the file.
LEMMA EndsQuietHeld ==
  ASSUME RInv, IInv, QuietHeld, PlainEnds \/ RawEnds
  PROVE  QuietHeld'
  <1>1. /\ pc \in {"opened", "found"} /\ pc' = "acquired"
        /\ got' = got /\ want' = want /\ read' = read /\ disturbed' = disturbed /\ hive' = hive
        /\ data' \in {State, "bad"} /\ logs' = logs /\ touched' = touched
    BY DEF PlainEnds, RawEnds, PlainReads, RawReads, Goto, held, disk
  <1>2. InOrder'
    BY <1>1 DEF QuietHeld, InOrder, Idlers
  <1>3. got \in Seq(Block) /\ hive \in Seq(Block) /\ Cap \in Nat
    BY RecoveryAssumption DEF RInv, HeldOK, DiskOK, Bytes, Block, Cap
  <1>4. ~disturbed => Len(got) = Len(hive)
    <2> HIDE DEF Block
    <2>0. Len(got) \in Nat /\ Len(hive) \in Nat
      BY <1>3
    <2>1. ~disturbed => Len(got) <= Len(hive) /\ (pc = "found" => want = Len(hive))
      BY <1>1 DEF QuietHeld, QuietHive
    <2>2. CASE PlainEnds
      <3>1. pc = "opened" /\ Len(got) <= Cap /\ (Len(got) = Cap + 1 \/ Len(got) >= Len(hive))
        BY <2>2 DEF PlainEnds, PlainReads, AtEnd, ReadLimit
      <3> QED BY <3>1, <2>0, <2>1, <1>3
    <2>3. CASE RawEnds
      <3>1. pc = "found" /\ Len(got) = want
        BY <2>3 DEF RawEnds, RawReads
      <3> QED BY <3>1, <2>0, <2>1
    <2> QED BY <2>2, <2>3
  <1>5. ~disturbed => got = hive
    <2>1. ~disturbed => \A i \in 1..Len(got) : got[i] = hive[i]
      BY <1>1 DEF QuietHeld, QuietHive
    <2> HIDE DEF Block
    <2> QED BY <2>1, <1>3, <1>4, SeqEqual
  <1>6. data' = "clean" => got[1].seq1 = got[1].seq2
    BY <1>1 DEF State
  <1> QED BY <1>1, <1>2, <1>5, <1>6 DEF QuietHeld, QuietHive, QuietLogs, Replaying

\* No log has been read when the logs are about to be.
LEMMA AllowLogsQuietHeld ==
  ASSUME IInv, QuietHeld, AllowLogs
  PROVE  QuietHeld'
  <1>1. /\ pc = "dirty" /\ pc' \in {"failed", "logs"}
        /\ got' = got /\ want' = want /\ read' = read /\ disturbed' = disturbed
        /\ hive' = hive /\ files' = files /\ logs' = logs /\ touched' = touched
    BY DEF AllowLogs, CheckBeforeLogs, Goto, held, disk
  <1>2. read = <<>>
    BY <1>1 DEF QuietHeld, InOrder, Idlers
  <1>3. logs = {}
    <2>1. touched = {Hive} /\ logs \subseteq Logs
      BY <1>1 DEF IInv, RouteOK, TypeOK
    <2> QED BY <2>1 DEF QuietHeld, InOrder, Logs, Hive
  <1>4. InOrder'
    BY <1>1 DEF QuietHeld, InOrder, Idlers
  <1>5. QuietHive'
    BY <1>1 DEF QuietHeld, QuietHive
  <1>6. QuietLogs'
    <2>1. {} # {Log1} /\ {} # Logs
      BY DEF Logs
    <2> QED BY <1>1, <1>2, <1>3, <2>1 DEF QuietLogs
  <1> QED BY <1>4, <1>5, <1>6 DEF QuietHeld

\* The logs are read in their order, the first one first.
LEMMA TakeLogQuietHeld ==
  ASSUME IInv, QuietHeld, NEW log \in Logs, TakeLog(log)
  PROVE  QuietHeld'
  <1>1. /\ pc \in {"logs", "filelogs"} /\ pc' = pc /\ data' = data /\ replayed' = replayed
        /\ got' = got /\ want' = want /\ disturbed' = disturbed
        /\ hive' = hive /\ files' = files
        /\ log \notin touched /\ (log = Log2 => Log1 \in touched)
        /\ touched' = touched \cup {log}
        /\ logs' = logs \/ logs' = logs \cup {log}
        /\ read' = IF pc = "logs" /\ logs' # logs THEN Append(read, files[log]) ELSE read
    BY DEF TakeLog, ReadLog, disk, Log1, Log2
  <1>2. InOrder
    BY DEF QuietHeld
  <1>3. InOrder'
    <2>1. logs' \subseteq touched'
      BY <1>1, <1>2 DEF InOrder
    <2>2. Log2 \in touched' => Log1 \in touched'
      BY <1>1, <1>2 DEF InOrder
    <2>3. pc' \in Idlers => read' = <<>>
      BY <1>1, <1>2 DEF InOrder, Idlers
    <2> QED BY <2>1, <2>2, <2>3 DEF InOrder
  <1>4. QuietHive'
    BY <1>1 DEF QuietHeld, QuietHive
  <1>5. QuietLogs'
    <2>1. CASE pc = "filelogs"
      BY <1>1, <2>1 DEF QuietLogs, Replaying
    <2>2. CASE pc = "logs" /\ logs' = logs
      BY <1>1, <2>2 DEF QuietHeld, QuietLogs, Replaying
    <2>3. CASE pc = "logs" /\ logs' # logs
      <3>1. logs' = logs \cup {log} /\ read' = Append(read, files[log]) /\ log \notin logs
            /\ logs \subseteq Logs
        BY <1>1, <1>2, <2>3 DEF InOrder, IInv, TypeOK
      <3>2. Logs = {Log1, Log2} /\ Log1 # Log2
        BY DEF Logs, Log1, Log2
      <3>3. CASE log = Log1
        <4>1. logs = {}
          BY <1>1, <1>2, <3>1, <3>2, <3>3 DEF InOrder
        <4>2. logs' = {Log1} /\ logs' # {} /\ logs' # Logs
          BY <3>1, <3>2, <3>3, <4>1
        <4>3. ~disturbed => read = <<>>
          BY <2>3, <4>1 DEF QuietHeld, QuietLogs, Replaying
        <4>4. ~disturbed => read' = <<files[Log1]>>
          BY <3>1, <3>3, <4>3
        <4> QED BY <1>1, <4>2, <4>4 DEF QuietLogs
      <3>4. CASE log = Log2
        <4>1. logs = {} \/ logs = {Log1}
          BY <3>1, <3>2, <3>4
        <4>2. logs' # {} /\ logs' # {Log1}
          BY <3>1, <3>2, <3>4
        <4>3. logs' = Logs => logs = {Log1}
          BY <3>1, <3>2, <3>4, <4>1
        <4>4. ~disturbed /\ logs = {Log1} => read = <<files[Log1]>>
          BY <2>3 DEF QuietHeld, QuietLogs, Replaying
        <4>5. ~disturbed /\ logs' = Logs => read' = <<files[Log1], files[Log2]>>
          <5>1. ASSUME NEW a, NEW b PROVE Append(<<a>>, b) = <<a, b>>
            <6>1. <<a>> \in Seq({a, b}) /\ b \in {a, b} /\ <<a, b>> \in Seq({a, b})
              OBVIOUS
            <6>2. Append(<<a>>, b) \in Seq({a, b}) /\ Len(Append(<<a>>, b)) = 2 /\ Len(<<a, b>>) = 2
              BY <6>1
            <6>3. Append(<<a>>, b)[1] = a /\ Append(<<a>>, b)[2] = b
              BY <6>1
            <6>4. \A i \in 1..Len(<<a, b>>) : Append(<<a>>, b)[i] = <<a, b>>[i]
              BY <6>2, <6>3
            <6> QED BY <6>1, <6>2, <6>4, SeqEqual
          <5>2. ~disturbed /\ logs' = Logs => read = <<files[Log1]>>
            BY <4>3, <4>4
          <5> QED BY <5>1, <5>2, <3>1, <3>4
        <4> QED BY <1>1, <4>2, <4>5 DEF QuietLogs
      <3> QED BY <3>2, <3>3, <3>4
    <2> QED BY <1>1, <2>1, <2>2, <2>3
  <1> QED BY <1>3, <1>4, <1>5 DEF QuietHeld

\* What was read stays with the call until it returns.
LEMMA ReplayedQuietHeld ==
  ASSUME IInv, QuietHeld, Replayed \/ ReplayGivesUp
  PROVE  QuietHeld'
  <1>1. /\ pc = "logs" /\ pc' \in {"failed", "recheck"} /\ replayed' = replayed
        /\ got' = got /\ want' = want /\ read' = read /\ disturbed' = disturbed
        /\ hive' = hive /\ files' = files /\ logs' = logs /\ touched' = touched
    BY DEF Replayed, ReplayGivesUp, Replay, ReplayFails, Goto, held, disk
  <1>2. InOrder'
    BY <1>1 DEF QuietHeld, InOrder, Idlers
  <1>3. QuietHive'
    BY <1>1 DEF QuietHeld, QuietHive
  <1>4. QuietLogs'
    BY <1>1 DEF QuietHeld, QuietLogs, Replaying
  <1> QED BY <1>2, <1>3, <1>4 DEF QuietHeld

\* The next call begins with nothing.
LEMMA ReturnQuietHeld ==
  ASSUME ReturnBytes
  PROVE  QuietHeld'
  BY DEF ReturnBytes, Return, Goto, QuietHeld, InOrder, QuietHive, QuietLogs, Replaying

-----------------------------------------------------------------------------
(* The logs, as a replay meets them.                                       *)

\* The active log: a run of complete entries up to the newest durable generation,
\* and nothing behind it that continues it.
LEMMA ActiveLog ==
  ASSUME HistoryOK, DiskOK, QuietDisk
  PROVE  LET entries == files[active].entries
             base == files[active].base
             n == Durable - base + 1 IN
         /\ active \in Logs /\ base \in Nat /\ n \in Nat /\ n <= Len(entries) /\ Durable \in Nat
         /\ entries \in Seq(LogEntry)
         /\ \A k \in 1..n : entries[k].number = base + k - 1 /\ entries[k].form = "valid"
         /\ n + 1 \in DOMAIN entries =>
              entries[n + 1].number # Durable + 1 \/ entries[n + 1].form # "valid"
  <1> DEFINE entries == files[active].entries
             base == files[active].base
             n == Durable - base + 1
             m == Commits - base + 1
  <1>1. /\ active \in Logs /\ base \in 1..(Commits + 1) /\ base \in Nat /\ m <= Len(entries)
        /\ Commits \in Nat /\ Durable \in Nat /\ Durable <= Commits
        /\ (Settled => Durable = Commits)
        /\ (~Settled => /\ Durable = Commits - 1 /\ base \in 1..Commits
                        /\ entries[Place(Commits)].form # "valid")
    BY DurableIs DEF DiskOK
  <1>2. entries \in Seq(LogEntry) /\ Len(entries) \in Nat /\ DOMAIN entries = 1..Len(entries)
    <2>1. entries \in Seq(LogEntry)
      BY <1>1, BasesAre
    <2> HIDE DEF entries
    <2> QED BY <2>1
  <1>3. /\ Run(active, m) /\ \A k \in DOMAIN entries : k <= n => entries[k].form = "valid"
    BY DEF QuietDisk, ActiveRun
  <1>4. Place(Commits) = m
    BY DEF Place
  <1>5. \A k \in DOMAIN entries :
          IF k <= m THEN entries[k].number = base + k - 1 ELSE entries[k].number < base
    BY <1>3 DEF Run
  <1> HIDE DEF entries, base
  <1>6. n \in Nat /\ m \in Nat /\ n <= m /\ (Settled => n = m) /\ (~Settled => m = n + 1)
    BY <1>1
  <1>7. base + n = Durable + 1
    BY <1>1
  <1>8. n <= Len(entries)
    BY <1>1, <1>2, <1>6
  <1> HIDE DEF n, m
  <1>9. ASSUME NEW k \in 1..n PROVE entries[k].number = base + k - 1 /\ entries[k].form = "valid"
    <2>1. k \in DOMAIN entries /\ k <= n /\ k <= m
      BY <1>2, <1>6, <1>8
    <2> QED BY <2>1, <1>3, <1>5 DEF n
  <1>10. ASSUME n + 1 \in DOMAIN entries
         PROVE  entries[n + 1].number # Durable + 1 \/ entries[n + 1].form # "valid"
    <2>1. CASE Settled
      <3>1. ~(n + 1 <= m)
        BY <2>1, <1>6
      <3>2. entries[n + 1].number < base
        BY <3>1, <1>5, <1>10
      <3>3. base <= Durable + 1
        BY <1>1, <1>6, <1>7
      <3> QED BY <3>2, <3>3, <1>1
    <2>2. CASE ~Settled
      <3>1. m = n + 1 /\ entries[m].form # "valid"
        BY <2>2, <1>1, <1>4, <1>6
      <3> QED BY <3>1
    <2> QED BY <2>1, <2>2, <1>1
  <1> QED BY <1>1, <1>2, <1>6, <1>8, <1>9, <1>10 DEF entries, base, n

\* A log that is not behind the hive, before the active one: its entries go up to
\* the active one's, or none of them is of use.
LEMMA OtherLog ==
  ASSUME HistoryOK, DiskOK, QuietDisk, NEW log \in Logs \ {active},
         files[log].base >= FlushedTo
  PROVE  LET entries == files[log].entries
             base == files[log].base
             n == files[active].base - base IN
         /\ base \in Nat /\ base <= files[active].base /\ n \in Nat
         /\ entries \in Seq(LogEntry)
         /\ \/ UpTo(log, n)
            \/ \A k \in DOMAIN entries : entries[k].number < base
         /\ UpTo(log, n) =>
              /\ n <= Len(entries)
              /\ \A k \in 1..n : entries[k].number = base + k - 1 /\ entries[k].form = "valid"
              /\ \A k \in DOMAIN entries : k > n => entries[k].number < base
  <1> DEFINE entries == files[log].entries
             base == files[log].base
             n == files[active].base - base
  <1>1. /\ base \in Int /\ entries \in Seq(LogEntry) /\ FlushedTo \in Nat
        /\ files[active].base \in Nat
    BY BasesAre, DurableIs
  <1>2. base <= files[active].base /\ (Run(log, 0) \/ UpTo(log, n))
    BY DEF QuietDisk, OtherRun
  <1>3. Len(entries) \in Nat /\ DOMAIN entries = 1..Len(entries)
    <2> HIDE DEF entries
    <2> QED BY <1>1
  <1>4. base \in Nat /\ n \in Nat
    BY <1>1, <1>2
  <1>5. Run(log, 0) => \A k \in DOMAIN entries : entries[k].number < base
    <2>1. \A k \in DOMAIN entries : ~(k <= 0)
      BY <1>3
    <2> QED BY <2>1 DEF Run
  <1>6. ASSUME UpTo(log, n)
        PROVE  /\ n <= Len(entries)
               /\ \A k \in 1..n : entries[k].number = base + k - 1 /\ entries[k].form = "valid"
               /\ \A k \in DOMAIN entries : k > n => entries[k].number < base
    <2>1. n <= Len(entries) /\ Run(log, n) /\ \A k \in 1..n : entries[k].form = "valid"
      BY <1>6 DEF UpTo
    <2>2. \A k \in DOMAIN entries :
            IF k <= n THEN entries[k].number = base + k - 1 ELSE entries[k].number < base
      BY <2>1 DEF Run
    <2> HIDE DEF n, entries, base
    <2>3. \A k \in 1..n : k \in DOMAIN entries /\ k <= n
      BY <1>3, <1>4, <2>1
    <2>4. \A k \in DOMAIN entries : k > n => ~(k <= n)
      BY <1>3, <1>4
    <2> QED BY <2>1, <2>2, <2>3, <2>4
  <1> QED BY <1>1, <1>2, <1>4, <1>5, <1>6

\* What an undisturbed call replays is what is on disk.
LEMMA LogsAre ==
  ASSUME RInv, QuietHeld, AllRead
  PROVE  /\ got = hive /\ BaseSeq2 = FlushedTo
         /\ DOMAIN read = {1, 2}
         /\ \A i \in {1, 2} : read[i] = files[LogAt(i)] /\ LogAt(i) \in Logs
         /\ \A log \in Logs : \E i \in {1, 2} : LogAt(i) = log
         /\ \A i, k \in {1, 2} : LogAt(i) = LogAt(k) => i = k
  <1>1. got = hive /\ read = <<files[Log1], files[Log2]>>
    BY DEF AllRead, Replaying, QuietHeld, QuietHive, QuietLogs
  <1>2. BaseSeq2 = FlushedTo
    BY <1>1 DEF RInv, DiskOK, BaseSeq2, FlushedTo
  <1>3. DOMAIN read = {1, 2} /\ \A i \in {1, 2} : read[i] = files[LogAt(i)]
    <2>1. DOMAIN read = 1..2 /\ read[1] = files[Log1] /\ read[2] = files[Log2]
      BY <1>1
    <2> QED BY <2>1 DEF LogAt
  <1>4. /\ \A i \in {1, 2} : LogAt(i) \in Logs
        /\ \A log \in Logs : \E i \in {1, 2} : LogAt(i) = log
        /\ \A i, k \in {1, 2} : LogAt(i) = LogAt(k) => i = k
    BY DEF LogAt, Log1, Log2, Logs
  <1> QED BY <1>1, <1>2, <1>3, <1>4

\* The files stay as they are while a replay works.
LEMMA ReplayFrame ==
  ASSUME UNCHANGED <<vars, disk, held, disturbed>>
  PROVE  /\ AllRead' = AllRead /\ pc' = pc /\ touched' = touched
         /\ files' = files /\ active' = active
         /\ FlushedTo' = FlushedTo /\ Durable' = Durable /\ Commits' = Commits
         /\ \A log, n : UpTo(log, n)' <=> UpTo(log, n)
  <1>1. files' = files /\ active' = active /\ changed' = changed /\ hive' = hive
        /\ pc' = pc /\ touched' = touched /\ logs' = logs /\ replayed' = replayed
        /\ disturbed' = disturbed
    BY DEF vars, call, disk
  <1>2. Commits' = Commits /\ FlushedTo' = FlushedTo /\ Settled' = Settled
    BY <1>1 DEF Commits, FlushedTo, Settled, Place
  <1> QED BY <1>1, <1>2 DEF AllRead, Replaying, Durable, UpTo, Run

-----------------------------------------------------------------------------
(* The steps of Replay.                                                    *)

\* What a replay of undisturbed bytes is told of the place it is at.
LEMMA Tracing ==
  ASSUME RInv, QInv, Replays, AllRead
  PROVE  /\ HistoryOK /\ DiskOK /\ QuietDisk /\ RP!TypeOK /\ RP!ChainOK
         /\ phase \notin {"gate", "failed"} => Chained
         /\ expected \in Int /\ opened \subseteq DOMAIN ready
         /\ body \in Seq(RP!Entry) /\ applied \in Seq(RP!Entry)
         /\ files[active].base \in Int /\ FlushedTo \in Int /\ Durable \in Int
         /\ \A log \in Logs : files[log].base \in Int
         /\ files[active].base <= Durable + 1
         /\ active \in Logs
  <1>1. HistoryOK /\ DiskOK /\ QuietDisk /\ RP!TypeOK /\ RP!ChainOK /\ Trace
    BY DEF RInv, QInv, ReplayState, RP!IInv
  <1>2. /\ expected \in Int /\ opened \subseteq DOMAIN ready
        /\ body \in Seq(RP!Entry) /\ applied \in Seq(RP!Entry)
    <2>1. MaxCommits + 3 \in Int
      BY RecoveryAssumption
    <2> QED BY <1>1, <2>1 DEF RP!TypeOK
  <1>3. /\ files[active].base \in Int /\ FlushedTo \in Int /\ Durable \in Int
        /\ active \in Logs /\ Durable - files[active].base + 1 \in Nat
    BY <1>1, DurableIs, ActiveLog
  <1>4. \A log \in Logs : files[log].base \in Int
    BY <1>1, BasesAre
  <1>5. files[active].base <= Durable + 1
    BY <1>3
  <1> QED BY <1>1, <1>2, <1>3, <1>4, <1>5 DEF Trace

\* The gate lets through the logs that are not behind the hive.
LEMMA GateTrace ==
  ASSUME RInv, QInv, GateLogs
  PROVE  AllRead => Chained'
  <1> SUFFICES ASSUME AllRead PROVE Chained'
    OBVIOUS
  <1>0. Replays /\ UNCHANGED <<vars, disk, held, disturbed>> /\ phase = "gate"
    BY DEF GateLogs, Replays
  <1>1. /\ opened = {} /\ applied = <<>>
    BY <1>0, Tracing DEF RP!ChainOK
  <1>2. RP!Gate
    BY ReplayStepIs DEF GateLogs
  <1>3. phase' = "open" /\ opened' = {} /\ applied' = <<>>
    BY <1>1, <1>2 DEF RP!Gate
  <1>4. files' = files /\ active' = active /\ FlushedTo' = FlushedTo
    BY <1>0, ReplayFrame
  <1>5. DOMAIN read = {1, 2} /\ \A i \in {1, 2} : read[i] = files[LogAt(i)] /\ LogAt(i) \in Logs
    BY LogsAre DEF QInv
  <1>6. BaseSeq2 = FlushedTo
    BY LogsAre DEF QInv
  <1>7. FlushedTo \in Nat
    BY <1>0, Tracing, DurableIs
  <1>8. \A i \in {1, 2} : files[LogAt(i)].base \in Int
    BY <1>0, <1>5, Tracing
  <1>9. \A i \in {1, 2} : (read[i].base # R!Unusable /\ read[i].base >= BaseSeq2)
                           <=> files[LogAt(i)].base >= FlushedTo
    BY <1>5, <1>6, <1>7, <1>8 DEF R!Unusable
  <1>10. /\ DOMAIN ready' = {i \in {1, 2} : files[LogAt(i)].base >= FlushedTo}
         /\ \A i \in DOMAIN ready' : ready'[i] = files[LogAt(i)].base
    BY <1>5, <1>9 DEF GateLogs
  <1>11. Reached' = {}
    BY <1>3 DEF Reached
  <1>12. ReadyOK'
    BY <1>4, <1>10, <1>11 DEF ReadyOK
  <1>13. NoGap'
    <2>1. Len(<<>>) = 0
      OBVIOUS
    <2> QED BY <1>3, <2>1 DEF NoGap
  <1>14. Between'
    BY <1>3, <1>11 DEF Between
  <1> QED BY <1>3, <1>12, <1>13, <1>14 DEF Chained

\* The next log continues the chain or begins it.
LEMMA OpenTrace ==
  ASSUME RInv, QInv, NEW i \in DOMAIN ready, OpenReadyLog(i)
  PROVE  AllRead => Chained'
  <1> SUFFICES ASSUME AllRead PROVE Chained'
    OBVIOUS
  <1> DEFINE log == LogAt(i)
             b == files[log].base
             B == files[active].base
  <1>0. Replays /\ UNCHANGED <<vars, disk, held, disturbed>> /\ phase = "open"
    BY DEF OpenReadyLog, Replays, R!OpenLog
  <1>1. RP!OpenLog(i) /\ body' = read[i].entries
    BY ReplayStepIs DEF OpenReadyLog
  <1>2. /\ i \in DOMAIN ready \ opened /\ \A j \in DOMAIN ready \ opened : ready[i] <= ready[j]
        /\ expected' = IF opened = {} \/ ready[i] > expected THEN ready[i] ELSE expected
        /\ opened' = opened \cup {i} /\ phase' = "entries"
        /\ ready' = ready /\ applied' = applied
    BY <1>1 DEF RP!OpenLog, RP!NextLog
  <1>3. files' = files /\ active' = active /\ FlushedTo' = FlushedTo /\ Durable' = Durable
    BY <1>0, ReplayFrame
  <1>4. ReadyOK /\ NoGap /\ Between
    BY <1>0, Tracing DEF Chained
  <1>5. /\ expected \in Int /\ opened \subseteq DOMAIN ready /\ B \in Int /\ FlushedTo \in Int
        /\ Durable \in Int /\ B <= Durable + 1 /\ active \in Logs
        /\ (opened = {} => applied = <<>>)
    BY <1>0, Tracing DEF RP!ChainOK
  <1>6. DOMAIN ready \subseteq {1, 2} /\ ready[i] = b /\ b >= FlushedTo
        /\ \A j \in DOMAIN ready : ready[j] = files[LogAt(j)].base
    BY <1>4 DEF ReadyOK
  <1>7. /\ log \in Logs /\ b \in Int /\ body' = files[log].entries
        /\ \A j \in {1, 2} : LogAt(j) \in Logs /\ (LogAt(j) = log => j = i)
        /\ \A j \in {1, 2} : files[LogAt(j)].base \in Int
    <2>1. /\ \A j \in {1, 2} : read[j] = files[LogAt(j)] /\ LogAt(j) \in Logs
          /\ \A j, k \in {1, 2} : LogAt(j) = LogAt(k) => j = k
      BY LogsAre DEF QInv
    <2> QED BY <2>1, <1>0, <1>1, <1>6, Tracing
  <1>8. log \notin Reached /\ Reached' = Reached \cup {log}
    <2>1. log \notin Reached
      BY <1>2, <1>5, <1>6, <1>7 DEF Reached
    <2> QED BY <2>1, <1>2 DEF Reached
  <1>9. log # active => b <= B
    BY <1>0, <1>7, Tracing DEF QuietDisk, OtherRun
  <1>10. After(log, 0)'
    <2>1. body' \in Seq(LogEntry)
      BY <1>0, <1>7, Tracing, BasesAre
    <2>2. Len(body') \in Nat
      BY <2>1
    <2>3. \A k \in 1..Len(body') : k + 0 = k
      BY <2>2
    <2>4. Len(body') - 0 = Len(body')
      BY <2>2
    <2>5. files'[log].entries = body'
      BY <1>3, <1>7
    <2>6. 0 \in 0..Len(body')
      BY <2>2
    <2> HIDE DEF log
    <2> QED BY <2>3, <2>4, <2>5, <2>6 DEF After
  <1>11. ReadyOK'
    <2>1. active \in Reached' => \A j \in DOMAIN ready \ opened' : ready[j] >= B
      <3>1. CASE active \in Reached
        BY <3>1, <1>2, <1>4 DEF ReadyOK
      <3>2. CASE log = active
        <4> SUFFICES ASSUME NEW j \in DOMAIN ready \ opened' PROVE ready[j] >= B
          OBVIOUS
        <4>1. ready[i] <= ready[j] /\ ready[i] = B
          BY <3>2, <1>2, <1>6
        <4>2. ready[j] \in Int
          BY <1>6, <1>7
        <4> QED BY <4>1, <4>2, <1>5
      <3> QED BY <3>1, <3>2, <1>8
    <2> QED BY <2>1, <1>2, <1>3, <1>4 DEF ReadyOK
  <1> HIDE DEF log, b, B
  <1>12. active \in Reached => opened # {} /\ expected = Durable + 1
    BY <1>4 DEF Between, Reached
  <1>13. active \notin Reached /\ opened # {} => expected <= B /\ (applied # <<>> => expected = B)
    BY <1>4 DEF Between, B
  <1>14. log # active /\ active \notin Reached => opened = {}
    <2> SUFFICES ASSUME log # active, active \notin Reached, opened # {} PROVE FALSE
      OBVIOUS
    <2>1. PICK j \in opened : TRUE
      OBVIOUS
    <2>2. j \in {1, 2} /\ LogAt(j) \in Reached
      BY <2>1, <1>5, <1>6 DEF Reached
    <2>3. LogAt(j) \in Logs /\ LogAt(j) # log /\ LogAt(j) # active
      BY <2>2, <1>7, <1>8
    <2> QED BY <2>3, <1>5, <1>7 DEF Logs
  <1>15. applied # <<>> => expected' = expected
    BY <1>2, <1>5, <1>6, <1>7, <1>8, <1>9, <1>12, <1>13 DEF b, B
  <1>16. NoGap'
    BY <1>2, <1>3, <1>4, <1>15 DEF NoGap
  <1>17. InLogs'
    <2>1. CASE log = active
      <3>1. expected' = B
        BY <2>1, <1>2, <1>5, <1>6, <1>8, <1>13 DEF b, B
      <3>2. InActive(0)'
        <4>1. active' \in Reached' /\ After(active, 0)'
          BY <2>1, <1>3, <1>8, <1>10 DEF After
        <4>2. 0 <= Durable' - files'[active'].base + 1
          BY <1>3, <1>5 DEF B
        <4>3. expected' = files'[active'].base + 0
          BY <3>1, <1>3, <1>5 DEF B
        <4> QED BY <4>1, <4>2, <4>3 DEF InActive
      <3> QED BY <3>2 DEF InLogs
    <2>2. CASE log # active /\ active \in Reached
      <3>1. b = B
        <4>1. ready[i] >= B
          BY <2>2, <1>2, <1>4 DEF ReadyOK, B
        <4> QED BY <4>1, <2>2, <1>5, <1>6, <1>7, <1>9
      <3>2. expected' = Durable + 1
        BY <3>1, <2>2, <1>2, <1>5, <1>6, <1>12
      <3>3. InLast(log)'
        <4>1. active' \in Reached' /\ files'[log].base = files'[active'].base
              /\ files'[log].base >= FlushedTo' /\ expected' = Durable' + 1
          BY <3>1, <3>2, <2>2, <1>3, <1>6, <1>8 DEF b, B
        <4> QED BY <4>1, <1>10 DEF InLast
      <3>4. log \in Logs \ {active'}
        BY <2>2, <1>3, <1>7
      <3> QED BY <3>3, <3>4 DEF InLogs
    <2>3. CASE log # active /\ active \notin Reached
      <3>1. opened = {} /\ applied' = <<>> /\ expected' = b
        BY <2>3, <1>2, <1>5, <1>6, <1>14
      <3>2. InOther(log, 0)'
        <4>1. active' \notin Reached' /\ log \in Reached'
          BY <2>3, <1>3, <1>8
        <4>2. files'[log].base >= FlushedTo' /\ expected' = files'[log].base + 0
          BY <3>1, <1>3, <1>6, <1>7 DEF b
        <4> QED BY <3>1, <4>1, <4>2, <1>10 DEF InOther
      <3>3. log \in Logs \ {active'}
        BY <2>3, <1>3, <1>7
      <3> QED BY <3>2, <3>3 DEF InLogs
    <2> QED BY <2>1, <2>2, <2>3
  <1> QED BY <1>2, <1>11, <1>16, <1>17 DEF Chained

\* The entries of a chain that goes on for one more.
LEMMA NoGapAppend ==
  ASSUME NoGap, NEW e, applied' = Append(applied, e), applied \in Seq(RP!Entry), e \in RP!Entry,
         e.number = expected, expected' = e.number + 1,
         UNCHANGED <<files, FlushedTo>>,
         applied = <<>> => \E log \in Logs : /\ files[log].base >= FlushedTo
                                             /\ files[log].entries # <<>>
                                             /\ e = files[log].entries[1]
                                             /\ e.number = files[log].base
  PROVE  NoGap'
  <1> DEFINE n == Len(applied)
  <1>1. /\ n \in Nat /\ Len(applied') = n + 1 /\ applied' # <<>>
        /\ applied'[n + 1] = e /\ \A k \in 1..n : applied'[k] = applied[k]
    OBVIOUS
  <1>2. n = 0 <=> applied = <<>>
    OBVIOUS
  <1> HIDE DEF n
  <1>3. ASSUME NEW k \in 2..(n + 1) PROVE applied'[k].number = applied'[k - 1].number + 1
    <2>1. CASE k = n + 1
      <3>1. k - 1 = n /\ n \in 1..n /\ applied # <<>>
        BY <2>1, <1>1, <1>2
      <3>2. expected = applied[n].number + 1
        BY <3>1 DEF NoGap, n
      <3> QED BY <2>1, <3>1, <3>2, <1>1
    <2>2. CASE k # n + 1
      <3>1. k \in 2..n /\ k \in 1..n /\ k - 1 \in 1..n
        BY <2>2, <1>1
      <3>2. applied[k].number = applied[k - 1].number + 1
        BY <3>1 DEF NoGap, n
      <3> QED BY <3>1, <3>2, <1>1
    <2> QED BY <2>1, <2>2
  <1>4. expected' = applied'[Len(applied')].number + 1
    BY <1>1
  <1>5. \E log \in Logs : /\ files[log].base >= FlushedTo
                          /\ files[log].entries # <<>>
                          /\ applied'[1] = files[log].entries[1]
                          /\ applied'[1].number = files[log].base
    <2>1. CASE applied = <<>>
      BY <2>1, <1>1, <1>2
    <2>2. CASE applied # <<>>
      <3>1. applied'[1] = applied[1]
        BY <2>2, <1>1, <1>2
      <3> QED BY <2>2, <3>1 DEF NoGap
    <2> QED BY <2>1, <2>2
  <1> QED BY <1>1, <1>3, <1>4, <1>5 DEF NoGap

\* The entries left once the next one is applied.
LEMMA AfterOne ==
  ASSUME NEW log, NEW j, After(log, j), body # <<>>, body \in Seq(RP!Entry),
         files[log].entries \in Seq(LogEntry), body' = Tail(body), UNCHANGED files
  PROVE  /\ j \in Nat /\ j + 1 \in 1..Len(files[log].entries)
         /\ Head(body) = files[log].entries[j + 1]
         /\ After(log, j + 1)'
  <1> DEFINE entries == files[log].entries
             n == Len(entries)
             m == Len(body)
  <1>1. n \in Nat /\ m \in Nat /\ m # 0 /\ Head(body) = body[1]
        /\ Len(Tail(body)) = m - 1 /\ \A k \in 1..(m - 1) : Tail(body)[k] = body[k + 1]
    OBVIOUS
  <1>2. j \in 0..n /\ m = n - j /\ \A k \in 1..m : body[k] = entries[k + j]
    BY DEF After
  <1> HIDE DEF entries, n, m
  <1>3. j \in Nat /\ j + 1 \in 1..n /\ 1 \in 1..m /\ 1 + j = j + 1
    BY <1>1, <1>2
  <1>4. Head(body) = entries[j + 1]
    BY <1>1, <1>2, <1>3
  <1>5. ASSUME NEW k \in 1..(m - 1) PROVE Tail(body)[k] = entries[k + (j + 1)]
    <2>1. k + 1 \in 1..m /\ (k + 1) + j = k + (j + 1)
      BY <1>1, <1>3
    <2> QED BY <2>1, <1>1, <1>2
  <1>6. j + 1 \in 0..n /\ m - 1 = n - (j + 1)
    BY <1>1, <1>2, <1>3
  <1>7. After(log, j + 1)'
    <2>1. files'[log].entries = entries /\ Len(entries) = n /\ Len(body') = m - 1
      BY <1>1 DEF entries, n
    <2> QED BY <2>1, <1>5, <1>6 DEF After
  <1> QED BY <1>3, <1>4, <1>7 DEF n, entries

\* An entry that is applied is the next one of the active log, or of the one before it.
LEMMA ApplyTrace ==
  ASSUME RInv, QInv, Replays, R!ApplyEntry
  PROVE  AllRead => Chained'
  <1> SUFFICES ASSUME AllRead PROVE Chained'
    OBVIOUS
  <1> DEFINE e == Head(body)
             B == files[active].base
             D == Durable
  <1>0. UNCHANGED <<vars, disk, held, disturbed>>
    BY DEF Replays
  <1>1. RP!ApplyEntry
    BY ReplayStepIs
  <1>2. /\ phase = "entries" /\ phase' = "entries" /\ body # <<>> /\ body' = Tail(body)
        /\ e.number = expected /\ e.form = "valid"
        /\ applied' = Append(applied, e) /\ expected' = (expected + 1) % (MaxCommits + 3)
        /\ ready' = ready /\ opened' = opened
    BY <1>1 DEF RP!ApplyEntry, RP!Continues
  <1>3. /\ files' = files /\ active' = active /\ FlushedTo' = FlushedTo /\ Durable' = Durable
        /\ \A log, n : UpTo(log, n)' <=> UpTo(log, n)
    BY <1>0, ReplayFrame
  <1>4. ReadyOK /\ NoGap /\ InLogs
    BY <1>2, Tracing DEF Chained
  <1>5. /\ HistoryOK /\ DiskOK /\ QuietDisk /\ expected \in Int
        /\ body \in Seq(RP!Entry) /\ applied \in Seq(RP!Entry)
        /\ B \in Int /\ D \in Int /\ B <= D + 1 /\ FlushedTo \in Int /\ active \in Logs
        /\ \A log \in Logs : files[log].base \in Int
        /\ opened \subseteq DOMAIN ready
    BY Tracing
  <1>6. e \in RP!Entry /\ e.number \in Numbers
    <2>1. e \in RP!Entry
      BY <1>2, <1>5
    <2> QED BY <2>1 DEF RP!Entry
  <1>7. expected' = expected + 1
    <2>1. (e.number + 1) % (MaxCommits + 3) = e.number + 1
      BY <1>6, RP!NoWrap, ReplayAssumptionHolds
    <2> QED BY <2>1, <1>2
  <1>8. applied' # <<>>
    BY <1>2, <1>5, <1>6
  <1>9. Reached' = Reached /\ \A log \in Logs : files[log].entries \in Seq(LogEntry)
    BY <1>2, <1>5, BasesAre DEF Reached
  <1>10. ReadyOK'
    BY <1>2, <1>3, <1>4, <1>9 DEF ReadyOK
  <1> HIDE DEF e, B, D
  <1>11. ASSUME NEW j \in Nat, InActive(j)
         PROVE  InActive(j + 1)' /\ (applied = <<>> => \E log \in Logs :
                    /\ files[log].base >= FlushedTo /\ files[log].entries # <<>>
                    /\ e = files[log].entries[1] /\ e.number = files[log].base)
    <2> DEFINE entries == files[active].entries
               n == D - B + 1
    <2>1. /\ active \in Reached /\ After(active, j) /\ j <= n /\ expected = B + j
          /\ (applied = <<>> => j = 0)
      BY <1>11 DEF InActive, B, D
    <2>2. /\ n \in Nat /\ n <= Len(entries) /\ Len(entries) \in Nat
          /\ DOMAIN entries = 1..Len(entries)
          /\ n + 1 \in DOMAIN entries => entries[n + 1].number # D + 1 \/ entries[n + 1].form # "valid"
      <3>1. n \in Nat /\ n <= Len(entries) /\ entries \in Seq(LogEntry)
            /\ (n + 1 \in DOMAIN entries => entries[n + 1].number # D + 1 \/ entries[n + 1].form # "valid")
        BY <1>5, ActiveLog DEF B, D
      <3> HIDE DEF entries, n
      <3> QED BY <3>1
    <2>3. /\ j + 1 \in 1..Len(entries) /\ e = entries[j + 1] /\ After(active, j + 1)'
      BY <2>1, <1>2, <1>3, <1>5, <1>9, AfterOne DEF e
    <2> HIDE DEF entries, n
    <2>4. j # n
      <3> SUFFICES ASSUME j = n PROVE FALSE
        OBVIOUS
      <3>1. B + n = D + 1
        BY <1>5 DEF n
      <3> QED BY <3>1, <2>1, <2>2, <2>3, <1>2 DEF e
    <2>5. j + 1 <= n
      BY <2>1, <2>2, <2>4
    <2>6. expected' = B + (j + 1)
      BY <2>1, <1>5, <1>7
    <2>7. After(active, j + 1)' /\ active' = active
      BY <2>3, <1>3
    <2>8. InActive(j + 1)'
      <3>1. active' \in Reached' /\ j + 1 <= Durable' - files'[active'].base + 1
            /\ expected' = files'[active'].base + (j + 1)
        BY <2>1, <2>5, <2>6, <1>3, <1>9 DEF B, D, n
      <3>2. After(active, j + 1)'
        BY <2>7
      <3> QED BY <3>1, <3>2, <1>8 DEF InActive
    <2>9. ASSUME applied = <<>>
          PROVE  /\ files[active].base >= FlushedTo /\ entries # <<>>
                 /\ e = entries[1] /\ e.number = files[active].base
      <3>1. j = 0 /\ j + 1 = 1
        BY <2>9, <2>1
      <3>2. e = entries[1] /\ 1 \in 1..Len(entries)
        BY <3>1, <2>3
      <3>3. e.number = B
        BY <3>1, <2>1, <1>2, <1>5 DEF e
      <3>4. files[active].base >= FlushedTo
        <4>1. PICK i \in opened : active = LogAt(i)
          BY <2>1 DEF Reached
        <4> QED BY <4>1, <1>4, <1>5 DEF ReadyOK
      <3>5. entries # <<>>
        BY <3>2
      <3> QED BY <3>2, <3>3, <3>4, <3>5 DEF B
    <2> QED BY <2>8, <2>9, <1>5 DEF entries
  <1>12. ASSUME NEW log \in Logs \ {active}, InLast(log) PROVE FALSE
    <2> DEFINE entries == files[log].entries
               n == files[active].base - files[log].base
    <2>1. /\ After(log, 0) /\ files[log].base = B /\ files[log].base >= FlushedTo
          /\ expected = D + 1
      BY <1>12 DEF InLast, B, D
    <2>2. e = entries[0 + 1] /\ 0 + 1 \in 1..Len(entries)
      BY <2>1, <1>2, <1>3, <1>5, <1>9, AfterOne DEF e
    <2>3. /\ UpTo(log, n) \/ \A k \in DOMAIN entries : entries[k].number < files[log].base
          /\ UpTo(log, n) => \A k \in DOMAIN entries : k > n => entries[k].number < files[log].base
      BY <2>1, <1>5, OtherLog
    <2>4. n = 0 /\ 1 \in DOMAIN entries
      BY <2>1, <2>2, <1>5 DEF B
    <2>5. entries[1].number < B
      BY <2>1, <2>3, <2>4
    <2>6. entries[1].number = D + 1
      BY <2>1, <2>2, <1>2 DEF e
    <2> QED BY <2>5, <2>6, <1>5
  <1>13. ASSUME NEW log \in Logs \ {active}, NEW j \in Nat, InOther(log, j)
         PROVE  InOther(log, j + 1)' /\ (applied = <<>> =>
                    /\ files[log].base >= FlushedTo /\ files[log].entries # <<>>
                    /\ e = files[log].entries[1] /\ e.number = files[log].base)
    <2> DEFINE entries == files[log].entries
               b == files[log].base
               n == files[active].base - b
    <2>1. /\ active \notin Reached /\ log \in Reached /\ b >= FlushedTo
          /\ After(log, j) /\ expected = b + j
          /\ j # 0 => applied # <<>> /\ j <= n /\ UpTo(log, n)
      BY <1>13 DEF InOther
    <2>2. /\ b \in Int /\ n \in Nat
          /\ UpTo(log, n) \/ \A k \in DOMAIN entries : entries[k].number < b
          /\ UpTo(log, n) => \A k \in DOMAIN entries : k > n => entries[k].number < b
      BY <2>1, <1>5, OtherLog
    <2>3. /\ j + 1 \in 1..Len(entries) /\ e = entries[j + 1] /\ After(log, j + 1)'
      BY <2>1, <1>2, <1>3, <1>5, <1>9, AfterOne DEF e
    <2>4. 1..Len(entries) = DOMAIN entries
      <3>1. entries \in Seq(LogEntry)
        BY <1>9
      <3> HIDE DEF entries
      <3> QED BY <3>1
    <2>5. entries[j + 1].number = b + j
      BY <2>1, <2>3, <1>2 DEF e
    <2> HIDE DEF entries, n, b
    <2>6. ~(entries[j + 1].number < b)
      BY <2>2, <2>5
    <2>7. UpTo(log, n) /\ ~(j + 1 > n)
      BY <2>2, <2>3, <2>4, <2>6
    <2>8. j + 1 <= n /\ expected' = b + (j + 1) /\ j + 1 # 0
      BY <2>1, <2>2, <2>7, <1>7
    <2>9. InOther(log, j + 1)'
      <3>1. active' \notin Reached' /\ log \in Reached' /\ files'[log].base >= FlushedTo'
            /\ expected' = files'[log].base + (j + 1)
        BY <2>1, <2>8, <1>3, <1>9 DEF b
      <3>2. files'[active'].base - files'[log].base = n
        BY <1>3 DEF n, b
      <3>a. PICK m : m = n
        OBVIOUS
      <3>3. UpTo(log, m)' /\ m = files'[active'].base - files'[log].base
        BY <3>a, <3>2, <2>7, <1>3
      <3>4. UpTo(log, files[active].base - files[log].base)'
        BY <3>3 DEF UpTo
      <3> QED BY <3>1, <3>2, <3>4, <2>3, <2>8, <1>8 DEF InOther
    <2>10. applied = <<>> => e = entries[1] /\ entries # <<>> /\ e.number = b
      <3> SUFFICES ASSUME applied = <<>> PROVE e = entries[1] /\ entries # <<>> /\ e.number = b
        OBVIOUS
      <3>1. j = 0
        BY <2>1
      <3>2. e = entries[1] /\ 1 \in 1..Len(entries) /\ e.number = b
        BY <3>1, <2>2, <2>3, <2>5
      <3> QED BY <3>2
    <2> QED BY <2>1, <2>9, <2>10 DEF entries, b
  <1>14. InLogs' /\ (applied = <<>> => \E log \in Logs :
                    /\ files[log].base >= FlushedTo /\ files[log].entries # <<>>
                    /\ e = files[log].entries[1] /\ e.number = files[log].base)
    <2>1. CASE \E j \in Nat : InActive(j)
      <3>1. PICK j \in Nat : InActive(j)
        BY <2>1
      <3>2. InActive(j + 1)' /\ j + 1 \in Nat
        BY <3>1, <1>11
      <3>3. InLogs'
        BY <3>2 DEF InLogs
      <3> QED BY <3>1, <3>3, <1>11
    <2>2. CASE \E log \in Logs \ {active} : \E j \in Nat : InOther(log, j)
      <3>1. PICK log \in Logs \ {active}, j \in Nat : InOther(log, j)
        BY <2>2
      <3>2. InOther(log, j + 1)' /\ j + 1 \in Nat /\ log \in Logs \ {active'}
        BY <3>1, <1>3, <1>13
      <3>3. InLogs'
        BY <3>2 DEF InLogs
      <3> QED BY <3>1, <3>3, <1>13
    <2> QED BY <2>1, <2>2, <1>4, <1>12 DEF InLogs
  <1>15. NoGap'
    BY <1>2, <1>3, <1>4, <1>5, <1>6, <1>7, <1>14, NoGapAppend DEF e
  <1> QED BY <1>2, <1>10, <1>14, <1>15 DEF Chained

\* The entry at the front of a log of which j entries have been applied.
LEMMA FrontAfter ==
  ASSUME NEW log, NEW j, After(log, j), files[log].entries \in Seq(LogEntry),
         body \in Seq(RP!Entry), j + 1 \in 1..Len(files[log].entries)
  PROVE  body # <<>> /\ Head(body) = files[log].entries[j + 1]
  <1> DEFINE entries == files[log].entries
             n == Len(entries)
             m == Len(body)
  <1>1. n \in Nat /\ m \in Nat /\ (m # 0 => body # <<>> /\ Head(body) = body[1])
    OBVIOUS
  <1>2. j \in 0..n /\ m = n - j /\ \A k \in 1..m : body[k] = entries[k + j]
    BY DEF After
  <1>3. j + 1 \in 1..n
    OBVIOUS
  <1> HIDE DEF entries, n, m
  <1>4. 1 \in 1..m /\ 1 + j = j + 1
    BY <1>1, <1>2, <1>3
  <1>5. body[1] = entries[j + 1]
    BY <1>2, <1>4
  <1> QED BY <1>1, <1>4, <1>5 DEF entries

\* A log is left where its run of complete entries ends.
LEMMA LeaveTrace ==
  ASSUME RInv, QInv, Replays, R!LeaveLog
  PROVE  AllRead => Chained'
  <1> SUFFICES ASSUME AllRead PROVE Chained'
    OBVIOUS
  <1> DEFINE B == files[active].base
             D == Durable
  <1>0. UNCHANGED <<vars, disk, held, disturbed>>
    BY DEF Replays
  <1>1. RP!LeaveLog
    BY ReplayStepIs
  <1>2. /\ phase = "entries" /\ phase' = "open"
        /\ ~(body # <<>> /\ Head(body).number = expected /\ Head(body).form = "valid")
        /\ ready' = ready /\ opened' = opened /\ applied' = applied /\ expected' = expected
    BY <1>1 DEF RP!LeaveLog, RP!Continues
  <1>3. files' = files /\ active' = active /\ FlushedTo' = FlushedTo /\ Durable' = Durable
    BY <1>0, ReplayFrame
  <1>4. ReadyOK /\ NoGap /\ InLogs
    BY <1>2, Tracing DEF Chained
  <1>5. /\ HistoryOK /\ DiskOK /\ QuietDisk /\ expected \in Int
        /\ body \in Seq(RP!Entry) /\ applied \in Seq(RP!Entry)
        /\ B \in Int /\ D \in Int /\ B <= D + 1 /\ FlushedTo \in Int /\ active \in Logs
        /\ \A log \in Logs : files[log].base \in Int
    BY Tracing
  <1>6. Reached' = Reached /\ \A log \in Logs : files[log].entries \in Seq(LogEntry)
    BY <1>2, <1>5, BasesAre DEF Reached
  <1>7. ReadyOK'
    BY <1>2, <1>3, <1>4, <1>6 DEF ReadyOK
  <1>8. NoGap'
    BY <1>2, <1>3, <1>4 DEF NoGap
  <1> HIDE DEF B, D
  <1>11. ASSUME NEW j \in Nat, InActive(j) PROVE active \in Reached /\ expected = D + 1
    <2> DEFINE entries == files[active].entries
               n == D - B + 1
    <2>1. /\ active \in Reached /\ After(active, j) /\ j <= n /\ expected = B + j
      BY <1>11 DEF InActive, B, D
    <2>2. /\ n \in Nat /\ n <= Len(entries) /\ Len(entries) \in Nat
          /\ \A k \in 1..n : entries[k].number = B + k - 1 /\ entries[k].form = "valid"
      <3>1. n \in Nat /\ n <= Len(entries) /\ entries \in Seq(LogEntry)
            /\ \A k \in 1..n : entries[k].number = B + k - 1 /\ entries[k].form = "valid"
        BY <1>5, ActiveLog DEF B, D
      <3> HIDE DEF entries, n
      <3> QED BY <3>1
    <2>3. j + 1 \in 1..Len(entries) => body # <<>> /\ Head(body) = entries[j + 1]
      BY <2>1, <1>5, <1>6, FrontAfter
    <2> HIDE DEF entries, n
    <2>4. ~(j + 1 <= n)
      <3> SUFFICES ASSUME j + 1 <= n PROVE FALSE
        OBVIOUS
      <3>1. j + 1 \in 1..n /\ j + 1 \in 1..Len(entries)
        BY <2>2
      <3>2. entries[j + 1].number = B + (j + 1) - 1 /\ entries[j + 1].form = "valid"
        BY <3>1, <2>2
      <3>3. B + (j + 1) - 1 = B + j
        BY <1>5
      <3> QED BY <3>1, <3>2, <3>3, <2>1, <2>3, <1>2
    <2>5. j = n
      BY <2>1, <2>2, <2>4
    <2>6. B + n = D + 1
      BY <1>5 DEF n
    <2> QED BY <2>1, <2>5, <2>6
  <1>12. ASSUME NEW log, InLast(log) PROVE active \in Reached /\ expected = D + 1
    BY <1>12 DEF InLast, D
  <1>13. ASSUME NEW log \in Logs \ {active}, NEW j \in Nat, InOther(log, j)
         PROVE  active \notin Reached /\ expected <= B /\ (applied # <<>> => expected = B)
    <2> DEFINE entries == files[log].entries
               b == files[log].base
               n == files[active].base - b
    <2>1. /\ active \notin Reached /\ log \in Reached /\ b >= FlushedTo
          /\ After(log, j) /\ expected = b + j
          /\ j # 0 => applied # <<>> /\ j <= n /\ UpTo(log, n)
          /\ j = 0 => applied = <<>>
      BY <1>13 DEF InOther
    <2>2. /\ b \in Int /\ b <= B /\ n \in Nat /\ entries \in Seq(LogEntry)
          /\ UpTo(log, n) =>
               /\ n <= Len(entries)
               /\ \A k \in 1..n : entries[k].number = b + k - 1 /\ entries[k].form = "valid"
      BY <2>1, <1>5, OtherLog DEF B
    <2>3. j + 1 \in 1..Len(entries) => body # <<>> /\ Head(body) = entries[j + 1]
      BY <2>1, <1>5, <1>6, FrontAfter
    <2>4. Len(entries) \in Nat
      <3> HIDE DEF entries
      <3> QED BY <2>2
    <2>5. n = B - b
      BY DEF B
    <2> HIDE DEF entries, n, b
    <2>6. CASE j = 0
      BY <2>6, <2>1, <2>2
    <2>7. CASE j # 0
      <3>1. ~(j + 1 <= n)
        <4> SUFFICES ASSUME j + 1 <= n PROVE FALSE
          OBVIOUS
        <4>1. j + 1 \in 1..n /\ j + 1 \in 1..Len(entries)
          BY <2>1, <2>2, <2>4, <2>7
        <4>2. entries[j + 1].number = b + (j + 1) - 1 /\ entries[j + 1].form = "valid"
          BY <4>1, <2>1, <2>2, <2>7
        <4>3. b + (j + 1) - 1 = b + j
          BY <2>2
        <4> QED BY <4>1, <4>2, <4>3, <2>1, <2>3, <1>2
      <3>2. j = n
        BY <3>1, <2>1, <2>2, <2>7
      <3> QED BY <3>2, <2>1, <2>2, <2>5, <1>5
    <2> QED BY <2>6, <2>7
  <1>14. Between
    BY <1>4, <1>11, <1>12, <1>13 DEF InLogs, Between, B, D
  <1>15. Between'
    BY <1>2, <1>3, <1>6, <1>14 DEF Between
  <1> QED BY <1>2, <1>7, <1>8, <1>15 DEF Chained

\* A replay that ends has reached every log.
LEMMA FinishTrace ==
  ASSUME RInv, QInv, Replays, R!FinishUnchanged \/ R!FinishReplayed
  PROVE  AllRead => Chained'
  <1> SUFFICES ASSUME AllRead PROVE Chained'
    OBVIOUS
  <1>1. RP!FinishUnchanged \/ RP!FinishReplayed
    BY ReplayStepIs
  <1>2. /\ phase = "open" /\ phase' = "done" /\ opened = DOMAIN ready
        /\ ready' = ready /\ opened' = opened /\ applied' = applied /\ expected' = expected
    BY <1>1 DEF RP!FinishUnchanged, RP!FinishReplayed
  <1>3. files' = files /\ active' = active /\ FlushedTo' = FlushedTo /\ Durable' = Durable
    BY ReplayFrame DEF Replays
  <1>4. ReadyOK /\ NoGap /\ Between
    BY <1>2, Tracing DEF Chained
  <1>5. Reached' = Reached
    BY <1>2 DEF Reached
  <1>6. ReadyOK'
    BY <1>2, <1>3, <1>4, <1>5 DEF ReadyOK
  <1>7. NoGap'
    BY <1>2, <1>3, <1>4 DEF NoGap
  <1>8. Between'
    BY <1>2, <1>3, <1>4, <1>5 DEF Between
  <1> QED BY <1>2, <1>6, <1>7, <1>8 DEF Chained

\* The steps of Replay keep the trace.
LEMMA ReplayTrace ==
  ASSUME RInv, QInv, GateLogs \/ (\E i \in DOMAIN ready : OpenReadyLog(i)) \/ ReplayStep
  PROVE  Trace'
  <1>1. Replays
    BY DEF GateLogs, OpenReadyLog, ReplayStep
  <1>2. AllRead' = AllRead /\ pc' = pc /\ touched' = touched /\ Logs \subseteq touched
    BY <1>1, ReplayFrame DEF Replays
  <1>3. AllRead /\ phase' \notin {"gate", "failed"} => Chained'
    <2>1. CASE GateLogs
      BY <2>1, GateTrace
    <2>2. ASSUME NEW i \in DOMAIN ready, OpenReadyLog(i) PROVE AllRead => Chained'
      BY <2>2, OpenTrace
    <2>3. CASE R!ApplyEntry
      BY <2>3, <1>1, ApplyTrace
    <2>4. CASE R!LeaveLog
      BY <2>4, <1>1, LeaveTrace
    <2>5. CASE R!FinishUnchanged \/ R!FinishReplayed
      BY <2>5, <1>1, FinishTrace
    <2>6. CASE R!OverCap \/ R!BinsMissing
      <3>1. phase' = "failed"
        BY <2>6 DEF R!OverCap, R!BinsMissing, R!Fail
      <3> QED BY <3>1
    <2> QED BY <2>1, <2>2, <2>3, <2>4, <2>5, <2>6 DEF ReplayStep
  <1> QED BY <1>2, <1>3 DEF Trace

-----------------------------------------------------------------------------
(* Every step.                                                             *)

\* What is said of a replay stays while neither it nor the files move.
LEMMA ChainedStays ==
  ASSUME Chained, UNCHANGED <<disk, replay>>
  PROVE  Chained'
  <1>1. /\ Commits' = Commits /\ FlushedTo' = FlushedTo /\ Settled' = Settled
    BY DEF disk, Commits, FlushedTo, Settled, Place
  <1>2. Durable' = Durable
    BY <1>1 DEF Durable
  <1> USE DEF disk, replay
  <1>3. Reached' = Reached
    BY DEF Reached
  <1>4. ReadyOK' /\ NoGap' /\ (phase' \in {"open", "done"} => Between')
    BY <1>1, <1>2, <1>3 DEF Chained, ReadyOK, NoGap, Between
  <1>5. InLogs => InLogs'
    <2>1. /\ \A log, j : After(log, j)' <=> After(log, j)
          /\ \A log, n : UpTo(log, n)' <=> UpTo(log, n)
      BY DEF After, UpTo, Run
    <2>2. \A j : InActive(j) => InActive(j)'
      BY <1>2, <1>3 DEF InActive, After
    <2>3. \A log : InLast(log) => InLast(log)'
      BY <1>1, <1>2, <1>3, <2>1 DEF InLast
    <2>4. \A log, j : InOther(log, j) => InOther(log, j)'
      BY <1>1, <1>3, <2>1 DEF InOther, UpTo, Run
    <2> QED BY <2>2, <2>3, <2>4 DEF InLogs
  <1> QED BY <1>4, <1>5 DEF Chained

\* The trace stays while neither the replay nor the files move, when no call is
\* taken for one that has read them.
LEMMA TraceStays ==
  ASSUME Trace, UNCHANGED <<disk, replay>>, AllRead' => AllRead,
         pc' = "logs" => pc = "logs" /\ (Logs \subseteq touched => Logs \subseteq touched')
  PROVE  Trace'
  <1>1. phase' = phase
    BY DEF replay
  <1>2. Chained => Chained'
    BY ChainedStays
  <1> QED BY <1>1, <1>2 DEF Trace

\* A call is not disturbed by a write once it has its bytes, and is before.
LEMMA WriteTrace ==
  ASSUME QInv, AppraiserWrites
  PROVE  Trace'
  <1>1. /\ UNCHANGED <<vars, held, replay>> /\ ~Resident
        /\ disturbed' = (pc \notin {"idle", "path", "plain", "violation", "raw"})
    BY DEF AppraiserWrites, GoDirty, EndEntry, FlushDone, Restart, BeginEntry, FlushPage, Write
  <1>2. pc' = pc /\ touched' = touched /\ phase' = phase /\ replayed' = replayed
    BY <1>1 DEF vars, call, replay
  <1>3. ~AllRead'
    BY <1>1, <1>2 DEF AllRead, Replaying
  <1> QED BY <1>2, <1>3 DEF QInv, Trace

\* The steps that move no bytes.
LEMMA MovesTrace ==
  ASSUME IInv, QInv, Moves
  PROVE  Trace'
  <1>1. /\ logs' = logs
        /\ touched' = touched \/ (touched' = {Hive} /\ logs = {})
        /\ pc' \in {"logs", "recheck"} \/ (pc' = "ok" /\ replayed') =>
             pc \in {"logs", "recheck"} \/ (pc = "ok" /\ replayed)
    BY MovesTouch DEF IInv, QInv, QuietHeld, InOrder
  <1>2. /\ UNCHANGED <<disk, replay>>
        /\ pc' \notin {"violation", "failed"} => disturbed' = disturbed
    BY DEF Moves
  <1>3. AllRead' => AllRead
    <2>1. Logs # {} /\ ~(Logs \subseteq {Hive})
      BY DEF Logs, Hive
    <2> QED BY <1>1, <1>2, <2>1 DEF AllRead, Replaying
  <1>4. pc' = "logs" => pc = "logs" /\ touched' = touched
    <2> SUFFICES ASSUME pc' = "logs" PROVE pc = "logs" /\ touched' = touched
      OBVIOUS
    <2>1. pc = "logs"
      BY MovesGo DEF Idlers
    <2>2. Surroundings
      BY <2>1 DEF Moves, Begin, FindPath, PlainRefused, PlainFails, CheckBeforeRaw, RawFails,
                  Decide, CheckBeforeFiles, Capture, Recheck
    <2> QED BY <2>1, <2>2 DEF Surroundings, EndContext, Appraiser, call
  <1> QED BY <1>2, <1>3, <1>4, TraceStays DEF QInv

\* The steps that read the hive, and the one that lets the logs be read.
LEMMA HiveReadsTrace ==
  ASSUME RInv, QInv, OpenHive \/ FindHive \/ ReadBlock \/ PlainEnds \/ RawEnds \/ AllowLogs
  PROVE  Trace'
  <1>1. CASE OpenHive \/ FindHive
    <2>1. pc' \in {"opened", "found"}
      BY <1>1 DEF OpenHive, FindHive, PlainOpens, RawFinds, Goto
    <2> QED BY <2>1 DEF Trace, AllRead, Replaying
  <1>2. CASE ReadBlock
    <2>1. pc' \in {"opened", "found"}
      BY <1>2 DEF ReadBlock, vars, call
    <2> QED BY <2>1 DEF Trace, AllRead, Replaying
  <1>3. CASE PlainEnds \/ RawEnds
    <2>1. pc' = "acquired"
      BY <1>3 DEF PlainEnds, RawEnds, PlainReads, RawReads, Goto
    <2> QED BY <2>1 DEF Trace, AllRead, Replaying
  <1>4. CASE AllowLogs
    <2>1. pc = "dirty" /\ phase' = phase
      BY <1>4 DEF AllowLogs, CheckBeforeLogs
    <2>2. phase = "gate"
      BY <2>1 DEF RInv, ReplayPlace, Idle
    <2> QED BY <2>1, <2>2 DEF Trace
  <1> QED BY <1>1, <1>2, <1>3, <1>4

\* The steps that read a log, take what Replay returns and return from the call.
LEMMA LaterTrace ==
  ASSUME QInv, (\E log \in Logs : TakeLog(log)) \/ Replayed \/ ReplayGivesUp \/ ReturnBytes
  PROVE  Trace'
  <1>1. ASSUME NEW log \in Logs, TakeLog(log) PROVE Trace'
    <2>1. pc \in {"logs", "filelogs"} /\ pc' = pc /\ log \notin touched /\ phase' = phase
      BY <1>1 DEF TakeLog, ReadLog, replay
    <2>2. pc = "logs" => phase = "gate"
      BY <2>1 DEF QInv, Trace
    <2> QED BY <2>1, <2>2 DEF Trace, AllRead, Replaying
  <1>2. CASE Replayed
    <2>1. /\ pc = "logs" /\ pc' \in {"failed", "recheck"}
          /\ UNCHANGED <<disk, replay>>
          /\ disturbed' = disturbed /\ logs' = logs /\ touched' = touched
      BY <1>2 DEF Replayed, Replay, Goto
    <2>2. AllRead' => AllRead
      BY <2>1 DEF AllRead, Replaying
    <2> QED BY <2>1, <2>2, TraceStays DEF QInv
  <1>3. CASE ReplayGivesUp
    <2>1. pc' = "failed"
      BY <1>3 DEF ReplayGivesUp, ReplayFails, Goto
    <2> QED BY <2>1 DEF Trace, AllRead, Replaying
  <1>4. CASE ReturnBytes
    BY <1>4 DEF ReturnBytes, Trace
  <1> QED BY <1>1, <1>2, <1>3, <1>4

\* What is known of an undisturbed call, of the disk it reads and of the replay of what
\* it has read is true at the start.
LEMMA InitQInv == RecoveryInit => QInv
  <1> SUFFICES ASSUME RecoveryInit PROVE QInv
    OBVIOUS
  <1>1. /\ read = <<>> /\ phase = "gate" /\ pc = "idle" /\ logs = {} /\ touched = {}
    BY DEF RecoveryInit, Init, Fresh
  <1>2. QuietHeld
    BY <1>1 DEF QuietHeld, InOrder, QuietHive, QuietLogs, Replaying
  <1>3. Trace
    BY <1>1 DEF Trace
  <1> QED BY <1>2, <1>3, InitQuiet DEF QInv

\* Every step keeps it.
LEMMA NextQInv ==
  ASSUME RInv, IInv, QInv, [RecoveryNext]_allVars
  PROVE  QInv'
  <1>0. HistoryOK /\ DiskOK /\ QuietDisk /\ QuietHeld /\ Trace
    BY DEF RInv, QInv
  <1>1. CASE UNCHANGED allVars
    <2>1. UNCHANGED <<vars, disk, held, disturbed, replay>> /\ UNCHANGED <<disk, replay>>
      BY <1>1 DEF allVars
    <2>2. QuietDisk' /\ QuietHeld'
      BY <1>0, <2>1, DiskStaysQuiet, ReplayStepsQuietHeld
    <2>3. pc' = pc /\ touched' = touched /\ (AllRead' => AllRead)
      BY <2>1 DEF vars, call, AllRead, Replaying
    <2> QED BY <1>0, <2>1, <2>2, <2>3, TraceStays DEF QInv
  <1>2. CASE AppraiserWrites
    BY <1>0, <1>2, WritesQuiet, WriteQuietHeld, WriteTrace DEF QInv
  <1>3. CASE ~AppraiserWrites /\ RecoveryNext
    <2>1. UNCHANGED disk
      BY <1>3 DEF RecoveryNext, Moves, OpenHive, FindHive, ReadBlock, PlainEnds, RawEnds,
                  AllowLogs, TakeLog, GateLogs, OpenReadyLog, ReplayStep, Replays,
                  Replayed, ReplayGivesUp, ReturnBytes
    <2>2. QuietDisk'
      BY <1>0, <2>1, DiskStaysQuiet
    <2>3. QuietHeld'
      <3>1. CASE Moves
        BY <1>0, <3>1, MovesQuietHeld
      <3>2. CASE OpenHive \/ FindHive \/ ReadBlock \/ PlainEnds \/ RawEnds
        BY <1>0, <3>2, OpenFindQuietHeld, ReadBlockQuietHeld, EndsQuietHeld
      <3>3. CASE AllowLogs \/ Replayed \/ ReplayGivesUp \/ ReturnBytes
        BY <1>0, <3>3, AllowLogsQuietHeld, ReplayedQuietHeld, ReturnQuietHeld
      <3>4. CASE \E log \in Logs : TakeLog(log)
        BY <1>0, <3>4, TakeLogQuietHeld
      <3>5. CASE GateLogs \/ (\E i \in DOMAIN ready : OpenReadyLog(i)) \/ ReplayStep
        <4>1. UNCHANGED <<vars, disk, held, disturbed>>
          BY <3>5 DEF GateLogs, OpenReadyLog, ReplayStep, Replays
        <4> QED BY <1>0, <4>1, ReplayStepsQuietHeld
      <3> QED BY <1>3, <3>1, <3>2, <3>3, <3>4, <3>5 DEF RecoveryNext
    <2>4. Trace'
      BY <1>3, MovesTrace, HiveReadsTrace, LaterTrace, ReplayTrace DEF RecoveryNext
    <2> QED BY <2>2, <2>3, <2>4 DEF QInv
  <1> QED BY <1>1, <1>2, <1>3

\* The invariant of undisturbed calls holds in every behaviour.
THEOREM QuietInv == RecoverySpec => []QInv
  <1>1. Spec => []IInv
    BY ReadInv
  <1> QED BY <1>1, InitQInv, NextQInv, RecoveryInv, RecoveryImplementsRead, PTL DEF RecoverySpec

-----------------------------------------------------------------------------
(* What follows from it.                                                   *)

\* A hive that was clean when an undisturbed call read it is the newest generation.
LEMMA CleanQuiet ==
  ASSUME RInv, QInv, pc = "ok", ~disturbed, ~replayed
  PROVE  ReturnedSeq = Durable /\ Whole(Durable)
  <1>1. got = hive /\ got[1].seq1 = got[1].seq2
    BY DEF QInv, QuietHeld, QuietHive
  <1>2. HistoryOK /\ DiskOK /\ hive # <<>>
    BY DEF RInv, DiskOK
  <1>3. FlushedTo = Commits /\ Settled /\ hive[1].bins = SizeAt(Commits) /\ Lacking(Commits) = {}
    BY <1>1 DEF QInv, QuietDisk, CleanIsWhole
  <1>4. Durable = Commits /\ Commits \in Nat
    BY <1>2, <1>3, DurableIs
  <1>5. ReturnedSeq = Commits
    BY <1>1, <1>2, <1>3 DEF ReturnedSeq, BaseSeq2, FlushedTo
  <1>6. ReturnedBins = SizeAt(Commits)
    BY <1>1, <1>3 DEF ReturnedBins
  <1>7. \A p \in 1..SizeAt(Commits) : p + 1 \in DOMAIN hive /\ hive[p + 1] = Content(Commits, p)
    BY <1>3 DEF Lacking
  <1>8. SizeAt(Commits) \in Nat /\ SizeAt(Commits) # 0
    <2>1. FirstSize \in Nat /\ FirstSize # 0 /\ Commits \in 0..Commits
      BY <1>4, RecoveryAssumption
    <2>2. SizeAt(Commits) \in Nat /\ FirstSize <= SizeAt(Commits)
      BY <1>2, <2>1, SizeIs
    <2> QED BY <2>1, <2>2
  <1>9. SizeAt(Commits) <= ReturnedSize
    <2>1. hive \in Seq(Block)
      BY <1>2 DEF DiskOK, Bytes, Block
    <2> HIDE DEF Block
    <2>2. DOMAIN hive = 1..Len(hive) /\ Len(hive) \in Nat
      BY <2>1
    <2>3. SizeAt(Commits) + 1 \in DOMAIN hive
      BY <1>7, <1>8
    <2> QED BY <2>2, <2>3, <1>1, <1>8 DEF ReturnedSize
  <1>10. \A p \in 1..SizeAt(Commits) : Image(p) = Content(Commits, p)
    BY <1>1, <1>7 DEF Image
  <1> QED BY <1>4, <1>5, <1>6, <1>9, <1>10 DEF Whole

\* An undisturbed replay of both logs goes on to the newest durable generation.
LEMMA QuietReachesEnd ==
  ASSUME RInv, QInv, AllRead, phase = "done", applied # <<>>
  PROVE  RP!LastEntry.number = Durable
  <1>1. /\ HistoryOK /\ DiskOK /\ QuietDisk /\ ReadyOK /\ NoGap /\ Between
        /\ opened = DOMAIN ready
    BY DEF RInv, QInv, Trace, Chained
  <1>2. /\ Durable \in Int /\ FlushedTo \in Int /\ active \in Logs
        /\ \A log \in Logs : files[log].base \in Int
    BY <1>1, DurableIs, BasesAre DEF DiskOK
  <1>3. PICK log \in Logs : files[log].base >= FlushedTo
    BY <1>1 DEF NoGap
  <1>4. files[active].base >= FlushedTo
    <2>1. CASE log = active
      BY <1>3, <2>1
    <2>2. CASE log # active
      <3>1. files[log].base <= files[active].base
        BY <1>1, <2>2 DEF QuietDisk, OtherRun
      <3> QED BY <3>1, <1>2, <1>3
    <2> QED BY <2>1, <2>2
  <1>5. PICK i \in {1, 2} : LogAt(i) = active
    BY <1>2, LogsAre DEF QInv
  <1>6. i \in opened
    BY <1>1, <1>4, <1>5 DEF ReadyOK
  <1>7. active \in Reached
    BY <1>5, <1>6 DEF Reached
  <1>8. expected = Durable + 1
    BY <1>1, <1>7 DEF Between
  <1>9. expected = RP!LastEntry.number + 1
    BY <1>1 DEF NoGap, RP!LastEntry
  <1>10. RP!LastEntry.number \in Int
    <2>1. Commits \in Int
      BY <1>1, DurableIs
    <2> QED BY <2>1, LastApplied DEF Sound
  <1> QED BY <1>2, <1>8, <1>9, <1>10

\* It begins at a generation of which every page is on disk or in an entry applied.
LEMMA QuietBegins ==
  ASSUME RInv, QInv, AllRead, phase = "done", applied # <<>>
  PROVE  \E m \in 0..Commits :
           /\ m <= RP!LastEntry.number /\ applied[1].number <= m + 1
           /\ Covered(m, applied[1].pages)
  <1> DEFINE first == applied[1].number
             last == RP!LastEntry.number
  <1>1. /\ HistoryOK /\ DiskOK /\ QuietDisk /\ NoGap
    BY DEF RInv, QInv, Trace, Chained
  <1>2. /\ Durable \in Nat /\ FlushedTo \in Nat /\ FlushedTo <= Durable /\ Commits \in Nat
        /\ Durable <= Commits
    BY <1>1, DurableIs DEF QuietDisk
  <1>3. first \in 1..Commits /\ first <= last /\ last = Durable
    BY LastApplied, QuietReachesEnd
  <1>4. CASE first <= FlushedTo + 1
    <2>1. PICK m : m = FlushedTo
      OBVIOUS
    <2>2. Covered(m, applied[1].pages)
      BY <1>1, <2>1 DEF QuietDisk, Covered
    <2>3. m \in 0..Commits /\ m <= last /\ first <= m + 1
      BY <1>2, <1>3, <1>4, <2>1
    <2> QED BY <2>2, <2>3
  <1>5. CASE ~(first <= FlushedTo + 1)
    <2>1. PICK log \in Logs : /\ files[log].entries # <<>>
                              /\ applied[1] = files[log].entries[1]
                              /\ first = files[log].base
      BY <1>1 DEF NoGap
    <2>2. files[log].base \in (FlushedTo + 1)..Commits
      BY <2>1, <1>2, <1>3, <1>5
    <2>3. Covered(files[log].base - 1, files[log].entries[1].pages)
      BY <1>1, <2>1, <2>2 DEF QuietDisk, LogsCover
    <2>4. PICK m : m = first - 1
      OBVIOUS
    <2>5. Covered(m, applied[1].pages)
      BY <2>1, <2>3, <2>4
    <2> HIDE DEF first, last
    <2>6. m \in 0..Commits /\ m <= last /\ first <= m + 1
      BY <1>2, <1>3, <2>4
    <2> QED BY <2>5, <2>6 DEF first, last
  <1> QED BY <1>4, <1>5

\* A hive that an undisturbed call replayed both logs over is that generation.
LEMMA ReplayedQuiet ==
  ASSUME RInv, IInv, QInv, pc = "ok", ~disturbed, replayed, logs = Logs
  PROVE  ReturnedSeq = Durable /\ Whole(Durable)
  <1>1. applied # <<>> /\ phase = "done"
    BY ReplayedApplied DEF RInv, ReplayPlace, Replaying
  <1>2. AllRead
    BY DEF AllRead, Replaying, QInv, QuietHeld, InOrder
  <1>3. NoGap
    BY <1>1, <1>2 DEF QInv, Trace, Chained
  <1>4. RP!LastEntry.number = Durable
    BY <1>1, <1>2, QuietReachesEnd
  <1>5. PICK m \in 0..Commits : /\ m <= RP!LastEntry.number /\ applied[1].number <= m + 1
                                /\ Covered(m, applied[1].pages)
    BY <1>1, <1>2, QuietBegins
  <1>6. \A k \in 2..Len(applied) : applied[k].number = applied[k - 1].number + 1
    BY <1>3 DEF NoGap
  <1>7. got = hive
    BY <1>2, LogsAre DEF QInv
  <1>8. ASSUME NEW p \in 1..SizeAt(m)
        PROVE  (p + 1 \in DOMAIN got /\ got[p + 1] = Content(m, p)) \/ Listed(p)
    <2>1. \/ p \in applied[1].pages
          \/ p + 1 \in DOMAIN hive /\ hive[p + 1] = Content(m, p)
          \/ \E k \in (m + 1)..Durable : p \in changed[k]
      BY <1>5 DEF Covered
    <2>2. CASE p \in applied[1].pages
      <3>1. 1 \in DOMAIN applied
        BY <1>1, LastApplied
      <3> QED BY <2>2, <3>1 DEF Listed
    <2>3. CASE \E k \in (m + 1)..Durable : p \in changed[k]
      <3>1. PICK k \in (m + 1)..Durable : p \in changed[k]
        BY <2>3
      <3>2. k \in applied[1].number..RP!LastEntry.number
        <4>1. /\ Commits \in Nat /\ Durable \in Nat
              /\ 1 \in DOMAIN applied /\ applied[1].number \in 1..Commits
          BY <1>1, LastApplied, DurableIs DEF RInv
        <4> QED BY <4>1, <3>1, <1>4, <1>5
      <3>3. PICK j \in DOMAIN applied : changed[k] \subseteq applied[j].pages
        BY <3>2, <1>1, <1>6, ChainHolds
      <3> QED BY <3>1, <3>3 DEF Listed
    <2> QED BY <2>1, <2>2, <2>3, <1>7
  <1>9. ReturnedSeq = RP!LastEntry.number /\ Whole(RP!LastEntry.number)
    BY <1>1, <1>5, <1>6, <1>8, ChainWhole
  <1> QED BY <1>4, <1>9

\* A read of the hive and both logs that no write disturbed returns the newest durable
\* generation, whole, whatever was half done on disk, for any commits and any cap.
THEOREM QuietWhole == RecoverySpec => []QuietReadIsWhole
  <1>1. RInv /\ IInv /\ QInv => QuietReadIsWhole
    BY CleanQuiet, ReplayedQuiet DEF QuietReadIsWhole
  <1>2. Spec => []IInv
    BY ReadInv
  <1> QED BY <1>1, <1>2, RecoveryInv, QuietInv, RecoveryImplementsRead, PTL

=============================================================================
