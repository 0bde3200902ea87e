----------------------------- MODULE HiveReplay -----------------------------
(***************************************************************************)
(* Replay of internal/hive/replay.go: the transaction logs of a dirty hive *)
(* applied to a copy of it.  The logs that pass the gates are taken in the *)
(* order of the sequence number in their base blocks, and each is read     *)
(* entry by entry until an entry does not validate or is not the expected  *)
(* one.                                                                    *)
(*                                                                         *)
(* A page image is known by the number of the entry it comes from.  A log  *)
(* is its base sequence number and, once it is opened, the entries in it;  *)
(* an entry has the number and the hive bins size it declares (in pages),  *)
(* the pages it lists, and a form: "valid", "malformed" (no HvLE header,   *)
(* or a size, a page count or a bins size the guards refuse) or "torn" (a  *)
(* page reference that does not validate follows the pages listed).        *)
(* Page and file sizes are counted in pages of 4096 bytes.                 *)
(***************************************************************************)
EXTENDS Integers, Sequences

CONSTANTS
  Numbers,    \* sequence numbers in headers and entries
  SeqLimit,   \* the sequence numbers are uint32: 2^32
  MaxPages,   \* MaxHiveBytes, in pages of hive bins data
  MaxLogs,    \* bound on the logs given to Replay
  HiveSizes,  \* sizes of the hive's bins data
  Bodies      \* what the logs hold: sequences of entries

Entry ==
  [number : Numbers, pages : SUBSET (Nat \ {0}), bins : Nat,
   form : {"valid", "malformed", "torn"}]

\* NoWrap: the last sequence number of the type is not in use.
ASSUME ReplayAssumption ==
  /\ SeqLimit \in Nat \ {0}
  /\ Numbers \subseteq 0..(SeqLimit - 2)
  /\ MaxPages \in Nat
  /\ MaxLogs \in Nat
  /\ HiveSizes \subseteq 0..MaxPages
  /\ \A log \in Bodies : log \in Seq(Entry)

VARIABLES
  baseSeq2,  \* Sequence2 of the hive's base block
  logs,      \* base sequence number of each applicable log (ready)
  opened,    \* the logs of ready the loop has reached
  body,      \* the entries left in the log being read
  expected,
  out,       \* the recovered pages
  applied,   \* the entries applied; the code keeps the last one's fields
  header,    \* sequence number and bins size in the base block of out
  phase

vars == <<baseSeq2, logs, opened, body, expected, out, applied, header, phase>>

Primary    == -1  \* the image of a page in the hive itself
Zero       == -2  \* a page appended to make room for one past it
Unusable   == -1  \* a log that is empty, not a hive file or of an old type

Images == Numbers \cup {Primary, Zero}

TypeOK ==
  /\ baseSeq2 \in Numbers
  /\ DOMAIN logs \subseteq 1..MaxLogs
  /\ logs \in [DOMAIN logs -> Numbers]
  /\ opened \subseteq DOMAIN logs
  /\ body \in Seq(Entry)
  /\ expected \in 0..(SeqLimit - 1)
  /\ DOMAIN out \subseteq 1..MaxPages
  /\ out \in [DOMAIN out -> Images]
  /\ applied \in Seq(Entry)
  /\ header \in [seq : Numbers, bins : Nat]
  /\ phase \in {"gate", "open", "entries", "done", "failed"}

Init ==
  /\ baseSeq2 \in Numbers
  /\ logs = <<>>
  /\ opened = {}
  /\ body = <<>>
  /\ expected = 0
  /\ \E size \in HiveSizes :
       /\ out = [p \in 1..size |-> Primary]
       /\ header = [seq |-> baseSeq2, bins |-> size]
  /\ applied = <<>>
  /\ phase = "gate"

Fail ==
  /\ phase' = "failed"
  /\ UNCHANGED <<baseSeq2, logs, opened, body, expected, out, applied, header>>

-----------------------------------------------------------------------------

\* A hive or a log over its cap, a hive shorter than a base block or without
\* one, or more than two applicable logs.
Refuse == phase = "gate" /\ Fail

\* Mutant of Gate: no log is behind the hive.
GateWithoutSequence ==
  /\ phase = "gate"
  /\ \E n \in 0..MaxLogs : \E base \in [1..n -> Numbers] :
       /\ \A i, j, k \in DOMAIN base : i = j \/ j = k \/ i = k
       /\ logs' = base
  /\ phase' = "open"
  /\ UNCHANGED <<baseSeq2, opened, body, expected, out, applied, header>>

\* The logs that can be used and are not behind the hive, at most two of them.
Gate ==
  /\ phase = "gate"
  /\ \E n \in 0..MaxLogs : \E base \in [1..n -> Numbers \cup {Unusable}] :
       LET ready == {i \in 1..n : base[i] # Unusable /\ base[i] >= baseSeq2} IN
       /\ \A i, j, k \in ready : i = j \/ j = k \/ i = k
       /\ logs' = [i \in ready |-> base[i]]
  /\ phase' = "open"
  /\ UNCHANGED <<baseSeq2, opened, body, expected, out, applied, header>>

\* The logs in the order of their base sequence numbers; sort.Slice leaves the
\* order of equal ones open.
NextLog(i) ==
  /\ i \in DOMAIN logs \ opened
  /\ \A j \in DOMAIN logs \ opened : logs[i] <= logs[j]

\* Mutant of OpenLog: the chain restarts at each log's own base.
OpenLogAtBase(i) ==
  /\ phase = "open"
  /\ NextLog(i)
  /\ expected' = logs[i]
  /\ opened' = opened \cup {i}
  /\ body' \in Bodies
  /\ phase' = "entries"
  /\ UNCHANGED <<baseSeq2, logs, out, applied, header>>

\* The chain continues into the next log, or moves forward to its base.
OpenLog(i) ==
  /\ phase = "open"
  /\ NextLog(i)
  /\ expected' = IF opened = {} \/ logs[i] > expected THEN logs[i] ELSE expected
  /\ opened' = opened \cup {i}
  /\ body' \in Bodies
  /\ phase' = "entries"
  /\ UNCHANGED <<baseSeq2, logs, out, applied, header>>

\* Mutant of Continues: the number of an entry is not looked at.
ContinuesAnyhow == body # <<>> /\ Head(body).form # "malformed"

\* The entry at the front of the log is the next one of the chain.
Continues == body # <<>> /\ Head(body).form # "malformed" /\ Head(body).number = expected

\* The pages of out once those of an entry are written to it.
Written(e) ==
  [p \in DOMAIN out \cup UNION {1..r : r \in e.pages} |->
     IF p \in e.pages THEN e.number
     ELSE IF p \in DOMAIN out THEN out[p] ELSE Zero]

\* Mutant of ApplyEntry: an entry with an invalid reference is applied as far
\* as it goes, and counts as applied if it got to the end.
ApplyEntryPageByPage ==
  /\ phase = "entries"
  /\ Continues
  /\ Head(body).pages \subseteq 1..MaxPages
  /\ out' = Written(Head(body))
  /\ IF Head(body).form = "torn"
       THEN body' = <<>> /\ UNCHANGED <<applied, expected>>
       ELSE /\ applied' = Append(applied, Head(body))
            /\ expected' = (expected + 1) % SeqLimit
            /\ body' = Tail(body)
  /\ UNCHANGED <<baseSeq2, logs, opened, header, phase>>

\* Mutant of ApplyEntry: a page may grow the hive past its cap.
ApplyEntryUncapped ==
  /\ phase = "entries"
  /\ Continues
  /\ Head(body).form = "valid"
  /\ out' = Written(Head(body))
  /\ applied' = Append(applied, Head(body))
  /\ expected' = (expected + 1) % SeqLimit
  /\ body' = Tail(body)
  /\ UNCHANGED <<baseSeq2, logs, opened, header, phase>>

\* Every page of an entry is validated before any is written.
ApplyEntry ==
  /\ phase = "entries"
  /\ Continues
  /\ Head(body).form = "valid"
  /\ Head(body).pages \subseteq 1..MaxPages
  /\ out' = Written(Head(body))
  /\ applied' = Append(applied, Head(body))
  /\ expected' = (expected + 1) % SeqLimit
  /\ body' = Tail(body)
  /\ UNCHANGED <<baseSeq2, logs, opened, header, phase>>

\* A valid page would grow the hive past its cap.
OverCap ==
  /\ phase = "entries"
  /\ Continues
  /\ Head(body).form = "valid"
  /\ ~(Head(body).pages \subseteq 1..MaxPages)
  /\ Fail

\* Mutant of LeaveLog: an entry that does not validate is read again.
LeaveLogAtItsEnd ==
  /\ phase = "entries"
  /\ ~(Continues /\ Head(body).form = "valid")
  /\ body # <<>> => Head(body).form = "valid"
  /\ body' = <<>>
  /\ phase' = "open"
  /\ UNCHANGED <<baseSeq2, logs, opened, expected, out, applied, header>>

\* The log ends, or its next entry does not validate or is not the expected one.
LeaveLog ==
  /\ phase = "entries"
  /\ ~(Continues /\ Head(body).form = "valid")
  /\ body' = <<>>
  /\ phase' = "open"
  /\ UNCHANGED <<baseSeq2, logs, opened, expected, out, applied, header>>

LastEntry == applied[Len(applied)]

\* No entry applied: the copy is returned as it was read.
FinishUnchanged ==
  /\ phase = "open"
  /\ opened = DOMAIN logs
  /\ applied = <<>>
  /\ phase' = "done"
  /\ UNCHANGED <<baseSeq2, logs, opened, body, expected, out, applied, header>>

\* The base block takes its fields from the last entry applied.
FinishReplayed ==
  /\ phase = "open"
  /\ opened = DOMAIN logs
  /\ applied # <<>>
  /\ LastEntry.bins = 0 \/ LastEntry.bins \in DOMAIN out
  /\ header' = [seq |-> LastEntry.number, bins |-> LastEntry.bins]
  /\ phase' = "done"
  /\ UNCHANGED <<baseSeq2, logs, opened, body, expected, out, applied>>

\* The last entry declares more hive bins data than was recovered.
BinsMissing ==
  /\ phase = "open"
  /\ opened = DOMAIN logs
  /\ applied # <<>>
  /\ ~(LastEntry.bins = 0 \/ LastEntry.bins \in DOMAIN out)
  /\ Fail

Next ==
  \/ Refuse \/ Gate
  \/ \E i \in DOMAIN logs : OpenLog(i)
  \/ ApplyEntry \/ OverCap \/ LeaveLog
  \/ FinishUnchanged \/ FinishReplayed \/ BinsMissing

Spec == Init /\ [][Next]_vars

\* Replay is one function call: it is never left half way.
FairSpec == Spec /\ WF_vars(Next)

-----------------------------------------------------------------------------

\* A recovered page holds the image of the highest numbered entry that lists it,
\* of all the entries applied, and its own image if none does: no older image
\* is put over a newer one, and no entry is applied in part.
NewestImageWins ==
  \A p \in DOMAIN out :
    LET listing == {k \in DOMAIN applied : p \in applied[k].pages} IN
    IF listing = {} THEN out[p] \in {Primary, Zero}
    ELSE \E k \in listing :
           /\ out[p] = applied[k].number
           /\ \A j \in listing : applied[j].number <= applied[k].number

\* The sequence number stamped on the recovered hive is the highest applied.
HeaderIsHighest ==
  phase = "done" =>
    \A k \in DOMAIN applied : applied[k].number <= header.seq

\* No page of the hive is overwritten by an entry the hive is already past.
NeverBehindPrimary == \A k \in DOMAIN applied : applied[k].number >= baseSeq2

\* A gap in the chain is allowed only where a log begins: every other entry
\* applied has the number after that of the entry before it.
GapsOnlyAtBases ==
  \A k \in 2..Len(applied) :
    \/ applied[k].number = applied[k - 1].number + 1
    \/ \E i \in opened : applied[k].number = logs[i]

\* Replay ends, whatever sizes the entries declare: every step of the loop moves
\* past an entry or leaves the log.
Terminates == <>(phase \in {"done", "failed"})

\* "The chain continues across logs rather than restarting at each log's own
\* base": a log that begins at its base is not left while the run of consecutive
\* valid entries at its front reaches the expected one.
Reaches(entries, number) ==
  \E k \in DOMAIN entries :
    /\ entries[k].number = number
    /\ \A j \in 1..k :
         entries[j].form = "valid" /\ entries[j].number = entries[1].number + j - 1

AtItsBase ==
  /\ body # <<>>
  /\ \E i \in opened :
       /\ body[1].number = logs[i]
       /\ \A j \in opened : logs[j] <= logs[i]

ChainContinues == [][LeaveLog /\ AtItsBase => ~Reaches(body, expected)]_vars

\* "one smaller silently truncates the walk and drops inventory rows": a hive
\* that replay returns declares every page that replay wrote.
BinsCoverPages ==
  phase = "done" =>
    \A k \in DOMAIN applied : \A p \in applied[k].pages : p <= header.bins

=============================================================================
