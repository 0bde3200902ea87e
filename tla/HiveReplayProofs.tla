-------------------------- MODULE HiveReplayProofs --------------------------
(***************************************************************************)
(* Theorems about HiveReplay: what is recovered, for any hive, any logs    *)
(* and any cap, as long as the sequence numbers do not wrap.               *)
(***************************************************************************)
EXTENDS HiveReplay, TLAPS

(***************************************************************************)
(* The inductive invariant.  The entries applied increase because each is  *)
(* the expected one, and the expected number is past them all.             *)
(***************************************************************************)

\* Every entry applied lies between the hive's own sequence number and the
\* expected one.
ChainOK ==
  /\ \A k \in DOMAIN applied :
       /\ applied[k].number \in Numbers
       /\ baseSeq2 <= applied[k].number
       /\ applied[k].number < expected
  /\ \A i \in DOMAIN logs : logs[i] \in Numbers /\ baseSeq2 <= logs[i]
  /\ opened # {} => baseSeq2 <= expected
  /\ opened = {} => applied = <<>>
  /\ phase = "entries" => opened # {}
  /\ phase = "gate" => opened = {}

\* The expected number follows the last one applied, or is where a log begins.
NextOK ==
  applied # <<>> =>
    \/ expected = LastEntry.number + 1
    \/ \E i \in opened : expected = logs[i]

\* The last entry applied is the highest.
LastOK == \A k \in DOMAIN applied : applied[k].number <= LastEntry.number

\* What Finish leaves in the base block.
HeaderOK == phase = "done" /\ applied # <<>> => header.seq = LastEntry.number

\* Every page an entry listed is in the recovered hive.
PagesHeld == \A k \in DOMAIN applied : applied[k].pages \subseteq DOMAIN out

IInv ==
  /\ TypeOK
  /\ PagesHeld
  /\ ChainOK
  /\ LastOK
  /\ NextOK
  /\ HeaderOK
  /\ NewestImageWins
  /\ GapsOnlyAtBases

-----------------------------------------------------------------------------

\* No sequence number in use is the last of its type.
LEMMA NumberRange ==
  \A n \in Numbers : n \in Int /\ 0 <= n /\ n < SeqLimit - 1
  <1> TAKE n \in Numbers
  <1>1. SeqLimit \in Int
    BY ReplayAssumption
  <1>2. n \in 0..(SeqLimit - 2)
    BY ReplayAssumption
  <1> QED BY <1>1, <1>2

\* The number after one in use is computed without wrapping.
LEMMA NoWrap ==
  ASSUME NEW n \in Numbers
  PROVE  /\ (n + 1) % SeqLimit = n + 1
         /\ n + 1 \in 0..(SeqLimit - 1)
  <1>1. SeqLimit \in Int /\ SeqLimit > 0
    BY ReplayAssumption
  <1>2. n \in Int /\ 0 <= n /\ n + 1 < SeqLimit
    BY <1>1, NumberRange
  <1> QED BY <1>1, <1>2

\* The initial states satisfy the invariant.
LEMMA InitInv == Init => IInv
  <1> SUFFICES ASSUME Init PROVE IInv
    OBVIOUS
  <1> USE ReplayAssumption DEF Init
  <1>1. TypeOK
    <2>1. PICK size \in HiveSizes :
            /\ out = [p \in 1..size |-> Primary]
            /\ header = [seq |-> baseSeq2, bins |-> size]
      OBVIOUS
    <2>2. 1..size \subseteq 1..MaxPages
      OBVIOUS
    <2> QED BY <2>1, <2>2 DEF TypeOK, Images
  <1>2. NewestImageWins
    BY DEF NewestImageWins
  <1> QED
    BY <1>1, <1>2 DEF IInv, ChainOK, LastOK, NextOK, HeaderOK, PagesHeld, GapsOnlyAtBases

\* An image of pages that are in range is an image of the recovered hive.
LEMMA WrittenType ==
  ASSUME TypeOK, NEW e \in Entry, e.pages \subseteq 1..MaxPages
  PROVE  /\ DOMAIN Written(e) \subseteq 1..MaxPages
         /\ Written(e) \in [DOMAIN Written(e) -> Images]
         /\ DOMAIN out \subseteq DOMAIN Written(e)
         /\ e.pages \subseteq DOMAIN Written(e)
         /\ \A p \in DOMAIN Written(e) :
              Written(e)[p] = IF p \in e.pages THEN e.number
                              ELSE IF p \in DOMAIN out THEN out[p] ELSE Zero
  BY ReplayAssumption DEF TypeOK, Written, Images, Entry

\* Applying an entry keeps the invariant: it has the expected number, which is
\* past every number applied, so its images are the newest of its pages.
LEMMA ApplyInv ==
  ASSUME IInv, ApplyEntry
  PROVE  IInv'
  <1> DEFINE e == Head(body)
             n == Len(applied)
  <1>1. /\ TypeOK /\ ChainOK /\ LastOK /\ NextOK /\ HeaderOK /\ PagesHeld
        /\ NewestImageWins /\ GapsOnlyAtBases
    BY DEF IInv
  <1>2. /\ body \in Seq(Entry) /\ body # <<>> /\ applied \in Seq(Entry)
        /\ e.number = expected /\ e.pages \subseteq 1..MaxPages
        /\ out' = Written(e) /\ applied' = Append(applied, e)
        /\ expected' = (expected + 1) % SeqLimit /\ body' = Tail(body)
        /\ phase = "entries"
        /\ UNCHANGED <<baseSeq2, logs, opened, header, phase>>
    BY <1>1 DEF ApplyEntry, Continues, TypeOK
  <1>3. e \in Entry /\ e.number \in Numbers /\ Tail(body) \in Seq(Entry)
    <2>1. body \in Seq(Entry) /\ body # <<>>
      BY <1>2
    <2>2. Head(body) \in Entry /\ Tail(body) \in Seq(Entry)
      BY <2>1
    <2> QED BY <2>2 DEF Entry
  <1>4. expected \in Numbers /\ expected' = expected + 1 /\ expected' \in 0..(SeqLimit - 1)
    BY <1>2, <1>3, NoWrap
  <1>5. /\ applied' \in Seq(Entry)
        /\ DOMAIN applied = 1..n /\ DOMAIN applied' = 1..(n + 1) /\ n \in Nat
        /\ applied'[n + 1] = e /\ LastEntry' = e
        /\ \A k \in 1..n : applied'[k] = applied[k]
    BY <1>2, <1>3 DEF LastEntry
  <1> HIDE DEF e, n
  <1>6. TypeOK'
    <2>1. /\ DOMAIN out' \subseteq 1..MaxPages
          /\ out' \in [DOMAIN out' -> Images]
      BY <1>1, <1>2, <1>3, WrittenType
    <2> QED BY <1>1, <1>2, <1>3, <1>4, <1>5, <2>1 DEF TypeOK
  <1>7. ChainOK'
    <2> SUFFICES ASSUME NEW k \in 1..(n + 1)
                 PROVE  /\ applied'[k].number \in Numbers
                        /\ baseSeq2 <= applied'[k].number
                        /\ applied'[k].number < expected'
      <3>1. \A k \in DOMAIN applied' :
              /\ applied'[k].number \in Numbers
              /\ baseSeq2 <= applied'[k].number
              /\ applied'[k].number < expected'
        BY <1>5
      <3>2. opened # {} /\ phase # "gate"
        BY <1>1, <1>2 DEF ChainOK
      <3>3. baseSeq2 <= expected'
        <4>1. baseSeq2 <= expected
          BY <3>2, <1>1 DEF ChainOK
        <4>2. baseSeq2 \in Int /\ expected \in Int
          BY <1>1, <1>4, NumberRange DEF TypeOK
        <4> QED BY <4>1, <4>2, <1>4
      <3>4. \A i \in DOMAIN logs : logs[i] \in Numbers /\ baseSeq2 <= logs[i]
        BY <1>1 DEF ChainOK
      <3> QED BY <3>1, <3>2, <3>3, <3>4, <1>2 DEF ChainOK
    <2>1. CASE k \in 1..n
      <3>1. /\ applied'[k] = applied[k]
            /\ applied[k].number \in Numbers
            /\ baseSeq2 <= applied[k].number
            /\ applied[k].number < expected
        BY <2>1, <1>1, <1>5 DEF ChainOK
      <3> QED BY <3>1, <1>4, NumberRange
    <2>2. CASE k = n + 1
      BY <2>2, <1>1, <1>2, <1>3, <1>4, <1>5, NumberRange DEF ChainOK
    <2> QED BY <2>1, <2>2, <1>5
  <1>a. \A k \in DOMAIN applied' : applied'[k].number <= e.number
    <2>1. \A k \in 1..n : applied[k].number < e.number /\ applied[k].number \in Int
      BY <1>1, <1>2, <1>5, NumberRange DEF ChainOK
    <2> QED BY <2>1, <1>3, <1>5, NumberRange
  <1>b. LastOK'
    BY <1>a, <1>5 DEF LastOK
  <1>8. NextOK'
    BY <1>2, <1>4, <1>5 DEF NextOK
  <1>9. HeaderOK'
    BY <1>2 DEF HeaderOK
  <1>10. NewestImageWins'
    <2> SUFFICES ASSUME NEW p \in DOMAIN out'
                 PROVE  LET listing == {k \in DOMAIN applied' : p \in applied'[k].pages} IN
                        IF listing = {} THEN out'[p] \in {Primary, Zero}
                        ELSE \E k \in listing :
                               /\ out'[p] = applied'[k].number
                               /\ \A j \in listing : applied'[j].number <= applied'[k].number
      BY DEF NewestImageWins
    <2>1. out'[p] = IF p \in e.pages THEN e.number
                    ELSE IF p \in DOMAIN out THEN out[p] ELSE Zero
      BY <1>1, <1>2, <1>3, WrittenType
    <2>2. CASE p \in e.pages
      <3>2. n + 1 \in DOMAIN applied' /\ p \in applied'[n + 1].pages
        BY <2>2, <1>5
      <3>3. out'[p] = applied'[n + 1].number
        BY <2>1, <2>2, <1>5
      <3> QED BY <1>a, <3>2, <3>3, <1>5
    <2>3. CASE p \notin e.pages /\ p \in DOMAIN out
      <3>1. {k \in DOMAIN applied' : p \in applied'[k].pages}
              = {k \in DOMAIN applied : p \in applied[k].pages}
        BY <2>3, <1>5
      <3>2. \A k \in DOMAIN applied : applied'[k] = applied[k]
        BY <1>5
      <3>3. out'[p] = out[p]
        BY <2>1, <2>3
      <3> QED BY <3>1, <3>2, <3>3, <2>3, <1>1 DEF NewestImageWins
    <2>4. CASE p \notin e.pages /\ p \notin DOMAIN out
      <3>1. \A k \in DOMAIN applied : p \notin applied[k].pages
        BY <1>1, <2>4 DEF PagesHeld
      <3>2. \A k \in DOMAIN applied' : p \notin applied'[k].pages
        BY <3>1, <2>4, <1>5
      <3> QED BY <2>1, <2>4, <3>2
    <2> QED BY <2>2, <2>3, <2>4
  <1>11. GapsOnlyAtBases'
    <2> SUFFICES ASSUME NEW k \in 2..(n + 1)
                 PROVE  \/ applied'[k].number = applied'[k - 1].number + 1
                        \/ \E i \in opened : applied'[k].number = logs[i]
      BY <1>2, <1>5 DEF GapsOnlyAtBases
    <2>1. CASE k \in 2..n
      <3>1. applied'[k] = applied[k] /\ applied'[k - 1] = applied[k - 1]
        BY <2>1, <1>5
      <3>2. k \in 2..Len(applied)
        BY <2>1 DEF n
      <3> QED BY <3>1, <3>2, <1>1 DEF GapsOnlyAtBases
    <2>2. CASE k = n + 1
      <3>0. n \in 1..n
        BY <2>2, <1>5
      <3>1. applied # <<>> /\ applied'[k - 1] = LastEntry /\ applied'[k] = e
        BY <3>0, <2>2, <1>2, <1>5 DEF LastEntry, n
      <3> QED BY <3>1, <1>1, <1>2 DEF NextOK
    <2> QED BY <2>1, <2>2, <1>5
  <1>12. PagesHeld'
    <2>1. DOMAIN out \subseteq DOMAIN out' /\ e.pages \subseteq DOMAIN out'
      BY <1>1, <1>2, <1>3, WrittenType
    <2> QED BY <2>1, <1>1, <1>5 DEF PagesHeld
  <1> QED BY <1>6, <1>7, <1>b, <1>8, <1>9, <1>10, <1>11, <1>12 DEF IInv

\* The gate lets through logs that are not behind the hive, and no entry.
LEMMA GateInv ==
  ASSUME IInv, Gate
  PROVE  IInv'
  <1> USE DEF IInv
  <1>1. /\ DOMAIN logs' \subseteq 1..MaxLogs
        /\ logs' \in [DOMAIN logs' -> Numbers]
        /\ \A i \in DOMAIN logs' : logs'[i] \in Numbers /\ baseSeq2 <= logs'[i]
    <2>0. PICK m \in 0..MaxLogs : \E base \in [1..m -> Numbers \cup {Unusable}] :
            logs' = [i \in {j \in 1..m : base[j] # Unusable /\ base[j] >= baseSeq2}
                       |-> base[i]]
      BY DEF Gate
    <2>1. PICK base \in [1..m -> Numbers \cup {Unusable}] :
            logs' = [i \in {j \in 1..m : base[j] # Unusable /\ base[j] >= baseSeq2}
                       |-> base[i]]
      BY <2>0
    <2>2. 1..m \subseteq 1..MaxLogs
      BY ReplayAssumption
    <2> QED BY <2>1, <2>2, NumberRange DEF TypeOK
  <1>2. opened = {} /\ applied = <<>> /\ phase' = "open"
    BY DEF Gate, ChainOK
  <1>3. TypeOK'
    BY <1>1, <1>2 DEF Gate, TypeOK
  <1>4. ChainOK'
    BY <1>1, <1>2 DEF Gate, ChainOK
  <1>5. LastOK' /\ NextOK' /\ HeaderOK' /\ PagesHeld'
    BY <1>2 DEF Gate, LastOK, NextOK, HeaderOK, PagesHeld, LastEntry
  <1>6. NewestImageWins' /\ GapsOnlyAtBases'
    BY <1>2 DEF Gate, NewestImageWins, GapsOnlyAtBases
  <1> QED BY <1>3, <1>4, <1>5, <1>6

\* Opening a log moves the chain forward or leaves it where it is.
LEMMA OpenInv ==
  ASSUME IInv, NEW i \in DOMAIN logs, OpenLog(i)
  PROVE  IInv'
  <1> USE DEF IInv
  <1>0. logs[i] \in Numbers /\ baseSeq2 <= logs[i]
    BY DEF ChainOK
  <1>1. /\ logs[i] \in Numbers /\ logs[i] \in 0..(SeqLimit - 1)
        /\ baseSeq2 <= logs[i]
    <2>1. SeqLimit \in Int
      BY ReplayAssumption
    <2>2. logs[i] \in Int /\ 0 <= logs[i] /\ logs[i] < SeqLimit - 1
      BY <1>0, NumberRange
    <2> QED BY <1>0, <2>1, <2>2
  <1>2. /\ expected' \in {expected, logs[i]} /\ expected' \in 0..(SeqLimit - 1)
        /\ opened # {} => expected <= expected'
        /\ baseSeq2 <= expected'
    BY <1>1, NumberRange DEF OpenLog, ChainOK, TypeOK
  <1>3. TypeOK'
    <2>1. body' \in Seq(Entry)
      BY ReplayAssumption DEF OpenLog
    <2> QED BY <1>2, <2>1 DEF TypeOK, OpenLog
  <1>4. ChainOK'
    <2>1. \A k \in DOMAIN applied : opened # {} /\ applied[k].number < expected'
      <3> TAKE k \in DOMAIN applied
      <3>1. opened # {} /\ applied[k].number < expected /\ applied[k].number \in Int
        BY NumberRange DEF ChainOK
      <3>2. expected \in Int /\ expected' \in Int
        BY <1>2 DEF TypeOK
      <3> QED BY <3>1, <3>2, <1>2
    <2> QED BY <1>2, <2>1 DEF ChainOK, OpenLog
  <1>5. NextOK'
    BY <1>2 DEF OpenLog, NextOK, LastEntry, ChainOK
  <1>6. LastOK' /\ HeaderOK' /\ PagesHeld'
    BY DEF OpenLog, LastOK, HeaderOK, PagesHeld, LastEntry
  <1>7. NewestImageWins'
    BY DEF OpenLog, NewestImageWins
  <1>8. GapsOnlyAtBases'
    BY DEF OpenLog, GapsOnlyAtBases
  <1> QED BY <1>3, <1>4, <1>5, <1>6, <1>7, <1>8

\* Leaving a log and ending the replay change no page and no entry applied.
LEMMA EndInv ==
  ASSUME IInv,
         \/ Refuse \/ OverCap \/ LeaveLog
         \/ FinishUnchanged \/ FinishReplayed \/ BinsMissing
  PROVE  IInv'
  <1> USE DEF IInv
  <1>0. CASE Fail
    <2>1. TypeOK'
      BY <1>0 DEF Fail, TypeOK
    <2>2. ChainOK' /\ LastOK' /\ NextOK' /\ HeaderOK' /\ PagesHeld'
      BY <1>0 DEF Fail, ChainOK, LastOK, NextOK, HeaderOK, PagesHeld, LastEntry
    <2>3. NewestImageWins' /\ GapsOnlyAtBases'
      BY <1>0 DEF Fail, NewestImageWins, GapsOnlyAtBases
    <2> QED BY <2>1, <2>2, <2>3
  <1>1. CASE Refuse \/ OverCap \/ BinsMissing
    BY <1>0, <1>1 DEF Refuse, OverCap, BinsMissing
  <1>2. CASE LeaveLog
    <2>1. TypeOK'
      BY <1>2 DEF LeaveLog, TypeOK
    <2>2. ChainOK' /\ LastOK' /\ NextOK' /\ HeaderOK' /\ PagesHeld'
      BY <1>2 DEF LeaveLog, ChainOK, LastOK, NextOK, HeaderOK, PagesHeld, LastEntry
    <2>3. NewestImageWins' /\ GapsOnlyAtBases'
      BY <1>2 DEF LeaveLog, NewestImageWins, GapsOnlyAtBases
    <2> QED BY <2>1, <2>2, <2>3
  <1>3. CASE FinishUnchanged
    <2>1. TypeOK'
      BY <1>3 DEF FinishUnchanged, TypeOK
    <2>2. ChainOK' /\ LastOK' /\ NextOK' /\ HeaderOK' /\ PagesHeld'
      BY <1>3 DEF FinishUnchanged, ChainOK, LastOK, NextOK, HeaderOK, PagesHeld, LastEntry
    <2>3. NewestImageWins' /\ GapsOnlyAtBases'
      BY <1>3 DEF FinishUnchanged, NewestImageWins, GapsOnlyAtBases
    <2> QED BY <2>1, <2>2, <2>3
  <1>4. CASE FinishReplayed
    <2>1. LastEntry \in Entry
      BY <1>4 DEF FinishReplayed, TypeOK, LastEntry
    <2>2. header' \in [seq : Numbers, bins : Nat] /\ header'.seq = LastEntry.number
      BY <1>4, <2>1 DEF FinishReplayed, Entry
    <2>3. TypeOK'
      BY <1>4, <2>2 DEF FinishReplayed, TypeOK
    <2>4. ChainOK'
      BY <1>4 DEF FinishReplayed, ChainOK
    <2>5. LastOK' /\ NextOK' /\ PagesHeld'
      BY <1>4 DEF FinishReplayed, LastOK, NextOK, PagesHeld, LastEntry
    <2>6. HeaderOK'
      BY <1>4, <2>2 DEF FinishReplayed, HeaderOK, LastEntry
    <2>7. NewestImageWins' /\ GapsOnlyAtBases'
      BY <1>4 DEF FinishReplayed, NewestImageWins, GapsOnlyAtBases
    <2> QED BY <2>3, <2>4, <2>5, <2>6, <2>7
  <1> QED BY <1>1, <1>2, <1>3, <1>4

\* The invariant holds in every replay.
THEOREM ReplayInv == Spec => []IInv
  <1>1. IInv /\ [Next]_vars => IInv'
    <2> SUFFICES ASSUME IInv, [Next]_vars PROVE IInv'
      OBVIOUS
    <2>1. CASE UNCHANGED vars
      <3>1. TypeOK' /\ ChainOK'
        BY <2>1 DEF vars, IInv, TypeOK, ChainOK
      <3>2. LastOK' /\ NextOK' /\ HeaderOK' /\ PagesHeld'
        BY <2>1 DEF vars, IInv, LastOK, NextOK, HeaderOK, PagesHeld, LastEntry
      <3>3. NewestImageWins' /\ GapsOnlyAtBases'
        BY <2>1 DEF vars, IInv, NewestImageWins, GapsOnlyAtBases
      <3> QED BY <3>1, <3>2, <3>3 DEF IInv
    <2>2. CASE Next
      BY <2>2, GateInv, OpenInv, ApplyInv, EndInv DEF Next
    <2> QED BY <2>1, <2>2
  <1> QED BY InitInv, <1>1, PTL DEF Spec

-----------------------------------------------------------------------------

\* Every entry, image and sequence number that Replay works with keeps its range: the
\* recovered hive never outgrows the cap and the expected number never wraps.
THEOREM ReplayTypes == Spec => []TypeOK
  BY ReplayInv, PTL DEF IInv

\* Whatever the logs hold, no older page image ends up over a newer one and no
\* entry is applied in part.
THEOREM NewestImages == Spec => []NewestImageWins
  BY ReplayInv, PTL DEF IInv

\* The sequence number stamped on the hive is the highest of those applied.
THEOREM HeaderHighest == Spec => []HeaderIsHighest
  <1>1. IInv => HeaderIsHighest
    <2> SUFFICES ASSUME IInv, phase = "done", NEW k \in DOMAIN applied
                 PROVE  applied[k].number <= header.seq
      BY DEF HeaderIsHighest
    <2>1. applied # <<>>
      OBVIOUS
    <2> QED BY <2>1 DEF IInv, HeaderOK, LastOK
  <1> QED BY <1>1, ReplayInv, PTL

\* No entry the hive is already past is applied.
THEOREM PastPrimary == Spec => []NeverBehindPrimary
  <1>1. IInv => NeverBehindPrimary
    BY NumberRange DEF IInv, ChainOK, TypeOK, NeverBehindPrimary
  <1> QED BY <1>1, ReplayInv, PTL

\* The chain of entries applied is broken only where a log begins.
THEOREM ChainGaps == Spec => []GapsOnlyAtBases
  BY ReplayInv, PTL DEF IInv

=============================================================================
