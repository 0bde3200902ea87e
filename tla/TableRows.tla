------------------------------ MODULE TableRows ------------------------------
(***************************************************************************)
(* A Generate call from the loaded snapshot to its rows: Cells and         *)
(* Pushdown put together.  The subkeys of the hive are parsed into         *)
(* records, index builds the equality indices over their cells when the    *)
(* snapshot is loaded, selected narrows with lists and slices as the code  *)
(* has them, and rowsFor decodes the cells again, at a later time.         *)
(*                                                                         *)
(* Every step is also a step of Pushdown, whose variables are kept beside  *)
(* the code's: records and query are the cells and the constraints that    *)
(* SQLite filters by, out, left and rows the slices as sets.               *)
(***************************************************************************)
EXTENDS Pushdown, Cells, SequencesExt

CONSTANTS
  Snapshots,  \* the keys a hive can have: sequences of subkeys, in order
  Queries,    \* the constraints of a query: a list for each column
  Clocks      \* moments, at the load and after it

ASSUME TableRowsAssumption ==
  /\ Columns \subseteq DOMAIN Kind
  \* columns.go indexes no column that is decoded by the clock; Pushdown's records
  \* do not change, so none is constrained here.
  /\ \A column \in Columns : Kind[column] # "kTime"
  /\ Clocks \subseteq Int
  /\ \A t \in Texts : Fold[t] = Lower(t)
  /\ \A ks \in Snapshots :
       /\ ks \in Seq(RegistryKey) /\ Len(ks) <= MaxRecords
       /\ \A j \in DOMAIN ks : \A column \in Columns, now \in Clocks :
            cell(column, record(ks[j]), now) \in Texts
  /\ \A q \in Queries : \A column \in Columns :
       q[column] \in Seq(Constraint) /\ Len(q[column]) <= MaxConstraints

VARIABLES
  keys,    \* the subkeys of the inventory key
  parsed,  \* snap.inv.Keys[s.key]: the records of the subkeys that were read
  lists,   \* qc.Constraints
  idx,     \* snap.idx of the table
  sel,     \* out of selected, then sel of rowsFor
  table,   \* the rows: cells, with the subkey and the moment they are made from
  clock

tableVars == <<vars, keys, parsed, lists, idx, sel, table, clock>>

\* A slice of Go: nil has no element and is not the empty slice.
Nil      == [nil |-> TRUE, list |-> <<>>]
Slice(s) == [nil |-> FALSE, list |-> s]

\* append: nothing appended to nil is nil.
Appended(slice, s) == IF s = <<>> THEN slice ELSE Slice(slice.list \o s)

-----------------------------------------------------------------------------
(* The snapshot.                                                           *)

\* A set of positions in order.
Ascending(S) ==
  CHOOSE s \in SetToSeqs(S) : \A i, j \in DOMAIN s : i < j => s[i] < s[j]

\* Parse: a subkey whose record panics is skipped.
Read(ks) ==
  LET read == Ascending({j \in DOMAIN ks : ~RecordLost(ks[j])}) IN
  [i \in DOMAIN read |-> [key |-> ks[read[i]], rec |-> record(ks[read[i]])]]

\* Mutant of index: over what the hive stores and not over the cell.
indexOfSources(recs, now) ==
  [column \in Pushed |->
     LET source(i) == IF column \in DOMAIN recs[i].rec.V
                      THEN recs[i].rec.V[column] ELSE recs[i].rec.name
         seen == {Lower(source(i)) : i \in DOMAIN recs} \ {Empty} IN
     [text \in seen |->
        Ascending({i \in DOMAIN recs : Lower(source(i)) = text})]]

\* byVal of each pushed column: the positions of each lowercased cell, in order.
index(recs, now) ==
  [column \in Pushed |->
     LET value(i) == cell(column, recs[i].rec, now)
         seen == {Lower(value(i)) : i \in {j \in DOMAIN recs : value(j) # Empty}} IN
     [text \in seen |->
        Ascending({i \in DOMAIN recs : value(i) # Empty /\ Lower(value(i)) = text})]]

TableInit ==
  /\ keys \in Snapshots
  /\ lists \in Queries
  /\ clock \in Clocks
  /\ parsed = Read(keys)
  /\ idx = index(parsed, clock)
  /\ sel = Nil
  /\ table = <<>>
  /\ records = [i \in DOMAIN parsed |->
                  [column \in Columns |-> cell(column, parsed[i].rec, clock)]]
  /\ query = [column \in Columns |-> ToSet(lists[column])]
  /\ todo = Columns
  /\ narrowed = FALSE
  /\ out = {} /\ left = {} /\ rows = {}
  /\ built = 0
  /\ ctx = "live"
  /\ phase = "select"

-----------------------------------------------------------------------------
(* selected.                                                               *)

\* The positions a lookup of each usable equality appends.
Gather(column) ==
  LET list  == lists[column]
      byVal == idx[column]
      found(text) == IF text \in DOMAIN byVal THEN byVal[text] ELSE <<>>
      hits[n \in 0..Len(list)] ==
        IF n = 0 THEN Nil
        ELSE IF Usable(list[n]) THEN Appended(hits[n - 1], found(Lower(list[n].expr)))
        ELSE hits[n - 1] IN
  hits[Len(list)]

\* Mutant of sortUnique: the duplicates stay.
sortOnly(slice) == [slice EXCEPT !.list = SortSeq(@, <)]

\* A sorted slice with each position once; nil stays nil.
sortUnique(slice) == [slice EXCEPT !.list = Ascending(ToSet(@))]

\* Two sorted slices, merged: the result is never nil.
intersect(a, b) ==
  LET merge[p \in (1..(Len(a) + 1)) \X (1..(Len(b) + 1))] ==
        LET i == p[1]  j == p[2] IN
        IF i > Len(a) \/ j > Len(b) THEN <<>>
        ELSE IF a[i] < b[j] THEN merge[<<i + 1, j>>]
        ELSE IF a[i] > b[j] THEN merge[<<i, j + 1>>]
        ELSE <<a[i]>> \o merge[<<i + 1, j + 1>>] IN
  Slice(merge[<<1, 1>>])

\* One column of the map: unindexed, without a usable equality, or narrowing.
Select(column) ==
  /\ phase = "select"
  /\ keys # <<>> /\ parsed # <<>>
  /\ column \in todo
  /\ todo' = todo \ {column}
  /\ IF column \notin Pushed \/ \A i \in DOMAIN lists[column] : ~Usable(lists[column][i])
     THEN UNCHANGED <<sel, narrowed, out>>
     ELSE LET hits == sortUnique(Gather(column)) IN
          /\ sel' = IF narrowed THEN intersect(sel.list, hits.list) ELSE hits
          /\ narrowed' = TRUE
          /\ out' = ToSet(sel'.list)
  /\ UNCHANGED <<records, query, left, rows, built, ctx, phase,
                 keys, parsed, lists, idx, table, clock>>

Picked(slice) == IF slice.nil THEN Indices ELSE ToSet(slice.list)

\* Mutant of Selected: a selection that is nil is returned as it is.
SelectedNil ==
  /\ phase = "select"
  /\ parsed # <<>>
  /\ todo = {}
  /\ left' = Picked(sel)
  /\ phase' = "rows"
  /\ UNCHANGED <<records, query, todo, narrowed, out, rows, built, ctx,
                 keys, parsed, lists, idx, sel, table, clock>>

\* The end of selected: narrowed to nothing is the empty slice, not narrowed is nil.
Selected ==
  /\ phase = "select"
  /\ parsed # <<>>
  /\ todo = {}
  /\ sel' = IF narrowed /\ sel.nil THEN Slice(<<>>) ELSE sel
  /\ left' = Picked(sel')
  /\ phase' = "rows"
  /\ UNCHANGED <<records, query, todo, narrowed, out, rows, built, ctx,
                 keys, parsed, lists, idx, table, clock>>

-----------------------------------------------------------------------------
(* rowsFor.                                                                *)

rowCount == IF sel.nil THEN Len(parsed) ELSE Len(sel.list)

\* The record of the next row.
position == IF sel.nil THEN built + 1 ELSE sel.list[built + 1]

Row(i) == [key   |-> parsed[i].key, at |-> clock,
           cells |-> [c \in DOMAIN Kind |-> cell(c, parsed[i].rec, clock)]]

BuildNext ==
  /\ phase = "rows"
  /\ built < rowCount
  /\ built % CheckEvery = 0 => ctx = "live"
  /\ table' = Append(table, Row(position))
  /\ left' = left \ {position}
  /\ rows' = rows \cup {position}
  /\ built' = built + 1
  /\ UNCHANGED <<records, query, todo, narrowed, out, ctx, phase,
                 keys, parsed, lists, idx, sel, clock>>

\* Mutant of StopRows: the rows built so far are returned.
StopWithRows ==
  /\ phase = "rows"
  /\ built < rowCount
  /\ built % CheckEvery = 0
  /\ ctx = "done"
  /\ rows' = {}
  /\ phase' = "failed"
  /\ UNCHANGED <<records, query, todo, narrowed, out, left, built, ctx,
                 keys, parsed, lists, idx, sel, table, clock>>

StopRows ==
  /\ phase = "rows"
  /\ built < rowCount
  /\ built % CheckEvery = 0
  /\ ctx = "done"
  /\ table' = <<>>
  /\ rows' = {}
  /\ phase' = "failed"
  /\ UNCHANGED <<records, query, todo, narrowed, out, left, built, ctx,
                 keys, parsed, lists, idx, sel, clock>>

\* The rows are complete, or the key has no record.
ReturnRows ==
  /\ \/ phase = "rows" /\ built = rowCount
     \/ phase = "select" /\ parsed = <<>>
  /\ phase' = "done"
  /\ UNCHANGED <<records, query, todo, narrowed, out, left, rows, built, ctx,
                 keys, parsed, lists, idx, sel, table, clock>>

CallerLeaves ==
  /\ EndContext
  /\ UNCHANGED <<keys, parsed, lists, idx, sel, table, clock>>

\* The clock moves under a cached snapshot and between two rows.
Tick ==
  /\ clock + Year \in Clocks
  /\ clock' = clock + Year
  /\ phase \in {"select", "rows"}
  /\ UNCHANGED <<vars, keys, parsed, lists, idx, sel, table>>

TableNext ==
  \/ \E column \in Columns : Select(column)
  \/ Selected
  \/ BuildNext \/ StopRows \/ ReturnRows
  \/ CallerLeaves \/ Tick

TableSpec == TableInit /\ [][TableNext]_tableVars

-----------------------------------------------------------------------------
(* What the rows are for, said without the decoders.                       *)

\* Type correctness, with what the code's slices and Pushdown's sets have in common:
\* a row for each one built, and none when the call has failed.
RowsTypeOK ==
  /\ todo \subseteq Columns
  /\ sel.nil \in BOOLEAN /\ sel.list \in Seq(Indices)
  /\ sel.nil => sel.list = <<>>
  /\ DOMAIN idx = Pushed
  /\ phase \in {"select", "rows", "done", "failed"}
  /\ Len(table) = IF phase = "failed" THEN 0 ELSE built

\* The lists, slices and positions of the code do what Pushdown says of sets: its
\* theorems hold of the code's data too.
ImplementsPushdown == Spec

\* A query that keeps what the subkey shows gets a row for it, and one only, whatever
\* damage the subkey's values or its neighbours carry: a panic would cost a row.
NoSubkeyLost ==
  phase = "done" =>
    \A j \in DOMAIN keys :
      WantedByAll([column \in Columns |-> cell(column, record(keys[j]), clock)]) =>
        Cardinality({p \in DOMAIN table : table[p].key = keys[j]})
          = Cardinality({i \in DOMAIN keys : keys[i] = keys[j]})

\* "an operator types the 40-hex sha1 the table displays": what a row shows in an
\* indexed column leads back to the row, in whichever case it is typed and however
\* long after the load.
SeenIsFound ==
  \A p \in DOMAIN table : \A column \in Pushed :
    LET shown == table[p].cells[column] IN
    shown # Empty =>
      /\ Lower(shown) \in DOMAIN idx[column]
      /\ \E i \in ToSet(idx[column][Lower(shown)]) : parsed[i].key = table[p].key

\* A value that the hive holds whole: declared as long as its type is and stored where
\* so many bytes are.
Intact(v) ==
  /\ v.size <= MaxValueBytes
  /\ \/ v.type \in TextTypes
     \/ /\ v.type \in IntegerTypes
        /\ v.size = Width(v)
        /\ IF v.inline THEN v.size = 4 ELSE v.size <= v.room

\* An integer that lies in a cell of its own and begins with the bytes "db".
TakenForBigData(v) ==
  v.type \in IntegerTypes /\ ~v.inline /\ v.text.number % 65536 = sigDb

\* The values of a name that a cell may be made from, but for the subkey with too many.
Shown(v) == Intact(v) /\ ~TakenForBigData(v)

\* The text a column is made from: the name of the subkey or its last such value.
Source(c, key) ==
  LET shown == {i \in DOMAIN key.values : key.values[i].name = c /\ Shown(key.values[i])} IN
  IF Kind[c] \in {"kKey", "kKeyPath", "kKeyLower"} THEN key.name
  ELSE IF shown = {} \/ Len(key.values) > MaxValues THEN Blank
  ELSE key.values[CHOOSE i \in shown : \A j \in shown : j <= i].text

\* A date, read without a ladder: the field of four digits is the year and the others
\* are the month and the day, in this order.  With dashes the year may come first, with
\* slashes a padded time of day may follow.
DateOf(t, at) ==
  LET f == t.fields
      first == Len(f) = 3 /\ f[1].digits = 4
      y == IF first THEN f[1] ELSE f[3]
      m == IF first THEN f[2] ELSE f[1]
      d == IF first THEN f[3] ELSE f[2]
      known == /\ IsDate(t) /\ Len(f) = 3
               /\ y.digits = 4 /\ m.digits < 3 /\ d.digits < 3
               /\ m.value \in 1..12 /\ d.value \in 1..DaysIn(y.value, m.value)
               /\ t.sep \in {"/", "-"}
               /\ t.sep = "/" => ~first /\ t.time # "unpadded"
               /\ t.sep = "-" => t.time = "none" IN
  IF known /\ y.value >= 1980 /\ Moment(y.value, m.value, d.value) < at + Year
    THEN Number(Moment(y.value, m.value, d.value)) ELSE Blank

\* The items of a list that are not empty, each as often as it is there and in order.
IsCompacted(items, list) ==
  \E at \in [DOMAIN items -> DOMAIN list] :
    /\ \A i, j \in DOMAIN items : i < j => at[i] < at[j]
    /\ {at[i] : i \in DOMAIN items} = {k \in DOMAIN list : list[k] # NoWord}
    /\ \A i \in DOMAIN items : items[i] = list[at[i]]

\* The digit that a flag is, or whose word it is in any case.
Flag(s, digit, word) == s = Number(digit) \/ (IsName(s) /\ s.core = word)

\* The only texts that a column of each kind may show for the source s.
Means(kind, s, shown) ==
  /\ kind \in {"kText", "kKey"} => shown = s
  /\ kind \in {"kInt", "kEpoch"} => shown = IF IsNumber(s) THEN s ELSE Blank
  /\ kind = "kBool" =>
       /\ shown \in {Blank, Number(0), Number(1)}
       /\ shown = Number(0) <=> Flag(s, 0, "false")
       /\ shown = Number(1) <=> Flag(s, 1, "true")
  /\ kind = "kSha1" =>
       shown = IF IsName(s) /\ s.shape # "plain"
                 THEN [core |-> s.core, shape |-> "hash", upper |-> FALSE, slash |-> s.slash]
                 ELSE Blank
  /\ kind \in {"kLower", "kKeyLower"} =>
       shown = IF IsName(s)
                 THEN [core |-> s.core, shape |-> s.shape, upper |-> FALSE, slash |-> s.slash]
                 ELSE s
  /\ kind = "kKeyPath" =>
       shown = [core |-> s.core, shape |-> s.shape, upper |-> s.upper, slash |-> FALSE]
  /\ kind = "kMulti" =>
       IF ~IsList(s) THEN shown = s
       ELSE IF \A k \in DOMAIN s.items : s.items[k] = NoWord THEN shown = Blank
       ELSE IsList(shown) /\ IsCompacted(shown.items, s.items)

\* A cell says what its own source says and nothing else: a date is the date that is
\* written, in any of the four forms, and a stamp the seconds since 1970; a hash is 40
\* digits of its own value in lower case; a flag is 1 or 0 in either spelling; a list
\* loses its empty items and no other; and what is not of the column's kind is left
\* blank.  An integer that begins with "db" is the one whole value that is not shown.
CellsMean ==
  \A p \in DOMAIN table : \A c \in DOMAIN Kind :
    LET key   == table[p].key
        shown == table[p].cells[c]
        s     == Source(c, key)
        since == key.stamp - filetimeEpoch IN
    /\ Kind[c] = "kTime" => shown = IF IsDate(s) THEN DateOf(s, table[p].at) ELSE Blank
    /\ Kind[c] = "kKeyTime" =>
         shown = IF since \in TicksPerSecond..(filetimeMax - filetimeEpoch - 1)
                   THEN Number(since \div TicksPerSecond) ELSE Blank
    /\ Means(Kind[c], s, shown)

\* "every DWORD and QWORD through strconv.FormatUint", but for one whose "data cell
\* cannot hold its" bytes: an integer column shows the last value of its name when that
\* is an integer the hive holds whole.
IntactIntegersShown ==
  \A p \in DOMAIN table : \A c \in DOMAIN Kind :
    LET values == table[p].key.values
        named  == {i \in DOMAIN values : values[i].name = c}
        last   == CHOOSE i \in named : \A j \in named : j <= i IN
    (/\ Kind[c] \in {"kInt", "kEpoch"}
     /\ named # {} /\ Len(values) <= MaxValues
     /\ values[last].type \in IntegerTypes /\ Intact(values[last]))
      => table[p].cells[c] = values[last].text

=============================================================================
