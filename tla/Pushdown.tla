------------------------------ MODULE Pushdown ------------------------------
(***************************************************************************)
(* The second half of a Generate call: index and selected of               *)
(* tables/tables.go narrow a query's constraints to records, rowsFor of    *)
(* tables/decode.go builds their rows, and SQLite filters what comes back. *)
(* A superset of the rows asked for is always right, a subset never.       *)
(*                                                                         *)
(* A record is known by the decoded cell of each column; the empty text is *)
(* a cell that is absent, empty or was rejected by its decoder.  A query   *)
(* has a list of constraints for each column, equalities and others (LIKE, *)
(* GLOB, comparisons), and the map of the lists is walked in any order.    *)
(***************************************************************************)
EXTENDS Integers, Sequences, FiniteSets

CONSTANTS
  Columns,     \* columns a query can constrain
  Pushed,      \* those with an equality index
  Texts,       \* cells and expressions
  Empty,       \* the empty text
  TooLong,     \* texts longer than maxExprLen
  Fold,        \* strings.ToLower
  CheckEvery,  \* rows between two looks at the context (4096)
  MaxRecords,  \* bound on the records of the table
  MaxConstraints  \* bound on the constraints of a column

ASSUME PushdownAssumption ==
  /\ Pushed \subseteq Columns
  /\ Empty \in Texts
  /\ Fold \in [Texts -> Texts]
  /\ CheckEvery \in Nat \ {0}
  /\ MaxRecords \in Nat
  /\ MaxConstraints \in Nat

Record == [Columns -> Texts]

\* The expression of a constraint that is no equality is never looked at.
Constraint == [op : {"equals"}, expr : Texts] \cup [op : {"other"}, expr : {Empty}]

VARIABLES
  records,   \* snap.inv.Keys[s.key]
  query,     \* qc.Constraints
  todo,      \* columns the loop of selected has not reached
  narrowed,
  out,       \* record indices: the selection once narrowed
  left,      \* selected records whose row is not built yet
  rows,      \* records whose row is built
  built,     \* number of rows built
  ctx,
  phase

vars == <<records, query, todo, narrowed, out, left, rows, built, ctx, phase>>

Indices == 1..Len(records)

TypeOK ==
  /\ records \in Seq(Record)
  /\ query \in [Columns -> SUBSET Constraint]
  /\ todo \subseteq Columns
  /\ narrowed \in BOOLEAN
  /\ out \subseteq Indices
  /\ left \subseteq Indices
  /\ rows \subseteq Indices
  /\ built \in Nat
  /\ ctx \in {"live", "done"}
  /\ phase \in {"select", "rows", "done", "failed"}

Init ==
  /\ \E n \in 0..MaxRecords : records \in [1..n -> Record]
  /\ query \in [Columns -> {list \in SUBSET Constraint : Cardinality(list) <= MaxConstraints}]
  /\ todo = Columns
  /\ narrowed = FALSE
  /\ out = {}
  /\ left = {}
  /\ rows = {}
  /\ built = 0
  /\ ctx = "live"
  /\ phase = "select"

-----------------------------------------------------------------------------

\* byVal: the records whose cell, lowercased, is the lowercased text.  Empty
\* cells are not indexed.
Lookup(column, text) ==
  {i \in Indices : records[i][column] # Empty /\ Fold[records[i][column]] = Fold[text]}

\* Mutant of Usable: the empty text is looked up like any other.
UsableEmpty(c) == c.op = "equals" /\ c.expr \notin TooLong

\* What an index can answer.
Usable(c) == c.op = "equals" /\ c.expr # Empty /\ c.expr \notin TooLong

\* The union of the hits of a column's usable equalities, in order, each once.
Hits(column) ==
  UNION {Lookup(column, c.expr) : c \in {d \in query[column] : Usable(d)}}

\* A key without records is answered before the constraints are looked at.
NoRecords ==
  /\ phase = "select"
  /\ Indices = {}
  /\ phase' = "done"
  /\ UNCHANGED <<records, query, todo, narrowed, out, left, rows, built, ctx>>

\* A column that has no index, or no equality an index can answer.
SkipColumn(column) ==
  /\ phase = "select"
  /\ Indices # {}
  /\ column \in todo
  /\ column \notin Pushed \/ \A c \in query[column] : ~Usable(c)
  /\ todo' = todo \ {column}
  /\ UNCHANGED <<records, query, narrowed, out, left, rows, built, ctx, phase>>

\* Across columns the hits are intersected.
NarrowBy(column) ==
  /\ phase = "select"
  /\ Indices # {}
  /\ column \in todo \cap Pushed
  /\ \E c \in query[column] : Usable(c)
  /\ out' = IF narrowed THEN out \cap Hits(column) ELSE Hits(column)
  /\ narrowed' = TRUE
  /\ todo' = todo \ {column}
  /\ UNCHANGED <<records, query, left, rows, built, ctx, phase>>

\* A usable constraint that matched nothing selects no record; no usable
\* constraint selects every one.
StartRows ==
  /\ phase = "select"
  /\ Indices # {}
  /\ todo = {}
  /\ left' = IF narrowed THEN out ELSE Indices
  /\ phase' = "rows"
  /\ UNCHANGED <<records, query, todo, narrowed, out, rows, built, ctx>>

\* One row, in the order of the records.  The context is looked at before the
\* first of every CheckEvery rows.
BuildRow(i) ==
  /\ phase = "rows"
  /\ i \in left /\ \A j \in left : i <= j
  /\ built % CheckEvery = 0 => ctx = "live"
  /\ left' = left \ {i}
  /\ rows' = rows \cup {i}
  /\ built' = built + 1
  /\ UNCHANGED <<records, query, todo, narrowed, out, ctx, phase>>

\* The call ends without rows, the built ones included.
GiveUp ==
  /\ phase = "rows"
  /\ left # {}
  /\ built % CheckEvery = 0
  /\ ctx = "done"
  /\ rows' = {}
  /\ phase' = "failed"
  /\ UNCHANGED <<records, query, todo, narrowed, out, left, built, ctx>>

Deliver ==
  /\ phase = "rows"
  /\ left = {}
  /\ phase' = "done"
  /\ UNCHANGED <<records, query, todo, narrowed, out, left, rows, built, ctx>>

EndContext ==
  /\ ctx = "live"
  /\ phase \in {"select", "rows"}
  /\ ctx' = "done"
  /\ UNCHANGED <<records, query, todo, narrowed, out, left, rows, built, phase>>

Next ==
  \/ NoRecords
  \/ \E column \in Columns : SkipColumn(column) \/ NarrowBy(column)
  \/ StartRows
  \/ \E i \in Indices : BuildRow(i)
  \/ GiveUp \/ Deliver \/ EndContext

Spec == Init /\ [][Next]_vars

-----------------------------------------------------------------------------
(* What SQLite keeps of the rows.                                          *)

\* An equality compares the cell as it is; any other constraint may keep it.
Meets(record, column, c) == c.op = "equals" => record[column] = c.expr

\* The list of a column read as a conjunction.
WantedByAll(record) ==
  \A column \in Columns : \A c \in query[column] : Meets(record, column, c)

\* Every record SQLite would keep is among the rows delivered, whatever the order
\* of the columns, the case of the cells and the constraints no index answers.
NoRowLost ==
  phase = "done" =>
    \A i \in Indices : WantedByAll(records[i]) => i \in rows

\* A pushed-down equality is paid back: once a usable constraint was seen, only
\* records that match one in every such column are delivered, and none when
\* nothing matches.
Narrow ==
  phase = "done" =>
    \A i \in rows : \A column \in Pushed :
      (\E c \in query[column] : Usable(c))
        => \E c \in query[column] :
             Usable(c) /\ Fold[records[i][column]] = Fold[c.expr]

=============================================================================
