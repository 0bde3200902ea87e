--------------------------- MODULE TableRowsProofs ---------------------------
(***************************************************************************)
(* Theorems about Pushdown, that TableRows implements it, and what its     *)
(* rows say: for any table, any query and any order of its columns, no row *)
(* SQLite would keep is lost and no row outside the hits of a usable       *)
(* constraint is built, with the lists, slices and positions of the code;  *)
(* what a row shows finds it again, and says what its subkey's values say. *)
(***************************************************************************)
EXTENDS TableRows, Induction, SequenceTheorems


(***************************************************************************)
(* The inductive invariant: what the columns reached so far have left in,  *)
(* and what of it has been built.                                          *)
(***************************************************************************)

Answerable(column) == \E c \in query[column] : Usable(c)

\* The selection after the columns that were reached.
SelectionOK ==
  /\ narrowed => \A i \in Indices : WantedByAll(records[i]) => i \in out
  /\ narrowed => \A i \in out : \A column \in Pushed \ todo :
                   Answerable(column) => i \in Hits(column)
  /\ ~narrowed => \A column \in Pushed \ todo : ~Answerable(column)

\* The rows built and to be built are the selection.
BuildOK ==
  /\ phase = "select" => rows = {}
  /\ phase \in {"rows", "done"} /\ Indices # {} =>
       /\ todo = {}
       /\ left \cup rows = IF narrowed THEN out ELSE Indices
  /\ phase = "done" => left = {}
  /\ phase = "failed" => rows = {}

IInv == TypeOK /\ SelectionOK /\ BuildOK

\* A record that meets a usable equality is among the hits of the equality, in
\* whichever case the two are spelled.
LEMMA WantedIsHit ==
  ASSUME TypeOK, NEW column \in Columns, Answerable(column),
         NEW i \in Indices, WantedByAll(records[i])
  PROVE  i \in Hits(column)
  <1>1. PICK c \in query[column] : Usable(c)
    BY DEF Answerable
  <1>2. records[i][column] = c.expr
    BY <1>1 DEF WantedByAll, Meets, Usable
  <1>3. i \in Lookup(column, c.expr)
    BY <1>1, <1>2 DEF Lookup, Usable
  <1> QED BY <1>1, <1>3 DEF Hits

\* A step of selected.
LEMMA SelectStep ==
  ASSUME IInv, NEW column \in Columns, SkipColumn(column) \/ NarrowBy(column)
  PROVE  IInv'
  <1> USE DEF IInv
  <1>0. Hits(column) \subseteq Indices
    BY DEF Hits, Lookup
  <1>1. CASE SkipColumn(column)
    <2>1. ~(column \in Pushed /\ Answerable(column))
      BY <1>1 DEF SkipColumn, Answerable
    <2>2. TypeOK' /\ BuildOK'
      BY <1>1 DEF SkipColumn, TypeOK, BuildOK, Indices
    <2>3. SelectionOK'
      BY <1>1, <2>1 DEF SkipColumn, SelectionOK, Answerable, Hits, Lookup, Indices,
                        WantedByAll, Meets
    <2> QED BY <2>2, <2>3
  <1>2. CASE NarrowBy(column)
    <2>1. column \in Pushed /\ Answerable(column)
      BY <1>2 DEF NarrowBy, Answerable
    <2>2. out' \subseteq Hits(column) /\ (narrowed => out' = out \cap Hits(column))
          /\ (~narrowed => out' = Hits(column))
      BY <1>2 DEF NarrowBy
    <2>3. TypeOK' /\ BuildOK'
      BY <1>0, <1>2, <2>2 DEF NarrowBy, TypeOK, BuildOK, Indices
    <2>4. \A i \in Indices : WantedByAll(records[i]) => i \in out'
      BY <2>1, <2>2, WantedIsHit DEF SelectionOK
    <2>5. \A i \in out' : \A other \in Pushed \ todo' :
            Answerable(other) => i \in Hits(other)
      BY <1>2, <2>2 DEF NarrowBy, SelectionOK
    <2>6. UNCHANGED <<records, query>> /\ narrowed'
      BY <1>2 DEF NarrowBy
    <2>7. SelectionOK'
      BY <2>4, <2>5, <2>6 DEF SelectionOK, Answerable, Hits, Lookup, Indices,
                              WantedByAll, Meets
    <2> QED BY <2>3, <2>7
  <1> QED BY <1>1, <1>2

\* A step of rowsFor, of the call's end or of its context.
LEMMA RowsStep ==
  ASSUME IInv,
         \/ NoRecords \/ StartRows \/ GiveUp \/ Deliver \/ EndContext
         \/ \E i \in Indices : BuildRow(i)
  PROVE  IInv'
  <1> USE DEF IInv, TypeOK, BuildOK, Indices
  <1>0. ASSUME UNCHANGED <<records, query, todo, narrowed, out>> PROVE SelectionOK'
    BY <1>0 DEF SelectionOK, Answerable, Hits, Lookup, Indices, WantedByAll, Meets
  <1>1. CASE StartRows BY <1>0, <1>1 DEF StartRows
  <1>2. CASE GiveUp BY <1>0, <1>2 DEF GiveUp
  <1>3. CASE Deliver BY <1>0, <1>3 DEF Deliver
  <1>4. CASE EndContext BY <1>0, <1>4 DEF EndContext
  <1>5. CASE NoRecords BY <1>0, <1>5 DEF NoRecords
  <1>6. ASSUME NEW i \in Indices, BuildRow(i) PROVE IInv'
    <2>1. left' = left \ {i} /\ rows' = rows \cup {i} /\ i \in left
      BY <1>6 DEF BuildRow
    <2>2. left' \cup rows' = left \cup rows
      BY <2>1
    <2> QED BY <1>0, <1>6, <2>1, <2>2 DEF BuildRow
  <1> QED BY <1>1, <1>2, <1>3, <1>4, <1>5, <1>6

\* The invariant holds in every behaviour.
THEOREM PushdownInv == Spec => []IInv
  <1>1. Init => IInv
    <2> SUFFICES ASSUME Init PROVE IInv
      OBVIOUS
    <2>0. records \in Seq(Record)
      <3>1. PICK n \in 0..MaxRecords : records \in [1..n -> Record]
        BY DEF Init
      <3>2. n \in Nat
        BY PushdownAssumption
      <3> QED BY <3>1, <3>2, SeqDef
    <2>1. TypeOK
      BY <2>0, PushdownAssumption DEF Init, TypeOK, Indices
    <2>2. SelectionOK /\ BuildOK
      BY PushdownAssumption DEF Init, SelectionOK, BuildOK
    <2> QED BY <2>1, <2>2 DEF IInv
  <1>2. IInv /\ [Next]_vars => IInv'
    <2> SUFFICES ASSUME IInv, [Next]_vars PROVE IInv'
      OBVIOUS
    <2>1. CASE UNCHANGED vars
      BY <2>1 DEF vars, IInv, TypeOK, SelectionOK, BuildOK, Answerable, Hits,
                  Lookup, Indices, WantedByAll, Meets
    <2> QED BY <2>1, SelectStep, RowsStep DEF Next
  <1> QED BY <1>1, <1>2, PTL DEF Spec

\* A superset, never a subset: every row the query asks for is delivered.
THEOREM SupersetDelivered == Spec => []NoRowLost
  <1>1. IInv => NoRowLost
    <2> SUFFICES ASSUME IInv, phase = "done", NEW i \in Indices, WantedByAll(records[i])
                 PROVE  i \in rows
      BY DEF NoRowLost
    <2> QED BY DEF IInv, SelectionOK, BuildOK
  <1> QED BY <1>1, PushdownInv, PTL

\* A usable equality keeps out every record that does not match one of its column.
THEOREM NarrowedToHits == Spec => []Narrow
  <1>1. IInv => Narrow
    <2> SUFFICES ASSUME IInv, phase = "done", NEW i \in rows, NEW column \in Pushed,
                        Answerable(column)
                 PROVE  \E c \in query[column] :
                          Usable(c) /\ Fold[records[i][column]] = Fold[c.expr]
      BY DEF Narrow, Answerable
    <2>1. i \in Indices /\ todo = {}
      BY DEF IInv, TypeOK, BuildOK
    <2>2. narrowed /\ i \in out
      BY <2>1 DEF IInv, SelectionOK, BuildOK
    <2>3. i \in Hits(column)
      BY <2>1, <2>2 DEF IInv, SelectionOK
    <2> QED BY <2>3 DEF Hits, Lookup
  <1> QED BY <1>1, PushdownInv, PTL

-----------------------------------------------------------------------------
(***************************************************************************)
(* Positions in order: what a strictly ascending list of a set is, that    *)
(* there is one, and that there is no other.                               *)
(***************************************************************************)

Increasing(s) == \A i, j \in DOMAIN s : i < j => s[i] < s[j]

\* s lists S, each element once, in order.
ListsInOrder(s, S) == s \in Seq(S) /\ ToSet(s) = S /\ Increasing(s)

\* A set of positions is finite.
LEMMA PositionsFinite ==
  ASSUME NEW n \in Nat, NEW S \in SUBSET (1..n)
  PROVE  IsFiniteSet(S) /\ Cardinality(S) \in Nat /\ Cardinality(S) <= n
  <1>1. IsFiniteSet(1..n) /\ Cardinality(1..n) = n
    BY FS_Interval
  <1>2. IsFiniteSet(S) /\ Cardinality(S) <= Cardinality(1..n)
    BY <1>1, FS_Subset
  <1> QED BY <1>1, <1>2, FS_CardinalityType

\* A set of positions can be put in order.
LEMMA OrderExists ==
  ASSUME NEW n \in Nat, NEW S \in SUBSET (1..n)
  PROVE  \E s \in SetToSeqs(S) : Increasing(s)
  <1> DEFINE Holds(T) == \E s \in SetToSeqs(T) : Increasing(s)
             Good == {k \in Nat : \A T \in SUBSET (1..k) : Holds(T)}
  <1>1. 0 \in Good
    <2> SUFFICES ASSUME NEW T \in SUBSET (1..0) PROVE Holds(T)
      OBVIOUS
    <2>a. T = {}
      OBVIOUS
    <2>1. T = {} /\ Cardinality(T) = 0
      BY <2>a, FS_EmptySet
    <2>2. <<>> \in [1..0 -> T] /\ DOMAIN <<>> = {}
      OBVIOUS
    <2>3. <<>> \in SetToSeqs(T)
      BY <2>1, <2>2 DEF SetToSeqs
    <2>4. Increasing(<<>>)
      BY DEF Increasing
    <2> QED BY <2>3, <2>4
  <1>2. ASSUME NEW k \in Nat, k \in Good PROVE k + 1 \in Good
    <2> SUFFICES ASSUME NEW T \in SUBSET (1..(k + 1)) PROVE Holds(T)
      OBVIOUS
    <2>1. CASE k + 1 \notin T
      <3>1. T \in SUBSET (1..k)
        BY <2>1
      <3> QED BY <1>2, <3>1
    <2>2. CASE k + 1 \in T
      <3> DEFINE R == T \ {k + 1}
                 c == Cardinality(R)
      <3>1. R \in SUBSET (1..k)
        OBVIOUS
      <3>2. IsFiniteSet(R) /\ c \in Nat
        BY <3>1, PositionsFinite
      <3>3. T = R \cup {k + 1} /\ k + 1 \notin R
        BY <2>2
      <3>4. Cardinality(T) = c + 1
        BY <3>2, <3>3, FS_AddElement
      <3>5. Holds(R)
        BY <1>2, <3>1
      <3>6. PICK s \in SetToSeqs(R) : Increasing(s)
        BY <3>5
      <3>7. s \in [1..c -> R] /\ \A i, j \in 1..c : i # j => s[i] # s[j]
        BY <3>6 DEF SetToSeqs
      <3> HIDE DEF R, c
      <3> DEFINE t == [i \in 1..(c + 1) |-> IF i = c + 1 THEN k + 1 ELSE s[i]]
      <3>8. \A i \in 1..(c + 1) : i = c + 1 \/ (i \in 1..c /\ s[i] \in R)
        BY <3>2, <3>7
      <3>9. \A x \in R : x \in Nat /\ x < k + 1
        BY <3>1
      <3>10. t \in [1..(c + 1) -> T]
        BY <3>3, <3>8
      <3>11. ASSUME NEW i \in 1..(c + 1), NEW j \in 1..(c + 1), i < j PROVE t[i] < t[j]
        <4>1. i \in 1..c /\ t[i] = s[i] /\ s[i] \in R
          BY <3>2, <3>8, <3>11
        <4>2. CASE j = c + 1 BY <3>9, <4>1, <4>2
        <4>3. CASE j \in 1..c
          <5>1. t[j] = s[j]
            BY <3>2, <4>3
          <5> QED BY <3>6, <3>7, <3>11, <4>1, <4>3, <5>1 DEF Increasing
        <4> QED BY <3>8, <4>2, <4>3
      <3>12. \A i \in 1..(c + 1) : t[i] \in Nat
        BY <3>8, <3>9
      <3>13. Increasing(t)
        BY <3>11 DEF Increasing
      <3>14. t \in SetToSeqs(T)
        <4>1. ASSUME NEW i \in 1..(c + 1), NEW j \in 1..(c + 1), i # j PROVE t[i] # t[j]
          <5> HIDE DEF t
          <5>1. i < j \/ j < i
            BY <3>2, <4>1
          <5> QED BY <3>11, <3>12, <5>1
        <4> HIDE DEF t
        <4> QED BY <3>4, <3>10, <4>1 DEF SetToSeqs
      <3> QED BY <3>13, <3>14
    <2> QED BY <2>1, <2>2
  <1> HIDE DEF Good
  <1>3. \A k \in Nat : k \in Good
    BY <1>1, <1>2, StepInduction
  <1> QED BY <1>3 DEF Good

LEMMA AscendingIs ==
  ASSUME NEW n \in Nat, NEW S \in SUBSET (1..n)
  PROVE  ListsInOrder(Ascending(S), S) /\ Len(Ascending(S)) = Cardinality(S)
  <1> DEFINE s == Ascending(S)
             c == Cardinality(S)
  <1>1. s \in SetToSeqs(S) /\ Increasing(s)
    <2>1. PICK t \in SetToSeqs(S) : Increasing(t)
      BY OrderExists
    <2> QED BY <2>1 DEF Ascending, Increasing
  <1>2. IsFiniteSet(S) /\ c \in Nat
    BY PositionsFinite
  <1> HIDE DEF s, c
  <1>3. s \in [1..c -> S] /\ \A i, j \in 1..c : i # j => s[i] # s[j]
    BY <1>1 DEF SetToSeqs, c
  <1>4. s \in Seq(S) /\ Len(s) = c
    BY <1>2, <1>3
  <1>5. s \in Injection(1..c, S)
    BY <1>3 DEF Injection, IsInjective
  <1>6. Cardinality(1..c) = c
    BY <1>2, FS_Interval
  <1>7. s \in Surjection(1..c, S)
    BY <1>2, <1>5, <1>6, FS_Injection DEF c
  <1>8. ToSet(s) = S
    BY <1>3, <1>7 DEF Surjection, ToSet
  <1> QED BY <1>1, <1>4, <1>8 DEF ListsInOrder, s, c

\* Two lists of one set in order are the same list.
LEMMA OneOrder ==
  ASSUME NEW S \in SUBSET Nat, NEW s, NEW t, ListsInOrder(s, S), ListsInOrder(t, S)
  PROVE  s = t
  <1>1. /\ s \in Seq(S) /\ Len(s) \in Nat /\ DOMAIN s = 1..Len(s) /\ \A i \in DOMAIN s : s[i] \in S
        /\ t \in Seq(S) /\ Len(t) \in Nat /\ DOMAIN t = 1..Len(t) /\ \A i \in DOMAIN t : t[i] \in S
        /\ Increasing(s) /\ Increasing(t)
        /\ \A x \in S : (\E i \in DOMAIN s : s[i] = x) /\ (\E i \in DOMAIN t : t[i] = x)
    BY DEF ListsInOrder, ToSet
  <1> DEFINE Same(k) == (k \in DOMAIN s <=> k \in DOMAIN t) /\ (k \in DOMAIN s => s[k] = t[k])
             Good == {k \in Nat : k # 0 => Same(k)}
  <1>2. ASSUME NEW k \in Nat, \A m \in 0..(k - 1) : m \in Good PROVE k \in Good
    <2> SUFFICES ASSUME k # 0 PROVE Same(k)
      OBVIOUS
    <2>1. \A m \in 1..(k - 1) : Same(m)
      BY <1>2
    <2>2. ASSUME NEW a, NEW b, a \in Seq(S), b \in Seq(S), Increasing(a), Increasing(b),
                 \A x \in S : \E i \in DOMAIN b : b[i] = x,
                 \A m \in 1..(k - 1) : m \in DOMAIN a => m \in DOMAIN b /\ a[m] = b[m],
                 k \in DOMAIN a
          PROVE  k \in DOMAIN b /\ b[k] <= a[k]
      <3>a. a \in Seq(S) /\ b \in Seq(S) /\ k \in DOMAIN a
        BY <2>2
      <3>b. a[k] \in S /\ DOMAIN a = 1..Len(a) /\ DOMAIN b = 1..Len(b) /\ Len(b) \in Nat
            /\ \A i \in DOMAIN b : b[i] \in S
        BY <3>a
      <3>1. a[k] \in S /\ a[k] \in Nat /\ DOMAIN a = 1..Len(a) /\ DOMAIN b = 1..Len(b) /\ Len(b) \in Nat
            /\ \A i \in DOMAIN b : b[i] \in Nat
        BY <3>b
      <3>2. PICK i \in DOMAIN b : b[i] = a[k]
        BY <2>2, <3>1
      <3>3. k <= i
        <4> SUFFICES ASSUME i < k PROVE FALSE
          BY <3>1
        <4>1. i \in 1..(k - 1) /\ i \in DOMAIN a
          BY <2>2, <3>1
        <4>2. a[i] = b[i] /\ a[i] < a[k] /\ a[k] \in Nat
          BY <2>2, <3>1, <4>1 DEF Increasing
        <4> QED BY <3>2, <4>2
      <3>4. k \in DOMAIN b
        BY <3>1, <3>3
      <3>c. i \in Int /\ (k = i \/ k < i)
        BY <3>1, <3>2, <3>3
      <3>d. Increasing(b)
        BY <2>2
      <3>5. k = i \/ b[k] < b[i]
        BY <3>2, <3>4, <3>c, <3>d DEF Increasing
      <3> QED BY <3>1, <3>2, <3>4, <3>5
    <2>3. k \in DOMAIN s => k \in DOMAIN t /\ t[k] <= s[k]
      BY <1>1, <2>1, <2>2
    <2>4. k \in DOMAIN t => k \in DOMAIN s /\ s[k] <= t[k]
      <3>1. \A m \in 1..(k - 1) : m \in DOMAIN t => m \in DOMAIN s /\ t[m] = s[m]
        BY <2>1
      <3> QED BY <1>1, <2>2, <3>1
    <2>5. k \in DOMAIN s /\ k \in DOMAIN t => s[k] \in Nat /\ t[k] \in Nat
      BY <1>1
    <2> QED BY <2>3, <2>4, <2>5
  <1> HIDE DEF Good
  <1>3. \A k \in Nat : k \in Good
    BY <1>2, StrongInduction
  <1>4. \A k \in Nat \ {0} : Same(k)
    BY <1>3 DEF Good
  <1>5. \A k \in Nat \ {0} : k <= Len(s) <=> k <= Len(t)
    <2>1. DOMAIN s = 1..Len(s) /\ DOMAIN t = 1..Len(t) /\ Len(s) \in Nat /\ Len(t) \in Nat
      BY <1>1
    <2> QED BY <1>4, <2>1
  <1>6. Len(s) = Len(t)
    <2>1. Len(s) \in Nat /\ Len(t) \in Nat
      BY <1>1
    <2> QED BY <1>5, <2>1
  <1> QED BY <1>1, <1>4, <1>6, SeqEqual

\* What is left of a list from a place on.
From(s, i) == {s[k] : k \in i..Len(s)}

LEMMA FromIs ==
  ASSUME NEW n \in Nat, NEW S \in SUBSET (1..n), NEW s, ListsInOrder(s, S),
         NEW i \in 1..(Len(s) + 1)
  PROVE  /\ From(s, i) \in SUBSET S
         /\ i > Len(s) => From(s, i) = {}
         /\ i <= Len(s) => /\ s[i] \in S /\ From(s, i) = {s[i]} \cup From(s, i + 1)
                           /\ \A x \in From(s, i + 1) : s[i] < x
  <1>1. s \in Seq(S) /\ Increasing(s)
    BY DEF ListsInOrder
  <1>2. DOMAIN s = 1..Len(s) /\ Len(s) \in Nat /\ \A k \in 1..Len(s) : s[k] \in S
    BY <1>1
  <1>3. \A k \in i..Len(s) : k \in 1..Len(s)
    BY <1>2
  <1>4. From(s, i) \in SUBSET S
    BY <1>2, <1>3 DEF From
  <1>5. i > Len(s) => i..Len(s) = {}
    BY <1>2
  <1>6. ASSUME i <= Len(s)
        PROVE  /\ s[i] \in S /\ From(s, i) = {s[i]} \cup From(s, i + 1)
               /\ \A x \in From(s, i + 1) : s[i] < x
    <2>1. i \in 1..Len(s) /\ i..Len(s) = {i} \cup (i + 1)..Len(s)
      BY <1>2, <1>6
    <2>2. \A k \in (i + 1)..Len(s) : k \in DOMAIN s /\ i < k
      BY <1>2
    <2>3. \A k \in (i + 1)..Len(s) : s[i] < s[k]
      BY <1>1, <1>2, <2>1, <2>2 DEF Increasing
    <2> QED BY <1>2, <2>1, <2>3 DEF From
  <1> QED BY <1>4, <1>5, <1>6 DEF From

\* The list of a set whose least element is known.
LEMMA LeastFirst ==
  ASSUME NEW n \in Nat, NEW R \in SUBSET (1..n), NEW x \in 1..n, \A y \in R : x < y
  PROVE  Ascending({x} \cup R) = <<x>> \o Ascending(R)
  <1> DEFINE S == {x} \cup R
             r == Ascending(R)
             s == <<x>> \o r
  <1>1. S \in SUBSET (1..n) /\ S \in SUBSET Nat
    OBVIOUS
  <1>2. ListsInOrder(r, R)
    BY AscendingIs
  <1>3. ListsInOrder(Ascending(S), S)
    BY <1>1, AscendingIs
  <1> HIDE DEF r
  <1>4. r \in Seq(R) /\ ToSet(r) = R /\ Increasing(r)
    BY <1>2 DEF ListsInOrder
  <1>5. r \in Seq(S) /\ <<x>> \in Seq(S) /\ Len(r) \in Nat /\ DOMAIN r = 1..Len(r)
    BY <1>4
  <1>6. s \in Seq(S) /\ Len(s) = Len(r) + 1 /\ s[1] = x
        /\ \A i \in 2..(Len(r) + 1) : s[i] = r[i - 1]
    BY <1>5
  <1>7. DOMAIN s = 1..(Len(r) + 1)
    BY <1>5, <1>6
  <1> HIDE DEF s
  <1>8. \A i \in 1..Len(r) : r[i] \in R
    BY <1>4
  <1>9. ToSet(s) = S
    <2>1. \A i \in DOMAIN s : s[i] \in S
      BY <1>6
    <2>2. \A y \in R : \E i \in DOMAIN s : s[i] = y
      <3> TAKE y \in R
      <3>1. PICK i \in 1..Len(r) : r[i] = y
        BY <1>4, <1>5 DEF ToSet
      <3>2. i + 1 \in 2..(Len(r) + 1) /\ i + 1 \in DOMAIN s /\ (i + 1) - 1 = i
        BY <1>5, <1>7
      <3>3. s[i + 1] = r[(i + 1) - 1]
        BY <1>6, <3>2
      <3> QED BY <3>1, <3>2, <3>3
    <2>3. 1 \in DOMAIN s /\ s[1] = x
      BY <1>5, <1>6, <1>7
    <2> QED BY <2>1, <2>2, <2>3 DEF ToSet
  <1>10. Increasing(s)
    <2> SUFFICES ASSUME NEW i \in 1..(Len(r) + 1), NEW j \in 1..(Len(r) + 1), i < j
                 PROVE  s[i] < s[j]
      BY <1>7 DEF Increasing
    <2>1. j \in 2..(Len(r) + 1) /\ j - 1 \in 1..Len(r)
      BY <1>5
    <2>2. s[j] = r[j - 1] /\ r[j - 1] \in R
      BY <1>6, <1>8, <2>1
    <2>3. CASE i = 1 BY <1>6, <2>2, <2>3
    <2>4. CASE i # 1
      <3>1. i \in 2..(Len(r) + 1) /\ i - 1 \in 1..Len(r) /\ i - 1 < j - 1
        BY <1>5, <2>4
      <3>2. s[i] = r[i - 1] /\ r[i - 1] < r[j - 1]
        BY <1>4, <1>5, <1>6, <2>1, <3>1 DEF Increasing
      <3> QED BY <2>2, <3>2
    <2> QED BY <2>3, <2>4
  <1>11. ListsInOrder(s, S)
    BY <1>6, <1>9, <1>10 DEF ListsInOrder
  <1> HIDE DEF S
  <1>12. Ascending(S) = s
    BY <1>1, <1>3, <1>11, OneOrder
  <1> QED BY <1>12 DEF S, s, r

LEMMA NoneInOrder == Ascending({}) = <<>>
  <1>1. {} \in SUBSET (1..0) /\ Cardinality({}) = 0
    BY FS_EmptySet
  <1>2. ListsInOrder(Ascending({}), {}) /\ Len(Ascending({})) = 0
    BY <1>1, AscendingIs
  <1>3. Ascending({}) \in Seq({})
    BY <1>2 DEF ListsInOrder
  <1> QED BY <1>2, <1>3

\* The merge of two lists in order is the list of what both have, in order: what the
\* recursion of intersect computes is the ascending list of what is left in both.
LEMMA IntersectIs ==
  ASSUME NEW n \in Nat, NEW S \in SUBSET (1..n), NEW T \in SUBSET (1..n),
         NEW a, NEW b, ListsInOrder(a, S), ListsInOrder(b, T)
  PROVE  intersect(a, b) = Slice(Ascending(S \cap T))
  <1> DEFINE I == 1..(Len(a) + 1)
             J == 1..(Len(b) + 1)
             step(f, i, j) ==
               IF i > Len(a) \/ j > Len(b) THEN <<>>
               ELSE IF a[i] < b[j] THEN f[<<i + 1, j>>]
               ELSE IF a[i] > b[j] THEN f[<<i, j + 1>>]
               ELSE <<a[i]>> \o f[<<i + 1, j + 1>>]
             Both(i, j) == From(a, i) \cap From(b, j)
             G == [p \in I \X J |-> Ascending(Both(p[1], p[2]))]
  <1>0. Len(a) \in Nat /\ Len(b) \in Nat /\ a \in Seq(S) /\ b \in Seq(T)
    BY DEF ListsInOrder
  <1>1. ASSUME NEW i \in I, NEW j \in J PROVE Ascending(Both(i, j)) = step(G, i, j)
    <2>1. /\ From(a, i) \in SUBSET S
          /\ i > Len(a) => From(a, i) = {}
          /\ i <= Len(a) => /\ a[i] \in S /\ From(a, i) = {a[i]} \cup From(a, i + 1)
                            /\ \A x \in From(a, i + 1) : a[i] < x
      BY FromIs
    <2>2. /\ From(b, j) \in SUBSET T
          /\ j > Len(b) => From(b, j) = {}
          /\ j <= Len(b) => /\ b[j] \in T /\ From(b, j) = {b[j]} \cup From(b, j + 1)
                            /\ \A x \in From(b, j + 1) : b[j] < x
      BY FromIs
    <2>3. CASE i > Len(a) \/ j > Len(b)
      <3>a. From(a, i) = {} \/ From(b, j) = {}
        BY <2>1, <2>2, <2>3
      <3>1. Both(i, j) = {}
        BY <3>a
      <3> QED BY <2>3, <3>1, NoneInOrder
    <2>4. CASE ~(i > Len(a) \/ j > Len(b))
      <3>1. i \in Nat /\ j \in Nat /\ i <= Len(a) /\ j <= Len(b) /\ i + 1 \in I /\ j + 1 \in J
        BY <1>0, <2>4
      <3>a. a[i] \in S /\ b[j] \in T
        BY <2>1, <2>2, <3>1
      <3>b. \A x \in S \cup T : x \in 1..n /\ x \in Nat
        OBVIOUS
      <3>2. a[i] \in 1..n /\ b[j] \in 1..n /\ a[i] \in Nat /\ b[j] \in Nat
        BY <3>a, <3>b
      <3>3. /\ \A x \in From(a, i + 1) : x \in 1..n /\ a[i] < x
            /\ \A x \in From(b, j + 1) : x \in 1..n /\ b[j] < x
        BY <2>1, <2>2, <3>1
      <3>4. CASE a[i] < b[j]
        <4>1. \A x \in From(b, j) : x # a[i]
          BY <2>2, <3>1, <3>2, <3>3, <3>4
        <4>2. Both(i, j) = Both(i + 1, j)
          BY <2>1, <3>1, <4>1
        <4>3. G[<<i + 1, j>>] = Ascending(Both(i + 1, j))
          BY <3>1
        <4> HIDE DEF G, Both
        <4> QED BY <2>4, <3>4, <4>2, <4>3
      <3>5. CASE a[i] > b[j]
        <4>1. \A x \in From(a, i) : x # b[j]
          BY <2>1, <3>1, <3>2, <3>3, <3>5
        <4>2. Both(i, j) = Both(i, j + 1)
          BY <2>2, <3>1, <4>1
        <4>3. ~(a[i] < b[j])
          BY <3>2, <3>5
        <4>4. G[<<i, j + 1>>] = Ascending(Both(i, j + 1))
          BY <3>1
        <4> HIDE DEF G, Both
        <4> QED BY <2>4, <3>5, <4>2, <4>3, <4>4
      <3>6. CASE a[i] = b[j]
        <4> DEFINE R == Both(i + 1, j + 1)
        <4>1. a[i] \notin From(a, i + 1) /\ b[j] \notin From(b, j + 1)
          BY <3>2, <3>3
        <4>2. Both(i, j) = {a[i]} \cup R
          BY <2>1, <2>2, <3>1, <3>6, <4>1
        <4>3. R \in SUBSET (1..n) /\ \A y \in R : a[i] < y
          BY <3>3
        <4>4. Ascending({a[i]} \cup R) = <<a[i]>> \o Ascending(R)
          <5> HIDE DEF R
          <5> QED BY <3>2, <4>3, LeastFirst
        <4>5. ~(a[i] < b[j]) /\ ~(a[i] > b[j])
          BY <3>2, <3>6
        <4>6. G[<<i + 1, j + 1>>] = Ascending(R)
          BY <3>1
        <4> HIDE DEF R, G, Both
        <4> QED BY <2>4, <4>2, <4>4, <4>5, <4>6
      <3>7. a[i] < b[j] \/ a[i] > b[j] \/ a[i] = b[j]
        BY <3>2
      <3> HIDE DEF G, Both
      <3> QED BY <3>4, <3>5, <3>6, <3>7
    <2> QED BY <2>3, <2>4
  <1> DEFINE Solves(f) == f = [p \in I \X J |-> step(f, p[1], p[2])]
             merge == CHOOSE f : Solves(f)
  <1>2. Solves(G)
    <2>1. \A i \in I, j \in J : Ascending(Both(i, j)) = step(G, i, j)
      BY <1>1
    <2> HIDE DEF step, Both, I, J
    <2> QED BY <2>1 DEF G
  <1>3. Solves(merge)
    <2> HIDE DEF Solves
    <2> QED BY <1>2
  <1>4. intersect(a, b) = Slice(merge[<<1, 1>>])
    BY DEF intersect
  <1> HIDE DEF merge
  <1> DEFINE Good == {k \in Nat : \A i \in I, j \in J :
                        (Len(a) + 1 - i) + (Len(b) + 1 - j) = k => merge[<<i, j>>] = G[<<i, j>>]}
  <1>5. ASSUME NEW k \in Nat, \A m \in 0..(k - 1) : m \in Good PROVE k \in Good
    <2> SUFFICES ASSUME NEW i \in I, NEW j \in J, (Len(a) + 1 - i) + (Len(b) + 1 - j) = k
                 PROVE  merge[<<i, j>>] = G[<<i, j>>]
      OBVIOUS
    <2>1. merge[<<i, j>>] = step(merge, i, j)
      <3> HIDE DEF step, I, J
      <3> QED BY <1>3
    <2>2. G[<<i, j>>] = step(G, i, j)
      <3> HIDE DEF step, I, J, Both
      <3> QED BY <1>1
    <2>3. ASSUME NEW p \in I, NEW q \in J, p + q > i + j PROVE merge[<<p, q>>] = G[<<p, q>>]
      <3>a. (Len(a) + 1 - p) + (Len(b) + 1 - q) \in 0..(k - 1)
        BY <1>0, <2>3
      <3>1. PICK m \in 0..(k - 1) : (Len(a) + 1 - p) + (Len(b) + 1 - q) = m
        BY <3>a
      <3>2. m \in Good
        BY <1>5
      <3> HIDE DEF I, J, G
      <3> QED BY <3>1, <3>2
    <2>4. ~(i > Len(a) \/ j > Len(b)) =>
            /\ i + 1 \in I /\ j + 1 \in J
            /\ (i + 1) + j > i + j /\ i + (j + 1) > i + j /\ (i + 1) + (j + 1) > i + j
      BY <1>0
    <2> HIDE DEF G, Solves, Good, I, J
    <2>5. ~(i > Len(a) \/ j > Len(b)) =>
            /\ merge[<<i + 1, j>>] = G[<<i + 1, j>>] /\ merge[<<i, j + 1>>] = G[<<i, j + 1>>]
            /\ merge[<<i + 1, j + 1>>] = G[<<i + 1, j + 1>>]
      BY <2>3, <2>4
    <2> QED BY <2>1, <2>2, <2>5
  <1> HIDE DEF Good
  <1>6. \A k \in Nat : k \in Good
    BY <1>5, StrongInduction
  <1>7. merge[<<1, 1>>] = G[<<1, 1>>]
    <2>1. PICK k \in Nat : (Len(a) + 1 - 1) + (Len(b) + 1 - 1) = k
      BY <1>0
    <2>2. 1 \in I /\ 1 \in J /\ k \in Good
      BY <1>0, <1>6
    <2> HIDE DEF I, J, G
    <2> QED BY <2>1, <2>2 DEF Good
  <1>8. G[<<1, 1>>] = Ascending(S \cap T)
    <2>1. 1 \in I /\ 1 \in J /\ From(a, 1) = S /\ From(b, 1) = T
      BY <1>0 DEF From, ListsInOrder, ToSet
    <2> QED BY <2>1
  <1> QED BY <1>4, <1>7, <1>8

-----------------------------------------------------------------------------
(***************************************************************************)
(* The data of the code: what a snapshot is loaded with, what a lookup in  *)
(* the index finds and what the loop over a column's constraints gathers.  *)
(***************************************************************************)

\* The snapshot that is served, its index, and the records and the query as Pushdown
\* has them.
LoadedAt(now) ==
  /\ idx = index(parsed, now)
  /\ records = [i \in DOMAIN parsed |->
                  [column \in Columns |-> cell(column, parsed[i].rec, now)]]

Loaded ==
  /\ keys \in Snapshots /\ lists \in Queries /\ clock \in Clocks
  /\ parsed = Read(keys)
  /\ query = [column \in Columns |-> ToSet(lists[column])]
  /\ \E now \in Clocks : LoadedAt(now)

\* A record of a subkey.
RecordOf(key) == [key |-> key, rec |-> record(key)]

LEMMA ReadIs ==
  ASSUME NEW ks \in Snapshots
  PROVE  /\ Read(ks) \in Seq({RecordOf(ks[j]) : j \in DOMAIN ks})
         /\ Len(Read(ks)) \in Nat /\ Len(Read(ks)) <= MaxRecords
         /\ DOMAIN Read(ks) = 1..Len(Read(ks))
  <1> DEFINE S == {j \in DOMAIN ks : ~RecordLost(ks[j])}
             read == Ascending(S)
             T == {RecordOf(ks[j]) : j \in DOMAIN ks}
  <1>1. Len(ks) \in Nat /\ Len(ks) <= MaxRecords /\ DOMAIN ks = 1..Len(ks) /\ MaxRecords \in Nat
    BY TableRowsAssumption, PushdownAssumption
  <1>2. S \in SUBSET (1..Len(ks))
    BY <1>1
  <1>3. ListsInOrder(read, S) /\ Len(read) = Cardinality(S)
    <2> HIDE DEF S
    <2> QED BY <1>1, <1>2, AscendingIs
  <1>4. Len(read) \in Nat /\ Len(read) <= Len(ks)
    <2> HIDE DEF S
    <2> QED BY <1>1, <1>2, <1>3, PositionsFinite
  <1>5. read \in Seq(S)
    BY <1>3 DEF ListsInOrder
  <1> HIDE DEF read
  <1>6. DOMAIN read = 1..Len(read) /\ \A i \in 1..Len(read) : read[i] \in DOMAIN ks
    BY <1>5
  <1>7. Read(ks) = [i \in DOMAIN read |-> RecordOf(ks[read[i]])]
    BY DEF Read, RecordOf, read
  <1>8. Read(ks) \in [1..Len(read) -> T]
    BY <1>6, <1>7
  <1> HIDE DEF T, S
  <1>9. Read(ks) \in Seq(T) /\ Len(Read(ks)) = Len(read) /\ DOMAIN Read(ks) = 1..Len(Read(ks))
    BY <1>4, <1>8
  <1> QED BY <1>1, <1>4, <1>9 DEF T

\* What is parsed and what Pushdown has of it.
LEMMA LoadedIs ==
  ASSUME Loaded
  PROVE  /\ Len(parsed) \in Nat /\ Len(parsed) <= MaxRecords /\ DOMAIN parsed = 1..Len(parsed)
         /\ parsed = <<>> <=> Len(parsed) = 0
         /\ DOMAIN records = DOMAIN parsed /\ Len(records) = Len(parsed)
         /\ Indices = DOMAIN parsed
         /\ records \in [1..Len(parsed) -> Record]
         /\ \A i \in DOMAIN parsed : \E j \in DOMAIN keys : parsed[i] = RecordOf(keys[j])
  <1> DEFINE T == {RecordOf(keys[j]) : j \in DOMAIN keys}
  <1>1. /\ parsed \in Seq(T) /\ Len(parsed) \in Nat /\ Len(parsed) <= MaxRecords
        /\ DOMAIN parsed = 1..Len(parsed)
    BY ReadIs DEF Loaded
  <1>2. \A i \in DOMAIN parsed : \E j \in DOMAIN keys : parsed[i] = RecordOf(keys[j])
    <2>1. \A i \in DOMAIN parsed : parsed[i] \in T
      <3> HIDE DEF T
      <3> QED BY <1>1
    <2> QED BY <2>1
  <1>3. PICK now \in Clocks : LoadedAt(now)
    BY DEF Loaded
  <1>4. ASSUME NEW i \in DOMAIN parsed, NEW column \in Columns
        PROVE  cell(column, parsed[i].rec, now) \in Texts
    <2>1. PICK j \in DOMAIN keys : parsed[i] = RecordOf(keys[j])
      BY <1>2
    <2>2. parsed[i].rec = record(keys[j])
      BY <2>1 DEF RecordOf
    <2> QED BY <2>2, TableRowsAssumption DEF Loaded
  <1>5. records \in [1..Len(parsed) -> Record]
    BY <1>1, <1>3, <1>4 DEF LoadedAt, Record
  <1>6. Len(records) = Len(parsed) /\ DOMAIN records = 1..Len(parsed)
    BY <1>1, <1>5
  <1>7. parsed = <<>> <=> Len(parsed) = 0
    <2> HIDE DEF T
    <2> QED BY <1>1
  <1> QED BY <1>1, <1>2, <1>5, <1>6, <1>7 DEF Indices

\* What the index of a column has under a lowercased text.
Found(column, text) == IF text \in DOMAIN idx[column] THEN idx[column][text] ELSE <<>>

\* A lookup finds the records whose cell is the text in some case, in order.
LEMMA FoundIs ==
  ASSUME Loaded, NEW column \in Pushed, NEW text \in Texts
  PROVE  ListsInOrder(Found(column, Lower(text)), Lookup(column, text))
  <1>1. PICK now \in Clocks : LoadedAt(now)
    BY DEF Loaded
  <1>2. column \in Columns /\ Empty \in Texts
    BY PushdownAssumption
  <1> DEFINE value(i) == cell(column, parsed[i].rec, now)
             seen == {Lower(value(i)) : i \in {j \in DOMAIN parsed : value(j) # Empty}}
             at(t) == {i \in DOMAIN parsed : value(i) # Empty /\ Lower(value(i)) = t}
  <1>3. DOMAIN idx[column] = seen /\ \A t \in seen : idx[column][t] = Ascending(at(t))
    BY <1>1 DEF LoadedAt, index
  <1>4. \A i \in Indices : records[i][column] = value(i) /\ value(i) \in Texts
    BY <1>1, <1>2, LoadedIs DEF LoadedAt, Record
  <1>5. Indices = DOMAIN parsed /\ Len(parsed) \in Nat /\ DOMAIN parsed = 1..Len(parsed)
    BY LoadedIs
  <1>6. Lookup(column, text) = at(Lower(text))
    <2>1. \A t \in Texts : Fold[t] = Lower(t)
      BY TableRowsAssumption
    <2> HIDE DEF value
    <2> QED BY <1>4, <1>5, <2>1 DEF Lookup
  <1>7. CASE Lower(text) \in seen
    <2>1. at(Lower(text)) \in SUBSET (1..Len(parsed))
      BY <1>5
    <2> HIDE DEF at, seen
    <2>2. ListsInOrder(Ascending(at(Lower(text))), at(Lower(text)))
      BY <1>5, <2>1, AscendingIs
    <2> QED BY <1>3, <1>6, <1>7, <2>2 DEF Found
  <1>8. CASE Lower(text) \notin seen
    <2>1. at(Lower(text)) = {}
      BY <1>8
    <2>2. Found(column, Lower(text)) = <<>>
      BY <1>3, <1>8 DEF Found
    <2>3. ListsInOrder(<<>>, {})
      BY DEF ListsInOrder, ToSet, Increasing
    <2> QED BY <1>6, <2>1, <2>2, <2>3
  <1> QED BY <1>7, <1>8

\* Slices of positions.
Slices(S) == {x \in [nil : BOOLEAN, list : Seq(S)] : x.nil => x.list = <<>>}

LEMMA AppendedIs ==
  ASSUME NEW S, NEW slice \in Slices(S), NEW s \in Seq(S)
  PROVE  /\ Appended(slice, s) \in Slices(S)
         /\ ToSet(Appended(slice, s).list) = ToSet(slice.list) \cup ToSet(s)
  <1>1. slice.nil \in BOOLEAN /\ slice.list \in Seq(S) /\ (slice.nil => slice.list = <<>>)
    BY DEF Slices
  <1>2. CASE s = <<>>
    <2>1. ToSet(s) = {}
      BY <1>2 DEF ToSet
    <2> QED BY <1>2, <2>1 DEF Appended
  <1>3. CASE s # <<>>
    <2> DEFINE r == slice.list
               t == r \o s
    <2>1. t \in Seq(S) /\ Len(t) = Len(r) + Len(s) /\ DOMAIN t = 1..Len(t)
          /\ \A i \in 1..Len(t) : t[i] = IF i <= Len(r) THEN r[i] ELSE s[i - Len(r)]
      BY <1>1, ConcatProperties
    <2>2. Appended(slice, s) = Slice(t)
      BY <1>3 DEF Appended
    <2>3. Slice(t) \in Slices(S) /\ Slice(t).list = t
      BY <2>1 DEF Slice, Slices
    <2>4. /\ Len(r) \in Nat /\ DOMAIN r = 1..Len(r)
          /\ Len(s) \in Nat /\ DOMAIN s = 1..Len(s)
      BY <1>1
    <2> HIDE DEF t, r
    <2>5. \A i \in DOMAIN r : i \in DOMAIN t /\ t[i] = r[i]
      BY <2>1, <2>4
    <2>6. \A i \in DOMAIN s : i + Len(r) \in DOMAIN t /\ t[i + Len(r)] = s[i]
      <3> TAKE i \in DOMAIN s
      <3>1. i + Len(r) \in 1..Len(t) /\ ~(i + Len(r) <= Len(r)) /\ (i + Len(r)) - Len(r) = i
        BY <2>1, <2>4
      <3>2. t[i + Len(r)] = s[(i + Len(r)) - Len(r)]
        BY <2>1, <3>1
      <3> QED BY <2>1, <3>1, <3>2
    <2>7. \A i \in DOMAIN t : \/ i \in DOMAIN r /\ t[i] = r[i]
                              \/ i - Len(r) \in DOMAIN s /\ t[i] = s[i - Len(r)]
      BY <2>1, <2>4
    <2>8. ToSet(t) = ToSet(r) \cup ToSet(s)
      BY <2>5, <2>6, <2>7 DEF ToSet
    <2> QED BY <2>2, <2>3, <2>8 DEF r
  <1> QED BY <1>2, <1>3

\* The loop over a column's constraints gathers the hits of the usable equalities.
LEMMA GatherIs ==
  ASSUME Loaded, NEW column \in Pushed
  PROVE  Gather(column) \in Slices(Indices) /\ ToSet(Gather(column).list) = Hits(column)
  <1> DEFINE L == lists[column]
             T == Slices(Indices)
             found(n) == Found(column, Lower(L[n].expr))
             step(h, n) == IF n = 0 THEN Nil
                           ELSE IF Usable(L[n]) THEN Appended(h[n - 1], found(n))
                           ELSE h[n - 1]
             Solves(h) == h = [n \in 0..Len(L) |-> step(h, n)]
             hits == CHOOSE h : Solves(h)
  <1>1. column \in Columns /\ Empty \in Texts
    BY PushdownAssumption
  <1>2. L \in Seq(Constraint) /\ query[column] = ToSet(L)
    BY <1>1, TableRowsAssumption DEF Loaded
  <1>3. Len(L) \in Nat /\ DOMAIN L = 1..Len(L) /\ \A n \in 1..Len(L) : L[n] \in Constraint
    BY <1>2
  <1>4. ASSUME NEW n \in 1..Len(L)
        PROVE  found(n) \in Seq(Indices) /\ ToSet(found(n)) = Lookup(column, L[n].expr)
    <2>1. L[n].expr \in Texts
      BY <1>1, <1>3 DEF Constraint
    <2>2. ListsInOrder(found(n), Lookup(column, L[n].expr))
      BY <2>1, FoundIs
    <2>3. Lookup(column, L[n].expr) \in SUBSET Indices
      BY DEF Lookup
    <2> HIDE DEF found, L
    <2>4. found(n) \in Seq(Lookup(column, L[n].expr))
          /\ ToSet(found(n)) = Lookup(column, L[n].expr)
      BY <2>2 DEF ListsInOrder
    <2> QED BY <2>3, <2>4
  <1>5. Nil \in T
    BY DEF Nil, Slices
  <1>6. ASSUME NEW n \in 1..Len(L), NEW h \in T
        PROVE  /\ Appended(h, found(n)) \in T
               /\ ToSet(Appended(h, found(n)).list) = ToSet(h.list) \cup Lookup(column, L[n].expr)
    <2>1. found(n) \in Seq(Indices) /\ ToSet(found(n)) = Lookup(column, L[n].expr)
      BY <1>4
    <2> HIDE DEF found, L
    <2>2. /\ Appended(h, found(n)) \in Slices(Indices)
          /\ ToSet(Appended(h, found(n)).list) = ToSet(h.list) \cup ToSet(found(n))
      BY <2>1, AppendedIs
    <2> QED BY <2>1, <2>2
  <1> HIDE DEF found, L, T
  <1>7. Gather(column) = hits[Len(L)]
    BY DEF Gather, Found, found, L
  <1>8. \E h : Solves(h)
    <2> DEFINE next == [p \in Nat \X T |-> IF p[1] \in 1..Len(L) /\ Usable(L[p[1]])
                                             THEN Appended(p[2], found(p[1])) ELSE p[2]]
    <2>1. ASSUME NEW n \in Nat, NEW h \in T
          PROVE  /\ next[<<n, h>>] = IF n \in 1..Len(L) /\ Usable(L[n])
                                       THEN Appended(h, found(n)) ELSE h
                 /\ next[<<n, h>>] \in T
      <3>1. next[<<n, h>>] = IF n \in 1..Len(L) /\ Usable(L[n]) THEN Appended(h, found(n)) ELSE h
        OBVIOUS
      <3> HIDE DEF next
      <3> QED BY <1>6, <3>1
    <2> HIDE DEF next
    <2>2. PICK f \in [Nat -> T] : Recurs(f, Nil, next)
      <3>1. Stays(next, T)
        BY <2>1 DEF Stays
      <3> QED BY <1>5, <3>1, NatRecursion
    <2> DEFINE g == [n \in 0..Len(L) |-> f[n]]
    <2>3. ASSUME NEW n \in 0..Len(L) PROVE f[n] = step(g, n)
      <3>1. CASE n = 0 BY <2>2, <3>1 DEF Recurs
      <3>2. CASE n # 0
        <4>1. n \in Nat \ {0} /\ n \in 1..Len(L) /\ n - 1 \in 0..Len(L) /\ n - 1 \in Nat
          BY <1>3, <3>2
        <4>2. f[n] = next[<<n, f[n - 1]>>] /\ f[n - 1] \in T /\ g[n - 1] = f[n - 1]
          BY <2>2, <4>1 DEF Recurs
        <4> HIDE DEF g
        <4>3. f[n] = IF Usable(L[n]) THEN Appended(g[n - 1], found(n)) ELSE g[n - 1]
          BY <2>1, <4>1, <4>2
        <4> QED BY <3>2, <4>3
      <3> QED BY <3>1, <3>2
    <2>4. Solves(g)
      <3> HIDE DEF step
      <3> QED BY <2>3
    <2> QED BY <2>4
  <1>9. Solves(hits)
    <2> HIDE DEF Solves
    <2> QED BY <1>8
  <1> HIDE DEF hits
  <1>10. ASSUME NEW n \in 0..Len(L) PROVE hits[n] = step(hits, n)
    <2> HIDE DEF step
    <2> QED BY <1>9
  <1> DEFINE Upto(n) == UNION {Lookup(column, L[m].expr) : m \in {k \in 1..n : Usable(L[k])}}
             Good == {n \in Nat : n <= Len(L) => hits[n] \in T /\ ToSet(hits[n].list) = Upto(n)}
  <1>11. 0 \in Good
    <2>1. hits[0] = Nil
      BY <1>3, <1>10
    <2>2. ToSet(Nil.list) = {} /\ 1..0 = {}
      BY DEF Nil, ToSet
    <2>3. Upto(0) = {}
      BY <2>2
    <2> QED BY <1>5, <2>1, <2>2, <2>3
  <1>12. ASSUME NEW n \in Nat, n \in Good PROVE n + 1 \in Good
    <2> SUFFICES ASSUME n + 1 <= Len(L)
                 PROVE  hits[n + 1] \in T /\ ToSet(hits[n + 1].list) = Upto(n + 1)
      OBVIOUS
    <2> DEFINE m == n + 1
    <2>1. m \in 0..Len(L) /\ m \in 1..Len(L) /\ m # 0 /\ m - 1 = n /\ n <= Len(L)
          /\ 1..m = {m} \cup 1..n
      BY <1>3
    <2>2. hits[n] \in T /\ ToSet(hits[n].list) = Upto(n)
      BY <1>12, <2>1
    <2> HIDE DEF m, Good
    <2>3. hits[m] = IF Usable(L[m]) THEN Appended(hits[n], found(m)) ELSE hits[n]
      BY <1>10, <2>1
    <2>4. CASE Usable(L[m])
      <3>1. Upto(m) = Upto(n) \cup Lookup(column, L[m].expr)
        BY <2>1, <2>4
      <3> HIDE DEF Upto
      <3> QED BY <1>6, <2>1, <2>2, <2>3, <2>4, <3>1 DEF m
    <2>5. CASE ~Usable(L[m])
      <3>1. {k \in 1..m : Usable(L[k])} = {k \in 1..n : Usable(L[k])}
        BY <2>1, <2>5
      <3>2. Upto(m) = Upto(n)
        BY <3>1
      <3> HIDE DEF Upto
      <3> QED BY <2>2, <2>3, <2>5, <3>2 DEF m
    <2> QED BY <2>4, <2>5
  <1> HIDE DEF Good
  <1>13. \A n \in Nat : n \in Good
    BY <1>11, <1>12, StepInduction
  <1>14. hits[Len(L)] \in T /\ ToSet(hits[Len(L)].list) = Upto(Len(L))
    BY <1>3, <1>13 DEF Good
  <1>15. Upto(Len(L)) = Hits(column)
    BY <1>2, <1>3 DEF Hits, ToSet
  <1> QED BY <1>7, <1>14, <1>15 DEF T

\* A usable constraint is one of the query.
LEMMA UsableIs ==
  ASSUME Loaded, NEW column \in Columns
  PROVE  (\A i \in DOMAIN lists[column] : ~Usable(lists[column][i]))
           <=> \A c \in query[column] : ~Usable(c)
  BY DEF Loaded, ToSet

\* What a column's lookups give rowsFor.
LEMMA HitsIs ==
  ASSUME Loaded, NEW column \in Pushed
  PROVE  LET hits == sortUnique(Gather(column)) IN
         /\ hits = [nil |-> hits.nil, list |-> hits.list] /\ hits.nil \in BOOLEAN
         /\ hits.nil => hits.list = <<>>
         /\ ListsInOrder(hits.list, Hits(column))
  <1> DEFINE g == Gather(column)
             s == ToSet(g.list)
  <1>1. g \in Slices(Indices) /\ s = Hits(column)
    BY GatherIs
  <1>2. g = [nil |-> g.nil, list |-> g.list] /\ g.nil \in BOOLEAN /\ (g.nil => g.list = <<>>)
    BY <1>1 DEF Slices
  <1>3. sortUnique(g) = [nil |-> g.nil, list |-> Ascending(s)]
    BY <1>2 DEF sortUnique
  <1>4. s \in SUBSET (1..Len(parsed)) /\ Len(parsed) \in Nat
    BY <1>1, LoadedIs DEF Hits, Lookup
  <1>5. g.nil => Ascending(s) = <<>>
    <2> SUFFICES ASSUME g.nil PROVE Ascending(s) = <<>>
      OBVIOUS
    <2>1. g.list = <<>>
      BY <1>2
    <2>2. s = {}
      BY <2>1 DEF ToSet
    <2> QED BY <2>2, NoneInOrder
  <1> HIDE DEF g, s
  <1>6. ListsInOrder(Ascending(s), s)
    BY <1>4, AscendingIs
  <1> QED BY <1>1, <1>2, <1>3, <1>5, <1>6 DEF g

-----------------------------------------------------------------------------
(***************************************************************************)
(* TableRows implements Pushdown.  The invariant says what the slices have *)
(* in common with the sets, and which record each row was made from.       *)
(***************************************************************************)

\* The slice of selected lists the selection in order.
SelOK ==
  /\ sel = [nil |-> sel.nil, list |-> sel.list] /\ sel.nil \in BOOLEAN
  /\ sel.nil => sel.list = <<>>
  /\ out \in SUBSET Indices /\ ListsInOrder(sel.list, out)
  /\ todo \subseteq Columns /\ narrowed \in BOOLEAN
  /\ ~narrowed => sel = Nil
  /\ parsed = <<>> => ~narrowed

\* The position of a row.
Place(p) == IF sel.nil THEN p ELSE sel.list[p]

\* What is built and what is left are two parts of one list.
BuiltOK ==
  /\ phase \in {"select", "rows", "done", "failed"}
  /\ built \in 0..rowCount
  /\ phase = "select" => built = 0 /\ rows = {}
  /\ phase # "select" /\ sel.nil => ~narrowed
  /\ phase = "rows" => /\ parsed # <<>> /\ todo = {}
                       /\ left = {Place(p) : p \in (built + 1)..rowCount}
  /\ phase \in {"rows", "done"} => rows = {Place(p) : p \in 1..built}
  /\ phase = "done" => built = rowCount

\* The row of a record, at a moment.
RowAt(i, now) ==
  [key |-> parsed[i].key, at |-> now,
   cells |-> [c \in DOMAIN Kind |-> cell(c, parsed[i].rec, now)]]

TableOK ==
  /\ table \in Seq({RowAt(i, now) : i \in Indices, now \in Clocks})
  /\ Len(table) = IF phase = "failed" THEN 0 ELSE built
  /\ \A p \in DOMAIN table : \E now \in Clocks : table[p] = RowAt(Place(p), now)

TInv == Loaded /\ SelOK /\ BuiltOK /\ TableOK

\* The rows are made from the selection, in order, each once.
LEMMA PlacesIs ==
  ASSUME Loaded, SelOK
  PROVE  /\ rowCount \in Nat
         /\ \A p \in 1..rowCount : Place(p) \in Indices
         /\ \A p, q \in 1..rowCount : p < q => Place(p) < Place(q)
         /\ {Place(p) : p \in 1..rowCount} = IF sel.nil THEN Indices ELSE out
  <1>1. Len(parsed) \in Nat /\ Indices = 1..Len(parsed)
    BY LoadedIs
  <1>2. CASE sel.nil
    <2>1. rowCount = Len(parsed) /\ \A p : Place(p) = p
      BY <1>2 DEF rowCount, Place
    <2> QED BY <1>1, <1>2, <2>1
  <1>3. CASE ~sel.nil
    <2>1. rowCount = Len(sel.list) /\ \A p : Place(p) = sel.list[p]
      BY <1>3 DEF rowCount, Place
    <2>2. sel.list \in Seq(out) /\ ToSet(sel.list) = out /\ Increasing(sel.list)
          /\ out \in SUBSET Indices
      BY DEF SelOK, ListsInOrder
    <2>3. Len(sel.list) \in Nat /\ DOMAIN sel.list = 1..Len(sel.list)
          /\ \A p \in 1..Len(sel.list) : sel.list[p] \in out
      BY <2>2
    <2> QED BY <1>3, <2>1, <2>2, <2>3 DEF ToSet, Increasing
  <1> QED BY <1>2, <1>3

LEMMA CountIs ==
  Loaded /\ SelOK =>
    /\ rowCount \in Nat
    /\ {Place(p) : p \in 1..rowCount} = IF sel.nil THEN Indices ELSE out
  BY PlacesIs

\* A call never writes its snapshot.
LEMMA LoadedStays ==
  ASSUME Loaded, UNCHANGED <<keys, lists, parsed, query, idx, records>>, clock' \in Clocks
  PROVE  Loaded' /\ Indices' = Indices /\ \A i, now : RowAt(i, now)' = RowAt(i, now)
  <1>1. PICK now \in Clocks : LoadedAt(now)
    BY DEF Loaded
  <1>2. LoadedAt(now)'
    BY <1>1 DEF LoadedAt, index
  <1> QED BY <1>2 DEF Loaded, Indices, RowAt

\* What was built stays as it is when the slice does.
LEMMA TableStays ==
  ASSUME Loaded, TableOK, UNCHANGED <<keys, lists, parsed, query, idx, records>>, clock' \in Clocks,
         \/ UNCHANGED <<sel, table, built>> /\ phase # "failed" /\ phase' # "failed"
         \/ built = 0 /\ UNCHANGED <<table, built>> /\ phase # "failed"
  PROVE  TableOK'
  <1>1. Indices' = Indices /\ \A i, now : RowAt(i, now)' = RowAt(i, now)
    BY LoadedStays
  <1>2. CASE UNCHANGED <<sel, table, built>> /\ phase # "failed" /\ phase' # "failed"
    <2>1. \A p : Place(p)' = Place(p)
      BY <1>2 DEF Place
    <2>2. {RowAt(i, now) : i \in Indices, now \in Clocks}'
            = {RowAt(i, now) : i \in Indices, now \in Clocks}
      BY <1>1
    <2> QED BY <1>1, <1>2, <2>1, <2>2 DEF TableOK
  <1>3. CASE built = 0 /\ UNCHANGED <<table, built>> /\ phase # "failed"
    <2>1. Len(table) = 0
      BY <1>3 DEF TableOK
    <2>2. table = <<>>
      BY <2>1 DEF TableOK
    <2>3. table' = <<>> /\ built' = 0
      BY <1>3, <2>2
    <2> QED BY <2>3 DEF TableOK
  <1> QED BY <1>2, <1>3

\* One column of the loop of selected.
LEMMA SelectDoes ==
  ASSUME TInv, NEW column \in Columns, Select(column)
  PROVE  (SkipColumn(column) \/ NarrowBy(column)) /\ TInv'
  <1>1. Loaded /\ SelOK /\ BuiltOK /\ TableOK
    BY DEF TInv
  <1>2. /\ phase = "select" /\ parsed # <<>> /\ column \in todo /\ todo' = todo \ {column}
        /\ UNCHANGED <<records, query, left, rows, built, ctx, phase,
                       keys, parsed, lists, idx, table, clock>>
    BY DEF Select
  <1>3. clock' \in Clocks
    BY <1>1, <1>2 DEF Loaded
  <1>4. Loaded' /\ Indices' = Indices
    BY <1>1, <1>2, <1>3, LoadedStays
  <1>5. built = 0 /\ built' = 0 /\ rows' = {} /\ phase' = "select"
    BY <1>1, <1>2 DEF BuiltOK
  <1>6. TableOK'
    BY <1>1, <1>2, <1>3, <1>5, TableStays
  <1>7. Indices # {}
    <2>1. Len(parsed) \in Nat /\ Len(parsed) # 0 /\ Indices = 1..Len(parsed)
      BY <1>1, <1>2, LoadedIs
    <2>2. 1 \in 1..Len(parsed)
      BY <2>1
    <2> QED BY <2>1, <2>2
  <1>8. (\A i \in DOMAIN lists[column] : ~Usable(lists[column][i]))
          <=> \A c \in query[column] : ~Usable(c)
    BY <1>1, UsableIs
  <1>9. ASSUME SelOK' PROVE TInv'
    <2>1. rowCount' \in Nat
      <3>1. (Loaded /\ SelOK =>
               /\ rowCount \in Nat
               /\ {Place(p) : p \in 1..rowCount} = IF sel.nil THEN Indices ELSE out)'
        BY CountIs, PTL
      <3> QED BY <1>4, <1>9, <3>1
    <2>2. BuiltOK'
      BY <1>5, <2>1 DEF BuiltOK
    <2> QED BY <1>4, <1>6, <1>9, <2>2 DEF TInv
  <1>10. CASE column \notin Pushed \/ \A i \in DOMAIN lists[column] : ~Usable(lists[column][i])
    <2>1. UNCHANGED <<sel, narrowed, out>>
      BY <1>10 DEF Select
    <2>2. SkipColumn(column)
      BY <1>2, <1>7, <1>8, <1>10, <2>1 DEF SkipColumn
    <2>3. SelOK'
      BY <1>1, <1>2, <1>4, <2>1 DEF SelOK
    <2> QED BY <1>9, <2>2, <2>3
  <1>11. CASE ~(column \notin Pushed \/ \A i \in DOMAIN lists[column] : ~Usable(lists[column][i]))
    <2> DEFINE hits == sortUnique(Gather(column))
    <2>1. /\ sel' = IF narrowed THEN intersect(sel.list, hits.list) ELSE hits
          /\ narrowed' = TRUE
          /\ out' = ToSet(sel'.list)
      BY <1>11 DEF Select
    <2>2. /\ hits = [nil |-> hits.nil, list |-> hits.list] /\ hits.nil \in BOOLEAN
          /\ hits.nil => hits.list = <<>>
          /\ ListsInOrder(hits.list, Hits(column))
      BY <1>1, <1>11, HitsIs
    <2> HIDE DEF hits
    <2>3. Hits(column) \in SUBSET Indices /\ Indices = 1..Len(parsed) /\ Len(parsed) \in Nat
      BY <1>1, LoadedIs DEF Hits, Lookup
    <2>4. /\ sel' = [nil |-> sel'.nil, list |-> sel'.list] /\ sel'.nil \in BOOLEAN
          /\ sel'.nil => sel'.list = <<>>
          /\ ListsInOrder(sel'.list, IF narrowed THEN out \cap Hits(column) ELSE Hits(column))
      <3>1. CASE ~narrowed BY <2>1, <2>2, <3>1
      <3>2. CASE narrowed
        <4>1. ListsInOrder(sel.list, out) /\ out \in SUBSET Indices
          BY <1>1 DEF SelOK
        <4>2. intersect(sel.list, hits.list) = Slice(Ascending(out \cap Hits(column)))
          BY <2>2, <2>3, <4>1, IntersectIs
        <4>3. out \cap Hits(column) \in SUBSET (1..Len(parsed))
          BY <2>3
        <4>4. ListsInOrder(Ascending(out \cap Hits(column)), out \cap Hits(column))
          BY <2>3, <4>3, AscendingIs
        <4>5. sel' = [nil |-> FALSE, list |-> Ascending(out \cap Hits(column))]
          BY <2>1, <3>2, <4>2 DEF Slice
        <4> QED BY <3>2, <4>4, <4>5
      <3> QED BY <1>1, <3>1, <3>2 DEF SelOK
    <2>5. out' = IF narrowed THEN out \cap Hits(column) ELSE Hits(column)
      BY <2>1, <2>4 DEF ListsInOrder
    <2>6. NarrowBy(column)
      BY <1>2, <1>7, <1>8, <1>11, <2>1, <2>5 DEF NarrowBy
    <2>7. out' \in SUBSET Indices
      BY <2>3, <2>5
    <2>8. SelOK'
      <3>1. ListsInOrder(sel'.list, out')
        BY <2>4, <2>5
      <3>2. ListsInOrder(sel.list, out)'
        BY <3>1 DEF ListsInOrder, Increasing
      <3> QED BY <1>1, <1>2, <1>4, <2>1, <2>4, <2>7, <3>2 DEF SelOK
    <2> QED BY <1>9, <2>6, <2>8
  <1> QED BY <1>10, <1>11

\* The end of selected.
LEMMA SelectedDoes ==
  ASSUME TInv, Selected
  PROVE  StartRows /\ TInv'
  <1>1. Loaded /\ SelOK /\ BuiltOK /\ TableOK
    BY DEF TInv
  <1>2. /\ phase = "select" /\ parsed # <<>> /\ todo = {}
        /\ sel' = IF narrowed /\ sel.nil THEN Slice(<<>>) ELSE sel
        /\ left' = Picked(sel') /\ phase' = "rows"
        /\ UNCHANGED <<records, query, todo, narrowed, out, rows, built, ctx,
                       keys, parsed, lists, idx, table, clock>>
    BY DEF Selected
  <1>3. clock' \in Clocks /\ built = 0 /\ built' = 0 /\ rows' = {}
    BY <1>1, <1>2 DEF Loaded, BuiltOK
  <1>4. Loaded' /\ Indices' = Indices /\ TableOK'
    BY <1>1, <1>2, <1>3, LoadedStays, TableStays
  <1>5. Indices = 1..Len(parsed) /\ Len(parsed) \in Nat /\ Indices # {}
    <2>1. Len(parsed) \in Nat /\ Len(parsed) # 0 /\ Indices = 1..Len(parsed)
      BY <1>1, <1>2, LoadedIs
    <2>2. 1 \in 1..Len(parsed)
      BY <2>1
    <2> QED BY <2>1, <2>2
  <1>6. /\ sel' = [nil |-> sel'.nil, list |-> sel'.list]
        /\ sel'.nil \in BOOLEAN /\ sel'.list = sel.list
        /\ sel'.nil <=> ~narrowed
        /\ sel'.nil => sel'.list = <<>>
    <2>1. /\ sel = [nil |-> sel.nil, list |-> sel.list] /\ sel.nil \in BOOLEAN
          /\ sel.nil => sel.list = <<>>
          /\ narrowed \in BOOLEAN /\ ~narrowed => sel = Nil
      BY <1>1 DEF SelOK
    <2>2. CASE ~narrowed
      <3>1. sel' = sel
        BY <1>2, <2>2
      <3>a. Nil.nil
        BY DEF Nil
      <3>2. sel.nil
        BY <1>1, <2>2, <3>a DEF SelOK
      <3> QED BY <2>1, <2>2, <3>1, <3>2
    <2>3. CASE narrowed /\ sel.nil
      <3>1. sel' = [nil |-> FALSE, list |-> <<>>]
        BY <1>2, <2>3 DEF Slice
      <3> QED BY <2>1, <2>3, <3>1
    <2>4. CASE narrowed /\ ~sel.nil
      <3>1. sel' = sel
        BY <1>2, <2>4
      <3> QED BY <2>1, <2>4, <3>1
    <2> QED BY <2>2, <2>3, <2>4
  <1>7. SelOK'
    BY <1>1, <1>2, <1>4, <1>6 DEF SelOK, ListsInOrder, Increasing
  <1>8. left' = IF narrowed THEN out ELSE Indices
    BY <1>1, <1>2, <1>6 DEF Picked, SelOK, ListsInOrder
  <1>9. StartRows
    BY <1>2, <1>5, <1>8 DEF StartRows
  <1>10. BuiltOK'
    <2>1. (Loaded /\ SelOK =>
             /\ rowCount \in Nat
             /\ {Place(p) : p \in 1..rowCount} = IF sel.nil THEN Indices ELSE out)'
      BY CountIs, PTL
    <2>2. rowCount' \in Nat /\ left' = {Place(p)' : p \in (0 + 1)..rowCount'}
      BY <1>2, <1>4, <1>6, <1>7, <1>8, <2>1
    <2>3. {Place(p)' : p \in 1..0} = {}
      OBVIOUS
    <2> QED BY <1>2, <1>3, <1>6, <2>2, <2>3 DEF BuiltOK
  <1> QED BY <1>4, <1>7, <1>9, <1>10 DEF TInv

\* A row.
LEMMA BuildDoes ==
  ASSUME TInv, BuildNext
  PROVE  (\E i \in Indices : BuildRow(i)) /\ TInv'
  <1>1. Loaded /\ SelOK /\ BuiltOK /\ TableOK
    BY DEF TInv
  <1>2. /\ phase = "rows" /\ built < rowCount /\ (built % CheckEvery = 0 => ctx = "live")
        /\ table' = Append(table, Row(position)) /\ left' = left \ {position}
        /\ rows' = rows \cup {position} /\ built' = built + 1
        /\ UNCHANGED <<records, query, todo, narrowed, out, ctx, phase,
                       keys, parsed, lists, idx, sel, clock>>
    BY DEF BuildNext
  <1> DEFINE b == built + 1
  <1>3. /\ rowCount \in Nat
        /\ \A p \in 1..rowCount : Place(p) \in Indices
        /\ \A p, q \in 1..rowCount : p < q => Place(p) < Place(q)
    BY <1>1, PlacesIs
  <1>4. built \in Nat /\ b \in 1..rowCount /\ built..built = {built}
    BY <1>1, <1>2, <1>3 DEF BuiltOK
  <1>5. position = Place(b)
    BY DEF position, Place
  <1>6. /\ left = {Place(p) : p \in b..rowCount} /\ rows = {Place(p) : p \in 1..built}
        /\ parsed # <<>> /\ todo = {} /\ (sel.nil => ~narrowed)
    BY <1>1, <1>2 DEF BuiltOK
  <1>7. clock \in Clocks /\ clock' \in Clocks
    BY <1>1, <1>2 DEF Loaded
  <1>8. Loaded' /\ Indices' = Indices /\ \A i, now : RowAt(i, now)' = RowAt(i, now)
    BY <1>1, <1>2, <1>7, LoadedStays
  <1>9. rowCount' = rowCount /\ \A p : Place(p)' = Place(p)
    BY <1>2 DEF rowCount, Place
  <1>10. SelOK'
    BY <1>1, <1>2, <1>8 DEF SelOK, ListsInOrder, Increasing
  <1>11. BuildRow(position)
    <2>1. position \in left
      BY <1>3, <1>4, <1>5, <1>6
    <2>2. ASSUME NEW j \in left PROVE position <= j
      <3>1. PICK p \in b..rowCount : j = Place(p)
        BY <1>6
      <3>2. Place(b) \in Int /\ Place(p) \in Int
        <4>1. Indices = 1..Len(parsed) /\ Len(parsed) \in Nat
          BY <1>1, LoadedIs
        <4>2. p \in 1..rowCount
          BY <1>3, <1>4
        <4> QED BY <1>3, <1>4, <4>1, <4>2
      <3>3. p = b \/ Place(b) < Place(p)
        BY <1>3, <1>4
      <3> QED BY <1>5, <3>1, <3>2, <3>3
    <2> QED BY <1>2, <2>1, <2>2 DEF BuildRow
  <1>12. position \in Indices
    BY <1>3, <1>4, <1>5
  <1>13. BuiltOK'
    <2>1. left' = {Place(p) : p \in (b + 1)..rowCount}
      <3>1. b..rowCount = {b} \cup (b + 1)..rowCount
        BY <1>3, <1>4
      <3>2. \A p \in (b + 1)..rowCount : Place(p) # Place(b)
        <4> TAKE p \in (b + 1)..rowCount
        <4>1. p \in 1..rowCount /\ b < p
          BY <1>3, <1>4
        <4>2. Place(b) < Place(p) /\ Place(b) \in Int
          <5>1. Indices = 1..Len(parsed) /\ Len(parsed) \in Nat
            BY <1>1, LoadedIs
          <5> QED BY <1>3, <1>4, <4>1, <5>1
        <4> QED BY <4>2
      <3> HIDE DEF b
      <3> QED BY <1>2, <1>5, <1>6, <3>1, <3>2
    <2>2. rows' = {Place(p) : p \in 1..b}
      <3>1. 1..b = 1..built \cup {b}
        BY <1>4
      <3> HIDE DEF b
      <3> QED BY <1>2, <1>5, <1>6, <3>1
    <2>3. built' \in 0..rowCount' /\ built' = b
      BY <1>2, <1>3, <1>4, <1>9
    <2> HIDE DEF b
    <2> QED BY <1>2, <1>6, <1>9, <2>1, <2>2, <2>3 DEF BuiltOK
  <1>14. TableOK'
    <2> DEFINE T == {RowAt(i, now) : i \in Indices, now \in Clocks}
               r == Row(position)
    <2>1. r = RowAt(Place(b), clock)
      BY <1>5 DEF Row, RowAt
    <2>2. r \in T
      BY <1>3, <1>4, <1>7, <2>1
    <2>3. table \in Seq(T) /\ Len(table) = built
          /\ \A p \in DOMAIN table : \E now \in Clocks : table[p] = RowAt(Place(p), now)
      BY <1>1, <1>2 DEF TableOK
    <2>4. T' = T
      BY <1>2, <1>8
    <2> HIDE DEF T, r
    <2>5. table' = Append(table, r)
      BY <1>2 DEF r
    <2>6. /\ table' \in Seq(T) /\ Len(table') = b /\ DOMAIN table' = 1..b
          /\ table'[b] = r /\ \A p \in 1..built : p \in DOMAIN table /\ table'[p] = table[p]
      BY <1>4, <2>2, <2>3, <2>5
    <2>7. \A p \in 1..b : p = b \/ p \in 1..built
      BY <1>4
    <2>8. \A p \in DOMAIN table' : \E now \in Clocks : table'[p] = RowAt(Place(p), now)
      BY <1>7, <2>1, <2>3, <2>6, <2>7
    <2>9. phase' # "failed" /\ built' = b
      BY <1>2
    <2> HIDE DEF b
    <2> QED BY <1>8, <1>9, <2>4, <2>6, <2>8, <2>9 DEF TableOK, T
  <1> QED BY <1>8, <1>10, <1>11, <1>12, <1>13, <1>14 DEF TInv

\* The other steps of the call, and of its caller and its clock.
LEMMA RestDoes ==
  ASSUME TInv, StopRows \/ ReturnRows \/ CallerLeaves \/ Tick
  PROVE  [Next]_vars /\ TInv'
  <1>1. Loaded /\ SelOK /\ BuiltOK /\ TableOK
    BY DEF TInv
  <1>2. /\ UNCHANGED <<records, query, todo, narrowed, out, left, built, keys, parsed, lists, idx, sel>>
        /\ clock' \in Clocks
    <2>1. clock \in Clocks
      BY <1>1 DEF Loaded
    <2> QED BY <2>1 DEF StopRows, ReturnRows, CallerLeaves, EndContext, Tick, vars
  <1>3. Loaded' /\ Indices' = Indices
    BY <1>1, <1>2, LoadedStays
  <1>4. SelOK'
    BY <1>1, <1>2, <1>3 DEF SelOK, ListsInOrder, Increasing
  <1>5. rowCount' = rowCount /\ \A p : Place(p)' = Place(p)
    BY <1>2 DEF rowCount, Place
  <1>6. rowCount \in Nat /\ built \in 0..rowCount
    BY <1>1, PlacesIs DEF BuiltOK
  <1>7. parsed = <<>> <=> Indices = {}
    <2>1. Len(parsed) \in Nat /\ (parsed = <<>> <=> Len(parsed) = 0) /\ Indices = 1..Len(parsed)
      BY <1>1, LoadedIs
    <2>2. CASE Len(parsed) = 0 BY <2>1, <2>2
    <2>3. CASE Len(parsed) # 0
      <3>1. 1 \in Indices
        BY <2>1, <2>3
      <3> QED BY <2>1, <2>3, <3>1
    <2> QED BY <2>2, <2>3
  <1>8. ASSUME phase = "rows"
        PROVE  /\ built < rowCount <=> left # {}
               /\ left = {} <=> built = rowCount
    <2>1. left = {Place(p) : p \in (built + 1)..rowCount}
      BY <1>1, <1>8 DEF BuiltOK
    <2>2. CASE built = rowCount
      <3>1. (built + 1)..rowCount = {}
        BY <1>6, <2>2
      <3> QED BY <1>6, <2>1, <2>2, <3>1
    <2>3. CASE built # rowCount
      <3>1. built < rowCount /\ rowCount \in (built + 1)..rowCount
        BY <1>6, <2>3
      <3> QED BY <1>6, <2>1, <2>3, <3>1
    <2> QED BY <2>2, <2>3
  <1>9. CASE StopRows
    <2>1. /\ phase = "rows" /\ built < rowCount /\ built % CheckEvery = 0 /\ ctx = "done"
          /\ table' = <<>> /\ rows' = {} /\ phase' = "failed" /\ ctx' = ctx
      BY <1>9 DEF StopRows
    <2>2. GiveUp
      BY <1>2, <1>8, <2>1 DEF GiveUp
    <2>3. TableOK'
      BY <2>1 DEF TableOK
    <2>4. BuiltOK'
      BY <1>1, <1>2, <1>5, <1>6, <2>1 DEF BuiltOK
    <2> QED BY <1>3, <1>4, <2>2, <2>3, <2>4 DEF TInv, Next
  <1>10. CASE ReturnRows
    <2>1. /\ \/ phase = "rows" /\ built = rowCount
             \/ phase = "select" /\ parsed = <<>>
          /\ phase' = "done" /\ UNCHANGED <<rows, ctx, table, clock>>
      BY <1>10 DEF ReturnRows
    <2>2. Deliver \/ NoRecords
      BY <1>2, <1>7, <1>8, <2>1 DEF Deliver, NoRecords
    <2>3. TableOK'
      BY <1>1, <1>2, <2>1, TableStays
    <2>4. ASSUME phase = "rows" PROVE BuiltOK'
      BY <1>1, <1>2, <1>5, <1>6, <2>1, <2>4 DEF BuiltOK
    <2>5. ASSUME phase = "select" PROVE BuiltOK'
      <3>1. built = 0 /\ rows = {} /\ parsed = <<>>
        BY <1>1, <2>1, <2>5 DEF BuiltOK
      <3>2. sel = Nil /\ sel.nil = TRUE /\ ~narrowed
        BY <1>1, <3>1 DEF SelOK, Nil
      <3>3. rowCount = 0
        BY <3>1, <3>2 DEF rowCount
      <3>4. {Place(p)' : p \in 1..0} = {}
        OBVIOUS
      <3> QED BY <1>2, <1>5, <2>1, <3>1, <3>2, <3>3, <3>4 DEF BuiltOK
    <2>6. BuiltOK'
      BY <2>1, <2>4, <2>5
    <2> QED BY <1>3, <1>4, <2>2, <2>3, <2>6 DEF TInv, Next
  <1>11. CASE CallerLeaves
    <2>1. EndContext /\ UNCHANGED <<rows, phase, table, clock>> /\ phase # "failed"
      BY <1>11 DEF CallerLeaves, EndContext
    <2>2. TableOK'
      BY <1>1, <1>2, <2>1, TableStays
    <2>3. BuiltOK'
      BY <1>1, <1>2, <1>5, <2>1 DEF BuiltOK
    <2> QED BY <1>3, <1>4, <2>1, <2>2, <2>3 DEF TInv, Next
  <1>12. CASE Tick
    <2>1. UNCHANGED vars /\ UNCHANGED table /\ phase # "failed"
      BY <1>12 DEF Tick
    <2>2. UNCHANGED <<rows, phase>>
      BY <2>1 DEF vars
    <2>3. TableOK'
      BY <1>1, <1>2, <2>1, <2>2, TableStays
    <2>4. BuiltOK'
      BY <1>1, <1>2, <1>5, <2>2 DEF BuiltOK
    <2> QED BY <1>3, <1>4, <2>1, <2>3, <2>4 DEF TInv
  <1> QED BY <1>9, <1>10, <1>11, <1>12

\* A loaded snapshot and a query are what Pushdown begins with.
LEMMA BeginsAsPushdown == TableInit => Init /\ TInv
  <1> SUFFICES ASSUME TableInit PROVE Init /\ TInv
    OBVIOUS
  <1>1. Loaded
    BY DEF TableInit, Loaded, LoadedAt
  <1>2. /\ Len(parsed) \in Nat /\ Len(parsed) <= MaxRecords
        /\ records \in [1..Len(parsed) -> Record]
    BY <1>1, LoadedIs
  <1>3. \A column \in Columns :
          query[column] \in {list \in SUBSET Constraint : Cardinality(list) <= MaxConstraints}
    <2> TAKE column \in Columns
    <2> DEFINE L == lists[column]
    <2>1. query[column] = ToSet(L) /\ L \in Seq(Constraint) /\ Len(L) <= MaxConstraints
      BY <1>1, TableRowsAssumption DEF Loaded
    <2> HIDE DEF L
    <2>2. Len(L) \in Nat /\ L \in [1..Len(L) -> Constraint] /\ DOMAIN L = 1..Len(L)
      BY <2>1
    <2>3. ToSet(L) \in SUBSET Constraint /\ L \in Surjection(1..Len(L), ToSet(L))
      BY <2>2 DEF ToSet, Surjection
    <2>4. IsFiniteSet(1..Len(L)) /\ Cardinality(1..Len(L)) = Len(L)
      BY <2>2, FS_Interval
    <2>5. IsFiniteSet(ToSet(L)) /\ Cardinality(ToSet(L)) <= Len(L)
      BY <2>3, <2>4, FS_Surjection
    <2>6. Cardinality(ToSet(L)) \in Nat /\ MaxConstraints \in Nat
      BY <2>5, FS_CardinalityType, PushdownAssumption
    <2> QED BY <2>1, <2>2, <2>3, <2>5, <2>6
  <1>4. Init
    <2>1. query \in [Columns -> {list \in SUBSET Constraint : Cardinality(list) <= MaxConstraints}]
      BY <1>1, <1>3 DEF Loaded
    <2>2. \E n \in 0..MaxRecords : records \in [1..n -> Record]
      BY <1>2, PushdownAssumption
    <2> QED BY <2>1, <2>2 DEF TableInit, Init
  <1>5. SelOK
    <2>1. ListsInOrder(<<>>, {})
      BY DEF ListsInOrder, ToSet, Increasing
    <2> QED BY <2>1 DEF TableInit, SelOK, Nil
  <1>6. BuiltOK
    <2>1. rowCount \in Nat
      BY <1>1, <1>5, PlacesIs
    <2> QED BY <2>1 DEF TableInit, BuiltOK
  <1>7. TableOK
    BY DEF TableInit, TableOK
  <1> QED BY <1>1, <1>4, <1>5, <1>6, <1>7 DEF TInv

LEMMA TableStep ==
  ASSUME TInv, [TableNext]_tableVars
  PROVE  [Next]_vars /\ TInv'
  <1>1. ASSUME NEW column \in Columns, Select(column) PROVE [Next]_vars /\ TInv'
    BY <1>1, SelectDoes DEF Next
  <1>2. CASE Selected BY <1>2, SelectedDoes DEF Next
  <1>3. CASE BuildNext BY <1>3, BuildDoes DEF Next
  <1>4. CASE StopRows \/ ReturnRows \/ CallerLeaves \/ Tick
    BY <1>4, RestDoes
  <1>5. CASE UNCHANGED tableVars
    <2>1. UNCHANGED <<vars, keys, parsed, lists, idx, sel, table, clock>>
      BY <1>5 DEF tableVars
    <2>2. UNCHANGED <<records, query, todo, narrowed, out, left, rows, built, phase>>
      BY <2>1 DEF vars
    <2>3. Loaded'
      BY <2>1, <2>2, LoadedStays DEF TInv, Loaded
    <2>4. SelOK' /\ BuiltOK' /\ TableOK'
      BY <2>1, <2>2 DEF TInv, SelOK, BuiltOK, TableOK, ListsInOrder, Increasing, Indices, Place,
                        rowCount, RowAt
    <2> QED BY <2>1, <2>3, <2>4 DEF TInv
  <1> QED BY <1>1, <1>2, <1>3, <1>4, <1>5 DEF TableNext

\* The slices hold the selection, and each row is of a record at its place.
THEOREM TableInv == TableSpec => []TInv
  <1>1. TInv /\ [TableNext]_tableVars => TInv'
    BY TableStep
  <1> QED BY <1>1, BeginsAsPushdown, PTL DEF TableSpec

\* The lists, slices and positions of the code do what Pushdown says of sets.
THEOREM TableImplements == TableSpec => ImplementsPushdown
  <1>1. TInv /\ [TableNext]_tableVars => [Next]_vars
    BY TableStep
  <1> QED BY <1>1, BeginsAsPushdown, TableInv, PTL DEF TableSpec, ImplementsPushdown, Spec

\* No row the query keeps is lost, with the data the code has.
THEOREM RowsDelivered == TableSpec => []NoRowLost
  BY TableImplements, SupersetDelivered, PTL DEF ImplementsPushdown

\* And no row is built that no usable equality of some column hits.
THEOREM RowsNarrowed == TableSpec => []Narrow
  BY TableImplements, NarrowedToHits, PTL DEF ImplementsPushdown

-----------------------------------------------------------------------------
(***************************************************************************)
(* What the rows are for.                                                  *)
(***************************************************************************)

\* Type correctness, with what the slices and the sets have in common.
THEOREM RowsTypes == TableSpec => []RowsTypeOK
  <1>1. TInv => RowsTypeOK
    <2> SUFFICES ASSUME TInv PROVE RowsTypeOK
      OBVIOUS
    <2>1. /\ todo \subseteq Columns /\ sel.nil \in BOOLEAN
          /\ sel.nil => sel.list = <<>>
          /\ phase \in {"select", "rows", "done", "failed"}
          /\ Len(table) = IF phase = "failed" THEN 0 ELSE built
      BY DEF TInv, SelOK, BuiltOK, TableOK
    <2>2. sel.list \in Seq(out) /\ out \in SUBSET Indices
      BY DEF TInv, SelOK, ListsInOrder
    <2>3. sel.list \in Seq(Indices)
      BY <2>2
    <2>4. DOMAIN idx = Pushed
      BY DEF TInv, Loaded, LoadedAt, index
    <2> QED BY <2>1, <2>3, <2>4 DEF RowsTypeOK
  <1> QED BY <1>1, TableInv, PTL

\* Only the decoder of dates looks at the clock.
LEMMA CellStays ==
  ASSUME NEW c, Kind[c] # "kTime", NEW rec, NEW now, NEW later
  PROVE  cell(c, rec, now) = cell(c, rec, later)
  BY Zenon DEF cell

\* A row is of the record at its place.
LEMMA RowIs ==
  ASSUME TInv, NEW p \in DOMAIN table
  PROVE  /\ p \in 1..built /\ p \in 1..rowCount /\ Place(p) \in Indices
         /\ \E now \in Clocks : table[p] = RowAt(Place(p), now)
  <1>1. Loaded /\ SelOK /\ BuiltOK /\ TableOK
    BY DEF TInv
  <1>2. rowCount \in Nat /\ \A q \in 1..rowCount : Place(q) \in Indices
    BY <1>1, PlacesIs
  <1>3. built \in 0..rowCount
    BY <1>1 DEF BuiltOK
  <1>4. DOMAIN table = 1..Len(table) /\ Len(table) = IF phase = "failed" THEN 0 ELSE built
    BY <1>1 DEF TableOK
  <1>5. p \in 1..built /\ p \in 1..rowCount
    BY <1>2, <1>3, <1>4
  <1> QED BY <1>1, <1>2, <1>5 DEF TableOK

\* A value typed as it is shown, in either case and at any later time, finds its row.
THEOREM ShownIsFound == TableSpec => []SeenIsFound
  <1>1. TInv => SeenIsFound
    <2> SUFFICES ASSUME TInv, NEW p \in DOMAIN table, NEW column \in Pushed,
                        table[p].cells[column] # Empty
                 PROVE  LET shown == table[p].cells[column] IN
                        /\ Lower(shown) \in DOMAIN idx[column]
                        /\ \E i \in ToSet(idx[column][Lower(shown)]) :
                             parsed[i].key = table[p].key
      BY DEF SeenIsFound
    <2> DEFINE shown == table[p].cells[column]
               i == Place(p)
    <2>1. Loaded /\ i \in Indices
      BY RowIs DEF TInv
    <2>2. PICK now \in Clocks : table[p] = RowAt(i, now)
      BY RowIs
    <2>3. column \in Columns /\ column \in DOMAIN Kind /\ Kind[column] # "kTime"
      BY PushdownAssumption, TableRowsAssumption
    <2>4. shown = cell(column, parsed[i].rec, now) /\ table[p].key = parsed[i].key
      BY <2>2, <2>3 DEF RowAt
    <2>5. PICK load \in Clocks : LoadedAt(load)
      BY <2>1 DEF Loaded
    <2>6. i \in DOMAIN parsed /\ records \in [1..Len(parsed) -> Record] /\ DOMAIN parsed = 1..Len(parsed)
      BY <2>1, LoadedIs
    <2> HIDE DEF shown, i
    <2>7. records[i][column] = cell(column, parsed[i].rec, load)
      BY <2>3, <2>5, <2>6 DEF LoadedAt
    <2>8. records[i][column] = shown
      BY <2>3, <2>4, <2>7, CellStays
    <2>9. shown \in Texts /\ shown # Empty
      BY <2>3, <2>6, <2>8 DEF Record, shown
    <2>10. i \in Lookup(column, shown)
      BY <2>1, <2>8, <2>9 DEF Lookup
    <2>11. ToSet(Found(column, Lower(shown))) = Lookup(column, shown)
      BY <2>1, <2>9, FoundIs DEF ListsInOrder
    <2>12. Lower(shown) \in DOMAIN idx[column]
      <3> SUFFICES ASSUME Lower(shown) \notin DOMAIN idx[column] PROVE FALSE
        OBVIOUS
      <3>1. ToSet(Found(column, Lower(shown))) = {}
        BY DEF Found, ToSet
      <3> QED BY <2>10, <2>11, <3>1
    <2>13. i \in ToSet(idx[column][Lower(shown)])
      BY <2>10, <2>11, <2>12 DEF Found
    <2> QED BY <2>4, <2>12, <2>13 DEF shown
  <1> QED BY <1>1, TableInv, PTL

\* What decode turns into a text does not make the library panic: the bytes an integer
\* is taken from are there.
LEMMA DecodesIsSafe ==
  ASSUME NEW v, v.size \in Nat, v.room \in Nat \cup {BigData}, Decodes(v)
  PROVE  ~Panics(v)
  <1> SUFFICES ASSUME v.type \in IntegerTypes PROVE ~(BytesRead(v) < Width(v))
    BY DEF Panics
  <1>1. v.size = Width(v) /\ Width(v) \in {4, 8}
    BY DEF Decodes, Width
  <1>2. CASE v.inline
    <2>1. Width(v) = 4 /\ BytesRead(v) = 4
      BY <1>2 DEF Decodes, BytesRead
    <2> QED BY <2>1
  <1>3. CASE ~v.inline
    <2>1. Signature(v) # sigDb /\ v.room >= Width(v)
      BY <1>3 DEF Decodes
    <2>2. v.room \in Nat
      BY <2>1 DEF Signature
    <2>3. BytesRead(v) = IF v.size < v.room THEN v.size ELSE v.room
      BY <1>3, <2>1, Zenon DEF BytesRead
    <2> QED BY <1>1, <2>1, <2>2, <2>3
  <1> QED BY <1>2, <1>3

\* So every subkey is a record, at its own position.
LEMMA AllRead ==
  ASSUME Loaded
  PROVE  /\ Len(keys) \in Nat /\ DOMAIN keys = 1..Len(keys)
         /\ parsed = [i \in DOMAIN keys |-> RecordOf(keys[i])]
  <1> DEFINE n == Len(keys)
             S == {j \in DOMAIN keys : ~RecordLost(keys[j])}
             all == [i \in 1..n |-> i]
  <1>1. keys \in Snapshots /\ n \in Nat /\ DOMAIN keys = 1..n
    BY TableRowsAssumption, PushdownAssumption DEF Loaded
  <1>2. ASSUME NEW j \in DOMAIN keys PROVE ~RecordLost(keys[j])
    <2> SUFFICES ASSUME NEW i \in Kept(keys[j]) PROVE ~Panics(keys[j].values[i])
      BY DEF RecordLost
    <2>1. i \in DOMAIN keys[j].values /\ Decodes(keys[j].values[i])
      BY DEF Kept
    <2>2. keys[j].values[i] \in RegistryValue
      <3>1. keys[j] \in RegistryKey
        BY <1>1, TableRowsAssumption
      <3>2. keys[j].values \in Seq(RegistryValue)
        BY <3>1 DEF RegistryKey
      <3> QED BY <2>1, <3>2
    <2>3. keys[j].values[i].size \in Nat /\ keys[j].values[i].room \in Nat \cup {BigData}
      BY <2>2 DEF RegistryValue
    <2> QED BY <2>1, <2>3, DecodesIsSafe
  <1>3. S = 1..n
    BY <1>1, <1>2
  <1>4. ListsInOrder(all, 1..n)
    <2>1. all \in Seq(1..n) /\ DOMAIN all = 1..n
      BY <1>1
    <2> QED BY <2>1 DEF ListsInOrder, ToSet, Increasing
  <1>5. ListsInOrder(Ascending(S), 1..n)
    <2> HIDE DEF S
    <2> QED BY <1>1, <1>3, AscendingIs
  <1>6. Ascending(S) = all
    <2> HIDE DEF S, all
    <2>1. 1..n \in SUBSET Nat
      BY <1>1
    <2> QED BY <1>4, <1>5, <2>1, OneOrder
  <1>7. parsed = [i \in DOMAIN Ascending(S) |-> RecordOf(keys[Ascending(S)[i]])]
    BY DEF Loaded, Read, RecordOf
  <1> HIDE DEF S
  <1> QED BY <1>1, <1>6, <1>7

\* A query that keeps what a subkey shows gets a row for it, and one only: no damage
\* costs a record, no list loses or repeats a position, and every position has a row.
THEOREM EverySubkeyServed == TableSpec => []NoSubkeyLost
  <1>1. TInv /\ NoRowLost => NoSubkeyLost
    <2> DEFINE shows(key) == [column \in Columns |-> cell(column, record(key), clock)]
               A(j) == {p \in DOMAIN table : table[p].key = keys[j]}
               B(j) == {i \in DOMAIN keys : keys[i] = keys[j]}
    <2> SUFFICES ASSUME TInv, NoRowLost, phase = "done", NEW j \in DOMAIN keys,
                        WantedByAll(shows(keys[j]))
                 PROVE  Cardinality(A(j)) = Cardinality(B(j))
      BY DEF NoSubkeyLost
    <2>1. Loaded /\ SelOK /\ BuiltOK /\ TableOK
      BY DEF TInv
    <2>2. /\ Len(keys) \in Nat /\ DOMAIN keys = 1..Len(keys)
          /\ parsed = [i \in DOMAIN keys |-> RecordOf(keys[i])]
      BY <2>1, AllRead
    <2>3. Indices = DOMAIN keys
      BY <2>1, <2>2, LoadedIs
    <2>4. ASSUME NEW i \in B(j) PROVE WantedByAll(records[i])
      <3>1. PICK load \in Clocks : LoadedAt(load)
        BY <2>1 DEF Loaded
      <3>2. i \in DOMAIN parsed /\ parsed[i].rec = record(keys[j])
        BY <2>2, <2>4 DEF RecordOf
      <3>3. records[i] = [column \in Columns |-> cell(column, record(keys[j]), load)]
        BY <3>1, <3>2 DEF LoadedAt
      <3>4. \A column \in Columns : Kind[column] # "kTime"
        BY TableRowsAssumption
      <3>5. \A column \in Columns :
              cell(column, record(keys[j]), load) = cell(column, record(keys[j]), clock)
        BY <3>4, CellStays
      <3>6. records[i] = shows(keys[j])
        BY <3>3, <3>5
      <3> QED BY <3>6
    <2>5. /\ rowCount \in Nat
          /\ \A p \in 1..rowCount : Place(p) \in Indices
          /\ \A p, q \in 1..rowCount : p < q => Place(p) < Place(q)
      BY <2>1, PlacesIs
    <2>6. built = rowCount /\ rows = {Place(p) : p \in 1..built}
          /\ Len(table) = built /\ DOMAIN table = 1..built
      BY <2>1 DEF BuiltOK, TableOK
    <2>7. ASSUME NEW p \in DOMAIN table PROVE Place(p) \in Indices /\ table[p].key = keys[Place(p)]
      <3>1. Place(p) \in Indices /\ \E now \in Clocks : table[p] = RowAt(Place(p), now)
        BY RowIs
      <3>2. table[p].key = parsed[Place(p)].key
        BY <3>1 DEF RowAt
      <3> QED BY <2>2, <2>3, <3>1, <3>2 DEF RecordOf
    <2> DEFINE f == [p \in A(j) |-> Place(p)]
    <2>8. f \in [A(j) -> B(j)]
      BY <2>3, <2>7
    <2>9. ASSUME NEW p \in A(j), NEW q \in A(j), p # q PROVE f[p] # f[q]
      <3>1. p \in 1..rowCount /\ q \in 1..rowCount
        BY <2>6
      <3>2. p < q \/ q < p
        BY <2>5, <2>9, <3>1
      <3>3. Place(p) \in Int /\ Place(q) \in Int
        BY <2>2, <2>3, <2>5, <3>1
      <3>4. Place(p) < Place(q) \/ Place(q) < Place(p)
        BY <2>5, <3>1, <3>2
      <3>5. Place(p) # Place(q)
        BY <3>3, <3>4
      <3> QED BY <3>5
    <2>10. ASSUME NEW i \in B(j) PROVE \E p \in A(j) : f[p] = i
      <3>1. i \in Indices /\ keys[i] = keys[j]
        BY <2>3
      <3>2. i \in rows
        BY <2>4, <3>1 DEF NoRowLost
      <3>3. PICK p \in 1..built : Place(p) = i
        BY <2>6, <3>2
      <3>4. p \in A(j)
        BY <2>6, <2>7, <3>1, <3>3
      <3> QED BY <3>3, <3>4
    <2>11. IsFiniteSet(A(j))
      <3>1. A(j) \in SUBSET (1..built) /\ built \in Nat
        BY <2>5, <2>6
      <3> HIDE DEF A
      <3> QED BY <3>1, PositionsFinite
    <2> HIDE DEF A, B, f
    <2>12. f \in Bijection(A(j), B(j))
      <3>1. \A p, q \in A(j) : f[p] = f[q] => p = q
        BY <2>9
      <3>2. f \in Injection(A(j), B(j))
        BY <2>8, <3>1 DEF Injection, IsInjective
      <3>3. f \in Surjection(A(j), B(j))
        BY <2>8, <2>10 DEF Surjection
      <3> QED BY <3>2, <3>3 DEF Bijection
    <2>13. ExistsBijection(A(j), B(j))
      BY <2>12 DEF ExistsBijection
    <2> QED BY <2>11, <2>13, FS_Bijection
  <1> QED BY <1>1, TableInv, RowsDelivered, PTL


-----------------------------------------------------------------------------
(***************************************************************************)
(* What the cells say.                                                     *)
(***************************************************************************)

\* What decode keeps is what the hive holds whole, but for the integers that are taken
\* for big data.
LEMMA ShownIs ==
  ASSUME NEW v \in RegistryValue
  PROVE  Decodes(v) <=> Shown(v)
  <1>1. v.size \in Nat /\ v.room \in Nat \cup {BigData} /\ v.inline \in BOOLEAN
    BY DEF RegistryValue
  <1>2. IntegerTypes \cap TextTypes = {}
    BY DEF IntegerTypes, Integers4, TextTypes
  <1>3. CASE v.type \in IntegerTypes
    <2>1. Width(v) \in {4, 8}
      BY DEF Width
    <2>2. CASE v.inline
      <3>1. Decodes(v) <=> v.size <= MaxValueBytes /\ v.size = Width(v) /\ Width(v) = 4
        BY <1>3, <2>2 DEF Decodes
      <3>2. Shown(v) <=> v.size <= MaxValueBytes /\ v.size = Width(v) /\ v.size = 4
        BY <1>2, <1>3, <2>2 DEF Shown, Intact, TakenForBigData
      <3> QED BY <3>1, <3>2
    <2>3. CASE ~v.inline
      <3> DEFINE small == v.size <= MaxValueBytes /\ v.size = Width(v)
                 low   == v.text.number % 65536
      <3>1. Decodes(v) <=> small /\ Signature(v) # sigDb /\ v.room >= Width(v)
        BY <1>3, <2>3 DEF Decodes
      <3>2. Shown(v) <=> small /\ v.size <= v.room /\ low # sigDb
        BY <1>2, <1>3, <2>3 DEF Shown, Intact, TakenForBigData
      <3>3. Signature(v) = IF v.room = BigData THEN sigDb ELSE low
        BY DEF Signature
      <3> HIDE DEF low
      <3>4. CASE v.room = BigData
        <4>1. ~Decodes(v)
          BY <3>1, <3>3, <3>4
        <4>2. ~(v.size <= v.room) \/ ~small
          BY <1>1, <2>1, <3>4 DEF BigData
        <4> QED BY <3>2, <4>1, <4>2
      <3>5. CASE v.room # BigData
        <4>1. v.room \in Nat
          BY <1>1, <3>5
        <4>2. small => (v.room >= Width(v) <=> v.size <= v.room)
          BY <1>1, <2>1, <4>1
        <4>3. Signature(v) = low
          BY <3>3, <3>5
        <4> QED BY <3>1, <3>2, <4>2, <4>3
      <3> QED BY <3>4, <3>5
    <2> QED BY <1>1, <2>2, <2>3
  <1>4. CASE v.type \notin IntegerTypes
    BY <1>4 DEF Decodes, Shown, Intact, TakenForBigData
  <1> QED BY <1>3, <1>4

\* The texts are told apart by their fields.
LEMMA TextsDiffer ==
  /\ \A t \in NameText : IsName(t) /\ ~IsDate(t) /\ ~IsList(t) /\ ~IsNumber(t)
  /\ \A t \in DateText : ~IsName(t) /\ IsDate(t) /\ ~IsList(t) /\ ~IsNumber(t)
  /\ \A t \in ListText : ~IsName(t) /\ ~IsDate(t) /\ IsList(t) /\ ~IsNumber(t)
  /\ \A t \in NumberText : ~IsName(t) /\ ~IsDate(t) /\ ~IsList(t) /\ IsNumber(t)
  BY DEF NameText, DateText, ListText, NumberText, IsName, IsDate, IsList, IsNumber

LEMMA BlankIs ==
  IsName(Blank) /\ ~IsDate(Blank) /\ ~IsList(Blank) /\ ~IsNumber(Blank)
  BY DEF Blank, IsName, IsDate, IsList, IsNumber

\* A column is made from the last value of its name that decode keeps.
LEMMA SourceIs ==
  ASSUME NEW key \in RegistryKey, NEW c
  PROVE  LET rec == record(key)
             s == IF c \in DOMAIN rec.V THEN rec.V[c] ELSE Blank IN
         /\ rec.name = key.name /\ key.name \in NameText
         /\ rec.lastWrite = lastWrite(key.stamp) /\ key.stamp \in Nat
         /\ s \in Text \cup {Blank}
         /\ Kind[c] \notin {"kKey", "kKeyPath", "kKeyLower"} => Source(c, key) = s
         /\ Kind[c] \in {"kKey", "kKeyPath", "kKeyLower"} => Source(c, key) = key.name
  <1> DEFINE rec == record(key)
             s == IF c \in DOMAIN rec.V THEN rec.V[c] ELSE Blank
             kept == Kept(key)
             named == {i \in kept : key.values[i].name = c}
             shown == {i \in DOMAIN key.values :
                         key.values[i].name = c /\ Shown(key.values[i])}
             last == CHOOSE i \in kept : /\ key.values[i].name = c
                                         /\ \A j \in kept : key.values[j].name = c => j <= i
             final == CHOOSE i \in shown : \A j \in shown : j <= i
  <1>1. key.name \in NameText /\ key.stamp \in Nat /\ key.values \in Seq(RegistryValue)
    BY DEF RegistryKey
  <1>2. Len(key.values) \in Nat /\ DOMAIN key.values = 1..Len(key.values)
        /\ \A i \in DOMAIN key.values : key.values[i] \in RegistryValue
    BY <1>1
  <1>3. rec.name = key.name /\ rec.lastWrite = lastWrite(key.stamp)
    BY DEF record
  <1>4. DOMAIN rec.V = {key.values[i].name : i \in kept}
    BY DEF record
  <1>5. c \in DOMAIN rec.V => rec.V[c] = key.values[last].text
    BY DEF record
  <1>6. \A i \in DOMAIN key.values : Decodes(key.values[i]) <=> Shown(key.values[i])
    BY <1>2, ShownIs
  <1>7. c \in DOMAIN rec.V <=> named # {}
    <2> HIDE DEF rec, kept, last, final, s, shown
    <2> QED BY <1>4
  <1>8. Len(key.values) <= MaxValues => named = shown
    BY <1>2, <1>6, CellsAssumption DEF Kept
  <1>9. Len(key.values) > MaxValues => named = {}
    BY DEF Kept
  <1>10. ASSUME named # {} PROVE last = final /\ last \in DOMAIN key.values
    <2>0. named = shown
      BY <1>2, <1>8, <1>9, <1>10, CellsAssumption
    <2>1. named \in SUBSET Nat /\ \A i \in named : i <= Len(key.values)
      BY <1>2 DEF Kept
    <2> HIDE DEF named, kept, shown, last, final
    <2>2. PICK most \in named : \A i \in named : i <= most
      BY <1>2, <1>10, <2>1, GreatestNatural
    <2>3. final = most
      <3>1. final \in named /\ \A i \in named : i <= final
        BY <2>0, <2>2 DEF final
      <3> QED BY <2>1, <2>2, <3>1
    <2>4. most \in kept /\ key.values[most].name = c
          /\ \A i \in kept : key.values[i].name = c => i \in named /\ i <= most
      BY <2>2 DEF named
    <2>5. last = most
      <3>1. last \in kept /\ key.values[last].name = c
            /\ \A i \in kept : key.values[i].name = c => i <= last
        BY <2>4 DEF last
      <3>2. last \in named
        BY <3>1 DEF named
      <3> QED BY <2>1, <2>2, <2>4, <3>1, <3>2
    <2>6. most \in DOMAIN key.values
      BY <2>0, <2>2 DEF shown
    <2> QED BY <2>3, <2>5, <2>6
  <1>11. s \in Text \cup {Blank}
    <2>1. CASE named # {}
      <3>1. key.values[last].text \in Text
        BY <1>2, <1>10, <2>1 DEF RegistryValue
      <3> HIDE DEF rec, last, final, named, shown
      <3> QED BY <1>5, <1>7, <2>1, <3>1
    <2>2. CASE named = {}
      BY <1>7, <2>2
    <2> QED BY <2>1, <2>2
  <1>12. ASSUME Kind[c] \notin {"kKey", "kKeyPath", "kKeyLower"} PROVE Source(c, key) = s
    <2>1. Source(c, key) = IF shown = {} \/ Len(key.values) > MaxValues THEN Blank
                           ELSE key.values[final].text
      BY <1>12 DEF Source
    <2> HIDE DEF named, kept, shown, last, final, rec
    <2> QED BY <1>2, <1>5, <1>7, <1>8, <1>9, <1>10, <2>1, CellsAssumption
  <1>13. Kind[c] \in {"kKey", "kKeyPath", "kKeyLower"} => Source(c, key) = key.name
    BY DEF Source
  <1> HIDE DEF s, rec
  <1>14. /\ rec.name = key.name /\ key.name \in NameText
         /\ rec.lastWrite = lastWrite(key.stamp) /\ key.stamp \in Nat
         /\ s \in Text \cup {Blank}
         /\ Kind[c] \notin {"kKey", "kKeyPath", "kKeyLower"} => Source(c, key) = s
         /\ Kind[c] \in {"kKey", "kKeyPath", "kKeyLower"} => Source(c, key) = key.name
    BY <1>1, <1>3, <1>11, <1>12, <1>13
  <1> QED BY <1>14 DEF s, rec

\* Ticks are counted from 1970, a whole number of seconds.
LEMMA DivisionIs ==
  ASSUME NEW t \in Nat \ {0}, NEW n \in Nat, NEW q \in Int, NEW r \in 0..(t - 1), n = t * q + r
  PROVE  q = n \div t
  <1>1. n \div t \in Int /\ n % t \in 0..(t - 1) /\ n = t * (n \div t) + (n % t)
    OBVIOUS
  <1>2. ASSUME NEW k \in Int, k >= 1 PROVE t * k >= t
    BY <1>2
  <1> DEFINE d == n \div t
             e == n % t
  <1>3. d \in Int /\ e \in 0..(t - 1) /\ t * (q - d) = e - r /\ t * (d - q) = r - e
    BY <1>1
  <1> HIDE DEF d, e
  <1>4. ~(q - d >= 1) /\ ~(d - q >= 1)
    <2>1. ASSUME q - d >= 1 PROVE FALSE
      <3>1. t * (q - d) >= t
        BY <1>2, <1>3, <2>1
      <3> QED BY <1>3, <3>1
    <2>2. ASSUME d - q >= 1 PROVE FALSE
      <3>1. t * (d - q) >= t
        BY <1>2, <1>3, <2>2
      <3> QED BY <1>3, <3>1
    <2> QED BY <2>1, <2>2
  <1>5. q = d
    BY <1>3, <1>4
  <1> QED BY <1>5 DEF d

LEMMA LastWriteIs ==
  ASSUME NEW ft \in Nat
  PROVE  LET since == ft - filetimeEpoch IN
         IF since \in TicksPerSecond..(filetimeMax - filetimeEpoch - 1)
         THEN lastWrite(ft) # 0 /\ lastWrite(ft) = since \div TicksPerSecond
         ELSE lastWrite(ft) = 0
  <1> DEFINE since == ft - filetimeEpoch
             t == TicksPerSecond
             q == ft \div t - filetimeEpoch \div t
  <1>1. t \in Nat \ {0} /\ filetimeEpoch \in Nat /\ filetimeMax \in Nat /\ filetimeEpoch % t = 0
    BY CellsAssumption
  <1>2. CASE since < 0
    BY <1>1, <1>2 DEF lastWrite
  <1>3. CASE since >= 0
    <2>1. filetimeEpoch = t * (filetimeEpoch \div t) /\ filetimeEpoch \div t \in Int
      BY <1>1
    <2>2. ft = t * (ft \div t) + (ft % t) /\ ft \div t \in Int /\ ft % t \in 0..(t - 1)
      BY <1>1
    <2>3. q \in Int /\ since = t * q + (ft % t)
      <3> DEFINE a == ft \div t
                 b == filetimeEpoch \div t
      <3>1. a \in Int /\ b \in Int /\ ft = t * a + (ft % t) /\ filetimeEpoch = t * b
        BY <2>1, <2>2
      <3> HIDE DEF a, b
      <3>2. t * (a - b) = t * a - t * b
        BY <1>1, <3>1
      <3> QED BY <1>1, <2>2, <3>1, <3>2 DEF a, b
    <2>4. since \in Nat
      BY <1>1, <1>3
    <2> HIDE DEF q, since
    <2>5. q = since \div t
      BY <1>1, <2>2, <2>3, <2>4, DivisionIs
    <2>6. q # 0 <=> since >= t
      <3>1. CASE since >= t
        <4>1. q # 0
          <5>1. q = 0 => t * q = 0
            BY <1>1
          <5> QED BY <1>1, <2>2, <2>3, <3>1, <5>1
        <4> QED BY <3>1, <4>1
      <3>2. CASE since < t
        <4>1. since = t * 0 + since /\ since \in 0..(t - 1)
          BY <1>1, <2>4, <3>2
        <4>2. 0 = since \div t
          BY <1>1, <2>4, <4>1, DivisionIs
        <4> QED BY <1>1, <2>4, <2>5, <3>2, <4>2
      <3> QED BY <1>1, <2>4, <3>1, <3>2
    <2>7. lastWrite(ft) = IF ft >= filetimeMax THEN 0 ELSE q
      BY <1>1, <1>3 DEF lastWrite, q, since
    <2>8. since \in t..(filetimeMax - filetimeEpoch - 1) <=> since >= t /\ ~(ft >= filetimeMax)
      BY <1>1 DEF since
    <2>9. IF since \in t..(filetimeMax - filetimeEpoch - 1)
          THEN lastWrite(ft) # 0 /\ lastWrite(ft) = since \div t
          ELSE lastWrite(ft) = 0
      BY <2>5, <2>6, <2>7, <2>8
    <2> QED BY <2>9 DEF since
  <1> QED BY <1>1, <1>2, <1>3

\* u holds the first n items of L that are not empty, and at says where they are.
Keeps(u, L, n, at) ==
  /\ at \in [DOMAIN u -> 1..n]
  /\ \A i, j \in DOMAIN u : i < j => at[i] < at[j]
  /\ {at[i] : i \in DOMAIN u} = {k \in 1..n : L[k] # NoWord}
  /\ \A i \in DOMAIN u : u[i] = L[at[i]]

\* An item that is appended is the last one; an empty one is passed over.
LEMMA KeepsNext ==
  ASSUME NEW W, NEW u \in Seq(W), NEW L, NEW n \in Nat, NEW at, Keeps(u, L, n, at),
         L[n + 1] \in W
  PROVE  IF L[n + 1] # NoWord THEN \E to : Keeps(Append(u, L[n + 1]), L, n + 1, to)
         ELSE Keeps(u, L, n + 1, at)
  <1> DEFINE m == n + 1
             w == Append(u, L[m])
             to == [i \in 1..(Len(u) + 1) |-> IF i <= Len(u) THEN at[i] ELSE m]
             full(k) == {i \in 1..k : L[i] # NoWord}
  <1>1. m \in Nat /\ n < m /\ 1..m = 1..n \cup {m} /\ L[m] \in W
    OBVIOUS
  <1> HIDE DEF m
  <1>2. /\ Len(u) \in Nat /\ DOMAIN u = 1..Len(u)
        /\ DOMAIN w = 1..Len(u) \cup {Len(u) + 1} /\ DOMAIN w = 1..(Len(u) + 1)
        /\ w[Len(u) + 1] = L[m]
        /\ \A i \in 1..Len(u) : w[i] = u[i]
    BY <1>1
  <1>3. /\ \A i \in DOMAIN u : at[i] \in 1..n
        /\ \A i, j \in DOMAIN u : i < j => at[i] < at[j]
        /\ {at[i] : i \in DOMAIN u} = full(n)
        /\ \A i \in DOMAIN u : u[i] = L[at[i]]
    BY DEF Keeps
  <1>4. CASE L[m] # NoWord
    <2>1. DOMAIN to = 1..(Len(u) + 1) /\ to[Len(u) + 1] = m /\ \A i \in 1..Len(u) : to[i] = at[i]
      BY <1>2
    <2>2. full(m) = full(n) \cup {m}
      BY <1>1, <1>4
    <2> HIDE DEF w, to, full
    <2>3. to \in [DOMAIN w -> 1..m]
      <3>1. \A i \in DOMAIN w : to[i] \in 1..m
        BY <1>1, <1>2, <1>3, <2>1
      <3> QED BY <1>2, <2>1, <3>1 DEF to
    <2>4. \A i, j \in DOMAIN w : i < j => to[i] < to[j]
      <3> SUFFICES ASSUME NEW i \in DOMAIN w, NEW j \in DOMAIN w, i < j PROVE to[i] < to[j]
        OBVIOUS
      <3>1. i \in 1..Len(u) /\ to[i] = at[i] /\ at[i] \in 1..n
        BY <1>2, <1>3, <2>1
      <3>2. CASE j = Len(u) + 1
        BY <1>1, <2>1, <3>1, <3>2
      <3>3. CASE j \in 1..Len(u)
        BY <1>2, <1>3, <2>1, <3>1, <3>3
      <3> QED BY <1>2, <3>2, <3>3
    <2>5. {to[i] : i \in DOMAIN w} = full(m)
      <3>1. {to[i] : i \in DOMAIN w} = {at[i] : i \in DOMAIN u} \cup {m}
        BY <1>2, <2>1
      <3> QED BY <1>3, <2>2, <3>1
    <2>6. \A i \in DOMAIN w : w[i] = L[to[i]]
      BY <1>2, <1>3, <2>1
    <2>7. Keeps(w, L, m, to)
      BY <2>3, <2>4, <2>5, <2>6 DEF Keeps, full
    <2> QED BY <1>4, <2>7 DEF m, w
  <1>5. CASE L[m] = NoWord
    <2>1. full(m) = full(n)
      BY <1>1, <1>5
    <2>2. at \in [DOMAIN u -> 1..m]
      BY <1>1 DEF Keeps
    <2> HIDE DEF full
    <2>3. Keeps(u, L, m, at)
      BY <1>3, <2>1, <2>2 DEF Keeps, full
    <2> QED BY <1>5, <2>3 DEF m
  <1> QED BY <1>4, <1>5

\* The loop over the items of a list keeps those that are not empty, in their order.
LEMMA MultiIs ==
  ASSUME NEW s \in ListText
  PROVE  IF \A k \in DOMAIN s.items : s.items[k] = NoWord THEN decodeMulti(s) = Blank
         ELSE IsList(decodeMulti(s)) /\ IsCompacted(decodeMulti(s).items, s.items)
  <1> DEFINE L == s.items
             W == ToSet(L)
             T == Seq(W)
             step(h, n) == IF n = 0 THEN <<>>
                           ELSE IF L[n] # NoWord THEN Append(h[n - 1], L[n]) ELSE h[n - 1]
             Solves(h) == h = [n \in 0..Len(L) |-> step(h, n)]
             items == CHOOSE h : Solves(h)
  <1>1. IsList(s) /\ L \in Seq(W)
    <2>1. L \in Seq(STRING)
      BY DEF ListText
    <2> HIDE DEF L
    <2> QED BY <2>1, TextsDiffer DEF ToSet
  <1>2. Len(L) \in Nat /\ DOMAIN L = 1..Len(L) /\ \A n \in 1..Len(L) : L[n] \in W
    <2> HIDE DEF W, L
    <2> QED BY <1>1
  <1>3. decodeMulti(s) = IF items[Len(L)] = <<>> THEN Blank ELSE [items |-> items[Len(L)]]
    BY <1>1 DEF decodeMulti
  <1> HIDE DEF L, W
  <1>4. \E h : Solves(h)
    <2> DEFINE next == [p \in Nat \X T |-> IF p[1] \in 1..Len(L) /\ L[p[1]] # NoWord
                                             THEN Append(p[2], L[p[1]]) ELSE p[2]]
    <2>1. ASSUME NEW n \in Nat, NEW h \in T
          PROVE  /\ next[<<n, h>>] = IF n \in 1..Len(L) /\ L[n] # NoWord THEN Append(h, L[n]) ELSE h
                 /\ next[<<n, h>>] \in T
      <3>1. next[<<n, h>>] = IF n \in 1..Len(L) /\ L[n] # NoWord THEN Append(h, L[n]) ELSE h
        OBVIOUS
      <3> HIDE DEF next
      <3>2. CASE n \in 1..Len(L) /\ L[n] # NoWord
        BY <1>2, <3>1, <3>2
      <3>3. CASE ~(n \in 1..Len(L) /\ L[n] # NoWord)
        BY <3>1, <3>3
      <3> QED BY <3>2, <3>3
    <2> HIDE DEF next
    <2>2. PICK f \in [Nat -> T] : Recurs(f, <<>>, next)
      <3>1. Stays(next, T) /\ <<>> \in T
        BY <2>1 DEF Stays
      <3> QED BY <3>1, NatRecursion
    <2> DEFINE g == [n \in 0..Len(L) |-> f[n]]
    <2>3. ASSUME NEW n \in 0..Len(L) PROVE f[n] = step(g, n)
      <3>1. CASE n = 0 BY <2>2, <3>1 DEF Recurs
      <3>2. CASE n # 0
        <4>1. n \in Nat \ {0} /\ n \in 1..Len(L) /\ n - 1 \in 0..Len(L) /\ n - 1 \in Nat
          BY <1>2, <3>2
        <4>2. f[n] = next[<<n, f[n - 1]>>] /\ f[n - 1] \in T /\ g[n - 1] = f[n - 1]
          BY <2>2, <4>1 DEF Recurs
        <4> HIDE DEF g
        <4>3. f[n] = IF L[n] # NoWord THEN Append(g[n - 1], L[n]) ELSE g[n - 1]
          BY <2>1, <4>1, <4>2
        <4> QED BY <3>2, <4>3
      <3> QED BY <3>1, <3>2
    <2>4. Solves(g)
      <3> HIDE DEF step
      <3> QED BY <2>3
    <2> QED BY <2>4
  <1>5. Solves(items)
    <2> HIDE DEF Solves
    <2> QED BY <1>4
  <1> HIDE DEF items
  <1>6. ASSUME NEW n \in 0..Len(L) PROVE items[n] = step(items, n)
    <2> HIDE DEF step
    <2> QED BY <1>5
  <1> DEFINE Held(n) == items[n] \in T /\ \E at : Keeps(items[n], L, n, at)
             Good == {n \in Nat : n <= Len(L) => Held(n)}
  <1>7. 0 \in Good
    <2>1. items[0] = <<>>
      BY <1>2, <1>6
    <2>2. DOMAIN <<>> = {} /\ 1..0 = {} /\ <<>> \in T
      OBVIOUS
    <2>3. Keeps(<<>>, L, 0, [i \in {} |-> 0])
      BY <2>2 DEF Keeps
    <2> HIDE DEF T
    <2>4. Held(0)
      BY <2>1, <2>2, <2>3
    <2> QED BY <2>4
  <1>8. ASSUME NEW n \in Nat, n \in Good PROVE n + 1 \in Good
    <2> SUFFICES ASSUME n + 1 <= Len(L) PROVE Held(n + 1)
      OBVIOUS
    <2>1. n + 1 \in 0..Len(L) /\ n + 1 \in 1..Len(L) /\ n + 1 # 0 /\ (n + 1) - 1 = n /\ n <= Len(L)
      BY <1>2
    <2>2. Held(n)
      BY <1>8, <2>1
    <2> DEFINE u == items[n]
    <2>3. PICK at : Keeps(u, L, n, at)
      BY <2>2
    <2>4. u \in Seq(W) /\ L[n + 1] \in W
      BY <1>2, <2>1, <2>2
    <2>5. items[n + 1] = IF L[n + 1] # NoWord THEN Append(u, L[n + 1]) ELSE u
      <3> DEFINE m == n + 1
      <3>1. m \in 0..Len(L) /\ m # 0 /\ m - 1 = n
        BY <2>1
      <3> HIDE DEF m
      <3>2. items[m] = IF L[m] # NoWord THEN Append(u, L[m]) ELSE u
        BY <1>6, <3>1
      <3> QED BY <3>2 DEF m
    <2> HIDE DEF u
    <2>6. IF L[n + 1] # NoWord THEN \E to : Keeps(Append(u, L[n + 1]), L, n + 1, to)
          ELSE Keeps(u, L, n + 1, at)
      BY <2>3, <2>4, KeepsNext
    <2>7. items[n + 1] \in T
      BY <2>4, <2>5
    <2>8. \E to : Keeps(items[n + 1], L, n + 1, to)
      BY <2>5, <2>6, Zenon
    <2> QED BY <2>7, <2>8
  <1> HIDE DEF Good
  <1>9. \A n \in Nat : n \in Good
    BY <1>7, <1>8, StepInduction
  <1>10. Held(Len(L))
    <2> HIDE DEF Held
    <2> QED BY <1>2, <1>9 DEF Good
  <1> DEFINE u == items[Len(L)]
  <1>11. PICK at : Keeps(u, L, Len(L), at)
    BY <1>10
  <1>12. u \in Seq(W)
    BY <1>10
  <1> HIDE DEF u, Held
  <1>13. u = <<>> <=> \A k \in 1..Len(L) : L[k] = NoWord
    <2>1. {at[i] : i \in DOMAIN u} = {k \in 1..Len(L) : L[k] # NoWord}
      BY <1>11 DEF Keeps
    <2>2. Len(u) \in Nat /\ DOMAIN u = 1..Len(u) /\ (u = <<>> <=> Len(u) = 0)
      BY <1>12, EmptySeq
    <2>3. u = <<>> <=> DOMAIN u = {}
      <3>1. Len(u) # 0 => 1 \in 1..Len(u)
        BY <2>2
      <3>2. Len(u) = 0 => 1..Len(u) = {}
        BY <2>2
      <3> QED BY <2>2, <3>1, <3>2
    <2>4. DOMAIN u = {} <=> {at[i] : i \in DOMAIN u} = {}
      OBVIOUS
    <2> QED BY <2>1, <2>3, <2>4
  <1>14. IsCompacted(u, L)
    BY <1>2, <1>11 DEF IsCompacted, Keeps
  <1>15. decodeMulti(s) = IF u = <<>> THEN Blank ELSE [items |-> u]
    BY <1>3 DEF u
  <1>16. CASE \A k \in DOMAIN L : L[k] = NoWord
    <2>1. u = <<>>
      BY <1>2, <1>13, <1>16
    <2> QED BY <1>15, <1>16, <2>1 DEF L
  <1>17. CASE ~\A k \in DOMAIN L : L[k] = NoWord
    <2>1. decodeMulti(s) = [items |-> u]
      BY <1>2, <1>13, <1>15, <1>17
    <2>2. IsList(decodeMulti(s)) /\ decodeMulti(s).items = u
      BY <2>1 DEF IsList
    <2> QED BY <1>14, <1>17, <2>2 DEF L
  <1> QED BY <1>16, <1>17

-----------------------------------------------------------------------------
(* A date of three fields, with the month or the year first.               *)

MonthFirst(t) ==
  /\ Len(t.fields) = 3
  /\ t.fields[1].digits <= 2 /\ t.fields[1].value \in 1..12
  /\ t.fields[2].digits <= 2 /\ t.fields[2].value \in 1..31
  /\ t.fields[3].digits = 4
  /\ t.fields[2].value <= DaysIn(t.fields[3].value, t.fields[1].value)

YearFirst(t) ==
  /\ Len(t.fields) = 3
  /\ t.fields[1].digits = 4
  /\ t.fields[2].digits <= 2 /\ t.fields[2].value \in 1..12
  /\ t.fields[3].digits <= 2 /\ t.fields[3].value \in 1..31
  /\ t.fields[3].value <= DaysIn(t.fields[1].value, t.fields[2].value)

\* The cell of a day, at a moment.
Told(y, m, d, now) ==
  IF plausible(Moment(y, m, d), now) THEN Number(Moment(y, m, d)) ELSE Blank

LEMMA TakesIs ==
  ASSUME NEW f
  PROVE  /\ Takes("y", f) <=> f.digits = 4
         /\ Takes("m", f) <=> f.digits <= 2 /\ f.value \in 1..12
         /\ Takes("d", f) <=> f.digits <= 2 /\ f.value \in 1..31
  <1>1. Takes("y", f) <=> f.digits = 4
    BY Zenon DEF Takes
  <1>2. Takes("m", f) <=> f.digits <= 2 /\ f.value \in 1..12
    BY Zenon DEF Takes
  <1>3. Takes("d", f) <=> f.digits <= 2 /\ f.value \in 1..31
    BY Zenon DEF Takes
  <1> QED BY <1>1, <1>2, <1>3

LEMMA DaysAre ==
  ASSUME NEW y \in Nat, NEW m \in Nat
  PROVE  DaysIn(y, m) \in 28..31
  BY DEF DaysIn

LEMMA PartIs ==
  ASSUME NEW layout, NEW t
  PROVE  /\ layout.order = <<"m", "d", "y">> =>
              /\ Part(layout, t, "m") = t.fields[1].value
              /\ Part(layout, t, "d") = t.fields[2].value
              /\ Part(layout, t, "y") = t.fields[3].value
         /\ layout.order = <<"y", "m", "d">> =>
              /\ Part(layout, t, "y") = t.fields[1].value
              /\ Part(layout, t, "m") = t.fields[2].value
              /\ Part(layout, t, "d") = t.fields[3].value
  <1> DEFINE place(p) == CHOOSE i \in 1..3 : layout.order[i] = p
  <1>1. \A p : Part(layout, t, p) = t.fields[place(p)].value
    BY DEF Part
  <1>2. 1..3 = {1, 2, 3}
    OBVIOUS
  <1>3. layout.order = <<"m", "d", "y">> => place("m") = 1 /\ place("d") = 2 /\ place("y") = 3
    BY <1>2
  <1>4. layout.order = <<"y", "m", "d">> => place("y") = 1 /\ place("m") = 2 /\ place("d") = 3
    BY <1>2
  <1> HIDE DEF place
  <1> QED BY <1>1, <1>3, <1>4

LEMMA ParsesIs ==
  ASSUME NEW t, NEW layout
  PROVE  /\ layout.order = <<"m", "d", "y">> =>
              /\ Parses(layout, t) <=> t.sep = layout.sep /\ t.time = layout.time /\ MonthFirst(t)
              /\ MomentBy(layout, t) =
                   Moment(t.fields[3].value, t.fields[1].value, t.fields[2].value)
         /\ layout.order = <<"y", "m", "d">> =>
              /\ Parses(layout, t) <=> t.sep = layout.sep /\ t.time = layout.time /\ YearFirst(t)
              /\ MomentBy(layout, t) =
                   Moment(t.fields[1].value, t.fields[2].value, t.fields[3].value)
  <1>1. \A i : i \in 1..3 <=> i = 1 \/ i = 2 \/ i = 3
    OBVIOUS
  <1>2. CASE layout.order = <<"m", "d", "y">>
    <2>1. /\ Part(layout, t, "m") = t.fields[1].value
          /\ Part(layout, t, "d") = t.fields[2].value
          /\ Part(layout, t, "y") = t.fields[3].value
      BY <1>2, PartIs
    <2>2. layout.order[1] = "m" /\ layout.order[2] = "d" /\ layout.order[3] = "y"
      BY <1>2
    <2>3. (\A i \in 1..3 : Takes(layout.order[i], t.fields[i]))
             <=> Takes("m", t.fields[1]) /\ Takes("d", t.fields[2]) /\ Takes("y", t.fields[3])
      BY <1>1, <2>2
    <2>4. (\A i \in 1..3 : Takes(layout.order[i], t.fields[i]))
             <=> /\ t.fields[1].digits <= 2 /\ t.fields[1].value \in 1..12
                 /\ t.fields[2].digits <= 2 /\ t.fields[2].value \in 1..31
                 /\ t.fields[3].digits = 4
      BY <2>3, TakesIs
    <2>5. layout.order # <<"y", "m", "d">>
      BY <2>2
    <2> QED BY <2>1, <2>4, <2>5 DEF Parses, MonthFirst, MomentBy
  <1>3. CASE layout.order = <<"y", "m", "d">>
    <2>1. /\ Part(layout, t, "y") = t.fields[1].value
          /\ Part(layout, t, "m") = t.fields[2].value
          /\ Part(layout, t, "d") = t.fields[3].value
      BY <1>3, PartIs
    <2>2. layout.order[1] = "y" /\ layout.order[2] = "m" /\ layout.order[3] = "d"
      BY <1>3
    <2>3. (\A i \in 1..3 : Takes(layout.order[i], t.fields[i]))
             <=> Takes("y", t.fields[1]) /\ Takes("m", t.fields[2]) /\ Takes("d", t.fields[3])
      BY <1>1, <2>2
    <2>4. (\A i \in 1..3 : Takes(layout.order[i], t.fields[i]))
             <=> /\ t.fields[1].digits = 4
                 /\ t.fields[2].digits <= 2 /\ t.fields[2].value \in 1..12
                 /\ t.fields[3].digits <= 2 /\ t.fields[3].value \in 1..31
      BY <2>3, TakesIs
    <2>5. layout.order # <<"m", "d", "y">>
      BY <2>2
    <2> QED BY <2>1, <2>4, <2>5 DEF Parses, YearFirst, MomentBy
  <1> QED BY <1>2, <1>3

\* A date read without the ladder.
LEMMA DayTold ==
  ASSUME NEW t, NEW now \in Int, IsDate(t), t.time \in {"none", "padded", "unpadded"},
         Len(t.fields) = 3 =>
           \A i \in 1..3 : t.fields[i].digits \in Nat /\ t.fields[i].value \in Nat
  PROVE  LET a == t.fields[1].value
             b == t.fields[2].value
             c == t.fields[3].value
             month == MonthFirst(t) /\ \/ t.sep = "/" /\ t.time # "unpadded"
                                       \/ t.sep = "-" /\ t.time = "none"
             year == YearFirst(t) /\ t.sep = "-" /\ t.time = "none" IN
         /\ month => DateOf(t, now) = Told(c, a, b, now)
         /\ year => DateOf(t, now) = Told(a, b, c, now)
         /\ ~month /\ ~year => DateOf(t, now) = Blank
  <1> DEFINE f == t.fields
             first == Len(f) = 3 /\ f[1].digits = 4
             y == IF first THEN f[1] ELSE f[3]
             m == IF first THEN f[2] ELSE f[1]
             d == IF first THEN f[3] ELSE f[2]
             days == y.digits = 4 /\ m.digits < 3 /\ d.digits < 3
                     /\ m.value \in 1..12 /\ d.value \in 1..DaysIn(y.value, m.value)
             known == /\ IsDate(t) /\ Len(f) = 3
                      /\ y.digits = 4 /\ m.digits < 3 /\ d.digits < 3
                      /\ m.value \in 1..12 /\ d.value \in 1..DaysIn(y.value, m.value)
                      /\ t.sep \in {"/", "-"}
                      /\ t.sep = "/" => ~first /\ t.time # "unpadded"
                      /\ t.sep = "-" => t.time = "none"
             month == MonthFirst(t) /\ \/ t.sep = "/" /\ t.time # "unpadded"
                                       \/ t.sep = "-" /\ t.time = "none"
             year == YearFirst(t) /\ t.sep = "-" /\ t.time = "none"
  <1>1. DateOf(t, now) = IF known /\ y.value >= 1980 /\ Moment(y.value, m.value, d.value) < now + Year
                           THEN Number(Moment(y.value, m.value, d.value)) ELSE Blank
    BY DEF DateOf
  <1>2. CASE Len(f) # 3
    <2>1. ~known /\ ~MonthFirst(t) /\ ~YearFirst(t)
      BY <1>2 DEF MonthFirst, YearFirst
    <2> HIDE DEF known, y, m, d
    <2> QED BY <1>1, <2>1
  <1>3. CASE Len(f) = 3
    <2>1. /\ f[1].digits \in Nat /\ f[1].value \in Nat /\ f[2].digits \in Nat /\ f[2].value \in Nat
          /\ f[3].digits \in Nat /\ f[3].value \in Nat
      BY <1>3
    <2>2. ASSUME y.value \in Nat, m.value \in 1..12, d.value \in 1..DaysIn(y.value, m.value)
          PROVE  d.value \in 1..31
      <3>1. DaysIn(y.value, m.value) \in 28..31
        BY <2>2, DaysAre
      <3> HIDE DEF y, m, d
      <3> QED BY <2>2, <3>1
    <2>3. known => DateOf(t, now) = Told(y.value, m.value, d.value, now)
      <3> SUFFICES ASSUME known PROVE DateOf(t, now) = Told(y.value, m.value, d.value, now)
        OBVIOUS
      <3>1. y.value \in Nat /\ m.value \in 1..12 /\ d.value \in 1..31
        BY <2>1, <2>2
      <3> HIDE DEF y, m, d, known, f, first, days, month, year
      <3>2. plausible(Moment(y.value, m.value, d.value), now)
              <=> y.value >= 1980 /\ Moment(y.value, m.value, d.value) < now + Year
        BY <3>1 DEF plausible, Moment
      <3> QED BY <1>1, <3>2 DEF Told
    <2>4. CASE f[1].digits = 4
      <3>1. y = f[1] /\ m = f[2] /\ d = f[3] /\ ~MonthFirst(t)
        BY <1>3, <2>4 DEF MonthFirst
      <3>2. DaysIn(f[1].value, f[2].value) \in 28..31
        BY <2>1, DaysAre
      <3>3. YearFirst(t) <=> days
        BY <1>3, <2>1, <2>4, <3>1, <3>2 DEF YearFirst
      <3>4. known <=> year
        BY <1>3, <2>4, <3>3
      <3> HIDE DEF y, m, d, known
      <3> QED BY <1>1, <2>3, <3>1, <3>4
    <2>5. CASE f[1].digits # 4
      <3>1. y = f[3] /\ m = f[1] /\ d = f[2] /\ ~YearFirst(t) /\ ~first
        BY <1>3, <2>5 DEF YearFirst
      <3>2. DaysIn(f[3].value, f[1].value) \in 28..31
        BY <2>1, DaysAre
      <3>3. MonthFirst(t) <=> days
        BY <1>3, <2>1, <2>5, <3>1, <3>2 DEF MonthFirst
      <3>4. known <=> month
        BY <1>3, <2>5, <3>1, <3>3
      <3> HIDE DEF y, m, d, known
      <3> QED BY <1>1, <2>3, <3>1, <3>4
    <2> QED BY <2>4, <2>5
  <1> QED BY <1>2, <1>3

LEMMA FieldsAre ==
  ASSUME NEW t \in DateText
  PROVE  /\ IsDate(t) /\ t.time \in {"none", "padded", "unpadded"}
         /\ Len(t.fields) = 3 =>
              \A i \in 1..3 : t.fields[i].digits \in Nat /\ t.fields[i].value \in Nat
  <1> DEFINE R == [digits : Nat, value : Nat]
             f == t.fields
  <1>1. f \in Seq(R) /\ t.time \in {"none", "padded", "unpadded"}
    BY DEF DateText
  <1> HIDE DEF f, R
  <1>2. DOMAIN f = 1..Len(f) /\ \A k \in 1..Len(f) : f[k] \in R
    BY <1>1
  <1>3. \A r \in R : r.digits \in Nat /\ r.value \in Nat
    BY DEF R
  <1>4. Len(f) = 3 => \A i \in 1..3 : f[i].digits \in Nat /\ f[i].value \in Nat
    BY <1>2, <1>3
  <1> QED BY <1>1, <1>4, TextsDiffer DEF f

\* The ladder of layouts reads a date as its fields say.
LEMMA DateIs ==
  ASSUME NEW t \in DateText, NEW now \in Int
  PROVE  decodeTime(t, now) = DateOf(t, now)
  <1> DEFINE f == t.fields
             P(i) == Parses(timeLayouts[i], t)
             parsing == {i \in DOMAIN timeLayouts : P(i)}
             first == CHOOSE i \in parsing : \A j \in parsing : i <= j
             n == MomentBy(timeLayouts[first], t)
             a == f[1]
             b == f[2]
             c == f[3]
  <1>1. IsDate(t) /\ t.time \in {"none", "padded", "unpadded"}
    BY FieldsAre
  <1>2. DOMAIN timeLayouts = {1, 2, 3, 4}
    BY DEF timeLayouts
  <1>3. /\ timeLayouts[1] = [sep |-> "/", order |-> <<"m", "d", "y">>, time |-> "padded"]
        /\ timeLayouts[2] = [sep |-> "/", order |-> <<"m", "d", "y">>, time |-> "none"]
        /\ timeLayouts[3] = [sep |-> "-", order |-> <<"m", "d", "y">>, time |-> "none"]
        /\ timeLayouts[4] = [sep |-> "-", order |-> <<"y", "m", "d">>, time |-> "none"]
    BY DEF timeLayouts
  <1>4. /\ P(1) <=> t.sep = "/" /\ t.time = "padded" /\ MonthFirst(t)
        /\ P(2) <=> t.sep = "/" /\ t.time = "none" /\ MonthFirst(t)
        /\ P(3) <=> t.sep = "-" /\ t.time = "none" /\ MonthFirst(t)
        /\ P(4) <=> t.sep = "-" /\ t.time = "none" /\ YearFirst(t)
    BY <1>3, ParsesIs
  <1>5. /\ MomentBy(timeLayouts[1], t) = Moment(c.value, a.value, b.value)
        /\ MomentBy(timeLayouts[2], t) = Moment(c.value, a.value, b.value)
        /\ MomentBy(timeLayouts[3], t) = Moment(c.value, a.value, b.value)
        /\ MomentBy(timeLayouts[4], t) = Moment(a.value, b.value, c.value)
    BY <1>3, ParsesIs
  <1>6. decodeTime(t, now) = IF parsing = {} THEN Blank
                             ELSE IF plausible(n, now) THEN Number(n) ELSE Blank
    BY <1>1 DEF decodeTime
  <1>7. ~(MonthFirst(t) /\ YearFirst(t))
    BY DEF MonthFirst, YearFirst
  <1>8. ASSUME NEW i \in {1, 2, 3, 4}, P(i) PROVE parsing = {i} /\ first = i
    <2>1. \A j \in {1, 2, 3, 4} : P(j) => j = i
      BY <1>4, <1>7, <1>8
    <2>2. parsing = {i}
      <3> HIDE DEF P
      <3> QED BY <1>2, <1>8, <2>1
    <2> HIDE DEF parsing
    <2> QED BY <2>2
  <1>9. Len(f) = 3 => \A i \in 1..3 : f[i].digits \in Nat /\ f[i].value \in Nat
    BY FieldsAre
  <1>10. CASE MonthFirst(t) /\ ((t.sep = "/" /\ t.time # "unpadded") \/ (t.sep = "-" /\ t.time = "none"))
    <2>1. decodeTime(t, now) = Told(c.value, a.value, b.value, now)
      <3>1. \E i \in {1, 2, 3} : P(i)
        BY <1>1, <1>4, <1>10
      <3> HIDE DEF P
      <3>2. PICK i \in {1, 2, 3} : parsing = {i} /\ first = i
        BY <1>8, <3>1
      <3>3. n = Moment(c.value, a.value, b.value)
        BY <1>5, <3>2
      <3> HIDE DEF n, parsing, first, a, b, c
      <3> QED BY <1>6, <3>2, <3>3 DEF Told
    <2>2. DateOf(t, now) = Told(c.value, a.value, b.value, now)
      BY <1>1, <1>9, <1>10, DayTold
    <2> QED BY <2>1, <2>2
  <1>11. CASE YearFirst(t) /\ t.sep = "-" /\ t.time = "none"
    <2>1. decodeTime(t, now) = Told(a.value, b.value, c.value, now)
      <3>1. P(4)
        BY <1>4, <1>11
      <3>2. parsing = {4} /\ first = 4
        BY <1>8, <3>1
      <3>3. n = Moment(a.value, b.value, c.value)
        BY <1>5, <3>2
      <3> HIDE DEF n, parsing, first, a, b, c
      <3> QED BY <1>6, <3>2, <3>3 DEF Told
    <2>2. DateOf(t, now) = Told(a.value, b.value, c.value, now)
      BY <1>1, <1>9, <1>11, DayTold
    <2> QED BY <2>1, <2>2
  <1>12. CASE /\ ~(MonthFirst(t) /\ ((t.sep = "/" /\ t.time # "unpadded") \/ (t.sep = "-" /\ t.time = "none")))
              /\ ~(YearFirst(t) /\ t.sep = "-" /\ t.time = "none")
    <2>1. ~P(1) /\ ~P(2) /\ ~P(3) /\ ~P(4)
      <3> HIDE DEF P
      <3>1. ~P(1)
        BY <1>4, <1>12
      <3>2. ~P(2)
        BY <1>4, <1>12
      <3>3. ~P(3)
        BY <1>4, <1>12
      <3>4. ~P(4)
        BY <1>4, <1>12
      <3> QED BY <3>1, <3>2, <3>3, <3>4
    <2>2. parsing = {}
      <3> HIDE DEF P
      <3> QED BY <1>2, <2>1
    <2>3. decodeTime(t, now) = Blank
      BY <1>6, <2>2
    <2>4. DateOf(t, now) = Blank
      BY <1>1, <1>9, <1>12, DayTold
    <2> QED BY <2>3, <2>4
  <1> QED BY <1>10, <1>11, <1>12

-----------------------------------------------------------------------------
(* The other kinds.                                                        *)

\* cell switches on the kind.
LEMMA CellIs ==
  ASSUME NEW c, NEW rec, NEW now
  PROVE  LET s == IF c \in DOMAIN rec.V THEN rec.V[c] ELSE Blank IN
         /\ Kind[c] = "kKey"      => cell(c, rec, now) = rec.name
         /\ Kind[c] = "kKeyPath"  => cell(c, rec, now) = Backslashed(rec.name)
         /\ Kind[c] = "kKeyLower" => cell(c, rec, now) = Lower(rec.name)
         /\ Kind[c] = "kKeyTime"  => cell(c, rec, now) = IF rec.lastWrite = 0 THEN Blank
                                                         ELSE Number(rec.lastWrite)
         /\ Kind[c] \in {"kInt", "kEpoch"} => cell(c, rec, now) = decodeInt(s)
         /\ Kind[c] = "kBool"     => cell(c, rec, now) = decodeBool(s)
         /\ Kind[c] = "kTime"     => cell(c, rec, now) = decodeTime(s, now)
         /\ Kind[c] = "kMulti"    => cell(c, rec, now) = decodeMulti(s)
         /\ Kind[c] = "kSha1"     => cell(c, rec, now) = decodeSha1(s)
         /\ Kind[c] = "kLower"    => cell(c, rec, now) = Lower(s)
         /\ Kind[c] = "kText"     => cell(c, rec, now) = s
  <1> DEFINE s == IF c \in DOMAIN rec.V THEN rec.V[c] ELSE Blank
  <1>1. Kind[c] = "kKey" => cell(c, rec, now) = rec.name
    BY Zenon DEF cell
  <1>2. Kind[c] = "kKeyPath" => cell(c, rec, now) = Backslashed(rec.name)
    BY Zenon DEF cell
  <1>3. Kind[c] = "kKeyLower" => cell(c, rec, now) = Lower(rec.name)
    BY Zenon DEF cell
  <1>4. Kind[c] = "kKeyTime" => cell(c, rec, now) = IF rec.lastWrite = 0 THEN Blank
                                                   ELSE Number(rec.lastWrite)
    BY Zenon DEF cell
  <1>5. Kind[c] \in {"kInt", "kEpoch"} => cell(c, rec, now) = decodeInt(s)
    BY Zenon DEF cell
  <1>6. Kind[c] = "kBool" => cell(c, rec, now) = decodeBool(s)
    BY Zenon DEF cell
  <1>7. Kind[c] = "kTime" => cell(c, rec, now) = decodeTime(s, now)
    BY Zenon DEF cell
  <1>8. Kind[c] = "kMulti" => cell(c, rec, now) = decodeMulti(s)
    BY Zenon DEF cell
  <1>9. Kind[c] = "kSha1" => cell(c, rec, now) = decodeSha1(s)
    BY Zenon DEF cell
  <1>10. Kind[c] = "kLower" => cell(c, rec, now) = Lower(s)
    BY Zenon DEF cell
  <1>11. Kind[c] = "kText" => cell(c, rec, now) = s
    BY Zenon DEF cell
  <1> HIDE DEF s
  <1>12. /\ Kind[c] = "kKey"      => cell(c, rec, now) = rec.name
         /\ Kind[c] = "kKeyPath"  => cell(c, rec, now) = Backslashed(rec.name)
         /\ Kind[c] = "kKeyLower" => cell(c, rec, now) = Lower(rec.name)
         /\ Kind[c] = "kKeyTime"  => cell(c, rec, now) = IF rec.lastWrite = 0 THEN Blank
                                                         ELSE Number(rec.lastWrite)
         /\ Kind[c] \in {"kInt", "kEpoch"} => cell(c, rec, now) = decodeInt(s)
         /\ Kind[c] = "kBool"     => cell(c, rec, now) = decodeBool(s)
         /\ Kind[c] = "kTime"     => cell(c, rec, now) = decodeTime(s, now)
         /\ Kind[c] = "kMulti"    => cell(c, rec, now) = decodeMulti(s)
         /\ Kind[c] = "kSha1"     => cell(c, rec, now) = decodeSha1(s)
         /\ Kind[c] = "kLower"    => cell(c, rec, now) = Lower(s)
         /\ Kind[c] = "kText"     => cell(c, rec, now) = s
    BY <1>1, <1>2, <1>3, <1>4, <1>5, <1>6, <1>7, <1>8, <1>9, <1>10, <1>11
  <1> QED BY <1>12 DEF s

\* What the decoders leave of a name.
LEMMA NamesAre ==
  ASSUME NEW s \in NameText \cup {Blank}
  PROVE  /\ IsName(s)
         /\ Lower(s) =
              [core |-> s.core, shape |-> s.shape, upper |-> FALSE, slash |-> s.slash]
         /\ Backslashed(s) =
              [core |-> s.core, shape |-> s.shape, upper |-> s.upper, slash |-> FALSE]
         /\ decodeSha1(s) =
              IF s.shape # "plain"
                THEN [core |-> s.core, shape |-> "hash", upper |-> FALSE, slash |-> s.slash]
                ELSE Blank
  <1>1. IsName(s)
    BY TextsDiffer, BlankIs
  <1>2. /\ s = [core |-> s.core, shape |-> s.shape, upper |-> s.upper, slash |-> s.slash]
        /\ s.shape \in {"hash", "lead", "plain"}
    BY DEF NameText, Blank
  <1> DEFINE hash == [s EXCEPT !.shape = "hash"]
  <1>3. Lower(s) = [s EXCEPT !.upper = FALSE] /\ Backslashed(s) = [s EXCEPT !.slash = FALSE]
    BY <1>1 DEF Lower, Backslashed
  <1>4. hash = [core |-> s.core, shape |-> "hash", upper |-> s.upper, slash |-> s.slash]
    BY <1>2
  <1>5. decodeSha1(s) = IF s.shape # "plain" THEN Lower(hash) ELSE Blank
    BY <1>1, <1>2 DEF decodeSha1
  <1> HIDE DEF hash
  <1>6. IsName(hash)
    BY <1>4 DEF IsName
  <1>7. Lower(hash) = [core |-> s.core, shape |-> "hash", upper |-> FALSE, slash |-> s.slash]
    BY <1>4, <1>6 DEF Lower
  <1>8. ASSUME NEW no
        PROVE  /\ [s EXCEPT !.upper = no] =
                    [core |-> s.core, shape |-> s.shape, upper |-> no, slash |-> s.slash]
               /\ [s EXCEPT !.slash = no] =
                    [core |-> s.core, shape |-> s.shape, upper |-> s.upper, slash |-> no]
    BY <1>2
  <1>9. /\ Lower(s) = [core |-> s.core, shape |-> s.shape, upper |-> FALSE, slash |-> s.slash]
        /\ Backslashed(s) =
             [core |-> s.core, shape |-> s.shape, upper |-> s.upper, slash |-> FALSE]
    BY <1>3, <1>8, Zenon
  <1> QED BY <1>1, <1>5, <1>7, <1>9

\* A flag is told by its digit or its word, and by nothing else.
LEMMA BoolIs ==
  ASSUME NEW s \in Text \cup {Blank}
  PROVE  /\ decodeBool(s) \in {Blank, Number(0), Number(1)}
         /\ decodeBool(s) = Number(0) <=> Flag(s, 0, "false")
         /\ decodeBool(s) = Number(1) <=> Flag(s, 1, "true")
  <1>1. Blank # Number(0) /\ Blank # Number(1) /\ Number(0) # Number(1)
    <2>1. Number(0).number = 0 /\ Number(1).number = 1
      BY DEF Number
    <2>2. IsNumber(Number(0)) /\ IsNumber(Number(1))
      BY DEF Number, IsNumber
    <2> QED BY <2>1, <2>2, BlankIs
  <1>2. CASE IsNumber(s)
    <2>1. s \in NumberText /\ ~IsName(s)
      BY <1>2, TextsDiffer, BlankIs DEF Text
    <2>2. \A n : s = Number(n) <=> s.number = n
      BY <2>1 DEF NumberText, Number
    <2>3. decodeBool(s) = IF s.number \in {0, 1} THEN s ELSE Blank
      BY <1>2, <2>1 DEF decodeBool
    <2> QED BY <1>1, <2>1, <2>2, <2>3 DEF Flag
  <1>3. CASE ~IsNumber(s)
    <2>1. s # Number(0) /\ s # Number(1)
      BY <1>3 DEF IsNumber, Number
    <2>2. decodeBool(s) = IF IsName(s) /\ s.core = "true" THEN Number(1)
                          ELSE IF IsName(s) /\ s.core = "false" THEN Number(0) ELSE Blank
      BY <1>3 DEF decodeBool
    <2> HIDE DEF Blank
    <2>3. ~(s.core = "true" /\ s.core = "false")
      OBVIOUS
    <2> QED BY <1>1, <2>1, <2>2, <2>3 DEF Flag
  <1> QED BY <1>2, <1>3

\* A cell of each kind, from the source of its subkey.
LEMMA CellSays ==
  ASSUME NEW key \in RegistryKey, NEW c \in DOMAIN Kind, NEW now \in Int
  PROVE  LET shown == cell(c, record(key), now)
             s     == Source(c, key)
             since == key.stamp - filetimeEpoch IN
         /\ Kind[c] = "kTime" => shown = IF IsDate(s) THEN DateOf(s, now) ELSE Blank
         /\ Kind[c] = "kKeyTime" =>
              shown = IF since \in TicksPerSecond..(filetimeMax - filetimeEpoch - 1)
                        THEN Number(since \div TicksPerSecond) ELSE Blank
         /\ Means(Kind[c], s, shown)
  <1> DEFINE rec == record(key)
             s == Source(c, key)
             v == IF c \in DOMAIN rec.V THEN rec.V[c] ELSE Blank
             shown == cell(c, rec, now)
             since == key.stamp - filetimeEpoch
             named == Kind[c] \in {"kKey", "kKeyPath", "kKeyLower"}
  <1>1. /\ rec.name = key.name /\ key.name \in NameText
        /\ rec.lastWrite = lastWrite(key.stamp) /\ key.stamp \in Nat
        /\ v \in Text \cup {Blank}
        /\ ~named => s = v
        /\ named => s = key.name
    BY SourceIs
  <1>2. /\ Kind[c] = "kKey"      => shown = rec.name
        /\ Kind[c] = "kKeyPath"  => shown = Backslashed(rec.name)
        /\ Kind[c] = "kKeyLower" => shown = Lower(rec.name)
        /\ Kind[c] = "kKeyTime"  => shown = IF rec.lastWrite = 0 THEN Blank
                                            ELSE Number(rec.lastWrite)
        /\ Kind[c] \in {"kInt", "kEpoch"} => shown = decodeInt(v)
        /\ Kind[c] = "kBool"     => shown = decodeBool(v)
        /\ Kind[c] = "kTime"     => shown = decodeTime(v, now)
        /\ Kind[c] = "kMulti"    => shown = decodeMulti(v)
        /\ Kind[c] = "kSha1"     => shown = decodeSha1(v)
        /\ Kind[c] = "kLower"    => shown = Lower(v)
        /\ Kind[c] = "kText"     => shown = v
    BY CellIs
  <1>3. s \in Text \cup {Blank}
    BY <1>1 DEF Text
  <1>4. Kind[c] \in kinds
    BY CellsAssumption
  <1> HIDE DEF rec, s, v, shown, named
  <1>5. IsName(s) => s \in NameText \cup {Blank}
    BY <1>3, TextsDiffer DEF Text
  <1>6. IsDate(s) => s \in DateText
    BY <1>3, TextsDiffer, BlankIs DEF Text
  <1>7. IsList(s) => s \in ListText
    BY <1>3, TextsDiffer, BlankIs DEF Text
  <1>8. Kind[c] = "kTime" => shown = IF IsDate(s) THEN DateOf(s, now) ELSE Blank
    <2> SUFFICES ASSUME Kind[c] = "kTime"
                 PROVE  shown = IF IsDate(s) THEN DateOf(s, now) ELSE Blank
      OBVIOUS
    <2>1. shown = decodeTime(s, now)
      BY <1>1, <1>2 DEF named
    <2>2. ~IsDate(s) => decodeTime(s, now) = Blank
      BY DEF decodeTime
    <2> QED BY <1>6, <2>1, <2>2, DateIs
  <1>9. Kind[c] = "kKeyTime" =>
          shown = IF since \in TicksPerSecond..(filetimeMax - filetimeEpoch - 1)
                    THEN Number(since \div TicksPerSecond) ELSE Blank
    <2>1. IF since \in TicksPerSecond..(filetimeMax - filetimeEpoch - 1)
          THEN lastWrite(key.stamp) # 0 /\ lastWrite(key.stamp) = since \div TicksPerSecond
          ELSE lastWrite(key.stamp) = 0
      BY <1>1, LastWriteIs
    <2> HIDE DEF since
    <2> QED BY <1>1, <1>2, <2>1
  <1>10. Means(Kind[c], s, shown)
    <2>1. CASE Kind[c] \in {"kInt", "kEpoch"}
      <3>1. shown = decodeInt(s)
        BY <1>1, <1>2, <2>1 DEF named
      <3> QED BY <2>1, <3>1 DEF Means, decodeInt
    <2>2. CASE Kind[c] = "kBool"
      <3>1. shown = decodeBool(s)
        BY <1>1, <1>2, <2>2 DEF named
      <3>2. /\ shown \in {Blank, Number(0), Number(1)}
            /\ shown = Number(0) <=> Flag(s, 0, "false")
            /\ shown = Number(1) <=> Flag(s, 1, "true")
        BY <1>3, <3>1, BoolIs
      <3> QED BY <2>2, <3>2 DEF Means
    <2>3. CASE Kind[c] = "kSha1"
      <3>1. shown = decodeSha1(s)
        BY <1>1, <1>2, <2>3 DEF named
      <3>2. ~IsName(s) => shown = Blank
        BY <3>1 DEF decodeSha1
      <3>3. IsName(s) =>
              shown = IF s.shape # "plain"
                        THEN [core |-> s.core, shape |-> "hash", upper |-> FALSE,
                              slash |-> s.slash]
                        ELSE Blank
        BY <1>5, <3>1, NamesAre
      <3> QED BY <2>3, <3>2, <3>3 DEF Means
    <2>4. CASE Kind[c] = "kMulti"
      <3>1. shown = decodeMulti(s)
        BY <1>1, <1>2, <2>4 DEF named
      <3>2. ~IsList(s) => shown = s
        BY <3>1 DEF decodeMulti
      <3>3. IsList(s) =>
              IF \A k \in DOMAIN s.items : s.items[k] = NoWord THEN shown = Blank
              ELSE IsList(shown) /\ IsCompacted(shown.items, s.items)
        BY <1>7, <3>1, MultiIs
      <3> QED BY <2>4, <3>2, <3>3 DEF Means
    <2>5. CASE Kind[c] \in {"kText", "kKey"}
      <3>1. shown = s
        BY <1>1, <1>2, <2>5 DEF named
      <3> QED BY <2>5, <3>1 DEF Means
    <2>6. CASE Kind[c] \in {"kLower", "kKeyLower"}
      <3>1. shown = Lower(s)
        BY <1>1, <1>2, <2>6 DEF named
      <3>2. ~IsName(s) => shown = s
        BY <3>1 DEF Lower
      <3>3. IsName(s) => shown =
              [core |-> s.core, shape |-> s.shape, upper |-> FALSE, slash |-> s.slash]
        BY <1>5, <3>1, NamesAre
      <3> QED BY <2>6, <3>2, <3>3 DEF Means
    <2>7. CASE Kind[c] = "kKeyPath"
      <3>1. shown = Backslashed(s)
        BY <1>1, <1>2, <2>7 DEF named
      <3>2. s \in NameText
        BY <1>1, <2>7 DEF named
      <3>3. shown = [core |-> s.core, shape |-> s.shape, upper |-> s.upper, slash |-> FALSE]
        BY <3>1, <3>2, NamesAre
      <3> QED BY <2>7, <3>3 DEF Means
    <2>8. CASE Kind[c] \in {"kTime", "kKeyTime"}
      BY <2>8 DEF Means
    <2> QED BY <1>4, <2>1, <2>2, <2>3, <2>4, <2>5, <2>6, <2>7, <2>8 DEF kinds
  <1> QED BY <1>8, <1>9, <1>10 DEF rec, s, shown

\* A row says of its subkey what the subkey's values say, in every column and at whatever
\* moment the row was built.
THEOREM CellsAreMeant == TableSpec => []CellsMean
  <1>1. TInv => CellsMean
    <2> SUFFICES ASSUME TInv, NEW p \in DOMAIN table, NEW c \in DOMAIN Kind
                 PROVE  LET key   == table[p].key
                            shown == table[p].cells[c]
                            s     == Source(c, key)
                            since == key.stamp - filetimeEpoch IN
                        /\ Kind[c] = "kTime" =>
                             shown = IF IsDate(s) THEN DateOf(s, table[p].at) ELSE Blank
                        /\ Kind[c] = "kKeyTime" =>
                             shown = IF since \in TicksPerSecond..(filetimeMax - filetimeEpoch - 1)
                                       THEN Number(since \div TicksPerSecond) ELSE Blank
                        /\ Means(Kind[c], s, shown)
      BY DEF CellsMean
    <2> DEFINE i == Place(p)
    <2>1. Loaded /\ i \in Indices
      BY RowIs DEF TInv
    <2>2. PICK now \in Clocks : table[p] = RowAt(i, now)
      BY RowIs
    <2>3. i \in DOMAIN keys /\ parsed[i] = RecordOf(keys[i]) /\ keys[i] \in RegistryKey
      <3>1. DOMAIN parsed = 1..Len(parsed) /\ i \in DOMAIN parsed
        BY <2>1, LoadedIs DEF Indices
      <3>2. DOMAIN parsed = DOMAIN keys /\ parsed[i] = RecordOf(keys[i])
        BY <2>1, <3>1, AllRead
      <3>3. keys \in Seq(RegistryKey)
        BY <2>1, TableRowsAssumption DEF Loaded
      <3> HIDE DEF i
      <3> QED BY <3>1, <3>2, <3>3
    <2> HIDE DEF i
    <2>4. /\ table[p].key = keys[i] /\ table[p].at = now
          /\ table[p].cells[c] = cell(c, record(keys[i]), now)
      BY <2>2, <2>3 DEF RowAt, RecordOf
    <2>5. now \in Int
      BY TableRowsAssumption
    <2> DEFINE key   == keys[i]
               shown == cell(c, record(key), now)
               s     == Source(c, key)
               since == key.stamp - filetimeEpoch
    <2>6. /\ Kind[c] = "kTime" => shown = IF IsDate(s) THEN DateOf(s, now) ELSE Blank
          /\ Kind[c] = "kKeyTime" =>
               shown = IF since \in TicksPerSecond..(filetimeMax - filetimeEpoch - 1)
                         THEN Number(since \div TicksPerSecond) ELSE Blank
          /\ Means(Kind[c], s, shown)
      BY <2>3, <2>5, CellSays
    <2> HIDE DEF key, shown
    <2> QED BY <2>4, <2>6 DEF key, shown
  <1> QED BY <1>1, TableInv, PTL

=============================================================================
