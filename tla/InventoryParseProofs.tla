------------------------ MODULE InventoryParseProofs ------------------------
(***************************************************************************)
(* Theorems about InventoryParse: for any hive and a context that ends at  *)
(* any moment, a parse fails for want of a Root or a key only, and a load  *)
(* nobody waits for stops within a batch of records.                       *)
(***************************************************************************)
EXTENDS InventoryParse, SequenceTheorems, TLAPS

(***************************************************************************)
(* The inductive invariant, in three parts.                                *)
(***************************************************************************)

\* The children classified are those of the first Root, and each key is found at
\* the last child that carries its name.
RootOK ==
  /\ phase \notin {"base", "failed"} =>
       \E i \in DOMAIN hive.top.nodes :
         Readable(i) /\ root = hive.top.nodes[i].index.nodes
  /\ phase \in {"keys", "records", "done"} =>
       /\ DOMAIN found = Present(KeyNames)
       /\ \A k \in DOMAIN found : IsLastNamed(found[k], k)
       /\ legacy <=> Present(LegacyKeys) # {}
  /\ phase \in {"base", "classify"} => DOMAIN found = {}

\* The records read since the context ended are in one batch.
OverrunOK ==
  /\ ctx = "live" => overrun = 0
  /\ overrun = 0 \/ (read > 0 /\ overrun <= (read - 1) % CheckEvery)

-----------------------------------------------------------------------------
(* The position in a batch.                                                *)

LEMMA DivMod ==
  \A C, r \in Int : C > 0 => r = (r \div C) * C + (r % C) /\ r \div C \in Int
  OBVIOUS

LEMMA ModOfSum ==
  \A C, q, m \in Int : 0 <= m /\ m < C => (q * C + m) % C = m
  OBVIOUS

\* Inside a batch the position before is one less.
LEMMA BatchPosition ==
  ASSUME NEW C \in Nat \ {0}, NEW r \in Nat, r % C # 0
  PROVE  r > 0 /\ (r - 1) % C = (r % C) - 1 /\ r % C \in 1..(C - 1)
  <1>1. r \div C \in Int /\ r = (r \div C) * C + (r % C)
    BY DivMod
  <1>2. r % C \in 1..(C - 1)
    OBVIOUS
  <1>3. PICK q \in Int : r = q * C + (r % C)
    BY <1>1
  <1>4. PICK m \in Int : m = (r % C) - 1
    BY <1>2
  <1>5. r - 1 = q * C + m /\ 0 <= m /\ m < C
    BY <1>2, <1>3, <1>4
  <1>6. (q * C + m) % C = m
    <2>1. C \in Int
      OBVIOUS
    <2> QED BY <2>1, <1>5, ModOfSum, Zenon
  <1>7. r # 0
    BY <1>2, ModOfSum
  <1>8. (r - 1) % C = m
    BY <1>5, <1>6
  <1> QED BY <1>2, <1>4, <1>7, <1>8

-----------------------------------------------------------------------------
(* Root and its children.                                                  *)

\* There is one first Root.
LEMMA FirstRootIsOne ==
  ASSUME TypeOK, NEW i \in DOMAIN hive.top.nodes, NEW j \in DOMAIN hive.top.nodes,
         Readable(i), Readable(j)
  PROVE  i = j
  <1>1. hive.top.nodes \in Seq(TopNode)
    BY DEF TypeOK, Hive, Index
  <1>2. /\ i \in Nat \ {0} /\ j \in Nat \ {0}
        /\ hive.top.nodes[i].isRoot /\ hive.top.nodes[j].isRoot
    BY <1>1 DEF Readable, IsFirstRoot
  <1>3. ~(i < j) /\ ~(j < i)
    BY <1>2 DEF Readable, IsFirstRoot
  <1> QED BY <1>2, <1>3

-----------------------------------------------------------------------------
(* Type correctness and Root.                                              *)

TInv == TypeOK /\ RootOK /\ DamageIsContained

LEMMA TInit ==
  ASSUME Init
  PROVE  TInv
  <1> USE ParseAssumption DEF Init
  <1>1. TypeOK
    <2>1. Keys \in Seq(KeyNames)
      BY DEF KeyNames, Range
    <2>2. found \in [DOMAIN found -> DOMAIN root] /\ DOMAIN found \subseteq KeyNames
      OBVIOUS
    <2>3. keys \in [DOMAIN keys -> Seq(Served)] /\ DOMAIN keys \subseteq KeyNames
      OBVIOUS
    <2>4. hive \in Hive
      OBVIOUS
    <2>5. root \in Seq(Child) /\ subs \in Seq(Rec) /\ recs \in Seq(Served)
      OBVIOUS
    <2>6. read \in Nat /\ overrun \in Nat /\ legacy \in BOOLEAN
      OBVIOUS
    <2>7. todo \in Seq(KeyNames)
      BY <2>1
    <2>8. ctx \in {"live", "done"} /\ phase \in {"base", "classify", "keys", "records", "done", "failed"}
      OBVIOUS
    <2> HIDE ParseAssumption DEF Init
    <2> QED BY <2>2, <2>3, <2>4, <2>5, <2>6, <2>7, <2>8 DEF TypeOK
  <1>2. RootOK /\ DamageIsContained
    BY DEF RootOK, DamageIsContained
  <1> QED BY <1>1, <1>2 DEF TInv

\* What NoRoot and NotAmcache give up on holds no inventory and no legacy key.
LEMMA FailuresAreEmpty ==
  ASSUME TInv, NoRoot \/ NotAmcache
  PROVE  DamageIsContained'
  <1>1. CASE NoRoot
    BY <1>1 DEF NoRoot, Fail, DamageIsContained, Readable, IsFirstRoot
  <1>2. CASE NotAmcache
    <2>1. /\ phase = "keys" /\ DOMAIN found = {} /\ ~legacy
          /\ hive' = hive /\ ctx' = ctx
      BY <1>2 DEF NotAmcache, Fail
    <2>2. Present(KeyNames) = {} /\ Present(LegacyKeys) = {}
      BY <2>1 DEF TInv, RootOK
    <2>3. PICK i \in DOMAIN hive.top.nodes :
            Readable(i) /\ root = hive.top.nodes[i].index.nodes
      BY <2>1 DEF TInv, RootOK
    <2>4. \A j \in DOMAIN root : root[j].name \in OtherNames
      <3>1. root \in Seq(Child)
        BY DEF TInv, TypeOK
      <3>2. \A j \in DOMAIN root : root[j] \in Child
        BY <3>1
      <3>3. \A c \in Child : c.name \in KeyNames \cup LegacyKeys \cup OtherNames
        BY DEF Child
      <3>4. \A j \in DOMAIN root : root[j].name \notin KeyNames \cup LegacyKeys
        BY <2>2 DEF Present
      <3> QED BY <3>2, <3>3, <3>4
    <2>5. \A k \in DOMAIN hive.top.nodes : Readable(k) => k = i
      BY <2>3, FirstRootIsOne DEF TInv
    <2>6. \A k \in DOMAIN hive.top.nodes : Readable(k) =>
            \A j \in DOMAIN hive.top.nodes[k].index.nodes :
              hive.top.nodes[k].index.nodes[j].name \in OtherNames
      BY <2>3, <2>4, <2>5
    <2> QED BY <2>1, <2>6 DEF DamageIsContained, Readable, IsFirstRoot
  <1> QED BY <1>1, <1>2

LEMMA FindRootStep ==
  ASSUME TInv, FindRoot
  PROVE  TInv'
  <1>1. PICK i \in DOMAIN hive.top.nodes :
          Readable(i) /\ root' = hive.top.nodes[i].index.nodes
    BY DEF FindRoot
  <1>2. root' \in Seq(Child)
    <2>1. hive.top.nodes \in Seq(TopNode)
      BY DEF TInv, TypeOK, Hive, Index
    <2>2. hive.top.nodes[i] \in TopNode
      BY <2>1
    <2> QED BY <1>1, <2>2 DEF TopNode, Index
  <1>3. DOMAIN found = {}
    BY DEF FindRoot, TInv, RootOK
  <1>4. TypeOK'
    BY <1>2, <1>3 DEF FindRoot, TInv, TypeOK
  <1>5. RootOK'
    BY <1>1, <1>3 DEF FindRoot, RootOK, Readable, IsFirstRoot
  <1>6. DamageIsContained'
    BY DEF FindRoot, DamageIsContained
  <1> QED BY <1>4, <1>5, <1>6 DEF TInv

LEMMA ClassifyStep ==
  ASSUME TInv, Classify
  PROVE  TInv'
  <1>1. UNCHANGED <<hive, root, todo, subs, read, recs, keys, ctx, overrun>>
    BY DEF Classify
  <1>2. TypeOK'
    BY <1>1 DEF Classify, TInv, TypeOK, Present
  <1>3. \A names : Present(names)' = Present(names)
    BY <1>1 DEF Present
  <1>4. RootOK'
    BY <1>1, <1>3 DEF Classify, TInv, RootOK, Readable, IsFirstRoot, IsLastNamed, Present
  <1>5. DamageIsContained'
    BY DEF Classify, DamageIsContained
  <1> QED BY <1>2, <1>4, <1>5 DEF TInv

\* A step after Classify keeps what was classified.
LEMMA RootKept ==
  ASSUME RootOK, phase \in {"keys", "records"}, phase' \in {"keys", "records", "done", "failed"},
         UNCHANGED <<hive, root, found, legacy>>
  PROVE  RootOK'
  BY DEF RootOK, Present, IsLastNamed, Readable, IsFirstRoot

\* The record at the front of the current key.
LEMMA FrontRecord ==
  ASSUME TypeOK, subs # <<>>
  PROVE  /\ Tail(subs) \in Seq(Rec)
         /\ Head(subs) \in Rec
         /\ Append(recs, Record(Head(subs))) \in Seq(Served)
  <1>1. Tail(subs) \in Seq(Rec) /\ Head(subs) \in Rec
    BY DEF TypeOK
  <1>2. Record(Head(subs)) \in Served
    BY <1>1 DEF Record, Served, Rec
  <1> QED BY <1>1, <1>2 DEF TypeOK

LEMMA ReadRecordTypes ==
  ASSUME TInv, ReadRecord
  PROVE  TInv'
  <1>1. TypeOK'
    BY FrontRecord DEF ReadRecord, TInv, TypeOK
  <1>2. RootOK'
    BY RootKept DEF ReadRecord, TInv
  <1>3. DamageIsContained'
    BY DEF ReadRecord, DamageIsContained
  <1> QED BY <1>1, <1>2, <1>3 DEF TInv

LEMMA OpenKeyTypes ==
  ASSUME TInv, OpenKey
  PROVE  TInv'
  <1>1. PICK k \in DOMAIN found : subs' = root[found[k]].index.nodes
    BY DEF OpenKey
  <1>2. subs' \in Seq(Rec)
    <2>1. root \in Seq(Child) /\ found[k] \in DOMAIN root
      BY DEF TInv, TypeOK
    <2>2. root[found[k]] \in Child
      BY <2>1
    <2> QED BY <1>1, <2>2 DEF Child, Index
  <1>3. TypeOK'
    BY <1>2 DEF OpenKey, TInv, TypeOK
  <1>4. RootOK'
    BY RootKept DEF OpenKey, At, TInv
  <1>5. DamageIsContained'
    BY DEF OpenKey, DamageIsContained
  <1> QED BY <1>3, <1>4, <1>5 DEF TInv

LEMMA KeepKeyTypes ==
  ASSUME TInv, KeepKey, todo # <<>>
  PROVE  TInv'
  <1>1. PICK p \in Bijection(DOMAIN recs, DOMAIN recs) :
          keys' = [k \in DOMAIN keys \cup {Head(todo)} |->
                     IF k = Head(todo) THEN [i \in DOMAIN recs |-> recs[p[i]]] ELSE keys[k]]
    BY DEF KeepKey
  <1>2. [i \in DOMAIN recs |-> recs[p[i]]] \in Seq(Served)
    <2>1. recs \in Seq(Served) /\ p \in [DOMAIN recs -> DOMAIN recs]
      BY DEF TInv, TypeOK, Bijection, Injection, Surjection
    <2>2. DOMAIN recs = 1..Len(recs) /\ Len(recs) \in Nat
      BY <2>1
    <2>3. \A i \in 1..Len(recs) : recs[p[i]] \in Served
      BY <2>1, <2>2
    <2> QED BY <2>2, <2>3, IsASeq
  <1>3. Head(todo) \in KeyNames /\ Tail(todo) \in Seq(KeyNames)
    BY DEF TInv, TypeOK
  <1>4. /\ DOMAIN keys' \subseteq KeyNames
        /\ keys' \in [DOMAIN keys' -> Seq(Served)]
    BY <1>1, <1>2, <1>3 DEF TInv, TypeOK
  <1>5. TypeOK'
    BY <1>3, <1>4 DEF KeepKey, TInv, TypeOK
  <1>6. RootOK'
    BY RootKept DEF KeepKey, TInv
  <1>7. DamageIsContained'
    BY DEF KeepKey, DamageIsContained
  <1> QED BY <1>5, <1>6, <1>7 DEF TInv


LEMMA StepTInv ==
  ASSUME TInv, phase = "records" => todo # <<>>, [Next]_vars
  PROVE  TInv'
  <1>1. CASE UNCHANGED vars
    BY <1>1 DEF vars, TInv, TypeOK, RootOK, DamageIsContained, Present, IsLastNamed,
                Readable, IsFirstRoot
  <1>2. CASE FindRoot BY <1>2, FindRootStep
  <1>3. CASE Classify BY <1>3, ClassifyStep
  <1>4. CASE OpenKey BY <1>4, OpenKeyTypes
  <1>5. CASE ReadRecord BY <1>5, ReadRecordTypes
  <1>6. CASE KeepKey BY <1>6, KeepKeyTypes DEF KeepKey
  <1>7. CASE NoRoot \/ NotAmcache
    <2>1. TypeOK'
      BY <1>7 DEF NoRoot, NotAmcache, Fail, TInv, TypeOK
    <2>2. RootOK'
      BY <1>7 DEF NoRoot, NotAmcache, Fail, RootOK
    <2> QED BY <1>7, <2>1, <2>2, FailuresAreEmpty DEF TInv
  <1>8. CASE FinishLegacy \/ Finish
    <2>1. TypeOK' /\ DamageIsContained'
      BY <1>8 DEF FinishLegacy, Finish, TInv, TypeOK, DamageIsContained
    <2> QED BY <1>8, <2>1, RootKept DEF FinishLegacy, Finish, TInv
  <1>9. CASE SkipAbsent \/ RejectKey
    <2>1. todo \in Seq(KeyNames) /\ todo # <<>>
      BY <1>9 DEF SkipAbsent, RejectKey, At, TInv, TypeOK
    <2>2. Tail(todo) \in Seq(KeyNames)
      BY <2>1
    <2>3. todo' = Tail(todo) /\ phase' = phase /\ phase = "keys"
          /\ UNCHANGED <<hive, root, found, legacy, subs, read, recs, keys, ctx, overrun>>
      BY <1>9 DEF SkipAbsent, RejectKey, At
    <2>4. TypeOK' /\ DamageIsContained'
      BY <2>2, <2>3 DEF TInv, TypeOK, DamageIsContained
    <2> QED BY <2>3, <2>4, RootKept DEF TInv
  <1>10. CASE StopAtKey \/ StopAtRecord
    <2>1. TypeOK' /\ DamageIsContained' /\ RootOK'
      BY <1>10 DEF StopAtKey, StopAtRecord, Fail, TInv, TypeOK, RootOK, DamageIsContained
    <2> QED BY <2>1 DEF TInv
  <1>11. CASE EndContext
    <2>1. TypeOK' /\ DamageIsContained'
      BY <1>11 DEF EndContext, TInv, TypeOK, DamageIsContained
    <2>2. RootOK'
      BY <1>11 DEF EndContext, TInv, RootOK, Present, IsLastNamed, Readable, IsFirstRoot
    <2> QED BY <2>1, <2>2 DEF TInv
  <1> QED
    BY <1>1, <1>2, <1>3, <1>4, <1>5, <1>6, <1>7, <1>8, <1>9, <1>10, <1>11 DEF Next

-----------------------------------------------------------------------------
(* Batches.                                                                *)

LEMMA OverrunStep ==
  ASSUME TypeOK, OverrunOK, [Next]_vars
  PROVE  OverrunOK'
  <1>1. CASE ReadRecord
    <2>1. CASE ctx = "live"
      BY <1>1, <2>1 DEF ReadRecord, OverrunOK
    <2>2. CASE ctx # "live"
      <3>1. read \in Nat /\ overrun \in Nat /\ CheckEvery \in Nat \ {0}
        BY ParseAssumption DEF TypeOK
      <3>2. read % CheckEvery # 0
        BY <1>1, <2>2 DEF ReadRecord
      <3>3. /\ (read - 1) % CheckEvery = (read % CheckEvery) - 1
            /\ read % CheckEvery \in 1..(CheckEvery - 1)
        BY <3>1, <3>2, BatchPosition
      <3>4. read' = read + 1 /\ ctx' = ctx /\ overrun' = overrun + 1
        BY <1>1, <2>2 DEF ReadRecord, TypeOK
      <3>5. overrun + 1 <= read % CheckEvery
        BY <3>1, <3>3 DEF OverrunOK
      <3>6. read' - 1 = read /\ read' > 0
        BY <3>1, <3>4
      <3> QED BY <2>2, <3>4, <3>5, <3>6 DEF OverrunOK
    <2> QED BY <2>1, <2>2
  <1>2. CASE OpenKey
    BY <1>2 DEF OpenKey, OverrunOK
  <1>3. CASE EndContext
    BY <1>3 DEF EndContext, OverrunOK
  <1>4. CASE ~(ReadRecord \/ OpenKey \/ EndContext)
    <2>1. UNCHANGED <<ctx, overrun, read>>
      BY <1>4 DEF Next, vars, FindRoot, NoRoot, Classify, FinishLegacy, NotAmcache, SkipAbsent,
                  StopAtKey, RejectKey, StopAtRecord, KeepKey, Finish, Fail
    <2> QED BY <2>1 DEF OverrunOK
  <1> QED BY <1>1, <1>2, <1>3, <1>4

LEMMA OverrunIsShort ==
  ASSUME TypeOK, OverrunOK
  PROVE  StopsSoon
  <1>1. read \in Nat /\ CheckEvery \in Nat \ {0}
    BY ParseAssumption DEF TypeOK
  <1>2. read > 0 => (read - 1) % CheckEvery \in 0..(CheckEvery - 1)
    BY <1>1
  <1> QED BY <1>1, <1>2 DEF OverrunOK, StopsSoon, TypeOK


-----------------------------------------------------------------------------
(* The rows of a key.                                                      *)

\* The nodes of key k, and those of the first n that are served.
NodesOf(k) == root[found[k]].index.nodes

KeptOf(nodes, n) == {j \in 1..n : Survives(nodes[j])}

\* Row j is what node p[j] is served as, and every node of S has a row.
Lists(p, rows, nodes, S) ==
  /\ p \in [DOMAIN rows -> S]
  /\ \A s \in S : \E j \in DOMAIN rows : p[j] = s
  /\ \A j \in DOMAIN rows : rows[j] = Record(nodes[p[j]])

\* The rows of a complete key: every served node, in stable order of the names.
Faithful(rows, nodes) ==
  \E p : /\ Lists(p, rows, nodes, KeptOf(nodes, Len(nodes)))
         /\ \A i, j \in DOMAIN rows :
              i < j => \/ nodes[p[i]].name < nodes[p[j]].name
                       \/ nodes[p[i]].name = nodes[p[j]].name /\ p[i] < p[j]

\* In the middle of a key: the rows of the nodes read so far, in hive order.
ReadingOK ==
  phase = "records" =>
    LET nodes == NodesOf(Head(todo)) IN
    /\ todo # <<>>
    /\ Head(todo) \in DOMAIN found
    /\ root[found[Head(todo)]].index.sound
    /\ read + Len(subs) = Len(nodes)
    /\ \A j \in 1..Len(subs) : subs[j] = nodes[read + j]
    /\ \E p : /\ Lists(p, recs, nodes, KeptOf(nodes, read))
              /\ \A i, j \in DOMAIN recs : i < j => p[i] < p[j]

\* The keys that are complete, and those that are still to come.
KeysOK ==
  /\ \A k \in DOMAIN keys :
       /\ k \in DOMAIN found
       /\ root[found[k]].index.sound
       /\ Faithful(keys[k], NodesOf(k))
  /\ phase \in {"base", "classify"} => DOMAIN keys = {} /\ todo = Keys
  /\ phase \in {"keys", "records", "done"} =>
       \A k \in DOMAIN found :
         root[found[k]].index.sound => k \in DOMAIN keys \cup Range(todo)
  /\ phase = "done" => DOMAIN found = {} \/ todo = <<>>

\* The nodes of a key that was found are a sequence of records.
LEMMA NodesType ==
  ASSUME TypeOK, NEW k \in DOMAIN found
  PROVE  NodesOf(k) \in Seq(Rec) /\ found[k] \in DOMAIN root
  <1>1. root \in Seq(Child) /\ found[k] \in DOMAIN root
    BY DEF TypeOK
  <1>2. root[found[k]] \in Child
    BY <1>1
  <1> QED BY <1>1, <1>2 DEF NodesOf, Child, Index

\* One more node is read.
LEMMA ReadOne ==
  ASSUME NEW nodes \in Seq(Rec), NEW n \in Nat, n < Len(nodes),
         NEW rows \in Seq(Served), NEW p, Lists(p, rows, nodes, KeptOf(nodes, n)),
         \A i, j \in DOMAIN rows : i < j => p[i] < p[j],
         NEW new,
         new = IF nodes[n + 1].form = "panics" THEN rows
               ELSE Append(rows, Record(nodes[n + 1]))
  PROVE  \E q : /\ Lists(q, new, nodes, KeptOf(nodes, n + 1))
                /\ \A i, j \in DOMAIN new : i < j => q[i] < q[j]
  <1>1. \A j \in DOMAIN rows : p[j] \in 1..n /\ Survives(nodes[p[j]])
    BY DEF Lists, KeptOf
  <1>2. CASE nodes[n + 1].form = "panics"
    <2>1. KeptOf(nodes, n + 1) = KeptOf(nodes, n)
      BY <1>2 DEF KeptOf, Survives
    <2> QED BY <1>2, <2>1
  <1>3. CASE nodes[n + 1].form # "panics"
    <2> DEFINE q == [j \in 1..(Len(rows) + 1) |-> IF j = Len(rows) + 1 THEN n + 1 ELSE p[j]]
    <2>1. KeptOf(nodes, n + 1) = KeptOf(nodes, n) \cup {n + 1}
      BY <1>3 DEF KeptOf, Survives
    <2>0. Record(nodes[n + 1]) \in Served
      <3>1. nodes[n + 1] \in Rec
        OBVIOUS
      <3> QED BY <3>1 DEF Rec, Served, Record
    <2>2. /\ DOMAIN new = 1..(Len(rows) + 1)
          /\ DOMAIN rows = 1..Len(rows) /\ Len(rows) \in Nat
          /\ new[Len(rows) + 1] = Record(nodes[n + 1])
          /\ \A j \in 1..Len(rows) : new[j] = rows[j]
      BY <1>3, <2>0
    <2>3. \A j \in 1..Len(rows) : p[j] \in KeptOf(nodes, n)
      BY DEF Lists
    <2>4. q \in [DOMAIN new -> KeptOf(nodes, n + 1)]
      BY <2>1, <2>2, <2>3
    <2>q. q[Len(rows) + 1] = n + 1 /\ \A j \in 1..Len(rows) : q[j] = p[j]
      BY <2>2
    <2> HIDE DEF q
    <2>5. \A s \in KeptOf(nodes, n + 1) : \E j \in DOMAIN new : q[j] = s
      <3>1. ASSUME NEW s \in KeptOf(nodes, n) PROVE \E j \in DOMAIN new : q[j] = s
        <4>1. PICK j \in 1..Len(rows) : p[j] = s
          BY <2>2 DEF Lists
        <4> QED BY <4>1, <2>2, <2>q
      <3>2. q[Len(rows) + 1] = n + 1 /\ Len(rows) + 1 \in DOMAIN new
        BY <2>2, <2>q
      <3> QED BY <2>1, <3>1, <3>2
    <2>6. \A j \in DOMAIN new : new[j] = Record(nodes[q[j]])
      BY <2>2, <2>q DEF Lists
    <2>7. \A i, j \in DOMAIN new : i < j => q[i] < q[j]
      BY <1>1, <2>2, <2>q
    <2>8. Lists(q, new, nodes, KeptOf(nodes, n + 1))
      BY <2>4, <2>5, <2>6 DEF Lists
    <2> QED BY <2>7, <2>8
  <1> QED BY <1>2, <1>3

\* q puts the rows in the stable order of their names.
Sorts(q, rows) ==
  /\ q \in [DOMAIN rows -> DOMAIN rows]
  /\ \A s \in DOMAIN rows : \E j \in DOMAIN rows : q[j] = s
  /\ \A i, j \in DOMAIN rows :
       i < j => \/ rows[q[i]].name < rows[q[j]].name
                \/ rows[q[i]].name = rows[q[j]].name /\ q[i] < q[j]

Ascending(p, rows) == \A i, j \in DOMAIN rows : i < j => p[i] < p[j]

\* Sorting the rows of all nodes makes them faithful.
LEMMA SortedIsFaithful ==
  ASSUME NEW nodes \in Seq(Rec), NEW rows \in Seq(Served),
         NEW p, Lists(p, rows, nodes, KeptOf(nodes, Len(nodes))),
         Ascending(p, rows),
         NEW q, Sorts(q, rows)
  PROVE  Faithful([i \in DOMAIN rows |-> rows[q[i]]], nodes)
  <1> DEFINE S   == KeptOf(nodes, Len(nodes))
             new == [i \in DOMAIN rows |-> rows[q[i]]]
             r   == [i \in DOMAIN rows |-> p[q[i]]]
  <1> USE DEF Sorts, Ascending
  <1>1. p \in [DOMAIN rows -> S] /\ \A s \in S : \E j \in DOMAIN rows : p[j] = s
    BY DEF Lists
  <1>2. r \in [DOMAIN new -> S]
    BY <1>1
  <1>3. \A s \in S : \E j \in DOMAIN new : r[j] = s
    BY <1>1
  <1>4. \A j \in DOMAIN new : new[j] = Record(nodes[r[j]])
    BY DEF Lists
  <1>5. \A j \in DOMAIN rows : rows[q[j]].name = nodes[r[j]].name
    <2>0. \A x : Record(x).name = x.name
      BY DEF Record
    <2>1. \A j \in DOMAIN rows : rows[j].name = nodes[p[j]].name
      BY <2>0 DEF Lists
    <2>2. \A j \in DOMAIN rows : q[j] \in DOMAIN rows /\ r[j] = p[q[j]]
      OBVIOUS
    <2> QED BY <2>1, <2>2
  <1>6. \A i, j \in DOMAIN new :
          i < j => \/ nodes[r[i]].name < nodes[r[j]].name
                   \/ nodes[r[i]].name = nodes[r[j]].name /\ r[i] < r[j]
    <2>1. \A i, j \in DOMAIN rows : q[i] < q[j] => r[i] < r[j]
      OBVIOUS
    <2>2. DOMAIN new = DOMAIN rows
      OBVIOUS
    <2> HIDE DEF r, new
    <2> QED BY <1>5, <2>1, <2>2
  <1>7. Lists(r, new, nodes, S)
    BY <1>2, <1>3, <1>4 DEF Lists
  <1> HIDE DEF r, new
  <1>8. Faithful(new, nodes)
    BY <1>6, <1>7 DEF Faithful
  <1> QED BY <1>8 DEF new


-----------------------------------------------------------------------------
(* The invariant of the snapshot.                                          *)

SInv == TInv /\ ReadingOK /\ KeysOK

\* A key is opened: none of its nodes is read.
LEMMA OpenKeyStep ==
  ASSUME SInv, OpenKey
  PROVE  ReadingOK' /\ KeysOK'
  <1>1. PICK k \in DOMAIN found :
          /\ phase = "keys" /\ todo # <<>> /\ Head(todo) = k
          /\ root[found[k]].index.sound
          /\ subs' = NodesOf(k)
    BY DEF OpenKey, At, NodesOf
  <1>2. /\ UNCHANGED <<root, found, todo, keys>>
        /\ read' = 0 /\ recs' = <<>> /\ phase' = "records"
    BY DEF OpenKey
  <1>3. NodesOf(k) \in Seq(Rec)
    BY NodesType DEF SInv, TInv
  <1>4. \E p : Lists(p, <<>>, NodesOf(k), KeptOf(NodesOf(k), 0))
    <2>1. KeptOf(NodesOf(k), 0) = {}
      BY DEF KeptOf
    <2>2. Lists(<<>>, <<>>, NodesOf(k), {})
      BY DEF Lists
    <2> QED BY <2>1, <2>2
  <1>5. ReadingOK'
    BY <1>1, <1>2, <1>3, <1>4 DEF ReadingOK, NodesOf
  <1>6. KeysOK'
    BY <1>1, <1>2 DEF SInv, KeysOK, NodesOf
  <1> QED BY <1>5, <1>6

\* One more record of the key is read.
LEMMA ReadRecordStep ==
  ASSUME SInv, ReadRecord
  PROVE  ReadingOK' /\ KeysOK'
  <1>1. /\ UNCHANGED <<root, found, todo, keys, phase>>
        /\ phase = "records" /\ subs # <<>>
        /\ subs' = Tail(subs) /\ read' = read + 1
        /\ recs' = IF Head(subs).form = "panics" THEN recs ELSE Append(recs, Record(Head(subs)))
    BY DEF ReadRecord
  <1>2. PICK nodes : nodes = NodesOf(Head(todo))
    OBVIOUS
  <1>3. /\ todo # <<>> /\ Head(todo) \in DOMAIN found
        /\ root[found[Head(todo)]].index.sound
        /\ read + Len(subs) = Len(nodes)
        /\ \A j \in 1..Len(subs) : subs[j] = nodes[read + j]
    BY <1>1, <1>2 DEF SInv, ReadingOK
  <1>4. PICK p : /\ Lists(p, recs, nodes, KeptOf(nodes, read))
                 /\ \A i, j \in DOMAIN recs : i < j => p[i] < p[j]
    BY <1>1, <1>2 DEF SInv, ReadingOK
  <1>5. /\ nodes \in Seq(Rec) /\ subs \in Seq(Rec) /\ recs \in Seq(Served)
        /\ read \in Nat
    BY <1>2, <1>3, NodesType DEF SInv, TInv, TypeOK
  <1>6. read < Len(nodes) /\ Head(subs) = nodes[read + 1]
    BY <1>1, <1>3, <1>5
  <1>7. \E q : /\ Lists(q, recs', nodes, KeptOf(nodes, read + 1))
               /\ \A i, j \in DOMAIN recs' : i < j => q[i] < q[j]
    <2>1. PICK new : new = recs'
      OBVIOUS
    <2>2. new = IF nodes[read + 1].form = "panics" THEN recs
                ELSE Append(recs, Record(nodes[read + 1]))
      BY <1>1, <1>6, <2>1
    <2>3. \E q : /\ Lists(q, new, nodes, KeptOf(nodes, read + 1))
                 /\ \A i, j \in DOMAIN new : i < j => q[i] < q[j]
      BY <1>4, <1>5, <1>6, <2>2, ReadOne
    <2> QED BY <2>1, <2>3
  <1>8. /\ (read + 1) + Len(Tail(subs)) = Len(nodes)
        /\ \A j \in 1..Len(Tail(subs)) : Tail(subs)[j] = nodes[(read + 1) + j]
    <2>1. /\ Len(Tail(subs)) = Len(subs) - 1 /\ Len(subs) \in Nat \ {0}
          /\ Len(nodes) \in Nat
          /\ \A j \in 1..Len(Tail(subs)) : Tail(subs)[j] = subs[j + 1]
      BY <1>1, <1>5
    <2>2. ASSUME NEW j \in 1..Len(Tail(subs)) PROVE Tail(subs)[j] = nodes[(read + 1) + j]
      <3>1. j + 1 \in 1..Len(subs) /\ read + (j + 1) = (read + 1) + j
        BY <2>1, <1>5
      <3> QED BY <2>1, <3>1, <1>3
    <2> QED BY <1>3, <1>5, <2>1, <2>2
  <1>9. NodesOf(Head(todo))' = nodes
    BY <1>1, <1>2 DEF NodesOf
  <1>10. ReadingOK'
    BY <1>1, <1>3, <1>7, <1>8, <1>9 DEF ReadingOK, NodesOf
  <1>11. KeysOK'
    BY <1>1 DEF SInv, KeysOK, NodesOf
  <1> QED BY <1>10, <1>11

\* The front of a sequence and the rest of it.
LEMMA RangeOfTail ==
  ASSUME NEW s \in Seq(KeyNames), s # <<>>
  PROVE  Range(s) \subseteq {Head(s)} \cup Range(Tail(s))
  <1> SUFFICES ASSUME NEW i \in DOMAIN s
               PROVE  s[i] \in {Head(s)} \cup Range(Tail(s))
    BY DEF Range
  <1>1. CASE i = 1
    BY <1>1
  <1>2. CASE i # 1
    <2>1. i - 1 \in DOMAIN Tail(s) /\ Tail(s)[i - 1] = s[i]
      BY <1>2
    <2> QED BY <2>1 DEF Range
  <1> QED BY <1>1, <1>2


\* The rows of the key are complete and sorted.
LEMMA KeepKeyStep ==
  ASSUME SInv, KeepKey
  PROVE  ReadingOK' /\ KeysOK'
  <1>1. /\ UNCHANGED <<root, found, recs>>
        /\ phase = "records" /\ phase' = "keys" /\ subs = <<>> /\ todo' = Tail(todo)
    BY DEF KeepKey
  <1>2. PICK q \in Bijection(DOMAIN recs, DOMAIN recs) :
          /\ StableOrder(q)
          /\ keys' = [k \in DOMAIN keys \cup {Head(todo)} |->
                        IF k = Head(todo) THEN [i \in DOMAIN recs |-> recs[q[i]]] ELSE keys[k]]
    BY DEF KeepKey
  <1>3. /\ q \in [DOMAIN recs -> DOMAIN recs]
        /\ \A s \in DOMAIN recs : \E j \in DOMAIN recs : q[j] = s
    BY <1>2 DEF Bijection, Injection, Surjection
  <1>4. PICK nodes : nodes = NodesOf(Head(todo))
    OBVIOUS
  <1>5. /\ todo # <<>> /\ Head(todo) \in DOMAIN found
        /\ root[found[Head(todo)]].index.sound
        /\ read + Len(subs) = Len(nodes)
    BY <1>1, <1>4 DEF SInv, ReadingOK
  <1>6. PICK p : /\ Lists(p, recs, nodes, KeptOf(nodes, read))
                 /\ \A i, j \in DOMAIN recs : i < j => p[i] < p[j]
    BY <1>1, <1>4 DEF SInv, ReadingOK
  <1>7. /\ nodes \in Seq(Rec) /\ recs \in Seq(Served) /\ read \in Nat /\ todo \in Seq(KeyNames)
    BY <1>4, <1>5, NodesType DEF SInv, TInv, TypeOK
  <1>8. read = Len(nodes)
    BY <1>1, <1>5, <1>7
  <1>9. Faithful([i \in DOMAIN recs |-> recs[q[i]]], nodes)
    <2>1. Sorts(q, recs)
      BY <1>2, <1>3 DEF StableOrder, Sorts
    <2>2. Lists(p, recs, nodes, KeptOf(nodes, Len(nodes)))
      BY <1>6, <1>8
    <2>3. Ascending(p, recs)
      BY <1>6 DEF Ascending
    <2> QED BY <1>7, <2>1, <2>2, <2>3, SortedIsFaithful
  <1>10. \A k : NodesOf(k)' = NodesOf(k)
    BY <1>1 DEF NodesOf
  <1>11. ASSUME NEW k \in DOMAIN keys'
         PROVE  /\ k \in DOMAIN found /\ root[found[k]].index.sound
                /\ Faithful(keys'[k], NodesOf(k))
    <2>1. CASE k = Head(todo)
      BY <1>2, <1>4, <1>5, <1>9, <2>1
    <2>2. CASE k # Head(todo)
      BY <1>2, <2>2 DEF SInv, KeysOK
    <2> QED BY <2>1, <2>2
  <1>12. ASSUME NEW k \in DOMAIN found, root[found[k]].index.sound
         PROVE  k \in DOMAIN keys' \cup Range(todo')
    <2>1. k \in DOMAIN keys \cup Range(todo)
      BY <1>1, <1>12 DEF SInv, KeysOK
    <2>2. Range(todo) \subseteq {Head(todo)} \cup Range(Tail(todo))
      BY <1>5, <1>7, RangeOfTail
    <2> QED BY <1>1, <1>2, <2>1, <2>2
  <1>13. KeysOK'
    BY <1>1, <1>10, <1>11, <1>12 DEF KeysOK
  <1> QED BY <1>1, <1>13 DEF ReadingOK

\* A key that is absent or refused is passed over.
LEMMA PassKeyStep ==
  ASSUME SInv, SkipAbsent \/ RejectKey
  PROVE  ReadingOK' /\ KeysOK'
  <1>1. /\ UNCHANGED <<root, found, keys, phase>>
        /\ phase = "keys" /\ todo # <<>> /\ todo' = Tail(todo)
        /\ ~(Head(todo) \in DOMAIN found /\ root[found[Head(todo)]].index.sound)
    BY DEF SkipAbsent, RejectKey, At
  <1>2. Range(todo) \subseteq {Head(todo)} \cup Range(Tail(todo))
    BY <1>1, RangeOfTail DEF SInv, TInv, TypeOK
  <1>3. ASSUME NEW k \in DOMAIN found, root[found[k]].index.sound
        PROVE  k \in DOMAIN keys \cup Range(Tail(todo))
    BY <1>1, <1>2, <1>3 DEF SInv, KeysOK
  <1>4. KeysOK'
    BY <1>1, <1>3 DEF SInv, KeysOK, NodesOf
  <1> QED BY <1>1, <1>4 DEF ReadingOK

LEMMA StepSInv ==
  ASSUME SInv, [Next]_vars
  PROVE  SInv'
  <1>0. TInv'
    BY StepTInv DEF SInv, ReadingOK
  <1>1. CASE OpenKey BY <1>0, <1>1, OpenKeyStep DEF SInv
  <1>2. CASE ReadRecord BY <1>0, <1>2, ReadRecordStep DEF SInv
  <1>3. CASE KeepKey BY <1>0, <1>3, KeepKeyStep DEF SInv
  <1>4. CASE SkipAbsent \/ RejectKey BY <1>0, <1>4, PassKeyStep DEF SInv
  <1>5. CASE FindRoot \/ Classify
    <2>1. /\ phase \in {"base", "classify"} /\ phase' \in {"classify", "keys"}
          /\ UNCHANGED <<todo, keys>>
      BY <1>5 DEF FindRoot, Classify
    <2>2. DOMAIN keys = {} /\ todo = Keys
      BY <2>1 DEF SInv, KeysOK
    <2>3. DOMAIN found' \subseteq Range(Keys)
      BY <1>0 DEF TInv, TypeOK, KeyNames
    <2>4. KeysOK'
      BY <2>1, <2>2, <2>3 DEF KeysOK
    <2> QED BY <1>0, <2>1, <2>4 DEF SInv, ReadingOK
  <1>6. CASE NoRoot \/ NotAmcache \/ StopAtKey \/ StopAtRecord \/ FinishLegacy \/ Finish
    <2>1. /\ phase' \in {"failed", "done"}
          /\ UNCHANGED <<root, found, todo, keys>>
          /\ phase' = "done" => phase = "keys" /\ (DOMAIN found = {} \/ todo = <<>>)
      BY <1>6 DEF NoRoot, NotAmcache, StopAtKey, StopAtRecord, FinishLegacy, Finish, Fail
    <2>2. KeysOK'
      BY <2>1 DEF SInv, KeysOK, NodesOf
    <2> QED BY <1>0, <2>1, <2>2 DEF SInv, ReadingOK
  <1>7. CASE UNCHANGED vars \/ EndContext
    <2>1. UNCHANGED <<root, found, todo, subs, read, recs, keys, phase>>
      BY <1>7 DEF vars, EndContext
    <2>2. KeysOK' /\ ReadingOK'
      BY <2>1 DEF SInv, KeysOK, ReadingOK, NodesOf
    <2> QED BY <1>0, <2>2 DEF SInv
  <1> QED BY <1>1, <1>2, <1>3, <1>4, <1>5, <1>6, <1>7 DEF Next


\* The invariant holds in every behaviour.
THEOREM ParseInv == Spec => [](SInv /\ OverrunOK)
  <1>1. Init => SInv /\ OverrunOK
    <2> SUFFICES ASSUME Init PROVE SInv /\ OverrunOK
      OBVIOUS
    <2>1. TInv
      BY TInit
    <2>2. ReadingOK /\ KeysOK /\ OverrunOK
      BY DEF Init, ReadingOK, KeysOK, OverrunOK
    <2> QED BY <2>1, <2>2 DEF SInv
  <1>2. SInv /\ OverrunOK /\ [Next]_vars => (SInv /\ OverrunOK)'
    BY StepSInv, OverrunStep DEF SInv, TInv
  <1> QED BY <1>1, <1>2, PTL DEF Spec

-----------------------------------------------------------------------------

\* The state of a parse is well typed, whatever the hive.
THEOREM ParseTypes == Spec => []TypeOK
  BY ParseInv, PTL DEF SInv, TInv

\* Damage below Root never fails a parse its caller waits for.
THEOREM DamageContained == Spec => []DamageIsContained
  BY ParseInv, PTL DEF SInv, TInv

\* A load nobody waits for stops within a batch, whatever keys are left.
THEOREM ParseStopsSoon == Spec => []StopsSoon
  <1>1. SInv /\ OverrunOK => StopsSoon
    BY OverrunIsShort DEF SInv, TInv
  <1> QED BY <1>1, ParseInv, PTL

\* The source of a key is the child it was found at.
LEMMA SourceIsFound ==
  ASSUME SInv, phase \in {"keys", "records", "done"}, NEW k \in KeyNames, NEW i \in Sources(k)
  PROVE  k \in DOMAIN found /\ i = found[k] /\ root[i].index.sound
  <1>1. i \in DOMAIN root /\ root[i].name = k /\ IsLastNamed(i, k) /\ root[i].index.sound
    BY DEF Sources, IsLastNamed
  <1>2. k \in DOMAIN found
    BY <1>1 DEF SInv, TInv, RootOK, Present
  <1>3. IsLastNamed(found[k], k) /\ found[k] \in DOMAIN root
    BY <1>2 DEF SInv, TInv, RootOK, TypeOK
  <1>4. i <= found[k] /\ found[k] <= i
    BY <1>1, <1>3 DEF IsLastNamed
  <1>5. i \in Nat /\ found[k] \in Nat
    <2>1. root \in Seq(Child)
      BY DEF SInv, TInv, TypeOK
    <2> QED BY <1>1, <1>3, <2>1
  <1> QED BY <1>1, <1>2, <1>4, <1>5

\* A key that was found and is sound is its own source.
LEMMA FoundIsSource ==
  ASSUME SInv, phase \in {"keys", "records", "done"}, NEW k \in DOMAIN found,
         root[found[k]].index.sound
  PROVE  found[k] \in Sources(k)
  BY DEF SInv, TInv, RootOK, TypeOK, Sources, IsLastNamed

\* Rows in stable order come from different nodes.
LEMMA FaithfulIsOneToOne ==
  ASSUME NEW nodes \in Seq(Rec), NEW rows \in Seq(Served), Faithful(rows, nodes)
  PROVE  \E p \in Bijection(DOMAIN rows, {j \in DOMAIN nodes : Survives(nodes[j])}) :
           \A j \in DOMAIN rows : rows[j] = Record(nodes[p[j]])
  <1> DEFINE kept == {j \in DOMAIN nodes : Survives(nodes[j])}
  <1>1. kept = KeptOf(nodes, Len(nodes))
    BY DEF KeptOf
  <1>2. PICK p :
          /\ Lists(p, rows, nodes, kept)
          /\ \A i, j \in DOMAIN rows :
               i < j => \/ nodes[p[i]].name < nodes[p[j]].name
                        \/ nodes[p[i]].name = nodes[p[j]].name /\ p[i] < p[j]
    BY <1>1 DEF Faithful
  <1>3. /\ p \in [DOMAIN rows -> kept]
        /\ \A s \in kept : \E j \in DOMAIN rows : p[j] = s
        /\ \A j \in DOMAIN rows : rows[j] = Record(nodes[p[j]])
    BY <1>2 DEF Lists
  <1>4. \A j \in DOMAIN rows : j \in Nat /\ p[j] \in Nat /\ nodes[p[j]].name \in Int
    <2>1. \A r \in Rec : r.name \in Int
      BY ParseAssumption DEF Rec
    <2>2. \A j \in DOMAIN nodes : j \in Nat /\ nodes[j] \in Rec
      OBVIOUS
    <2>3. \A j \in DOMAIN rows : p[j] \in DOMAIN nodes
      BY <1>3
    <2> QED BY <2>1, <2>2, <2>3
  <1>5. \A i, j \in DOMAIN rows : p[i] = p[j] => i = j
    <2> SUFFICES ASSUME NEW i \in DOMAIN rows, NEW j \in DOMAIN rows, p[i] = p[j]
                 PROVE  ~(i < j) /\ ~(j < i)
      BY <1>4
    <2> QED BY <1>2, <1>4
  <1>6. p \in Bijection(DOMAIN rows, kept)
    BY <1>3, <1>5 DEF Bijection, Injection, Surjection, IsInjective
  <1> QED BY <1>3, <1>6

\* Every snapshot is the whole hive.
THEOREM SnapshotIsWhole == Spec => []WholeSnapshot
  <1>1. SInv => WholeSnapshot
    <2> SUFFICES ASSUME SInv, phase = "done" PROVE WholeSnapshot
      BY DEF WholeSnapshot
    <2>1. ASSUME NEW k \in KeyNames PROVE k \in DOMAIN keys <=> Sources(k) # {}
      <3>1. CASE k \in DOMAIN keys
        BY <3>1, FoundIsSource DEF SInv, KeysOK
      <3>2. ASSUME NEW i \in Sources(k) PROVE k \in DOMAIN keys
        <4>1. k \in DOMAIN found /\ root[found[k]].index.sound
          BY SourceIsFound
        <4>2. k \in DOMAIN keys \cup Range(todo) /\ todo = <<>>
          BY <4>1 DEF SInv, KeysOK
        <4> QED BY <4>2 DEF Range
      <3> QED BY <3>1, <3>2
    <2>2. ASSUME NEW k \in DOMAIN keys, NEW i \in Sources(k)
          PROVE  LET nodes == root[i].index.nodes
                     kept  == {j \in DOMAIN nodes : Survives(nodes[j])}
                 IN \E p \in Bijection(DOMAIN keys[k], kept) :
                      \A j \in DOMAIN keys[k] : keys[k][j] = Record(nodes[p[j]])
      <3>1. k \in KeyNames /\ i = found[k]
        BY SourceIsFound DEF SInv, TInv, TypeOK
      <3>2. PICK nodes : nodes = NodesOf(k)
        OBVIOUS
      <3>3. nodes = root[i].index.nodes
        BY <3>1, <3>2 DEF NodesOf
      <3>4. Faithful(keys[k], nodes) /\ k \in DOMAIN found
        BY <3>2 DEF SInv, KeysOK
      <3>5. nodes \in Seq(Rec) /\ keys[k] \in Seq(Served)
        BY <3>2, <3>4, NodesType DEF SInv, TInv, TypeOK
      <3>6. \E p \in Bijection(DOMAIN keys[k], {j \in DOMAIN nodes : Survives(nodes[j])}) :
              \A j \in DOMAIN keys[k] : keys[k][j] = Record(nodes[p[j]])
        BY <3>4, <3>5, FaithfulIsOneToOne
      <3> QED BY <3>3, <3>6
    <2> QED BY <2>1, <2>2 DEF WholeSnapshot
  <1> QED BY <1>1, ParseInv, PTL

\* The rows of every snapshot are in the stable order of their names.
THEOREM SnapshotInOrder == Spec => []Deterministic
  <1>1. SInv => Deterministic
    <2> SUFFICES ASSUME SInv, phase = "done", NEW k \in DOMAIN keys, NEW i \in Sources(k)
                 PROVE  LET nodes == root[i].index.nodes IN
                        \E p \in [DOMAIN keys[k] -> DOMAIN nodes] :
                          /\ \A j \in DOMAIN keys[k] : keys[k][j] = Record(nodes[p[j]])
                          /\ \A j, m \in DOMAIN keys[k] :
                               j < m => \/ nodes[p[j]].name < nodes[p[m]].name
                                        \/ nodes[p[j]].name = nodes[p[m]].name /\ p[j] < p[m]
      BY DEF Deterministic
    <2>1. k \in KeyNames /\ i = found[k]
      BY SourceIsFound DEF SInv, TInv, TypeOK
    <2>2. PICK nodes : nodes = root[i].index.nodes
      OBVIOUS
    <2>3. Faithful(keys[k], nodes)
      BY <2>1, <2>2 DEF SInv, KeysOK, NodesOf
    <2>4. PICK p : /\ Lists(p, keys[k], nodes, KeptOf(nodes, Len(nodes)))
                   /\ \A j, m \in DOMAIN keys[k] :
                        j < m => \/ nodes[p[j]].name < nodes[p[m]].name
                                 \/ nodes[p[j]].name = nodes[p[m]].name /\ p[j] < p[m]
      BY <2>3 DEF Faithful
    <2>5. nodes \in Seq(Rec)
      BY <2>1, <2>2, NodesType DEF SInv, TInv, TypeOK, KeysOK, NodesOf
    <2>6. KeptOf(nodes, Len(nodes)) \subseteq DOMAIN nodes
      BY <2>5 DEF KeptOf
    <2>7. /\ p \in [DOMAIN keys[k] -> DOMAIN nodes]
          /\ \A j \in DOMAIN keys[k] : keys[k][j] = Record(nodes[p[j]])
      BY <2>4, <2>6 DEF Lists
    <2> QED BY <2>2, <2>4, <2>7
  <1> QED BY <1>1, ParseInv, PTL

=============================================================================
