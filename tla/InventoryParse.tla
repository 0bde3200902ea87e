--------------------------- MODULE InventoryParse ---------------------------
(***************************************************************************)
(* Parse and record of internal/inventory/inventory.go: one pass from the  *)
(* base block over Root's children to the records of the inventory keys,   *)
(* while the context of the load that runs it may end at any moment.       *)
(*                                                                         *)
(* The index of a key is what subkeys makes of it: refused (IndexWalk says *)
(* when) or the list of nodes the library builds.  A record is its name,   *)
(* its decoded values as one payload, and a form: "good", "over" (it       *)
(* declares more than maxValues values) or "panics" (the library panics    *)
(* while its name, time or values are read).  Names that differ in case    *)
(* alone are one name, as to EqualFold.                                    *)
(***************************************************************************)
EXTENDS Integers, Sequences, Functions

CONSTANTS
  Keys,        \* the inventory keys, in the order they are parsed
  LegacyKeys,  \* File and Programs
  OtherNames,  \* any other name a child of Root can have
  Ranks,       \* names of records, ordered as strings.Compare orders them
  Payloads,    \* what a record's values decode to
  NoValues,    \* the payload of a record served without values
  CheckEvery,  \* ctxCheckEvery
  Hives        \* the hives Parse is given

Rec == [name : Ranks, values : Payloads, form : {"good", "over", "panics"}]

Index(Node) == [sound : BOOLEAN, nodes : Seq(Node)]

KeyNames == Range(Keys)

Child == [name : KeyNames \cup LegacyKeys \cup OtherNames, index : Index(Rec)]

TopNode == [isRoot : BOOLEAN, index : Index(Child)]

\* baseNode: the base block is read and its root cell is a key node.
Hive == [baseNode : BOOLEAN, top : Index(TopNode)]

ASSUME ParseAssumption ==
  /\ Keys \in Seq(STRING)
  /\ \A i, j \in DOMAIN Keys : Keys[i] = Keys[j] => i = j
  /\ LegacyKeys \cap KeyNames = {}
  /\ OtherNames \cap (KeyNames \cup LegacyKeys) = {}
  /\ Ranks \subseteq Int
  /\ CheckEvery \in Nat \ {0}
  /\ Hives \subseteq Hive

VARIABLES
  hive,
  root,     \* the children of Root
  found,    \* inventory keys found, with the position of their node in root
  legacy,
  todo,     \* inventory keys the loop has not reached
  subs,     \* nodes of the current key that are not read yet
  read,     \* number of its nodes that were read
  recs,     \* records kept of them
  keys,     \* snap.Keys
  ctx,
  overrun,  \* records read since the context ended
  phase

vars == <<hive, root, found, legacy, todo, subs, read, recs, keys, ctx, overrun, phase>>

\* A record as it is served.
Served == [name : Ranks, values : Payloads \cup {NoValues}]

TypeOK ==
  /\ hive \in Hive
  /\ root \in Seq(Child)
  /\ DOMAIN found \subseteq KeyNames
  /\ found \in [DOMAIN found -> DOMAIN root]
  /\ legacy \in BOOLEAN
  /\ todo \in Seq(KeyNames)
  /\ subs \in Seq(Rec)
  /\ read \in Nat
  /\ recs \in Seq(Served)
  /\ DOMAIN keys \subseteq KeyNames
  /\ keys \in [DOMAIN keys -> Seq(Served)]
  /\ ctx \in {"live", "done"}
  /\ overrun \in Nat
  /\ phase \in {"base", "classify", "keys", "records", "done", "failed"}

Init ==
  /\ hive \in Hives
  /\ root = <<>>
  /\ found = <<>>
  /\ legacy = FALSE
  /\ todo = Keys
  /\ subs = <<>>
  /\ read = 0
  /\ recs = <<>>
  /\ keys = <<>>
  /\ ctx = "live"
  /\ overrun = 0
  /\ phase = "base"

Fail ==
  /\ phase' = "failed"
  /\ UNCHANGED <<hive, root, found, legacy, todo, subs, read, recs, keys, ctx, overrun>>

-----------------------------------------------------------------------------
(* From the base block to Root's children.                                 *)

\* The first node named Root.
IsFirstRoot(i) ==
  /\ i \in DOMAIN hive.top.nodes
  /\ hive.top.nodes[i].isRoot
  /\ \A j \in 1..(i - 1) : ~hive.top.nodes[j].isRoot

Readable(i) ==
  hive.baseNode /\ hive.top.sound /\ IsFirstRoot(i) /\ hive.top.nodes[i].index.sound

FindRoot ==
  /\ phase = "base"
  /\ \E i \in DOMAIN hive.top.nodes :
       Readable(i) /\ root' = hive.top.nodes[i].index.nodes
  /\ phase' = "classify"
  /\ UNCHANGED <<hive, found, legacy, todo, subs, read, recs, keys, ctx, overrun>>

\* No hive, no Root, or an index that is refused on the way to its children.
NoRoot ==
  /\ phase = "base"
  /\ ~\E i \in DOMAIN hive.top.nodes : Readable(i)
  /\ Fail

Present(names) == {k \in names : \E i \in DOMAIN root : root[i].name = k}

\* Of the children with the name of a key the last one is taken.
IsLastNamed(i, k) ==
  root[i].name = k /\ \A j \in DOMAIN root : root[j].name = k => j <= i

\* Mutant of Classify: the legacy keys are taken for inventory keys.
ClassifyAll ==
  /\ phase = "classify"
  /\ found' \in [Present(KeyNames \cup LegacyKeys) -> DOMAIN root]
  /\ \A k \in DOMAIN found' : IsLastNamed(found'[k], k)
  /\ legacy' = (Present(LegacyKeys) # {})
  /\ phase' = "keys"
  /\ UNCHANGED <<hive, root, todo, subs, read, recs, keys, ctx, overrun>>

Classify ==
  /\ phase = "classify"
  /\ found' \in [Present(KeyNames) -> DOMAIN root]
  /\ \A k \in DOMAIN found' : IsLastNamed(found'[k], k)
  /\ legacy' = (Present(LegacyKeys) # {})
  /\ phase' = "keys"
  /\ UNCHANGED <<hive, root, todo, subs, read, recs, keys, ctx, overrun>>

-----------------------------------------------------------------------------
(* The inventory keys.                                                     *)

\* No inventory key but a legacy one: an empty snapshot.
FinishLegacy ==
  /\ phase = "keys"
  /\ DOMAIN found = {}
  /\ legacy
  /\ phase' = "done"
  /\ UNCHANGED <<hive, root, found, legacy, todo, subs, read, recs, keys, ctx, overrun>>

NotAmcache == phase = "keys" /\ DOMAIN found = {} /\ ~legacy /\ Fail

\* The loop is at key k.
At(k) == phase = "keys" /\ DOMAIN found # {} /\ todo # <<>> /\ Head(todo) = k

SkipAbsent ==
  /\ \E k \in KeyNames \ DOMAIN found : At(k)
  /\ todo' = Tail(todo)
  /\ UNCHANGED <<hive, root, found, legacy, subs, read, recs, keys, ctx, overrun, phase>>

StopAtKey ==
  /\ \E k \in DOMAIN found : At(k)
  /\ ctx = "done"
  /\ Fail

\* Mutant of RejectKey: the error of one key is the error of the parse.
RejectParse ==
  /\ \E k \in DOMAIN found : At(k) /\ ~root[found[k]].index.sound
  /\ ctx = "live"
  /\ Fail

\* A refused index costs one key.
RejectKey ==
  /\ \E k \in DOMAIN found : At(k) /\ ~root[found[k]].index.sound
  /\ ctx = "live"
  /\ todo' = Tail(todo)
  /\ UNCHANGED <<hive, root, found, legacy, subs, read, recs, keys, ctx, overrun, phase>>

OpenKey ==
  /\ \E k \in DOMAIN found :
       /\ At(k)
       /\ root[found[k]].index.sound
       /\ subs' = root[found[k]].index.nodes
  /\ ctx = "live"
  /\ read' = 0
  /\ recs' = <<>>
  /\ phase' = "records"
  /\ UNCHANGED <<hive, root, found, legacy, todo, keys, ctx, overrun>>

-----------------------------------------------------------------------------
(* The records of one key.                                                 *)

\* record: what a node is served as.  One that panics is not served.
Record(r) ==
  [name |-> r.name, values |-> IF r.form = "over" THEN NoValues ELSE r.values]

\* Mutant of ReadRecord: no look at the context before the first record of a key.
ReadRecordCheckLate ==
  /\ phase = "records"
  /\ subs # <<>>
  /\ read % CheckEvery = 0 /\ read > 0 => ctx = "live"
  /\ recs' = IF Head(subs).form = "panics" THEN recs ELSE Append(recs, Record(Head(subs)))
  /\ subs' = Tail(subs)
  /\ read' = read + 1
  /\ overrun' = IF ctx = "done" THEN overrun + 1 ELSE 0
  /\ UNCHANGED <<hive, root, found, legacy, todo, keys, ctx, phase>>

ReadRecord ==
  /\ phase = "records"
  /\ subs # <<>>
  /\ read % CheckEvery = 0 => ctx = "live"
  /\ recs' = IF Head(subs).form = "panics" THEN recs ELSE Append(recs, Record(Head(subs)))
  /\ subs' = Tail(subs)
  /\ read' = read + 1
  /\ overrun' = IF ctx = "done" THEN overrun + 1 ELSE 0
  /\ UNCHANGED <<hive, root, found, legacy, todo, keys, ctx, phase>>

\* Mutant of StopAtRecord: the loop is left and what was read is kept.
StopAtRecordWithRows ==
  /\ phase = "records"
  /\ subs # <<>>
  /\ read % CheckEvery = 0
  /\ ctx = "done"
  /\ subs' = <<>>
  /\ UNCHANGED <<hive, root, found, legacy, todo, read, recs, keys, ctx, overrun, phase>>

\* The whole parse is given up, the keys that were complete included.
StopAtRecord ==
  /\ phase = "records"
  /\ subs # <<>>
  /\ read % CheckEvery = 0
  /\ ctx = "done"
  /\ Fail

\* p puts the records in the order of their names and keeps the order of equals.
StableOrder(p) ==
  \A i, j \in DOMAIN p :
    i < j => \/ recs[p[i]].name < recs[p[j]].name
             \/ recs[p[i]].name = recs[p[j]].name /\ p[i] < p[j]

\* Mutant of KeepKey: a sort that is not stable.
KeepKeyUnstable ==
  /\ phase = "records"
  /\ subs = <<>>
  /\ \E p \in Bijection(DOMAIN recs, DOMAIN recs) :
       /\ \A i, j \in DOMAIN p : i < j => recs[p[i]].name <= recs[p[j]].name
       /\ keys' = [k \in DOMAIN keys \cup {Head(todo)} |->
                     IF k = Head(todo) THEN [i \in DOMAIN recs |-> recs[p[i]]] ELSE keys[k]]
  /\ todo' = Tail(todo)
  /\ phase' = "keys"
  /\ UNCHANGED <<hive, root, found, legacy, subs, read, recs, ctx, overrun>>

\* The records are sorted and served.
KeepKey ==
  /\ phase = "records"
  /\ subs = <<>>
  /\ \E p \in Bijection(DOMAIN recs, DOMAIN recs) :
       /\ StableOrder(p)
       /\ keys' = [k \in DOMAIN keys \cup {Head(todo)} |->
                     IF k = Head(todo) THEN [i \in DOMAIN recs |-> recs[p[i]]] ELSE keys[k]]
  /\ todo' = Tail(todo)
  /\ phase' = "keys"
  /\ UNCHANGED <<hive, root, found, legacy, subs, read, recs, ctx, overrun>>

Finish ==
  /\ phase = "keys"
  /\ DOMAIN found # {}
  /\ todo = <<>>
  /\ phase' = "done"
  /\ UNCHANGED <<hive, root, found, legacy, todo, subs, read, recs, keys, ctx, overrun>>

EndContext ==
  /\ phase \notin {"done", "failed"}
  /\ ctx = "live"
  /\ ctx' = "done"
  /\ UNCHANGED <<hive, root, found, legacy, todo, subs, read, recs, keys, overrun, phase>>

Next ==
  \/ FindRoot \/ NoRoot \/ Classify
  \/ FinishLegacy \/ NotAmcache \/ SkipAbsent \/ StopAtKey \/ RejectKey \/ OpenKey
  \/ ReadRecord \/ StopAtRecord \/ KeepKey \/ Finish
  \/ EndContext

Spec == Init /\ [][Next]_vars

-----------------------------------------------------------------------------

\* The children of Root that carry a key which can be served.
Sources(k) == {i \in DOMAIN root : IsLastNamed(i, k) /\ root[i].index.sound}

Survives(r) == r.form # "panics"

\* A snapshot is the whole hive or it is not returned: it has a key exactly when
\* the hive has one whose index is sound, and under it every record that did not
\* panic, as often as the hive has it.  A context that ends in the middle, or a
\* damaged sibling, never leaves a part of the rows to be cached for all tables.
WholeSnapshot ==
  phase = "done" =>
    /\ \A k \in KeyNames : k \in DOMAIN keys <=> Sources(k) # {}
    /\ \A k \in DOMAIN keys : \A i \in Sources(k) :
         LET nodes == root[i].index.nodes
             kept  == {j \in DOMAIN nodes : Survives(nodes[j])}
         IN \E p \in Bijection(DOMAIN keys[k], kept) :
              \A j \in DOMAIN keys[k] : keys[k][j] = Record(nodes[p[j]])

\* The rows of a key are in the order of their names, and those with one name in
\* the order of the hive: the same hive always gives the same rows.
Deterministic ==
  phase = "done" =>
    \A k \in DOMAIN keys : \A i \in Sources(k) :
      LET nodes == root[i].index.nodes IN
      \E p \in [DOMAIN keys[k] -> DOMAIN nodes] :
        /\ \A j \in DOMAIN keys[k] : keys[k][j] = Record(nodes[p[j]])
        /\ \A j, m \in DOMAIN keys[k] :
             j < m => \/ nodes[p[j]].name < nodes[p[m]].name
                      \/ nodes[p[j]].name = nodes[p[m]].name /\ p[j] < p[m]

\* "A rejected index costs one key, never the parse": while its caller waits a
\* parse fails only for want of a Root it can list or of a key in it, whatever is
\* wrong with the keys and their records.
DamageIsContained ==
  phase = "failed" /\ ctx = "live" =>
    \A i \in DOMAIN hive.top.nodes : Readable(i) =>
      \A j \in DOMAIN hive.top.nodes[i].index.nodes :
        hive.top.nodes[i].index.nodes[j].name \in OtherNames

\* Once its context has ended a load reads fewer than CheckEvery records after the
\* one at hand, whatever keys are left: the slot is not held for the whole hive.
StopsSoon == overrun < CheckEvery

=============================================================================
