----------------------------- MODULE IndexWalk -----------------------------
(***************************************************************************)
(* indexSlots and subkeys of internal/inventory/inventory.go: before the   *)
(* parser library builds the subkeys of a key, their index is walked with  *)
(* an explicit stack and refused when it is nested too deep, reaches a     *)
(* cell twice or holds too many slots.                                     *)
(*                                                                         *)
(* The library (regparser, not part of this repository) builds the same    *)
(* subkeys by recursion, with no bound of its own: Produced is what it     *)
(* builds, as the comment at indexSlots describes it.                      *)
(***************************************************************************)
EXTENDS Integers, Sequences, FiniteSets

CONSTANTS
  Cells,     \* offsets a subkey list or an index element can hold
  MaxDepth,  \* maxIndexDepth
  Limit,     \* maxSubkeys
  MaxList,   \* elements an index can have (uint16 in the format)
  Hives      \* what the cells hold

\* lf and lh are "fast", ri and li "list", nk "node"; a cell past the end of the
\* file reads as "absent", any other as "other".
Cell ==
  [kind : {"fast", "list", "node", "other", "absent"},
   count : 0..MaxList, elements : Seq(Cells)]

ASSUME WalkAssumption ==
  /\ MaxDepth \in Nat
  /\ Limit \in Nat \ {0}
  /\ MaxList \in Nat
  /\ Hives \subseteq [Cells -> Cell]
  /\ \A h \in Hives : \A c \in Cells : Len(h[c].elements) <= MaxList

VARIABLES
  hive,
  root,   \* the key's subkey list
  stack,  \* frames to visit, the last one first
  seen,   \* depth at which each visited cell was visited; the code keeps the cells
  pops,   \* frames taken from the stack
  scan,   \* elements left of the index being read
  depth,  \* depth of that index
  total,
  phase

vars == <<hive, root, stack, seen, pops, scan, depth, total, phase>>

Frame == [cell : Cells, depth : 0..(MaxDepth + 1)]

TypeOK ==
  /\ hive \in Hives
  /\ root \in Cells
  /\ stack \in Seq(Frame)
  /\ DOMAIN seen \subseteq Cells
  /\ seen \in [DOMAIN seen -> 0..MaxDepth]
  /\ pops \in Nat
  /\ scan \in Seq(Cells)
  /\ depth \in 0..MaxDepth
  /\ total \in Nat
  /\ phase \in {"enter", "pop", "scan", "leaf", "accepted", "deep", "cycle", "many"}

Init ==
  /\ hive \in Hives
  /\ root \in Cells
  /\ stack = <<>>
  /\ seen = <<>>
  /\ pops = 0
  /\ scan = <<>>
  /\ depth = 0
  /\ total = 0
  /\ phase = "enter"

IsIndex(c) == hive[c].kind \in {"fast", "list"}

-----------------------------------------------------------------------------

\* A leaf key has no subkey list: nothing is walked, nothing is built.
Leaf ==
  /\ phase = "enter"
  /\ hive[root].kind = "absent"
  /\ phase' = "leaf"
  /\ UNCHANGED <<hive, root, stack, seen, pops, scan, depth, total>>

Enter ==
  /\ phase = "enter"
  /\ hive[root].kind # "absent"
  /\ stack' = <<[cell |-> root, depth |-> 0]>>
  /\ phase' = "pop"
  /\ UNCHANGED <<hive, root, seen, pops, scan, depth, total>>

Top == stack[Len(stack)]

Pop ==
  /\ phase = "pop"
  /\ stack # <<>>
  /\ stack' = SubSeq(stack, 1, Len(stack) - 1)
  /\ pops' = pops + 1

TooDeep ==
  /\ Pop
  /\ Top.depth > MaxDepth
  /\ phase' = "deep"
  /\ UNCHANGED <<hive, root, seen, scan, depth, total>>

Revisit ==
  /\ Pop
  /\ Top.depth <= MaxDepth
  /\ Top.cell \in DOMAIN seen
  /\ phase' = "cycle"
  /\ UNCHANGED <<hive, root, seen, scan, depth, total>>

\* Mutant of Slots: the count of a fast index is left to its elements.
SlotsOfElements(c) == 0

\* A fast index is counted without its elements being read.
Slots(c) == IF hive[c].kind = "fast" THEN hive[c].count ELSE 0

\* The elements of a list are read; any other cell has none.
ReadTop ==
  /\ seen' = [c \in DOMAIN seen \cup {Top.cell} |->
                IF c = Top.cell THEN Top.depth ELSE seen[c]]
  /\ depth' = Top.depth
  /\ total' = total + Slots(Top.cell)
  /\ scan' = IF hive[Top.cell].kind = "list" THEN hive[Top.cell].elements ELSE <<>>
  /\ phase' = "scan"
  /\ UNCHANGED <<hive, root>>

\* Mutant of Visit: the walk does not remember where it was.
VisitForgetting == Pop /\ Top.depth <= MaxDepth /\ ReadTop

\* Mutant of Visit: the depth of a frame is not looked at.
VisitAtAnyDepth == Pop /\ Top.cell \notin DOMAIN seen /\ ReadTop

Visit == Pop /\ Top.depth <= MaxDepth /\ Top.cell \notin DOMAIN seen /\ ReadTop

\* Mutant of Element: an index is visited at the depth of the list it is in.
ElementAtSameDepth ==
  /\ phase = "scan"
  /\ scan # <<>>
  /\ scan' = Tail(scan)
  /\ total' = IF hive[Head(scan)].kind = "node" THEN total + 1 ELSE total
  /\ stack' = IF IsIndex(Head(scan))
                THEN Append(stack, [cell |-> Head(scan), depth |-> depth])
                ELSE stack
  /\ UNCHANGED <<hive, root, seen, pops, depth, phase>>

\* One element of a list: a key node is counted, an index is visited later.
Element ==
  /\ phase = "scan"
  /\ scan # <<>>
  /\ scan' = Tail(scan)
  /\ total' = IF hive[Head(scan)].kind = "node" THEN total + 1 ELSE total
  /\ stack' = IF IsIndex(Head(scan))
                THEN Append(stack, [cell |-> Head(scan), depth |-> depth + 1])
                ELSE stack
  /\ UNCHANGED <<hive, root, seen, pops, depth, phase>>

\* Mutant of CheckSize: the caps themselves are refused.
CheckSizeBelow ==
  /\ phase = "scan"
  /\ scan = <<>>
  /\ phase' = IF total >= Limit \/ Len(stack) >= Limit THEN "many" ELSE "pop"
  /\ UNCHANGED <<hive, root, stack, seen, pops, scan, depth, total>>

CheckSize ==
  /\ phase = "scan"
  /\ scan = <<>>
  /\ phase' = IF total > Limit \/ Len(stack) > Limit THEN "many" ELSE "pop"
  /\ UNCHANGED <<hive, root, stack, seen, pops, scan, depth, total>>

\* The walk is over and n.Subkeys may run.
Accept ==
  /\ phase = "pop"
  /\ stack = <<>>
  /\ phase' = "accepted"
  /\ UNCHANGED <<hive, root, stack, seen, pops, scan, depth, total>>

Next ==
  Leaf \/ Enter \/ TooDeep \/ Revisit \/ Visit \/ Element \/ CheckSize \/ Accept

Spec == Init /\ [][Next]_vars

-----------------------------------------------------------------------------
(* What n.Subkeys does with the same index.                                *)

\* The indexes a list refers to.
Children(c) ==
  IF hive[c].kind = "list"
    THEN {k \in Cells : IsIndex(k) /\ \E i \in DOMAIN hive[c].elements : hive[c].elements[i] = k}
    ELSE {}

\* The indexes n calls below the first.
Level[n \in Nat] ==
  IF n = 0 THEN {root} ELSE UNION {Children(c) : c \in Level[n - 1]}

\* The sum of the first n values of f.
Added(f, n) ==
  LET sum[k \in 0..n] == IF k = 0 THEN 0 ELSE sum[k - 1] + f[k] IN sum[n]

\* The key nodes n nested calls build from each cell.
Produced[n \in Nat] ==
  [c \in Cells |->
     IF hive[c].kind = "fast" THEN hive[c].count
     ELSE IF hive[c].kind # "list" THEN 0
     ELSE LET list == hive[c].elements IN
          Added([i \in DOMAIN list |->
                   IF hive[list[i]].kind = "node" THEN 1
                   ELSE IF n = 0 THEN 0 ELSE Produced[n - 1][list[i]]], Len(list))]

-----------------------------------------------------------------------------

\* An accepted index cannot overflow the goroutine's stack: the library's
\* recursion ends, at most MaxDepth calls below the first.
BoundedRecursion == phase = "accepted" => Level[MaxDepth + 1] = {}

\* The same of the walk: the depth grows by one along every reference of an
\* accepted index, so no chain of references is circular or longer than MaxDepth.
Ranked ==
  phase = "accepted" =>
    /\ root \in DOMAIN seen
    /\ \A c \in DOMAIN seen : \A k \in Children(c) :
         k \in DOMAIN seen /\ seen[k] = seen[c] + 1

\* The count of an accepted index is what the library builds at most, and within
\* the cap: the allocation is bounded before it is made.
CountIsBound ==
  phase = "accepted" => Produced[MaxDepth][root] <= total /\ total <= Limit

\* The walk itself is cheap: no cell is read twice, so it takes no more frames
\* than there are cells, however many paths lead through them, and between two
\* indexes no more frames are pending than the cap.
WalkIsCheap ==
  /\ pops <= Cardinality(DOMAIN seen) + 1
  /\ phase = "pop" => Len(stack) <= Limit

\* The indexes of the key, and the references to one of them.
Reached == UNION {Level[n] : n \in 0..MaxDepth}

References(k) ==
  {r \in Reached \X (1..MaxList) :
     LET elements == hive[r[1]].elements IN
     hive[r[1]].kind = "list" /\ r[2] \in DOMAIN elements /\ elements[r[2]] = k}

\* What Windows writes: a tree of indexes, within every cap.
Sound ==
  /\ Level[MaxDepth + 1] = {}
  /\ References(root) = {}
  /\ \A k \in Reached : Cardinality(References(k)) <= 1
  /\ Cardinality(Reached) <= Limit
  /\ Produced[MaxDepth][root] <= Limit

\* No key of a sound hive is lost to the guard: a tree of indexes within the caps
\* is accepted, whatever its shape and the order its indexes are visited in.
SoundIsAccepted == phase \in {"deep", "cycle", "many"} => ~Sound

=============================================================================
