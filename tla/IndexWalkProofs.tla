-------------------------- MODULE IndexWalkProofs --------------------------
(***************************************************************************)
(* Theorems about IndexWalk, for any content of the cells, any caps and    *)
(* any key.  An accepted index is ranked, so that the library's recursion  *)
(* over it ends within MaxDepth, and its count is what the library builds; *)
(* an index that is refused is deeper, more tangled or larger than any     *)
(* sound one; and the walk takes no more frames than there are cells.      *)
(***************************************************************************)
EXTENDS IndexWalk, Induction, SequenceTheorems

(***************************************************************************)
(* The inductive invariant: every index a visited list refers to is        *)
(* visited, pending or among the elements still to be read, one deeper     *)
(* than the list.                                                          *)
(***************************************************************************)

Walking == phase \in {"pop", "scan", "accepted"}

Pending(c, d) == \E i \in DOMAIN stack : stack[i] = [cell |-> c, depth |-> d]

ToRead(c) == \E i \in DOMAIN scan : scan[i] = c

RootOK == (root \in DOMAIN seen) \/ Pending(root, 0)

Followed(c, k) ==
  \/ k \in DOMAIN seen /\ seen[k] = seen[c] + 1
  \/ Pending(k, seen[c] + 1)
  \/ seen[c] = depth /\ ToRead(k)

WalkOK ==
  Walking =>
    /\ RootOK
    /\ \A c \in DOMAIN seen : \A k \in Children(c) : Followed(c, k)
    /\ phase # "scan" => scan = <<>>
    /\ phase = "accepted" => stack = <<>>

CostOK ==
  /\ IsFiniteSet(DOMAIN seen)
  /\ phase \in {"enter", "leaf", "pop", "scan", "accepted", "many"}
       => pops = Cardinality(DOMAIN seen)
  /\ phase \in {"deep", "cycle"} => pops = Cardinality(DOMAIN seen) + 1
  /\ phase = "enter" => stack = <<>> /\ seen = <<>> /\ scan = <<>>
  /\ phase = "pop" => Len(stack) <= Limit

IInv == TypeOK /\ WalkOK /\ CostOK

-----------------------------------------------------------------------------

LEMMA InitOK == Init => IInv
  <1> SUFFICES ASSUME Init PROVE IInv
    OBVIOUS
  <1>1. DOMAIN seen = {}
    BY DEF Init
  <1>2. IsFiniteSet(DOMAIN seen) /\ Cardinality(DOMAIN seen) = 0
    BY <1>1, FS_EmptySet
  <1>3. TypeOK
    BY <1>1, WalkAssumption DEF Init, TypeOK
  <1>4. WalkOK /\ CostOK
    BY <1>2 DEF Init, WalkOK, Walking, CostOK
  <1> QED BY <1>3, <1>4 DEF IInv

\* What taking the top frame leaves, and what it takes.
LEMMA PopStep ==
  ASSUME IInv, Pop
  PROVE  /\ Top \in Frame
         /\ stack' \in Seq(Frame)
         /\ Len(stack') = Len(stack) - 1
         /\ \A i \in 1..Len(stack') : stack'[i] = stack[i]
         /\ \A c, d : Pending(c, d) => Pending(c, d)' \/ Top = [cell |-> c, depth |-> d]
         /\ pops' \in Nat
  <1>1. stack \in Seq(Frame) /\ stack # <<>> /\ pops \in Nat
    BY DEF IInv, TypeOK, Pop
  <1>2. Len(stack) \in Nat /\ Len(stack) > 0 /\ Len(stack) \in DOMAIN stack
    BY <1>1
  <1>3. stack' = SubSeq(stack, 1, Len(stack) - 1) /\ pops' = pops + 1
    BY DEF Pop
  <1>4. stack' \in Seq(Frame) /\ Len(stack') = Len(stack) - 1
        /\ \A i \in 1..(Len(stack) - 1) : stack'[i] = stack[i]
    <2>1. 1 \in Int /\ Len(stack) - 1 \in Int
          /\ \A i \in 1..(Len(stack) - 1) : stack[i] \in Frame
      BY <1>1, <1>2
    <2>2. /\ SubSeq(stack, 1, Len(stack) - 1) \in Seq(Frame)
          /\ Len(SubSeq(stack, 1, Len(stack) - 1)) =
               IF 1 <= Len(stack) - 1 THEN Len(stack) - 1 - 1 + 1 ELSE 0
          /\ \A i \in 1..(Len(stack) - 1 - 1 + 1) :
               SubSeq(stack, 1, Len(stack) - 1)[i] = stack[1 + i - 1]
      BY <2>1, SubSeqProperties
    <2>3. \A i \in 1..(Len(stack) - 1) :
            i \in 1..(Len(stack) - 1 - 1 + 1) /\ 1 + i - 1 = i
      BY <1>2
    <2>4. (IF 1 <= Len(stack) - 1 THEN Len(stack) - 1 - 1 + 1 ELSE 0) = Len(stack) - 1
      <3>1. ASSUME NEW n \in Nat, n > 0
            PROVE  (IF 1 <= n - 1 THEN n - 1 - 1 + 1 ELSE 0) = n - 1
        <4>1. CASE n = 1 BY <4>1
        <4>2. CASE n > 1 BY <4>2
        <4> QED BY <3>1, <4>1, <4>2
      <3> QED BY <1>2, <3>1
    <2> QED BY <1>3, <2>2, <2>3, <2>4
  <1>5. ASSUME NEW c, NEW d, Pending(c, d)
        PROVE  Pending(c, d)' \/ Top = [cell |-> c, depth |-> d]
    <2>1. PICK i \in DOMAIN stack : stack[i] = [cell |-> c, depth |-> d]
      BY <1>5 DEF Pending
    <2>2. CASE i = Len(stack)
      BY <2>1, <2>2 DEF Top
    <2>3. CASE i # Len(stack)
      <3>1. i \in 1..(Len(stack) - 1)
        BY <1>1, <1>2, <2>1, <2>3
      <3>2. i \in DOMAIN stack' /\ stack'[i] = [cell |-> c, depth |-> d]
        BY <1>4, <2>1, <3>1, <1>2
      <3> QED BY <3>2 DEF Pending
    <2> QED BY <2>2, <2>3
  <1> QED BY <1>1, <1>2, <1>3, <1>4, <1>5 DEF Top

LEMMA VisitOK ==
  ASSUME IInv, Visit
  PROVE  IInv'
  <1>a. PICK t \in Frame : t = Top
    BY PopStep DEF Visit
  <1>0. /\ Top.depth <= MaxDepth /\ t.cell \notin DOMAIN seen /\ phase = "pop"
        /\ phase' = "scan" /\ UNCHANGED <<hive, root>>
        /\ depth' = t.depth /\ total' = total + Slots(t.cell)
        /\ seen' = [c \in DOMAIN seen \cup {t.cell} |->
                      IF c = t.cell THEN t.depth ELSE seen[c]]
        /\ scan' = IF hive[t.cell].kind = "list" THEN hive[t.cell].elements ELSE <<>>
        /\ pops' = pops + 1
    BY <1>a DEF Visit, ReadTop, Pop
  <1>1. /\ t \in Frame /\ stack' \in Seq(Frame)
        /\ \A c, d : Pending(c, d) => Pending(c, d)' \/ t = [cell |-> c, depth |-> d]
    BY <1>a, PopStep DEF Visit
  <1>2. t.cell \in Cells /\ t.depth \in 0..MaxDepth
    BY <1>0, <1>1, <1>a, WalkAssumption DEF Frame
  <1>3. hive[t.cell] \in Cell
    BY <1>2, WalkAssumption DEF IInv, TypeOK
  <1>4. Slots(t.cell) \in Nat /\ scan' \in Seq(Cells)
    BY <1>0, <1>3, WalkAssumption DEF Cell, Slots
  <1>5. DOMAIN seen' = DOMAIN seen \cup {t.cell} /\ seen'[t.cell] = t.depth
        /\ \A c \in DOMAIN seen : seen'[c] = seen[c]
    BY <1>0
  <1>6. TypeOK'
    <2>1. DOMAIN seen' \subseteq Cells /\ seen' \in [DOMAIN seen' -> 0..MaxDepth]
      BY <1>0, <1>2, <1>5 DEF IInv, TypeOK
    <2> QED BY <1>0, <1>1, <1>2, <1>4, <2>1 DEF IInv, TypeOK
  <1>7. CostOK'
    <2>1. IsFiniteSet(DOMAIN seen) /\ pops = Cardinality(DOMAIN seen)
      BY <1>0 DEF IInv, CostOK
    <2>2. IsFiniteSet(DOMAIN seen') /\ Cardinality(DOMAIN seen') = pops + 1
      BY <1>0, <1>5, <2>1, FS_AddElement
    <2> QED BY <1>0, <2>2 DEF CostOK
  <1>8. WalkOK'
    <2>0. scan = <<>> /\ WalkOK
      BY <1>0 DEF IInv, WalkOK, Walking
    <2>1. RootOK'
      BY <1>0, <1>1, <1>5, <2>0 DEF WalkOK, Walking, RootOK
    <2>2. ASSUME NEW c \in DOMAIN seen, NEW k \in Children(c) PROVE Followed(c, k)'
      <3>1. Followed(c, k)
        BY <1>0, <2>0, <2>2 DEF WalkOK, Walking
      <3>2. ~ToRead(k)
        BY <2>0 DEF ToRead
      <3>3. CASE k \in DOMAIN seen /\ seen[k] = seen[c] + 1
        BY <1>5, <2>2, <3>3 DEF Followed
      <3>4. CASE Pending(k, seen[c] + 1)
        <4>1. Pending(k, seen[c] + 1)' \/ t = [cell |-> k, depth |-> seen[c] + 1]
          BY <1>1, <1>5, <2>2, <3>4 DEF Pending
        <4>2. CASE t = [cell |-> k, depth |-> seen[c] + 1]
          BY <1>5, <2>2, <4>2 DEF Followed
        <4>3. CASE Pending(k, seen[c] + 1)'
          BY <1>5, <2>2, <4>3 DEF Followed, Pending
        <4> QED BY <4>1, <4>2, <4>3
      <3> QED BY <3>1, <3>2, <3>3, <3>4 DEF Followed
    <2>3. ASSUME NEW k \in Children(t.cell) PROVE Followed(t.cell, k)'
      <3>1. hive[t.cell].kind = "list" /\ scan' = hive[t.cell].elements
            /\ \E i \in DOMAIN hive[t.cell].elements : hive[t.cell].elements[i] = k
        BY <1>0, <2>3 DEF Children
      <3>2. ToRead(k)'
        BY <3>1 DEF ToRead
      <3> QED BY <1>0, <1>5, <3>2 DEF Followed
    <2>4. \A c : Children(c)' = Children(c)
      BY <1>0 DEF Children, IsIndex
    <2> QED BY <1>0, <1>5, <2>1, <2>2, <2>3, <2>4 DEF WalkOK, Walking
  <1> QED BY <1>6, <1>7, <1>8 DEF IInv

LEMMA ElementOK ==
  ASSUME IInv, Element
  PROVE  IInv'
  <1>a. PICK h \in Cells : h = Head(scan)
    BY DEF Element, IInv, TypeOK
  <1>0. /\ phase = "scan" /\ phase' = "scan" /\ scan # <<>> /\ scan' = Tail(scan)
        /\ UNCHANGED <<hive, root, seen, pops, depth>>
        /\ stack' = IF IsIndex(h) THEN Append(stack, [cell |-> h, depth |-> depth + 1])
                                  ELSE stack
        /\ total' \in {total, total + 1}
    BY <1>a DEF Element
  <1>1. scan \in Seq(Cells) /\ stack \in Seq(Frame) /\ depth \in 0..MaxDepth /\ total \in Nat
    BY DEF IInv, TypeOK
  <1>2. scan' \in Seq(Cells) /\ Len(scan) > 0
    BY <1>0, <1>1
  <1>3. [cell |-> h, depth |-> depth + 1] \in Frame
    BY <1>1, <1>2, WalkAssumption DEF Frame
  <1>4. TypeOK'
    BY <1>0, <1>1, <1>2, <1>3 DEF IInv, TypeOK
  <1>5. CostOK'
    BY <1>0 DEF IInv, CostOK
  <1>6. ASSUME NEW c, NEW d, Pending(c, d) PROVE Pending(c, d)'
    <2>1. PICK i \in DOMAIN stack : stack[i] = [cell |-> c, depth |-> d]
      BY <1>6 DEF Pending
    <2>2. i \in DOMAIN stack' /\ stack'[i] = stack[i]
      BY <1>0, <1>1, <1>3, <2>1
    <2> QED BY <2>1, <2>2 DEF Pending
  <1>7. ASSUME IsIndex(h) PROVE Pending(h, depth + 1)'
    <2>1. stack' = Append(stack, [cell |-> h, depth |-> depth + 1])
      BY <1>0, <1>7
    <2>2. Len(stack) + 1 \in DOMAIN stack'
          /\ stack'[Len(stack) + 1] = [cell |-> h, depth |-> depth + 1]
      BY <1>1, <1>3, <2>1
    <2>3. depth' = depth /\ scan' = Tail(scan)
      BY <1>0
    <2> QED BY <2>2, <2>3 DEF Pending
  <1>8. ASSUME NEW k, ToRead(k) PROVE ToRead(k)' \/ k = h
    <2>1. PICK i \in DOMAIN scan : scan[i] = k
      BY <1>8 DEF ToRead
    <2>2. CASE i = 1 BY <1>a, <1>1, <2>1, <2>2
    <2>3. CASE i # 1
      <3>1. i - 1 \in DOMAIN scan' /\ scan'[i - 1] = scan[i]
        BY <1>0, <1>1, <1>2, <2>1, <2>3
      <3> QED BY <2>1, <3>1 DEF ToRead
    <2> QED BY <2>2, <2>3
  <1>9. WalkOK'
    <2>0. WalkOK /\ \A c : Children(c)' = Children(c)
      BY <1>0 DEF IInv, Children, IsIndex
    <2>1. RootOK'
      <3>1. RootOK
        BY <1>0, <2>0 DEF WalkOK, Walking
      <3>2. CASE Pending(root, 0)
        <4>1. Pending(root, 0)'
          BY <1>0, <1>6, <3>2
        <4> QED BY <4>1 DEF RootOK
      <3>3. CASE root \in DOMAIN seen BY <1>0, <3>3 DEF RootOK
      <3> QED BY <3>1, <3>2, <3>3 DEF RootOK
    <2>2. ASSUME NEW c \in DOMAIN seen, NEW k \in Children(c) PROVE Followed(c, k)'
      <3>1. Followed(c, k)
        BY <1>0, <2>0, <2>2 DEF WalkOK, Walking
      <3>2. CASE k \in DOMAIN seen /\ seen[k] = seen[c] + 1
        BY <1>0, <3>2 DEF Followed
      <3>3. CASE Pending(k, seen[c] + 1)
        <4>1. Pending(k, seen[c] + 1)'
          BY <1>0, <1>6, <3>3 DEF Pending
        <4> QED BY <1>0, <4>1 DEF Followed
      <3>4. CASE seen[c] = depth /\ ToRead(k)
        <4>1. CASE ToRead(k)'
          BY <1>0, <3>4, <4>1 DEF Followed
        <4>2. CASE k = h
          <5>1. IsIndex(h)
            BY <2>2, <4>2 DEF Children
          <5>2. Pending(h, depth + 1)'
            BY <1>7, <5>1
          <5> QED BY <1>0, <3>4, <4>2, <5>2 DEF Followed, Pending
        <4> QED BY <1>8, <3>4, <4>1, <4>2
      <3> QED BY <3>1, <3>2, <3>3, <3>4 DEF Followed
    <2> QED BY <1>0, <2>0, <2>1, <2>2 DEF WalkOK
  <1> QED BY <1>4, <1>5, <1>9 DEF IInv

LEMMA EnterOK ==
  ASSUME IInv, Enter
  PROVE  IInv'
  <1>0. /\ phase = "enter" /\ phase' = "pop" /\ seen = <<>> /\ scan = <<>>
        /\ stack' = <<[cell |-> root, depth |-> 0]>>
        /\ UNCHANGED <<hive, root, seen, pops, scan, depth, total>>
    BY DEF Enter, IInv, CostOK
  <1>1. [cell |-> root, depth |-> 0] \in Frame
    BY WalkAssumption DEF IInv, TypeOK, Frame
  <1>2. stack' \in Seq(Frame) /\ Len(stack') = 1 /\ 1 \in DOMAIN stack'
        /\ stack'[1] = [cell |-> root, depth |-> 0]
    BY <1>0, <1>1
  <1>3. TypeOK'
    BY <1>0, <1>2 DEF IInv, TypeOK
  <1>4. RootOK' /\ DOMAIN seen' = {}
    BY <1>0, <1>2 DEF RootOK, Pending
  <1>5. WalkOK'
    BY <1>0, <1>4 DEF WalkOK
  <1>6. CostOK'
    BY <1>0, <1>2, WalkAssumption DEF IInv, CostOK
  <1> QED BY <1>3, <1>5, <1>6 DEF IInv

\* A frame that is refused ends the walk.
LEMMA RefuseOK ==
  ASSUME IInv, TooDeep \/ Revisit
  PROVE  IInv'
  <1>1. /\ phase = "pop" /\ phase' \in {"deep", "cycle"} /\ pops' = pops + 1 /\ Pop
        /\ UNCHANGED <<hive, root, seen, scan, depth, total>>
    BY DEF TooDeep, Revisit, Pop
  <1>2. stack' \in Seq(Frame)
    BY <1>1, PopStep
  <1>3. TypeOK'
    BY <1>1, <1>2 DEF IInv, TypeOK
  <1>4. WalkOK' /\ CostOK'
    BY <1>1 DEF IInv, WalkOK, Walking, CostOK
  <1> QED BY <1>3, <1>4 DEF IInv

\* The steps that only move the phase.
LEMMA PhaseOK ==
  ASSUME IInv, Leaf \/ CheckSize \/ Accept
  PROVE  IInv'
  <1>0. UNCHANGED <<hive, root, stack, seen, pops, scan, depth, total>>
    BY DEF Leaf, CheckSize, Accept
  <1>1. TypeOK'
    BY <1>0 DEF IInv, TypeOK, Leaf, CheckSize, Accept
  <1>2. RootOK' = RootOK /\ \A c, k : Followed(c, k)' = Followed(c, k)
        /\ Children(c)' = Children(c)
    BY <1>0 DEF RootOK, Followed, Pending, ToRead, Children, IsIndex
  <1>3. WalkOK'
    BY <1>0, <1>2 DEF IInv, WalkOK, Walking, Leaf, CheckSize, Accept
  <1>4. CostOK'
    BY <1>0, WalkAssumption DEF IInv, CostOK, TypeOK, Leaf, CheckSize, Accept
  <1> QED BY <1>1, <1>3, <1>4 DEF IInv

\* The invariant holds in every behaviour.
THEOREM WalkInv == Spec => []IInv
  <1>1. IInv /\ [Next]_vars => IInv'
    <2> SUFFICES ASSUME IInv, [Next]_vars PROVE IInv'
      OBVIOUS
    <2>1. CASE UNCHANGED vars
      BY <2>1 DEF vars, IInv, TypeOK, WalkOK, Walking, CostOK, RootOK, Followed,
                  Pending, ToRead, Children, IsIndex
    <2> QED BY <2>1, EnterOK, RefuseOK, VisitOK, ElementOK, PhaseOK DEF Next
  <1> QED BY <1>1, InitOK, PTL DEF Spec

\* The walk visits cells of the hive alone, and none of them below MaxDepth.
THEOREM WalkTypes == Spec => []TypeOK
  BY WalkInv, PTL DEF IInv

\* An accepted index is ranked by the depths it was visited at: following its
\* references always ends, within MaxDepth of them.
THEOREM AcceptedIsRanked == Spec => []Ranked
  <1>1. IInv => Ranked
    <2> SUFFICES ASSUME IInv, phase = "accepted"
                 PROVE  /\ root \in DOMAIN seen
                        /\ \A c \in DOMAIN seen : \A k \in Children(c) :
                             k \in DOMAIN seen /\ seen[k] = seen[c] + 1
      BY DEF Ranked
    <2>1. stack = <<>> /\ scan = <<>>
      BY DEF IInv, WalkOK, Walking
    <2>2. \A c, d : ~Pending(c, d) /\ ~ToRead(c)
      BY <2>1 DEF Pending, ToRead
    <2> QED BY <2>2 DEF IInv, WalkOK, Walking, RootOK, Followed
  <1> QED BY <1>1, WalkInv, PTL

\* The walk takes one frame for each cell it visits, and one more at most.
THEOREM WalkTakesOneFramePerCell == Spec => []WalkIsCheap
  <1>1. IInv => WalkIsCheap
    <2> SUFFICES ASSUME IInv PROVE WalkIsCheap
      OBVIOUS
    <2>1. Cardinality(DOMAIN seen) \in Nat
      BY FS_CardinalityType DEF IInv, CostOK
    <2> QED BY <2>1 DEF IInv, TypeOK, CostOK, WalkIsCheap
  <1> QED BY <1>1, WalkInv, PTL

-----------------------------------------------------------------------------
(***************************************************************************)
(* The recursion of the library over an accepted index.  Level is defined  *)
(* by recursion, and a rank gives every cell of a level its depth.         *)
(***************************************************************************)

\* The indexes one call further down are those the lists of this call refer to.
LEMMA LevelIs ==
  ASSUME TypeOK
  PROVE  /\ Level[0] = {root}
         /\ \A n \in Nat \ {0} : Level[n] = UNION {Children(c) : c \in Level[n - 1]}
         /\ \A n \in Nat : Level[n] \subseteq Cells
  <1> DEFINE step == [p \in Nat \X SUBSET Cells |-> UNION {Children(c) : c \in p[2]}]
             Def(g) == [n \in Nat |-> IF n = 0 THEN {root}
                                      ELSE UNION {Children(c) : c \in g[n - 1]}]
  <1>1. \A c : Children(c) \in SUBSET Cells
    BY DEF Children
  <1>2. \A n \in Nat : \A X \in SUBSET Cells :
           step[<<n, X>>] = UNION {Children(c) : c \in X}
    OBVIOUS
  <1>a. \A X : UNION {Children(c) : c \in X} \in SUBSET Cells
    BY <1>1
  <1>b. \A n \in Nat : \A X \in SUBSET Cells : step[<<n, X>>] \in SUBSET Cells
    BY <1>2, <1>a
  <1> HIDE DEF step
  <1>3. {root} \in SUBSET Cells
    BY DEF TypeOK
  <1>4. PICK f \in [Nat -> SUBSET Cells] :
           f[0] = {root} /\ \A n \in Nat \ {0} : f[n] = step[<<n, f[n - 1]>>]
    <2> DEFINE base == {root}
    <2>1. Stays(step, SUBSET Cells) /\ base \in SUBSET Cells
      BY <1>b, <1>3 DEF Stays
    <2> HIDE DEF base
    <2>2. PICK f \in [Nat -> SUBSET Cells] : Recurs(f, base, step)
      BY <2>1, NatRecursion
    <2> QED BY <2>2 DEF Recurs, base
  <1>5. \A n \in Nat \ {0} : f[n] = UNION {Children(c) : c \in f[n - 1]}
    <2> TAKE n \in Nat \ {0}
    <2>1. n - 1 \in Nat /\ n \in Nat /\ f[n - 1] \in SUBSET Cells
      OBVIOUS
    <2> QED BY <1>2, <1>4, <2>1
  <1>6. f = Def(f)
    <2>1. \A n \in Nat : f[n] = Def(f)[n]
      BY <1>4, <1>5
    <2> QED BY <2>1
  <1>7. Level = CHOOSE g : g = Def(g)
    BY DEF Level
  <1>8. Level = Def(Level)
    BY <1>6, <1>7
  <1> HIDE DEF Def
  <1>9. \A n \in Nat : Level[n] = IF n = 0 THEN {root}
                                  ELSE UNION {Children(c) : c \in Level[n - 1]}
    BY <1>8 DEF Def
  <1>10. \A n \in Nat : Level[n] \subseteq Cells
    <2> TAKE n \in Nat
    <2>1. CASE n = 0 BY <2>1, <1>3, <1>9
    <2>2. CASE n # 0 BY <2>2, <1>a, <1>9
    <2> QED BY <2>1, <2>2
  <1> QED BY <1>9, <1>10

\* An accepted index cannot overflow the goroutine's stack.
THEOREM RecursionIsBounded == Spec => []BoundedRecursion
  <1>1. IInv /\ Ranked => BoundedRecursion
    <2> SUFFICES ASSUME IInv, Ranked, phase = "accepted" PROVE Level[MaxDepth + 1] = {}
      BY DEF BoundedRecursion
    <2> DEFINE S == {n \in Nat : \A c \in Level[n] : c \in DOMAIN seen /\ seen[c] = seen[root] + n}
    <2>0. /\ TypeOK /\ MaxDepth \in Nat
          /\ root \in DOMAIN seen /\ \A c \in DOMAIN seen : seen[c] \in 0..MaxDepth
      BY WalkAssumption DEF IInv, Ranked, TypeOK
    <2>1. 0 \in S
      <3>1. Level[0] = {root}
        BY <2>0, LevelIs
      <3> QED BY <2>0, <3>1
    <2>2. ASSUME NEW n \in Nat, n \in S PROVE n + 1 \in S
      <3> SUFFICES ASSUME NEW k \in Level[n + 1]
                   PROVE  k \in DOMAIN seen /\ seen[k] = seen[root] + (n + 1)
        OBVIOUS
      <3>1. PICK c \in Level[n] : k \in Children(c)
        <4>1. n + 1 \in Nat \ {0} /\ (n + 1) - 1 = n
          OBVIOUS
        <4>2. Level[n + 1] = UNION {Children(c) : c \in Level[(n + 1) - 1]}
          BY <2>0, <4>1, LevelIs
        <4> QED BY <4>1, <4>2
      <3>2. c \in DOMAIN seen /\ seen[c] = seen[root] + n
        BY <2>2
      <3> QED BY <2>0, <3>1, <3>2 DEF Ranked
    <2> HIDE DEF S
    <2>3. \A n \in Nat : n \in S
      BY <2>1, <2>2, StepInduction
    <2>4. \A c \in Level[MaxDepth + 1] : c \in DOMAIN seen /\ seen[c] = seen[root] + (MaxDepth + 1)
      BY <2>0, <2>3 DEF S
    <2> QED BY <2>0, <2>4
  <1> QED BY <1>1, WalkInv, AcceptedIsRanked, PTL

-----------------------------------------------------------------------------
(***************************************************************************)
(* What is counted is what the library builds.  Sums first.                *)
(***************************************************************************)

\* The partial sums of f, as an infinite sequence.
LEMMA AddedIs ==
  ASSUME NEW f, NEW n \in Nat, \A k \in 1..n : f[k] \in Nat
  PROVE  \E g \in [Nat -> Nat] :
           /\ g[0] = 0 /\ \A k \in 1..n : g[k] = g[k - 1] + f[k]
           /\ \A m \in 0..n : Added(f, m) = g[m]
  <1> DEFINE step == [p \in Nat \X Nat |-> IF p[1] \in 1..n THEN p[2] + f[p[1]] ELSE p[2]]
  <1>1. \A k \in Nat : \A x \in Nat : step[<<k, x>>] = IF k \in 1..n THEN x + f[k] ELSE x
    OBVIOUS
  <1> HIDE DEF step
  <1>2. PICK g \in [Nat -> Nat] : Recurs(g, 0, step)
    <2>0. \A k \in Nat : \A x \in Nat : step[<<k, x>>] \in Nat
      <3> SUFFICES ASSUME NEW k \in Nat, NEW x \in Nat PROVE step[<<k, x>>] \in Nat
        OBVIOUS
      <3>1. CASE k \in 1..n
        BY <1>1, <3>1
      <3>2. CASE k \notin 1..n
        BY <1>1, <3>2
      <3> QED BY <3>1, <3>2
    <2>1. Stays(step, Nat)
      BY <2>0 DEF Stays
    <2> QED BY <2>1, NatRecursion
  <1>3. g[0] = 0
    BY <1>2 DEF Recurs
  <1>4. \A k \in 1..n : g[k] = g[k - 1] + f[k]
    <2> TAKE k \in 1..n
    <2>1. k \in Nat \ {0} /\ k - 1 \in Nat /\ g[k - 1] \in Nat
      OBVIOUS
    <2>2. g[k] = step[<<k, g[k - 1]>>]
      BY <1>2, <2>1 DEF Recurs
    <2> QED BY <1>1, <2>1, <2>2
  <1>5. ASSUME NEW m \in 0..n PROVE Added(f, m) = g[m]
    <2> DEFINE Solves(h) == h = [k \in 0..m |-> IF k = 0 THEN 0 ELSE h[k - 1] + f[k]]
               sum == CHOOSE h : Solves(h)
               cut == [k \in 0..m |-> g[k]]
    <2>1. Added(f, m) = sum[m]
      BY DEF Added
    <2>2. Solves(cut)
      <3>1. ASSUME NEW k \in 0..m, k # 0 PROVE k \in 1..n /\ k - 1 \in 0..m
        BY <3>1
      <3>2. \A k \in 0..m : cut[k] = IF k = 0 THEN 0 ELSE cut[k - 1] + f[k]
        BY <1>3, <1>4, <3>1
      <3> QED BY <3>2
    <2>3. Solves(sum)
      <3> HIDE DEF Solves
      <3> QED BY <2>2
    <2> HIDE DEF sum
    <2>4. \A k \in 0..m : sum[k] = IF k = 0 THEN 0 ELSE sum[k - 1] + f[k]
      BY <2>3
    <2> DEFINE S == {k \in Nat : k <= m => sum[k] = g[k]}
    <2>5. 0 \in S
      BY <1>3, <2>4
    <2>6. ASSUME NEW k \in Nat, k \in S PROVE k + 1 \in S
      <3> SUFFICES ASSUME k + 1 <= m PROVE sum[k + 1] = g[k + 1]
        OBVIOUS
      <3>1. k + 1 \in 0..m /\ k + 1 # 0 /\ (k + 1) - 1 = k /\ k + 1 \in 1..n /\ sum[k] = g[k]
        BY <2>6
      <3> QED BY <1>4, <2>4, <3>1
    <2> HIDE DEF S
    <2>7. \A k \in Nat : k \in S
      BY <2>5, <2>6, StepInduction
    <2> QED BY <2>1, <2>7 DEF S
  <1> QED BY <1>3, <1>4, <1>5

LEMMA AddedNext ==
  /\ \A f : Added(f, 0) = 0
  /\ \A f : \A n \in Nat : (\A k \in 1..n : f[k] \in Nat) => Added(f, n) \in Nat
  /\ \A f : \A n \in Nat : (\A k \in 1..(n + 1) : f[k] \in Nat) =>
       Added(f, n + 1) = Added(f, n) + f[n + 1]
  <1>1. ASSUME NEW f PROVE Added(f, 0) = 0
    <2> DEFINE n == 0
    <2>1. n \in Nat /\ n \in 0..n /\ \A k \in 1..n : f[k] \in Nat
      OBVIOUS
    <2> HIDE DEF n
    <2>2. PICK g \in [Nat -> Nat] : g[0] = 0 /\ \A m \in 0..n : Added(f, m) = g[m]
      BY <2>1, AddedIs
    <2> QED BY <2>1, <2>2 DEF n
  <1>2. ASSUME NEW f, NEW n \in Nat, \A k \in 1..n : f[k] \in Nat PROVE Added(f, n) \in Nat
    <2>1. PICK g \in [Nat -> Nat] : \A m \in 0..n : Added(f, m) = g[m]
      BY <1>2, AddedIs
    <2> QED BY <2>1
  <1>3. ASSUME NEW f, NEW n \in Nat, \A k \in 1..(n + 1) : f[k] \in Nat
        PROVE  Added(f, n + 1) = Added(f, n) + f[n + 1]
    <2> DEFINE m == n + 1
    <2>1. m \in Nat /\ m - 1 = n /\ n \in 0..m /\ m \in 0..m /\ m \in 1..m
          /\ \A k \in 1..m : f[k] \in Nat
      BY <1>3
    <2> HIDE DEF m
    <2>2. PICK g \in [Nat -> Nat] : /\ \A k \in 1..m : g[k] = g[k - 1] + f[k]
                                    /\ \A k \in 0..m : Added(f, k) = g[k]
      BY <2>1, AddedIs
    <2>3. Added(f, m) = Added(f, n) + f[m]
      BY <2>1, <2>2
    <2> QED BY <2>3 DEF m
  <1> QED BY <1>1, <1>2, <1>3

\* A sum is of the values, in order: it may be taken from either end.
LEMMA AddedSame ==
  ASSUME NEW f, NEW g, NEW n \in Nat, \A k \in 1..n : f[k] \in Nat /\ g[k] = f[k]
  PROVE  Added(f, n) = Added(g, n)
  <1> DEFINE S == {m \in Nat : m <= n => Added(f, m) = Added(g, m)}
  <1>1. 0 \in S
    BY AddedNext
  <1>2. ASSUME NEW m \in Nat, m \in S PROVE m + 1 \in S
    <2> SUFFICES ASSUME m + 1 <= n PROVE Added(f, m + 1) = Added(g, m + 1)
      OBVIOUS
    <2>1. \A k \in 1..(m + 1) : f[k] \in Nat /\ g[k] \in Nat /\ g[k] = f[k]
      OBVIOUS
    <2>2. Added(f, m + 1) = Added(f, m) + f[m + 1] /\ Added(g, m + 1) = Added(g, m) + g[m + 1]
      BY <2>1, AddedNext
    <2>3. Added(f, m) = Added(g, m) /\ f[m + 1] = g[m + 1]
      BY <1>2, <2>1
    <2> QED BY <2>2, <2>3
  <1> HIDE DEF S
  <1>3. \A m \in Nat : m \in S
    BY <1>1, <1>2, StepInduction
  <1> QED BY <1>3 DEF S

LEMMA AddedFirst ==
  ASSUME NEW f, NEW g, NEW n \in Nat, \A k \in 1..(n + 1) : f[k] \in Nat,
         \A k \in 1..n : g[k] = f[k + 1]
  PROVE  Added(f, n + 1) = f[1] + Added(g, n)
  <1> DEFINE S == {m \in Nat : m <= n => Added(f, m + 1) = f[1] + Added(g, m)}
  <1>1. 0 \in S
    <2>1. \A k \in 1..(0 + 1) : f[k] \in Nat
      OBVIOUS
    <2>2. Added(f, 0 + 1) = Added(f, 0) + f[0 + 1]
      BY <2>1, AddedNext
    <2>3. Added(f, 0) = 0 /\ Added(g, 0) = 0 /\ f[1] \in Nat
      BY AddedNext
    <2> QED BY <2>2, <2>3
  <1>2. ASSUME NEW m \in Nat, m \in S PROVE m + 1 \in S
    <2> SUFFICES ASSUME m + 1 <= n PROVE Added(f, (m + 1) + 1) = f[1] + Added(g, m + 1)
      OBVIOUS
    <2>1. /\ \A k \in 1..((m + 1) + 1) : f[k] \in Nat
          /\ \A k \in 1..(m + 1) : g[k] \in Nat
          /\ g[m + 1] = f[(m + 1) + 1] /\ g[m + 1] \in Nat /\ f[1] \in Nat
      <3>1. \A k \in 1..((m + 1) + 1) : k \in 1..(n + 1)
        OBVIOUS
      <3>2. \A k \in 1..(m + 1) : k \in 1..n /\ k + 1 \in 1..(n + 1)
        OBVIOUS
      <3>3. m + 1 \in 1..(m + 1) /\ 1 \in 1..(n + 1)
        OBVIOUS
      <3> QED BY <3>1, <3>2, <3>3
    <2>2. Added(f, (m + 1) + 1) = Added(f, m + 1) + f[(m + 1) + 1]
      <3>1. m + 1 \in Nat
        OBVIOUS
      <3> QED BY <2>1, <3>1, AddedNext
    <2>3. Added(g, m + 1) = Added(g, m) + g[m + 1] /\ Added(g, m) \in Nat
      BY <2>1, AddedNext
    <2>4. Added(f, m + 1) = f[1] + Added(g, m)
      BY <1>2
    <2> QED BY <2>1, <2>2, <2>3, <2>4
  <1> HIDE DEF S
  <1>3. \A m \in Nat : m \in S
    BY <1>1, <1>2, StepInduction
  <1> QED BY <1>3 DEF S

-----------------------------------------------------------------------------
(* What a call of the library builds.                                      *)

\* The key nodes an element of a list gives, n calls above the end.
Worth(n, e) ==
  IF hive[e].kind = "node" THEN 1 ELSE IF n = 0 THEN 0 ELSE Produced[n - 1][e]

ListWorth(n, s) == Added([i \in DOMAIN s |-> Worth(n, s[i])], Len(s))

LEMMA ProducedIs ==
  ASSUME TypeOK
  PROVE  \A n \in Nat : \A c \in Cells :
           /\ Produced[n][c] \in Nat
           /\ Produced[n][c] = IF hive[c].kind = "fast" THEN hive[c].count
                               ELSE IF hive[c].kind # "list" THEN 0
                               ELSE ListWorth(n, hive[c].elements)
  <1> DEFINE T == [Cells -> Nat]
             Sums(h, c) ==
               IF hive[c].kind = "fast" THEN hive[c].count
               ELSE IF hive[c].kind # "list" THEN 0
               ELSE Added([i \in DOMAIN hive[c].elements |->
                             IF hive[hive[c].elements[i]].kind = "node" THEN 1
                             ELSE h[hive[c].elements[i]]], Len(hive[c].elements))
             Built(h) == [c \in Cells |-> Sums(h, c)]
             none == [c \in Cells |-> 0]
             step == [p \in Nat \X T |-> Built(p[2])]
             Body(g, n) ==
               [c \in Cells |->
                  IF hive[c].kind = "fast" THEN hive[c].count
                  ELSE IF hive[c].kind # "list" THEN 0
                  ELSE Added([i \in DOMAIN hive[c].elements |->
                                IF hive[hive[c].elements[i]].kind = "node" THEN 1
                                ELSE IF n = 0 THEN 0 ELSE g[n - 1][hive[c].elements[i]]],
                             Len(hive[c].elements))]
             Def(g) == [n \in Nat |-> Body(g, n)]
  <1>1. ASSUME NEW c \in Cells
        PROVE  /\ hive[c].elements \in Seq(Cells) /\ hive[c].count \in Nat
               /\ Len(hive[c].elements) \in Nat
               /\ DOMAIN hive[c].elements = 1..Len(hive[c].elements)
               /\ \A i \in DOMAIN hive[c].elements : hive[c].elements[i] \in Cells
    <2>1. hive[c] \in Cell
      BY WalkAssumption DEF TypeOK
    <2>2. hive[c].elements \in Seq(Cells) /\ hive[c].count \in Nat
      BY <2>1, WalkAssumption DEF Cell
    <2> QED BY <2>2
  <1>2. ASSUME NEW h \in T PROVE Built(h) \in T
    <2> SUFFICES ASSUME NEW c \in Cells, hive[c].kind = "list" PROVE Sums(h, c) \in Nat
      BY <1>1
    <2> DEFINE L == hive[c].elements
               F == [i \in DOMAIN L |-> IF hive[L[i]].kind = "node" THEN 1 ELSE h[L[i]]]
    <2>1. Len(L) \in Nat /\ DOMAIN L = 1..Len(L) /\ \A i \in DOMAIN L : L[i] \in Cells
      BY <1>1
    <2>2. Sums(h, c) = Added(F, Len(L))
      OBVIOUS
    <2> HIDE DEF L, Sums
    <2>3. \A i \in 1..Len(L) : F[i] \in Nat
      BY <2>1
    <2> HIDE DEF F
    <2> QED BY <2>1, <2>2, <2>3, AddedNext
  <1>3. none \in T /\ Built(none) \in T
    BY <1>2
  <1>4. \A n \in Nat : \A h \in T : step[<<n, h>>] = Built(h)
    <2> HIDE DEF Built
    <2> QED OBVIOUS
  <1> HIDE DEF step, Built
  <1>5. PICK g \in [Nat -> T] : Recurs(g, Built(none), step)
    <2>1. Stays(step, T)
      BY <1>2, <1>4 DEF Stays
    <2> HIDE DEF T
    <2> QED BY <1>3, <2>1, NatRecursion
  <1>6. g[0] = Built(none) /\ \A n \in Nat \ {0} : g[n] = Built(g[n - 1])
    <2>1. g[0] = Built(none) /\ \A n \in Nat \ {0} : g[n] = step[<<n, g[n - 1]>>]
      BY <1>5 DEF Recurs
    <2>2. \A n \in Nat \ {0} : n \in Nat /\ n - 1 \in Nat /\ g[n - 1] \in T
      <3> HIDE DEF T
      <3> QED OBVIOUS
    <2> HIDE DEF T
    <2> QED BY <1>4, <2>1, <2>2
  <1>7. ASSUME NEW n \in Nat PROVE g[n] = Body(g, n)
    <2> DEFINE h == IF n = 0 THEN none ELSE g[n - 1]
    <2>1. g[n] = Built(h)
      BY <1>6
    <2>2. ASSUME NEW c \in Cells
          PROVE  [i \in DOMAIN hive[c].elements |->
                    IF hive[hive[c].elements[i]].kind = "node" THEN 1
                    ELSE IF n = 0 THEN 0 ELSE g[n - 1][hive[c].elements[i]]]
                 = [i \in DOMAIN hive[c].elements |->
                    IF hive[hive[c].elements[i]].kind = "node" THEN 1
                    ELSE h[hive[c].elements[i]]]
      <3>1. \A i \in DOMAIN hive[c].elements :
              h[hive[c].elements[i]] = IF n = 0 THEN 0 ELSE g[n - 1][hive[c].elements[i]]
        BY <1>1
      <3> HIDE DEF h
      <3> QED BY <3>1
    <2> HIDE DEF h
    <2> QED BY <2>1, <2>2 DEF Built
  <1>8. g = Def(g)
    <2> HIDE DEF Body
    <2> QED BY <1>7
  <1>9. Produced = CHOOSE h : h = Def(h)
    BY DEF Produced
  <1>10. Produced = Def(Produced)
    <2> HIDE DEF Def
    <2> QED BY <1>8, <1>9
  <1> DEFINE P == Produced
  <1>11. \A n \in Nat : P[n] = Body(P, n)
    <2> HIDE DEF Body
    <2> QED BY <1>10
  <1> HIDE DEF P
  <1>12. ASSUME NEW n \in Nat, NEW c \in Cells
         PROVE  P[n][c] = IF hive[c].kind = "fast" THEN hive[c].count
                          ELSE IF hive[c].kind # "list" THEN 0
                          ELSE ListWorth(n, hive[c].elements)
    BY <1>11 DEF ListWorth, Worth, P
  <1>13. \A n \in Nat : P[n] \in T
    <2> DEFINE S == {n \in Nat : P[n] \in T}
    <2>1. ASSUME NEW n \in Nat, n = 0 \/ P[n - 1] \in T PROVE P[n] \in T
      <3> DEFINE h == IF n = 0 THEN none ELSE P[n - 1]
      <3>1. h \in T
        BY <1>3, <2>1
      <3>2. ASSUME NEW c \in Cells
            PROVE  [i \in DOMAIN hive[c].elements |->
                      IF hive[hive[c].elements[i]].kind = "node" THEN 1
                      ELSE IF n = 0 THEN 0 ELSE P[n - 1][hive[c].elements[i]]]
                   = [i \in DOMAIN hive[c].elements |->
                      IF hive[hive[c].elements[i]].kind = "node" THEN 1
                      ELSE h[hive[c].elements[i]]]
        <4>1. \A i \in DOMAIN hive[c].elements :
                h[hive[c].elements[i]] = IF n = 0 THEN 0 ELSE P[n - 1][hive[c].elements[i]]
          BY <1>1
        <4> HIDE DEF h
        <4> QED BY <4>1
      <3> HIDE DEF h
      <3>3. P[n] = Body(P, n)
        <4> HIDE DEF Body
        <4> QED BY <1>11
      <3>4. Body(P, n) = Built(h)
        BY <3>2 DEF Built
      <3> QED BY <1>2, <3>1, <3>3, <3>4
    <2>2. 0 \in S
      BY <2>1
    <2>3. ASSUME NEW n \in Nat, n \in S PROVE n + 1 \in S
      <3>1. n + 1 \in Nat /\ (n + 1) - 1 = n /\ P[n] \in T
        BY <2>3
      <3> HIDE DEF T
      <3> QED BY <2>1, <3>1
    <2> HIDE DEF S
    <2>4. \A n \in Nat : n \in S
      BY <2>2, <2>3, StepInduction
    <2> QED BY <2>4 DEF S
  <1> QED BY <1>12, <1>13 DEF P

-----------------------------------------------------------------------------
(***************************************************************************)
(* What is counted, with what the pending frames and the elements still to *)
(* be read would give, is what the root gives.                             *)
(***************************************************************************)

FrameWorth(frame) ==
  IF frame.depth > MaxDepth THEN 0 ELSE Produced[MaxDepth - frame.depth][frame.cell]

StackWorth(s) == Added([i \in DOMAIN s |-> FrameWorth(s[i])], Len(s))

CountOK ==
  /\ phase = "enter" => total = 0
  /\ Walking => total + StackWorth(stack) + ListWorth(MaxDepth - depth, scan)
                  = Produced[MaxDepth][root]
  /\ phase \in {"pop", "accepted"} => total <= Limit

LEMMA FrameWorthIs ==
  ASSUME TypeOK, NEW frame \in Frame
  PROVE  FrameWorth(frame) \in Nat
  <1>1. frame.cell \in Cells /\ frame.depth \in Nat
    BY WalkAssumption DEF Frame
  <1>2. CASE frame.depth > MaxDepth
    BY <1>2 DEF FrameWorth
  <1>3. CASE ~(frame.depth > MaxDepth)
    <2>1. MaxDepth - frame.depth \in Nat
      BY <1>1, <1>3, WalkAssumption
    <2>2. Produced[MaxDepth - frame.depth][frame.cell] \in Nat
      BY <1>1, <2>1, ProducedIs
    <2> QED BY <1>3, <2>2 DEF FrameWorth
  <1> QED BY <1>2, <1>3

LEMMA StackWorthIs ==
  ASSUME TypeOK, NEW s \in Seq(Frame)
  PROVE  /\ StackWorth(s) \in Nat
         /\ StackWorth(<<>>) = 0
         /\ \A t \in Seq(Frame) :
              Len(t) = Len(s) + 1 /\ (\A i \in 1..Len(s) : t[i] = s[i]) =>
                StackWorth(t) = StackWorth(s) + FrameWorth(t[Len(t)])
  <1> DEFINE value(u) == [i \in DOMAIN u |-> FrameWorth(u[i])]
  <1>1. ASSUME NEW u \in Seq(Frame)
        PROVE  Len(u) \in Nat /\ \A i \in 1..Len(u) : value(u)[i] = FrameWorth(u[i])
                                                      /\ value(u)[i] \in Nat
    <2>1. Len(u) \in Nat /\ DOMAIN u = 1..Len(u) /\ \A i \in 1..Len(u) : u[i] \in Frame
      OBVIOUS
    <2> QED BY <2>1, FrameWorthIs
  <1>2. \A u : StackWorth(u) = Added(value(u), Len(u))
    BY DEF StackWorth
  <1> HIDE DEF value
  <1>3. StackWorth(s) \in Nat
    BY <1>1, <1>2, AddedNext
  <1>4. StackWorth(<<>>) = 0
    <2>1. Len(<<>>) = 0
      OBVIOUS
    <2> QED BY <1>2, <2>1, AddedNext
  <1>5. ASSUME NEW t \in Seq(Frame), Len(t) = Len(s) + 1, \A i \in 1..Len(s) : t[i] = s[i]
        PROVE  StackWorth(t) = StackWorth(s) + FrameWorth(t[Len(t)])
    <2> DEFINE n == Len(s)
    <2>1. n \in Nat /\ n + 1 \in 1..(n + 1) /\ \A i \in 1..n : i \in 1..(n + 1)
      BY <1>1
    <2>2. /\ \A i \in 1..(n + 1) : value(t)[i] = FrameWorth(t[i]) /\ value(t)[i] \in Nat
          /\ \A i \in 1..n : value(s)[i] = FrameWorth(s[i]) /\ value(s)[i] \in Nat
      BY <1>1, <1>5
    <2> HIDE DEF n
    <2>3. Added(value(t), n + 1) = Added(value(t), n) + value(t)[n + 1]
      BY <2>1, <2>2, AddedNext
    <2>4. \A i \in 1..n : value(s)[i] \in Nat /\ value(t)[i] = value(s)[i]
      BY <1>5, <2>1, <2>2 DEF n
    <2>5. Added(value(s), n) = Added(value(t), n)
      BY <2>1, <2>4, AddedSame
    <2>6. value(t)[n + 1] = FrameWorth(t[n + 1])
      BY <2>1, <2>2
    <2> QED BY <1>2, <1>5, <2>3, <2>5, <2>6 DEF n
  <1> QED BY <1>3, <1>4, <1>5

LEMMA WorthIs ==
  ASSUME TypeOK, NEW n \in Nat, NEW e \in Cells
  PROVE  Worth(n, e) \in Nat
  <1>1. CASE n = 0
    BY <1>1 DEF Worth
  <1>2. CASE n # 0
    <2>1. n - 1 \in Nat
      BY <1>2
    <2>2. Produced[n - 1][e] \in Nat
      BY <2>1, ProducedIs
    <2> QED BY <2>2 DEF Worth
  <1> QED BY <1>1, <1>2

LEMMA ListWorthIs ==
  ASSUME TypeOK, NEW n \in Nat, NEW s \in Seq(Cells)
  PROVE  /\ ListWorth(n, s) \in Nat
         /\ ListWorth(n, <<>>) = 0
         /\ s # <<>> => ListWorth(n, s) = Worth(n, Head(s)) + ListWorth(n, Tail(s))
  <1> DEFINE value(u) == [i \in DOMAIN u |-> Worth(n, u[i])]
  <1>1. ASSUME NEW u \in Seq(Cells)
        PROVE  Len(u) \in Nat /\ \A i \in 1..Len(u) : value(u)[i] = Worth(n, u[i])
                                                      /\ value(u)[i] \in Nat
    <2>1. Len(u) \in Nat /\ DOMAIN u = 1..Len(u) /\ \A i \in 1..Len(u) : u[i] \in Cells
      OBVIOUS
    <2> QED BY <2>1, WorthIs
  <1>2. \A u : ListWorth(n, u) = Added(value(u), Len(u))
    BY DEF ListWorth
  <1> HIDE DEF value
  <1>3. ListWorth(n, s) \in Nat
    BY <1>1, <1>2, AddedNext
  <1>4. ListWorth(n, <<>>) = 0
    <2>1. Len(<<>>) = 0
      OBVIOUS
    <2> QED BY <1>2, <2>1, AddedNext
  <1>5. ASSUME s # <<>> PROVE ListWorth(n, s) = Worth(n, Head(s)) + ListWorth(n, Tail(s))
    <2> DEFINE t == Tail(s)
               m == Len(t)
    <2>1. t \in Seq(Cells) /\ m \in Nat /\ Len(s) = m + 1 /\ Head(s) = s[1]
          /\ \A i \in 1..m : t[i] = s[i + 1]
      BY <1>5
    <2> HIDE DEF t
    <2>2. /\ \A i \in 1..(m + 1) : value(s)[i] = Worth(n, s[i]) /\ value(s)[i] \in Nat
          /\ \A i \in 1..m : value(t)[i] = Worth(n, t[i])
      BY <1>1, <2>1
    <2> HIDE DEF m
    <2>3. \A i \in 1..m : value(t)[i] = value(s)[i + 1]
      <3>1. \A i \in 1..m : i + 1 \in 1..(m + 1)
        BY <2>1
      <3> QED BY <2>1, <2>2, <3>1
    <2>4. Added(value(s), m + 1) = value(s)[1] + Added(value(t), m)
      BY <2>1, <2>2, <2>3, AddedFirst
    <2>5. value(s)[1] = Worth(n, s[1])
      <3>1. 1 \in 1..(m + 1)
        BY <2>1
      <3> QED BY <2>2, <3>1
    <2> QED BY <1>2, <2>1, <2>4, <2>5 DEF m, t
  <1> QED BY <1>3, <1>4, <1>5

\* What the library would build changes with the hive alone.
LEMMA WorthStays ==
  ASSUME UNCHANGED hive
  PROVE  /\ Produced' = Produced
         /\ StackWorth(stack)' = StackWorth(stack')
         /\ ListWorth(MaxDepth - depth, scan)' = ListWorth(MaxDepth - depth', scan')
  <1>1. Produced' = Produced
    BY DEF Produced
  <1> QED BY <1>1 DEF StackWorth, FrameWorth, ListWorth, Worth

\* A cell is visited: its frame gives its slots and what its elements give.
LEMMA VisitCounts ==
  ASSUME IInv, CountOK, Visit
  PROVE  CountOK'
  <1>a. PICK t \in Frame : t = Top
    BY PopStep DEF Visit
  <1>0. /\ t.depth <= MaxDepth /\ phase = "pop" /\ phase' = "scan"
        /\ UNCHANGED <<hive, root>>
        /\ depth' = t.depth /\ total' = total + Slots(t.cell)
        /\ scan' = IF hive[t.cell].kind = "list" THEN hive[t.cell].elements ELSE <<>>
    BY <1>a DEF Visit, ReadTop, Pop
  <1>1. TypeOK /\ scan = <<>> /\ stack \in Seq(Frame) /\ stack # <<>>
    BY <1>0 DEF Visit, Pop, IInv, WalkOK, Walking, TypeOK
  <1>2. t.cell \in Cells /\ t.depth \in Nat /\ MaxDepth - t.depth \in Nat
    BY <1>0, WalkAssumption DEF Frame
  <1>3. hive[t.cell] \in Cell
    BY <1>1, <1>2, WalkAssumption DEF TypeOK
  <1>4. StackWorth(stack) = StackWorth(stack') + FrameWorth(t)
        /\ StackWorth(stack') \in Nat
    <2>1. /\ stack' \in Seq(Frame) /\ Len(stack') = Len(stack) - 1
          /\ \A i \in 1..Len(stack') : stack'[i] = stack[i]
      BY PopStep DEF Visit
    <2>2. Len(stack) = Len(stack') + 1 /\ t = stack[Len(stack)]
      BY <1>a, <1>1, <2>1 DEF Top
    <2>3. \A i \in 1..Len(stack') : stack[i] = stack'[i]
      BY <2>1
    <2> QED BY <1>1, <2>1, <2>2, <2>3, StackWorthIs
  <1>5. FrameWorth(t) = Slots(t.cell) + ListWorth(MaxDepth - t.depth, scan')
    <2> DEFINE n == MaxDepth - t.depth
    <2>1. FrameWorth(t) = Produced[n][t.cell]
      BY <1>0, <1>2, WalkAssumption DEF FrameWorth
    <2>2. Produced[n][t.cell] =
            IF hive[t.cell].kind = "fast" THEN hive[t.cell].count
            ELSE IF hive[t.cell].kind # "list" THEN 0
            ELSE ListWorth(n, hive[t.cell].elements)
      BY <1>1, <1>2, ProducedIs
    <2>3. /\ hive[t.cell].count \in Nat /\ hive[t.cell].elements \in Seq(Cells)
      BY <1>3, WalkAssumption DEF Cell
    <2>4. ListWorth(n, hive[t.cell].elements) \in Nat /\ ListWorth(n, <<>>) = 0
      BY <1>1, <1>2, <2>3, ListWorthIs
    <2> HIDE DEF n
    <2>5. FrameWorth(t) = Slots(t.cell) + ListWorth(n, scan')
      BY <1>0, <2>1, <2>2, <2>3, <2>4 DEF Slots
    <2> QED BY <2>5 DEF n
  <1>6. ListWorth(MaxDepth - depth, scan) = 0
    <2>1. MaxDepth - depth \in Nat /\ scan \in Seq(Cells)
      BY <1>1, WalkAssumption DEF TypeOK
    <2> QED BY <1>1, <2>1, ListWorthIs
  <1>7. Slots(t.cell) \in Nat /\ ListWorth(MaxDepth - t.depth, scan') \in Nat /\ total \in Nat
    <2>1. hive[t.cell].count \in Nat /\ scan' \in Seq(Cells)
      BY <1>0, <1>3, WalkAssumption DEF Cell
    <2>2. ListWorth(MaxDepth - t.depth, scan') \in Nat
      BY <1>1, <1>2, <2>1, ListWorthIs
    <2> QED BY <1>1, <2>1, <2>2 DEF Slots, TypeOK
  <1>8. total + StackWorth(stack) + 0 = Produced[MaxDepth][root]
    BY <1>0, <1>6 DEF CountOK, Walking
  <1>9. total' + StackWorth(stack') + ListWorth(MaxDepth - depth', scan')
          = Produced[MaxDepth][root]
    BY <1>0, <1>4, <1>5, <1>7, <1>8
  <1> QED BY <1>0, <1>9, WorthStays DEF CountOK, Walking

\* An element is read: a node is counted, an index waits on the stack with all
\* it would give.
LEMMA ElementCounts ==
  ASSUME IInv, CountOK, Element
  PROVE  CountOK'
  <1>a. PICK h \in Cells : h = Head(scan)
    BY DEF Element, IInv, TypeOK
  <1> DEFINE n == MaxDepth - depth
             f == [cell |-> h, depth |-> depth + 1]
  <1>0. /\ phase = "scan" /\ phase' = "scan" /\ scan # <<>> /\ scan' = Tail(scan)
        /\ UNCHANGED <<hive, root, depth>>
        /\ stack' = IF IsIndex(h) THEN Append(stack, f) ELSE stack
        /\ total' = IF hive[h].kind = "node" THEN total + 1 ELSE total
    BY <1>a DEF Element
  <1>1. TypeOK /\ scan \in Seq(Cells) /\ stack \in Seq(Frame) /\ depth \in 0..MaxDepth
        /\ total \in Nat /\ n \in Nat /\ scan' \in Seq(Cells)
    BY <1>0, WalkAssumption DEF IInv, TypeOK
  <1>2. f \in Frame
    BY <1>1, WalkAssumption DEF Frame
  <1>3. ListWorth(n, scan) = Worth(n, h) + ListWorth(n, scan') /\ ListWorth(n, scan') \in Nat
    BY <1>a, <1>0, <1>1, ListWorthIs
  <1>4. IsIndex(h) => hive[h].kind # "node" /\ Worth(n, h) = FrameWorth(f)
    <2> SUFFICES ASSUME IsIndex(h) PROVE hive[h].kind # "node" /\ Worth(n, h) = FrameWorth(f)
      OBVIOUS
    <2>1. hive[h].kind # "node"
      BY DEF IsIndex
    <2>2. CASE n = 0
      <3>1. depth + 1 > MaxDepth
        BY <1>1, <2>2, WalkAssumption
      <3> QED BY <2>1, <2>2, <3>1 DEF Worth, FrameWorth
    <2>3. CASE n # 0
      <3>1. ~(depth + 1 > MaxDepth) /\ n - 1 = MaxDepth - (depth + 1)
        BY <1>1, <2>3, WalkAssumption
      <3> QED BY <2>1, <2>3, <3>1 DEF Worth, FrameWorth
    <2> QED BY <2>1, <2>2, <2>3
  <1>5. ~IsIndex(h) => Worth(n, h) = IF hive[h].kind = "node" THEN 1 ELSE 0
    <2>1. CASE n = 0 BY <2>1 DEF Worth
    <2>2. CASE n # 0
      <3>1. n - 1 \in Nat
        BY <1>1, <2>2
      <3>2. ~IsIndex(h) => Produced[n - 1][h] = 0
        BY <1>1, <3>1, ProducedIs DEF IsIndex
      <3> QED BY <2>2, <3>2 DEF Worth
    <2> QED BY <2>1, <2>2
  <1>6. StackWorth(stack) \in Nat /\ FrameWorth(f) \in Nat
        /\ StackWorth(stack') = StackWorth(stack) + (IF IsIndex(h) THEN FrameWorth(f) ELSE 0)
    <2>1. StackWorth(stack) \in Nat /\ FrameWorth(f) \in Nat
      BY <1>1, <1>2, StackWorthIs, FrameWorthIs
    <2>2. CASE IsIndex(h)
      <3> HIDE DEF f
      <3>1. stack' = Append(stack, f)
        BY <1>0, <2>2
      <3>2. stack' \in Seq(Frame) /\ Len(stack') = Len(stack) + 1
            /\ (\A i \in 1..Len(stack) : stack'[i] = stack[i]) /\ stack'[Len(stack')] = f
        BY <1>1, <1>2, <3>1
      <3>3. StackWorth(stack') = StackWorth(stack) + FrameWorth(f)
        BY <1>1, <3>2, StackWorthIs
      <3> QED BY <2>1, <2>2, <3>3
    <2>3. CASE ~IsIndex(h)
      BY <1>0, <2>1, <2>3
    <2> QED BY <2>2, <2>3, <2>1
  <1>7. total + StackWorth(stack) + ListWorth(n, scan) = Produced[MaxDepth][root]
    BY <1>0 DEF CountOK, Walking
  <1> HIDE DEF f, n
  <1>8. total' + StackWorth(stack') + ListWorth(n, scan')
          = total + StackWorth(stack) + ListWorth(n, scan)
    <2>1. CASE IsIndex(h)
      <3>1. total' = total /\ StackWorth(stack') = StackWorth(stack) + Worth(n, h)
            /\ Worth(n, h) \in Nat
        BY <1>0, <1>4, <1>6, <2>1
      <3> QED BY <1>1, <1>3, <1>6, <3>1
    <2>2. CASE ~IsIndex(h)
      <3>1. StackWorth(stack') = StackWorth(stack) /\ total' = total + Worth(n, h)
            /\ Worth(n, h) \in Nat
        BY <1>0, <1>1, <1>5, <1>6, <2>2
      <3> QED BY <1>1, <1>3, <1>6, <3>1
    <2> QED BY <2>1, <2>2
  <1> QED BY <1>0, <1>7, <1>8, WorthStays DEF CountOK, Walking, n

LEMMA EnterCounts ==
  ASSUME IInv, CountOK, Enter
  PROVE  CountOK'
  <1> DEFINE f == [cell |-> root, depth |-> 0]
  <1>0. /\ phase = "enter" /\ phase' = "pop" /\ stack' = <<f>>
        /\ scan = <<>> /\ total = 0 /\ TypeOK
        /\ UNCHANGED <<hive, root, scan, depth, total>>
    BY DEF Enter, IInv, CostOK, CountOK
  <1>1. f \in Frame /\ root \in Cells /\ MaxDepth - depth \in Nat /\ scan \in Seq(Cells)
    BY <1>0, WalkAssumption DEF TypeOK, Frame
  <1>2. FrameWorth(f) = Produced[MaxDepth][root] /\ FrameWorth(f) \in Nat
    <2>1. ~(0 > MaxDepth) /\ MaxDepth - 0 = MaxDepth
      BY WalkAssumption
    <2>2. FrameWorth(f) \in Nat
      BY <1>0, <1>1, FrameWorthIs
    <2> QED BY <2>1, <2>2 DEF FrameWorth
  <1>3. StackWorth(stack') = FrameWorth(f)
    <2> DEFINE none == <<>>
    <2>0. none \in Seq(Frame) /\ Len(none) = 0
      OBVIOUS
    <2>1. StackWorth(none) = 0
      BY <1>0, <2>0, StackWorthIs
    <2> HIDE DEF f
    <2>2. stack' \in Seq(Frame) /\ Len(stack') = 1 /\ stack'[Len(stack')] = f
      BY <1>0, <1>1
    <2>3. Len(stack') = Len(none) + 1 /\ \A i \in 1..Len(none) : stack'[i] = none[i]
      BY <2>0, <2>2
    <2> HIDE DEF none
    <2>4. StackWorth(stack') = StackWorth(none) + FrameWorth(f)
      BY <1>0, <2>0, <2>2, <2>3, StackWorthIs
    <2> QED BY <1>2, <2>1, <2>4 DEF f
  <1>4. ListWorth(MaxDepth - depth', scan') = 0
    <2>1. ListWorth(MaxDepth - depth, <<>>) = 0
      BY <1>0, <1>1, ListWorthIs
    <2> QED BY <1>0, <2>1
  <1>5. total' + StackWorth(stack') + ListWorth(MaxDepth - depth', scan')
          = Produced[MaxDepth][root]
    <2> HIDE DEF f
    <2> QED BY <1>0, <1>2, <1>3, <1>4
  <1>6. total' <= Limit
    BY <1>0, WalkAssumption
  <1> QED BY <1>0, <1>5, <1>6, WorthStays DEF CountOK, Walking

\* What is counted and what is pending make up what the library would build.
THEOREM CountInv == Spec => []CountOK
  <1>1. Init => CountOK
    BY DEF Init, CountOK, Walking
  <1>2. IInv /\ CountOK /\ [Next]_vars => CountOK'
    <2> SUFFICES ASSUME IInv, CountOK, [Next]_vars PROVE CountOK'
      OBVIOUS
    <2>1. CASE UNCHANGED vars
      BY <2>1, WorthStays DEF vars, CountOK, Walking
    <2>2. CASE Leaf \/ TooDeep \/ Revisit
      BY <2>2 DEF Leaf, TooDeep, Revisit, CountOK, Walking
    <2>3. CASE CheckSize \/ Accept
      <3>1. UNCHANGED <<hive, root, stack, scan, depth, total>>
        BY <2>3 DEF CheckSize, Accept
      <3>2. phase \in {"pop", "scan"} /\ phase' \in {"pop", "many", "accepted"}
            /\ (phase' = "accepted" => phase = "pop") /\ (phase' = "pop" => ~(total > Limit))
        BY <2>3 DEF CheckSize, Accept
      <3>3. total \in Nat /\ Limit \in Nat
        BY WalkAssumption DEF IInv, TypeOK
      <3> QED BY <3>1, <3>2, <3>3, WorthStays DEF CountOK, Walking
    <2> QED BY <2>1, <2>2, <2>3, VisitCounts, ElementCounts, EnterCounts DEF Next
  <1> QED BY <1>1, <1>2, WalkInv, PTL DEF Spec

\* The library builds no more than was counted, and the count is within the cap:
\* the allocation is bounded before it is made.
THEOREM AllocationIsBounded == Spec => []CountIsBound
  <1>1. IInv /\ CountOK => CountIsBound
    <2> SUFFICES ASSUME IInv, CountOK, phase = "accepted"
                 PROVE  Produced[MaxDepth][root] <= total /\ total <= Limit
      BY DEF CountIsBound
    <2>1. stack = <<>> /\ scan = <<>> /\ TypeOK /\ MaxDepth - depth \in Nat
      BY WalkAssumption DEF IInv, WalkOK, Walking, TypeOK
    <2>2. StackWorth(<<>>) = 0 /\ ListWorth(MaxDepth - depth, <<>>) = 0
      <3> DEFINE none == <<>>
      <3>1. none \in Seq(Frame) /\ none \in Seq(Cells)
        OBVIOUS
      <3> QED BY <2>1, <3>1, StackWorthIs, ListWorthIs
    <2>3. total + StackWorth(stack) + ListWorth(MaxDepth - depth, scan) = Produced[MaxDepth][root]
      BY DEF CountOK, Walking
    <2>4. total \in Nat /\ total <= Limit
      BY <2>1 DEF TypeOK, CountOK
    <2>5. Produced[MaxDepth][root] = total
      BY <2>1, <2>2, <2>3, <2>4
    <2> QED BY <2>4, <2>5
  <1> QED BY <1>1, WalkInv, CountInv, PTL

-----------------------------------------------------------------------------
(***************************************************************************)
(* The indexes of a key are finitely many, and so are the references to    *)
(* one of them: their numbers in Sound are what they seem.                 *)
(***************************************************************************)

LEMMA FiniteImage ==
  ASSUME NEW S, IsFiniteSet(S), NEW f, DOMAIN f = S, f = [x \in S |-> f[x]]
  PROVE  IsFiniteSet({f[x] : x \in S})
  <1> DEFINE T == {f[x] : x \in S}
  <1>1. f \in Surjection(S, T)
    <2>1. f \in [S -> T]
      OBVIOUS
    <2>2. \A t \in T : \E s \in S : f[s] = t
      OBVIOUS
    <2> QED BY <2>1, <2>2 DEF Surjection
  <1> HIDE DEF T
  <1>2. IsFiniteSet(T)
    BY <1>1, FS_Surjection
  <1> QED BY <1>2 DEF T

LEMMA OnlyOne ==
  ASSUME NEW S, IsFiniteSet(S), Cardinality(S) <= 1, NEW a \in S, NEW b \in S
  PROVE  a = b
  <1> SUFFICES ASSUME a # b PROVE FALSE
    OBVIOUS
  <1> DEFINE T == {a}
             U == T \cup {b}
  <1>1. IsFiniteSet(T) /\ Cardinality(T) = 1 /\ b \notin T
    BY FS_Singleton
  <1>2. U \in SUBSET S
    OBVIOUS
  <1> HIDE DEF T
  <1>3. Cardinality(U) = Cardinality(T) + 1
    BY <1>1, FS_AddElement
  <1> HIDE DEF U
  <1>4. Cardinality(U) <= Cardinality(S)
    BY <1>2, FS_Subset
  <1>5. Cardinality(S) \in Nat
    BY FS_CardinalityType
  <1> QED BY <1>1, <1>3, <1>4, <1>5

\* What WalkAssumption says of a list.
LEMMA ListIs ==
  ASSUME TypeOK, NEW c \in Cells
  PROVE  /\ hive[c].elements \in Seq(Cells)
         /\ Len(hive[c].elements) \in 0..MaxList
         /\ DOMAIN hive[c].elements = 1..Len(hive[c].elements)
         /\ \A i \in DOMAIN hive[c].elements : hive[c].elements[i] \in Cells /\ i \in 1..MaxList
  <1>1. hive[c] \in Cell /\ Len(hive[c].elements) <= MaxList /\ MaxList \in Nat
    BY WalkAssumption DEF TypeOK
  <1>2. hive[c].elements \in Seq(Cells)
    BY <1>1 DEF Cell
  <1>3. Len(hive[c].elements) \in Nat /\ DOMAIN hive[c].elements = 1..Len(hive[c].elements)
        /\ \A i \in DOMAIN hive[c].elements : hive[c].elements[i] \in Cells
    BY <1>2
  <1> QED BY <1>1, <1>2, <1>3

LEMMA LevelsFinite ==
  ASSUME TypeOK
  PROVE  \A n \in Nat : IsFiniteSet(Level[n])
  <1> DEFINE N == {n \in Nat : IsFiniteSet(Level[n])}
  <1>1. ASSUME NEW c \in Cells PROVE IsFiniteSet(Children(c))
    <2> DEFINE L == hive[c].elements
               D == 1..Len(L)
               f == [i \in D |-> L[i]]
               T == {f[i] : i \in D}
    <2>1. IsFiniteSet(D)
      <3>1. Len(L) \in Int /\ 1 \in Int
        BY ListIs
      <3> QED BY <3>1, FS_Interval
    <2>2. IsFiniteSet(T)
      <3>1. DOMAIN f = D /\ f = [i \in D |-> f[i]]
        OBVIOUS
      <3> HIDE DEF D, f
      <3> QED BY <2>1, <3>1, FiniteImage
    <2>3. Children(c) \in SUBSET T
      <3>1. DOMAIN L = D
        BY ListIs
      <3> QED BY <3>1 DEF Children
    <2> HIDE DEF T
    <2> QED BY <2>2, <2>3, FS_Subset
  <1>2. 0 \in N
    <2>1. Level[0] = {root}
      BY LevelIs
    <2> QED BY <2>1, FS_Singleton
  <1>3. ASSUME NEW n \in Nat, n \in N PROVE n + 1 \in N
    <2> DEFINE S == Level[n]
               f == [c \in S |-> Children(c)]
               T == {f[c] : c \in S}
    <2>1. IsFiniteSet(S) /\ S \subseteq Cells
      BY <1>3, LevelIs
    <2>2. Level[n + 1] = UNION T
      <3>1. n + 1 \in Nat \ {0} /\ (n + 1) - 1 = n
        OBVIOUS
      <3>2. Level[n + 1] = UNION {Children(c) : c \in S}
        BY <3>1, LevelIs
      <3>3. T = {Children(c) : c \in S}
        OBVIOUS
      <3> QED BY <3>2, <3>3
    <2>3. IsFiniteSet(T)
      <3>1. DOMAIN f = S /\ f = [c \in S |-> f[c]]
        OBVIOUS
      <3> HIDE DEF S, f
      <3> QED BY <2>1, <3>1, FiniteImage
    <2>4. \A X \in T : IsFiniteSet(X)
      BY <1>1, <2>1
    <2> HIDE DEF T
    <2>5. IsFiniteSet(UNION T)
      BY <2>3, <2>4, FS_UNION
    <2>6. IsFiniteSet(Level[n + 1])
      BY <2>2, <2>5
    <2>7. n + 1 \in Nat
      OBVIOUS
    <2> QED BY <2>6, <2>7
  <1> HIDE DEF N
  <1>4. \A n \in Nat : n \in N
    BY <1>2, <1>3, StepInduction
  <1> QED BY <1>4 DEF N

LEMMA ReachedFinite ==
  ASSUME TypeOK
  PROVE  /\ IsFiniteSet(Reached)
         /\ \A k : IsFiniteSet(References(k))
         /\ Reached \subseteq Cells
  <1> DEFINE S == 0..MaxDepth
             f == [n \in S |-> Level[n]]
             T == {f[n] : n \in S}
  <1>1. IsFiniteSet(S) /\ S \subseteq Nat
    <2>1. MaxDepth \in Int /\ 0 \in Int
      BY WalkAssumption
    <2> QED BY <2>1, FS_Interval
  <1>2. IsFiniteSet(T)
    <2>1. DOMAIN f = S /\ f = [n \in S |-> f[n]]
      OBVIOUS
    <2> HIDE DEF S, f
    <2> QED BY <1>1, <2>1, FiniteImage
  <1>3. \A X \in T : IsFiniteSet(X)
    BY <1>1, LevelsFinite
  <1>4. Reached = UNION T
    <2>1. T = {Level[n] : n \in S}
      OBVIOUS
    <2> QED BY <2>1 DEF Reached
  <1>5. IsFiniteSet(Reached)
    <2> HIDE DEF T
    <2> QED BY <1>2, <1>3, <1>4, FS_UNION
  <1>6. Reached \subseteq Cells
    BY <1>1, LevelIs DEF Reached
  <1>7. IsFiniteSet(Reached \X (1..MaxList))
    <2>1. MaxList \in Int /\ 1 \in Int
      BY WalkAssumption
    <2>2. IsFiniteSet(1..MaxList)
      BY <2>1, FS_Interval
    <2> QED BY <1>5, <2>2, FS_Product
  <1>8. ASSUME NEW k PROVE IsFiniteSet(References(k))
    <2>1. References(k) \in SUBSET (Reached \X (1..MaxList))
      BY DEF References
    <2> QED BY <1>7, <2>1, FS_Subset
  <1> QED BY <1>5, <1>6, <1>8

\* A sound hive refers to an index of the key at one place, and never to the root.
LEMMA OneReference ==
  ASSUME TypeOK, Sound, NEW k \in Reached, NEW p \in Reached, NEW q \in Reached,
         hive[p].kind = "list", NEW i \in DOMAIN hive[p].elements, hive[p].elements[i] = k,
         hive[q].kind = "list", NEW j \in DOMAIN hive[q].elements, hive[q].elements[j] = k
  PROVE  k # root /\ p = q /\ i = j
  <1>1. p \in Cells /\ q \in Cells
    BY ReachedFinite
  <1>2. i \in 1..MaxList /\ j \in 1..MaxList
    BY <1>1, ListIs
  <1>3. <<p, i>> \in References(k) /\ <<q, j>> \in References(k)
    BY <1>2 DEF References
  <1>4. k # root
    BY <1>3 DEF Sound
  <1>5. Cardinality(References(k)) <= 1 /\ IsFiniteSet(References(k))
    BY ReachedFinite DEF Sound
  <1>6. <<p, i>> = <<q, j>>
    BY <1>3, <1>5, OnlyOne
  <1> QED BY <1>4, <1>6

-----------------------------------------------------------------------------
(***************************************************************************)
(* Where the walk has been: every index it knows of is on the level of its *)
(* depth and, but for the root, referred to by a list it has visited.  In  *)
(* a sound hive there is one such reference, so the walk knows of an index *)
(* at one place only.                                                      *)
(***************************************************************************)

HasParent(k) == \E p \in DOMAIN seen : k \in Children(p)

LevelOK ==
  /\ \A i \in DOMAIN stack : stack[i].cell \in Level[stack[i].depth]
  /\ \A c \in DOMAIN seen : c \in Level[seen[c]]
  /\ \A i \in DOMAIN scan : IsIndex(scan[i]) => scan[i] \in Level[depth + 1]

ParentOK ==
  /\ \A c \in DOMAIN seen : c = root \/ HasParent(c)
  /\ \A i \in DOMAIN stack : stack[i].cell = root \/ HasParent(stack[i].cell)
  /\ \A i \in DOMAIN scan : IsIndex(scan[i]) => HasParent(scan[i])

OnceOK ==
  /\ \A i, j \in DOMAIN stack : stack[i].cell = stack[j].cell => i = j
  /\ \A i \in DOMAIN stack : stack[i].cell \notin DOMAIN seen
  /\ \A i, j \in DOMAIN scan : IsIndex(scan[i]) /\ scan[i] = scan[j] => i = j
  /\ \A i \in DOMAIN scan : IsIndex(scan[i]) =>
       /\ scan[i] \notin DOMAIN seen
       /\ \A j \in DOMAIN stack : stack[j].cell # scan[i]

TraceOK == Walking => LevelOK /\ ParentOK /\ (Sound => OnceOK)

\* The levels and the references depend on the hive and the root alone.
LEMMA LevelsStay ==
  ASSUME UNCHANGED <<hive, root>>
  PROVE  /\ Level' = Level
         /\ Sound' = Sound
         /\ \A c : Children(c)' = Children(c)
         /\ \A c : IsIndex(c)' = IsIndex(c)
  <1>1. \A c : IsIndex(c)' = IsIndex(c)
    BY DEF IsIndex
  <1>2. \A c : Children(c)' = Children(c)
    BY <1>1 DEF Children
  <1>3. Level' = Level
    BY DEF Level, Children, IsIndex
  <1>4. Produced' = Produced
    BY DEF Produced
  <1>5. Reached' = Reached /\ \A k : References(k)' = References(k)
    BY <1>3 DEF Reached, References
  <1>6. Sound' = Sound
    BY <1>3, <1>4, <1>5 DEF Sound
  <1> QED BY <1>1, <1>2, <1>3, <1>6

\* Above the empty level, a level is part of what the key reaches.
LEMMA ReachedIs ==
  ASSUME TypeOK
  PROVE  /\ \A n \in 0..MaxDepth : Level[n] \subseteq Reached
         /\ \A n \in 0..(MaxDepth + 1) : Sound => Level[n] \subseteq Reached
         /\ \A n \in Nat : \A c \in Level[n] : Children(c) \subseteq Level[n + 1]
  <1>1. \A n \in 0..MaxDepth : Level[n] \subseteq Reached
    BY DEF Reached
  <1>2. ASSUME NEW n \in 0..(MaxDepth + 1), Sound PROVE Level[n] \subseteq Reached
    <2>1. CASE n = MaxDepth + 1 BY <1>2, <2>1 DEF Sound
    <2>2. CASE n # MaxDepth + 1
      <3>1. n \in 0..MaxDepth
        BY <2>2, WalkAssumption
      <3> QED BY <1>1, <3>1
    <2> QED BY <2>1, <2>2
  <1>3. ASSUME NEW n \in Nat, NEW c \in Level[n] PROVE Children(c) \subseteq Level[n + 1]
    <2>1. n + 1 \in Nat \ {0} /\ (n + 1) - 1 = n
      OBVIOUS
    <2>2. Level[n + 1] = UNION {Children(b) : b \in Level[n]}
      BY <2>1, LevelIs
    <2> QED BY <2>2
  <1> QED BY <1>1, <1>2, <1>3

LEMMA EnterTraces ==
  ASSUME IInv, Enter
  PROVE  TraceOK'
  <1>0. /\ seen' = <<>> /\ scan' = <<>> /\ stack' = <<[cell |-> root, depth |-> 0]>>
        /\ UNCHANGED <<hive, root>> /\ TypeOK
    BY DEF Enter, IInv, CostOK
  <1>1. /\ DOMAIN seen' = {} /\ DOMAIN scan' = {} /\ DOMAIN stack' = {1}
        /\ stack'[1].cell = root /\ stack'[1].depth = 0
    BY <1>0
  <1>2. root \in Level[0] /\ Level' = Level
    BY <1>0, LevelIs, LevelsStay
  <1>3. LevelOK'
    BY <1>1, <1>2 DEF LevelOK
  <1>4. ParentOK' /\ OnceOK'
    BY <1>0, <1>1 DEF ParentOK, OnceOK
  <1> QED BY <1>3, <1>4 DEF TraceOK

LEMMA VisitTraces ==
  ASSUME IInv, TraceOK, Visit
  PROVE  TraceOK'
  <1>a. PICK t \in Frame : t = Top
    BY PopStep DEF Visit
  <1>0. /\ t.depth <= MaxDepth /\ t.cell \notin DOMAIN seen /\ phase = "pop"
        /\ UNCHANGED <<hive, root>> /\ depth' = t.depth
        /\ DOMAIN seen' = DOMAIN seen \cup {t.cell} /\ seen'[t.cell] = t.depth
        /\ \A c \in DOMAIN seen : seen'[c] = seen[c]
        /\ scan' = IF hive[t.cell].kind = "list" THEN hive[t.cell].elements ELSE <<>>
    BY <1>a DEF Visit, ReadTop, Pop
  <1>1. TypeOK /\ LevelOK /\ ParentOK /\ (Sound => OnceOK)
    BY <1>0 DEF IInv, TraceOK, Walking
  <1>2. t.cell \in Cells /\ t.depth \in 0..MaxDepth /\ t.depth \in Nat
        /\ t.depth + 1 \in 0..(MaxDepth + 1)
    BY <1>0, WalkAssumption DEF Frame
  <1>3. /\ Len(stack) \in DOMAIN stack /\ stack[Len(stack)] = t
        /\ \A i \in DOMAIN stack' : i \in DOMAIN stack /\ stack'[i] = stack[i] /\ i # Len(stack)
    <2>1. /\ stack' \in Seq(Frame) /\ Len(stack') = Len(stack) - 1
          /\ \A i \in 1..Len(stack') : stack'[i] = stack[i]
      BY PopStep DEF Visit
    <2>2. stack \in Seq(Frame) /\ stack # <<>>
      BY <1>1 DEF TypeOK, Visit, Pop
    <2> QED BY <1>a, <2>1, <2>2 DEF Top
  <1>4. t.cell \in Level[t.depth] /\ Children(t.cell) \subseteq Level[t.depth + 1]
    <2>1. t.cell \in Level[t.depth]
      BY <1>1, <1>3 DEF LevelOK
    <2> QED BY <1>1, <1>2, <2>1, ReachedIs
  <1>5. ASSUME NEW i \in DOMAIN scan', IsIndex(scan'[i])
        PROVE  /\ scan'[i] \in Children(t.cell) /\ hive[t.cell].kind = "list"
               /\ scan' = hive[t.cell].elements
    <2>1. hive[t.cell].kind = "list" /\ scan' = hive[t.cell].elements
      <3>1. DOMAIN <<>> = {}
        OBVIOUS
      <3> QED BY <1>0, <1>5, <3>1
    <2>2. scan'[i] \in Cells
      BY <1>1, <1>2, <1>5, <2>1, ListIs
    <2> QED BY <1>5, <2>1, <2>2 DEF Children
  <1>6. /\ Level' = Level /\ Sound' = Sound /\ \A c : Children(c)' = Children(c)
        /\ \A c : IsIndex(c)' = IsIndex(c)
    BY <1>0, LevelsStay
  <1>7. LevelOK'
    <2>1. \A i \in DOMAIN stack' : stack'[i].cell \in Level[stack'[i].depth]
      BY <1>1, <1>3 DEF LevelOK
    <2>2. \A c \in DOMAIN seen' : c \in Level[seen'[c]]
      BY <1>0, <1>1, <1>4 DEF LevelOK
    <2>3. \A i \in DOMAIN scan' : IsIndex(scan'[i]) => scan'[i] \in Level[depth' + 1]
      BY <1>0, <1>4, <1>5
    <2>4. \A i \in DOMAIN scan' : IsIndex(scan[i])' = IsIndex(scan'[i])
      BY <1>0 DEF IsIndex
    <2> QED BY <1>6, <2>1, <2>2, <2>3, <2>4 DEF LevelOK
  <1>8. ParentOK'
    <2>1. \A k : HasParent(k) => HasParent(k)'
      BY <1>0, <1>6 DEF HasParent
    <2>2. \A k \in Children(t.cell) : HasParent(k)'
      BY <1>0, <1>6 DEF HasParent
    <2>3. \A c \in DOMAIN seen' : c = root \/ HasParent(c)'
      BY <1>0, <1>1, <1>3, <2>1 DEF ParentOK
    <2>4. \A i \in DOMAIN stack' : stack'[i].cell = root \/ HasParent(stack[i].cell)'
      <3> TAKE i \in DOMAIN stack'
      <3> DEFINE k == stack'[i].cell
      <3>1. k = root \/ HasParent(k)
        BY <1>1, <1>3 DEF ParentOK
      <3>2. HasParent(k) => HasParent(stack[i].cell)'
        BY <1>0, <1>6 DEF HasParent
      <3> QED BY <3>1, <3>2
    <2>5. \A i \in DOMAIN scan' : IsIndex(scan[i])' => HasParent(scan[i])'
      <3> TAKE i \in DOMAIN scan'
      <3>1. IsIndex(scan[i])' = IsIndex(scan'[i])
        BY <1>0 DEF IsIndex
      <3>2. scan'[i] \in Children(t.cell) => HasParent(scan[i])'
        BY <1>0, <1>6 DEF HasParent
      <3> QED BY <1>5, <3>1, <3>2
    <2> QED BY <1>0, <2>3, <2>4, <2>5 DEF ParentOK
  <1>9. ASSUME Sound PROVE OnceOK'
    <2>0. OnceOK
      BY <1>1, <1>9
    <2>1. t.cell \in Reached
      BY <1>1, <1>2, <1>4, ReachedIs
    <2>2. \A k \in Children(t.cell) : k \in Reached
      BY <1>1, <1>2, <1>4, <1>9, ReachedIs
    <2>3. \A p \in DOMAIN seen : p \in Reached
      <3>1. \A p \in DOMAIN seen : seen[p] \in 0..MaxDepth
        BY <1>1 DEF TypeOK
      <3> QED BY <1>1, <3>1, ReachedIs DEF LevelOK
    <2>4. \A i, j \in DOMAIN stack' : stack'[i].cell = stack'[j].cell => i = j
      BY <1>3, <2>0 DEF OnceOK
    <2>5. \A i \in DOMAIN stack' : stack'[i].cell \notin DOMAIN seen'
      BY <1>0, <1>3, <2>0 DEF OnceOK
    <2>6. ASSUME NEW i \in DOMAIN scan', NEW j \in DOMAIN scan',
                 IsIndex(scan'[i]), scan'[i] = scan'[j]
          PROVE  i = j
      BY <1>1, <1>5, <1>9, <2>1, <2>2, <2>6, OneReference
    <2>7. ASSUME NEW i \in DOMAIN scan', IsIndex(scan'[i])
          PROVE  scan'[i] # root /\ ~HasParent(scan'[i])
      <3> DEFINE k == scan'[i]
      <3>1. /\ hive[t.cell].kind = "list" /\ i \in DOMAIN hive[t.cell].elements
            /\ hive[t.cell].elements[i] = k /\ k \in Reached
        BY <1>5, <2>2, <2>7
      <3>2. k # root
        BY <1>1, <1>9, <2>1, <3>1, OneReference
      <3>3. ASSUME NEW p \in DOMAIN seen, k \in Children(p) PROVE FALSE
        <4>1. hive[p].kind = "list"
              /\ \E j \in DOMAIN hive[p].elements : hive[p].elements[j] = k
          BY <3>3 DEF Children
        <4>2. PICK j \in DOMAIN hive[p].elements : hive[p].elements[j] = k
          BY <4>1
        <4>3. p = t.cell
          <5> HIDE DEF k
          <5> QED BY <1>1, <1>9, <2>1, <2>3, <3>1, <4>1, <4>2, OneReference
        <4> QED BY <1>0, <4>3
      <3> QED BY <3>2, <3>3 DEF HasParent
    <2>8. ASSUME NEW i \in DOMAIN scan', IsIndex(scan'[i])
          PROVE  /\ scan'[i] \notin DOMAIN seen'
                 /\ \A j \in DOMAIN stack' : stack'[j].cell # scan'[i]
      <3>1. scan'[i] # root /\ ~HasParent(scan'[i])
        BY <2>7, <2>8
      <3>2. \A j \in DOMAIN stack : stack[j].cell # scan'[i]
        BY <1>1, <3>1 DEF ParentOK
      <3>3. scan'[i] \notin DOMAIN seen
        BY <1>1, <3>1 DEF ParentOK
      <3> QED BY <1>0, <1>3, <3>2, <3>3
    <2>9. \A i \in DOMAIN scan' : IsIndex(scan[i])' = IsIndex(scan'[i])
      BY <1>0 DEF IsIndex
    <2> QED BY <2>4, <2>5, <2>6, <2>8, <2>9 DEF OnceOK
  <1> QED BY <1>6, <1>7, <1>8, <1>9 DEF TraceOK

LEMMA ElementTraces ==
  ASSUME IInv, TraceOK, Element
  PROVE  TraceOK'
  <1>a. PICK h \in Cells : h = Head(scan)
    BY DEF Element, IInv, TypeOK
  <1> DEFINE f == [cell |-> h, depth |-> depth + 1]
  <1>0. /\ phase = "scan" /\ scan # <<>> /\ scan' = Tail(scan)
        /\ UNCHANGED <<hive, root, seen, depth>>
        /\ stack' = IF IsIndex(h) THEN Append(stack, f) ELSE stack
    BY <1>a DEF Element
  <1>1. TypeOK /\ LevelOK /\ ParentOK /\ (Sound => OnceOK)
    BY <1>0 DEF IInv, TraceOK, Walking
  <1>2. /\ 1 \in DOMAIN scan /\ scan[1] = h
        /\ \A i \in DOMAIN scan' : i + 1 \in DOMAIN scan /\ scan'[i] = scan[i + 1] /\ i \in Nat
                                   /\ i + 1 # 1
    <2>1. scan \in Seq(Cells)
      BY <1>1 DEF TypeOK
    <2> QED BY <1>a, <1>0, <2>1
  <1>3. /\ f \in Frame /\ f.cell = h /\ f.depth = depth + 1
        /\ stack \in Seq(Frame)
    BY <1>1, WalkAssumption DEF TypeOK, Frame
  <1> HIDE DEF f
  <1>4. \A i \in DOMAIN stack' :
          \/ i \in DOMAIN stack /\ stack'[i] = stack[i]
          \/ IsIndex(h) /\ i = Len(stack) + 1 /\ stack'[i] = f
    <2>1. CASE IsIndex(h)
      <3>1. stack' = Append(stack, f)
        BY <1>0, <2>1
      <3> QED BY <1>3, <2>1, <3>1
    <2>2. CASE ~IsIndex(h)
      BY <1>0, <2>2
    <2> QED BY <2>1, <2>2
  <1>5. /\ Level' = Level /\ Sound' = Sound /\ \A c : Children(c)' = Children(c)
    BY <1>0, LevelsStay
  <1>6. \A i \in DOMAIN scan' : IsIndex(scan[i])' = IsIndex(scan[i + 1])
    BY <1>0, <1>2 DEF IsIndex
  <1>7. LevelOK'
    <2>1. \A i \in DOMAIN stack' : stack'[i].cell \in Level[stack'[i].depth]
      BY <1>1, <1>2, <1>3, <1>4 DEF LevelOK
    <2>2. \A i \in DOMAIN scan' : IsIndex(scan[i + 1]) => scan'[i] \in Level[depth + 1]
      BY <1>1, <1>2 DEF LevelOK
    <2> QED BY <1>0, <1>1, <1>5, <1>6, <2>1, <2>2 DEF LevelOK
  <1>8. ParentOK'
    <2>1. ASSUME NEW i \in DOMAIN stack'
          PROVE  stack'[i].cell = root \/ HasParent(stack[i].cell)'
      <3>1. stack'[i].cell = root \/ HasParent(stack'[i].cell)
        BY <1>1, <1>2, <1>3, <1>4 DEF ParentOK
      <3>2. HasParent(stack'[i].cell) => HasParent(stack[i].cell)'
        BY <1>0, <1>5 DEF HasParent
      <3> QED BY <3>1, <3>2
    <2>2. ASSUME NEW c \in DOMAIN seen PROVE c = root \/ HasParent(c)'
      <3>1. c = root \/ HasParent(c)
        BY <1>1 DEF ParentOK
      <3>2. HasParent(c) => HasParent(c)'
        BY <1>0, <1>5 DEF HasParent
      <3> QED BY <3>1, <3>2
    <2>3. ASSUME NEW i \in DOMAIN scan', IsIndex(scan[i])' PROVE HasParent(scan[i])'
      <3>1. HasParent(scan[i + 1])
        BY <1>1, <1>2, <1>6, <2>3 DEF ParentOK
      <3>2. HasParent(scan[i + 1]) => HasParent(scan[i])'
        BY <1>0, <1>2, <1>5 DEF HasParent
      <3> QED BY <3>1, <3>2
    <2> QED BY <1>0, <2>1, <2>2, <2>3 DEF ParentOK
  <1>9. ASSUME Sound PROVE OnceOK'
    <2>0. OnceOK
      BY <1>1, <1>9
    <2>1. IsIndex(h) => h \notin DOMAIN seen /\ \A j \in DOMAIN stack : stack[j].cell # h
      BY <1>2, <2>0 DEF OnceOK
    <2>2. \A i, j \in DOMAIN stack' : stack'[i].cell = stack'[j].cell => i = j
      BY <1>3, <1>4, <2>0, <2>1 DEF OnceOK
    <2>3. \A i \in DOMAIN stack' : stack'[i].cell \notin DOMAIN seen'
      BY <1>0, <1>3, <1>4, <2>0, <2>1 DEF OnceOK
    <2>4. ASSUME NEW i \in DOMAIN scan', NEW j \in DOMAIN scan',
                 IsIndex(scan[i])', scan'[i] = scan'[j]
          PROVE  i = j
      <3>1. IsIndex(scan[i + 1]) /\ scan[i + 1] = scan[j + 1]
        BY <1>2, <1>6, <2>4
      <3>2. i + 1 = j + 1 /\ i \in Nat /\ j \in Nat
        BY <1>2, <2>0, <3>1 DEF OnceOK
      <3> QED BY <3>2
    <2>5. ASSUME NEW i \in DOMAIN scan', IsIndex(scan[i])'
          PROVE  /\ scan'[i] \notin DOMAIN seen'
                 /\ \A j \in DOMAIN stack' : stack'[j].cell # scan'[i]
      <3>1. IsIndex(scan[i + 1]) /\ i + 1 \in DOMAIN scan /\ scan'[i] = scan[i + 1] /\ i + 1 # 1
        BY <1>2, <1>6, <2>5
      <3>2. /\ scan'[i] \notin DOMAIN seen
            /\ \A j \in DOMAIN stack : stack[j].cell # scan'[i]
        BY <2>0, <3>1 DEF OnceOK
      <3>3. scan'[i] # h
        BY <1>2, <2>0, <3>1 DEF OnceOK
      <3> QED BY <1>0, <1>3, <1>4, <3>2, <3>3
    <2> QED BY <2>2, <2>3, <2>4, <2>5 DEF OnceOK
  <1> QED BY <1>5, <1>7, <1>8, <1>9 DEF TraceOK

\* The walk knows of an index of a sound hive at one place only.
THEOREM TraceInv == Spec => []TraceOK
  <1>1. Init => TraceOK
    BY DEF Init, TraceOK, Walking
  <1>2. IInv /\ TraceOK /\ [Next]_vars => TraceOK'
    <2> SUFFICES ASSUME IInv, TraceOK, [Next]_vars PROVE TraceOK'
      OBVIOUS
    <2>1. CASE UNCHANGED <<hive, root, stack, seen, scan, depth>> /\ (Walking' => Walking)
      <3>1. \A c : HasParent(c)' = HasParent(c) /\ IsIndex(c)' = IsIndex(c)
        BY <2>1, LevelsStay DEF HasParent
      <3>2. Level' = Level /\ Sound' = Sound
        BY <2>1, LevelsStay
      <3>3. LevelOK' = LevelOK /\ ParentOK' = ParentOK /\ OnceOK' = OnceOK
        BY <2>1, <3>2 DEF LevelOK, ParentOK, OnceOK, HasParent, Children, IsIndex
      <3> QED BY <2>1, <3>2, <3>3 DEF TraceOK
    <2>2. CASE UNCHANGED vars
      BY <2>1, <2>2 DEF vars, Walking
    <2>3. CASE Leaf \/ TooDeep \/ Revisit
      BY <2>3 DEF Leaf, TooDeep, Revisit, TraceOK, Walking
    <2>4. CASE CheckSize \/ Accept
      BY <2>1, <2>4 DEF CheckSize, Accept, Walking
    <2> QED BY <2>2, <2>3, <2>4, EnterTraces, VisitTraces, ElementTraces DEF Next
  <1> QED BY <1>1, <1>2, WalkInv, PTL DEF Spec

-----------------------------------------------------------------------------
(***************************************************************************)
(* A refusal refutes that the hive is sound.                               *)
(***************************************************************************)

\* The pending frames of a sound hive are no more than its indexes.
LEMMA StackIsSmall ==
  ASSUME IInv, TraceOK, Walking, Sound
  PROVE  Len(stack) <= Limit
  <1>1. TypeOK /\ LevelOK /\ OnceOK /\ stack \in Seq(Frame) /\ Len(stack) \in Nat
    BY DEF IInv, TraceOK, TypeOK
  <1> DEFINE S == 1..Len(stack)
             f == [i \in S |-> stack[i].cell]
  <1>2. \A i \in S : stack[i].cell \in Reached
    <2> TAKE i \in S
    <2>1. i \in DOMAIN stack /\ stack[i] \in Frame
      BY <1>1
    <2>2. stack[i].depth \in 0..(MaxDepth + 1) /\ stack[i].cell \in Level[stack[i].depth]
      BY <1>1, <2>1 DEF LevelOK, Frame
    <2> QED BY <1>1, <2>2, ReachedIs
  <1>3. f \in Injection(S, Reached)
    <2>1. f \in [S -> Reached]
      BY <1>2
    <2>2. \A i, j \in S : f[i] = f[j] => i = j
      BY <1>1 DEF OnceOK
    <2> QED BY <2>1, <2>2 DEF Injection, IsInjective
  <1>4. IsFiniteSet(Reached) /\ Cardinality(Reached) <= Limit
    BY <1>1, ReachedFinite DEF Sound
  <1>5. Cardinality(S) <= Cardinality(Reached)
    <2> HIDE DEF S, f
    <2> QED BY <1>3, <1>4, FS_Injection
  <1>6. Cardinality(S) = Len(stack)
    <2>1. 1 \in Int /\ Len(stack) \in Int
      BY <1>1
    <2>2. Cardinality(S) = IF 1 > Len(stack) THEN 0 ELSE Len(stack) - 1 + 1
      BY <2>1, FS_Interval
    <2> QED BY <1>1, <2>2
  <1>7. Cardinality(Reached) \in Nat /\ Limit \in Nat
    BY <1>4, FS_CardinalityType, WalkAssumption
  <1> HIDE DEF S
  <1> QED BY <1>1, <1>4, <1>5, <1>6, <1>7

\* What is counted of a sound hive is no more than the library would build.
LEMMA TotalIsSmall ==
  ASSUME IInv, CountOK, Walking, Sound
  PROVE  total <= Limit
  <1>1. TypeOK /\ stack \in Seq(Frame) /\ scan \in Seq(Cells) /\ total \in Nat
        /\ MaxDepth - depth \in Nat /\ Limit \in Nat /\ MaxDepth \in Nat /\ root \in Cells
    BY WalkAssumption DEF IInv, TypeOK
  <1>2. StackWorth(stack) \in Nat /\ ListWorth(MaxDepth - depth, scan) \in Nat
    BY <1>1, StackWorthIs, ListWorthIs
  <1>3. total + StackWorth(stack) + ListWorth(MaxDepth - depth, scan) = Produced[MaxDepth][root]
    BY DEF CountOK
  <1>4. Produced[MaxDepth][root] <= Limit /\ Produced[MaxDepth][root] \in Nat
    BY <1>1, ProducedIs DEF Sound
  <1> QED BY <1>1, <1>2, <1>3, <1>4

\* No key of a sound hive is lost to the guard.
THEOREM NoSoundIndexRefused == Spec => []SoundIsAccepted
  <1>1. Init => SoundIsAccepted
    BY DEF Init, SoundIsAccepted
  <1>2. IInv /\ TraceOK /\ CountOK /\ SoundIsAccepted /\ [Next]_vars => SoundIsAccepted'
    <2> SUFFICES ASSUME IInv, TraceOK, CountOK, SoundIsAccepted, [Next]_vars
                 PROVE  SoundIsAccepted'
      OBVIOUS
    <2>1. CASE UNCHANGED vars
      BY <2>1, LevelsStay DEF vars, SoundIsAccepted
    <2>2. CASE TooDeep \/ Revisit
      <3>1. /\ Pop /\ phase = "pop" /\ stack # <<>> /\ UNCHANGED <<hive, root>> /\ TypeOK
        BY <2>2 DEF TooDeep, Revisit, Pop, IInv
      <3>2. Len(stack) \in DOMAIN stack /\ Top \in Frame
        <4>1. stack \in Seq(Frame)
          BY <3>1 DEF TypeOK
        <4> QED BY <3>1, <4>1, PopStep
      <3>3. LevelOK /\ (Sound => OnceOK)
        BY <3>1 DEF TraceOK, Walking
      <3>4. CASE TooDeep
        <4>1. Top.depth = MaxDepth + 1
          BY <3>2, <3>4, WalkAssumption DEF TooDeep, Frame
        <4>2. Top.cell \in Level[MaxDepth + 1]
          BY <3>2, <3>3, <4>1 DEF LevelOK, Top
        <4>3. ~Sound
          BY <4>2 DEF Sound
        <4> QED BY <3>1, <4>3, LevelsStay DEF SoundIsAccepted
      <3>5. CASE Revisit
        <4>1. Top.cell \in DOMAIN seen
          BY <3>5 DEF Revisit
        <4>2. ~Sound
          BY <3>2, <3>3, <4>1 DEF OnceOK, Top
        <4> QED BY <3>1, <4>2, LevelsStay DEF SoundIsAccepted
      <3> QED BY <2>2, <3>4, <3>5
    <2>3. CASE CheckSize
      <3>1. Walking /\ UNCHANGED <<hive, root>>
            /\ (phase' = "pop" \/ total > Limit \/ Len(stack) > Limit)
        BY <2>3 DEF CheckSize, Walking
      <3>2. total \in Nat /\ Len(stack) \in Nat /\ Limit \in Nat
        BY WalkAssumption DEF IInv, TypeOK
      <3>3. phase' = "pop" \/ ~Sound
        BY <3>1, <3>2, StackIsSmall, TotalIsSmall
      <3> QED BY <3>1, <3>3, LevelsStay DEF SoundIsAccepted
    <2>4. CASE Leaf \/ Enter \/ Visit \/ Element \/ Accept
      BY <2>4 DEF Leaf, Enter, Visit, ReadTop, Element, Accept, SoundIsAccepted
    <2> QED BY <2>1, <2>2, <2>3, <2>4 DEF Next
  <1> QED BY <1>1, <1>2, WalkInv, TraceInv, CountInv, PTL DEF Spec

=============================================================================
