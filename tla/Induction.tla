----------------------------- MODULE Induction -----------------------------
(***************************************************************************)
(* Induction over the natural numbers for statements that are given as     *)
(* sets: the set of the numbers for which something holds.  What recursive *)
(* functions compute is proved from these lemmas.                          *)
(***************************************************************************)
EXTENDS Integers, FiniteSetTheorems, TLAPS

\* A set of natural numbers that is not empty has a least element.
LEMMA LeastNatural ==
  ASSUME NEW S \in SUBSET Nat, S # {}
  PROVE  \E x \in S : \A y \in S : x <= y
  <1>1. IsWellFoundedOn(OpToRel(<, Nat), Nat)
    BY NatLessThanWellFounded
  <1>2. PICK x \in S : \A y \in S : <<y, x>> \notin OpToRel(<, Nat)
    BY <1>1, WFMin
  <1>3. \A y \in S : ~(y < x)
    BY <1>2 DEF OpToRel
  <1>4. \A y \in S : y \in Nat
    OBVIOUS
  <1> QED BY <1>3, <1>4

\* A set of natural numbers that is bounded and not empty has a greatest element.
LEMMA GreatestNatural ==
  ASSUME NEW S \in SUBSET Nat, S # {}, NEW bound \in Nat, \A x \in S : x <= bound
  PROVE  \E x \in S : \A y \in S : y <= x
  <1> DEFINE T == {n \in Nat : \A x \in S : x <= n}
  <1>1. PICK top \in T : \A n \in T : top <= n
    <2>1. T \in SUBSET Nat /\ T # {}
      OBVIOUS
    <2> QED BY <2>1, LeastNatural
  <1>2. \A x \in S : x <= top /\ x \in Nat
    BY <1>1
  <1>3. top \in S
    <2>1. SUFFICES ASSUME top \notin S PROVE FALSE
      OBVIOUS
    <2>2. \A x \in S : x <= top - 1 /\ 0 <= top - 1
      BY <1>1, <1>2, <2>1
    <2>3. top - 1 \in T /\ top \in Nat
      <3>1. top \in Nat /\ \E x \in S : x \in Nat
        BY <1>1
      <3> QED BY <2>2, <3>1
    <2> QED BY <1>1, <2>3
  <1> QED BY <1>2, <1>3

\* A set that has 0, and n + 1 with n, has every natural number.
LEMMA StepInduction ==
  ASSUME NEW S, 0 \in S, \A n \in Nat : n \in S => n + 1 \in S
  PROVE  \A n \in Nat : n \in S
  <1>1. SUFFICES ASSUME Nat \ S # {} PROVE FALSE
    OBVIOUS
  <1>2. PICK least \in Nat \ S : \A n \in Nat \ S : least <= n
    BY <1>1, LeastNatural
  <1>3. least # 0 /\ least - 1 \in Nat
    BY <1>2
  <1>4. least - 1 \in S
    BY <1>2, <1>3
  <1>5. (least - 1) + 1 \in S
    BY <1>3, <1>4
  <1> QED BY <1>2, <1>5

\* A set that has n as soon as it has every smaller number has every natural number.
LEMMA StrongInduction ==
  ASSUME NEW S, \A n \in Nat : (\A m \in 0..(n - 1) : m \in S) => n \in S
  PROVE  \A n \in Nat : n \in S
  <1>1. SUFFICES ASSUME Nat \ S # {} PROVE FALSE
    OBVIOUS
  <1>2. PICK least \in Nat \ S : \A n \in Nat \ S : least <= n
    BY <1>1, LeastNatural
  <1>3. \A m \in 0..(least - 1) : m \in S
    BY <1>2
  <1> QED BY <1>2, <1>3

-----------------------------------------------------------------------------
(* Recursion over the natural numbers has a solution, and one only.        *)

\* The first n + 1 values of a sequence that starts with base and goes on by step.
Starts(g, n, base, step) ==
  /\ g[0] = base
  /\ \A i \in 1..n : g[i] = step[<<i, g[i - 1]>>]

\* Two sequences with the same start and the same step agree as far as both go.
LEMMA StartsAgree ==
  ASSUME NEW base, NEW step, NEW n \in Nat, NEW g, NEW h,
         Starts(g, n, base, step), Starts(h, n, base, step)
  PROVE  \A i \in 0..n : g[i] = h[i]
  <1> DEFINE S == {i \in Nat : i <= n => g[i] = h[i]}
  <1>1. 0 \in S
    BY DEF Starts
  <1>2. ASSUME NEW i \in Nat, i \in S PROVE i + 1 \in S
    <2> SUFFICES ASSUME i + 1 <= n PROVE g[i + 1] = h[i + 1]
      BY <1>2
    <2>1. g[i] = h[i]
      BY <1>2
    <2>2. i + 1 \in 1..n /\ (i + 1) - 1 = i
      OBVIOUS
    <2>3. g[i + 1] = step[<<i + 1, g[i]>>] /\ h[i + 1] = step[<<i + 1, h[i]>>]
      <3> DEFINE k == i + 1
      <3>1. k \in 1..n /\ k - 1 = i
        BY <2>2
      <3> HIDE DEF k
      <3>2. g[k] = step[<<k, g[k - 1]>>] /\ h[k] = step[<<k, h[k - 1]>>]
        BY <3>1 DEF Starts
      <3> QED BY <3>1, <3>2 DEF k
    <2> QED BY <2>1, <2>3
  <1> HIDE DEF S
  <1>3. \A i \in Nat : i \in S
    BY <1>1, <1>2, StepInduction
  <1> QED BY <1>3 DEF S

\* A step that stays within a set, and a sequence that is made by it.
Stays(step, T) == \A n \in Nat : \A x \in T : step[<<n, x>>] \in T

Recurs(f, base, step) ==
  /\ f[0] = base
  /\ \A n \in Nat \ {0} : f[n] = step[<<n, f[n - 1]>>]

\* A step that stays within a set gives an infinite sequence over it.
LEMMA NatRecursion ==
  ASSUME NEW T, NEW base \in T, NEW step, Stays(step, T)
  PROVE  \E f \in [Nat -> T] : Recurs(f, base, step)
  <1> USE DEF Stays, Recurs
  <1> DEFINE S == {n \in Nat : \E g \in [0..n -> T] : Starts(g, n, base, step)}
  <1>1. 0 \in S
    <2>1. [i \in 0..0 |-> base] \in [0..0 -> T]
      OBVIOUS
    <2>2. Starts([i \in 0..0 |-> base], 0, base, step)
      BY DEF Starts
    <2> QED BY <2>1, <2>2
  <1>2. ASSUME NEW n \in Nat, n \in S PROVE n + 1 \in S
    <2>1. PICK g \in [0..n -> T] : Starts(g, n, base, step)
      BY <1>2
    <2> DEFINE h == [i \in 0..(n + 1) |-> IF i = n + 1 THEN step[<<n + 1, g[n]>>] ELSE g[i]]
    <2>2. g[n] \in T /\ n + 1 \in Nat
      OBVIOUS
    <2>3. h \in [0..(n + 1) -> T]
      BY <2>2
    <2>4. h[0] = base
      BY <2>1 DEF Starts
    <2>5. ASSUME NEW i \in 1..(n + 1) PROVE h[i] = step[<<i, h[i - 1]>>]
      <3>1. CASE i = n + 1
        <4>1. h[i] = step[<<i, g[n]>>]
          BY <3>1
        <4>2. i - 1 = n /\ i - 1 \in 0..(n + 1) /\ i - 1 # n + 1
          BY <3>1
        <4>3. h[i - 1] = g[n]
          BY <4>2
        <4> QED BY <4>1, <4>3
      <3>2. CASE i \in 1..n
        <4>1. h[i] = g[i] /\ h[i - 1] = g[i - 1]
          BY <3>2
        <4> QED BY <2>1, <3>2, <4>1 DEF Starts
      <3> QED BY <3>1, <3>2
    <2> HIDE DEF h
    <2>6. Starts(h, n + 1, base, step)
      BY <2>4, <2>5 DEF Starts
    <2> QED BY <2>2, <2>3, <2>6
  <1> HIDE DEF S
  <1>3. \A n \in Nat : n \in S
    BY <1>1, <1>2, StepInduction
  <1> DEFINE A(n) == CHOOSE g \in [0..n -> T] : Starts(g, n, base, step)
             f == [n \in Nat |-> A(n)[n]]
  <1>4. \A n \in Nat : A(n) \in [0..n -> T] /\ Starts(A(n), n, base, step)
    BY <1>3 DEF S
  <1> HIDE DEF A
  <1>5. f \in [Nat -> T] /\ f[0] = base
    <2>1. \A n \in Nat : n \in 0..n
      OBVIOUS
    <2>2. \A n \in Nat : A(n)[n] \in T
      BY <1>4, <2>1
    <2> QED BY <1>4, <2>2 DEF Starts
  <1>6. ASSUME NEW n \in Nat \ {0} PROVE f[n] = step[<<n, f[n - 1]>>]
    <2>1. n - 1 \in Nat /\ n \in 1..n /\ n - 1 \in 0..(n - 1)
      OBVIOUS
    <2>2. Starts(A(n), n - 1, base, step)
      BY <1>4, <2>1 DEF Starts
    <2>3. A(n)[n - 1] = A(n - 1)[n - 1]
      BY <1>4, <2>1, <2>2, StartsAgree
    <2>4. A(n)[n] = step[<<n, A(n)[n - 1]>>]
      BY <1>4, <2>1 DEF Starts
    <2> QED BY <2>1, <2>3, <2>4
  <1> QED BY <1>5, <1>6

=============================================================================
