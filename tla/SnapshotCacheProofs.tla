------------------------- MODULE SnapshotCacheProofs -------------------------
(***************************************************************************)
(* Theorems about SnapshotCache: its type invariant, the exclusion of the  *)
(* slot's holders, the freshness of what a call is handed, the timer that  *)
(* every held snapshot has, and the implementation of TableService.        *)
(***************************************************************************)
EXTENDS SnapshotCacheHistory, TLAPS

(***************************************************************************)
(* The type invariant alone.                                               *)
(***************************************************************************)

\* The initial state is well typed.
LEMMA InitTypeOK == Init => TypeOK
  BY CacheAssumption DEF Init, TypeOK, Off, Critical

\* Every step of a Generate call that stays clear of load preserves the types.
LEMMA CallTypeOK ==
  ASSUME TypeOK, NEW q \in Queries,
         \/ Begin(q) \/ Cancel(q) \/ Deadline(q) \/ Acquire(q) \/ Abandon(q)
         \/ StatFails(q) \/ StatSees(q) \/ StartLoad(q)
         \/ ServeCached(q) \/ ServeFailure(q)
  PROVE  TypeOK'
  <1> USE CacheAssumption DEF TypeOK, Critical, hive, cache, calls, Goto, Return
  <1>1. CASE Begin(q)        BY <1>1 DEF Begin
  <1>2. CASE Cancel(q)       BY <1>2 DEF Cancel
  <1>3. CASE Deadline(q)     BY <1>3 DEF Deadline
  <1>4. CASE Acquire(q)      BY <1>4 DEF Acquire
  <1>5. CASE Abandon(q)      BY <1>5 DEF Abandon
  <1>6. CASE StatFails(q)    BY <1>6 DEF StatFails
  <1>7. CASE StatSees(q)     BY <1>7 DEF StatSees, Drop
  <1>8. CASE StartLoad(q)    BY <1>8 DEF StartLoad
  <1>9. CASE ServeCached(q)  BY <1>9 DEF ServeCached
  <1>10. CASE ServeFailure(q) BY <1>10 DEF ServeFailure
  <1> QED
    BY <1>1, <1>2, <1>3, <1>4, <1>5, <1>6, <1>7, <1>8, <1>9, <1>10

\* So do the steps of a load and the row build after it.
LEMMA LoadTypeOK ==
  ASSUME TypeOK, NEW q \in Queries,
         \/ ReadHive(q) \/ LoadSucceeds(q) \/ LoadFails(q) \/ LoadPanics(q)
         \/ BuildRows(q)
  PROVE  TypeOK'
  <1> USE CacheAssumption DEF TypeOK, Critical, hive, cache, calls, Goto, Return
  <1>1. CASE ReadHive(q)     BY <1>1 DEF ReadHive
  <1>2. CASE LoadSucceeds(q) BY <1>2 DEF LoadSucceeds, Keep
  <1>3. CASE LoadFails(q)    BY <1>3 DEF LoadFails, Keep
  <1>4. CASE LoadPanics(q)   BY <1>4 DEF LoadPanics
  <1>5. CASE BuildRows(q)    BY <1>5 DEF BuildRows
  <1> QED
    BY <1>1, <1>2, <1>3, <1>4, <1>5

\* So do the steps of expire, of the hive's owner and of the clock.
LEMMA OtherTypeOK ==
  ASSUME TypeOK,
         \/ \E e \in Expirers : ExpireStep(e)
         \/ RewriteHive \/ AppendLog \/ Tick
  PROVE  TypeOK'
  <1> USE CacheAssumption DEF TypeOK, hive, cache, calls
  <1>1. ASSUME NEW e \in Expirers, Fire(e) PROVE TypeOK'
    BY <1>1 DEF Fire, Off
  <1>2. ASSUME NEW e \in Expirers, ExpireAcquire(e) PROVE TypeOK'
    BY <1>2 DEF ExpireAcquire
  <1>3. ASSUME NEW e \in Expirers, Expire(e) PROVE TypeOK'
    BY <1>3 DEF Expire, Drop
  <1>4. CASE RewriteHive BY <1>4 DEF RewriteHive
  <1>5. CASE AppendLog   BY <1>5 DEF AppendLog
  <1>6. CASE Tick        BY <1>6 DEF Tick, Expired, Off
  <1> QED
    BY <1>1, <1>2, <1>3, <1>4, <1>5, <1>6 DEF ExpireStep

\* Every variable stays in its type in every behaviour of the cache: in
\* particular the slot's channel never holds a second token.
THEOREM TypeCorrect == Spec => []TypeOK
  <1>1. TypeOK /\ [Next]_vars => TypeOK'
    <2> SUFFICES ASSUME TypeOK, [Next]_vars PROVE TypeOK'
      OBVIOUS
    <2>1. CASE UNCHANGED vars
      BY <2>1 DEF TypeOK, vars, hive, cache, calls
    <2>2. CASE Next
      BY <2>2, CallTypeOK, LoadTypeOK, OtherTypeOK DEF Next, CallStep, HolderStep
    <2> QED BY <2>1, <2>2
  <1> QED BY InitTypeOK, <1>1, PTL DEF Spec

-----------------------------------------------------------------------------
(***************************************************************************)
(* The inductive invariant.  Exclusive and StatFresh are not inductive:    *)
(* what a call is handed is fresh because of what was true when it looked  *)
(* at the hive, decided and read, so the invariant follows each phase.     *)
(***************************************************************************)

\* The label is never ahead of the hive nor of the snapshot it is attached to.
Labelled ==
  /\ stamp <= content
  /\ label <= stamp
  /\ snap <= content
  /\ snap # 0 => label <= snap

\* What a call knows in the phase it is in.
PhaseOK(q) ==
  /\ pc[q] \in {"idle", "queued", "stat"} => floor[q] = 0
  /\ pc[q] \in {"decide", "read", "parse"} => floor[q] <= label
  /\ pc[q] = "parse" => label <= data[q] /\ data[q] \in 1..content
  /\ pc[q] = "rows" => data[q] \in 1..content /\ floor[q] <= data[q]

\* The slot's token and its holder.
SlotOK ==
  /\ \A q \in Queries : pc[q] \in Critical => sem = 1
  /\ \A e \in Expirers : xpc[e] = "holding" => sem = 1
  /\ sem = 1 => \/ \E q \in Queries : pc[q] \in Critical
                \/ \E e \in Expirers : xpc[e] = "holding"
  /\ \A p, q \in Queries : pc[p] \in Critical /\ pc[q] \in Critical => p = q
  /\ \A d, e \in Expirers : xpc[d] = "holding" /\ xpc[e] = "holding" => d = e
  /\ \A q \in Queries, e \in Expirers :
       ~(pc[q] \in Critical /\ xpc[e] = "holding")

\* The timer runs down as the age runs up.
TimerTracksAge ==
  IF age < TTL THEN timer = TTL - age ELSE timer \in {Off, 0}

FreshInv == TypeOK /\ SlotOK /\ Labelled /\ \A q \in Queries : PhaseOK(q)

TimedInv == TypeOK /\ TimerTracksAge /\ HeldIsTimed

-----------------------------------------------------------------------------
(***************************************************************************)
(* Exclusion.                                                              *)
(***************************************************************************)

\* The steps of a call keep the slot's token with its holder.
LEMMA CallSlotOK ==
  ASSUME TypeOK, SlotOK, NEW q \in Queries, CallStep(q)
  PROVE  SlotOK'
  <1> USE DEF TypeOK, SlotOK, Critical, hive, cache, calls, Goto, Return
  <1>1. CASE Begin(q)        BY <1>1 DEF Begin
  <1>2. CASE Cancel(q)       BY <1>2 DEF Cancel
  <1>3. CASE Deadline(q)     BY <1>3 DEF Deadline
  <1>4. CASE Acquire(q)      BY <1>4 DEF Acquire
  <1>5. CASE Abandon(q)      BY <1>5 DEF Abandon
  <1>6. CASE StatFails(q)    BY <1>6 DEF StatFails
  <1>7. CASE StatSees(q)     BY <1>7 DEF StatSees
  <1>8. CASE StartLoad(q)    BY <1>8 DEF StartLoad
  <1>9. CASE ServeCached(q)  BY <1>9 DEF ServeCached
  <1>10. CASE ServeFailure(q) BY <1>10 DEF ServeFailure
  <1>11. CASE ReadHive(q)     BY <1>11 DEF ReadHive
  <1>12. CASE LoadSucceeds(q) BY <1>12 DEF LoadSucceeds
  <1>13. CASE LoadFails(q)    BY <1>13 DEF LoadFails
  <1>14. CASE LoadPanics(q)   BY <1>14 DEF LoadPanics
  <1>15. CASE BuildRows(q)    BY <1>15 DEF BuildRows
  <1> QED
    BY <1>1, <1>2, <1>3, <1>4, <1>5, <1>6, <1>7, <1>8, <1>9, <1>10,
       <1>11, <1>12, <1>13, <1>14, <1>15 DEF CallStep, HolderStep

\* So do the steps of expire and of the hive's owner and the clock.
LEMMA OtherSlotOK ==
  ASSUME TypeOK, SlotOK,
         \/ \E e \in Expirers : ExpireStep(e)
         \/ RewriteHive \/ AppendLog \/ Tick
  PROVE  SlotOK'
  <1> USE DEF TypeOK, SlotOK, Critical, hive, cache, calls
  <1>1. ASSUME NEW e \in Expirers, Fire(e) PROVE SlotOK'
    BY <1>1 DEF Fire
  <1>2. ASSUME NEW e \in Expirers, ExpireAcquire(e) PROVE SlotOK'
    BY <1>2 DEF ExpireAcquire
  <1>3. ASSUME NEW e \in Expirers, Expire(e) PROVE SlotOK'
    BY <1>3 DEF Expire
  <1>4. CASE RewriteHive BY <1>4 DEF RewriteHive
  <1>5. CASE AppendLog   BY <1>5 DEF AppendLog
  <1>6. CASE Tick        BY <1>6 DEF Tick
  <1> QED
    BY <1>1, <1>2, <1>3, <1>4, <1>5, <1>6 DEF ExpireStep

\* One goroutine holds the slot at most, and the slot is free when none does,
\* whichever way the holders leave get, load and expire.
THEOREM SlotIsExclusive == Spec => []Exclusive
  <1>1. Init => SlotOK
    BY DEF Init, SlotOK, Critical
  <1>2. TypeOK /\ SlotOK /\ [Next]_vars => SlotOK'
    <2> SUFFICES ASSUME TypeOK, SlotOK, [Next]_vars PROVE SlotOK'
      OBVIOUS
    <2>1. CASE UNCHANGED vars
      BY <2>1 DEF SlotOK, vars, calls
    <2>2. CASE Next
      BY <2>2, CallSlotOK, OtherSlotOK DEF Next
    <2> QED BY <2>1, <2>2
  <1>3. TypeOK /\ SlotOK => Exclusive
    BY DEF TypeOK, SlotOK, Exclusive, Holders
  <1> QED BY <1>1, <1>2, <1>3, TypeCorrect, PTL DEF Spec

-----------------------------------------------------------------------------
(***************************************************************************)
(* Freshness.                                                              *)
(***************************************************************************)

\* A call that is in a critical phase is the only one, so what another call
\* knows of the label cannot be disturbed by its steps.
LEMMA CallFresh ==
  ASSUME FreshInv, NEW q \in Queries, CallStep(q)
  PROVE  Labelled' /\ \A r \in Queries : PhaseOK(r)'
  <1> SUFFICES ASSUME NEW r \in Queries
               PROVE  Labelled' /\ PhaseOK(r)'
    BY DEF FreshInv
  <1>0. TypeOK /\ SlotOK /\ Labelled /\ PhaseOK(q) /\ PhaseOK(r)
    BY DEF FreshInv
  <1>a. \A p \in Queries : pc[p] \in Critical /\ pc[q] \in Critical => p = q
    BY <1>0 DEF SlotOK
  <1> USE <1>0, CacheAssumption
      DEF TypeOK, Labelled, PhaseOK, Critical, hive, cache, calls, Goto, Return
  <1>1. CASE Begin(q)        BY <1>1 DEF Begin
  <1>2. CASE Cancel(q)       BY <1>2 DEF Cancel
  <1>3. CASE Deadline(q)     BY <1>3 DEF Deadline
  <1>4. CASE Acquire(q)      BY <1>4 DEF Acquire
  <1>5. CASE Abandon(q)      BY <1>5 DEF Abandon
  <1>6. CASE StatFails(q)    BY <1>6 DEF StatFails
  <1>7. CASE StatSees(q)     BY <1>7, <1>a DEF StatSees, Drop
  <1>8. CASE StartLoad(q)    BY <1>8 DEF StartLoad
  <1>9. CASE ServeCached(q)  BY <1>9 DEF ServeCached, MustLoad, Held
  <1>10. CASE ServeFailure(q) BY <1>10 DEF ServeFailure
  <1>11. CASE ReadHive(q)     BY <1>11 DEF ReadHive
  <1>12. CASE LoadSucceeds(q) BY <1>12 DEF LoadSucceeds, Keep
  <1>13. CASE LoadFails(q)    BY <1>13 DEF LoadFails, Keep
  <1>14. CASE LoadPanics(q)   BY <1>14 DEF LoadPanics
  <1>15. CASE BuildRows(q)    BY <1>15 DEF BuildRows
  <1> QED
    BY <1>1, <1>2, <1>3, <1>4, <1>5, <1>6, <1>7, <1>8, <1>9, <1>10,
       <1>11, <1>12, <1>13, <1>14, <1>15 DEF CallStep, HolderStep

\* A write to the hive, an expiry and the clock leave what calls know true.
LEMMA OtherFresh ==
  ASSUME FreshInv,
         \/ \E e \in Expirers : ExpireStep(e)
         \/ RewriteHive \/ AppendLog \/ Tick
  PROVE  Labelled' /\ \A r \in Queries : PhaseOK(r)'
  <1> USE CacheAssumption
      DEF FreshInv, TypeOK, Labelled, PhaseOK, Critical, hive, cache, calls
  <1>1. ASSUME NEW e \in Expirers, Fire(e)
        PROVE  Labelled' /\ \A r \in Queries : PhaseOK(r)'
    BY <1>1 DEF Fire
  <1>2. ASSUME NEW e \in Expirers, ExpireAcquire(e)
        PROVE  Labelled' /\ \A r \in Queries : PhaseOK(r)'
    BY <1>2 DEF ExpireAcquire
  <1>3. ASSUME NEW e \in Expirers, Expire(e)
        PROVE  Labelled' /\ \A r \in Queries : PhaseOK(r)'
    BY <1>3 DEF Expire, Drop
  <1>4. CASE RewriteHive BY <1>4 DEF RewriteHive
  <1>5. CASE AppendLog   BY <1>5 DEF AppendLog
  <1>6. CASE Tick        BY <1>6 DEF Tick
  <1> QED
    BY <1>1, <1>2, <1>3, <1>4, <1>5, <1>6 DEF ExpireStep

\* The inductive invariant of freshness holds in every behaviour.
THEOREM FreshInvHolds == Spec => []FreshInv
  <1>1. Init => FreshInv
    BY InitTypeOK, CacheAssumption
       DEF Init, FreshInv, SlotOK, Labelled, PhaseOK, Critical
  <1>2. FreshInv /\ [Next]_vars => FreshInv'
    <2> SUFFICES ASSUME FreshInv, [Next]_vars PROVE FreshInv'
      OBVIOUS
    <2>1. CASE UNCHANGED vars
      BY <2>1 DEF FreshInv, TypeOK, SlotOK, Labelled, PhaseOK, Critical,
                  vars, hive, cache, calls
    <2>2. ASSUME NEW q \in Queries, CallStep(q) PROVE FreshInv'
      <3>1. TypeOK'
        BY <2>2, CallTypeOK, LoadTypeOK DEF FreshInv, CallStep, HolderStep
      <3>2. SlotOK'
        BY <2>2, CallSlotOK DEF FreshInv
      <3>3. Labelled' /\ \A r \in Queries : PhaseOK(r)'
        BY <2>2, CallFresh
      <3> QED BY <3>1, <3>2, <3>3 DEF FreshInv
    <2>3. CASE (\E e \in Expirers : ExpireStep(e)) \/ RewriteHive \/ AppendLog \/ Tick
      BY <2>3, OtherTypeOK, OtherSlotOK, OtherFresh DEF FreshInv
    <2> QED BY <2>1, <2>2, <2>3 DEF Next
  <1> QED BY <1>1, <1>2, PTL DEF Spec

\* A call that looked at the hive is never answered with older bytes than the
\* write it looked at, for any number of calls, TTL and timeout.
THEOREM RowsAreStatFresh == Spec => []StatFresh
  <1>1. FreshInv => StatFresh
    BY DEF FreshInv, PhaseOK, StatFresh
  <1> QED BY <1>1, FreshInvHolds, PTL

-----------------------------------------------------------------------------
(***************************************************************************)
(* The timer.                                                              *)
(***************************************************************************)

\* Every load that is kept, dropped or left alone leaves a timer for what is
\* held; an expire goroutine that finds a younger snapshot has a running timer.
LEMMA TimedStep ==
  ASSUME TimedInv, [Next]_vars
  PROVE  TimerTracksAge' /\ HeldIsTimed'
  <1> USE CacheAssumption
      DEF TimedInv, TypeOK, TimerTracksAge, HeldIsTimed, Held, Off,
          hive, cache, calls
  <1>1. CASE UNCHANGED vars BY <1>1 DEF vars
  <1>2. ASSUME NEW q \in Queries, CallStep(q)
        PROVE  TimerTracksAge' /\ HeldIsTimed'
    <2>1. CASE StatSees(q)     BY <2>1 DEF StatSees, Drop
    <2>2. CASE LoadSucceeds(q) BY <2>2 DEF LoadSucceeds, Keep
    <2>3. CASE LoadFails(q)    BY <2>3 DEF LoadFails, Keep
    <2>4. CASE UNCHANGED cache /\ UNCHANGED xpc
      BY <2>4
    <2> QED
      BY <1>2, <2>1, <2>2, <2>3, <2>4
         DEF CallStep, HolderStep, Begin, Cancel, Deadline, Acquire, Abandon,
             StatFails, StartLoad, ServeCached, ServeFailure, ReadHive,
             LoadPanics, BuildRows
  <1>3. ASSUME NEW e \in Expirers, Fire(e)
        PROVE  TimerTracksAge' /\ HeldIsTimed'
    BY <1>3 DEF Fire
  <1>4. ASSUME NEW e \in Expirers, ExpireAcquire(e)
        PROVE  TimerTracksAge' /\ HeldIsTimed'
    BY <1>4 DEF ExpireAcquire
  <1>5. ASSUME NEW e \in Expirers, Expire(e)
        PROVE  TimerTracksAge' /\ HeldIsTimed'
    BY <1>5 DEF Expire, Drop
  <1>6. CASE RewriteHive \/ AppendLog
    BY <1>6 DEF RewriteHive, AppendLog
  <1>7. CASE Tick
    BY <1>7 DEF Tick, Expired
  <1> QED
    BY <1>1, <1>2, <1>3, <1>4, <1>5, <1>6, <1>7 DEF Next, ExpireStep

\* What is cached always has a timer or an expire goroutine to drop it.
THEOREM HeldIsAlwaysTimed == Spec => []HeldIsTimed
  <1>1. Init => TimerTracksAge /\ HeldIsTimed
    BY CacheAssumption DEF Init, TimerTracksAge, HeldIsTimed, Held
  <1>2. TypeOK /\ TimerTracksAge /\ HeldIsTimed /\ [Next]_vars
          => TimerTracksAge' /\ HeldIsTimed'
    BY TimedStep DEF TimedInv
  <1> QED BY <1>1, <1>2, TypeCorrect, PTL DEF Spec

-----------------------------------------------------------------------------
(***************************************************************************)
(* The cache implements TableService.                                      *)
(***************************************************************************)

\* What the mapping needs besides FreshInv: a load that runs is due until it ends.
LoadDue == \A q \in Queries : pc[q] \in {"read", "parse"} => MustLoad

\* Every step keeps it: only the holder of the slot changes what is held, and the
\* age never falls but at the end of a load.
LEMMA LoadDueStep ==
  ASSUME FreshInv, LoadDue, Next
  PROVE  LoadDue'
  <1> USE CacheAssumption
      DEF FreshInv, TypeOK, SlotOK, LoadDue, MustLoad, Held, Expired, Critical,
          Goto, Return, hive, cache, calls
  <1>1. CASE RewriteHive \/ AppendLog
    BY <1>1 DEF RewriteHive, AppendLog
  <1>2. CASE Tick
    BY <1>2 DEF Tick
  <1>3. ASSUME NEW e \in Expirers, ExpireStep(e)
        PROVE  LoadDue'
    BY <1>3 DEF ExpireStep, Fire, ExpireAcquire, Expire, Drop
  <1>4. ASSUME NEW q \in Queries,
               Begin(q) \/ Cancel(q) \/ Deadline(q) \/ Acquire(q) \/ Abandon(q)
        PROVE  LoadDue'
    BY <1>4 DEF Begin, Cancel, Deadline, Acquire, Abandon
  <1>5. ASSUME NEW q \in Queries,
               \/ StatFails(q) \/ StatSees(q) \/ StartLoad(q)
               \/ ServeCached(q) \/ ServeFailure(q) \/ ReadHive(q)
        PROVE  LoadDue'
    BY <1>5 DEF StatFails, StatSees, StartLoad, ServeCached, ServeFailure, ReadHive, Drop
  <1>6. ASSUME NEW q \in Queries, LoadSucceeds(q) \/ LoadFails(q) \/ LoadPanics(q)
        PROVE  LoadDue'
    <2>1. \A r \in Queries : pc'[r] \notin {"read", "parse"}
      BY <1>6 DEF LoadSucceeds, LoadFails, LoadPanics
    <2> QED BY <2>1
  <1>7. ASSUME NEW q \in Queries, BuildRows(q)
        PROVE  LoadDue'
    BY <1>7 DEF BuildRows
  <1> QED
    BY <1>1, <1>2, <1>3, <1>4, <1>5, <1>6, <1>7 DEF Next, CallStep, HolderStep

\* What the calls and the cache are in the abstract service.
Phases == [r \in Queries |-> Phase(r)]
Gone   == [r \in Queries |-> ctx[r] = "canceled"]
Shared == IF snap # 0 THEN snap ELSE IF err # "none" THEN -1 ELSE 0

\* The phases of the calls, one location at a time.
LEMMA PhaseIs ==
  ASSUME NEW q
  PROVE  /\ pc[q] = "idle" => Phase(q) = "idle"
         /\ pc[q] = "parse" => Phase(q) = "loading"
         /\ pc[q] = "rows" => Phase(q) = "answered"
         /\ pc[q] \notin {"idle", "parse", "rows"} => Phase(q) = "asked"
  BY Zenon DEF Phase

\* And after a step.
LEMMA PhaseBecomes ==
  ASSUME NEW q
  PROVE  /\ pc'[q] = "idle" => Phase(q)' = "idle"
         /\ pc'[q] = "parse" => Phase(q)' = "loading"
         /\ pc'[q] = "rows" => Phase(q)' = "answered"
         /\ pc'[q] \notin {"idle", "parse", "rows"} => Phase(q)' = "asked"
  BY Zenon DEF Phase

\* A call that moves changes its own phase, and no other.
LEMMA PhaseMoves ==
  ASSUME TypeOK, NEW q \in Queries, NEW at, pc' = [pc EXCEPT ![q] = at]
  PROVE  /\ at = "idle" => Phases' = [Phases EXCEPT ![q] = "idle"]
         /\ at = "parse" => Phases' = [Phases EXCEPT ![q] = "loading"]
         /\ at = "rows" => Phases' = [Phases EXCEPT ![q] = "answered"]
         /\ at \notin {"idle", "parse", "rows"}
              => Phases' = [Phases EXCEPT ![q] = "asked"]
  <1>1. pc'[q] = at /\ \A r \in Queries \ {q} : pc'[r] = pc[r]
    BY DEF TypeOK
  <1>2. ASSUME NEW r \in Queries \ {q} PROVE Phase(r)' = Phase(r)
    BY <1>1, Zenon DEF Phase
  <1>3. Phases' = [Phases EXCEPT ![q] = Phase(q)']
    BY <1>2 DEF Phases
  <1> QED BY <1>1, <1>3, PhaseBecomes

\* A context that changes changes whether its own caller is gone.
LEMMA GoneMoves ==
  ASSUME TypeOK, NEW q \in Queries, NEW cause, ctx' = [ctx EXCEPT ![q] = cause]
  PROVE  /\ cause = "canceled" => Gone' = [Gone EXCEPT ![q] = TRUE]
         /\ cause # "canceled" => Gone' = [Gone EXCEPT ![q] = FALSE]
  <1>1. ctx'[q] = cause /\ \A r \in Queries \ {q} : ctx'[r] = ctx[r]
    BY DEF TypeOK
  <1>2. Gone' = [Gone EXCEPT ![q] = (cause = "canceled")]
    BY <1>1, Zenon DEF Gone
  <1> QED BY <1>2, Zenon

\* A call that returns leaves the service.
LEMMA ReturnLeaves ==
  ASSUME TypeOK, NEW q \in Queries, Return(q)
  PROVE  Service!Leave(q)
  <1>1. Phases' = [Phases EXCEPT ![q] = "idle"]
    BY PhaseMoves DEF Return, Goto
  <1>2. Gone' = [Gone EXCEPT ![q] = FALSE]
    <2>1. ctx' = [ctx EXCEPT ![q] = "live"] /\ "live" # "canceled"
      BY DEF Return
    <2> QED BY <2>1, GoneMoves, Zenon
  <1> QED BY <1>1, <1>2 DEF Return, Service!Leave, Phases, Gone

\* The steps of a call that another call can tell: looking, loading, answering and
\* failing.  A load that fails after its caller went away is not one of them.
LEMMA SharedStep ==
  ASSUME FreshInv, LoadDue, NEW q \in Queries,
         \/ StatSees(q) \/ ReadHive(q) \/ ServeCached(q)
         \/ LoadSucceeds(q) \/ LoadFails(q)
  PROVE  \/ Service!Look(q) \/ Service!Load(q) \/ Service!AnswerAgain(q)
         \/ Service!AnswerForAll(q) \/ Service!FailForAll(q) \/ Service!Finish(q)
  <1>0. TypeOK /\ SlotOK /\ Labelled /\ PhaseOK(q)
    BY DEF FreshInv
  <1>a. Service!MayLoad <=> (Shared = 0 \/ age > TTL)
    BY DEF Service!MayLoad, Service!Nothing, Shared
  <1>b. MustLoad => Shared = 0 \/ age > TTL
    BY <1>0 DEF MustLoad, Held, Expired, TypeOK, Shared
  <1>1. CASE StatSees(q)
    <2>1. Phases' = Phases /\ Phases[q] = "asked" /\ Gone' = Gone
      <3>1. Phases' = [Phases EXCEPT ![q] = "asked"]
        <4>1. pc' = [pc EXCEPT ![q] = "decide"] /\ "decide" \notin {"idle", "parse", "rows"}
          BY <1>1 DEF StatSees, Goto
        <4> QED BY <1>0, <4>1, PhaseMoves, Zenon
      <3>2. Phases[q] = "asked" /\ Gone' = Gone
        BY <1>1, PhaseIs DEF StatSees, Phases, Gone
      <3> QED BY <3>1, <3>2 DEF Phases
    <2>2. floor[q] = 0 /\ floor' = [floor EXCEPT ![q] = stamp]
      BY <1>0, <1>1 DEF StatSees, PhaseOK
    <2>3. label' = stamp /\ Shared' = IF stamp = label THEN Shared ELSE 0
      BY <1>1 DEF StatSees, Drop, Shared
    <2>4. UNCHANGED <<content, stamp, data, age>>
      BY <1>1 DEF StatSees, hive
    <2> QED
      BY <2>1, <2>2, <2>3, <2>4
         DEF Service!Look, Service!Nothing, Phases, Gone, Shared
  <1>2. CASE ReadHive(q)
    <2>1. Phases' = [Phases EXCEPT ![q] = "loading"]
      BY <1>0, <1>2, PhaseMoves DEF ReadHive, Goto
    <2>2. Phases[q] = "asked" /\ Gone' = Gone
      BY <1>2, PhaseIs DEF ReadHive, Phases, Gone
    <2>3. Service!MayLoad
      BY <1>2, <1>a, <1>b DEF ReadHive, LoadDue
    <2>4. ASSUME NEW r \in Queries PROVE Phases[r] # "loading"
      <3>1. CASE r = q
        BY <2>2, <3>1
      <3>2. CASE r # q
        <4>1. pc[r] # "parse"
          BY <1>0, <1>2, <3>2 DEF ReadHive, SlotOK, Critical
        <4> QED BY <4>1, PhaseIs DEF Phases
      <3> QED BY <3>1, <3>2
    <2>5. /\ data' = [data EXCEPT ![q] = content]
          /\ Shared' = Shared
          /\ UNCHANGED <<content, stamp, floor, label, age>>
      BY <1>2 DEF ReadHive, hive, cache, Shared
    <2> QED
      BY <2>1, <2>2, <2>3, <2>4, <2>5
         DEF Service!Load, Service!outcome, Phases, Gone, Shared
  <1>3. CASE ServeCached(q)
    <2>1. Phases' = [Phases EXCEPT ![q] = "answered"]
      BY <1>0, <1>3, PhaseMoves DEF ServeCached, Goto
    <2>2. Phases[q] = "asked" /\ Gone' = Gone
      BY <1>3, PhaseIs DEF ServeCached, Phases, Gone
    <2>3. Shared = snap /\ Shared \in 1..content /\ age <= TTL /\ floor[q] <= Shared
      BY <1>0, <1>3, CacheAssumption
         DEF ServeCached, MustLoad, Held, Expired, PhaseOK, Labelled, TypeOK, Shared
    <2>4. /\ data' = [data EXCEPT ![q] = Shared]
          /\ Shared' = Shared
          /\ UNCHANGED <<content, stamp, floor, label, age>>
      BY <1>3, <2>3 DEF ServeCached, hive, cache, Shared
    <2> QED
      BY <2>1, <2>2, <2>3, <2>4
         DEF Service!AnswerAgain, Service!outcome, Phases, Gone, Shared
  <1>4. CASE LoadSucceeds(q)
    <2>1. Phases' = [Phases EXCEPT ![q] = "answered"]
      BY <1>0, <1>4, PhaseMoves DEF LoadSucceeds, Goto
    <2>2. Phases[q] = "loading" /\ Gone' = Gone
      BY <1>4, PhaseIs DEF LoadSucceeds, Phases, Gone
    <2>3. data[q] \in 1..content /\ floor[q] <= data[q]
      BY <1>0, <1>4 DEF LoadSucceeds, PhaseOK, Labelled, TypeOK
    <2>4. Shared' = data[q] /\ age' = 0
      BY <1>0, <1>4, <2>3 DEF LoadSucceeds, Keep, Shared, TypeOK
    <2>5. UNCHANGED <<content, stamp, floor, data, label>>
      BY <1>4 DEF LoadSucceeds, Keep, hive
    <2> QED
      BY <2>1, <2>2, <2>3, <2>4, <2>5
         DEF Service!AnswerForAll, Phases, Gone, Shared
  <1>5. CASE LoadFails(q)
    <2>1. Service!Leave(q) /\ UNCHANGED <<content, stamp>>
      BY <1>0, <1>5, ReturnLeaves DEF LoadFails, hive
    <2>2. Phases[q] \in {"asked", "loading"}
      BY <1>5, PhaseIs DEF LoadFails, Phases
    <2>3. CASE ctx[q] = "canceled"
      <3>1. UNCHANGED <<label, age>> /\ Shared' = Shared
        BY <1>5, <2>3 DEF LoadFails, cache, Shared
      <3> QED
        BY <2>1, <2>2, <3>1 DEF Service!Finish, Service!outcome, Phases, Shared
    <2>4. CASE ctx[q] # "canceled"
      <3>1. Shared' = -1 /\ age' = 0 /\ label' = label
        BY <1>5, <2>4 DEF LoadFails, Keep, Shared
      <3>2. Service!MayLoad
        BY <1>5, <1>a, <1>b DEF LoadFails, LoadDue
      <3>3. ~Gone[q]
        BY <2>4 DEF Gone
      <3> QED
        BY <2>1, <2>2, <3>1, <3>2, <3>3
           DEF Service!FailForAll, Service!Failure, Phases, Gone, Shared
    <2> QED BY <2>3, <2>4
  <1> QED BY <1>1, <1>2, <1>3, <1>4, <1>5

\* The steps of a call that only its own caller can tell.
LEMMA OwnStep ==
  ASSUME TypeOK, NEW q \in Queries,
         \/ Begin(q) \/ Cancel(q) \/ Abandon(q) \/ ServeFailure(q)
         \/ LoadPanics(q) \/ BuildRows(q)
  PROVE  Service!Ask(q) \/ Service!GoAway(q) \/ Service!Finish(q)
  <1>1. UNCHANGED <<content, stamp, label, age>> /\ Shared' = Shared
    BY DEF Begin, Cancel, Abandon, ServeFailure, LoadPanics, BuildRows, hive, cache,
           Shared
  <1>2. CASE Begin(q)
    <2>1. Phases' = [Phases EXCEPT ![q] = "asked"] /\ Phases[q] = "idle"
      <3>1. Phases' = [Phases EXCEPT ![q] = "asked"]
        <4>1. pc' = [pc EXCEPT ![q] = "queued"] /\ "queued" \notin {"idle", "parse", "rows"}
          BY <1>2 DEF Begin, Goto
        <4> QED BY <4>1, PhaseMoves, Zenon
      <3>2. Phases[q] = "idle"
        BY <1>2, PhaseIs DEF Begin, Phases
      <3> QED BY <3>1, <3>2
    <2>2. Gone' = Gone /\ UNCHANGED <<floor, data>>
      BY <1>2 DEF Begin, Gone
    <2> QED
      BY <1>1, <2>1, <2>2 DEF Service!Ask, Service!outcome, Phases, Gone, Shared
  <1>3. CASE Cancel(q)
    <2>1. Gone' = [Gone EXCEPT ![q] = TRUE] /\ ~Gone[q]
      BY <1>3, GoneMoves DEF Cancel, Gone
    <2>2. Phases' = Phases /\ UNCHANGED <<floor, data>>
      BY <1>3, Zenon DEF Cancel, Phases, Phase
    <2>3. Phases[q] # "idle"
      BY <1>3, PhaseIs DEF Cancel, Phases
    <2> QED
      BY <1>1, <2>1, <2>2, <2>3
         DEF Service!GoAway, Service!outcome, Phases, Gone, Shared
  <1>4. CASE Abandon(q) \/ ServeFailure(q) \/ LoadPanics(q) \/ BuildRows(q)
    <2>1. pc[q] # "idle" /\ Return(q)
      BY <1>4 DEF Abandon, ServeFailure, LoadPanics, BuildRows
    <2>2. Service!Leave(q)
      BY <2>1, ReturnLeaves
    <2>3. Phases[q] # "idle"
      BY <2>1, PhaseIs DEF Phases
    <2> QED
      BY <1>1, <2>2, <2>3 DEF Service!Finish, Service!outcome, Phases, Shared
  <1> QED BY <1>2, <1>3, <1>4

\* The steps that no call can tell: waiting for the slot, and deciding.
LEMMA HiddenStep ==
  ASSUME TypeOK,
         \/ \E q \in Queries :
              Deadline(q) \/ Acquire(q) \/ StatFails(q) \/ StartLoad(q)
         \/ \E e \in Expirers : Fire(e) \/ ExpireAcquire(e)
  PROVE  UNCHANGED Service!svars
  <1>1. /\ UNCHANGED <<content, stamp, floor, data, label, age>>
        /\ Shared' = Shared
    BY DEF Deadline, Acquire, StatFails, StartLoad, Fire, ExpireAcquire, hive, cache,
           calls, Shared
  <1>2. Gone' = Gone
    <2>1. ASSUME NEW q \in Queries, Deadline(q) PROVE Gone' = Gone
      <3>1. Gone' = [Gone EXCEPT ![q] = FALSE]
        <4>1. ctx' = [ctx EXCEPT ![q] = "timedout"] /\ "timedout" # "canceled"
          BY <2>1 DEF Deadline
        <4> QED BY <4>1, GoneMoves, Zenon
      <3>2. Gone[q] = FALSE
        BY <2>1, Zenon DEF Deadline, Gone
      <3> QED BY <3>1, <3>2 DEF Gone
    <2>2. CASE UNCHANGED ctx
      BY <2>2 DEF Gone
    <2> QED
      BY <2>1, <2>2 DEF Acquire, StatFails, StartLoad, Fire, ExpireAcquire, calls
  <1>3. Phases' = Phases
    <2>1. ASSUME NEW q \in Queries, Acquire(q) \/ StatFails(q) \/ StartLoad(q)
          PROVE  Phases' = Phases
      <3>1. Phases' = [Phases EXCEPT ![q] = "asked"]
        BY <2>1, PhaseMoves DEF Acquire, StatFails, StartLoad, Goto
      <3>2. Phases[q] = "asked"
        BY <2>1, PhaseIs DEF Acquire, StatFails, StartLoad, Phases
      <3> QED BY <3>1, <3>2 DEF Phases
    <2>2. CASE UNCHANGED pc
      BY <2>2, Zenon DEF Phases, Phase
    <2> QED BY <2>1, <2>2 DEF Deadline, Fire, ExpireAcquire, calls
  <1> QED
    BY <1>1, <1>2, <1>3 DEF Service!svars, Service!outcome, Phases, Gone, Shared

\* The steps of the hive's owner and the clock, and the expiry that drops.
LEMMA OuterStep ==
  ASSUME TypeOK,
         RewriteHive \/ AppendLog \/ Tick \/ \E e \in Expirers : Expire(e)
  PROVE  \/ Service!WritePrimary \/ Service!WriteLog \/ Service!Tick \/ Service!Drop
         \/ UNCHANGED Service!svars
  <1>1. UNCHANGED <<pc, ctx, floor, data, label>>
    BY DEF RewriteHive, AppendLog, Tick, Expire, cache, calls
  <1>2. Phases' = Phases /\ Gone' = Gone
    BY <1>1, Zenon DEF Phases, Gone, Phase
  <1> USE <1>1, <1>2 DEF Phases, Gone, Shared
  <1>3. CASE RewriteHive
    <2>1. Shared' = Shared /\ age' = age
      BY <1>3 DEF RewriteHive, cache
    <2> QED BY <1>3, <2>1 DEF RewriteHive, Service!WritePrimary, Service!outcome
  <1>4. CASE AppendLog
    <2>1. Shared' = Shared /\ age' = age
      BY <1>4 DEF AppendLog, cache
    <2> QED BY <1>4, <2>1 DEF AppendLog, Service!WriteLog, Service!outcome
  <1>5. CASE Tick
    BY <1>5 DEF Tick, Expired, hive, Service!Tick
  <1>6. ASSUME NEW e \in Expirers, Expire(e)
        PROVE  Service!Drop \/ UNCHANGED Service!svars
    <2>1. UNCHANGED <<content, stamp, age>>
      BY <1>6 DEF Expire, hive
    <2>2. CASE age < TTL
      BY <1>6, <2>1, <2>2 DEF Expire, Service!svars, Service!outcome
    <2>3. CASE ~(age < TTL)
      <3>1. age >= TTL /\ Shared' = 0
        BY <1>6, <2>3, CacheAssumption DEF Expire, Drop, TypeOK
      <3> QED BY <2>1, <3>1 DEF Service!Drop, Service!Nothing
    <2> QED BY <2>2, <2>3
  <1> QED BY <1>3, <1>4, <1>5, <1>6

\* The tables share one outcome of a load for at most the TTL, read whole at a moment
\* of it by the only call that loads, and changed by no call that is abandoned, panics
\* or fails after its caller left: for any number of calls and goroutines, any TTL and
\* any deadline.
THEOREM CacheImplementsService == Spec => ImplementsService
  <1>1. Init => Service!SInit /\ LoadDue
    <2> SUFFICES ASSUME Init PROVE Service!SInit /\ LoadDue
      OBVIOUS
    <2>1. Phases = [q \in Queries |-> "idle"] /\ Gone = [q \in Queries |-> FALSE]
      <3>1. \A q \in Queries : pc[q] = "idle" /\ ctx[q] = "live"
        BY DEF Init
      <3> QED BY <3>1, PhaseIs DEF Phases, Gone
    <2>2. Service!SInit
      BY <2>1 DEF Init, Service!SInit, Service!Nothing, Phases, Gone
    <2>3. LoadDue
      BY DEF Init, LoadDue
    <2> QED BY <2>2, <2>3
  <1>2. FreshInv /\ LoadDue /\ [Next]_vars
          => LoadDue' /\ [Service!SNext]_(Service!svars)
    <2> SUFFICES ASSUME FreshInv, LoadDue, [Next]_vars
                 PROVE  LoadDue' /\ (Service!SNext \/ UNCHANGED Service!svars)
      OBVIOUS
    <2>0. TypeOK
      BY DEF FreshInv
    <2>1. CASE UNCHANGED vars
      <3>1. UNCHANGED <<hive, cache, calls>>
        BY <2>1 DEF vars
      <3>2. LoadDue'
        BY <3>1 DEF cache, calls, LoadDue, MustLoad, Held, Expired
      <3>3. Phases' = Phases
        BY <3>1, Zenon DEF calls, Phases, Phase
      <3>4. UNCHANGED Service!svars
        BY <3>1, <3>3
           DEF hive, cache, calls, Phases, Service!svars, Service!outcome
      <3> QED BY <3>2, <3>4
    <2>2. CASE Next
      <3>1. LoadDue'
        BY <2>2, LoadDueStep
      <3>2. ASSUME NEW q \in Queries, CallStep(q)
            PROVE  Service!SNext \/ UNCHANGED Service!svars
        BY <2>0, <3>2, SharedStep, OwnStep, HiddenStep
           DEF CallStep, HolderStep, Service!SNext
      <3>3. ASSUME NEW e \in Expirers, ExpireStep(e)
            PROVE  Service!SNext \/ UNCHANGED Service!svars
        BY <2>0, <3>3, HiddenStep, OuterStep DEF ExpireStep, Service!SNext
      <3>4. CASE RewriteHive \/ AppendLog \/ Tick
        BY <2>0, <3>1, <3>4, OuterStep DEF Service!SNext
      <3> QED BY <2>2, <3>1, <3>2, <3>3, <3>4 DEF Next
    <2> QED BY <2>1, <2>2
  <1> QED
    BY <1>1, <1>2, FreshInvHolds, PTL DEF Spec, ImplementsService, Service!SSpec

-----------------------------------------------------------------------------
(***************************************************************************)
(* The history of the loads: inside the TTL of a load that was remembered, *)
(* an unchanged hive is not loaded again.                                  *)
(***************************************************************************)

\* The inductive invariant: until the TTL is over, what a remembered load left
\* is held, unless the label moved past the one it was made under; and labels
\* only grow, so that they do not come back to it.
WindowInv ==
  /\ keptLabel \in 0..label
  /\ age < TTL /\ label = keptLabel => Held

\* The history only reads the cache.
LEMMA HistoryIsCache == HSpec => Spec
  <1>1. HInit => Init
    BY DEF HInit
  <1>2. [HNext]_<<vars, history>> => [Next]_vars
    <2> SUFFICES ASSUME HNext PROVE Next
      BY DEF vars
    <2> QED
      BY DEF HNext, Remember, Forget, Next, CallStep, HolderStep
  <1> QED BY <1>1, <1>2, PTL DEF HSpec, Spec

\* Every step keeps it: the label a load is remembered under is the current
\* one, a step of c.stat that drops what is held moves the label forward, and an
\* expiry drops it only when the TTL is over.
LEMMA WindowStep ==
  ASSUME FreshInv, WindowInv, HNext
  PROVE  WindowInv'
  <1> USE CacheAssumption
      DEF FreshInv, TypeOK, Labelled, WindowInv, Held, hive, cache, calls
  <1>1. CASE UNCHANGED <<cache, keptLabel>>
    BY <1>1
  <1>2. ASSUME NEW q \in Queries, Forget(q), keptLabel' = keptLabel
        PROVE  WindowInv'
    BY <1>1, <1>2 DEF Forget, LoadFails, LoadPanics
  <1>3. ASSUME NEW q \in Queries, Remember(q), keptLabel' = label
        PROVE  WindowInv'
    <2>1. CASE LoadSucceeds(q)
      <3>1. data[q] # 0
        BY <2>1 DEF LoadSucceeds, PhaseOK
      <3> QED BY <1>3, <2>1, <3>1 DEF LoadSucceeds, Keep
    <2>2. CASE LoadFails(q) /\ ctx[q] # "canceled"
      BY <1>3, <2>2 DEF LoadFails, Keep
    <2> QED BY <1>3, <2>1, <2>2 DEF Remember
  <1>4. CASE Tick /\ keptLabel' = keptLabel
    BY <1>4 DEF Tick, Expired
  <1>5. ASSUME NEW q \in Queries, UNCHANGED keptLabel,
               \/ Begin(q) \/ Cancel(q) \/ Deadline(q) \/ Acquire(q) \/ Abandon(q)
               \/ StatFails(q) \/ StatSees(q) \/ ServeCached(q) \/ ServeFailure(q)
               \/ StartLoad(q) \/ ReadHive(q) \/ BuildRows(q)
        PROVE  WindowInv'
    <2>1. CASE StatSees(q)
      BY <1>5, <2>1 DEF StatSees, Drop
    <2>2. CASE UNCHANGED cache
      BY <1>1, <1>5, <2>2
    <2> QED
      BY <1>5, <2>1, <2>2
         DEF Begin, Cancel, Deadline, Acquire, Abandon, StatFails, ServeCached,
             ServeFailure, StartLoad, ReadHive, BuildRows
  <1>6. ASSUME NEW e \in Expirers, ExpireStep(e), UNCHANGED keptLabel
        PROVE  WindowInv'
    BY <1>6 DEF ExpireStep, Fire, ExpireAcquire, Expire, Drop
  <1>7. CASE (RewriteHive \/ AppendLog) /\ UNCHANGED keptLabel
    BY <1>1, <1>7 DEF RewriteHive, AppendLog
  <1> QED
    BY <1>2, <1>3, <1>4, <1>5, <1>6, <1>7 DEF HNext, history

\* One read and one parse serve every table inside the TTL, and a broken host is
\* not read again inside it, for any number of calls and any TTL and timeout.
THEOREM LoadsAreShared == HSpec => SharedWithinWindow
  <1>1. HInit => WindowInv
    BY CacheAssumption DEF HInit, Init, WindowInv
  <1>2. FreshInv /\ WindowInv /\ [HNext]_<<vars, history>> => WindowInv'
    <2> SUFFICES ASSUME FreshInv, WindowInv, [HNext]_<<vars, history>>
                 PROVE  WindowInv'
      OBVIOUS
    <2>1. CASE UNCHANGED <<vars, history>>
      BY <2>1 DEF vars, cache, history, WindowInv, Held
    <2> QED BY <2>1, WindowStep
  <1>3. FreshInv /\ WindowInv
          => \A q \in Queries : StartLoad(q) /\ age < TTL => label # keptLabel
    BY CacheAssumption DEF FreshInv, TypeOK, WindowInv, StartLoad, MustLoad, Expired
  <1>4. FreshInv /\ WindowInv /\ [HNext]_<<vars, history>>
          => [\A q \in Queries : StartLoad(q) /\ age < TTL
                => label # keptLabel]_<<vars, history>>
    BY <1>3
  <1> QED
    BY <1>1, <1>2, <1>4, HistoryIsCache, FreshInvHolds, PTL
       DEF HSpec, SharedWithinWindow

=============================================================================
