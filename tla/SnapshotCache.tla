--------------------------- MODULE SnapshotCache ---------------------------
(***************************************************************************)
(* The snapshot cache of tables/tables.go: one parsed hive shared by the   *)
(* Generate calls of seven tables.  A call takes the one-slot channel sem  *)
(* (or gives up when its context ends), compares the hive's (mtime, size)  *)
(* with the pair the cache is labelled with, loads the hive when nothing   *)
(* usable is held, releases the slot and builds its rows.  A timer drops   *)
(* an idle snapshot from a goroutine of its own.                           *)
(*                                                                         *)
(* The hive is a generation number: every write by its owner starts a new  *)
(* generation.  A write to the primary file also moves its (mtime, size)   *)
(* stamp; a write to the transaction logs does not, although a read of the *)
(* hive replays the logs and so sees it.  0 stands for nil: no snapshot,   *)
(* and the zero time a new cache is labelled with.                         *)
(*                                                                         *)
(* Time is relative, so that no clock has to be bounded: age is the time   *)
(* since c.at and saturates just past the TTL, timer is the time left      *)
(* before the AfterFunc fires, left[q] the time left before q's deadline.  *)
(***************************************************************************)
EXTENDS Integers

CONSTANTS
  Queries,       \* Generate calls that can be in flight at once
  Expirers,      \* expire goroutines that can be pending at once (a bound)
  TTL,           \* cacheTTL
  Timeout,       \* generateTimeout
  MaxGeneration  \* bound on the writes to the hive

ASSUME CacheAssumption ==
  /\ TTL \in Nat \ {0}
  /\ Timeout \in Nat \ {0}
  /\ MaxGeneration \in Nat \ {0}
  /\ Queries \cap Expirers = {}

VARIABLES
  content,  \* generation a read of the hive and its logs returns
  stamp,    \* generation whose write gave the primary its (mtime, size)
  sem,      \* number of tokens in the channel c.sem
  snap,     \* generation of c.snap
  err,      \* c.err: "none", "hive" or "slow" (kept because of errParseTooSlow)
  age,      \* time.Since(c.at)
  label,    \* generation whose (mtime, size) is in c.mtime, c.size
  timer,    \* c.timer
  pc,       \* where each Generate call is
  ctx,      \* context.Cause of each call's context
  left,     \* time before each call's own deadline
  floor,    \* stamp a call's c.stat returned, 0 when it failed
  data,     \* generation a call read, or was handed
  xpc       \* where each expire goroutine is

hive    == <<content, stamp>>
cache   == <<snap, err, age, label, timer>>
calls   == <<pc, ctx, left, floor, data>>
vars    == <<hive, sem, cache, calls, xpc>>

Off == -1  \* the timer is nil or has fired

Critical == {"stat", "decide", "read", "parse"}  \* phases that hold the slot

TypeOK ==
  /\ content \in 1..MaxGeneration
  /\ stamp \in 1..MaxGeneration
  /\ sem \in {0, 1}
  /\ snap \in 0..MaxGeneration
  /\ err \in {"none", "hive", "slow"}
  /\ age \in 0..(TTL + 1)
  /\ label \in 0..MaxGeneration
  /\ timer \in {Off} \cup 0..TTL
  /\ pc \in [Queries -> {"idle", "queued", "rows"} \cup Critical]
  /\ ctx \in [Queries -> {"live", "canceled", "timedout"}]
  /\ left \in [Queries -> 0..Timeout]
  /\ floor \in [Queries -> 0..MaxGeneration]
  /\ data \in [Queries -> 0..MaxGeneration]
  /\ xpc \in [Expirers -> {"idle", "queued", "holding"}]

Init ==
  /\ content = 1
  /\ stamp = 1
  /\ sem = 0
  /\ snap = 0
  /\ err = "none"
  /\ age = TTL + 1
  /\ label = 0
  /\ timer = Off
  /\ pc = [q \in Queries |-> "idle"]
  /\ ctx = [q \in Queries |-> "live"]
  /\ left = [q \in Queries |-> 0]
  /\ floor = [q \in Queries |-> 0]
  /\ data = [q \in Queries |-> 0]
  /\ xpc = [e \in Expirers |-> "idle"]

-----------------------------------------------------------------------------
(* What is cached.                                                         *)

Held == snap # 0 \/ err # "none"

Expired == age > TTL

\* The condition under which get calls load.
MustLoad == ~Held \/ Expired

\* c.drop: at, mtime and size stay as they are.
Drop == snap' = 0 /\ err' = "none"

\* Mutant of Keep: a timer that is running is not reset.
KeepWithoutReset(generation, failure) ==
  /\ snap' = generation
  /\ err' = failure
  /\ age' = 0
  /\ timer' = IF timer = Off THEN TTL ELSE timer
  /\ UNCHANGED label

\* The tail of load: what the parse produced replaces what was held, a failure
\* as much as a snapshot, and the timer is started or started again.
Keep(generation, failure) ==
  /\ snap' = generation
  /\ err' = failure
  /\ age' = 0
  /\ timer' = TTL
  /\ UNCHANGED label

Goto(q, phase) == pc' = [pc EXCEPT ![q] = phase]

\* The call returns to osquery; its context and its locals are gone.
Return(q) ==
  /\ Goto(q, "idle")
  /\ ctx' = [ctx EXCEPT ![q] = "live"]
  /\ left' = [left EXCEPT ![q] = 0]
  /\ floor' = [floor EXCEPT ![q] = 0]
  /\ data' = [data EXCEPT ![q] = 0]

-----------------------------------------------------------------------------
(* A Generate call, from entry to its return.                              *)

\* osquery calls a table; the deadline covers the wait for the slot too.
Begin(q) ==
  /\ pc[q] = "idle"
  /\ Goto(q, "queued")
  /\ left' = [left EXCEPT ![q] = Timeout]
  /\ UNCHANGED <<hive, sem, cache, ctx, floor, data, xpc>>

\* The caller's own context ends.
Cancel(q) ==
  /\ pc[q] # "idle"
  /\ ctx[q] = "live"
  /\ ctx' = [ctx EXCEPT ![q] = "canceled"]
  /\ UNCHANGED <<hive, sem, cache, pc, left, floor, data, xpc>>

\* generateTimeout fires; the first of the two ends is the context's cause.
Deadline(q) ==
  /\ pc[q] # "idle"
  /\ ctx[q] = "live"
  /\ left[q] = 0
  /\ ctx' = [ctx EXCEPT ![q] = "timedout"]
  /\ UNCHANGED <<hive, sem, cache, pc, left, floor, data, xpc>>

\* Mutant of Acquire: the channel has room for two tokens.
AcquireOneOfTwo(q) ==
  /\ pc[q] = "queued"
  /\ sem < 2
  /\ sem' = sem + 1
  /\ Goto(q, "stat")
  /\ UNCHANGED <<hive, cache, ctx, left, floor, data, xpc>>

\* The two arms of the select in get.  When both are ready either may be taken.
Acquire(q) ==
  /\ pc[q] = "queued"
  /\ sem = 0
  /\ sem' = 1
  /\ Goto(q, "stat")
  /\ UNCHANGED <<hive, cache, ctx, left, floor, data, xpc>>

\* Mutant of Abandon: a mutex, whose wait ends when the mutex is free.
AbandonAfterLock(q) ==
  /\ pc[q] = "queued"
  /\ ctx[q] # "live"
  /\ sem = 0
  /\ Return(q)
  /\ UNCHANGED <<hive, sem, cache, xpc>>

Abandon(q) ==
  /\ pc[q] = "queued"
  /\ ctx[q] # "live"
  /\ Return(q)
  /\ UNCHANGED <<hive, sem, cache, xpc>>

\* c.stat fails: the snapshot is refreshed on the timer alone.
StatFails(q) ==
  /\ pc[q] = "stat"
  /\ Goto(q, "decide")
  /\ UNCHANGED <<hive, sem, cache, ctx, left, floor, data, xpc>>

\* c.stat succeeds: another (mtime, size) drops what is held and relabels.
StatSees(q) ==
  /\ pc[q] = "stat"
  /\ Goto(q, "decide")
  /\ floor' = [floor EXCEPT ![q] = stamp]
  /\ IF stamp # label THEN Drop ELSE UNCHANGED <<snap, err>>
  /\ label' = stamp
  /\ UNCHANGED <<hive, sem, age, timer, ctx, left, data, xpc>>

StartLoad(q) ==
  /\ pc[q] = "decide"
  /\ MustLoad
  /\ Goto(q, "read")
  /\ UNCHANGED <<hive, sem, cache, ctx, left, floor, data, xpc>>

ServeCached(q) ==
  /\ pc[q] = "decide"
  /\ ~MustLoad
  /\ err = "none"
  /\ sem' = 0
  /\ Goto(q, "rows")
  /\ data' = [data EXCEPT ![q] = snap]
  /\ UNCHANGED <<hive, cache, ctx, left, floor, xpc>>

ServeFailure(q) ==
  /\ pc[q] = "decide"
  /\ ~MustLoad
  /\ err # "none"
  /\ sem' = 0
  /\ Return(q)
  /\ UNCHANGED <<hive, cache, xpc>>

\* c.read returns the bytes the hive held; inventory.Parse is still to run.
ReadHive(q) ==
  /\ pc[q] = "read"
  /\ Goto(q, "parse")
  /\ data' = [data EXCEPT ![q] = content]
  /\ UNCHANGED <<hive, sem, cache, ctx, left, floor, xpc>>

\* Mutant of LoadSucceeds: the snapshot is labelled with the hive's (mtime,
\* size) after the parse and not before the read.
LoadThenStat(q) ==
  /\ pc[q] = "parse"
  /\ snap' = data[q] /\ err' = "none" /\ age' = 0 /\ timer' = TTL
  /\ label' = stamp
  /\ sem' = 0
  /\ Goto(q, "rows")
  /\ UNCHANGED <<hive, ctx, left, floor, data, xpc>>

\* Parse returns a snapshot, possibly past the deadline: ctx is checked between
\* keys and records, not after the last of them.
LoadSucceeds(q) ==
  /\ pc[q] = "parse"
  /\ Keep(data[q], "none")
  /\ sem' = 0
  /\ Goto(q, "rows")
  /\ UNCHANGED <<hive, ctx, left, floor, data, xpc>>

\* Mutant of LoadFails: the failure is remembered for a caller that went away too.
LoadFailsForAll(q) ==
  /\ pc[q] \in {"read", "parse"}
  /\ Keep(0, IF ctx[q] = "timedout" THEN "slow" ELSE "hive")
  /\ sem' = 0
  /\ Return(q)
  /\ UNCHANGED <<hive, xpc>>

\* c.read or Parse returns an error: forgotten when the caller went away,
\* remembered otherwise, the package's own deadline included.
LoadFails(q) ==
  /\ pc[q] \in {"read", "parse"}
  /\ IF ctx[q] = "canceled"
       THEN UNCHANGED cache
       ELSE Keep(0, IF ctx[q] = "timedout" THEN "slow" ELSE "hive")
  /\ sem' = 0
  /\ Return(q)
  /\ UNCHANGED <<hive, xpc>>

\* Mutant of LoadPanics: the slot is given back by a plain statement.
LoadPanicsHoldingSlot(q) ==
  /\ pc[q] \in {"read", "parse"}
  /\ Return(q)
  /\ UNCHANGED <<hive, sem, cache, xpc>>

\* c.read or Parse panics: the deferred receive frees the slot, Generate's
\* recover turns the panic into an error, and load assigns nothing.
LoadPanics(q) ==
  /\ pc[q] \in {"read", "parse"}
  /\ sem' = 0
  /\ Return(q)
  /\ UNCHANGED <<hive, cache, xpc>>

\* rowsFor returns the rows, or the context's error.
BuildRows(q) ==
  /\ pc[q] = "rows"
  /\ Return(q)
  /\ UNCHANGED <<hive, sem, cache, xpc>>

-----------------------------------------------------------------------------
(* expire, run by the timer in a goroutine of its own.                     *)

Fire(e) ==
  /\ timer = 0
  /\ xpc[e] = "idle"
  /\ timer' = Off
  /\ xpc' = [xpc EXCEPT ![e] = "queued"]
  /\ UNCHANGED <<hive, sem, snap, err, age, label, calls>>

ExpireAcquire(e) ==
  /\ xpc[e] = "queued"
  /\ sem = 0
  /\ sem' = 1
  /\ xpc' = [xpc EXCEPT ![e] = "holding"]
  /\ UNCHANGED <<hive, cache, calls>>

\* Mutant of Expire: the comparison admits equality.
ExpireAtMostTTL(e) ==
  /\ xpc[e] = "holding"
  /\ IF age <= TTL THEN UNCHANGED <<snap, err>> ELSE Drop
  /\ sem' = 0
  /\ xpc' = [xpc EXCEPT ![e] = "idle"]
  /\ UNCHANGED <<hive, age, label, timer, calls>>

\* Mutant of Expire: whatever is held is dropped.
ExpireUnconditionally(e) ==
  /\ xpc[e] = "holding"
  /\ Drop
  /\ sem' = 0
  /\ xpc' = [xpc EXCEPT ![e] = "idle"]
  /\ UNCHANGED <<hive, age, label, timer, calls>>

\* A reload between the firing and the acquisition has re-armed the timer.
Expire(e) ==
  /\ xpc[e] = "holding"
  /\ IF age < TTL THEN UNCHANGED <<snap, err>> ELSE Drop
  /\ sem' = 0
  /\ xpc' = [xpc EXCEPT ![e] = "idle"]
  /\ UNCHANGED <<hive, age, label, timer, calls>>

-----------------------------------------------------------------------------
(* The hive's owner and the clock.                                         *)

RewriteHive ==
  /\ content < MaxGeneration
  /\ content' = content + 1
  /\ stamp' = content + 1
  /\ UNCHANGED <<sem, cache, calls, xpc>>

AppendLog ==
  /\ content < MaxGeneration
  /\ content' = content + 1
  /\ UNCHANGED <<stamp, sem, cache, calls, xpc>>

Tick ==
  /\ age' = IF Expired THEN age ELSE age + 1
  /\ timer' = IF timer > 0 THEN timer - 1 ELSE timer
  /\ left' = [q \in Queries |-> IF left[q] > 0 THEN left[q] - 1 ELSE 0]
  /\ UNCHANGED <<hive, sem, snap, err, label, pc, ctx, floor, data, xpc>>

-----------------------------------------------------------------------------

\* The steps a call takes while it holds the slot, and the row build after it.
HolderStep(q) ==
  \/ StatFails(q) \/ StatSees(q)
  \/ StartLoad(q) \/ ServeCached(q) \/ ServeFailure(q)
  \/ ReadHive(q) \/ LoadSucceeds(q) \/ LoadFails(q) \/ LoadPanics(q)
  \/ BuildRows(q)

CallStep(q) ==
  Begin(q) \/ Cancel(q) \/ Deadline(q) \/ Acquire(q) \/ Abandon(q) \/ HolderStep(q)

ExpireStep(e) == Fire(e) \/ ExpireAcquire(e) \/ Expire(e)

Next ==
  \/ \E q \in Queries : CallStep(q)
  \/ \E e \in Expirers : ExpireStep(e)
  \/ RewriteHive
  \/ AppendLog
  \/ Tick

Spec == Init /\ [][Next]_vars

-----------------------------------------------------------------------------
(* Safety.                                                                 *)

\* The calls and expire goroutines that are between taking and giving back the
\* slot.
Holders ==
  {q \in Queries : pc[q] \in Critical} \cup {e \in Expirers : xpc[e] = "holding"}

\* The slot is held by one goroutine at most, and is free whenever none holds
\* it: every way out of get and expire, a panic included, gives it back once.
Exclusive ==
  /\ sem = 0 <=> Holders = {}
  /\ \A p, r \in Holders : p = r

\* A call whose c.stat saw the hive's (mtime, size) is never handed a snapshot
\* older than the write that gave the hive that pair, whatever was written,
\* loaded, failed or expired in between: the label is never ahead of the bytes.
StatFresh ==
  \A q \in Queries :
    pc[q] = "rows" => data[q] \in 1..content /\ floor[q] <= data[q]

\* What is held is never left without something that will drop it: a running
\* timer, or an expire goroutine that has not run yet.  This is what ends the
\* stay of a parsed hive in the process between investigations.
HeldIsTimed ==
  Held => timer # Off \/ \E e \in Expirers : xpc[e] # "idle"

-----------------------------------------------------------------------------
(* Liveness.                                                               *)

\* The clock runs, deadlines fire, and a goroutine whose select can take
\* ctx.Done is scheduled.  Nothing is assumed of the call that holds the slot:
\* its read of the volume may hang.
QueueSpec ==
  /\ Spec
  /\ WF_vars(Tick)
  /\ \A q \in Queries : WF_vars(Deadline(q)) /\ WF_vars(Abandon(q))

\* A queued call does not outlive its deadline, even behind a load that never
\* returns: it leaves the queue, with the slot or without it.
QueuedCallLeaves == \A q \in Queries : pc[q] = "queued" ~> pc[q] # "queued"

\* Every holder finishes, the timer fires, and a goroutine blocked on the channel
\* gets its turn (the runtime queues blocked senders in order).
HoldersFinish ==
  /\ \A q \in Queries : WF_vars(HolderStep(q))
  /\ WF_vars(\E e \in Expirers : Fire(e))
  /\ \A e \in Expirers : SF_vars(ExpireAcquire(e)) /\ WF_vars(Expire(e))

\* Where no read hangs: once calls stop coming, nothing stays cached.
IdleSnapshotDropped ==
  HoldersFinish => (<>[](\A q \in Queries : pc[q] = "idle") => <>[]~Held)

-----------------------------------------------------------------------------
(* The cache implements TableService: a call that has not read the hive is *)
(* asked, one whose bytes are being parsed loads, one that builds rows is  *)
(* answered.                                                               *)

Phase(q) ==
  CASE pc[q] = "idle"  -> "idle"
    [] pc[q] = "parse" -> "loading"
    [] pc[q] = "rows"  -> "answered"
    [] OTHER           -> "asked"

Service == INSTANCE TableService WITH
  phase  <- [q \in Queries |-> Phase(q)],
  gone   <- [q \in Queries |-> ctx[q] = "canceled"],
  low    <- floor,
  answer <- data,
  shared <- IF snap # 0 THEN snap ELSE IF err # "none" THEN -1 ELSE 0,
  seen   <- label

\* The tables share one outcome of a load for at most the TTL, and give it up when a
\* call sees that the primary file moved: an append to the logs, which no stat shows,
\* is missed until then and no longer.  An answer was read whole during its load, is
\* no older than what any call it serves saw, and never older than an earlier answer.
\* A call that is abandoned, panics, or fails after its caller went away changes
\* nothing that another call can tell.
ImplementsService == Service!SSpec

=============================================================================
