# amcache in TLA+

A verification project for `amcache`, the osquery extension that serves the
Windows Amcache hive as seven tables. The modules model the code under
`internal/` and `tables/`; TLC checks them on small instances and TLAPS proves
the results that matter most for every value of their constants. Line numbers
below refer to the Go files.

## 1. The system and its parts

| Part | Code | State it keeps | Modelled by |
|---|---|---|---|
| Snapshot cache | `tables/tables.go` 60-207, 336-366 | one parsed hive or one error, its time, the `(mtime, size)` label, a timer, a one-slot channel | `SnapshotCache`, `SnapshotCacheHistory`, abstractly `TableService` |
| Hive acquisition | `internal/hive/hive_windows.go` 29-182, 211-302 | none between calls; the route of one call and the bytes it read | `HiveRead`, `HiveRecovery` |
| Log replay | `internal/hive/replay.go` | none between calls; a copy of the hive, the chain of applied entries | `HiveReplay` |
| Inventory parser | `internal/inventory/inventory.go` 245-386 | none between calls (one `sync.Once` per warning) | `InventoryParse` |
| Index guard | `inventory.go` 172-236 | a stack, a visited set, a count | `IndexWalk` |
| Pushdown and rows | `tables/tables.go` 207-332, 356-366, `tables/decode.go` 267-324 | an equality index per snapshot and column | `Pushdown`, `TableRows` |
| Value and cell decoding | `inventory.go` 353-559, `tables/decode.go` 56-265, the kinds of `tables/columns.go` | none: functions of one value, one cell and the clock | `Cells` |
| `hive.Stat`, `ReadFiles` | `hive_windows.go` 81-105, 196-209 | none | `Stat` as the stamp of `SnapshotCache`; `ReadFiles` as the second kind of call of `HiveRead` |
| Non-Windows stubs, `main`, schema, build | `hive_other.go`, `cmd/`, `schema/`, `Makefile` | none | not modelled: they return a constant error, start the server, or document |

How they interact. osquery calls one of seven tables from threads of its own;
`generator` gives the call a deadline and asks the cache for a snapshot.
The cache lets one call at a time through, asks `hive.Stat` whether the file
moved, and when it must load calls `hive.Read` and `inventory.Parse` while it
holds the slot. `hive.Read` takes the hive and, when it is dirty, its logs, and
gives both to `Replay`. `Parse` gives every key's index to `indexSlots` before the
library builds its subkeys. `index` is built once per snapshot; afterwards, with
the slot released, `selected` and `rowsFor` build the rows of each call from a
snapshot that is never written again. A timer calls `expire` from a goroutine of
its own. Outside the process the Compatibility Appraiser opens, locks and
rewrites the hive at any time, and the kernel writes the logs.

What is hard about it, and what makes each part correct:

- **Cache.** Interleavings of seven tables, a timer and a writer; a stat before a
  read; a deadline that covers the queue; three ways a load can end (remembered,
  forgotten, panic). Correct: one holder of the slot; no snapshot older than the
  stat; whatever is held will be dropped; one load serves a window; a caller
  never outlives its deadline in the queue.
- **Acquisition.** The locks change between any two steps. Correct: what is
  returned without an error is clean; the privileged volume handle is opened only
  for a hive that was refused; hive and logs come by one route; a clean hive costs
  no log; what is returned is one generation of the hive, as far as the code can
  make it so; a file that grows past the cap is refused and not cut.
- **Replay.** Two logs that overlap, repeat, stop in the middle, or are older than
  the hive. Correct: each page holds the newest applied image; the number
  stamped on the result is the newest; nothing the hive is past is applied;
  entries are applied whole; it ends.
- **Parser.** Damage anywhere, and a context that ends anywhere. Correct: the whole
  hive or nothing; damage costs one record or one key; rows in a stable order.
- **Index guard.** Cyclic, deep, wide and exponentially shared indexes. Correct:
  what is accepted makes the library's recursion end within the cap and build
  no more than was counted; a sound hive is never refused.
- **Pushdown.** Constraints of any shape in any order. Correct: a superset of what
  SQLite keeps, and narrow where an index answers, although the code works with
  nil and empty slices, duplicates and positions.
- **Decoding.** Damaged values, dates in four forms, a decoder that looks at the clock.
  Correct: damage costs no row; a cell says what its source says; what a row shows
  is what the index knows.

`PROJECT.json` lists every hazard at its line with the properties that cover it.

## 2. The modules

Every module of a component has the same shape: constants with named
assumptions, one action per operation or step of the code, the type invariant,
the properties. Next to some actions stands a *mutant*, the same action with a
plausible bug in it, which the property it is paired with must notice. `MC*`
modules give the constants of one component values for TLC; `*Proofs` modules
hold its theorems, and `Induction` the lemmas on numbers they share. The map in `PROJECT.json` names the lines of each definition.

### SnapshotCache, SnapshotCacheHistory, TableService

The hive is a generation number. `RewriteHive` starts a generation and moves the
file's `(mtime, size)` stamp, `AppendLog` starts one and does not, because a read
replays the logs but `Stat` looks at the primary alone. `snap`, `err`, `age`,
`label` and `timer` are the fields of `cache`; `age` and `timer` are times since
and times left, so no clock has to be bounded. `pc[q]` follows one `Generate` call
through `get`, `load` and `rowsFor`; `ctx[q]` is the cause its context ended for;
`xpc[e]` follows one `expire` goroutine.

| Code | Action |
|---|---|
| entry of `Generate`, its deadline, its caller | `Begin`, `Deadline`, `Cancel` |
| the `select` of `get` | `Acquire`, `Abandon` |
| `c.stat` | `StatSees`, `StatFails` |
| `if c.snap == nil ...` and its two outcomes | `StartLoad`, `ServeCached`, `ServeFailure` |
| `c.read`, `inventory.Parse`, tail of `load` | `ReadHive`, `LoadSucceeds`, `LoadFails`, `LoadPanics` |
| `rowsFor` | `BuildRows` |
| `time.AfterFunc`, `expire` | `Fire`, `ExpireAcquire`, `Expire` |

`load` is two steps so that the hive can be written between the read and the
end of the parse. A load can succeed after its deadline (the context is not
looked at after the last record), and the code keeps the result.

`TableService` is what the tables promise, with no slot, timer, goroutine or panic. One
load runs at a time, only when nothing is shared or what is shared is older than the TTL,
and it takes the hive as it is at one moment (`Load`). The tables share one outcome of a
load, an answer or a failure, for the TTL at most (`AnswerForAll`, `AnswerAgain`, `Drop`),
and give it up when a call sees that the primary moved (`Look`). Whoever is answered has
seen nothing newer. Old rows are possible, but only while the outcome is shared: a log
append is missed until then. Loads do not overlap, so answers do not go back in time. A
failure is shared only while the caller whose load failed is there (`FailForAll`); every
other way a call ends changes nothing for the others (`Finish`). The service is not
`StatFresh` again: it would also be violated by a cancelled load that leaves its failure
behind, an expiry before the TTL, or a second load beside the first.

The refinement, `ImplementsService`, needs no history: a call that has not read the hive
is *asked*, one whose bytes are being parsed *loads*, one that builds rows is *answered*
(`Phase`). `SnapshotCacheHistory` adds two history variables, the label under which
the last remembered load was made and how long the current load has run, for the
properties about windows and durations.

### HiveRead

One call of `Read` or `ReadFiles` after another; the two are the same call until the
hive is acquired. `locked` is the appraiser, which toggles at any moment. The bytes
are `clean`, `dirty` or `bad`; `raw` is `source.raw`; `touched` and `volume` record
which files the call tried to read and which of them through the volume. A read is
two steps, the open that the lock can refuse and the end of the bytes. Replay is
reduced to its three outcomes here: recovered, unchanged, failed.

### HiveReplay

The gates, the order of the logs, the chain, the validation and application of
entries and the fields written to the base block. A page image is the number of
the entry it comes from; an entry is its number, its pages, the hive bins size it
declares and a form (`valid`, `malformed`, `torn`). What a log holds is chosen
when it is opened, so that TLC does not carry the contents of logs that are never
read. `NoWrap`, part of `ReplayAssumption`: numbers stay below 2^32-1.

### HiveRecovery

`HiveRead`, `HiveReplay` and the appraiser put together: every step is a step of
`HiveRead` with the bytes it moves, a step of `HiveReplay` over the logs that were
read, or a write of the appraiser. A file is its base block and its pages; a page is
known by the commit that wrote it. The call reads the hive block by block
(`ReadBlock`), so a write can fall between two blocks, between the hive and a log and
between the logs.

The appraiser is external. It does what the comments of `replay.go` say of a live
hive, in the order that makes recovery possible at all: it marks the base block
dirty, writes entries to one of two logs (an entry can be seen half written), restarts
the other log with an entry that holds every page the hive lacks, flushes pages only
when the log has them, and writes the clean base block last. Old entries stay behind
the newer ones, as in a circular log.

| Code | Action |
|---|---|
| `os.Open`, `f.Stat` and its cap; the runs of the raw file | `OpenHive`, `FindHive` |
| `io.ReadAll(io.LimitReader(f, limit+1))`, `rng.ReadAt` | `ReadBlock` |
| `len(buf) > limit`, `got != n` | `PlainEnds`, `RawEnds` |
| `readLog` | `TakeLog` |
| `Replay(res.Data, logs...)` | `GateLogs`, `OpenReadyLog`, `ReplayStep`, `Replayed`, `ReplayGivesUp` |

Four reductions keep it checkable. Two hide nothing a call could tell apart: the
appraiser pauses while the call works on bytes it already has, and the context ends
just before it is looked at. Two are limits: a log is captured in one step (its newest
entry may be torn), and the hive starts clean, with the commits of `Past` in the first
log and flushed.

### InventoryParse and IndexWalk

`InventoryParse` is `Parse` and `record`: the first Root, the classification of its
children (the last child of a name wins), the loop over the seven keys with its
context checks, the loop over a key's records, the sort. The index of a key is
either refused or a list of nodes. `IndexWalk` is what decides: `indexSlots` and
`subkeys`, one action per frame popped and per element read. The library's own
recursion is external to the repository and is modelled from the comment at
`indexSlots` by two recursive functions: `Level`, the indexes n calls down, and `Produced`,
the nodes those calls build from each cell, a list giving the sum of its elements (`Added`).

### Pushdown, Cells and TableRows

`Pushdown` is `index` and `selected`, then `rowsFor`, then SQLite's filter as the
reference (`WantedByAll`), in terms of sets of records. The columns are reached in any
order, as the loop over the map of constraints reaches them. It is the abstract
specification of a query.

`Cells` is what a cell is made of: which registry values `decode` turns into a text,
what the library reads of a value and when it panics (external), the map `record`
builds, the decoders, and `cell`. A text is what the decoders look at: a core with a
shape, a case and a separator; a date of three fields; a list; a number (`Text`). A moment is
a day. A big-data cell is known by its signature alone, as in the code: an integer's own
cell has the low sixteen bits of the number in that place (`Signature`).

`TableRows` puts the two together and has the data the code has. The subkeys of the
hive become records (`Read`), `index` maps lowercased cells to positions, `Select` walks
the list of one column with its duplicates and its spellings (`Gather`, `sortUnique`,
`intersect`), `Selected` is where nil and empty part, `BuildNext` takes the record at the
next position, and the cells are decoded a second time, by a clock that may have moved
since the load (`Tick`). `out`, `left` and `rows` follow as sets, and `ImplementsPushdown`
says that the two agree step by step, so that the theorems about `Pushdown` are
about this data. Its assumption that no indexed column is a `kTime` is what
`columns.go` declares; that none is constrained keeps SQLite's view of a row fixed.

`CellsMean` says of each cell the one text it may show. `Source` is the last whole value of
the column's name: `Intact` is as long as its type and stored where so many bytes are, and
`Shown` leaves out the integers that `TakenForBigData` describes. `Means` gives the text for
each kind of column: a flag is 0 for `0` and `false`, 1 for `1` and `true` in any case and
blank for anything else (`Flag`); a list is its items that are not empty, as often as they are
there and in order (`IsCompacted`); of a name, hash or path it says which fields change and
which do not.

## 3. The runs

| Run | Question | Bounds, and why they are enough |
|---|---|---|
| `cache` | slot, freshness, timer, sharing and the refinement of `TableService` in every interleaving | two calls, two expire goroutines, two writes, TTL 2, timeout 1. Every property relates one call to one other actor (a call, a timer or a write); two expire goroutines let one be late while a second is started by a reload; two writes put one before and one after a read |
| `cache_liveness` | a queued call leaves; an idle snapshot goes | two calls, one expire goroutine, one write |
| `replay` | newest image, header, chain, ending | up to three logs (two may be applicable) of up to two entries over numbers 1..3: overlap, gap, duplicate, equal bases and each form of damage; pages past the end, at and over the cap |
| `recovery` | clean result, refused before volume, one route; one whole generation from a quiet read and from a chain that connects; never cut | the two logs of the code, a cap of two pages, a hive of two pages that can grow by one, two commits flushed and two more to come: each log can be restarted over old entries, the call can see every part of a flush and both logs in either order, and the hive can grow past the cap |
| `parse` | whole snapshots, stable order, contained damage, prompt stop | two inventory keys, one legacy and one other child, up to three children, up to three records of one key with a batch of two, so that a batch ends inside a key and the context ends on each side of it |
| `index_walk` | bounded recursion, bounded count, no false refusal | all graphs of up to three lists, of up to two elements each, over four cells, of which the last is never a list, depth cap 2 and slot cap 3: cycles, diamonds, chains one longer than the cap, counts one above it |
| `table_rows` | no subkey or row lost, narrow, shown is found, cells mean what is stored, implements `Pushdown` | up to three subkeys out of five (two spellings of a device and of a hash, values with each damage, one over the value cap), fourteen subkeys with one date in six written forms each, seven with a flag that is a digit, a word or neither, four with a QWORD and an inline DWORD around the `db` signature, 60 queries (other case, duplicate, empty, too long, absent, no equality), a clock that moves by one year between the load and any row; looks at the context every two rows |

Deadlock is checked in `cache`, `cache_liveness` and `recovery`, where a system that
serves calls may not stop. The other four model one function call, which ends.

Five more runs each check one sentence of the repository, and TLC finds a
counterexample. They are the findings of section 5. `torn_read` is `recovery` and
`rows_db_number` is `table_rows`, with the same bounds and one property each.

Safety of the cache is checked with calls and expire goroutines symmetric; the
liveness run uses no symmetry.

### Fairness

`QueueSpec` assumes that the clock runs, that a context whose deadline passed ends,
and that a goroutine whose `select` can take `ctx.Done` is scheduled. Nothing is
assumed of the call that holds the slot, because `hive.Read` of a raw volume can
hang: `QueuedCallLeaves` is the point of using a channel and not a mutex.
`IdleSnapshotDropped` is stated under `HoldersFinish`: the holder's steps are
taken, the timer fires, and an expire goroutine blocked on the channel gets its
turn. The last is strong fairness, which the runtime's first-in-first-out queue
of blocked senders justifies. `Terminates` of replay assumes that a function call
keeps running (weak fairness of `Next`).

## 4. What is proved

TLAPS proves, for all values of the constants that satisfy each module's named
assumption (positive durations and bounds, disjoint sets of names, well-typed
inputs):

| Module | Theorems | Argument |
|---|---|---|
| `Induction` | `StepInduction`, `StrongInduction`, `NatRecursion` (lemmas) | Induction and recursive functions of numbers, stated of *sets* of numbers: a set that has 0, and n + 1 with n, has every number. The library's theorems take an operator, which no installed prover instantiates; a set is a term it can. All follow from the least element of a set of numbers |
| `SnapshotCacheProofs` | `TypeCorrect`, `SlotIsExclusive`, `RowsAreStatFresh`, `HeldIsAlwaysTimed`, `LoadsAreShared`, `CacheImplementsService` | The token in the channel is counted by the holders (exclusive), which makes the sections between steps atomic. `FreshInv`: the label is never ahead of the stamp, a held snapshot is at least as new as the label, what a call read is at least as new as the stat it made. `LoadDue`: a load that runs is due until it ends, since only the holder of the slot changes what is held. The refinement maps each step to a step of `TableService` or a stutter (`SharedStep`, `OwnStep`, `HiddenStep`, `OuterStep`) and uses both where the hive is read and where a call is answered or fails. `TimedInv` carries the timer. `WindowInv`: inside the TTL of a remembered load either the label has moved or something is still held, since only a stat that sees another pair and an expire at full age drop it |
| `HiveReplayProofs` | `ReplayInv`, `ReplayTypes`, `NewestImages`, `HeaderHighest`, `PastPrimary`, `ChainGaps` | Applied numbers ascend strictly and stay below `expected`; a page holds the image of the last entry that lists it. Ascending numbers turn "last" into "highest" |
| `HiveRecoveryProofs`, the route | `ReadReturnsClean`, `VolumeNeedsRefusal`, `RouteIsOne`, `IdleLogsUntouched`; `RecoveryImplementsRead`, `RecoveredIsClean`, `RecoveryVolumeNeedsRefusal`, `RecoveryRouteIsOne`, `GrownIsRefused` | which files are touched by which route at each place of the call, and what is known of the bytes. Each step of the bytes is the step of `HiveRead` it goes with or leaves the route alone, so the theorems of the route carry over. Only `PlainEnds` is a `PlainReads`, and it ends below the limit of one block over the cap, hence at the end of the file |
| `HiveRecoveryProofs`, the bytes | `RecoveryInv`, `RecoveryTypes`, `ConnectedWhole` | `RInv`, below: where each page that is on disk, held or replayed is from. A chain without a gap then leaves each page as its last generation has it |
| `HiveQuietProofs` | `QuietInv`, `QuietWhole` | `QInv`, below: what the appraiser's order of writes keeps true of a half-flushed hive, and which entry of which log the replay has got to |
| `InventoryParseProofs` | `ParseTypes`, `SnapshotIsWhole`, `SnapshotInOrder`, `DamageContained`, `ParseStopsSoon` | In the middle of a key an ascending function lists the nodes read so far that did not panic; the sort composes it with a permutation. Complete keys stay as they are, the others are still to come. The records read since the context ended lie in one batch |
| `IndexWalkProofs`, accepted | `WalkTypes`, `AcceptedIsRanked`, `RecursionIsBounded`, `WalkTakesOneFramePerCell`, `CountInv`, `AllocationIsBounded` | visited cells are read at the depth they were pushed with; what a visited list refers to is visited, pending or still to be scanned. So the depths at which an accepted walk saw the cells grow by one along every reference. By induction on n the indexes n calls down were seen n deeper than the root, and past the cap there are none. The count is `CountOK`, below |
| `IndexWalkProofs`, refused | `TraceInv`, `NoSoundIndexRefused` | `TraceOK`, below: in a sound hive the walk knows of each index at one place |
| `TableRowsProofs`, the sets | `PushdownInv`, `SupersetDelivered`, `NarrowedToHits` | after the columns reached so far the selection holds every wanted record and only hits; what is built and what is left are the selection |
| `TableRowsProofs`, the slices | `TableInv`, `TableImplements`; `RowsDelivered`, `RowsNarrowed`, `RowsTypes` | `TInv`, below: the slice lists the set of `Pushdown` in order. Each step of the code is then a step of `Pushdown` or a stutter, and its theorems carry over |
| `TableRowsProofs`, the rows | `ShownIsFound`, `EverySubkeyServed`, `CellsAreMeant` | a row is made from the record at its position; the index was made from the same record, and only `kTime`, which is never indexed, looks at the clock. A value that `decode` keeps never panics, so every subkey is a record and each has its own row. The decoders against `Means` and `DateOf`, kind by kind |

None of the listed properties is inductive as it stands; the invariant named in
each proof module is, and TLC finds every part of it true wherever it is a
property of a run.

### The bytes of a recovery

`QuietReadIsWhole` and `ConnectedReadIsWhole` speak of the end of a call, and what makes
them true is spread over the disk, the logs, the bytes the call has and the replay in
progress. Two invariants, each on top of the other, say it.

`RInv` says where bytes are from. `HistoryOK`: a commit grows the hive by a page at most, and
a page past the first size was changed by some commit. `DiskOK`: the base block is behind
the commits; an entry with number n, wherever it stands in a log, declares the size of
generation n and holds at least what commit n changed (`Sound`); the active log has the
commits from its base on. `HeldOK`, `HeldPlace`: the same of the blocks and the logs the call
has read, whatever was written since. `ReplayState`: the replay is a state of
`HiveReplay` over the logs that were read, so the inductive invariant of `HiveReplayProofs`
holds of it, its entries are sound, and a page is the primary's or one an entry lists
(`ReplayPlace`). From it, `ConnectedReadIsWhole`: a page that an entry lists was last written
by the last entry that lists it, and no commit between that one and the end changed
it, because the chain has no gap and the entry of that commit would list it; a page no
entry lists was as its generation left it, and no commit since changed it.

`QInv` adds that nothing is missing. `QuietDisk` holds of the disk at every instant, in the
middle of any flush: a clean base block means a whole hive (`CleanIsWhole`); the active
log is a run from its base to the newest commit (`ActiveRun`); the other log, if the hive
is not past it, is a run that reaches the active one (`OtherRun`); and every page of the
generation on disk, or of the one before a log begins, is on disk, in the first
entry of that log, or in a commit since (`Covered`, `LogsCover`). `QuietHeld`: without a
write during the call, what was read is what is on disk. `Trace`: the entries applied
have no gap, begin where a log does, and the logs not yet opened continue them. So the
replay ends at the newest durable entry, and its chain connects to a hive of which every
page is accounted for. TLC checked `QInv` with the constants of `recovery` before it
was proved.

`RecoveryAssumption` is what both rest on: the hive begins with at least one page and no
more than the cap allows, a commit changes pages and not nothing, and the commits of
`Past` are within the first size and within `MaxCommits`, the bound that keeps every number
below the wrap (`NoWrap`).

### The slices and the cells of a query

`TInv` says that the code's data are the sets of `Pushdown` in order. `Loaded`: the
snapshot was parsed and indexed at some moment, and a call never writes it. `SelOK`: the
slice of `selected` lists `out` with every position once and ascending, and is nil only
where nothing was narrowed. `BuiltOK`: the rows built are of the first positions of the slice
and those left are of the others. `TableOK`: row p was made from the record at position p,
at some moment.

What it needs of the helpers are lemmas. A finite set of positions has one ascending list
(`OrderExists`, `OneOrder`), which is `sortUnique`. The two-pointer `intersect` gives the
ascending list of what is in both, by induction on the elements that remain in the two
slices (`IntersectIs`). The loop over a column's constraints gathers `Hits`, by induction on
its length (`GatherIs`). The least position left is the next of the slice (`LeastFirst`).

`CellsMean` compares the decoders with definitions that share nothing with them but the
calendar. The proof meets four differences. `Source` takes the last value of a name that is whole and
not taken for big data, and `record` the last one that `decode` keeps: the same, since the checks
of `decode` are what a value needs to be as long as it says, and the signature (`ShownIs`). `DateOf` looks at which field has four digits and
`decodeTime` tries four layouts: at most one parses (`DateIs`). The stamp is divided after the
subtraction or before it: the epoch is a whole number of seconds (`LastWriteIs`). The
loop of `decodeMulti` keeps the items that are not empty: by induction there is an ascending
map from the items kept so far onto the places of those that are not empty (`KeepsNext`, `MultiIs`).

`TableRowsAssumption` says what a hive and a query can be: subkeys and values with the
fields of their types, `MaxRecords` subkeys and `MaxConstraints` constraints of a column at
most, and no indexed column decoded by the clock, which is what `columns.go` declares.

### The count and the refusals of the index guard

`CountOK`: the slots counted, plus what the library would build from each pending frame,
plus what it would build from the elements still to be read, are what it builds from the
root. A visit takes a frame from the second term and adds its slots to the first and its
elements to the third; an element moves from the third to the first or the second. When
nothing is pending the count is all there is. `ProducedIs` unfolds the recursion once, and
`AddedNext` and `AddedFirst` take the last and the first term from a sum.

`TraceOK` is about the other verdict. Every index the walk knows of is on the `Level` of
its depth (`LevelOK`), and each but the root is in a list that was visited (`ParentOK`). If
the hive is sound, each is at one place only: in one frame, among the visited cells, or at
one position of the list being read (`OnceOK`). That is kept because a list that is visited
now was not visited before: an index that it holds and that the walk already knows of would
be referred to from two places, or would be the root (`OneReference`). So a frame past the
cap puts an index on the level that must be empty, a cell met twice is at two places, the
frames inject into the indexes of the key (`StackIsSmall`), and the count is at most what
the library builds (`TotalIsSmall`). `ReachedFinite` is needed for the cardinalities in
`Sound` to mean what they say.

### Only model-checked

- The liveness properties (`Terminates`, `QueuedCallLeaves`, `IdleSnapshotDropped`): fairness
  and `ENABLED` are out of the prover's reach.

Every safety invariant that a passing run checks is stated by a theorem.

## 5. Findings

1. **A late start is blamed on the hive** (`tables.go:145`, run `cache_slow_verdict`).
   The deadline starts at the entry of `Generate` and covers the queue. A call that
   waits behind a slow load starts its own with the rest of the 30 s; when that
   runs out, the failure is kept for five minutes as "a property of this host"
   (`tables.go:152`), although no load had 30 s. The run excludes cancellation,
   panics and calls that dawdle between their steps. In it the first call's stat fails
   and its load fails after one unit of two, which is remembered; the second call's stat
   sees another pair than the label, which drops that failure, and its own load is
   ended by the deadline after the one unit that was left.
2. **The chain does not continue into an overlapping log** (`replay.go:175`, run
   `replay_overlap`). A log whose first entries were superseded is left at the
   first of them; later ones that continue the chain are never applied. In the run two
   logs have one base b: the first holds entry b, the second b and b+1, which is lost.
3. **A smaller hive bins size is accepted** (`replay.go:237`, run `replay_bins`). The
   comment names both directions as harmful and this as the only place to
   compare; only the larger one is refused.
4. **A raw read can return two generations as clean** (`hive_windows.go:144`, run
   `torn_read`). "Data returned with a nil error is always clean"
   (`hive_windows.go:24`) is decided from the base block alone. On the raw route the
   appraiser has the hive open: the base block is read clean, the hive is marked
   dirty and a page is flushed, the rest is read, and the mix is returned and cached.
   A torn read "the snapshot retry already covers" (`replay.go:43-45`), but there is no
   retry in the repository. `QuietReadIsWhole` is the part that does hold: without a
   write during the call the newest committed generation comes back whole, whatever
   was half done on disk. `ConnectedReadIsWhole` is the part that holds with writes: a
   chain that begins at or before the hive's next number and has no gap, over a hive
   of which every page the chain does not hold was read as its generation left it.
   Both are proved for every value of the constants.
5. **An integer can be taken for big data** (`inventory.go:446`, run `rows_db_number`). An
   integer whose cell "cannot hold its" bytes is dropped (`inventory.go:447-448`), and "an
   integer is never stored as big data" (`:427-428`), but a big-data cell is told by two bytes
   that are the low sixteen bits of an ordinary number: a QWORD equal to 0x6264 modulo
   65536 is dropped and its column is blank, against "every DWORD and QWORD through
   strconv.FormatUint" (`decode.go:4-5`). `CellsMean` says that no other whole value is
   blanked, and is proved.

Smaller observations have no run. A load that panics is forgotten, although "every other
failure is remembered on purpose" (`tables.go:147-148`): the panic unwinds past the
assignments (`LoadPanics`), so each query reads and parses such a hive again. The
hypothesis of `ConnectedReadIsWhole` on the hive cannot be dropped: on the raw route the
runs of the file are mapped before its blocks are read, so a hive that grows in between
can come back with the base block of the larger hive and a page of it never read; where
an entry of the chain writes behind that page, `Replay` fills it with zeros. With one
log unreadable over a flush that was interrupted, the other log can be enough to make
the base block clean and leave pages behind: "partial recovery beats no data"
(`hive_windows.go:51`) then means rows of two generations without an error. An IN whose
values arrived as equalities of one list, one of them empty or too long, would be
narrowed by the others alone (`tables.go:267`), where "the union is the only reading
correct under both" (`tables.go:285-286`); osquery sends one equality at a time today.
`c.at` is set when a load ends, not when the hive was read, so rows can be older than
`cacheTTL` by the time of a load (`tables.go:34` against `:160`). And "touches exactly
one path" in the repository's README (368-369) holds for a clean hive only: a dirty one
that is locked is read through the volume with its two logs.

## 6. What the models leave out

- Bytes: base block checksums, entry layouts, UTF-16 and Latin-1 decoding, the cut and
  the trim of a text. Forms, cores and payloads stand for them.
- Sizes and offsets in a log: a page is a whole page at its place, so neither a page offset
  that is not aligned nor the error of `p.Data()` (`replay.go:207-210`, which ends `Replay`)
  is in `HiveReplay`.
- A number as text with leading zeros, which `FormatUint` never writes.
- The seven lists of columns: `table_rows` has one list with every kind. The osquery types
  of the columns, which decide how a number is narrowed outside this process.
- Hours, minutes and seconds: a date is a day. Constraints on date columns, which no index
  answers.
- The bytes of a log inside one read, but for its newest entry, and an appraiser that
  breaks the order the comments of `replay.go` rely on.
- The 2^32 wrap of sequence numbers (`NoWrap`).
- Warnings, log lines, the wording of errors.
- The extension server, the non-Windows stubs, the build: the first has no state
  of its own, the second returns a constant error (which is `StatFails` for
  the cache), the third is no program.

## 7. Plan

Done, in this order: the cache and its abstract service; replay; acquisition;
pushdown; the index guard; the parser; acquisition, replay and the appraiser together;
cells and the rows made from them.

Then proofs: the cache, its refinement and its windows; replay; the route of a call;
whole snapshots; the ranks of an accepted index; pushdown. Last, `Induction`, with which
the recursion over an index became provable, the type invariants, and the bytes of a
recovery. Then the code's slices and cells, with the two-pointer intersection and the
loops proved by induction, and the count and the refusals of the index guard.

Next:

1. `HeldIsTimed` without the bound on expire goroutines.
2. The wrap: the weakest assumption under which the header is still the newest.
