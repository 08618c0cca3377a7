# ZenDB: TLA+ models, model checking and proofs

ZenDB is a small synchronous embedded database for local-first applications.
This directory holds TLA+ modules translated from its Rust source (`src/`), the
TLC configurations that check them on small instances, and TLAPS proofs of the
properties that matter most for every value of the constants.
`PROJECT.json` lists the runs, the mutants, the source lines behind every
definition, the hazards, the findings and the theorems.

## 1. The system

Three crates, bottom up.

| Part | Source | State | Operations that change it |
|---|---|---|---|
| Topic | `zendb-storage/src/topic.rs` | segment files, `_offsets` KeyDir, segment list, consumer cursors, statistics | create, append (rotates, then compacts), compact, consumer, next, commit, seek, reset, delete, drop, flush, sync, open |
| Table | `zendb-storage/src/table/` | State, SkipList cache, Topic<Change>, recovery consumer, `novel_pending` | create, insert, drain, flush, sync, compact, drop, open (replay) |
| State | `backend/state.rs` | one of BPlusTree, KeyDir, in-memory map | dispatch |
| KeyDir | `backend/keydir.rs` | mmap'd append-only entries, index, dead bytes | put, delete, replace, update, compact, clear, open (rebuild) |
| BPlusTree | `backend/btree.rs` | mmap'd pages, free list, extents | put, delete, split, bulk operations, open |
| SkipList | `backend/skiplist.rs` | arena, free slots, level links | put, delete, bulk operations, clear |
| Cell, values | `zendb-types/src/crdt/` | CRDT values with event stamps | apply, merge, apply_walk |
| Devices | `zendb-workspace/src/devices/` | registry table and cache, hybrid clock, receipt windows | mint, observe, upsert, flush, sync, open |
| Tables | `zendb-workspace/src/tables/` | `_catalog` table, handles, listeners | upsert, get, delete, insert + listener dispatch, open |
| States | `zendb-workspace/src/states/` | `_catalog` state, open handles | upsert, get, close, delete, open |
| Workspace | `zendb-workspace/src/workspace.rs` | lock, identity, all of the above | create, open, join, flush, sync, drop |

How they interact: an application inserts through a `TableHandle`. It mints a
stamp from `Devices`, takes the table's write lock, and `Table::insert` applies
the operation to the row's `Cell`, appends the `Change` to the `Topic` and puts
the new cell in the cache. The lock is released and the listeners run: receipts
tell `Devices` about the stamp, the registry listener refreshes its cache, the
catalog listener opens or removes tables. The cache is drained to the `State`
when it is full or flushed; then the recovery consumer's offset is committed.
Opening a table replays the topic behind that offset. The topic's own segments
go when every named consumer has committed past them.

Where the difficulty is: process crashes between any two file effects (the
files and shared mmaps survive, memory does not), cursors that lag behind the
compaction, two readings of "how far have we got" (volatile and committed), a
cache in front of a state behind a log, statistics kept incrementally, pages and
slots that are freed and reused, events that reach devices in different orders,
and, in the workspace crate, listeners that run outside the lock.

## 2. Modules

| Module | Models | Rests on |
|---|---|---|
| `ChangeLog` | what a topic promises: an interval of records and committed offsets | |
| `Topic` | `topic.rs`, handlers atomic, crashes between file effects | implements `ChangeLog` |
| `TopicDurability` | `Topic` with fsync and power loss | `Topic` |
| `TopicThreads` | the writer and its readers in threads, one step per load and store; writes that fail | |
| `AbstractTable` | what a table promises: an atomic map of rows | |
| `Table` | `table.rs` over an abstract topic and state | implements `AbstractTable`, uses `ChangeLog` |
| `TablePower` | flush, sync and open of a table step by step, with power loss | |
| `TableReads` | the iterating reads, one step per row | |
| `BoundedMap`, `SkipList` | the cache: what it promises; arena, links and free slots | `SkipList` implements `BoundedMap` |
| `KeyDir` | the file of records, its index, compaction and reopening | |
| `BPlusTree` | pages, splits, leaf chain, extents, free list, bulk calls | |
| `CrdtValues` | apply and merge of every value type and of `Cell` | |
| `Replicas` | peers that mint, exchange and merge | `CrdtValues` |
| `Receipts`, `SeenSet`, `ReceiptWindow` | the receipt ranges; the set they stand for; one window | `ReceiptWindow` implements `SeenSet` |
| `Devices` | registry, clock, receipts and checkpoints under `TableHandle::insert` | `Receipts` |
| `Tables` | the catalog, its listener, handles and directories | |
| `States` | the catalog of states, their files and handles | |
| `Workspace` | processes that create, join, open and drop one directory | |
| `MC...` | instances for TLC | |
| `TopicDisk`, `TopicProofs`, `TopicStatsProofs` | inductive invariants and theorems of `Topic` | `Topic` |
| `TableProofs` | those of `Table` and `TablePower` | |
| `ThreadProofs` | those of `TopicThreads` and `Workspace` | |
| `DeviceLemmas`, `DeviceProofs` | those of `ReceiptWindow` and `Devices` | |
| `CatalogProofs` | those of `Tables` and `States` | |

How the levels fit: `Table` takes the topic as the log that `Topic` is shown to
implement (`UsesLog`, `ImplementsLog`), the cache as a map that refuses rows when
full (`SkipList` implements `BoundedMap`), the State as an atomic map (`GetsExact`
of the backends), and cells as the parameters `Apply` and `Changes` (`Replicas`
checks the real ones). `Devices`, `Tables` and `States` take a table as a durable
map that changes atomically, which is what `ImplementsTable` says.

### Topic

A record is its offset and its encoded size; its content is irrelevant to the
log. A segment file is `[magic, n, len, torn]`: whether the header was written,
how many whole records a scan finds, the bytes, and whether a cut-off record
follows. `seg` holds the `Segment` objects some `Arc` keeps alive and `list` is
`Topic.segments`; `Live` says which files `Drop for Segment` leaves: those
listed and those a reader's `SegmentCursor` still holds. `cons` is
`TopicShared.consumers`, `offsets` the persisted KeyDir, and `active` the
`reader_active` flags.

- `AppendRecord(s)` is the whole of `append`: the rotation with its header, the
  compaction the rotation ends with, the record, the statistics.
- `Compact` removes the leading segments that end at or below the smallest
  committed offset of all registered consumers.
- `Consumer`, `ReadNext`, `ReadFails`, `ReadPanics`, `Commit`, `Seek`, `Reset`,
  `DropConsumer`, `DeleteConsumer` are the handle's methods. `ReadPanics` is
  the `unwrap` in `position`, with the handle's `Drop` during unwinding.
- `Crash`, `CrashInAppend`, `CrashInCompact`: a process crash between handlers
  or between two file effects of one. `Open` scans and truncates the last
  segment and takes a sealed segment's end from the next file's name.
- `acked` and `seen` are history variables. `Seeks` says how consumers use
  `seek`: not at all, only at or above their committed offset (as `Table` does),
  or anywhere.

### Table

The topic is the sequence of changes, of which those at or below `low` have been
compacted, and the recovery consumer's two cursors. `Apply` and `Changes` stand
for `Cell::apply_walk`, and a row that changes nothing has no effect. The State
is a map whose puts are atomic; it survives a process crash unless it is in
memory. A drain puts rows in key order, so a crash or a failing put leaves a
prefix (`FirstRows`). `Insert` is the whole of `insert` including the drain that
makes room and the compaction the topic's rotation may run (`Reclaims`).
`CrashInInsert`, `CrashInDrain` and `CrashInOpen` cut the three handlers short.
`InsertFails` is the cache with no room for any row; `DrainFails` and
`OpenFails` are the errors a put may return.

### TopicThreads

A segment is named by its base. The writer's `append` is the steps rotate, load
(one `committed` at a time), cut, write, store `end_offset`, store `next_offset`;
a reader's `next` is load the end of its segment, load `next_offset`, load the
list, find, open, read. `published` is the `ArcSwap` of the list. A write may
fail after part of the record; the torn record stays and the next one goes
behind it. `panic`, `lost` and `garbage` are the places a reader must not reach.

### TablePower and TableReads

`stable[k]` and `onDisk` are the values that may be found after a power failure:
a mapped page may be written back at any time, so every put and commit adds a
value, and only an fsync leaves one. A put changes pages in place and may move
rows it does not write (a leaf split, a compaction, KeyDir's sentinel; btree.rs:62
and keydir.rs:359 promise nothing for this case), so it also adds "nothing" for
every row: until the next `state.sync` (`dirty`) a power failure may take rows
that were synced long before, or leave a state that does not open. `torn` records
that this has happened, and `SyncedSurvive` says nothing after it. A prefix of the
topic survives, at least what was fsynced. Two things are assumed: the death of the
process alone does not interrupt a put, and the one record a commit writes gets to
disk whole or not at all. In `TableReads` a read borrows the table, so rows are
fixed and each `next` of `MergedEntries` is a step, for ordered and unordered
States, both directions, ranges and full scans.

### SkipList, KeyDir, BPlusTree

Every call is one step: all three are used under an exclusive borrow and promise
nothing about a crash in the middle of a call. `SkipList` keeps the arena with
the links of each level; the random height of a node is any. `KeyDir` keeps the
file as units, so that a compaction slides records over each other, stale units
stay behind the sentinel, and reopening scans. `BPlusTree` keeps pages with
entries or separators; an entry has a size, a large value an extent of pages.
Keys are byte strings because separators are truncated.

### CrdtValues and Replicas

A stamp is a number ordered as `EventStamp` is. Every operation returns the new
value, whether it reports a change, and whether it is `Ok`. `Int` stands for all
scalars. `Replicas` gives each peer a copy: `Mint` stamps an operation built by
the value's own constructor, `Deliver` applies any event, also one the copy has
had before, since `insert_internal` and `apply` recognise none, and `Merge` a whole
cell. `net` says which peers there are, whether cells are merged, whether events
come again, and how many there are. `once` records for Counters that no event was
counted twice and no merge met sums of which neither includes the other; what
`Converges` and `ShowsEvents` say of Counters is subject to it.

### Devices, Tables, States, Workspace

A call takes a step for each lock it takes and each file operation, in the order
of the code: in `Devices` the role check, mint, the second check, the insert, and
after the unlock the receipt and registry listeners; in `Tables` the catalog row,
then the listener's look at the map, the directory, and the map again. Three history
variables of `Tables` name the cases the code leaves open: `cut`, the names whose
file operations failed or were cut off after their row was written (until their
directory is removed), `changed`, those declared anew with another configuration,
and `late`, the handles got while a delete was under way. `Devices`
may crash between any two steps and be opened by either owner; `stored`, `covered`
and `owners` are history variables. `States` changes
its catalog under one lock and its files after releasing it. `Workspace` writes or
reads the parts of the directory one after the other and may die between them;
`Rejoins` lets `join` be called on a directory that has a workspace, and `Outlive`
lets handles outlive their `Workspace`.

## 3. Runs

Several configurations of a component, and components that belong together,
share a run: a variable `mode` (or `backend`) of the MC module is chosen
initially, the module instantiates each specification, and a property says what
holds in which mode. Properties of a base module are checked as that module
states them.

| Run | Instances and bounds | Checks |
|---|---|---|
| `topic_log` | `MCTopic`: two consumers, 3 records of 1 or 2 bytes, 3-byte segments with a 1-byte header; consumers that seek forward only, and a second topic whose consumers seek anywhere | `RetainsUncommitted`, `ReadsSucceed`, `SealedSegmentsComplete`, `AckedSurvive`, `StatsExact`, `SeeksHarmless`, refinement `ImplementsLog` |
| `topic_delivery` | the same topic, 2 records, no seeks | `AtLeastOnce`, liveness `ReaderCatchesUp` |
| `topic_threads` | `MCTopicThreads`: two readers, segments of 2 records, 4 records, failing writes | `SegmentFound`, `ReadsRecord`, liveness `ReadersCatchUp` |
| `table_recovery` | `MCTable`: a table of 3 keys, cache of 2, 4 changes; with failing puts; with no buffer; with a State in memory; 2 keys and 3 changes with power loss at every step of flush, sync and open; a SkipList of 2 and one of 3 slots, 2 levels; reads over 4 keys | `ViewIsRecoverable`, `SizeExact`, `FaultsRecoverable`, `SyncedSurvive`, `CacheExact`, `IteratesExact`, refinements `ImplementsTable`, `UsesLog`, `MemoryImplementsTable`, `IsBoundedMap` |
| `state_backends` | `MCBackends`: a KeyDir of 2 keys and values of 0 and 2 units that compacts at one half, never, or with failing resizes; a BPlusTree of 6 keys and three levels, one with extents, one with bulk calls | `GetsExact`, `ReopenExact`, `CountersExact`, `ScansExact`, `PagesAccounted` |
| `crdt_replicas` | `MCReplicas`: two peers, every value type, 4 events in any order (not Text, Record), or 3 that may come again, with merges of cells; Counters also on three peers with 2 events, again and with merges | `Converges`, `ShowsEvents`, `SequencesExact` |
| `devices` | `MCDevices`: two threads; one thread with every role; one thread with a crash and two owners; a window over 5 sequence numbers | `UniqueIds`, `ClockCovers`, `ListenersFollow`, refinement `ImplementsSeenSet` |
| `catalogs` | `MCCatalogs`: tables under one thread, without and with failures, crashes and two configurations; under one manager and two users; under two managers that use each other's table, with failures, crashes and two configurations; states under one thread and under two with failures; three processes on one workspace | `MapFollowsCatalog`, `BusyProtects`, `CleanRecreate`, `Reopens`, `OneWorkspace`, liveness `DeclaredOpens` |
| `topic_power_loss` | `MCTopicDurability` | violation: `SyncIsDurable` |
| `table_lost_replay` | `MCTable` with `PutFails` | violation: `ImplementsTable` |
| `crdt_upsert_lost` | `MCReplicas` with deletes of fields | violation: `UpsertReplaces` |
| `btree_routes` | `MCBackends`, keys of two bytes | violation: `RoutesExact` |

Why the bounds are enough for the interesting cases. Topic: there is a sealed
segment, a segment held by a reader after its compaction, and a rotation that
compacts two segments; whether an append rotates depends on the record. Table:
the third row drains the cache, and a cell counts increments, so all values a
row takes differ. KeyDir: a record slides onto its own old place, and the file
shrinks below a stale record. BPlusTree: an internal page splits, a leaf in the
middle is emptied, extents are freed and reused. SkipList: a node lies between
two others on both levels, a freed slot is reused at the limit. Replicas: two
concurrent events, and one that has seen both; an event that comes after a merge
that had brought it; a merge of copies that got one peer's events in different
orders. Devices: the clock and the
sequence numbers run out, a remote clock runs ahead, and receipts have a gap that
is filled later. Catalogs: declare, delete, declare again with a user in between,
a get at each step of a delete, a failure or crash at one name and then calls on
both.
Replicas, KeyDir, the tree and some others stop at their bounds, so
`CHECK_DEADLOCK FALSE` is set there, and in `topic_threads`, where readers stop
at a torn record.

`UpToLoss` ends the exploration of bulk calls where a bulk delete has lost the
pages of an emptied tree (section 4). `Symmetry` permutes consumer names; it is
used in `topic_log`, whose properties are all safety properties.

Fairness:

- `topic_delivery`: each reader keeps calling `next()` (weak fairness of
  `Read(n)`) and does not reset for ever. Nothing is assumed of the writer, of
  commits or of crashes: `next()` never blocks on them.
- `topic_threads`: an append that has begun goes on and readers keep polling
  (weak fairness of `WriterStep` and `ReaderStep(r)`). There are no locks
  between them, so the operating system's scheduling is all that is needed.
- `catalogs`: a call that has begun goes on (`GoesOn`); calls need not begin.

## 4. Where the code and its documents disagree

Four runs show a disagreement (the texts are in `PROJECT.json`):

1. `topic_power_loss`: `Topic::sync` fsyncs the active segment only; records of a
   segment sealed since the last sync may be lost after `sync` returned `Ok`.
2. `table_lost_replay`: when a put fails during the replay of `open`, dropping
   the half-open table commits the recovery cursor past the failed change.
3. `crdt_upsert_lost`: `ensure_type` gives a deleted field the stamp of the
   Upsert, which then finds itself not newer and is ignored.
4. `btree_routes`: `internal_split` sends up a truncated separator of its two
   neighbours; keys of the left child may be above it and are not found.

TLC found the following ones too, with the constants given. Where a property is
also checked by a run, the run's instance avoids the case.

| Property | Refuted with | What happens |
|---|---|---|
| `Topic!ReadsSucceed` | `Seeks = "any"` | a seek below the first segment makes the next read panic in `position` (topic.rs:458), though "The next read will start at that offset" (417) |
| `Topic!CrashLeavesOpenable` | any | a crash in `create_segment` before the magic is written: `open` fails from then on (580) |
| `TopicThreads`: every read succeeds | `Failures` | `append` goes on behind a record whose write failed midway; the records behind it in that segment, though acknowledged, are unreadable (199); hence `PastTorn` in `ReadsRecord` |
| `TablePower!SyncedSurvive` without `torn` | 2 keys, 3 changes | a put after `sync` moves a synced row to another page; the power fails when only one of the pages is written (btree.rs:1321, keydir.rs:493) |
| `TablePower!LogIsApplied` | `Flushes` TRUE or FALSE | the cursor is committed before the topic is fsynced, and flush waits for nothing: after a power failure the cursor may cover changes the state lacks, or lie beyond the end, and `open` skips changes (table.rs:145, 234) |
| `Replicas!Converges` | every type but `Int`, `CellOps`, 3 events | a live value does not remember a Delete: a late older event is dropped at one peer and applied at the other (cell.rs:35); hence deletes of `Int` only in `crdt_replicas` |
| `Replicas!CounterExact` without `once` | `Counter`, an event that comes again | `apply` adds it again (counter.rs:61), also after a merge that had brought it |
| `Replicas!CounterExact` without `once` | `Counter`, three peers and merges | two copies have one peer's additions each in part; the merge keeps the larger sum and loses an addition (counter.rs:88) |
| `BPlusTree!LeavesFit` | entries of 2 and 4 quarters of a page | `leaf_split` gives one half more than a page (btree.rs:1422) |
| `BPlusTree!PagesDisjoint` | 5 keys, `BulkLeaves = 9` | a freed leaf whose free-list link reads like an internal page is freed twice (2757) |
| `BPlusTree!NoPageLost` | `BulkLeaves = 2` | a bulk delete of everything returns before it frees the internal pages (2714) |
| `BPlusTree!GetsExact` | `Loads = "emptied"` | a bulk load takes a tree emptied by deletes for a cleared one; the old root stays (2372) |
| `BPlusTree!ExtentsIntact` | `BulkLeaves = 2`, extents | `build_internal_levels` clears a flag in page 1, which may be an extent by then (2056) |
| `Devices`: no `EventId` is minted twice | `MaxCrashes = 1` | numbers minted since the last flush are minted again after a crash (devices/runtime.rs:337); hence `crashes = 0` in `UniqueIds` |
| `Devices`: a quiet cache is the table | two threads | listeners run after the unlock, in any order: an older record overwrites a newer one in the cache (listeners/devices.rs:35); hence `Alone(t)` in `ListenersFollow` |
| `Devices!ReceiptsComplete` | a remote event older than the row | listeners run for applied events only, so an ignored one stays missing (tables/runtime.rs:110) |
| `Devices!DeniedTakesNothing` | two threads, role 0 | a demotion between the two checks denies the write after mint (tables/runtime.rs:69) |
| `Devices`: the clock is not behind the rows | two owners, a crash, or an event that has the peer's own last number | the clock of a peer that opens again starts at its own checkpoint (devices/runtime.rs:163), and `observe` refuses the last number before it merges the time (348); hence `owners = {local}`, `crashes = 0` and `Early` in `ClockCovers` |
| `Devices!EnrolledOpens` | two owners | a peer whose receipts were saved has a state without a clock, which `open` takes for corrupt (devices/runtime.rs:164) |
| `Tables!MapFollowsCatalog` | two threads upsert and delete one name | the listeners of two changes run in the other order (listeners/catalog.rs:77) |
| `Tables!HandlesShared` | two threads upsert one name | both open, or one creates over the other's files (52) |
| `Tables!BusyProtects` without `late` | a get during a delete | handles are counted before the tombstone is written, not after (tables/mod.rs:224) |
| `Tables!HandlesShared` without `late` | the same, and a removal that fails | the next upsert opens what is left under a second handle (listeners/catalog.rs:85) |
| `Tables!MapFollowsCatalog` without `cut` | `Failures` | the row is written before the files are made or removed, and stays when that fails (tables/mod.rs:201, 231) |
| `Tables!CleanRecreate` without `cut` | `Failures` | a failed `remove_dir_all` is ignored and the next upsert opens what is left (85) |
| `Tables!Reopens` without `cut`, or without `changed` | `Failures`, or two `Configs` | a failed create leaves the row, and every later open of the workspace fails (71); so does a changed kind of State (52) |
| `States!Gettable` | `Failures` | the declaration stays when the file cannot be made (states/mod.rs:165) |
| `States!KeepsFile` | two threads, two deletes | upsert creates, and truncates, after the catalog is unlocked (168) |
| `States!NothingLeft` | any | `remove_dir_all` fails on the state's file, which stays (244) |
| `Workspace!OneWorkspace` | `Rejoins` | `join` overwrites the identity and truncates states before it finds the existing tables (workspace.rs:113) |
| `Workspace!SingleOwner` | `Outlive` | a handle that outlives its `Workspace` writes after the lock is released (53) |

## 5. Proofs

TLAPS checks every proof to the last leaf.

### Table (`TableProofs`)

For all sets of keys (finite, of integers), cells and operations, every cache
limit, State in memory or not, puts failing or not:

- `TableTypeOK`, `TableRecoverable` (`ViewIsRecoverable`), `TableWriteAhead`,
  `TableSizeExact`, `TableCacheBounded`;
- `TableImplements`: for a positive cache limit and puts that do not fail, a
  Table implements `AbstractTable`, crashes inside every handler included;
- `TableUsesLog`: every step of a Table is a step of `ChangeLog`, which
  `TopicImplementsLog` shows a Topic to implement. The two theorems meet in that
  module: what a Table does with its topic is what a topic allows.

The inductive invariant `Inv` adds to these: `low <= committed` (only committed
changes are compacted), `committed <= volatile` while up, `volatile = Len(log)`
while up with a positive limit (each insert moves the cursor to the end), an
empty cache while down, `committed = 0` for a State in memory, and that every row of
state and cache is in the log. `ViewIsRecoverable` alone is not inductive: an
insert that drains writes rows whose changes are still to be replayed, so one
must know that the replay ends with these very rows. The lemmas `DurableAppend`,
`DurableCommitted` and `DurableKept` say how `Durable` (the replayed state)
changes when a change is appended, the cursor committed, or rows put; they are
about `CHOOSE` of the last change of a key, whose existence is `GreatestExists`.
`CountInv` (`novel` is the number of cached rows the State does
not have) is what makes `SizeExact` inductive.

### Topic (`TopicDisk`, `TopicProofs`, `TopicStatsProofs`)

For every set of consumers, every set of record sizes, header size, segment
limit and bound on offsets, and consumers that do not seek below their committed
offset (`Seeks # "any"`; for others `ReadsSucceed` is refuted, see section 4):
`TopicTypeOK`, `TopicRetainsUncommitted`, `TopicReadsSucceed`,
`TopicSealedSegmentsComplete`, `TopicImplementsLog`. They follow from
`TopicInvariant`, whose inductive invariant has three parts:

- `Disk`, about the files only, so that it is also what a crash leaves behind:
  bases and ends form a gapless run, every file but the last is whole and not
  torn, and every record a persisted offset still needs is in some file. The
  last file may be torn or without its header (inside a rotation);
- `Shape`, while a process has the topic open: the `Segment` objects are those
  listed or held by a reader, their `end_offset` is the end of their file, the
  successor of every live segment is listed, and an unlisted one ends at or
  below every committed offset;
- `Readers`: persisted and in-memory committed offsets agree, `volatile` is not
  below them, and it is inside or at the end of the segment the cursor holds.

None of these properties is inductive. `ReadsSucceed` fails after one step
from a state in which a reader holds a segment whose successor has been
compacted; that the successor of a held segment stays is `RemovableFacts`: the
holder's committed offset is at most its volatile one, hence at most the end of
the held segment, and the successor ends after that. The lemmas follow the code:
`CutShape` (compaction), `TailShape` (rotation), `WriteShape` (the record),
`HoldShape` and `OffsetsShape` (readers), `UnlinkedDisk`, `DiskGrow`, `DiskMark`
and `DiskWrite` (the files in the middle of a handler), `NamesFacts` (what `open`
computes from file names). `NoBadRead` shows that the failing and the panicking
read are not reachable. `TopicImplementsLog` goes through the handlers once more
and shows what each does to the two ends of the log: `CompactLog` (the low end
moves to the first file kept, which no committed offset has passed), `AppendLog`
(the high end moves by one, after the compaction a rotation begins with), and the
same for handlers that a crash cuts short. `TopicAtLeastOnce` needs only that
`reset` goes back to an offset that was itself delivered.

For consumers that seek anywhere, `TopicStatsProofs` proves `TopicStatsExact` and
`TopicAckedSurvive`. The files may then have gaps between them, so the invariant
`Counted` speaks of the listed segments: each ends where the next one begins. The
records dropped by compaction are the sum of the lengths of the dropped segments,
which `Telescope` shows to be the distance between two bases, so
the unsigned subtractions never wrap. Sums over finite sets are taken apart with
`SumSplit` and `SumRemove`, which rest on the uniqueness of the community modules'
fold (`UnrollUnique`), proved by the least set on which two folds would differ.

### Threads (`ThreadProofs`)

For any number of readers, records per segment and records, writes failing or
not: `ThreadsSegmentFound`, `ThreadsReadsRecord`, `ThreadsTypeOK`. The invariant
follows the order of the stores: at each step of the writer it says how
`end_offset` of the active segment and `next_offset` differ (`WriterInv`), that a
file has at least the records its `end_offset` says (`Content`), and that every
published record some consumer has not committed is in a listed segment
(`Covered`). While the writer loads the committed offsets one by one the smallest
so far is still a lower bound when it cuts, because commits only grow. For a
reader, `MayBeAt` says what its earlier loads still guarantee: an offset seen
below `next_offset` is found in whichever list is loaded later, since only
segments at or below its committed offset are cut.

### Power failures (`TableProofs`)

`PowerSyncedSurvive`: for any keys, cache limit and sequence of flushes, syncs,
crashes and power failures, a row that was there when `sync` returned is there
later, or a newer one, as long as no power failure struck a state with rows put
since its last `state.sync` (`torn`). Without that condition it is refuted
(section 4). The invariant: unless torn, no row of the state or the cache is older
than promised, and neither is any change behind any cursor that may be found on
disk (`PowerKept`), so a replay from it takes no promised row back; a state that is
not dirty has one value per row on disk, its own (`PowerInStep`), which is why a
power failure then loses none; changes are numbered in the order made
(`PowerNumbered`). `KeepsRows` is what the drain, the replay and a put each keep of
this. No assumption on the constants is needed.

### Receipts (`DeviceLemmas`)

For sequence numbers of any width, `WindowRangesApart` (ranges are ordered,
disjoint and not adjacent, which the binary search of `missing_index` needs) and
`WindowImplements` (`observe` answers `New` exactly for numbers not seen before,
and the ranges stand for exactly the numbers not seen). The lemmas are about the
three ways a window changes: `AdvanceAdds`, `WithoutFacts` with `SpliceFacts`, and
`FillAdds`; `RangesApart` is itself inductive.

### Devices (`DeviceLemmas`, `DeviceProofs`)

For any peers, owners, threads, roles, remote events, widths of the clock and of
the numbers, and any number of crashes: `DevicesUniqueIds`, `DevicesClockCovers`,
`DevicesListenersFollow`. They follow from `DevicesInvariant`, whose parts say

- `CallsInv`: what a call brings to its step, and that a closed workspace has no
  calls in it;
- `NumberedInv`: numbers of stored and of minted events are below the clock's
  next one and belong to one event. `UniqueIds` alone says nothing of what two
  threads have minted and not stored yet, and between opens the clock is the
  checkpoint (`State`), because `flush` on drop saves a dirty clock;
- `CoveredInv`: a finished checkpoint has the clock beyond what was minted before;
- `ClockInv`: a row newer than the clock is the one an `observe` still to run will
  merge (`CoversRow`, which names the stamp and not only the row: by the row alone
  it is not inductive when two threads write one row), and a minted event of a
  thread that calls alone is later than its row;
- `ReceiptsInv`, for the windows in memory and in the checkpoint, with
  `ObserveAdds` from the receipts;
- `MirrorInv`: the cache is the table except for the record whose listener is
  still to run, and that record is what the table holds.

### Tables and States (`CatalogProofs`)

For any names, configurations, threads and numbers of calls, with failing file
operations and crashes, where each name is upserted and deleted by one thread and
used by any (`Managed`; without it the properties are refuted, section 4):

- `TablesHandlesShared`: `HandlesShared` and `BusyProtects`. `TbInv` says for each
  step of a call what is already sure: what a delete removes is in the map and
  whoever holds it got it late, what an upsert opens is in no map, the directory it
  creates is not there, and its stamp is that of no directory and no handle in use.
  `HeldOk` says of a handle in use that it is the one in the map unless it was got
  late, and that a directory it belongs to is open under it and no other, unless it
  was got late and a removal may fail; `KeepsHandle` is what each step owes the
  handles in use. Of a handle got late, between the count of a delete and its
  removal, it is not claimed that the directory stays;
- `TablesFollowCatalog` (`MapFollowsCatalog` and `CleanRecreate`) and `TablesReopen`
  (`Reopens`). `NameOk` relates declaration, directory, handle and era of a name at
  each step of its call, and `TbRows` the row to the call. Nothing is claimed of
  names in `cut`; that no step on one name disturbs another (`Elsewhere`), that a
  crash cuts only names whose call had written its row and not done its files
  (`NameCrash`), and that a removal that succeeds makes the name good again
  (`NameRemove`) is what there is to prove.

`StatesHandleKept` holds for any threads, failures and crashes.
`StatesCleanRecreate` (`CleanRecreate` and `Gettable`) is for one thread and one
kind of file without failures, as the run `catalogs` checks it.

### Workspace (`ThreadProofs`)

For any processes that create, open, drop, wipe and die: `OneWorkspaceOpens`, if
`join` is not called on an existing workspace, since the parts are made in order
under the lock and each for the identity on disk (`MadeFor`); and
`WorkspaceSingleOwner`, if no handle outlives its `Workspace`.

### Only model-checked

- Liveness (`ReaderCatchesUp`, `ReadersCatchUp`, `DeclaredOpens`), which needs
  fairness.
- Everything about `CrdtValues`, `Replicas`, `KeyDir`, `BPlusTree` and `SkipList`,
  whose recursive walks and folds need induction over data, and `TableReads`, whose
  expected result is a sequence made by the library's `SortSeq`, a `CHOOSE` that the
  provers cannot expand.
- `EnrolledOpens`, `ReceiptsComplete`, `DeniedTakesNothing` and the other refuted
  properties of section 4.

The compound properties of the MC modules are conjunctions, by mode, of properties
proved above: `SeeksHarmless` of `TopicStatsExact` and `TopicAckedSurvive`,
`FaultsRecoverable` of `TableRecoverable` and `TableSizeExact`,
`MemoryImplementsTable` of `TableImplements`, `SyncedSurvive` of
`PowerSyncedSurvive`, and those of `catalogs` of the theorems of `CatalogProofs` and
`ThreadProofs`.

The constants of the proofs are those of the models: bounds such as `MaxOffset` and
`MaxSequence` are any natural number, subject to the named assumptions of the
modules, which TLC evaluates, and to the hypotheses each theorem states.

## 6. Not modelled

- Encodings (`serdes.rs`, bincode, the byte layout of pages and records): a
  record is its size, a page its entries. What a decoder accepts of damaged
  bytes is not modelled, except the magic numbers and torn records.
- Identities, peers and workspace ids are values that never change.
- Conversions between values and Rust types, and scalar types other than `Int`:
  all share one last-writer-wins merge.
- Failures of `BPlusTree` to grow its file, and crashes in the middle of a call
  of a backend: the code makes no promise about either. `Table` takes a put as
  atomic.
- `State` hands calls to its backend; only its sorted reads are modelled.
- Buffer pooling, error texts, statistics of caches and the tests.
- The network: the repository has none yet. `Replicas` and `Devices` let events
  of other peers arrive in any order, as the insert path accepts them.
