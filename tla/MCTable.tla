------------------------------ MODULE MCTable ------------------------------
(***************************************************************************)
(* Table for TLC, with what it is made of: a behaviour is that of a Table, *)
(* of a Table under faults or in an unusual configuration, of a Table      *)
(* whose power may fail, of the SkipList that is its cache, or of one      *)
(* iterating read.  mode says which; the variables of the others stay as   *)
(* they are.                                                               *)
(*                                                                         *)
(* A cell counts the increments applied to its row, so all the values a    *)
(* row takes differ; the operation 0 changes nothing.                      *)
(***************************************************************************)
EXTENDS Table

Count(c, op) == IF c = Absent THEN op ELSE c + op
Increments(c, op) == op > 0 /\ Count(c, op) \in Cell

VARIABLES
  mode,
  up2, state2, cache2, novel2, log2, low2, committed2, volatile2,  \* the other Table
  synced, stable, dirty, cursor, onDisk, at, changes, promised, torn,  \* TablePower, with log2, state2, cache2 and committed2
  list, refused,                                                   \* SkipList
  kind, read, left, right, out                                     \* TableReads, with state2 and cache2

Unused == "unused"
only2 == <<up2, novel2, log2, low2, committed2, volatile2>>
onlyPower == <<synced, stable, dirty, cursor, onDisk, at, changes, promised, torn>>
rows2 == <<state2, cache2>>
cacheList == <<list, refused>>
reading == <<kind, read, left, right, out>>

(* Puts to the State may fail; no row may be buffered; the State is in     *)
(* memory.                                                                 *)
Failing == INSTANCE Table WITH
  PutFails <- TRUE, up <- up2, state <- state2, cache <- cache2, novel <- novel2, log <- log2,
  low <- low2, committed <- committed2, volatile <- volatile2
Unbuffered == INSTANCE Table WITH
  MaxBuffered <- 0, up <- up2, state <- state2, cache <- cache2, novel <- novel2, log <- log2,
  low <- low2, committed <- committed2, volatile <- volatile2
Memory == INSTANCE Table WITH
  InMemory <- TRUE, up <- up2, state <- state2, cache <- cache2, novel <- novel2, log <- log2,
  low <- low2, committed <- committed2, volatile <- volatile2

(* Flushes, syncs and openings that a power failure may cut short. *)
Power == INSTANCE TablePower WITH
  Keys <- {"a", "b"}, CacheLimit <- 1, MaxChange <- 3, Flushes <- TRUE,
  log <- log2, state <- state2, cache <- cache2, committed <- committed2

(* A SkipList of two slots, and one of three in which nodes lie between    *)
(* nodes.                                                                  *)
Slots2 == INSTANCE SkipList WITH Keys <- 1 .. 3, Vals <- {"a", "b"}, Capacity <- 2, MaxLevel <- 2
Slots3 == INSTANCE SkipList WITH Keys <- 1 .. 4, Vals <- {"a"}, Capacity <- 3, MaxLevel <- 2

(* The reads of a Table over any State; a row says where it is stored. *)
Stored(side, k) == side
Reads == INSTANCE TableReads WITH Keys <- 1 .. 4, Row <- Stored, state <- state2, cache <- cache2

NoRows == state2 = Unused /\ cache2 = Unused
NoLog == log2 = Unused /\ committed2 = Unused
NoSession == up2 = Unused /\ novel2 = Unused /\ low2 = Unused /\ volatile2 = Unused
NoTable == NoLog /\ NoSession
NoPower ==
  /\ synced = Unused /\ stable = Unused /\ dirty = Unused /\ cursor = Unused /\ onDisk = Unused
  /\ at = Unused /\ changes = Unused /\ promised = Unused /\ torn = Unused
NoList == list = Unused /\ refused = Unused
NoRead == kind = Unused /\ read = Unused /\ left = Unused /\ right = Unused /\ out = Unused

MCInit ==
  /\ Init
  /\ \/ /\ NoPower
        /\ \/ mode = "table" /\ NoTable /\ NoRows /\ NoList /\ NoRead
           \/ mode = "failing" /\ Failing!Init /\ NoList /\ NoRead
           \/ mode = "unbuffered" /\ Unbuffered!Init /\ NoList /\ NoRead
           \/ mode = "memory" /\ Memory!Init /\ NoList /\ NoRead
           \/ mode = "slots2" /\ Slots2!Init /\ NoTable /\ NoRows /\ NoRead
           \/ mode = "slots3" /\ Slots3!Init /\ NoTable /\ NoRows /\ NoRead
           \/ mode = "reads" /\ Reads!Init /\ NoTable /\ NoList
     \/ mode = "power" /\ Power!Init /\ NoSession /\ NoList /\ NoRead

(* The modes that leave the base Table alone. *)
Other ==
  \/ mode = "failing" /\ Failing!Next /\ UNCHANGED <<onlyPower, cacheList, reading>>
  \/ mode = "unbuffered" /\ Unbuffered!Next /\ UNCHANGED <<onlyPower, cacheList, reading>>
  \/ mode = "memory" /\ Memory!Next /\ UNCHANGED <<onlyPower, cacheList, reading>>
  \/ mode = "power" /\ Power!Next /\ UNCHANGED <<up2, novel2, low2, volatile2, cacheList, reading>>
  \/ mode = "slots2" /\ Slots2!Next /\ UNCHANGED <<only2, rows2, onlyPower, reading>>
  \/ mode = "slots3" /\ Slots3!Next /\ UNCHANGED <<only2, rows2, onlyPower, reading>>
  \/ mode = "reads" /\ Reads!Next /\ UNCHANGED <<only2, onlyPower, cacheList>>

MCNext ==
  \/ mode = "table" /\ Next /\ UNCHANGED <<mode, only2, rows2, onlyPower, cacheList, reading>>
  \/ Other /\ UNCHANGED <<mode, vars>>

MCSpec == MCInit /\ [][MCNext]_<<mode, vars, only2, rows2, onlyPower, cacheList, reading>>
---------------------------------------------------------------------------
(* With puts that fail in the middle of a drain, and with a State in       *)
(* memory, of which nothing survives, get() still shows what a crash and   *)
(* the next open would show (drain_cache, replay_recovery).  With          *)
(* max_buffered_records = 0 every insert fails after its append, and       *)
(* size() never counts the refused row.                                    *)
FaultsRecoverable ==
  /\ mode = "failing" => Failing!ViewIsRecoverable
  /\ mode = "memory" => Memory!ViewIsRecoverable
  /\ mode = "unbuffered" => Unbuffered!SizeExact

(* A Table whose State is in memory replays the whole topic at open: it is *)
(* the same atomic map, for commit_recovery commits nothing.               *)
MemoryImplementsTable ==
  /\ mode = "memory" => Memory!Rows!Init
  /\ [][mode = "memory" => [Memory!Rows!Next]_(Memory!Durable)]_<<only2, rows2>>

(* What get() returned when sync() returned Ok is there, or something      *)
(* newer, after any crashes and any power failures, as long as none struck *)
(* a State with rows put since its last sync: a put changes pages in       *)
(* place, and may cost rows synced before (sync, flush, replay_recovery).  *)
SyncedSurvive == mode = "power" => Power!SyncedSurvive

(* Every level of a SkipList links, in key order, exactly the nodes that   *)
(* are as high, no slot is lost or given to two keys, and every read, by   *)
(* key, by range and from either end, is that of a map (alloc,             *)
(* remove_found, the bulk calls).                                          *)
CacheExact ==
  /\ mode = "slots2" => Slots2!SlotsExact /\ Slots2!Layered /\ Slots2!ReadsExact
  /\ mode = "slots3" => Slots3!SlotsExact /\ Slots3!Layered /\ Slots3!ReadsExact

(* Each call of a SkipList does what the call of BoundedMap does: a new    *)
(* key is refused only when max_entries keys are stored, however many      *)
(* slots were freed and reused, and a refused call changes nothing.        *)
IsBoundedMap ==
  /\ mode = "slots2" => Slots2!Map!Init
  /\ [][mode = "slots2" => Slots2!Map!Next]_<<list, refused>>

(* However far a caller iterates, it has seen the first rows of what get   *)
(* would answer key by key, in order and each key once; the rest is still  *)
(* to come; and first and last are the ends of it (MergedEntries).         *)
IteratesExact == mode = "reads" => Reads!OrderedPrefix /\ Reads!NothingMissing /\ Reads!EndsAgree
=============================================================================
