----------------------------- MODULE TablePower -----------------------------
(***************************************************************************)
(* Table with the page cache: what flush, sync and open leave on disk when *)
(* the power fails.                                                        *)
(*                                                                         *)
(* The state and the recovery cursor live in mapped files, whose pages     *)
(* the system writes back whenever it likes.  A put changes pages of the   *)
(* state in place and may move other rows to other pages, so until the     *)
(* next state.sync a power failure can take any row, an older one too, or  *)
(* leave a file that cannot be opened.  The topic is an append-only file   *)
(* of which a prefix survives, at least what was fsynced.                  *)
(*                                                                         *)
(* Two things are assumed of the system: the death of the process alone    *)
(* does not interrupt a put, and the record of the cursor, the only one    *)
(* that a commit writes, gets to the disk whole or not at all.  A row is   *)
(* the number of the change that wrote it.  The topic has one segment and  *)
(* is not compacted here: see Topic and TopicDurability.                   *)
(***************************************************************************)
EXTENDS Integers, Sequences, FiniteSets, FiniteSetsExt

CONSTANTS
  Keys,
  CacheLimit,  \* max_buffered_records
  MaxChange,   \* how many changes are made
  Flushes      \* is flush called, or only sync?

VARIABLES
  log,         \* the topic: a sequence of [key, id]
  synced,      \* how much of it has been fsynced
  state,       \* the State: key -> id, 0 for none
  stable,      \* key -> the ids that may be on disk, 0 for none
  dirty,       \* has a row been put since the last state.sync?
  cache,       \* the cache: key -> id, 0 for none
  cursor,      \* the recovery consumer's volatile offset
  committed,   \* its committed offset
  onDisk,      \* the committed offsets that may be on disk
  at,          \* the step of flush, sync or open that comes next, "idle", "down" or "unreadable"
  changes,     \* how many changes were made
  promised,    \* the latest that get() returned for each key when a sync returned Ok
  torn         \* history: has the power failed while the state was dirty?

vars == <<log, synced, state, stable, dirty, cache, cursor, committed, onDisk, at, changes, promised, torn>>

file == <<state, stable, dirty>>

Nothing == [k \in Keys |-> 0]

Init ==
  /\ log = <<>> /\ synced = 0
  /\ state = Nothing /\ stable = [k \in Keys |-> {0}] /\ dirty = FALSE /\ cache = Nothing
  /\ cursor = 0 /\ committed = 0 /\ onDisk = {0}
  /\ at = "idle" /\ changes = 0 /\ promised = Nothing /\ torn = FALSE

(* get: the cache, then the state. *)
View(k) == IF cache[k] # 0 THEN cache[k] ELSE state[k]

Drained == [k \in Keys |-> View(k)]

(* After a put each row, put or not, is on disk as it was, as it is, or    *)
(* nowhere: its page may have been split or compacted.                     *)
Put(new) ==
  /\ state' = new
  /\ stable' = [k \in Keys |-> stable[k] \union {0, new[k]}]
  /\ dirty' = TRUE

(* drain_cache returns early when there is nothing to put. *)
PutCache == IF cache = Nothing THEN UNCHANGED file ELSE Put(Drained)
---------------------------------------------------------------------------
Full(k) == Cardinality({j \in Keys : cache[j] # 0}) >= CacheLimit /\ cache[k] = 0

(* insert: drain if the cache is full, append, cache, move the cursor. *)
Insert(k) ==
  /\ at = "idle" /\ changes < MaxChange
  /\ changes' = changes + 1
  /\ log' = Append(log, [key |-> k, id |-> changes'])
  /\ IF Full(k)
     THEN PutCache /\ cache' = [Nothing EXCEPT ![k] = changes']
     ELSE cache' = [cache EXCEPT ![k] = changes'] /\ UNCHANGED file
  /\ cursor' = Len(log')
  /\ UNCHANGED <<synced, committed, onDisk, at, promised, torn>>

(* The cache after drain_cache. *)
Cleared == Nothing

(* flush and sync begin with drain_cache. *)
Drain(next) ==
  /\ at = "idle"
  /\ PutCache
  /\ cache' = Cleared
  /\ at' = next
  /\ UNCHANGED <<log, synced, cursor, committed, onDisk, changes, promised, torn>>

(* flush: state.flush asks for the write-back and does not wait for it. *)
Flush == Flushes /\ Drain("flush commit")
Sync == Drain("state sync")

(* Mutant of StateSynced: the write-back is only asked for. *)
StateSyncedLater == stable

(* What may be on disk after state.sync. *)
StateSynced == [k \in Keys |-> {state[k]}]

StateSync ==
  /\ at = "state sync"
  /\ stable' = StateSynced
  /\ dirty' = FALSE
  /\ at' = "commit"
  /\ UNCHANGED <<log, synced, state, cache, cursor, committed, onDisk, changes, promised, torn>>

(* commit_recovery; flush ends here, topic.flush waits for nothing. *)
Commit ==
  /\ at \in {"commit", "flush commit"}
  /\ committed' = cursor
  /\ onDisk' = onDisk \union {cursor}
  /\ at' = IF at = "commit" THEN "log sync" ELSE "idle"
  /\ UNCHANGED <<log, synced, file, cache, cursor, changes, promised, torn>>

(* topic.sync: the active segment, then the offsets. *)
LogSync ==
  /\ at = "log sync"
  /\ synced' = Len(log)
  /\ at' = "offsets sync"
  /\ UNCHANGED <<log, file, cache, cursor, committed, onDisk, changes, promised, torn>>

OffsetsSync ==
  /\ at = "offsets sync"
  /\ onDisk' = {committed}
  /\ promised' = [k \in Keys |-> Max({promised[k], View(k)})]
  /\ at' = "idle"
  /\ UNCHANGED <<log, synced, file, cache, cursor, committed, changes, torn>>
---------------------------------------------------------------------------
Down ==
  /\ at \notin {"down", "unreadable"}
  /\ cache' = Nothing /\ cursor' = 0
  /\ UNCHANGED <<changes, promised>>

(* The process dies; what is written is kept by the system. *)
Crash == Down /\ at' = "down" /\ UNCHANGED <<log, synced, file, committed, onDisk, torn>>

(* The power fails.  A dirty state may be found with any mixture of rows,  *)
(* or not be one any more.                                                 *)
PowerLoss ==
  /\ Down
  /\ at' = "down" \/ (dirty /\ at' = "unreadable")
  /\ torn' = (torn \/ dirty)
  /\ \E n \in synced..Len(log) : log' = SubSeq(log, 1, n) /\ synced' = n
  /\ state' \in {s \in [Keys -> UNION {stable[k] : k \in Keys}] : \A k \in Keys : s[k] \in stable[k]}
  /\ stable' = [k \in Keys |-> {state'[k]}]
  /\ dirty' = FALSE
  /\ committed' \in onDisk
  /\ onDisk' = {committed'}

(* The last change of k in the log after the first n, or else otherwise. *)
LastChange(k, n, otherwise) ==
  LET at_k == {i \in (n + 1)..Len(log) : log[i].key = k}
  IN  IF at_k = {} THEN otherwise ELSE log[Max(at_k)].id

(* open: replay from the committed offset, then sync state and topic. *)
Open ==
  /\ at = "down"
  /\ IF Len(log) <= committed THEN UNCHANGED file
     ELSE Put([k \in Keys |-> LastChange(k, committed, state[k])])
  /\ cursor' = IF committed > Len(log) THEN committed ELSE Len(log)
  /\ at' = "state sync"
  /\ UNCHANGED <<log, synced, cache, committed, onDisk, changes, promised, torn>>

Next ==
  \/ \E k \in Keys : Insert(k)
  \/ Flush \/ Sync \/ StateSync \/ Commit \/ LogSync \/ OffsetsSync
  \/ Crash \/ PowerLoss \/ Open

Spec == Init /\ [][Next]_vars
---------------------------------------------------------------------------
(* What is on disk now is among what may be there, and a cached row is     *)
(* newer than that of the state.                                           *)
TypeOK ==
  /\ Len(log) <= MaxChange /\ synced \in 0..Len(log)
  /\ \A k \in Keys : state[k] \in stable[k] /\ stable[k] \subseteq 0..MaxChange /\ (cache[k] # 0 => cache[k] > state[k])
  /\ committed \in onDisk /\ onDisk \subseteq 0..MaxChange

(* What get() returned when sync() returned Ok is there, or something      *)
(* newer, after any crashes and any power failures, whatever tail of the   *)
(* topic and whichever cursor those leave, as long as none of them struck  *)
(* a state with rows put since its last state.sync.  One that does may     *)
(* lose rows that were synced.                                             *)
SyncedSurvive == at = "idle" /\ ~torn => \A k \in Keys : View(k) >= promised[k]

(* A change that is in the topic is in the table: open replays what the    *)
(* state lacks.  Refuted, even for a state that is never torn: a cursor    *)
(* that survives changes of the topic that did not is ahead of the changes *)
(* made next, and open skips them.                                         *)
LogIsApplied == at = "idle" /\ ~torn => \A k \in Keys : View(k) >= LastChange(k, 0, 0)
=============================================================================
