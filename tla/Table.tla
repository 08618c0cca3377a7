------------------------------- MODULE Table -------------------------------
(***************************************************************************)
(* Table of zendb-storage: a materialised State, a bounded write-back      *)
(* cache, a Topic<Change> that every change goes to first, and a recovery  *)
(* consumer whose committed offset says how much of the topic the State    *)
(* already has.  The topic is the log ChangeLog describes (which Topic     *)
(* implements); a put to the State is atomic and, unless the State is in   *)
(* memory, survives a process crash (a shared mmap).  Cells and the CRDT   *)
(* operations on them are the parameters Apply and Changes.                *)
(***************************************************************************)
EXTENDS Integers, Sequences, FiniteSets

CONSTANTS
  Key, Op, Cell, Absent,
  Apply(_, _),     \* the cell after apply_walk of an operation on a cell or Absent
  Changes(_, _),   \* whether apply_walk reports a change
  MaxBuffered,     \* TableConfig.max_buffered_records
  InMemory,        \* the State is State::InMemory
  PutFails,        \* a put to the State may return an error
  MaxLog           \* bound of the model: records ever appended

ASSUME TableConstants ==
  /\ Key \subseteq Int /\ IsFiniteSet(Key)
  /\ Absent \notin Cell
  /\ \A c \in Cell \cup {Absent}, op \in Op :
       /\ Changes(c, op) \in BOOLEAN
       /\ Changes(c, op) => Apply(c, op) \in Cell
  /\ MaxBuffered \in Nat /\ MaxLog \in Nat
  /\ InMemory \in BOOLEAN /\ PutFails \in BOOLEAN

VARIABLES
  up,         \* the Table value exists
  state,      \* the State: key -> cell or Absent
  cache,      \* the SkipList: key -> cell or Absent
  novel,      \* novel_pending
  log,        \* the topic: every change ever appended, key and `current` cell
  low,        \* changes at offsets below low have been compacted away
  committed,  \* the recovery consumer's committed offset
  volatile    \* its volatile offset

vars == <<up, state, cache, novel, log, low, committed, volatile>>

Row == Cell \cup {Absent}
Change == [key : Key, cell : Cell]
Nothing == [k \in Key |-> Absent]
Present(rows) == {k \in Key : rows[k] # Absent}

(* Rows are cells, and all cursors lie within the topic.                     *)
TypeOK ==
  /\ up \in BOOLEAN
  /\ state \in [Key -> Row] /\ cache \in [Key -> Row]
  /\ novel \in Nat
  /\ log \in Seq(Change)
  /\ low \in 0 .. Len(log) /\ committed \in 0 .. Len(log) /\ volatile \in 0 .. Len(log)

(* create registers the recovery consumer at the tail of the empty topic. *)
Init ==
  /\ up = TRUE
  /\ state = Nothing /\ cache = Nothing /\ novel = 0
  /\ log = << >> /\ low = 0 /\ committed = 0 /\ volatile = 0

(* Mutant of View: the state wins over the cache. *)
StaleView == [k \in Key |-> IF state[k] # Absent THEN state[k] ELSE cache[k]]

(* get: the cache, or else the state. *)
View == [k \in Key |-> IF cache[k] # Absent THEN cache[k] ELSE state[k]]
---------------------------------------------------------------------------
(* drain_cache puts the cached rows in key order. *)
Written(ks) == [k \in Key |-> IF k \in ks THEN cache[k] ELSE state[k]]
Cached == Present(cache)
FirstRows(j) == {k \in Cached : k < j}

(* prepare_cache drains when another row would not fit. *)
Full(k) == Cardinality(Cached) >= MaxBuffered /\ k \notin Cached

(* Mutant of Reclaims: compaction goes by the volatile cursor. *)
ReclaimsRead == low' \in low .. volatile

(* Any append may rotate the topic's segment and compact: up to the slowest  *)
(* consumer, of which the recovery consumer is one.                          *)
Reclaims == low' \in low .. committed

(* Mutant of IsNew: a row that is not cached counts as new. *)
IsUncached(k) == k \notin Cached

(* change.previous.is_none() *)
IsNew(k) == View[k] = Absent

(* The Change an operation appends to the topic, without the fields recovery *)
(* does not use.                                                             *)
ChangeOf(k, op) == [key |-> k, cell |-> Apply(View[k], op)]

(* insert, when the operation changes the row and nothing fails.  An         *)
(* operation that changes nothing is ignored without an effect.              *)
Insert(k, op) ==
  /\ up /\ Len(log) < MaxLog /\ MaxBuffered > 0
  /\ Changes(View[k], op)
  /\ state' = IF Full(k) THEN Written(Cached) ELSE state
  /\ cache' = [IF Full(k) THEN Nothing ELSE cache EXCEPT ![k] = Apply(View[k], op)]
  /\ novel' = (IF Full(k) THEN 0 ELSE novel) + (IF IsNew(k) THEN 1 ELSE 0)
  /\ log' = Append(log, ChangeOf(k, op))
  /\ volatile' = Len(log) + 1
  /\ Reclaims
  /\ UNCHANGED <<up, committed>>

(* With no room in the cache for any row its put fails after the append: the *)
(* caller gets an error, the change is in the topic.                         *)
InsertFails(k, op) ==
  /\ up /\ Len(log) < MaxLog /\ MaxBuffered = 0
  /\ Changes(View[k], op)
  /\ log' = Append(log, ChangeOf(k, op))
  /\ Reclaims
  /\ UNCHANGED <<up, state, cache, novel, committed, volatile>>

(* Mutant of DrainFails: the cache is emptied before its rows are put. *)
DrainFailsEmpty ==
  /\ up /\ PutFails
  /\ \E j \in Cached : state' = Written(FirstRows(j))
  /\ cache' = Nothing
  /\ UNCHANGED <<up, novel, log, low, committed, volatile>>

(* A put of a drain fails, in insert or in flush: the rows before it are in  *)
(* the state, the cache and novel_pending stay.                              *)
DrainFails ==
  /\ up /\ PutFails
  /\ \E j \in Cached : state' = Written(FirstRows(j))
  /\ UNCHANGED <<up, cache, novel, log, low, committed, volatile>>

(* Mutant of CommitRecovery: whatever the State is. *)
CommitAlways(offset) == committed' = offset

(* commit_recovery: the State in memory has to be rebuilt from the whole     *)
(* topic, so its cursor is never committed.                                  *)
CommitRecovery(offset) == committed' = IF InMemory THEN committed ELSE offset

(* flush and sync: drain, then commit. *)
Flush ==
  /\ up
  /\ state' = Written(Cached) /\ cache' = Nothing /\ novel' = 0
  /\ CommitRecovery(volatile)
  /\ UNCHANGED <<up, log, low, volatile>>

Compact ==
  /\ up /\ Reclaims
  /\ UNCHANGED <<up, state, cache, novel, log, committed, volatile>>
---------------------------------------------------------------------------
(* The process is gone, the State held the rows st. *)
Down(st) ==
  /\ up' = FALSE
  /\ state' = IF InMemory THEN Nothing ELSE st
  /\ cache' = Nothing /\ novel' = 0 /\ volatile' = 0

(* drop flushes; a failing drain is ignored and nothing is committed. *)
Close ==
  /\ up
  /\ \/ Down(Written(Cached)) /\ CommitRecovery(volatile)
     \/ /\ PutFails /\ UNCHANGED committed
        /\ \E j \in Cached : Down(Written(FirstRows(j)))
  /\ UNCHANGED <<log, low>>

Crash == up /\ Down(state) /\ UNCHANGED <<log, low, committed>>

(* Inside a drain, or between the drain of a flush and its commit. *)
CrashInDrain ==
  /\ up
  /\ \E part \in {FirstRows(j) : j \in Cached} \cup {Cached} : Down(Written(part))
  /\ UNCHANGED <<log, low, committed>>

(* Between the append of an insert and its return. *)
CrashInInsert(k, op) ==
  /\ up /\ Len(log) < MaxLog
  /\ Changes(View[k], op)
  /\ Down(IF Full(k) THEN Written(Cached) ELSE state)
  /\ log' = Append(log, ChangeOf(k, op))
  /\ Reclaims
  /\ UNCHANGED committed

(* The state rows after replay_recovery has put the changes that the         *)
(* recovery consumer reads up to offset e, in log order: the last one of a   *)
(* key wins.  What was compacted away cannot be read.                        *)
Read(k, e) == {i \in 1 .. e : committed < i /\ low < i /\ log[i].key = k}
IsLast(i, S) == i \in S /\ \A j \in S : j <= i
Replayed(e) ==
  [k \in Key |-> IF Read(k, e) = {} THEN state[k]
                 ELSE log[CHOOSE i \in 1 .. e : IsLast(i, Read(k, e))].cell]

Open ==
  /\ ~up
  /\ up' = TRUE
  /\ state' = Replayed(Len(log))
  /\ CommitRecovery(Len(log)) /\ volatile' = Len(log)
  /\ UNCHANGED <<cache, novel, log, low>>

(* A crash inside open, after some of the puts. *)
CrashInOpen ==
  /\ ~up
  /\ \E e \in committed .. Len(log) : Down(Replayed(e))
  /\ UNCHANGED <<log, low, committed>>

(* A put of the replay fails: open returns the error and drops the Table,    *)
(* whose flush commits the cursor, and that is past the failed change.       *)
OpenFails ==
  /\ ~up /\ PutFails
  /\ \E e \in committed + 1 .. Len(log) : Down(Replayed(e - 1)) /\ CommitRecovery(e)
  /\ UNCHANGED <<log, low>>
---------------------------------------------------------------------------
Next ==
  \/ \E k \in Key, op \in Op : Insert(k, op) \/ InsertFails(k, op) \/ CrashInInsert(k, op)
  \/ DrainFails \/ Flush \/ Compact \/ Close
  \/ Crash \/ CrashInDrain \/ Open \/ CrashInOpen \/ OpenFails

Spec == Init /\ [][Next]_vars
---------------------------------------------------------------------------
(* The rows the files hold: the state with the unread changes replayed. *)
Durable == Replayed(Len(log))

(* Whatever is cached, flushed, compacted or half drained, the rows get()    *)
(* shows are the rows a crash now and the next open would show.              *)
ViewIsRecoverable == (up /\ MaxBuffered > 0) => Durable = View

(* size() = rows of the state + novel_pending, maintained over drains and    *)
(* inserts of rows that are new, cached or materialised, is the number of    *)
(* rows get() finds.                                                         *)
SizeExact == ~PutFails => Cardinality(Present(state)) + novel = Cardinality(Present(View))

(* Write-ahead: no cached or materialised row is newer than the topic, so a  *)
(* consumer of the changes never misses a value a reader has seen.           *)
WriteAhead ==
  \A k \in Key : View[k] # Absent => [key |-> k, cell |-> View[k]] \in {log[i] : i \in 1 .. Len(log)}

(* The cache never holds more rows than max_buffered_records. *)
CacheBounded == Cardinality(Cached) <= MaxBuffered

(* The recovery consumer uses the topic as a ChangeLog user must: its        *)
(* committed offset never moves back, over crashes and reopening, and        *)
(* nothing it has not committed is reclaimed.                                *)
Log == INSTANCE ChangeLog WITH
         Name <- {"recovery"},
         high <- Len(log),
         committed <- [n \in {"recovery"} |-> committed]
UsesLog == [][Log!Next]_Log!logVars

(* A Table is an atomic map of rows: every insert takes effect at once or    *)
(* not at all, and no flush, compaction, crash or recovery changes a row.    *)
Rows == INSTANCE AbstractTable WITH rows <- Durable
ImplementsTable == Rows!Spec
=============================================================================
