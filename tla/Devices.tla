------------------------------ MODULE Devices -------------------------------
(***************************************************************************)
(* Devices (devices/runtime.rs) under the write path of TableHandle        *)
(* (tables/runtime.rs): the registry of roles and its cache, the hybrid    *)
(* clock, the receipts of every peer, and their checkpoints in `_peers`.   *)
(*                                                                         *)
(* Threads write an application row or a row of `_devices`, and events of  *)
(* other peers reach insert_internal, in any order and more than once.  A  *)
(* write takes one step for each lock it takes: the role is checked, the   *)
(* stamp minted, the role checked again, the table changed, and then, with *)
(* the table unlocked, ReceiptListener and DeviceRegistryListener run.     *)
(*                                                                         *)
(* A table is a durable map of last-writer-wins rows: module Table shows   *)
(* that what an insert stored outlives the process.                        *)
(***************************************************************************)
EXTENDS Integers, FiniteSets, Receipts

CONSTANTS
  Peers,          \* PeerIds, positive numbers in their order
  Owners,         \* the peers, at least one, whose identity opens this directory
  Threads,
  Roles,          \* the roles of the model: None 0, Contributor 1, Operator 2, Admin 3
  RemoteEvents,   \* events made elsewhere, with the stamps they carry
  MaxMs,          \* the wall clock reads 0..MaxMs, and may go back
  MaxLogical,     \* u32::MAX
  MaxCrashes      \* how often the process may die

Contributor == 1
Admin == 3

(* No row, a deleted row, or no entry in the cache. *)
Gone == -1

(* The row of the application table; the rows of `_devices` are Peers. *)
App == 0

NoClock == [next_sequence |-> 0, last_time |-> [ms |-> 0, logical |-> 0]]
Unknown == [receipts |-> EmptyWindow, clock |-> NoClock]

Stamp(peer, sequence, time) == [peer |-> peer, sequence |-> sequence, time |-> time]
Event(key, value, stamp) == [key |-> key, value |-> value, stamp |-> stamp]

Rows == Peers \union {App}
Values == Roles \union {Gone, Admin}
Times == [ms : Nat, logical : 0..MaxLogical]
Stamps == [peer : Peers, sequence : 1..MaxSequence, time : Times]
Events == [key : Rows, value : Values, stamp : Stamps]

ASSUME DevicesAssumption ==
  /\ Peers \subseteq Nat \ {0} /\ Owners \subseteq Peers
  /\ MaxSequence >= 2 /\ MaxMs \in Nat /\ MaxLogical \in Nat /\ MaxCrashes \in Nat
  /\ RemoteEvents \subseteq Events

TimeBefore(a, b) == a.ms < b.ms \/ (a.ms = b.ms /\ a.logical < b.logical)

(* Ord for EventStamp: time first, identity second. *)
StampBefore(a, b) ==
  \/ TimeBefore(a.time, b.time)
  \/ a.time = b.time /\ (a.peer < b.peer \/ (a.peer = b.peer /\ a.sequence < b.sequence))

Oldest == Stamp(0, 0, [ms |-> 0, logical |-> 0])

(* What a thread that has made no call since the workspace was opened does. *)
Idle == [at |-> "idle", own |-> FALSE, event |-> Event(App, Gone, Oldest)]

VARIABLES
  open,        \* is the workspace open?
  local,       \* local_peer_id
  cells,       \* the durable rows: [stamp, value]
  entries,     \* registry_cache.entries, the role of each peer
  local_role,  \* registry_cache.local_role
  peers,       \* peer_cache: the PeerState of every peer
  dirty,       \* local_dirty and dirty_others
  saved,       \* the `_peers` State, a map of PeerStates
  thread,      \* what each thread is doing, and with which event
  stored,      \* history: the events that were stored
  crashes,     \* how often it has died
  covered,     \* history: the last sequence number before the last finished checkpoint
  owners       \* history: the peers that have opened the workspace

memory == <<entries, local_role, peers, dirty>>
vars == <<open, local, cells, entries, local_role, peers, dirty, saved, thread, crashes, stored, covered, owners>>

Clock == peers[local].clock

(* Devices::create *)
Create(me) ==
  LET time == [ms |-> 0, logical |-> 0]
      stamp == Stamp(me, 1, time)
  IN  /\ open = TRUE
      /\ local = me
      /\ cells = [k \in Peers \union {App} |->
                    IF k = me THEN [stamp |-> stamp, value |-> Admin] ELSE [stamp |-> Oldest, value |-> Gone]]
      /\ entries = [p \in Peers |-> IF p = me THEN Admin ELSE Gone]
      /\ local_role = Admin
      /\ peers = [p \in Peers |->
                    IF p = me THEN [receipts |-> [max_seen |-> 1, missing |-> <<>>],
                                    clock |-> [next_sequence |-> 2, last_time |-> time]]
                              ELSE Unknown]
      /\ dirty = {me}
      /\ saved = <<>>
      /\ thread = [t \in Threads |-> Idle]
      /\ crashes = 0
      /\ stored = {Event(me, Admin, stamp)}
      /\ covered = 0
      /\ owners = {me}

Init == \E me \in Owners : Create(me)
---------------------------------------------------------------------------
(* has_access *)
HasAccess(p, required) == (IF p = local THEN local_role ELSE entries[p]) >= required

Required(key) == IF key = App THEN Contributor ELSE Admin

(* A thread that has no call in progress; the last one's result is kept. *)
Resting(t) == thread[t].at \in {"idle", "applied", "ignored", "denied", "exhausted"}

(* Thread t goes on to step s of its call. *)
Goes(t, s) == thread' = [thread EXCEPT ![t].at = s]

Begin(t, key, value) ==
  /\ open
  /\ Resting(t)
  /\ HasAccess(local, Required(key))
  /\ thread' = [thread EXCEPT ![t] = [at |-> "granted", own |-> TRUE, event |-> Event(key, value, Oldest)]]
  /\ UNCHANGED <<open, local, cells, memory, saved, stored, covered, crashes, owners>>

(* TableHandle::insert of the application row, up to the first check. *)
Insert(t) == Begin(t, App, Gone)

(* Devices::upsert of a record the cache does not hold already. *)
Upsert(t, p, role) == entries[p] # role /\ Begin(t, p, role)

(* The time of the next stamp when the wall clock reads wall. *)
NextTime(wall) ==
  IF wall > Clock.last_time.ms THEN [ms |-> wall, logical |-> 0]
  ELSE [Clock.last_time EXCEPT !.logical = @ + 1]

Exhausted(time) == Clock.next_sequence = MaxSequence \/ time.logical > MaxLogical

(* Mutant of Advanced: the sequence number is not used up. *)
TimeAdvanced(time) == [Clock EXCEPT !.last_time = time]

(* The clock after a stamp of this time. *)
Advanced(time) == [next_sequence |-> Clock.next_sequence + 1, last_time |-> time]

(* local_dirty = true *)
Touched == dirty \union {local}

(* mint: under the lock of the peer cache; fails with ClockExhausted. *)
Mint(t) ==
  /\ thread[t].at = "granted"
  /\ \E wall \in 0..MaxMs :
       LET time == NextTime(wall)
       IN  IF Exhausted(time) THEN Goes(t, "exhausted") /\ UNCHANGED memory
           ELSE /\ thread' = [thread EXCEPT ![t] =
                                [at |-> "minted", own |-> TRUE,
                                 event |-> Event(@.event.key, @.event.value, Stamp(local, Clock.next_sequence, time))]]
                /\ peers' = [peers EXCEPT ![local].clock = Advanced(time)]
                /\ dirty' = Touched
                /\ UNCHANGED <<entries, local_role>>
  /\ UNCHANGED <<open, local, cells, saved, stored, covered, crashes, owners>>

(* An event of another device reaches insert_internal. *)
Admit(t, e) ==
  /\ open
  /\ Resting(t)
  /\ thread' = [thread EXCEPT ![t] = [at |-> "minted", own |-> FALSE, event |-> e]]
  /\ UNCHANGED <<open, local, cells, memory, saved, stored, covered, crashes, owners>>

(* insert_internal: the check of the event's author. *)
Authorize(t) ==
  LET e == thread[t].event
  IN  /\ thread[t].at = "minted"
      /\ Goes(t, IF HasAccess(e.stamp.peer, Required(e.key)) THEN "authorized" ELSE "denied")
      /\ UNCHANGED <<open, local, cells, memory, saved, stored, covered, crashes, owners>>

(* insert_unchecked: Table::insert under the table's lock. *)
Store(t) ==
  LET e == thread[t].event
  IN  /\ thread[t].at = "authorized"
      /\ IF StampBefore(cells[e.key].stamp, e.stamp)
         THEN /\ cells' = [cells EXCEPT ![e.key] = [stamp |-> e.stamp, value |-> e.value]]
              /\ stored' = stored \union {e}
              /\ Goes(t, "stored")
         ELSE Goes(t, "ignored") /\ UNCHANGED <<cells, stored>>
      /\ UNCHANGED <<open, local, memory, saved, covered, crashes, owners>>

(* Mutant of Merged: the logical part of a stamp from ahead is dropped. *)
MergedPhysical(wall, time) ==
  LET ms == CHOOSE x \in {wall, Clock.last_time.ms, time.ms} : \A y \in {wall, Clock.last_time.ms, time.ms} : y <= x
  IN  [ms |-> ms, logical |-> IF ms = Clock.last_time.ms THEN Clock.last_time.logical ELSE 0]

(* The local clock after a stamp of this time was observed. *)
Merged(wall, time) ==
  LET last == Clock.last_time
      ms == CHOOSE x \in {wall, last.ms, time.ms} : \A y \in {wall, last.ms, time.ms} : y <= x
  IN  [ms |-> ms,
       logical |-> IF ms > last.ms /\ ms > time.ms THEN 0
                   ELSE IF ms = last.ms /\ ms = time.ms
                        THEN IF last.logical > time.logical THEN last.logical ELSE time.logical
                   ELSE IF ms = last.ms THEN last.logical ELSE time.logical]

(* ReceiptListener: Devices::observe.  An error is swallowed. *)
Observe(t) ==
  LET e == thread[t].event
      p == e.stamp.peer
  IN  /\ thread[t].at = "stored"
      /\ Goes(t, IF e.key = App THEN "applied" ELSE "observed")
      /\ IF p = local /\ e.stamp.sequence = MaxSequence THEN UNCHANGED <<peers, dirty>>
         ELSE /\ \E wall \in 0..MaxMs :
                   LET next == IF p = local /\ e.stamp.sequence + 1 > Clock.next_sequence
                               THEN e.stamp.sequence + 1 ELSE Clock.next_sequence
                   IN  peers' = [peers EXCEPT ![p].receipts = ObserveSequence(@, e.stamp.sequence),
                                              ![local].clock = [next_sequence |-> next,
                                                                last_time |-> Merged(wall, e.stamp.time)]]
              /\ dirty' = dirty \union {local, p}
      /\ UNCHANGED <<open, local, cells, entries, local_role, saved, stored, covered, crashes, owners>>

(* DeviceRegistryListener, after an Upsert or a Delete of a record. *)
Mirror(t) ==
  LET e == thread[t].event
  IN  /\ thread[t].at = "observed"
      /\ entries' = [entries EXCEPT ![e.key] = e.value]
      /\ local_role' = IF e.key = local THEN e.value ELSE local_role
      /\ Goes(t, "applied")
      /\ UNCHANGED <<open, local, cells, peers, dirty, saved, stored, covered, crashes, owners>>
---------------------------------------------------------------------------
(* What is left in memory when the process ends. *)
Forgotten ==
  /\ open' = FALSE
  /\ entries' = [p \in Peers |-> Gone] /\ local_role' = Gone
  /\ peers' = [p \in Peers |-> Unknown] /\ dirty' = {}
  /\ thread' = [t \in Threads |-> Idle]

Checkpoint(S) == saved' = [p \in DOMAIN saved \union S |-> IF p \in S THEN peers[p] ELSE saved[p]]

(* flush and sync: the dirty states are put, then the marks are cleared. *)
Flush ==
  /\ open
  /\ Checkpoint(dirty)
  /\ dirty' = {}
  /\ covered' = Clock.next_sequence - 1
  /\ UNCHANGED <<open, local, cells, entries, local_role, peers, thread, stored, crashes, owners>>

(* Drop of the last handle: a flush, and the memory is gone. *)
Close ==
  /\ open
  /\ \A t \in Threads : Resting(t)
  /\ Checkpoint(dirty)
  /\ covered' = Clock.next_sequence - 1
  /\ Forgotten
  /\ UNCHANGED <<local, cells, crashes, stored, owners>>

(* The process dies, at rest, in a write, or in a flush that has put the   *)
(* local state first and then some of the others, in the order of PeerId.  *)
Crash ==
  /\ open
  /\ crashes < MaxCrashes
  /\ crashes' = crashes + 1
  /\ \E S \in SUBSET dirty :
       /\ S # {} /\ local \in dirty => local \in S
       /\ \A p \in S \ {local}, q \in dirty \ {local} : q < p => q \in S
       /\ Checkpoint(S)
  /\ Forgotten
  /\ UNCHANGED <<local, cells, stored, covered, owners>>

(* Devices::open refuses a peer that is not in the registry, and one whose *)
(* checkpoint has no clock.                                                *)
Refuses(p) == cells[p].value = Gone \/ (p \in DOMAIN saved /\ saved[p].clock = NoClock)

Open(p) ==
  /\ ~open
  /\ ~Refuses(p)
  /\ open' = TRUE
  /\ local' = p
  /\ entries' = [q \in Peers |-> cells[q].value]
  /\ local_role' = cells[p].value
  /\ \E wall \in 0..MaxMs :
       peers' = [q \in Peers |->
                   IF q \in DOMAIN saved THEN saved[q]
                   ELSE IF q # p THEN Unknown
                   ELSE [Unknown EXCEPT !.clock = [next_sequence |-> 1, last_time |-> [ms |-> wall, logical |-> 0]]]]
  /\ dirty' = {p} \ DOMAIN saved
  /\ covered' = IF p = local THEN covered ELSE 0
  /\ owners' = owners \union {p}
  /\ UNCHANGED <<cells, saved, thread, stored, crashes>>

(* Threads T, writing roles R, meet events E of other peers, and the peers *)
(* O open the workspace.                                                   *)
Acts(T, R, E, O) ==
  \/ \E t \in T :
       \/ Insert(t) \/ \E p \in Peers, r \in R : Upsert(t, p, r)
       \/ \E e \in E : Admit(t, e)
       \/ Mint(t) \/ Authorize(t) \/ Store(t) \/ Observe(t) \/ Mirror(t)
  \/ Flush \/ Close \/ Crash
  \/ \E p \in O : Open(p)

Next == Acts(Threads, Roles, RemoteEvents, Owners)

Spec == Init /\ [][Next]_vars
---------------------------------------------------------------------------
Clocks == [next_sequence : 0..MaxSequence, last_time : Times]

(* Receipts that a window can have, and a clock that has started or none.  *)
IsPeerState(s) ==
  /\ DOMAIN s = {"receipts", "clock"} /\ Apart(s.receipts)
  /\ s.clock \in Clocks /\ (s.clock.next_sequence = 0 => s.clock = NoClock)

Steps == {"idle", "granted", "exhausted", "minted", "denied", "authorized", "ignored", "stored", "observed", "applied"}

Calls == [at : Steps, own : BOOLEAN, event : [key : Rows, value : Values, stamp : Stamps \union {Oldest}]]

(* The checkpoint of p, if there is one. *)
Kept(p) == IF p \in DOMAIN saved THEN saved[p] ELSE Unknown

(* The clocks and the receipts keep their widths, in memory and saved; the *)
(* peer that has the workspace open has a clock; and only a dirty state    *)
(* differs from the saved one.                                             *)
TypeOK ==
  /\ open \in BOOLEAN /\ local \in Owners /\ local_role \in Values
  /\ cells \in [Rows -> [stamp : Stamps \union {Oldest}, value : Values]]
  /\ entries \in [Peers -> Values]
  /\ DOMAIN peers = Peers /\ DOMAIN saved \subseteq Peers /\ dirty \subseteq Peers
  /\ \A p \in Peers : IsPeerState(peers[p]) /\ (p \in DOMAIN saved => IsPeerState(saved[p]))
  /\ thread \in [Threads -> Calls]
  /\ stored \subseteq Events /\ crashes \in 0..MaxCrashes /\ covered \in Nat
  /\ owners \subseteq Owners /\ local \in owners
  /\ open => Clock # NoClock /\ \A p \in Peers \ dirty : peers[p] = Kept(p)

(* No sequence number is used twice: as long as the process does not die,  *)
(* two events that were minted here and stored never carry the same        *)
(* EventId; and a number that was minted before a finished flush is not    *)
(* minted again, however the process ends (mint, flush, open).             *)
UniqueIds ==
  /\ crashes = 0 =>
       \A e, f \in stored \ RemoteEvents :
         e.stamp.peer = f.stamp.peer /\ e.stamp.sequence = f.stamp.sequence => e = f
  /\ covered > 0 => local \in DOMAIN saved /\ covered < saved[local].clock.next_sequence
  /\ open => covered < Clock.next_sequence

(* No other thread has called since the workspace was opened. *)
Alone(t) == \A u \in Threads \ {t} : thread[u] = Idle

(* No event of the local peer has the last sequence number, which observe  *)
(* refuses.                                                                *)
Early == \A e \in stored : e.stamp.peer = local => e.stamp.sequence < MaxSequence

(* Where one peer opens the workspace, the process does not die and the    *)
(* sequence numbers are not used up, the clock is not behind the rows:     *)
(* once an insert has returned, what is minted next wins over all that has *)
(* been seen, and a thread that writes alone is never ignored, whatever    *)
(* peers with fast clocks have sent (mint, observe).                       *)
ClockCovers ==
  crashes = 0 /\ owners = {local} /\ Early =>
    /\ open => \A k \in Rows :
                 \/ ~TimeBefore(Clock.last_time, cells[k].stamp.time)
                 \/ \E t \in Threads : thread[t].at = "stored" /\ thread[t].event.key = k
    /\ \A t \in Threads : thread[t].own /\ thread[t].at = "ignored" => ~Alone(t)

(* What the listeners maintain follows the tables.  What the receipts say  *)
(* was received is stored, in memory and in the checkpoint, wherever the   *)
(* process dies: a peer that asks for what is missing gets all of it.  And *)
(* while one thread calls, and no listener has still to run, the cache     *)
(* that decides about access is `_devices`.                                *)
ListenersFollow ==
  /\ \A p \in Peers :
       LET have == {e.stamp.sequence : e \in {f \in stored : f.stamp.peer = p}}
       IN  /\ Seen(peers[p].receipts) \subseteq have
           /\ p \in DOMAIN saved => Seen(saved[p].receipts) \subseteq have
  /\ open => \A t \in Threads : Alone(t) /\ thread[t].at \notin {"stored", "observed"} =>
               (\A p \in Peers : entries[p] = cells[p].value) /\ local_role = cells[local].value

(* An event that insert has taken, applied or not, counts as received.     *)
(* Refuted: listeners, observe among them, run for applied events only.    *)
ReceiptsComplete ==
  \A t \in Threads : thread[t].at \in {"applied", "ignored"} =>
    LET s == thread[t].event.stamp IN s.sequence \in Seen(peers[s.peer].receipts)

(* A local write that is denied was denied before it took a sequence       *)
(* number.  Refuted: a demotion between the two checks of insert denies    *)
(* the write after mint.                                                   *)
DeniedTakesNothing == \A t \in Threads : ~(thread[t].own /\ thread[t].at = "denied")

(* A device that is in the registry can open the workspace.  Refuted: once *)
(* another device has seen its events, a flush saves a PeerState for it    *)
(* without a clock, which open takes for corrupt.                          *)
EnrolledOpens == ~open => \A p \in Owners : cells[p].value # Gone => ~Refuses(p)
=============================================================================
