---------------------------- MODULE TableProofs ----------------------------
(***************************************************************************)
(* Proofs about Table for every set of keys, cells and operations, every   *)
(* cache limit and every length of the log, and about TablePower: what     *)
(* Table::sync has promised survives crashes and power failures.           *)
(***************************************************************************)
EXTENDS Table, FiniteSetTheorems, TLAPS

CONSTANTS Keys, CacheLimit, MaxChange, Flushes                   \* TablePower
VARIABLES synced, stable, dirty, cursor, onDisk, at, changes, promised, torn  \* TablePower, with log, state, cache and committed

Power == INSTANCE TablePower

(* A leaf is tried with Zenon, then with SMT; those that need arithmetic   *)
(* or are too large for Zenon name SMT.                                    *)
USE ZenonT(10), SMTT(20)

(* A non-empty set of natural numbers has a least element. *)
LEMMA LeastExists ==
  ASSUME NEW S \in SUBSET Nat, S # {}
  PROVE  \E x \in S : \A y \in S : x <= y
<1> DEFINE R == {ss \in Nat \X Nat : ss[1] < ss[2]}
<1>1. IsWellFoundedOn(R, Nat)
  BY NatLessThanWellFounded DEF OpToRel
<1> HIDE DEF R
<1>2. PICK x \in S : \A y \in S : ~ (<<y, x>> \in R)
  BY <1>1, WFMin, Zenon
<1>3. \A y \in S : ~ (y < x)
  BY <1>2, Zenon DEF R
<1> QED BY <1>3, SMTT(20)

(* A non-empty set of natural numbers with a bound has a greatest element. *)
LEMMA GreatestExists ==
  ASSUME NEW e \in Nat, NEW S \in SUBSET (0 .. e), S # {}
  PROVE  \E x \in S : \A y \in S : y <= x
<1> DEFINE T == {d \in Nat : e - d \in S}
<1>1. PICK d \in T : \A c \in T : d <= c
  <2>1. PICK x \in S : TRUE
    BY Zenon
  <2>2. e - x \in T
    BY SMTT(20)
  <2> QED BY <2>2, LeastExists, Zenon
<1>2. \A y \in S : y <= e - d
  <2>1. SUFFICES ASSUME NEW y \in S PROVE d <= e - y
    BY SMTT(20)
  <2>2. e - y \in T
    BY SMTT(20)
  <2> QED BY <2>2, <1>1
<1> QED BY <1>2
---------------------------------------------------------------------------

Logged(l, k, c) == \E i \in 1 .. Len(l) : l[i] = [key |-> k, cell |-> c]

(***************************************************************************)
(* The inductive invariant.  ViewIsRecoverable alone is not inductive: a   *)
(* compaction needs low <= committed, a flush needs the volatile cursor at *)
(* the end of the log, and the crash of a Table with a State in memory     *)
(* needs that every row is somewhere in the log that will be replayed.     *)
(***************************************************************************)
Inv ==
  /\ TypeOK
  /\ low <= committed
  /\ InMemory => committed = 0
  /\ up => committed <= volatile
  /\ (up /\ MaxBuffered > 0) => volatile = Len(log)
  /\ ~up => cache = Nothing
  /\ \A k \in Key : /\ state[k] # Absent => Logged(log, k, state[k])
                    /\ cache[k] # Absent => Logged(log, k, cache[k])
  /\ ViewIsRecoverable
---------------------------------------------------------------------------
(* replay_recovery leaves a row alone or sets it to its last change. *)
LEMMA ReplayedCases ==
  ASSUME TypeOK, NEW e \in 0 .. Len(log), NEW k \in Key
  PROVE  \/ Read(k, e) = {} /\ Replayed(e)[k] = state[k]
         \/ \E i \in 1 .. e : IsLast(i, Read(k, e)) /\ Replayed(e)[k] = log[i].cell
<1>1. CASE Read(k, e) = {}
  BY <1>1 DEF Replayed
<1>2. CASE Read(k, e) # {}
  <2>1. Len(log) \in Nat /\ e \in Nat
    BY SMTT(20) DEF TypeOK
  <2>2. Read(k, e) \in SUBSET (0 .. e)
    BY <2>1, SMTT(20) DEF Read
  <2>3. \E i \in Read(k, e) : \A j \in Read(k, e) : j <= i
    BY <2>1, <2>2, <1>2, GreatestExists, Zenon
  <2>4. \E i \in 1 .. e : IsLast(i, Read(k, e))
    BY <2>3 DEF IsLast, Read
  <2>5. Replayed(e)[k] = log[CHOOSE i \in 1 .. e : IsLast(i, Read(k, e))].cell
    BY <1>2 DEF Replayed
  <2> QED BY <2>4, <2>5, Zenon
<1> QED BY <1>1, <1>2

(* Replaying leaves rows, and rows that were in the state or in the log. *)
LEMMA ReplayedType ==
  ASSUME TypeOK, NEW e \in 0 .. Len(log)
  PROVE  /\ Replayed(e) \in [Key -> Row]
         /\ \A k \in Key : Replayed(e)[k] = state[k] \/ Logged(log, k, Replayed(e)[k])
<1>1. ASSUME NEW k \in Key
      PROVE  Replayed(e)[k] \in Row /\ (Replayed(e)[k] = state[k] \/ Logged(log, k, Replayed(e)[k]))
  <2>1. CASE Read(k, e) = {} /\ Replayed(e)[k] = state[k]
    BY <2>1 DEF TypeOK
  <2>2. ASSUME NEW i \in 1 .. e, IsLast(i, Read(k, e)), Replayed(e)[k] = log[i].cell
        PROVE  Replayed(e)[k] \in Row /\ Logged(log, k, Replayed(e)[k])
    <3>1. i \in 1 .. Len(log) /\ log[i] \in Change /\ log[i].key = k
      BY <2>2, SMTT(20) DEF TypeOK, IsLast, Read
    <3>2. log[i] = [key |-> k, cell |-> log[i].cell] /\ log[i].cell \in Cell
      BY <3>1 DEF Change
    <3> QED BY <2>2, <3>1, <3>2 DEF Logged, Row
  <2> QED BY <2>1, <2>2, ReplayedCases
<1>2. Replayed(e) = [k \in Key |-> Replayed(e)[k]]
  BY SMTT(20) DEF Replayed
<1> QED BY <1>1, <1>2

(* What recovery would show depends on the state only in the rows that no    *)
(* change in the log will overwrite.                                         *)
LEMMA DurableKept ==
  ASSUME TypeOK, low <= committed, low' \in Int, low' <= committed,
         log' = log, committed' = committed,
         \A k \in Key : Read(k, Len(log)) = {} => state'[k] = state[k]
  PROVE  Durable' = Durable
<1>1. \A k \in Key : Read(k, Len(log))' = Read(k, Len(log))
  BY SMTT(20) DEF Read, TypeOK
<1>2. ASSUME NEW k \in Key PROVE Durable'[k] = Durable[k]
  <2>1. CASE Read(k, Len(log)) = {}
    BY <1>1, <2>1 DEF Durable, Replayed
  <2>2. CASE Read(k, Len(log)) # {}
    <3>1. Durable[k] = log[CHOOSE i \in 1 .. Len(log) : IsLast(i, Read(k, Len(log)))].cell
      BY <2>2 DEF Durable, Replayed
    <3>2. Durable'[k] = log[CHOOSE i \in 1 .. Len(log) : IsLast(i, Read(k, Len(log)))].cell
      BY <1>1, <2>2, Zenon DEF Durable, Replayed, IsLast
    <3> QED BY <3>1, <3>2, Zenon
  <2> QED BY <2>1, <2>2
<1>3. Durable' = [k \in Key |-> Durable'[k]] /\ Durable = [k \in Key |-> Durable[k]]
  BY SMTT(20) DEF Durable, Replayed
<1> QED BY <1>2, <1>3

(* An append changes the row of its key and, if no other row of the state is *)
(* touched that the log does not overwrite, no other.                        *)
LEMMA DurableAppend ==
  ASSUME TypeOK, low <= committed, low' \in Int, low' <= committed, committed' = committed,
         NEW q \in Key, NEW c \in Cell, log' = Append(log, [key |-> q, cell |-> c]),
         \A k \in Key : Read(k, Len(log)) = {} => state'[k] = state[k]
  PROVE  Durable' = [Durable EXCEPT ![q] = c]
<1>1. /\ Len(log) \in Nat /\ Len(log') = Len(log) + 1
      /\ log'[Len(log) + 1] = [key |-> q, cell |-> c]
      /\ \A i \in 1 .. Len(log) : log'[i] = log[i]
  BY SMTT(20) DEF TypeOK, Change
<1>2. ASSUME NEW k \in Key, k # q PROVE Durable'[k] = Durable[k]
  <2>1. Read(k, Len(log))' = Read(k, Len(log))
    <3>1. Read(k, Len(log))' = {i \in 1 .. Len(log) + 1 : committed < i /\ low' < i /\ log'[i].key = k}
      BY <1>1 DEF Read
    <3>2. log'[Len(log) + 1].key # k
      BY <1>1, <1>2, SMTT(20)
    <3>3. \A i : i \in Read(k, Len(log))' <=> i \in Read(k, Len(log))
      BY <3>1, <3>2, <1>1, SMTT(20) DEF Read, TypeOK
    <3> QED BY <3>3, Zenon
  <2>2. CASE Read(k, Len(log)) = {}
    BY <2>1, <2>2 DEF Durable, Replayed
  <2>3. CASE Read(k, Len(log)) # {}
    <3>1. PICK i \in 1 .. Len(log) : IsLast(i, Read(k, Len(log))) /\ Durable[k] = log[i].cell
      BY <2>3, <1>1, ReplayedCases, SMTT(20) DEF Durable
    <3>2. \A j \in 1 .. Len(log) + 1 : IsLast(j, Read(k, Len(log))) => j = i
      BY <3>1, <1>1, SMTT(20) DEF IsLast
    <3>3. (CHOOSE j \in 1 .. Len(log) + 1 : IsLast(j, Read(k, Len(log)))) = i
      BY <3>1, <3>2, <1>1, SMTT(20)
    <3>4. Durable'[k] = log'[CHOOSE j \in 1 .. Len(log) + 1 : IsLast(j, Read(k, Len(log)))].cell
      BY <2>1, <2>3, <1>1, Zenon DEF Durable, Replayed, IsLast
    <3> QED BY <3>1, <3>3, <3>4, <1>1, Zenon
  <2> QED BY <2>2, <2>3
<1>3. Durable'[q] = c
  <2> DEFINE n == Len(log) + 1
  <2>1. IsLast(n, Read(q, Len(log))') /\ n \in 1 .. n
    BY <1>1, SMTT(20) DEF Read, IsLast, TypeOK
  <2>2. \A j \in 1 .. n : IsLast(j, Read(q, Len(log))') => j = n
    BY <2>1, <1>1, SMTT(20) DEF IsLast
  <2>3. (CHOOSE j \in 1 .. n : IsLast(j, Read(q, Len(log))')) = n
    BY <2>1, <2>2
  <2>4. Read(q, Len(log))' # {}
    BY <2>1 DEF IsLast
  <2>5. Durable'[q] = log'[CHOOSE j \in 1 .. n : IsLast(j, Read(q, Len(log))')].cell
    BY <2>4, <1>1 DEF Durable, Replayed, IsLast
  <2>6. log'[n].cell = c
    BY <1>1, SMTT(20)
  <2> QED BY <2>3, <2>5, <2>6, Zenon
<1>4. Durable' = [k \in Key |-> Durable'[k]] /\ Durable = [k \in Key |-> Durable[k]]
  BY SMTT(20) DEF Durable, Replayed
<1> QED BY <1>2, <1>3, <1>4

(* Once the cursor is committed at the end of the log the state is all that  *)
(* recovery shows.                                                           *)
LEMMA DurableCommitted ==
  ASSUME TypeOK, log' = log, committed' = Len(log), state' \in [Key -> Row]
  PROVE  Durable' = state'
<1>1. \A k \in Key : Read(k, Len(log))' = {}
  BY SMTT(20) DEF Read, TypeOK
<1> QED BY <1>1 DEF Durable, Replayed
---------------------------------------------------------------------------
(* A drain, whole or cut short, puts rows that get() shows already. *)
LEMMA WrittenRows ==
  ASSUME Inv, NEW ks \in SUBSET Cached
  PROVE  /\ Written(ks) \in [Key -> Row]
         /\ \A k \in Key : Written(ks)[k] # Absent => Logged(log, k, Written(ks)[k])
         /\ (up /\ MaxBuffered > 0) =>
              \A k \in Key : Read(k, Len(log)) = {} => Written(ks)[k] = state[k]
<1>1. \A k \in Key : Written(ks)[k] = IF k \in ks THEN cache[k] ELSE state[k]
  BY DEF Written
<1>2. ASSUME up, MaxBuffered > 0, NEW k \in Key, Read(k, Len(log)) = {}
      PROVE  Written(ks)[k] = state[k]
  <2>1. Durable[k] = state[k]
    BY <1>2 DEF Durable, Replayed
  <2>2. View[k] = state[k]
    BY <1>2, <2>1 DEF Inv, ViewIsRecoverable
  <2>3. CASE k \in ks
    BY <2>2, <2>3, <1>1 DEF View, Cached, Present
  <2> QED BY <2>3, <1>1
<1> QED BY <1>1, <1>2 DEF Written, Inv, TypeOK

(* The end of a process keeps the rows no change in the log will set: a      *)
(* State in memory has none, its log is replayed from the start.             *)
LEMMA DownRows ==
  ASSUME Inv, NEW st \in [Key -> Row], Down(st),
         \A k \in Key : st[k] # Absent => Logged(log, k, st[k])
  PROVE  /\ state' \in [Key -> Row]
         /\ \A k \in Key : state'[k] # Absent => Logged(log, k, state'[k])
         /\ \A k \in Key : (Read(k, Len(log)) = {} /\ st[k] = state[k]) => state'[k] = state[k]
<1>1. CASE ~InMemory
  BY <1>1 DEF Down
<1>2. CASE InMemory
  <2>1. state' = Nothing
    BY <1>2 DEF Down
  <2>2. ASSUME NEW k \in Key, Read(k, Len(log)) = {}
        PROVE  state[k] = Absent
    <3>1. \A i \in 1 .. Len(log) : log[i].key # k
      BY <2>2, <1>2, SMTT(20) DEF Read, Inv, TypeOK
    <3>2. ~ Logged(log, k, state[k])
      BY <3>1, SMTT(20) DEF Logged
    <3> QED BY <3>2 DEF Inv
  <2> QED BY <2>1, <2>2 DEF Nothing, Row
<1> QED BY <1>1, <1>2

(* What insert appends and caches is a cell of the row. *)
LEMMA ChangeType ==
  ASSUME Inv, NEW k \in Key, NEW op \in Op, Changes(View[k], op)
  PROVE  /\ Apply(View[k], op) \in Cell /\ Apply(View[k], op) # Absent
         /\ ChangeOf(k, op) = [key |-> k, cell |-> Apply(View[k], op)]
         /\ ChangeOf(k, op) \in Change
<1>1. View[k] \in Row
  BY DEF View, Inv, TypeOK
<1> QED BY <1>1, TableConstants DEF Row, ChangeOf, Change

(* Appending keeps what is logged. *)
LEMMA LoggedAppend ==
  ASSUME TypeOK, NEW ch \in Change, log' = Append(log, ch)
  PROVE  /\ log' \in Seq(Change) /\ Len(log') = Len(log) + 1
         /\ \A k, c : Logged(log, k, c) => Logged(log', k, c)
         /\ Logged(log', ch.key, ch.cell)
<1>1. /\ Len(log) \in Nat /\ log' \in Seq(Change) /\ Len(log') = Len(log) + 1
      /\ log'[Len(log) + 1] = ch
      /\ \A i \in 1 .. Len(log) : log'[i] = log[i]
  BY SMTT(20) DEF TypeOK
<1>2. ch = [key |-> ch.key, cell |-> ch.cell]
  BY DEF Change
<1> QED BY <1>1, <1>2, SMTT(20) DEF Logged
---------------------------------------------------------------------------
(* Inv holds when Table::create returns. *)
LEMMA InitInv == Init => Inv
<1> SUFFICES ASSUME Init PROVE Inv
  OBVIOUS
<1>1. TypeOK
  BY SMTT(20) DEF Init, TypeOK, Nothing, Row
<1>2. \A k \in Key : Read(k, Len(log)) = {}
  BY SMTT(20) DEF Init, Read
<1>3. Durable = View
  BY <1>2 DEF Durable, Replayed, View, Init, Nothing
<1> QED BY <1>1, <1>3, SMTT(20) DEF Init, Inv, Nothing, ViewIsRecoverable

(* An insert that succeeds keeps Inv and changes its row, durably. *)
LEMMA InsertInv ==
  ASSUME Inv, NEW k \in Key, NEW op \in Op, Insert(k, op)
  PROVE  /\ Inv'
         /\ Changes(Durable[k], op)
         /\ Durable' = [Durable EXCEPT ![k] = Apply(Durable[k], op)]
<1> DEFINE c == Apply(View[k], op)
<1>1. c \in Cell /\ c # Absent /\ ChangeOf(k, op) = [key |-> k, cell |-> c] /\ ChangeOf(k, op) \in Change
  BY ChangeType DEF Insert
<1> HIDE DEF c
<1>2. /\ log' \in Seq(Change) /\ Len(log') = Len(log) + 1
      /\ \A j, d : Logged(log, j, d) => Logged(log', j, d)
      /\ Logged(log', k, c)
  <2>1. TypeOK /\ log' = Append(log, ChangeOf(k, op))
    BY DEF Insert, Inv
  <2>2. ChangeOf(k, op).key = k /\ ChangeOf(k, op).cell = c
    BY <1>1, SMTT(20)
  <2> QED BY <2>1, <2>2, <1>1, LoggedAppend
<1>3. /\ state' \in [Key -> Row]
      /\ \A j \in Key : state'[j] # Absent => Logged(log, j, state'[j])
      /\ \A j \in Key : Read(j, Len(log)) = {} => state'[j] = state[j]
  BY WrittenRows DEF Insert, Inv, TypeOK
<1>4. cache' \in [Key -> Row] /\ cache'[k] = c
  BY <1>1 DEF Insert, Inv, TypeOK, Nothing, Row, c
<1>5. \A j \in Key : j # k => cache'[j] = Absent \/ cache'[j] = cache[j]
  BY DEF Insert, Inv, TypeOK, Nothing
<1>6. low' \in low .. committed /\ committed' = committed /\ volatile' = Len(log) + 1
  BY DEF Insert, Reclaims
<1>7. TypeOK'
  BY <1>2, <1>3, <1>4, <1>6, SMTT(20) DEF TypeOK, Insert, Inv
<1>8. Durable' = [Durable EXCEPT ![k] = c]
  BY <1>1, <1>3, <1>6, DurableAppend, SMTT(20) DEF Insert, Inv, TypeOK
<1>9. Durable = View
  BY TableConstants DEF Insert, Inv, ViewIsRecoverable
<1>10. View' = [View EXCEPT ![k] = c]
  <2>1. ASSUME NEW j \in Key, j # k PROVE View'[j] = View[j]
    <3>1. CASE Full(k)
      BY <3>1, <2>1 DEF Insert, View, Written, Nothing, Cached, Present, Inv, TypeOK
    <3>2. CASE ~Full(k)
      BY <3>2, <2>1 DEF Insert, View, Inv, TypeOK
    <3> QED BY <3>1, <3>2
  <2>2. View'[k] = c
    BY <1>1, <1>4 DEF View
  <2>3. View' = [j \in Key |-> View'[j]] /\ View = [j \in Key |-> View[j]]
    BY DEF View
  <2> QED BY <2>1, <2>2, <2>3
<1>11. ViewIsRecoverable'
  BY <1>8, <1>9, <1>10 DEF ViewIsRecoverable
<1>12. \A j \in Key : cache'[j] # Absent => Logged(log', j, cache'[j])
  BY <1>2, <1>4, <1>5 DEF Inv
<1>13. Inv'
  BY <1>2, <1>3, <1>6, <1>7, <1>11, <1>12, SMTT(20) DEF Inv, Insert, TypeOK
<1> QED BY <1>8, <1>9, <1>13 DEF c, Insert
(* An insert that fails after its append keeps Inv. *)
LEMMA InsertFailsInv ==
  ASSUME Inv, NEW k \in Key, NEW op \in Op, InsertFails(k, op)
  PROVE  Inv' /\ MaxBuffered = 0
<1>1. /\ log' \in Seq(Change) /\ Len(log') = Len(log) + 1
      /\ \A j, d : Logged(log, j, d) => Logged(log', j, d)
  <2>1. TypeOK /\ log' = Append(log, ChangeOf(k, op)) /\ ChangeOf(k, op) \in Change
    BY ChangeType DEF InsertFails, Inv
  <2> QED BY <2>1, LoggedAppend
<1>2. low' \in low .. committed
  BY DEF InsertFails, Reclaims
<1>3. TypeOK'
  BY <1>1, <1>2, SMTT(20) DEF TypeOK, InsertFails, Inv
<1>4. MaxBuffered = 0 /\ ~ (MaxBuffered > 0)
  BY SMTT(20) DEF InsertFails
<1>5. low' <= committed'
  BY <1>2, SMTT(20) DEF InsertFails, Inv, TypeOK
<1> QED BY <1>1, <1>3, <1>4, <1>5 DEF Inv, InsertFails, ViewIsRecoverable

(* The cursor that commit_recovery leaves is behind the log and the          *)
(* compaction behind it.                                                     *)
LEMMA CommitBounds ==
  ASSUME Inv, NEW n \in committed .. Len(log), CommitRecovery(n)
  PROVE  /\ committed' \in 0 .. Len(log) /\ low <= committed'
         /\ InMemory => committed' = 0 /\ committed' = committed
         /\ ~InMemory => committed' = n
  BY SMTT(20) DEF Inv, TypeOK, CommitRecovery

(* Committing at the end of the log what a full drain has put changes no     *)
(* row.                                                                      *)
LEMMA CommitRows ==
  ASSUME Inv, up, MaxBuffered > 0, CommitRecovery(volatile), log' = log, low' = low,
         \/ state' = Written(Cached)
         \/ InMemory /\ \A k \in Key : Read(k, Len(log)) = {} => state'[k] = state[k]
  PROVE  Durable' = Durable
<1>1. CASE InMemory
  <2>1. committed' = committed
    BY <1>1 DEF CommitRecovery
  <2>2. \A k \in Key : Read(k, Len(log)) = {} => state'[k] = state[k]
    BY WrittenRows
  <2> QED BY <2>1, <2>2, DurableKept, SMTT(20) DEF Inv, TypeOK
<1>2. CASE ~InMemory
  <2>1. state' = Written(Cached) /\ committed' = Len(log)
    BY <1>2 DEF CommitRecovery, Inv
  <2>2. Durable' = Written(Cached)
    BY <2>1, WrittenRows, DurableCommitted DEF Inv
  <2>3. Written(Cached) = View
    BY DEF Written, View, Cached, Present
  <2> QED BY <2>2, <2>3 DEF Inv, ViewIsRecoverable
<1> QED BY <1>1, <1>2

(* A drain that fails, a flush and a compaction keep Inv and every row. *)
LEMMA QuietInv ==
  ASSUME Inv, DrainFails \/ Flush \/ Compact
  PROVE  Inv' /\ (MaxBuffered > 0 => Durable' = Durable)
<1>1. CASE DrainFails
  <2>1. PICK j \in Cached : state' = Written(FirstRows(j))
    BY <1>1 DEF DrainFails
  <2>2. FirstRows(j) \in SUBSET Cached
    BY DEF FirstRows
  <2>3. /\ state' \in [Key -> Row]
        /\ \A k \in Key : state'[k] # Absent => Logged(log, k, state'[k])
        /\ MaxBuffered > 0 => \A k \in Key : Read(k, Len(log)) = {} => state'[k] = state[k]
    BY <2>1, <2>2, <1>1, WrittenRows, Zenon DEF DrainFails
  <2>4. MaxBuffered > 0 => Durable' = Durable
    BY <2>3, <1>1, DurableKept, SMTT(20) DEF DrainFails, Inv, TypeOK
  <2>5. View' = View
    BY <2>1, <1>1 DEF View, DrainFails, Written, FirstRows, Cached, Present
  <2>6. TypeOK'
    BY <2>3, <1>1 DEF DrainFails, Inv, TypeOK
  <2> QED BY <2>3, <2>4, <2>5, <2>6, <1>1 DEF Inv, DrainFails, ViewIsRecoverable
<1>2. CASE Flush
  <2>1. /\ state' \in [Key -> Row]
        /\ \A k \in Key : state'[k] # Absent => Logged(log, k, state'[k])
    BY <1>2, WrittenRows DEF Flush
  <2>2. volatile \in committed .. Len(log)
    BY <1>2, SMTT(20) DEF Flush, Inv, TypeOK
  <2>3. /\ committed' \in 0 .. Len(log) /\ low <= committed'
        /\ InMemory => committed' = 0 /\ committed' = committed
        /\ ~InMemory => committed' = volatile
    BY <1>2, <2>2, CommitBounds DEF Flush
  <2>4. MaxBuffered > 0 => Durable' = Durable
    BY <1>2, CommitRows DEF Flush
  <2>5. View' = View
    BY <1>2 DEF View, Flush, Written, Cached, Present, Nothing
  <2>6. TypeOK'
    BY <2>1, <2>3, <1>2 DEF Flush, Inv, TypeOK, Nothing, Row
  <2>7. committed' <= volatile'
    BY <2>2, <2>3, <1>2, TableConstants, SMTT(20) DEF Flush, Inv, TypeOK
  <2>8. \A k \in Key : cache'[k] = Absent
    BY <1>2 DEF Flush, Nothing
  <2> QED BY <2>1, <2>3, <2>4, <2>5, <2>6, <2>7, <2>8, <1>2 DEF Inv, Flush, ViewIsRecoverable
<1>3. CASE Compact
  <2>1. low' \in low .. committed
    BY <1>3 DEF Compact, Reclaims
  <2>2. Durable' = Durable
    BY <2>1, <1>3, DurableKept, SMTT(20) DEF Compact, Inv, TypeOK
  <2>3. View' = View
    BY <1>3 DEF View, Compact
  <2>4. TypeOK'
    BY <2>1, <1>3, SMTT(20) DEF Compact, Inv, TypeOK
  <2>5. low' <= committed'
    BY <2>1, <1>3, SMTT(20) DEF Compact, Inv, TypeOK
  <2> QED BY <2>2, <2>3, <2>4, <2>5, <1>3 DEF Inv, Compact, ViewIsRecoverable
<1> QED BY <1>1, <1>2, <1>3
(* The end of a process keeps Inv if the files it leaves do. *)
LEMMA DownInv ==
  ASSUME Inv, NEW st \in [Key -> Row], Down(st),
         \A k \in Key : st[k] # Absent => Logged(log, k, st[k]),
         log' \in Seq(Change), Len(log) <= Len(log'),
         \A k, c : Logged(log, k, c) => Logged(log', k, c),
         committed' \in 0 .. Len(log), low' \in 0 .. Len(log), low' <= committed',
         InMemory => committed' = 0
  PROVE  Inv'
<1>1. /\ state' \in [Key -> Row]
      /\ \A k \in Key : state'[k] # Absent => Logged(log, k, state'[k])
  BY DownRows
<1>2. up' = FALSE /\ cache' = Nothing /\ novel' = 0 /\ volatile' = 0
  BY DEF Down
<1>3. Len(log) \in Nat /\ Len(log') \in Nat
  BY SMTT(20) DEF Inv, TypeOK
<1>4. TypeOK'
  <2>1. Nothing \in [Key -> Row]
    BY DEF Nothing, Row
  <2>2. low' \in 0 .. Len(log') /\ committed' \in 0 .. Len(log') /\ volatile' \in 0 .. Len(log')
    BY <1>2, <1>3, SMTT(20)
  <2> QED BY <1>1, <1>2, <2>1, <2>2, Zenon DEF TypeOK
<1>5. \A k \in Key : cache'[k] = Absent
  BY <1>2 DEF Nothing
<1> QED BY <1>1, <1>2, <1>4, <1>5, SMTT(30) DEF Inv, ViewIsRecoverable

(* The same when nothing is appended. *)
LEMMA DownQuiet ==
  ASSUME Inv, NEW st \in [Key -> Row], Down(st),
         \A k \in Key : st[k] # Absent => Logged(log, k, st[k]),
         log' = log, low' = low,
         committed' \in 0 .. Len(log), low <= committed', InMemory => committed' = 0
  PROVE  Inv'
<1>1. log \in Seq(Change) /\ Len(log) \in Nat /\ low \in 0 .. Len(log)
  BY SMTT(20) DEF Inv, TypeOK
<1>2. Len(log) <= Len(log')
  BY <1>1, SMTT(20)
<1> QED BY <1>1, <1>2, DownInv

(* The recovery cursor's place on disk, which Inv bounds. *)
LEMMA CommittedBounds ==
  ASSUME Inv, UNCHANGED <<log, low, committed>>
  PROVE  /\ log' = log /\ low' = low
         /\ committed' \in 0 .. Len(log) /\ low <= committed' /\ (InMemory => committed' = 0)
BY DEF Inv, TypeOK

(* A drop and a crash, in the middle of a drain or not, keep Inv and every   *)
(* row.                                                                      *)
LEMMA EndInv ==
  ASSUME Inv, Close \/ Crash \/ CrashInDrain
  PROVE  Inv' /\ (MaxBuffered > 0 => Durable' = Durable)
<1>1. ASSUME NEW ks \in SUBSET Cached, up, Down(Written(ks)), UNCHANGED <<log, low, committed>>
      PROVE  Inv' /\ (MaxBuffered > 0 => Durable' = Durable)
  <2>1. /\ Written(ks) \in [Key -> Row]
        /\ \A k \in Key : Written(ks)[k] # Absent => Logged(log, k, Written(ks)[k])
        /\ MaxBuffered > 0 =>
             \A k \in Key : Read(k, Len(log)) = {} => Written(ks)[k] = state[k]
    BY <1>1, WrittenRows
  <2>2. Inv'
    <3> DEFINE st == Written(ks)
    <3>1. Down(st) /\ st \in [Key -> Row] /\ \A k \in Key : st[k] # Absent => Logged(log, k, st[k])
      BY <1>1, <2>1
    <3>2. /\ log' = log /\ low' = low
          /\ committed' \in 0 .. Len(log) /\ low <= committed' /\ (InMemory => committed' = 0)
      BY <1>1, CommittedBounds
    <3> HIDE DEF st
    <3> QED BY <3>1, <3>2, DownQuiet
  <2>3. MaxBuffered > 0 => \A k \in Key : Read(k, Len(log)) = {} => state'[k] = state[k]
    BY <1>1, <2>1, DownRows
  <2>4. MaxBuffered > 0 => Durable' = Durable
    BY <1>1, <2>3, DurableKept, SMTT(20) DEF Inv, TypeOK
  <2> QED BY <2>2, <2>4
<1>2. CASE Crash
  <2>1. Written({}) = state
    BY DEF Written, Inv, TypeOK
  <2> QED BY <2>1, <1>2, <1>1 DEF Crash
<1>3. CASE CrashInDrain
  <2>1. PICK part \in {FirstRows(j) : j \in Cached} \cup {Cached} : Down(Written(part))
    BY <1>3 DEF CrashInDrain
  <2>2. part \in SUBSET Cached
    BY DEF FirstRows
  <2> QED BY <2>1, <2>2, <1>3, <1>1 DEF CrashInDrain
<1>4. CASE Close
  <2>1. ASSUME Down(Written(Cached)), CommitRecovery(volatile)
        PROVE  Inv' /\ (MaxBuffered > 0 => Durable' = Durable)
    <3>1. up /\ log' = log /\ low' = low
      BY <1>4 DEF Close
    <3>2. volatile \in committed .. Len(log)
      BY <3>1, SMTT(20) DEF Inv, TypeOK
    <3>3. /\ committed' \in 0 .. Len(log) /\ low <= committed'
          /\ InMemory => committed' = 0
      BY <2>1, <3>2, CommitBounds
    <3>4. /\ Written(Cached) \in [Key -> Row]
          /\ \A k \in Key : Written(Cached)[k] # Absent => Logged(log, k, Written(Cached)[k])
          /\ MaxBuffered > 0 =>
               \A k \in Key : Read(k, Len(log)) = {} => Written(Cached)[k] = state[k]
      BY <3>1, WrittenRows, SMTT(30)
    <3>5. Inv'
      <4> DEFINE st == Written(Cached)
      <4>1. Down(st) /\ st \in [Key -> Row] /\ \A k \in Key : st[k] # Absent => Logged(log, k, st[k])
        BY <2>1, <3>4
      <4> HIDE DEF st
      <4> QED BY <3>1, <3>3, <4>1, DownQuiet
    <3>6. MaxBuffered > 0 => \A k \in Key : Read(k, Len(log)) = {} => state'[k] = state[k]
      BY <2>1, <3>4, DownRows
    <3>7. InMemory \/ state' = Written(Cached)
      BY <2>1 DEF Down
    <3>8. MaxBuffered > 0 => Durable' = Durable
      BY <2>1, <3>1, <3>6, <3>7, CommitRows
    <3> QED BY <3>5, <3>8
  <2>2. ASSUME NEW j \in Cached, Down(Written(FirstRows(j))), UNCHANGED committed
        PROVE  Inv' /\ (MaxBuffered > 0 => Durable' = Durable)
    <3>1. FirstRows(j) \in SUBSET Cached
      BY DEF FirstRows
    <3> QED BY <3>1, <2>2, <1>4, <1>1 DEF Close
  <2> QED BY <2>1, <2>2, <1>4 DEF Close
<1> QED BY <1>2, <1>3, <1>4

(* A crash inside insert, its change appended, keeps Inv and has the effect  *)
(* of the insert.                                                            *)
LEMMA CrashInInsertInv ==
  ASSUME Inv, NEW k \in Key, NEW op \in Op, CrashInInsert(k, op)
  PROVE  /\ Inv'
         /\ MaxBuffered > 0 => /\ Changes(Durable[k], op)
                               /\ Durable' = [Durable EXCEPT ![k] = Apply(Durable[k], op)]
<1> DEFINE c == Apply(View[k], op)
           st == IF Full(k) THEN Written(Cached) ELSE state
<1>1. c \in Cell /\ ChangeOf(k, op) = [key |-> k, cell |-> c] /\ ChangeOf(k, op) \in Change
  BY ChangeType DEF CrashInInsert
<1> HIDE DEF c
<1>2. /\ log' \in Seq(Change) /\ Len(log') = Len(log) + 1
      /\ \A j, d : Logged(log, j, d) => Logged(log', j, d)
  <2>1. TypeOK /\ log' = Append(log, ChangeOf(k, op))
    BY DEF CrashInInsert, Inv
  <2> QED BY <2>1, <1>1, LoggedAppend, SMTT(30)
<1>3. up /\ Down(st) /\ low' \in low .. committed /\ committed' = committed
  BY DEF CrashInInsert, Reclaims
<1>4. /\ st \in [Key -> Row]
      /\ \A j \in Key : st[j] # Absent => Logged(log, j, st[j])
      /\ MaxBuffered > 0 => \A j \in Key : Read(j, Len(log)) = {} => st[j] = state[j]
  BY <1>3, WrittenRows DEF Inv, TypeOK
<1> HIDE DEF st
<1>5. Inv'
  <2>1. /\ Len(log) \in Nat /\ low \in Nat /\ committed \in 0 .. Len(log) /\ low <= committed
        /\ (InMemory => committed = 0)
    BY SMTT(20) DEF Inv, TypeOK
  <2>2. /\ Len(log) <= Len(log') /\ low' \in 0 .. Len(log) /\ low' <= committed'
        /\ committed' \in 0 .. Len(log) /\ (InMemory => committed' = 0)
    BY <1>2, <1>3, <2>1, SMTT(20)
  <2> QED BY <1>2, <1>3, <1>4, <2>2, DownInv
<1>6. MaxBuffered > 0 => \A j \in Key : Read(j, Len(log)) = {} => state'[j] = state[j]
  <2>1. \A j \in Key : (Read(j, Len(log)) = {} /\ st[j] = state[j]) => state'[j] = state[j]
    BY <1>3, <1>4, DownRows, SMTT(30), Zenon
  <2> QED BY <1>4, <2>1
<1>7. MaxBuffered > 0 => Durable' = [Durable EXCEPT ![k] = c]
  <2>1. TypeOK /\ low <= committed /\ low \in Int /\ committed \in Int
    BY SMTT(20) DEF Inv, TypeOK
  <2>2. low' \in Int /\ low' <= committed
    BY <1>3, <2>1, SMTT(20)
  <2>3. log' = Append(log, [key |-> k, cell |-> c])
    BY <1>1 DEF CrashInInsert
  <2> QED BY <1>1, <1>3, <1>6, <2>1, <2>2, <2>3, DurableAppend
<1>8. MaxBuffered > 0 => Durable = View
  BY <1>3 DEF Inv, ViewIsRecoverable
<1> QED BY <1>5, <1>7, <1>8 DEF c, CrashInInsert
(* Recovery keeps Inv and every row, and the rows it leaves in the state are *)
(* the ones get() shows.                                                     *)
LEMMA OpenInv ==
  ASSUME Inv, Open
  PROVE  Inv' /\ Durable' = Durable
<1>1. /\ Len(log) \in Nat /\ Len(log) \in committed .. Len(log)
      /\ Len(log) \in 0 .. Len(log)
  BY SMTT(20) DEF Inv, TypeOK
<1>2. /\ state' = Durable /\ state' \in [Key -> Row]
      /\ \A k \in Key : state'[k] # Absent => Logged(log, k, state'[k])
  BY <1>1, ReplayedType DEF Open, Durable, Inv
<1>3. /\ committed' \in 0 .. Len(log) /\ low <= committed'
      /\ InMemory => committed' = 0 /\ committed' = committed
      /\ ~InMemory => committed' = Len(log)
  BY <1>1, CommitBounds DEF Open
<1>4. cache = Nothing /\ cache' = Nothing
  BY DEF Open, Inv
<1>5. Durable' = Durable
  <2>1. CASE ~InMemory
    BY <2>1, <1>2, <1>3, DurableCommitted DEF Open, Inv
  <2>2. CASE InMemory
    <3>1. \A k \in Key : Read(k, Len(log)) = {} => state'[k] = state[k]
      BY <1>2 DEF Durable, Replayed
    <3> QED BY <3>1, <2>2, <1>3, DurableKept, SMTT(20) DEF Open, Inv, TypeOK
  <2> QED BY <2>1, <2>2, SMTT(30)
<1>6. View' = state'
  BY <1>2, <1>4 DEF View, Nothing
<1>7. TypeOK'
  BY <1>1, <1>2, <1>3 DEF Open, Inv, TypeOK
<1>8. \A k \in Key : cache'[k] = Absent
  BY <1>4 DEF Nothing
<1>9. committed' <= volatile' /\ volatile' = Len(log') /\ low' <= committed'
  BY <1>1, <1>3, SMTT(20) DEF Open
<1> QED BY <1>2, <1>3, <1>5, <1>6, <1>7, <1>8, <1>9 DEF Inv, Open, ViewIsRecoverable

(* A recovery cut short keeps Inv; if no put fails it keeps every row.       *)
LEMMA OpenEndsInv ==
  ASSUME Inv, CrashInOpen \/ OpenFails
  PROVE  Inv' /\ (PutFails \/ Durable' = Durable)
<1>1. ASSUME NEW e \in 0 .. Len(log)
      PROVE  /\ Replayed(e) \in [Key -> Row]
             /\ \A k \in Key : Replayed(e)[k] # Absent => Logged(log, k, Replayed(e)[k])
             /\ \A k \in Key : Read(k, Len(log)) = {} => Replayed(e)[k] = state[k]
  <2>1. \A k \in Key : Read(k, Len(log)) = {} => Read(k, e) = {}
    BY SMTT(20) DEF Read, Inv, TypeOK
  <2>2. \A k \in Key : Read(k, Len(log)) = {} => Replayed(e)[k] = state[k]
    BY <2>1 DEF Replayed
  <2> QED BY <2>2, ReplayedType DEF Inv
<1>2. CASE CrashInOpen
  <2>1. PICK e \in committed .. Len(log) : Down(Replayed(e))
    BY <1>2 DEF CrashInOpen
  <2>2. e \in 0 .. Len(log)
    BY SMTT(30) DEF Inv, TypeOK
  <2>3. Inv'
    <3> DEFINE st == Replayed(e)
    <3>1. Down(st) /\ st \in [Key -> Row] /\ \A k \in Key : st[k] # Absent => Logged(log, k, st[k])
      BY <1>1, <2>1, <2>2
    <3>2. UNCHANGED <<log, low, committed>>
      BY <1>2 DEF CrashInOpen
    <3>3. /\ log' = log /\ low' = low
          /\ committed' \in 0 .. Len(log) /\ low <= committed' /\ (InMemory => committed' = 0)
      BY <3>2, CommittedBounds
    <3> HIDE DEF st
    <3> QED BY <3>1, <3>3, DownQuiet
  <2>4. \A k \in Key : Read(k, Len(log)) = {} => state'[k] = state[k]
    BY <1>1, <2>1, <2>2, DownRows
  <2>5. Durable' = Durable
    BY <1>2, <2>4, DurableKept, SMTT(20) DEF CrashInOpen, Inv, TypeOK
  <2> QED BY <2>3, <2>5
<1>3. CASE OpenFails
  <2>1. PICK e \in committed + 1 .. Len(log) : Down(Replayed(e - 1)) /\ CommitRecovery(e)
    BY <1>3 DEF OpenFails
  <2>2. e - 1 \in 0 .. Len(log) /\ e \in committed .. Len(log)
    BY SMTT(20) DEF Inv, TypeOK
  <2>3. /\ committed' \in 0 .. Len(log) /\ low <= committed'
        /\ InMemory => committed' = 0
    BY <2>1, <2>2, CommitBounds, SMTT(30)
  <2>4. Inv'
    <3> DEFINE st == Replayed(e - 1)
    <3>1. Down(st) /\ st \in [Key -> Row] /\ \A k \in Key : st[k] # Absent => Logged(log, k, st[k])
      BY <1>1, <2>1, <2>2
    <3>2. log' = log /\ low' = low
      BY <1>3 DEF OpenFails
    <3> HIDE DEF st
    <3> QED BY <2>3, <3>1, <3>2, DownQuiet
  <2> QED BY <2>4, <1>3 DEF OpenFails
<1> QED BY <1>2, <1>3
---------------------------------------------------------------------------
(* Every step keeps Inv. *)
LEMMA StepInv == Inv /\ [Next]_vars => Inv'
<1> SUFFICES ASSUME Inv, [Next]_vars PROVE Inv'
  OBVIOUS
<1>1. ASSUME NEW k \in Key, NEW op \in Op, Insert(k, op) PROVE Inv'
  BY <1>1, InsertInv
<1>2. ASSUME NEW k \in Key, NEW op \in Op, InsertFails(k, op) PROVE Inv'
  BY <1>2, InsertFailsInv
<1>3. ASSUME NEW k \in Key, NEW op \in Op, CrashInInsert(k, op) PROVE Inv'
  BY <1>3, CrashInInsertInv, SMTT(30)
<1>4. CASE UNCHANGED vars
  <2>1. Durable' = Durable /\ View' = View
    BY <1>4, DurableKept, SMTT(20) DEF vars, Inv, TypeOK, View
  <2>2. TypeOK'
    BY <1>4 DEF vars, Inv, TypeOK
  <2> QED BY <1>4, <2>1, <2>2 DEF vars, Inv, ViewIsRecoverable
<1> QED BY <1>1, <1>2, <1>3, <1>4, QuietInv, EndInv, OpenInv, OpenEndsInv DEF Next

(* The variables of a Table have their types for every cache limit, kind of  *)
(* State and failing put; the recovery cursor in particular never runs ahead *)
(* of the topic.                                                             *)
THEOREM TableTypeOK == Spec => []TypeOK
<1>1. Inv => TypeOK
  BY DEF Inv
<1> QED BY <1>1, InitInv, StepInv, PTL DEF Spec

(* What get() shows is at every moment what a crash and the replay of the    *)
(* topic would show (insert, drain_cache, flush, compact, replay_recovery).  *)
THEOREM TableRecoverable == Spec => []ViewIsRecoverable
<1>1. Inv => ViewIsRecoverable
  BY DEF Inv
<1> QED BY <1>1, InitInv, StepInv, PTL DEF Spec

(* Every row get() shows was appended to the topic before (insert appends    *)
(* before it puts to the cache).                                             *)
THEOREM TableWriteAhead == Spec => []WriteAhead
<1>1. Inv => WriteAhead
  <2> SUFFICES ASSUME Inv, NEW k \in Key, View[k] # Absent
               PROVE  [key |-> k, cell |-> View[k]] \in {log[i] : i \in 1 .. Len(log)}
    BY DEF WriteAhead
  <2>1. Logged(log, k, View[k])
    BY DEF Inv, View
  <2> QED BY <2>1 DEF Logged
<1> QED BY <1>1, InitInv, StepInv, PTL DEF Spec

(* A Table whose cache holds at least one row and whose State's puts do not  *)
(* fail implements the atomic map AbstractTable, over crashes at any point   *)
(* of insert, flush, drop and open.                                          *)
THEOREM TableImplements ==
  ASSUME MaxBuffered > 0, ~PutFails
  PROVE  Spec => ImplementsTable
<1>1. Init => Rows!Init
  <2> SUFFICES ASSUME Init PROVE Durable = [k \in Key |-> Absent]
    BY DEF Rows!Init
  <2>1. \A k \in Key : Read(k, Len(log)) = {}
    BY SMTT(20) DEF Init, Read
  <2> QED BY <2>1 DEF Durable, Replayed, Init, Nothing
<1>2. Inv /\ [Next]_vars => [Rows!Next]_Durable
  <2> SUFFICES ASSUME Inv, [Next]_vars PROVE Rows!Next \/ Durable' = Durable
    OBVIOUS
  <2>1. ASSUME NEW k \in Key, NEW op \in Op, Insert(k, op) PROVE Rows!Next
    BY <2>1, InsertInv DEF Rows!Next, Rows!Insert
  <2>2. ASSUME NEW k \in Key, NEW op \in Op, InsertFails(k, op) PROVE FALSE
    BY <2>2, InsertFailsInv, SMTT(20)
  <2>3. ASSUME NEW k \in Key, NEW op \in Op, CrashInInsert(k, op) PROVE Rows!Next
    BY <2>3, CrashInInsertInv DEF Rows!Next, Rows!Insert
  <2>4. CASE UNCHANGED vars
    BY <2>4, SMTT(20) DEF vars, Durable, Replayed, Read, IsLast
  <2> QED BY <2>1, <2>2, <2>3, <2>4, QuietInv, EndInv, OpenInv, OpenEndsInv, SMTT(20), ZenonT(20) DEF Next
<1> QED BY <1>1, <1>2, InitInv, StepInv, PTL DEF Spec, ImplementsTable, Rows!Spec
---------------------------------------------------------------------------
(***************************************************************************)
(* novel_pending counts the cached rows the state does not have; with the  *)
(* cache limit this is the inductive form of SizeExact.                    *)
(***************************************************************************)
NotStored == Cached \ Present(state)
CountInv == CacheBounded /\ (~PutFails => novel = Cardinality(NotStored))

(* Sets of keys are finite. *)
LEMMA KeysFinite ==
  ASSUME NEW S \in SUBSET Key
  PROVE  IsFiniteSet(S) /\ Cardinality(S) \in Nat
  BY TableConstants, FS_Subset, FS_CardinalityType, Zenon

(* With an empty cache nothing is pending. *)
LEMMA EmptyCount ==
  ASSUME cache = Nothing, novel = 0
  PROVE  CountInv
<1>1. Cached = {} /\ NotStored = {}
  BY DEF Cached, Present, Nothing, NotStored
<1> QED BY <1>1, FS_EmptySet, TableConstants, SMTT(20) DEF CountInv, CacheBounded

(* An insert keeps the count of pending rows and the cache limit. *)
LEMMA InsertCount ==
  ASSUME Inv, CountInv, NEW k \in Key, NEW op \in Op, Insert(k, op)
  PROVE  CountInv'
<1>1. Apply(View[k], op) # Absent
  BY ChangeType DEF Insert
<1>2. CASE Full(k)
  <2>1. Cached' = {k}
    BY <1>1, <1>2 DEF Insert, Cached, Present, Nothing
  <2>2. k \in Present(state)' <=> ~IsNew(k)
    BY <1>2 DEF Insert, Full, IsNew, Written, View, Cached, Present
  <2>3. NotStored' = IF IsNew(k) THEN {k} ELSE {}
    BY <2>1, <2>2 DEF NotStored
  <2>4. Cardinality(NotStored') = IF IsNew(k) THEN 1 ELSE 0
    BY <2>3, FS_Singleton, FS_EmptySet
  <2>5. novel' = IF IsNew(k) THEN 1 ELSE 0
    BY <1>2, SMTT(20) DEF Insert
  <2>6. Cardinality(Cached') <= MaxBuffered
    <3>1. MaxBuffered > 0 /\ MaxBuffered \in Nat
      BY TableConstants DEF Insert
    <3>2. Cardinality(Cached') = 1
      BY <2>1, FS_Singleton, Zenon
    <3> QED BY <3>1, <3>2, SMTT(30)
  <2> QED BY <2>4, <2>5, <2>6 DEF CountInv, CacheBounded
<1>3. CASE ~Full(k)
  <2>1. Cached' = Cached \cup {k}
    BY <1>1, <1>3, SMTT(30) DEF Insert, Cached, Present, Inv, TypeOK
  <2>2. Present(state)' = Present(state)
    BY <1>3 DEF Insert, Present
  <2>3. NotStored' = IF IsNew(k) THEN NotStored \cup {k} ELSE NotStored
    BY <2>1, <2>2 DEF NotStored, IsNew, View, Cached, Present
  <2>4. IsNew(k) => k \notin NotStored
    BY DEF IsNew, View, NotStored, Cached, Present
  <2>5. Cached \in SUBSET Key /\ NotStored \in SUBSET Key
    BY DEF Cached, Present, NotStored
  <2>6. Cardinality(NotStored') = Cardinality(NotStored) + (IF IsNew(k) THEN 1 ELSE 0)
    BY <2>3, <2>4, <2>5, KeysFinite, FS_AddElement, SMTT(20)
  <2>7. novel' = novel + (IF IsNew(k) THEN 1 ELSE 0)
    BY <1>3 DEF Insert
  <2>8. Cardinality(Cached') <= MaxBuffered
    <3>1. Cardinality(Cached') = IF k \in Cached THEN Cardinality(Cached) ELSE Cardinality(Cached) + 1
      BY <2>1, <2>5, KeysFinite, FS_AddElement
    <3>2. Cardinality(Cached) \in Nat /\ MaxBuffered \in Nat
      BY <2>5, KeysFinite, TableConstants
    <3> QED BY <3>1, <3>2, <1>3, SMTT(20) DEF Full, CountInv, CacheBounded
  <2> QED BY <2>6, <2>7, <2>8 DEF CountInv, CacheBounded
<1> QED BY <1>2, <1>3

(* Every step keeps the count. *)
LEMMA StepCount == Inv /\ CountInv /\ [Next]_vars => CountInv'
<1> SUFFICES ASSUME Inv, CountInv, [Next]_vars PROVE CountInv'
  OBVIOUS
<1>1. ASSUME NEW k \in Key, NEW op \in Op, Insert(k, op) PROVE CountInv'
  BY <1>1, InsertCount
<1>2. ASSUME UNCHANGED <<state, cache, novel>> PROVE CountInv'
  BY <1>2 DEF CountInv, CacheBounded, NotStored, Cached, Present
<1>3. ASSUME cache' = Nothing, novel' = 0 PROVE CountInv'
  <2>1. Cached' = {} /\ NotStored' = {}
    BY <1>3 DEF Cached, Present, Nothing, NotStored
  <2> QED BY <1>3, <2>1, FS_EmptySet, TableConstants, SMTT(20) DEF CountInv, CacheBounded
<1>4. ASSUME DrainFails PROVE CountInv'
  BY <1>4 DEF DrainFails, CountInv, CacheBounded, Cached, Present
<1>5. ASSUME NEW k \in Key, NEW op \in Op, InsertFails(k, op) \/ CrashInInsert(k, op)
      PROVE  CountInv'
  BY <1>2, <1>3, <1>5 DEF InsertFails, CrashInInsert, Down
<1>6. ASSUME Flush \/ Compact \/ Close \/ Crash \/ CrashInDrain \/ CrashInOpen \/ OpenFails
      PROVE  CountInv'
  BY <1>2, <1>3, <1>6 DEF Flush, Compact, Close, Crash, CrashInDrain, CrashInOpen, OpenFails, Down
<1>7. ASSUME Open PROVE CountInv'
  <2>1. cache = Nothing /\ cache' = Nothing /\ novel' = novel
    BY <1>7 DEF Open, Inv
  <2>2. Cached = {} /\ NotStored = {} /\ Cached' = {} /\ NotStored' = {}
    BY <2>1 DEF Cached, Present, Nothing, NotStored
  <2> QED BY <2>1, <2>2, SMTT(30) DEF CountInv, CacheBounded
<1> QED
  BY <1>1, <1>2, <1>4, <1>5, <1>6, <1>7 DEF Next, vars

(* size() is exact while the State's puts do not fail: drain_cache resets    *)
(* novel_pending exactly when the pending rows reach the State.              *)
THEOREM TableSizeExact == Spec => []SizeExact
<1>1. Init => CountInv
  BY EmptyCount DEF Init
<1>2. Inv /\ CountInv => SizeExact
  <2> SUFFICES ASSUME Inv, CountInv, ~PutFails
               PROVE  Cardinality(Present(state)) + novel = Cardinality(Present(View))
    BY DEF SizeExact
  <2>1. Present(View) = Present(state) \cup NotStored /\ Present(state) \cap NotStored = {}
    BY DEF Present, View, NotStored, Cached
  <2>2. Present(state) \in SUBSET Key /\ NotStored \in SUBSET Key
    BY DEF Present, NotStored, Cached
  <2>3. Cardinality(Present(state) \cap NotStored) = 0
    BY <2>1, FS_EmptySet
  <2>4. Cardinality(Present(View))
          = Cardinality(Present(state)) + Cardinality(NotStored) - 0
    BY <2>1, <2>2, <2>3, KeysFinite, FS_Union
  <2> QED BY <2>2, <2>4, KeysFinite, SMTT(20) DEF CountInv
<1> QED BY <1>1, <1>2, InitInv, StepInv, StepCount, PTL DEF Spec

(* The cache never outgrows max_buffered_records (prepare_cache drains       *)
(* before the row that would not fit).                                       *)
THEOREM TableCacheBounded == Spec => []CacheBounded
<1>1. Init => CountInv
  BY EmptyCount DEF Init
<1>2. CountInv => CacheBounded
  BY DEF CountInv
<1> QED BY <1>1, <1>2, InitInv, StepInv, StepCount, PTL DEF Spec
---------------------------------------------------------------------------
(* The three kinds of step a Table makes on its log: it appends or reclaims, *)
(* it moves the recovery cursor forward, or it does nothing to it.           *)
LEMMA LogUse ==
  ASSUME Inv,
         \/ low' \in low .. committed /\ committed' = committed /\ (log' = log \/ Len(log') = Len(log) + 1)
         \/ UNCHANGED <<log, low>> /\ committed' \in Int /\ committed' >= committed
  PROVE  [Log!Next]_Log!logVars
<1>1. low \in Int /\ committed \in Int /\ Len(log) \in Int /\ low <= committed /\ committed <= Len(log)
  BY SMTT(20) DEF Inv, TypeOK
<1>2. CASE low' \in low .. committed /\ committed' = committed /\ (log' = log \/ Len(log') = Len(log) + 1)
  <2>1. low' \in Int /\ low' >= low /\ low' <= committed /\ low' <= Len(log)
    BY <1>1, <1>2, SMTT(20)
  <2>2. Log!Reclaim
    BY <1>1, <2>1 DEF Log!Reclaim
  <2>3. CASE log' = log
    BY <1>2, <2>2, <2>3 DEF Log!Next
  <2>4. CASE Len(log') = Len(log) + 1
    <3>1. Log!Append
      BY <1>2, <2>4 DEF Log!Append
    <3> QED BY <2>2, <3>1 DEF Log!Next
  <2> QED BY <1>2, <2>3, <2>4
<1>3. CASE UNCHANGED <<log, low>> /\ committed' \in Int /\ committed' >= committed
  <2>1. Log!Reclaim
    BY <1>1, <1>3, SMTT(20) DEF Log!Reclaim
  <2>2. Log!Commit("recovery")
    BY <1>1, <1>3 DEF Log!Commit
  <2> QED BY <2>1, <2>2 DEF Log!Next
<1> QED BY <1>2, <1>3

LEMMA LogStep == Inv /\ [Next]_vars => [Log!Next]_Log!logVars
<1> SUFFICES ASSUME Inv, [Next]_vars PROVE [Log!Next]_Log!logVars
  OBVIOUS
<1>1. /\ low \in Int /\ committed \in Int /\ Len(log) \in Int /\ low <= committed /\ committed <= Len(log)
      /\ volatile \in Int /\ (up => committed <= volatile)
  BY SMTT(20) DEF Inv, TypeOK
<1>2. low \in low .. committed /\ committed >= committed
  BY <1>1, SMTT(20)
<1>3. ASSUME NEW k \in Key, NEW op \in Op, Insert(k, op) \/ InsertFails(k, op) \/ CrashInInsert(k, op)
      PROVE  [Log!Next]_Log!logVars
  <2>1. low' \in low .. committed /\ committed' = committed /\ log' = Append(log, ChangeOf(k, op))
    BY <1>3 DEF Insert, InsertFails, CrashInInsert, Reclaims
  <2>2. Changes(View[k], op)
    BY <1>3 DEF Insert, InsertFails, CrashInInsert
  <2>3. ChangeOf(k, op) \in Change
    BY <2>2, ChangeType
  <2>4. Len(log') = Len(log) + 1
    BY <2>1, <2>3, SMTT(20) DEF Inv, TypeOK
  <2> QED BY <2>1, <2>4, LogUse
<1>4. CASE DrainFails \/ Compact \/ Crash \/ CrashInDrain \/ CrashInOpen
  <2>1. low' \in low .. committed /\ committed' = committed /\ log' = log
    BY <1>2, <1>4 DEF DrainFails, Compact, Crash, CrashInDrain, CrashInOpen, Reclaims
  <2> QED BY <2>1, LogUse
<1>5. CASE UNCHANGED vars
  BY <1>2, <1>5, LogUse DEF vars
<1>6. CASE Flush \/ Close \/ Open \/ OpenFails
  <2>1. UNCHANGED <<log, low>>
    BY <1>6 DEF Flush, Close, Open, OpenFails
  <2>2. committed' \in Int /\ committed' >= committed
    BY <1>1, <1>6, SMTT(20) DEF Flush, Close, Open, OpenFails, CommitRecovery
  <2> QED BY <2>1, <2>2, LogUse
<1> QED BY <1>3, <1>4, <1>5, <1>6 DEF Next

(* The Table keeps to the protocol of a log user, which is what the topic's  *)
(* own promise is conditioned on: its recovery cursor never moves back, over *)
(* crashes, failing drains and failing opens, and nothing it has not         *)
(* committed is reclaimed.                                                   *)
THEOREM TableUsesLog == Spec => UsesLog
<1>1. Inv /\ [Next]_vars => [Log!Next]_Log!logVars
  BY LogStep
<1> QED BY <1>1, InitInv, StepInv, PTL DEF Spec, UsesLog
---------------------------------------------------------------------------

PowerSteps == {"idle", "down", "unreadable", "flush commit", "state sync", "commit", "log sync", "offsets sync"}

(* The types of the variables. *)
PowerTypes ==
  /\ log \in Seq([key : Keys, id : Nat]) /\ synced \in 0 .. Len(log)
  /\ state \in [Keys -> Nat] /\ cache \in [Keys -> Nat] /\ promised \in [Keys -> Nat]
  /\ stable \in [Keys -> SUBSET Nat] /\ dirty \in BOOLEAN /\ torn \in BOOLEAN
  /\ cursor \in Nat /\ committed \in Nat /\ onDisk \in SUBSET Nat
  /\ at \in PowerSteps /\ changes \in Nat

(* Changes are numbered in the order they are made. *)
PowerNumbered ==
  /\ \A k \in Keys : promised[k] <= changes /\ cache[k] <= changes
  /\ \A k \in Keys : \A v \in stable[k] : v <= changes
  /\ \A i \in 1 .. Len(log) : log[i].id <= changes

(* While the table is up its cursor is at the end of the topic or beyond,  *)
(* and the steps of sync have left behind what they stand for.             *)
PowerInStep ==
  /\ committed \in onDisk
  /\ at \notin {"down", "unreadable"} => Len(log) <= cursor
  /\ at # "idle" => cache = Power!Nothing
  /\ at \in {"log sync", "offsets sync"} => committed = cursor
  /\ \A k \in Keys : state[k] \in stable[k]
  /\ ~dirty => \A k \in Keys : stable[k] = {state[k]}

(* Unless the state was torn, a row that was promised is in it; whichever  *)
(* cursor is found on disk, the changes replayed from it are newer.        *)
PowerKept ==
  /\ ~torn => \A k \in Keys : promised[k] <= state[k] /\ (cache[k] = 0 \/ promised[k] <= cache[k])
  /\ \A c \in onDisk, i \in 1 .. Len(log) : c < i => promised[log[i].key] <= log[i].id

(* The same, value by value. *)
PowerValued ==
  /\ Len(log) \in Nat /\ changes \in Nat /\ cursor \in Nat /\ committed \in Nat
  /\ \A i \in 1 .. Len(log) : log[i].key \in Keys /\ log[i].id \in Nat
  /\ \A k \in Keys : cache[k] \in Nat /\ state[k] \in Nat /\ promised[k] \in Nat
  /\ \A k \in Keys : \A v \in stable[k] : v \in Nat
  /\ \A c \in onDisk : c \in Nat

(* A step leaves a state of changes made so far, in which no promised row  *)
(* is older than it was, unless the state was torn before.                 *)
KeepsRows ==
  /\ state' \in [Keys -> Nat] /\ stable' \in [Keys -> SUBSET Nat] /\ dirty' \in BOOLEAN
  /\ \A k \in Keys : state'[k] \in stable'[k]
  /\ \A k \in Keys : \A v \in stable'[k] : v <= changes
  /\ ~dirty' => \A k \in Keys : stable'[k] = {state'[k]}
  /\ ~torn => \A k \in Keys : promised[k] <= state'[k]

PowerInv == PowerTypes /\ PowerNumbered /\ PowerInStep /\ PowerKept
---------------------------------------------------------------------------
(* What replay puts is the row it finds, or a change behind the cursor. *)
LEMMA LastChangeIs ==
  ASSUME PowerTypes, NEW k \in Keys, NEW n \in Nat, NEW x
  PROVE  \/ Power!LastChange(k, n, x) = x
         \/ \E i \in 1 .. Len(log) : n < i /\ log[i].key = k /\ Power!LastChange(k, n, x) = log[i].id
<1> DEFINE S == {i \in (n + 1) .. Len(log) : log[i].key = k}
<1>1. Len(log) \in Nat
  BY SMTT(20) DEF PowerTypes
<1>2. CASE S = {}
  BY <1>2 DEF Power!LastChange
<1>3. CASE S # {}
  <2>1. S \in SUBSET (0 .. Len(log))
    BY <1>1, SMTT(20)
  <2>2. \E i \in S : \A j \in S : j <= i
    BY <1>1, <1>3, <2>1, GreatestExists, Zenon
  <2> HIDE DEF S
  <2>3. \E i \in S : \A j \in S : i >= j
    BY <1>1, <2>1, <2>2
  <2>4. Power!Max(S) \in S
    BY <2>3 DEF Power!Max
  <2>5. Power!LastChange(k, n, x) = log[Power!Max(S)].id
    BY <1>3 DEF Power!LastChange, S
  <2>6. Power!Max(S) \in 1 .. Len(log) /\ n < Power!Max(S) /\ log[Power!Max(S)].key = k
    BY <1>1, <2>4, SMTT(20) DEF S
  <2> QED BY <2>5, <2>6
<1> QED BY <1>2, <1>3

(* The types of the single values. *)
LEMMA IsValued == ASSUME PowerInv PROVE PowerValued
<1>1. log \in Seq([key : Keys, id : Nat])
  BY DEF PowerInv, PowerTypes
<1>2. Len(log) \in Nat /\ \A i \in 1 .. Len(log) : log[i] \in [key : Keys, id : Nat]
  <2> DEFINE R == [key : Keys, id : Nat]
  <2> HIDE DEF R
  <2>1. log \in Seq(R)
    BY <1>1 DEF R
  <2>2. Len(log) \in Nat /\ \A i \in 1 .. Len(log) : log[i] \in R
    BY <2>1, SMTT(20)
  <2> QED BY <2>2 DEF R
<1>3. \A i \in 1 .. Len(log) : log[i].key \in Keys /\ log[i].id \in Nat
  BY <1>2
<1>4. \A k \in Keys : cache[k] \in Nat /\ state[k] \in Nat /\ promised[k] \in Nat
  BY DEF PowerInv, PowerTypes
<1>5. \A k \in Keys : \A v \in stable[k] : v \in Nat
  BY DEF PowerInv, PowerTypes
<1>6. changes \in Nat /\ cursor \in Nat /\ committed \in Nat /\ \A c \in onDisk : c \in Nat
  BY DEF PowerInv, PowerTypes
<1> QED BY <1>2, <1>3, <1>4, <1>5, <1>6 DEF PowerValued

(* An empty cache is below every change. *)
LEMMA EmptyBelow ==
  ASSUME PowerInv, \A k \in Keys : cache'[k] = 0
  PROVE  \A k \in Keys : cache'[k] <= changes
<1> SUFFICES ASSUME NEW k \in Keys PROVE cache'[k] <= changes
  OBVIOUS
<1>1. cache'[k] = 0 /\ changes \in Nat
  BY IsValued DEF PowerValued
<1> QED BY <1>1, SMTT(20)

(* A fresh table. *)
LEMMA PowerInitInv == Power!Init => PowerInv
<1> SUFFICES ASSUME Power!Init PROVE PowerInv
  OBVIOUS
<1>1. dirty \in BOOLEAN /\ torn \in BOOLEAN
  BY Zenon DEF Power!Init
<1>2. PowerTypes
  BY <1>1, SMTT(20) DEF Power!Init, PowerTypes, Power!Nothing, PowerSteps
<1>3. PowerNumbered /\ PowerInStep /\ PowerKept
  BY SMTT(20) DEF Power!Init, PowerNumbered, PowerInStep, PowerKept, Power!Nothing
<1> QED BY <1>2, <1>3 DEF PowerInv

(* What get() returns is a change made so far, at least what was promised. *)
LEMMA ViewKept ==
  ASSUME PowerInv, NEW k \in Keys
  PROVE  Power!View(k) \in Nat /\ Power!View(k) <= changes /\ (torn \/ promised[k] <= Power!View(k))
<1>1. state[k] \in stable[k]
  BY DEF PowerInv, PowerInStep
<1>2. state[k] \in Nat /\ state[k] <= changes /\ (torn \/ promised[k] <= state[k])
  BY <1>1 DEF PowerInv, PowerTypes, PowerNumbered, PowerKept
<1>3. cache[k] \in Nat /\ cache[k] <= changes /\ (torn \/ cache[k] = 0 \/ promised[k] <= cache[k])
  BY DEF PowerInv, PowerTypes, PowerNumbered, PowerKept
<1> QED BY <1>2, <1>3 DEF Power!View

(* Rows that are put, if they are new enough, keep what was promised. *)
LEMMA PutKeeps ==
  ASSUME PowerInv, NEW new \in [Keys -> Nat], Power!Put(new),
         \A k \in Keys : new[k] <= changes /\ (torn \/ promised[k] <= new[k])
  PROVE  KeepsRows
<1>1. state' = new /\ stable' = [k \in Keys |-> stable[k] \union {0, new[k]}] /\ dirty' = TRUE
  BY DEF Power!Put
<1>2. stable \in [Keys -> SUBSET Nat] /\ 0 \in Nat
  BY SMTT(20) DEF PowerInv, PowerTypes
<1>3. stable' \in [Keys -> SUBSET Nat] /\ \A k \in Keys : stable'[k] = stable[k] \union {0, new[k]}
  BY <1>1, <1>2
<1>4. 0 <= changes
  BY SMTT(20) DEF PowerInv, PowerTypes
<1>5. \A k \in Keys : \A v \in stable'[k] : v <= changes
  BY <1>3, <1>4 DEF PowerInv, PowerNumbered
<1> QED BY <1>1, <1>3, <1>5 DEF KeepsRows

(* A step that leaves the state alone. *)
LEMMA SameFileKeeps == ASSUME PowerInv, UNCHANGED Power!file PROVE KeepsRows
BY DEF Power!file, PowerInv, PowerTypes, PowerNumbered, PowerInStep, PowerKept, KeepsRows

(* drain_cache, in insert, flush or sync, puts what get() shows. *)
LEMMA PutCacheKeeps == ASSUME PowerInv, Power!PutCache PROVE KeepsRows
<1>1. Power!Drained \in [Keys -> Nat]
      /\ \A k \in Keys : Power!Drained[k] <= changes /\ (torn \/ promised[k] <= Power!Drained[k])
  BY ViewKept DEF Power!Drained
<1>2. CASE UNCHANGED Power!file
  BY <1>2, SameFileKeeps
<1>3. CASE Power!Put(Power!Drained)
  BY <1>1, <1>3, PutKeeps
<1> QED BY <1>2, <1>3 DEF Power!PutCache

(* insert appends a change numbered above all that was promised. *)
LEMMA InsertKeeps == ASSUME PowerInv, NEW k \in Keys, Power!Insert(k) PROVE PowerInv'
<1>1. /\ at = "idle" /\ changes' = changes + 1 /\ log' = Append(log, [key |-> k, id |-> changes + 1])
      /\ cursor' = Len(log') /\ UNCHANGED <<synced, committed, onDisk, at, promised, torn>>
  BY DEF Power!Insert
<1>2. /\ changes \in Nat /\ log \in Seq([key : Keys, id : Nat]) /\ Len(log) \in Nat
      /\ [key |-> k, id |-> changes + 1] \in [key : Keys, id : Nat]
  BY SMTT(20) DEF PowerInv, PowerTypes
<1>3. /\ log' \in Seq([key : Keys, id : Nat]) /\ Len(log') = Len(log) + 1
      /\ \A i \in 1 .. Len(log) : log'[i] = log[i]
      /\ log'[Len(log) + 1] = [key |-> k, id |-> changes + 1]
  BY <1>1, <1>2, SMTT(20)
<1>4. /\ cache' \in [Keys -> Nat]
      /\ \A j \in Keys : cache'[j] = 0 \/ cache'[j] = changes + 1 \/ cache'[j] = cache[j]
  <2>1. cache' = [Power!Nothing EXCEPT ![k] = changes + 1] \/ cache' = [cache EXCEPT ![k] = changes + 1]
    BY <1>1 DEF Power!Insert
  <2>2. cache \in [Keys -> Nat] /\ Power!Nothing \in [Keys -> Nat] /\ \A j \in Keys : Power!Nothing[j] = 0
    BY DEF Power!Nothing, PowerInv, PowerTypes
  <2>3. changes + 1 \in Nat
    BY <1>2
  <2>4. CASE cache' = [Power!Nothing EXCEPT ![k] = changes + 1]
    BY <2>2, <2>3, <2>4
  <2>5. CASE cache' = [cache EXCEPT ![k] = changes + 1]
    BY <2>2, <2>3, <2>5
  <2> QED BY <2>1, <2>4, <2>5
<1>5. KeepsRows
  <2>1. CASE Power!Full(k)
    BY <2>1, PutCacheKeeps DEF Power!Insert
  <2>2. CASE ~Power!Full(k)
    BY <2>2, SameFileKeeps DEF Power!Insert
  <2> QED BY <2>1, <2>2
<1>6. PowerTypes'
  <2>1. cursor' \in Nat /\ changes' \in Nat /\ Len(log') \in Nat
    BY <1>1, <1>2, <1>3, SMTT(20)
  <2>2. synced' \in 0 .. Len(log')
    BY <1>1, <1>2, <1>3, SMTT(20) DEF PowerInv, PowerTypes
  <2> QED BY <1>1, <1>3, <1>4, <1>5, <2>1, <2>2, Zenon DEF PowerInv, PowerTypes, KeepsRows
<1>7. PowerNumbered'
  <2>1. \A j \in Keys : promised'[j] <= changes' /\ cache'[j] <= changes'
    <3>1. \A j \in Keys : promised[j] <= changes /\ cache[j] <= changes
      BY DEF PowerInv, PowerNumbered
    <3>2. \A j \in Keys : promised[j] \in Nat /\ cache[j] \in Nat
      BY IsValued DEF PowerValued
    <3>3. changes' = changes + 1 /\ promised' = promised /\ changes \in Nat
      BY <1>1, <1>2
    <3> SUFFICES ASSUME NEW j \in Keys PROVE promised'[j] <= changes' /\ cache'[j] <= changes'
      OBVIOUS
    <3>4. cache'[j] = 0 \/ cache'[j] = changes + 1 \/ cache'[j] = cache[j]
      BY <1>4
    <3> QED BY <3>1, <3>2, <3>3, <3>4, SMTT(20)
  <2>2. \A j \in Keys : \A v \in stable'[j] : v <= changes'
    <3>1. \A j \in Keys : \A v \in stable'[j] : v \in Nat /\ v <= changes
      BY <1>5 DEF KeepsRows
    <3> QED BY <1>1, <1>2, <3>1, SMTT(20)
  <2>3. \A i \in 1 .. Len(log') : log'[i].id <= changes'
    <3>1. \A i \in 1 .. Len(log) : log[i].id \in Nat /\ log[i].id <= changes
      BY IsValued, Zenon DEF PowerValued, PowerInv, PowerNumbered
    <3>2. \A i \in 1 .. Len(log) : log[i].id <= changes + 1
      BY <1>2, <3>1, SMTT(20)
    <3>3. [key |-> k, id |-> changes + 1].id = changes + 1 /\ changes + 1 <= changes + 1
      BY <1>2, SMTT(20)
    <3>4. \A i \in 1 .. Len(log') : i \in 1 .. Len(log) \/ i = Len(log) + 1
      BY <1>2, <1>3, SMTT(20)
    <3> QED BY <1>1, <1>3, <3>2, <3>3, <3>4, Zenon
  <2> QED BY <2>1, <2>2, <2>3 DEF PowerNumbered
<1>8. PowerInStep'
  <2>1. Len(log') <= cursor'
    BY <1>1, <1>2, <1>3, SMTT(20)
  <2> QED BY <1>1, <1>5, <2>1, Zenon DEF PowerInv, PowerInStep, KeepsRows
<1>9. PowerKept'
  <2>1. \A j \in Keys : promised[j] \in Nat /\ promised[j] <= changes
    BY DEF PowerInv, PowerTypes, PowerNumbered
  <2>2. ~torn => \A j \in Keys : cache'[j] = 0 \/ promised[j] <= cache'[j]
    <3> SUFFICES ASSUME ~torn, NEW j \in Keys PROVE cache'[j] = 0 \/ promised[j] <= cache'[j]
      OBVIOUS
    <3>1. cache'[j] = 0 \/ cache'[j] = changes + 1 \/ cache'[j] = cache[j]
      BY <1>4
    <3>2. cache[j] = 0 \/ promised[j] <= cache[j]
      BY DEF PowerInv, PowerKept
    <3>3. changes \in Nat /\ promised[j] \in Nat /\ promised[j] <= changes
      BY <1>2, <2>1
    <3> QED BY <3>1, <3>2, <3>3, SMTT(20)
  <2>3. \A c \in onDisk, i \in 1 .. Len(log') : c < i => promised[log'[i].key] <= log'[i].id
    <3> SUFFICES ASSUME NEW c \in onDisk, NEW i \in 1 .. Len(log'), c < i
                 PROVE  promised[log'[i].key] <= log'[i].id
      OBVIOUS
    <3>1. CASE i \in 1 .. Len(log)
      BY <1>3, <3>1, Zenon DEF PowerInv, PowerKept
    <3>2. CASE i = Len(log) + 1
      <4>1. log'[i].key = k /\ log'[i].id = changes + 1
        BY <1>3, <3>2, SMTT(20)
      <4> QED BY <1>2, <2>1, <4>1, SMTT(20)
    <3>3. i \in 1 .. Len(log) \/ i = Len(log) + 1
      BY <1>2, <1>3, SMTT(20)
    <3> QED BY <3>1, <3>2, <3>3
  <2> QED BY <1>1, <1>5, <2>2, <2>3, Zenon DEF PowerKept, KeepsRows
<1> QED BY <1>6, <1>7, <1>8, <1>9 DEF PowerInv

(* flush and sync begin with drain_cache. *)
LEMMA DrainKeeps ==
  ASSUME PowerInv, NEW step \in {"flush commit", "state sync"}, Power!Drain(step)
  PROVE  PowerInv'
<1>1. /\ at = "idle" /\ cache' = Power!Nothing /\ at' = step
      /\ UNCHANGED <<log, synced, cursor, committed, onDisk, changes, promised, torn>>
  BY Zenon DEF Power!Drain, Power!Cleared
<1>2. KeepsRows
  BY PutCacheKeeps, Zenon DEF Power!Drain
<1>3. cache' \in [Keys -> Nat] /\ \A j \in Keys : cache'[j] = 0
  BY <1>1, Zenon DEF Power!Nothing
<1>4. PowerTypes'
  BY <1>1, <1>2, <1>3, Zenon DEF PowerInv, PowerTypes, PowerSteps, KeepsRows
<1>5. PowerNumbered'
  <2>1. \A j \in Keys : cache'[j] <= changes
    BY <1>3, EmptyBelow, Zenon
  <2> QED BY <1>1, <1>2, <2>1, Zenon DEF PowerInv, PowerNumbered, KeepsRows
<1>6. PowerInStep'
  BY <1>1, <1>2, Zenon DEF PowerInv, PowerInStep, KeepsRows
<1>7. PowerKept'
  BY <1>1, <1>2, <1>3, Zenon DEF PowerInv, PowerKept, KeepsRows
<1> QED BY <1>4, <1>5, <1>6, <1>7, Zenon DEF PowerInv

(* state.sync leaves one version of each row. *)
LEMMA StateSyncKeeps == ASSUME PowerInv, Power!StateSync PROVE PowerInv'
<1>1. /\ at = "state sync" /\ at' = "commit" /\ stable' = [k \in Keys |-> {state[k]}] /\ dirty' = FALSE
      /\ UNCHANGED <<log, synced, state, cache, cursor, committed, onDisk, changes, promised, torn>>
  BY Zenon DEF Power!StateSync, Power!StateSynced
<1>2. PowerTypes'
  BY <1>1, Zenon DEF PowerInv, PowerTypes, PowerSteps
<1>3. PowerNumbered'
  BY <1>1, Zenon DEF PowerInv, PowerNumbered, PowerInStep
<1>4. PowerInStep'
  BY <1>1, Zenon DEF PowerInv, PowerInStep
<1>5. PowerKept'
  BY <1>1, Zenon DEF PowerInv, PowerKept
<1> QED BY <1>2, <1>3, <1>4, <1>5 DEF PowerInv

(* The cursor is committed at the end of the topic: nothing lies behind it. *)
LEMMA CommitKeeps == ASSUME PowerInv, Power!Commit PROVE PowerInv'
<1>1. /\ at \in {"commit", "flush commit"} /\ committed' = cursor /\ onDisk' = onDisk \union {cursor}
      /\ at' = IF at = "commit" THEN "log sync" ELSE "idle"
      /\ UNCHANGED <<log, synced, state, stable, dirty, cache, cursor, changes, promised, torn>>
  BY Zenon DEF Power!Commit, Power!file
<1>2. Len(log) \in Nat /\ cursor \in Nat /\ Len(log) <= cursor
  BY <1>1, IsValued, Zenon DEF PowerValued, PowerInv, PowerInStep
<1>3. PowerTypes'
  BY <1>1, Zenon DEF PowerInv, PowerTypes, PowerSteps
<1>4. PowerNumbered'
  BY <1>1, Zenon DEF PowerInv, PowerNumbered
<1>5. PowerInStep'
  BY <1>1, Zenon DEF PowerInv, PowerInStep
<1>6. PowerKept'
  <2>1. \A c \in onDisk', i \in 1 .. Len(log) : c < i => promised[log[i].key] <= log[i].id
    <3>1. \A c \in onDisk, i \in 1 .. Len(log) : c < i => promised[log[i].key] <= log[i].id
      BY DEF PowerInv, PowerKept
    <3>2. \A i \in 1 .. Len(log) : ~(cursor < i)
      BY <1>2, SMTT(20)
    <3> QED BY <1>1, <3>1, <3>2, Zenon
  <2> QED BY <1>1, <2>1, Zenon DEF PowerInv, PowerKept
<1> QED BY <1>3, <1>4, <1>5, <1>6 DEF PowerInv

(* topic.sync makes the log durable. *)
LEMMA LogSyncKeeps == ASSUME PowerInv, Power!LogSync PROVE PowerInv'
<1>1. PowerTypes'
  <2>1. /\ synced' = Len(log) /\ at' = "offsets sync"
        /\ UNCHANGED <<log, state, stable, dirty, cache, cursor, committed, onDisk, changes, promised, torn>>
    BY Zenon DEF Power!LogSync, Power!file
  <2>2. synced' \in 0 .. Len(log')
    <3>1. Len(log) \in Nat
      BY IsValued DEF PowerValued
    <3>2. log' = log /\ synced' = Len(log)
      BY <2>1, Zenon
    <3> QED BY <3>1, <3>2, SMTT(20)
  <2> QED BY <2>1, <2>2, Zenon DEF PowerInv, PowerTypes, PowerSteps
<1>2. PowerNumbered' /\ PowerInStep' /\ PowerKept'
  BY Zenon DEF Power!LogSync, Power!file, PowerInv, PowerNumbered, PowerInStep, PowerKept
<1> QED BY <1>1, <1>2 DEF PowerInv

(* The promise is what get() returns from a state without a cache, and     *)
(* nothing lies behind the only cursor that is on disk.                    *)
LEMMA OffsetsSyncKeeps == ASSUME PowerInv, Power!OffsetsSync PROVE PowerInv'
<1>1. /\ at = "offsets sync" /\ at' = "idle" /\ onDisk' = {committed}
      /\ promised' = [k \in Keys |-> Power!Max({promised[k], Power!View(k)})]
      /\ UNCHANGED <<log, synced, state, stable, dirty, cache, cursor, committed, changes, torn>>
  BY Zenon DEF Power!OffsetsSync, Power!file
<1>2. \A k \in Keys : Power!View(k) = state[k] /\ cache[k] = 0
  BY <1>1, Zenon DEF PowerInv, PowerInStep, Power!View, Power!Nothing
<1>3. ASSUME NEW k \in Keys
      PROVE  /\ Power!Max({promised[k], Power!View(k)}) \in Nat
             /\ Power!Max({promised[k], Power!View(k)}) <= changes
             /\ torn \/ Power!Max({promised[k], Power!View(k)}) <= Power!View(k)
  <2>1. /\ promised[k] \in Nat /\ Power!View(k) \in Nat
        /\ promised[k] <= changes /\ Power!View(k) <= changes
    BY ViewKept, Zenon DEF PowerInv, PowerTypes, PowerNumbered
  <2>2. torn \/ promised[k] <= Power!View(k)
    BY ViewKept, Zenon
  <2>3. Power!Max({promised[k], Power!View(k)}) = IF promised[k] <= Power!View(k) THEN Power!View(k) ELSE promised[k]
    BY <2>1, SMTT(20) DEF Power!Max
  <2>4. Power!View(k) <= Power!View(k)
    BY <2>1, SMTT(20)
  <2> QED BY <2>1, <2>2, <2>3, <2>4, Zenon
<1>4. promised' \in [Keys -> Nat] /\ \A k \in Keys : promised'[k] <= changes /\ (torn \/ promised'[k] <= state[k])
  BY <1>1, <1>2, <1>3, Zenon
<1>5. Len(log) \in Nat /\ Len(log) <= committed /\ committed \in Nat
  BY <1>1, IsValued, Zenon DEF PowerValued, PowerInv, PowerInStep
<1>6. PowerTypes'
  BY <1>1, <1>4, Zenon DEF PowerInv, PowerTypes, PowerSteps
<1>7. PowerNumbered'
  BY <1>1, <1>4, Zenon DEF PowerInv, PowerNumbered
<1>8. PowerInStep'
  BY <1>1, Zenon DEF PowerInv, PowerInStep
<1>9. PowerKept'
  <2>1. \A c \in onDisk', i \in 1 .. Len(log') : ~(c < i)
    <3>1. \A i \in 1 .. Len(log) : ~(committed < i)
      BY <1>5, SMTT(20)
    <3> QED BY <1>1, <3>1, Zenon
  <2> QED BY <1>1, <1>2, <1>4, <2>1, Zenon DEF PowerKept
<1> QED BY <1>6, <1>7, <1>8, <1>9 DEF PowerInv

(* A crash forgets the cache and the cursor. *)
LEMMA CrashKeeps == ASSUME PowerInv, Power!Crash PROVE PowerInv'
<1>1. /\ at' = "down" /\ cache' = Power!Nothing /\ cursor' = 0
      /\ UNCHANGED <<log, synced, state, stable, dirty, committed, onDisk, changes, promised, torn>>
  BY DEF Power!Crash, Power!Down, Power!file
<1>2. cache' \in [Keys -> Nat] /\ \A k \in Keys : cache'[k] = 0
  BY <1>1 DEF Power!Nothing
<1>3. PowerTypes'
  BY <1>1, <1>2, Zenon DEF PowerInv, PowerTypes, PowerSteps
<1>4. PowerNumbered'
  <2>1. \A k \in Keys : cache'[k] <= changes
    BY <1>2, EmptyBelow
  <2> QED BY <1>1, <2>1 DEF PowerInv, PowerNumbered
<1>5. PowerInStep'
  BY <1>1, Zenon DEF PowerInv, PowerInStep, Power!Nothing
<1>6. PowerKept'
  BY <1>1, <1>2 DEF PowerInv, PowerKept
<1> QED BY <1>3, <1>4, <1>5, <1>6 DEF PowerInv

(* A power failure shortens the log, and keeps of each row and of the      *)
(* cursor one version that could be on disk: of a state that is not dirty  *)
(* the only one.                                                           *)
LEMMA PowerLossKeeps == ASSUME PowerInv, Power!PowerLoss PROVE PowerInv'
<1>1. /\ at' \in {"down", "unreadable"} /\ cache' = Power!Nothing /\ cursor' = 0
      /\ torn' = (torn \/ dirty) /\ dirty' = FALSE /\ UNCHANGED <<changes, promised>>
  BY DEF Power!PowerLoss, Power!Down
<1>2. cache' \in [Keys -> Nat] /\ \A k \in Keys : cache'[k] = 0
  BY <1>1 DEF Power!Nothing
<1>3. /\ log' \in Seq([key : Keys, id : Nat]) /\ Len(log') \in Nat /\ Len(log') <= Len(log)
      /\ synced' = Len(log') /\ \A i \in 1 .. Len(log') : log'[i] = log[i]
  <2> DEFINE R == [key : Keys, id : Nat]
  <2> HIDE DEF R
  <2>1. PICK n \in synced .. Len(log) : log' = SubSeq(log, 1, n) /\ synced' = n
    BY DEF Power!PowerLoss
  <2>2. log \in Seq(R) /\ synced \in 0 .. Len(log)
    BY DEF PowerInv, PowerTypes, R
  <2>3. Len(log) \in Nat /\ n \in 0 .. Len(log)
    BY <2>1, <2>2, SMTT(20)
  <2>4. /\ SubSeq(log, 1, n) \in Seq(R) /\ Len(SubSeq(log, 1, n)) = n
        /\ \A i \in 1 .. n : SubSeq(log, 1, n)[i] = log[i]
    BY <2>2, <2>3, SMTT(20)
  <2> QED BY <2>1, <2>3, <2>4, SMTT(20) DEF R
<1>4. /\ state' \in [Keys -> Nat] /\ \A k \in Keys : state'[k] \in stable[k]
      /\ stable' = [k \in Keys |-> {state'[k]}]
  <2>1. /\ state' \in [Keys -> UNION {stable[k] : k \in Keys}] /\ \A k \in Keys : state'[k] \in stable[k]
        /\ stable' = [k \in Keys |-> {state'[k]}]
    BY DEF Power!PowerLoss
  <2>2. UNION {stable[k] : k \in Keys} \subseteq Nat
    BY DEF PowerInv, PowerTypes
  <2> QED BY <2>1, <2>2
<1>5. committed' \in onDisk /\ onDisk' = {committed'} /\ committed' \in Nat
  BY IsValued DEF Power!PowerLoss, PowerValued
<1>6. /\ stable' \in [Keys -> SUBSET Nat] /\ \A k \in Keys : stable'[k] = {state'[k]}
      /\ \A k \in Keys : state'[k] \in stable'[k] /\ stable'[k] \subseteq stable[k]
  BY <1>4
<1>7. PowerTypes'
  <2>1. synced' \in 0 .. Len(log')
    BY <1>3, SMTT(20)
  <2>2. dirty' \in BOOLEAN /\ torn' \in BOOLEAN
    BY <1>1, Zenon
  <2> QED BY <2>2, <1>1, <1>2, <1>3, <1>4, <1>5, <1>6, <2>1, Zenon DEF PowerInv, PowerTypes, PowerSteps
<1>8. PowerNumbered'
  <2>1. \A k \in Keys : cache'[k] <= changes
    BY <1>2, EmptyBelow
  <2>2. \A k \in Keys : \A v \in stable'[k] : v <= changes
    BY <1>6 DEF PowerInv, PowerNumbered
  <2>3. \A i \in 1 .. Len(log') : i \in 1 .. Len(log) /\ log'[i] = log[i]
    BY <1>3, IsValued, SMTT(20) DEF PowerValued
  <2>4. \A i \in 1 .. Len(log') : log'[i].id <= changes
    BY <2>3 DEF PowerInv, PowerNumbered
  <2> QED BY <1>1, <2>1, <2>2, <2>4 DEF PowerInv, PowerNumbered
<1>9. PowerInStep'
  BY <1>1, <1>5, <1>6, Zenon DEF PowerInStep, Power!Nothing
<1>10. PowerKept'
  <2>1. ~torn' => \A k \in Keys : promised[k] <= state'[k]
    <3> SUFFICES ASSUME ~torn', NEW k \in Keys PROVE promised[k] <= state'[k]
      OBVIOUS
    <3>1. ~torn /\ ~dirty
      BY <1>1, Zenon
    <3>2. state'[k] = state[k]
      BY <1>4, <3>1, Zenon DEF PowerInv, PowerInStep
    <3> QED BY <3>1, <3>2, Zenon DEF PowerInv, PowerKept
  <2>2. \A i \in 1 .. Len(log') : i \in 1 .. Len(log) /\ log'[i] = log[i]
    BY <1>3, IsValued, SMTT(20) DEF PowerValued
  <2>3. \A c \in onDisk, i \in 1 .. Len(log) : c < i => promised[log[i].key] <= log[i].id
    BY DEF PowerInv, PowerKept
  <2>4. \A c \in onDisk', i \in 1 .. Len(log') : c < i => promised[log'[i].key] <= log'[i].id
    BY <1>5, <2>2, <2>3
  <2>5. promised' = promised
    BY <1>1
  <2> QED BY <1>2, <2>1, <2>4, <2>5, Zenon DEF PowerKept
<1> QED BY <1>7, <1>8, <1>9, <1>10 DEF PowerInv

(* open replays what lies behind the cursor it found: newer changes only. *)
LEMMA OpenKeeps == ASSUME PowerInv, Power!Open PROVE PowerInv'
<1> DEFINE new == [k \in Keys |-> Power!LastChange(k, committed, state[k])]
<1>1. UNCHANGED Power!file \/ Power!Put(new)
  BY Zenon DEF Power!Open
<1>2. /\ at = "down" /\ at' = "state sync" /\ UNCHANGED <<log, synced, cache, committed, onDisk, changes, promised, torn>>
  BY Zenon DEF Power!Open
<1>3. cursor' = IF committed > Len(log) THEN committed ELSE Len(log)
  BY Zenon DEF Power!Open
<1>4. \A k \in Keys : Power!LastChange(k, committed, state[k]) \in Nat
         /\ (torn \/ promised[k] <= Power!LastChange(k, committed, state[k])) /\ Power!LastChange(k, committed, state[k]) <= changes
  <2> SUFFICES ASSUME NEW k \in Keys
               PROVE  /\ Power!LastChange(k, committed, state[k]) \in Nat
                      /\ torn \/ promised[k] <= Power!LastChange(k, committed, state[k])
                      /\ Power!LastChange(k, committed, state[k]) <= changes
    OBVIOUS
  <2>1. state[k] \in Nat /\ (torn \/ promised[k] <= state[k]) /\ state[k] <= changes
    BY IsValued, Zenon DEF PowerValued, PowerInv, PowerKept, PowerNumbered, PowerInStep
  <2>2. committed \in Nat /\ committed \in onDisk
    BY Zenon DEF PowerInv, PowerTypes, PowerInStep
  <2>3. \/ Power!LastChange(k, committed, state[k]) = state[k]
        \/ \E i \in 1 .. Len(log) : committed < i /\ log[i].key = k /\ Power!LastChange(k, committed, state[k]) = log[i].id
    BY <2>2, LastChangeIs, SMTT(20) DEF PowerInv
  <2>4. ASSUME NEW i \in 1 .. Len(log), committed < i, log[i].key = k
        PROVE  log[i].id \in Nat /\ promised[k] <= log[i].id /\ log[i].id <= changes
    <3>1. promised[log[i].key] <= log[i].id
      BY <2>2, <2>4, Zenon DEF PowerInv, PowerKept
    <3>2. log[i].id \in Nat
      BY IsValued, Zenon DEF PowerValued
    <3>3. log[i].id <= changes
      BY Zenon DEF PowerInv, PowerNumbered
    <3> QED BY <2>4, <3>1, <3>2, <3>3
  <2> QED BY <2>1, <2>3, <2>4
<1>5. new \in [Keys -> Nat] /\ \A k \in Keys : new[k] <= changes /\ (torn \/ promised[k] <= new[k])
  BY <1>4
<1> HIDE DEF new
<1>6. KeepsRows
  BY <1>1, <1>5, PutKeeps, SameFileKeeps
<1>7. cursor' \in Nat /\ Len(log) <= cursor'
  BY <1>3, IsValued, SMTT(20) DEF PowerValued
<1>8. PowerTypes'
  BY <1>2, <1>6, <1>7, Zenon DEF PowerInv, PowerTypes, PowerSteps, KeepsRows
<1>9. PowerNumbered'
  BY <1>2, <1>6, Zenon DEF PowerInv, PowerNumbered, KeepsRows
<1>10. PowerInStep'
  BY <1>2, <1>6, <1>7, Zenon DEF PowerInv, PowerInStep, Power!Nothing, KeepsRows
<1>11. PowerKept'
  BY <1>2, <1>6, Zenon DEF PowerInv, PowerKept, KeepsRows
<1> QED BY <1>8, <1>9, <1>10, <1>11 DEF PowerInv
---------------------------------------------------------------------------
(* Every step of the table, a crash or a power failure included, keeps the *)
(* invariant.                                                              *)
THEOREM PowerInvariant == Power!Spec => []PowerInv
<1>1. ASSUME PowerInv, [Power!Next]_Power!vars PROVE PowerInv'
  <2>1. CASE \E k \in Keys : Power!Insert(k)
    BY <1>1, <2>1, InsertKeeps
  <2>2. CASE Power!Flush \/ Power!Sync
    BY <1>1, <2>2, DrainKeeps, Zenon DEF Power!Flush, Power!Sync
  <2>3. CASE Power!StateSync \/ Power!Commit \/ Power!LogSync \/ Power!OffsetsSync
    BY <1>1, <2>3, StateSyncKeeps, CommitKeeps, LogSyncKeeps, OffsetsSyncKeeps
  <2>4. CASE Power!Crash \/ Power!PowerLoss \/ Power!Open
    BY <1>1, <2>4, CrashKeeps, PowerLossKeeps, OpenKeeps
  <2>5. CASE UNCHANGED Power!vars
    BY <1>1, <2>5, Zenon DEF Power!vars, Power!file, PowerInv, PowerTypes, PowerNumbered, PowerInStep, PowerKept
  <2> QED BY <1>1, <2>1, <2>2, <2>3, <2>4, <2>5 DEF Power!Next
<1> QED BY <1>1, PowerInitInv, PTL DEF Power!Spec

(* What get() returned when sync() returned Ok is there, or something      *)
(* newer, after any crashes and any power failures, as long as none struck *)
(* a state with rows put since its last state.sync (Table::sync, flush,    *)
(* replay_recovery).                                                       *)
THEOREM PowerSyncedSurvive == Power!Spec => []Power!SyncedSurvive
<1>1. PowerInv => Power!SyncedSurvive
  <2> SUFFICES ASSUME PowerInv, ~torn, NEW k \in Keys PROVE Power!View(k) >= promised[k]
    BY DEF Power!SyncedSurvive
  <2>1. Power!View(k) \in Nat /\ promised[k] \in Nat /\ promised[k] <= Power!View(k)
    BY ViewKept, IsValued DEF PowerValued
  <2> QED BY <2>1
<1> QED BY <1>1, PowerInvariant, PTL
=============================================================================
