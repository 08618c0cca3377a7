---------------------------- MODULE TopicProofs ----------------------------
(***************************************************************************)
(* Theorems about Topic for every number of consumers, record sizes and    *)
(* segment limit, as long as no consumer seeks below its committed offset: *)
(* crashes and recovery, too, keep the invariant of TopicDisk.             *)
(***************************************************************************)
EXTENDS TopicDisk

(* A leaf is tried with Zenon, then with SMT; those that need arithmetic   *)
(* or are too large for Zenon name SMT.                                    *)
USE ZenonT(10), SMTT(20)

(* A process that goes away leaves files that still satisfy Disk. *)
LEMMA DownInv ==
  ASSUME Inv, NEW f, NEW t, Disk(f, offsets, t), acked <= End(f, t), Down(f)
  PROVE  Inv'
<1>1. Closed'
  <2>1. t \in DOMAIN f
    BY DEF Disk
  <2>2. file' = f /\ offsets' = offsets /\ acked' = acked
    BY DEF Down
  <2>3. \E u \in DOMAIN file' : Disk(file', offsets', u) /\ acked' <= End(file', u)
    BY <2>1, <2>2
  <2>4. (\E u \in DOMAIN file : Disk(file, offsets, u) /\ acked <= End(file, u))'
    BY <2>3
  <2> QED BY <2>4 DEF Closed, Down
<1> QED BY <1>1, Zenon DEF Inv, Cursors, Down

LEMMA CrashInv ==
  ASSUME Inv, Close \/ Crash \/ CrashInCompact
  PROVE  Inv'
<1>1. up /\ Cursors(offsets)
  BY DEF Close, Crash, CrashInCompact, Inv
<1>2. /\ Shape(file, list, tail, seg, offsets, held) /\ Readers(file, offsets, held, active, cons)
      /\ acked <= End(file, tail)
  BY <1>1 DEF Inv, Opened
<1>3. CASE Close \/ Crash
  <2>1. Disk(file, offsets, tail) /\ Down(file)
    BY <1>2, <1>3 DEF Close, Crash, Shape
  <2> QED BY <1>2, <2>1, DownInv
<1>4. CASE CrashInCompact
  <2> DEFINE gone == Removable(seg, list, tail)
  <2>1. PICK f \in Unlinked(file, gone, Live({}, held)) : Down(f)
    BY <1>4 DEF CrashInCompact
  <2>2. gone = {} \/ gone = Removable(seg, list, tail)
    OBVIOUS
  <2> HIDE DEF gone
  <2>3. Disk(f, offsets, tail) /\ End(f, tail) = End(file, tail)
    BY <1>1, <1>2, <2>1, <2>2, UnlinkedDisk, SMTT(20)
  <2> QED BY <1>2, <2>1, <2>3, DownInv
<1> QED BY <1>3, <1>4

(* A crash inside append: the files of the rotation, of its compaction, a    *)
(* torn record, or the whole record nobody has been told about.              *)
LEMMA CrashInAppendInv ==
  ASSUME Inv, NEW s \in RecordSize, CrashInAppend(s)
  PROVE  Inv'
<1> DEFINE t == TailBase(s)
           g == Files(s)
           sg == Segments(s)
           l == Listed(s)
           gone == Dropped(s)
           S == Live(l \ gone, held)
           left == Restrict(g, S)
<1>1. up /\ next < MaxOffset /\ Cursors(offsets) /\ acked <= next /\ s \in Nat /\ MaxOffset \in Nat
      /\ next = End(file, tail) /\ Shape(file, list, tail, seg, offsets, held)
  BY TopicConstants DEF Inv, Opened, CrashInAppend
<1>2. /\ Shape(g, l, t, sg, offsets, held) /\ Readers(g, offsets, held, active, cons)
      /\ End(g, t) = next
  BY <1>1, TailShape
<1>3. gone = {} \/ gone = Removable(sg, l, t)
  BY DEF Dropped
<1>4. \/ Rotates(s) /\ \E whole \in BOOLEAN : Down([g EXCEPT ![t] = NewFile(whole)])
      \/ \E f \in Unlinked(g, gone, Live({}, held)) : Down(f)
      \/ Down([left EXCEPT ![t].torn = TRUE])
      \/ Down([left EXCEPT ![t] = WriteRecord(@, s)])
  BY DEF CrashInAppend
<1>5. CASE Rotates(s) /\ \E whole \in BOOLEAN : Down([g EXCEPT ![t] = NewFile(whole)])
  <2>1. PICK whole \in BOOLEAN : Down([g EXCEPT ![t] = NewFile(whole)])
    BY <1>5
  <2>2. tail \in DOMAIN file /\ seg[tail].end # tail /\ seg[tail].end = next /\ t = next
    BY <1>1, <1>5 DEF Rotates, TailBase, Shape, Disk
  <2>3. tail \in Nat /\ next \in Nat /\ tail <= next
    <3>1. Disk(file, offsets, tail)
      BY <1>1 DEF Shape
    <3>2. file[tail] \in File
      BY <3>1 DEF Disk
    <3>3. file[tail].n \in Nat
      BY <3>2 DEF File
    <3>4. tail \in Nat /\ next \in Nat
      BY <1>1, TailFacts
    <3>5. next = tail + file[tail].n
      BY <1>1 DEF End
    <3> QED BY <3>3, <3>4, <3>5, SMTT(20)
  <2>4. tail < End(file, tail) /\ file[tail].magic /\ ~file[tail].torn /\ Disk(file, offsets, tail)
    <3>1. file[tail].magic /\ ~file[tail].torn /\ Disk(file, offsets, tail)
      BY <1>1 DEF Shape
    <3>2. tail < End(file, tail)
      BY <1>1, <2>2, <2>3, SMTT(20)
    <3> QED BY <3>1, <3>2
  <2> DEFINE f == [g EXCEPT ![t] = NewFile(whole)]
  <2>5. DOMAIN g = DOMAIN file \cup {t} /\ \A b \in DOMAIN file : g[b] = file[b]
    BY DEF Files
  <2>6. \A b \in DOMAIN file : b <= tail /\ b \in Nat
    BY <1>1, SMTT(20) DEF Shape, Disk
  <2>7. t \notin DOMAIN file
    <3>1. tail < next
      BY <1>1, <2>4
    <3>2. next \notin DOMAIN file
      BY <2>3, <2>6, <3>1, SMTT(20)
    <3> QED BY <2>2, <3>2
  <2>8. DOMAIN f = DOMAIN file \cup {t} /\ f[t] = NewFile(whole) /\ \A b \in DOMAIN file : f[b] = file[b]
    BY <2>5, <2>7
  <2> HIDE DEF f, g, t
  <2>9. t = End(file, tail)
    BY <1>1, <2>2
  <2>10. Disk(f, offsets, End(file, tail)) /\ End(f, End(file, tail)) = End(file, tail)
    BY <1>1, <2>4, <2>8, <2>9, DiskGrow, SMTT(20)
  <2>11. Down(f)
    BY <2>1 DEF f
  <2> QED BY <1>1, <2>10, <2>11, DownInv
<1> HIDE DEF t, g, sg, l, gone
<1>6. CASE \E f \in Unlinked(g, gone, Live({}, held)) : Down(f)
  <2>1. PICK f \in Unlinked(g, gone, Live({}, held)) : Down(f)
    BY <1>6
  <2>2. Disk(f, offsets, t) /\ End(f, t) = End(g, t)
    BY <1>1, <1>2, <1>3, <2>1, UnlinkedDisk, SMTT(20)
  <2> QED BY <1>1, <1>2, <2>1, <2>2, DownInv
<1>7. /\ Shape(left, l \ gone, t, Restrict(sg, S), offsets, held) /\ End(left, t) = next
  <2>1. S = Live(l \ gone, held)
    OBVIOUS
  <2> HIDE DEF S
  <2>2. Shape(left, l \ gone, t, Restrict(sg, S), offsets, held)
    BY <1>1, <1>2, <1>3, <2>1, CutShape, Zenon
  <2>3. t \in S
    BY <2>1, <2>2, Zenon DEF Shape, Live
  <2> QED BY <1>2, <2>2, <2>3 DEF Restrict, End
<1> HIDE DEF left
<1>8. CASE Down([left EXCEPT ![t].torn = TRUE])
  <2>1. Disk(left, offsets, t)
    BY <1>7, Zenon DEF Shape
  <2>2. /\ Disk([left EXCEPT ![t].torn = TRUE], offsets, t)
        /\ End([left EXCEPT ![t].torn = TRUE], t) = End(left, t)
    BY <2>1, DiskMark, Zenon
  <2> QED BY <1>1, <1>7, <1>8, <2>2, DownInv
<1>9. CASE Down([left EXCEPT ![t] = WriteRecord(@, s)])
  <2> DEFINE f == [left EXCEPT ![t] = WriteRecord(@, s)]
  <2>1. Disk(left, offsets, t) /\ ~left[t].torn /\ t \in DOMAIN left
    BY <1>7, Zenon DEF Shape, Disk
  <2>2. DOMAIN f = DOMAIN left /\ f[t] = WriteRecord(left[t], s) /\ \A b \in DOMAIN left \ {t} : f[b] = left[b]
    BY <2>1
  <2>3. Down(f)
    BY <1>9
  <2> HIDE DEF f
  <2>4. Disk(f, offsets, t) /\ End(f, t) = End(left, t) + 1
    BY <1>1, <1>7, <2>1, <2>2, DiskWrite, SMTT(20), ZenonT(20)
  <2>5. acked <= End(f, t)
    <3>1. acked \in Int /\ next \in Int
      BY <1>1, TailFacts, SMTT(20)
    <3> QED BY <1>1, <1>7, <2>4, <3>1, SMTT(20)
  <2> QED BY <2>3, <2>4, <2>5, DownInv
<1> QED BY <1>4, <1>5, <1>6, <1>8, <1>9

(* What open computes from the file names is what the files hold. *)
LEMMA NamesFacts ==
  ASSUME NEW t, Disk(file, offsets, t)
  PROVE  LastBase = t /\ \A b \in DOMAIN file \ {t} : SealedEnd(b) = End(file, b)
<1>1. t \in DOMAIN file /\ \A b \in DOMAIN file : b \in Int /\ b <= t
  BY SMTT(20) DEF Disk
<1>2. LastBase = t
  BY <1>1, SMTT(20) DEF LastBase, Max
<1>3. ASSUME NEW b \in DOMAIN file \ {t} PROVE SealedEnd(b) = End(file, b)
  <2> DEFINE e == End(file, b)
             later == {c \in DOMAIN file : c > b}
  <2>1. e \in DOMAIN file /\ b < e /\ \A c \in DOMAIN file : b < c => e <= c
    BY <1>3 DEF Disk
  <2>2. e \in Int /\ b \in Int
    BY <1>1, <1>3, <2>1
  <2> HIDE DEF e
  <2>3. e \in later /\ \A c \in later : c \in Int /\ e <= c
    BY <1>1, <2>1, <2>2
  <2> HIDE DEF later
  <2>4. Min(later) = e
    <3>1. \E x \in later : \A y \in later : x <= y
      BY <2>3
    <3>2. Min(later) \in later /\ \A y \in later : Min(later) <= y
      BY <3>1, Zenon DEF Min
    <3> DEFINE m == Min(later)
    <3>3. m \in later /\ m <= e
      BY <2>3, <3>2
    <3> HIDE DEF m
    <3>4. m = e
      BY <2>2, <2>3, <3>3, SMTT(20)
    <3> QED BY <3>4 DEF m
  <2> QED BY <2>4 DEF SealedEnd, later, e
<1> QED BY <1>2, <1>3

LEMMA OpenInv ==
  ASSUME Inv, Open
  PROVE  Inv'
<1>1. ~up /\ Readable /\ Closed /\ Cursors(offsets)
  BY DEF Inv, Open
<1>2. PICK t \in DOMAIN file : Disk(file, offsets, t) /\ acked <= End(file, t)
  BY <1>1 DEF Closed
<1>3. LastBase = t /\ \A b \in DOMAIN file \ {t} : SealedEnd(b) = End(file, b)
  BY <1>2, NamesFacts
<1>4. /\ file' = [file EXCEPT ![t].torn = FALSE]
      /\ seg' = [b \in DOMAIN file |-> [end |-> IF b = t THEN b + file[b].n ELSE SealedEnd(b),
                                        bytes |-> file[b].len]]
      /\ list' = DOMAIN file /\ tail' = t /\ next' = t + file[t].n /\ up' = TRUE
      /\ cons' = [n \in DOMAIN offsets |-> [committed |-> offsets[n], volatile |-> offsets[n]]]
      /\ UNCHANGED <<offsets, active, held, acked, seen>>
  BY <1>3 DEF Open, Scanned
<1>5. active = {} /\ held = [n \in Name |-> {}]
  BY <1>1 DEF Closed, NoHandles
<1>6. Disk(file', offsets, t) /\ End(file', t) = End(file, t)
  BY <1>2, <1>4, DiskMark, ZenonT(60)
<1>7. /\ DOMAIN file' = DOMAIN file /\ \A b \in DOMAIN file \ {t} : file'[b] = file[b]
      /\ file'[t] = [file[t] EXCEPT !.torn = FALSE]
  BY <1>4
<1>8. file[t] \in File /\ file[t].magic
  BY <1>1, <1>2 DEF Disk, Readable
<1>9. file'[t].magic /\ ~file'[t].torn
  BY <1>7, <1>8 DEF File
<1>10. \A b \in DOMAIN file : End(file', b) = End(file, b)
  BY <1>6, <1>7, Zenon DEF End
<1>11. \A b \in DOMAIN file : b \in Nat /\ End(file, b) \in Nat /\ End(file, b) <= MaxOffset /\ file[b].len \in Nat
  <2>1. \A b \in DOMAIN file : b \in Nat /\ file[b].n \in Nat /\ file[b].len \in Nat /\ b <= MaxOffset
    BY <1>2, SMTT(20) DEF Disk, File
  <2>2. \A b \in DOMAIN file : End(file, b) \in Nat
    BY <2>1, SMTT(20) DEF End
  <2>3. \A b \in DOMAIN file : End(file, b) <= MaxOffset
    <3>1. End(file, t) <= MaxOffset /\ \A b \in DOMAIN file \ {t} : End(file, b) \in DOMAIN file
      BY <1>2 DEF Disk
    <3> QED BY <2>1, <3>1
  <2> QED BY <2>1, <2>2, <2>3
<1>12. \A b \in DOMAIN file : seg'[b] = [end |-> End(file, b), bytes |-> file[b].len]
  BY <1>3, <1>4 DEF End
<1>13. Live(list', held') = DOMAIN file
  BY <1>4, <1>5, Zenon DEF Live
<1>14. Shape(file', list', t, seg', offsets, held')
  <2>1. \A b \in DOMAIN file' : seg'[b] \in [end : Offset, bytes : Nat] /\ seg'[b].end = End(file', b)
    <3>1. \A b \in DOMAIN file : End(file, b) \in Offset
      BY <1>11, TopicConstants, SMTT(20) DEF Offset
    <3>2. ASSUME NEW b \in DOMAIN file
          PROVE  seg'[b] \in [end : Offset, bytes : Nat] /\ seg'[b].end = End(file', b)
      <4> DEFINE i == End(file, b)
                 j == file[b].len
      <4>1. seg'[b] = [end |-> i, bytes |-> j] /\ i \in Offset /\ j \in Nat /\ i = End(file', b)
        BY <1>10, <1>11, <1>12, <3>1, <3>2
      <4> HIDE DEF i, j
      <4> QED BY <4>1, SMTT(20)
    <3> QED BY <1>7, <3>2
  <2>2. \A b \in DOMAIN file' \ {t} : End(file', b) \in list'
    BY <1>4, <1>6, <1>7, Zenon DEF Disk
  <2>3. DOMAIN file' = Live(list', held') /\ DOMAIN seg' = Live(list', held') /\ t \in list'
        /\ DOMAIN file' \ list' = {}
    BY <1>2, <1>4, <1>7, <1>13
  <2> QED BY <1>6, <1>9, <2>1, <2>2, <2>3 DEF Shape
<1>15. Readers(file', offsets, held', active', cons')
  <2>1. \A n \in DOMAIN offsets : offsets[n] \in Offset /\ offsets[n] <= offsets[n]
    BY <1>1, SMTT(20) DEF Cursors, Offset
  <2>2. held' \in [Name -> SUBSET DOMAIN file'] /\ \A n \in Name : held'[n] = {}
    BY <1>4, <1>5
  <2>3. active' = {} /\ DOMAIN cons' = DOMAIN offsets
        /\ \A n \in DOMAIN offsets : cons'[n] = [committed |-> offsets[n], volatile |-> offsets[n]]
    BY <1>4, <1>5
  <2> QED BY <2>1, <2>2, <2>3, SMTT(20) DEF Readers
<1>16. Opened'
  <2>1. Shape(file, list, tail, seg, offsets, held)' /\ Readers(file, offsets, held, active, cons)'
    BY <1>4, <1>14, <1>15
  <2>2. next' = End(file, t) /\ acked' <= next'
    BY <1>2, <1>4 DEF End
  <2>3. End(file', tail') = End(file, t)
    BY <1>4, <1>6
  <2>4. (next = End(file, tail))'
    BY <2>2, <2>3 DEF End
  <2> QED BY <2>1, <2>2, <2>4 DEF Opened
<1>17. up' = TRUE /\ UNCHANGED <<offsets, acked, seen>>
  BY <1>4
<1> QED BY <1>16, <1>17 DEF Inv, Cursors

---------------------------------------------------------------------------
LEMMA StepInv ==
  ASSUME Seeks # "any", Inv, [Next]_vars
  PROVE  Inv'
<1>1. ASSUME NEW s \in RecordSize, AppendRecord(s) \/ CrashInAppend(s) PROVE Inv'
  BY <1>1, AppendInv, CrashInAppendInv
<1>2. ASSUME NEW n \in Name, Consumer(n) \/ Commit(n) \/ DeleteConsumer(n) PROVE Inv'
  BY <1>2, ConsumerInv, CommitInv, DeleteInv
<1>3. ASSUME NEW n \in Name, ReadNext(n) \/ ReadFails(n) \/ ReadPanics(n) PROVE Inv'
  BY <1>3, ReadNextInv, NoBadRead
<1>4. ASSUME NEW n \in Name, Reset(n) \/ DropConsumer(n) \/ \E o \in Offset : Seek(n, o) PROVE Inv'
  BY <1>4, RewindInv
<1>5. CASE Compact \/ Close \/ Crash \/ CrashInCompact \/ Open
  BY <1>5, CompactInv, CrashInv, OpenInv
<1>6. CASE UNCHANGED vars
  <2>1. UNCHANGED <<up, file, offsets, seg, list, tail, next, cons, active, held, acked, seen>>
    BY <1>6 DEF vars
  <2>2. Opened => Opened'
    BY <2>1 DEF Opened
  <2>3. Closed => Closed'
    BY <2>1 DEF Closed
  <2> QED BY <2>1, <2>2, <2>3 DEF Inv
<1>7. CASE OpenFails
  BY <1>6, <1>7 DEF OpenFails
<1> QED BY <1>1, <1>2, <1>3, <1>4, <1>5, <1>6, <1>7 DEF Next

(* Disk, Shape and Readers hold in every reachable state: every handler,     *)
(* every crash inside append and compact and every open keeps them.          *)
THEOREM TopicInvariant ==
  ASSUME Seeks # "any"
  PROVE  Spec => []Inv
<1>1. Inv /\ [Next]_vars => Inv'
  BY StepInv
<1> QED BY <1>1, InitInv, PTL DEF Spec

(* Type correctness of the segment list, the files, the offsets KeyDir and   *)
(* the cursors through every handler of topic.rs.                            *)
THEOREM TopicTypeOK ==
  ASSUME Seeks # "any"
  PROVE  Spec => []TypeOK
<1>1. Inv => TypeOK
  <2> SUFFICES ASSUME Inv PROVE TypeOK
    OBVIOUS
  <2>0. MaxOffset \in Nat /\ 0 \in Offset
    BY TopicConstants, SMTT(20) DEF Offset
  <2>1. /\ up \in BOOLEAN /\ DOMAIN offsets \subseteq Name /\ \A n \in DOMAIN offsets : offsets[n] \in Offset
        /\ acked \in Offset /\ seen \in [Name -> Offset]
    BY DEF Inv, Cursors
  <2>2. \E t \in DOMAIN file : Disk(file, offsets, t)
    BY Zenon DEF Inv, Opened, Closed, Shape, Disk
  <2>3. DOMAIN file \subseteq Offset /\ \A b \in DOMAIN file : file[b] \in File
    <3>1. DOMAIN file \in SUBSET (0 .. MaxOffset) /\ \A b \in DOMAIN file : file[b] \in File
      BY <2>2 DEF Disk
    <3> QED BY <2>0, <3>1, SMTT(20) DEF Offset
  <2>4. CASE ~up
    <3>1. DOMAIN seg = {} /\ list = {} /\ tail = 0 /\ next = 0 /\ DOMAIN cons = {} /\ active = {}
          /\ \A n \in Name : held[n] = {}
      BY <2>4 DEF Inv, Closed, NoHandles
    <3> QED BY <2>0, <2>1, <2>3, <3>1 DEF TypeOK
  <2>5. CASE up
    <3>1. /\ Shape(file, list, tail, seg, offsets, held) /\ Readers(file, offsets, held, active, cons)
          /\ next = End(file, tail)
      BY <2>5 DEF Inv, Opened
    <3>2. /\ DOMAIN seg = DOMAIN file /\ list \subseteq DOMAIN seg /\ tail \in DOMAIN file
          /\ \A b \in DOMAIN seg : seg[b] \in [end : Offset, bytes : Nat]
      BY <3>1 DEF Shape, Live
    <3>3. next \in Offset
      <4>1. End(file, tail) \in Nat /\ End(file, tail) <= MaxOffset
        BY <3>1, <3>2, ShapeNat
      <4> QED BY <2>0, <3>1, <4>1, SMTT(20) DEF Offset
    <3>4. /\ DOMAIN cons \subseteq Name /\ active \subseteq DOMAIN cons
          /\ \A n \in DOMAIN cons : cons[n] \in [committed : Offset, volatile : Offset]
          /\ \A n \in Name : held[n] \subseteq DOMAIN seg
      BY <2>1, <3>1, <3>2 DEF Readers
    <3> QED BY <2>1, <2>3, <3>2, <3>3, <3>4 DEF TypeOK
  <2> QED BY <2>4, <2>5
<1> QED BY <1>1, TopicInvariant, PTL

(* Compaction never reclaims a record a registered consumer has not          *)
(* committed (compact's minimum over the committed offsets).                 *)
THEOREM TopicRetainsUncommitted ==
  ASSUME Seeks # "any"
  PROVE  Spec => []RetainsUncommitted
<1>1. Inv => RetainsUncommitted
  <2> SUFFICES ASSUME Inv, up, NEW n \in DOMAIN cons, NEW o \in cons[n].committed .. next - 1
               PROVE  \E b \in list : b <= o /\ o < seg[b].end /\ o - b < file[b].n
    BY DEF RetainsUncommitted
  <2>1. /\ Shape(file, list, tail, seg, offsets, held) /\ Readers(file, offsets, held, active, cons)
        /\ next = End(file, tail) /\ Cursors(offsets)
    BY DEF Inv, Opened
  <2>2. n \in DOMAIN offsets /\ cons[n].committed = offsets[n] /\ offsets[n] \in Nat
    <3>1. n \in DOMAIN offsets /\ cons[n].committed = offsets[n]
      BY <2>1 DEF Readers
    <3>2. offsets[n] \in Offset
      BY <2>1, <3>1 DEF Cursors
    <3> QED BY <3>1, <3>2, TopicConstants, SMTT(20) DEF Offset
  <2>3. \A b \in DOMAIN file : b \in Nat /\ End(file, b) \in Nat /\ End(file, b) <= MaxOffset
    BY <2>1, ShapeNat, Zenon
  <2>4. tail \in DOMAIN file /\ \A b \in DOMAIN file : seg[b].end = End(file, b) /\ file[b].n \in Nat
    BY <2>1, Zenon DEF Shape, Disk, File
  <2>5. o \in 0 .. MaxOffset /\ offsets[n] <= o /\ o < End(file, tail)
    <3> DEFINE e == End(file, tail)
    <3>1. e \in Nat /\ e <= MaxOffset /\ o \in offsets[n] .. e - 1
      BY <2>1, <2>2, <2>3, <2>4, ZenonT(60)
    <3>2. MaxOffset \in Nat
      BY TopicConstants
    <3> HIDE DEF e
    <3>3. o \in 0 .. MaxOffset /\ offsets[n] <= o /\ o < e
      BY <2>2, <3>1, <3>2, SMTT(20)
    <3> QED BY <3>3 DEF e
  <2>6. PICK b \in DOMAIN file : b <= o /\ o < End(file, b)
    BY <2>1, <2>2, <2>5, Zenon DEF Shape, Disk
  <2>7. b \in list
    <3>1. b \notin list => End(file, b) <= offsets[n]
      BY <2>1, <2>2, Zenon DEF Shape
    <3> QED BY <2>2, <2>3, <2>5, <2>6, <3>1, SMTT(20)
  <2>8. o - b < file[b].n
    <3> DEFINE k == file[b].n
    <3>1. b \in Nat /\ k \in Nat /\ o \in Int /\ o < b + k
      BY <2>3, <2>4, <2>5, <2>6, SMTT(20) DEF End
    <3> HIDE DEF k
    <3>2. o - b < k
      BY <3>1, SMTT(20)
    <3> QED BY <3>2 DEF k
  <2> QED BY <2>4, <2>6, <2>7, <2>8
<1> QED BY <1>1, TopicInvariant, PTL

(* position() never unwraps None and read_exact never meets the end of the   *)
(* file, whatever has been rotated and compacted under the reader.           *)
THEOREM TopicReadsSucceed ==
  ASSUME Seeks # "any"
  PROVE  Spec => []ReadsSucceed
<1>1. ASSUME Inv, NEW n \in Name, Pending(n)
      PROVE  \E b \in Source(n) : cons[n].volatile - b < file[b].n
  <2>1. n \in active /\ up
    BY <1>1, ActiveUp DEF Pending
  <2> QED BY <1>1, <2>1, SourceFacts, Zenon
<1>2. Inv => ReadsSucceed
  BY <1>1, Zenon DEF ReadsSucceed
<1> QED BY <1>2, TopicInvariant, PTL

(* The name of the next file is the end of a sealed segment, at every        *)
(* instant: open may take it without a scan.                                 *)
THEOREM TopicSealedSegmentsComplete ==
  ASSUME Seeks # "any"
  PROVE  Spec => []SealedSegmentsComplete
<1>1. ASSUME Inv PROVE SealedSegmentsComplete
  <2>1. PICK t : Disk(file, offsets, t)
    BY <1>1, Zenon DEF Inv, Opened, Closed, Shape
  <2>2. LastBase = t /\ \A b \in DOMAIN file \ {t} : SealedEnd(b) = End(file, b)
    BY <2>1, NamesFacts
  <2> QED BY <2>2 DEF SealedSegmentsComplete, End
<1> QED BY <1>1, TopicInvariant, PTL

---------------------------------------------------------------------------
LEMMA DeliveredStep ==
  ASSUME Seeks = "none", Inv, AtLeastOnce, [Next]_vars
  PROVE  AtLeastOnce'
<1>1. /\ \A n \in DOMAIN cons : cons[n].volatile <= seen[n]
      /\ \A n \in DOMAIN offsets : offsets[n] <= seen[n]
  BY DEF AtLeastOnce
<1> SUFFICES /\ \A n \in DOMAIN cons' : cons'[n].volatile <= seen'[n]
             /\ \A n \in DOMAIN offsets' : offsets'[n] <= seen'[n]
  BY ZenonT(60) DEF AtLeastOnce
<1>2. CASE UNCHANGED <<cons, offsets, seen>>
  BY <1>1, <1>2
<1>3. CASE cons' = [n \in {} |-> 0] /\ UNCHANGED <<offsets, seen>>
  BY <1>1, <1>3
<1>4. CASE Open
  <2>1. /\ cons' = [n \in DOMAIN offsets |-> [committed |-> offsets[n], volatile |-> offsets[n]]]
        /\ UNCHANGED <<offsets, seen>>
    BY <1>4 DEF Open
  <2> QED BY <1>1, <2>1
<1>5. ASSUME NEW n \in Name, Consumer(n), ~UNCHANGED <<cons, offsets, seen>>
      PROVE  /\ \A m \in DOMAIN cons' : cons'[m].volatile <= seen'[m]
             /\ \A m \in DOMAIN offsets' : offsets'[m] <= seen'[m]
  <2>1. /\ offsets' = [m \in DOMAIN offsets \cup {n} |-> IF m = n THEN next ELSE offsets[m]]
        /\ cons' = [m \in DOMAIN cons \cup {n} |->
                      IF m = n THEN [committed |-> next, volatile |-> next] ELSE cons[m]]
        /\ seen' = [seen EXCEPT ![n] = next] /\ up
    BY <1>5 DEF Consumer
  <2>2. seen \in [Name -> Offset] /\ next \in Nat
    BY <2>1, TailFacts DEF Inv
  <2>3. seen'[n] = next /\ \A m \in Name \ {n} : seen'[m] = seen[m]
    BY <2>1, <2>2
  <2>4. DOMAIN offsets \in SUBSET Name /\ DOMAIN cons \in SUBSET Name
    BY <2>1 DEF Inv, Opened, Readers, Cursors
  <2>5. next <= next
    BY <2>2, SMTT(20)
  <2> QED BY <1>1, <2>1, <2>3, <2>4, <2>5
<1>6. ASSUME NEW n \in active, NEW w, cons' = [cons EXCEPT ![n].volatile = w], UNCHANGED offsets,
             w <= seen'[n], seen' = seen \/ \A m \in Name \ {n} : seen'[m] = seen[m], offsets[n] <= seen'[n]
      PROVE  /\ \A m \in DOMAIN cons' : cons'[m].volatile <= seen'[m]
             /\ \A m \in DOMAIN offsets' : offsets'[m] <= seen'[m]
  <2>1. up /\ n \in DOMAIN cons /\ cons[n] \in [committed : Offset, volatile : Offset]
    BY ActiveUp, SourceFacts
  <2>2. DOMAIN cons \in SUBSET Name /\ DOMAIN offsets \in SUBSET Name
    BY <2>1 DEF Inv, Opened, Readers, Cursors
  <2>3. DOMAIN cons' = DOMAIN cons /\ cons'[n].volatile = w /\ \A m \in DOMAIN cons \ {n} : cons'[m] = cons[m]
    BY <1>6, <2>1
  <2> QED BY <1>1, <1>6, <2>2, <2>3
<1>7. ASSUME NEW n \in Name, ReadNext(n)
      PROVE  /\ \A m \in DOMAIN cons' : cons'[m].volatile <= seen'[m]
             /\ \A m \in DOMAIN offsets' : offsets'[m] <= seen'[m]
  <2> DEFINE v == cons[n].volatile
  <2>1. /\ n \in active /\ cons' = [cons EXCEPT ![n].volatile = v + 1] /\ UNCHANGED offsets
        /\ seen' = IF v = seen[n] THEN [seen EXCEPT ![n] = @ + 1] ELSE seen
    BY <1>7 DEF ReadNext, Pending
  <2>2. up
    BY <2>1, ActiveUp
  <2>3. n \in DOMAIN cons /\ n \in DOMAIN offsets /\ v \in Nat /\ offsets[n] <= v /\ offsets[n] \in Nat
    BY <2>1, <2>2, SourceFacts
  <2>4. seen \in [Name -> Offset] /\ seen[n] \in Nat /\ v <= seen[n]
    BY <1>1, <2>3, SMTT(20) DEF Inv, Offset
  <2> HIDE DEF v
  <2>5. v + 1 <= seen'[n] /\ offsets[n] <= seen'[n]
    <3>1. CASE v = seen[n]
      <4>1. seen'[n] = seen[n] + 1
        BY <2>1, <2>4, <3>1
      <4> QED BY <2>3, <2>4, <3>1, <4>1, SMTT(20)
    <3>2. CASE v # seen[n]
      BY <2>1, <2>3, <2>4, <3>2, SMTT(20)
    <3> QED BY <3>1, <3>2
  <2>6. seen' = seen \/ \A m \in Name \ {n} : seen'[m] = seen[m]
    BY <2>1, <2>4
  <2> QED BY <1>6, <2>1, <2>5, <2>6, Zenon
<1>8. ASSUME NEW n \in Name, Reset(n) \/ DropConsumer(n)
      PROVE  /\ \A m \in DOMAIN cons' : cons'[m].volatile <= seen'[m]
             /\ \A m \in DOMAIN offsets' : offsets'[m] <= seen'[m]
  <2>1. n \in active /\ cons' = [cons EXCEPT ![n].volatile = cons[n].committed] /\ UNCHANGED <<offsets, seen>>
    BY <1>8 DEF Reset, DropConsumer, Move, Release
  <2>2. n \in DOMAIN offsets /\ cons[n].committed = offsets[n]
    BY <2>1, ActiveUp, SourceFacts
  <2>3. cons[n].committed <= seen'[n] /\ offsets[n] <= seen'[n]
    BY <1>1, <2>1, <2>2
  <2> QED BY <1>6, <2>1, <2>3, ZenonT(60)
<1>9. ASSUME NEW n \in Name, Commit(n)
      PROVE  /\ \A m \in DOMAIN cons' : cons'[m].volatile <= seen'[m]
             /\ \A m \in DOMAIN offsets' : offsets'[m] <= seen'[m]
  <2>1. /\ n \in active /\ cons' = [cons EXCEPT ![n].committed = cons[n].volatile]
        /\ offsets' = [offsets EXCEPT ![n] = cons[n].volatile] /\ seen' = seen
    BY <1>9 DEF Commit
  <2>2. n \in DOMAIN cons /\ n \in DOMAIN offsets /\ cons[n] \in [committed : Offset, volatile : Offset]
    BY <2>1, ActiveUp, SourceFacts
  <2>3. DOMAIN cons' = DOMAIN cons /\ \A m \in DOMAIN cons : cons'[m].volatile = cons[m].volatile
    BY <2>1, <2>2
  <2>4. DOMAIN offsets' = DOMAIN offsets /\ offsets'[n] = cons[n].volatile
        /\ \A m \in DOMAIN offsets \ {n} : offsets'[m] = offsets[m]
    BY <2>1, <2>2
  <2> QED BY <1>1, <2>1, <2>2, <2>3, <2>4
<1>10. ASSUME NEW n \in Name, DeleteConsumer(n)
       PROVE  /\ \A m \in DOMAIN cons' : cons'[m].volatile <= seen'[m]
              /\ \A m \in DOMAIN offsets' : offsets'[m] <= seen'[m]
  BY <1>1, <1>10 DEF DeleteConsumer, Without, Restrict
<1>11. ASSUME NEW n \in Name, NEW o \in Offset PROVE ~Seek(n, o)
  BY DEF Seek
<1>12. ASSUME Compact \/ OpenFails \/ UNCHANGED vars \/ \E s \in RecordSize : AppendRecord(s)
       PROVE  UNCHANGED <<cons, offsets, seen>>
  BY <1>12, Zenon DEF Compact, OpenFails, vars, AppendRecord
<1>13. ASSUME Close \/ Crash \/ CrashInCompact \/ \E s \in RecordSize : CrashInAppend(s)
       PROVE  cons' = [n \in {} |-> 0] /\ UNCHANGED <<offsets, seen>>
  BY <1>13, Zenon DEF Close, Crash, CrashInCompact, CrashInAppend, Down
<1>14. \A n \in Name : ~ReadFails(n) /\ ~ReadPanics(n)
  BY NoBadRead
<1> QED BY <1>2, <1>3, <1>4, <1>5, <1>7, <1>8, <1>9, <1>10, <1>11, <1>12, <1>13, <1>14, ZenonT(60) DEF Next

(* At least once: no cursor of a consumer that does not seek, in memory or   *)
(* in the offsets KeyDir, gets past a record that was not delivered to it.   *)
THEOREM TopicAtLeastOnce == Spec => []AtLeastOnce
<1>1. CASE Seeks = "none"
  <2>1. Init => AtLeastOnce
    BY DEF Init, AtLeastOnce
  <2>2. Inv /\ AtLeastOnce /\ [Next]_vars => AtLeastOnce'
    BY <1>1, DeliveredStep
  <2>3. Spec => []Inv
    BY <1>1, TopicInvariant
  <2> QED BY <2>1, <2>2, <2>3, PTL DEF Spec
<1>2. CASE Seeks # "none"
  <2>1. AtLeastOnce
    BY <1>2 DEF AtLeastOnce
  <2> QED BY <2>1, PTL
<1> QED BY <1>1, <1>2
---------------------------------------------------------------------------
(* The low end of the log when files are removed: the first file that stays  *)
(* begins where the last one before it ended.                                *)
LEMMA LowEnd ==
  ASSUME NEW f, NEW off, NEW t, Disk(f, off, t), Cursors(off),
         NEW S \in SUBSET DOMAIN f, t \in S,
         \A b \in DOMAIN f \ S : DOMAIN off # {} /\ \A n \in DOMAIN off : End(f, b) <= off[n]
  PROVE  /\ Min(S) \in Nat /\ Min(DOMAIN f) \in Nat /\ Min(S) >= Min(DOMAIN f)
         /\ Min(S) > Min(DOMAIN f) => /\ DOMAIN off # {} /\ \A n \in DOMAIN off : Min(S) <= off[n]
                                      /\ Min(S) <= End(f, t)
<1>1. /\ DOMAIN f \in SUBSET Nat /\ DOMAIN f \in SUBSET (0 .. MaxOffset) /\ MaxOffset \in Nat
      /\ t \in DOMAIN f /\ \A b \in DOMAIN f : b <= t
  BY TopicConstants, SMTT(20) DEF Disk
<1>2. \A b \in DOMAIN f : End(f, b) \in Nat /\ b <= End(f, b)
  BY <1>1, SMTT(20) DEF Disk, File, End
<1>3. PICK m : m = Min(S)
  OBVIOUS
<1>4. PICK z : z = Min(DOMAIN f)
  OBVIOUS
<1>5. m \in S /\ \A c \in S : m <= c
  <2>1. S \in SUBSET Nat /\ S # {}
    BY <1>1
  <2> QED BY <1>3, <2>1, MinLeast
<1>6. z \in DOMAIN f /\ \A c \in DOMAIN f : z <= c
  BY <1>1, <1>4, MinLeast
<1>7. m \in Nat /\ z \in Nat /\ m >= z /\ m <= t /\ m \in DOMAIN f
  BY <1>1, <1>5, <1>6
<1>8. m <= End(f, t)
  BY <1>1, <1>2, <1>7, SMTT(20)
<1>9. ASSUME m > z PROVE DOMAIN off # {} /\ \A n \in DOMAIN off : m <= off[n]
  <2> DEFINE P == {b \in DOMAIN f : b < m}
  <2>1. P \in SUBSET (0 .. MaxOffset) /\ P # {}
    BY <1>1, <1>6, <1>7, <1>9
  <2>2. PICK p \in P : \A c \in P : c <= p
    <3> HIDE DEF P
    <3> QED BY <1>1, <2>1, GreatestExists, ZenonT(60)
  <2>3. p \in DOMAIN f /\ p < m /\ p \notin S /\ p # t /\ p \in Nat
    BY <1>1, <1>5, <1>7, <2>2, SMTT(20)
  <2>4. p < End(f, p) /\ End(f, p) \in DOMAIN f /\ End(f, p) <= m
    BY <1>7, <2>3, Zenon DEF Disk
  <2>5. End(f, p) \notin P
    BY <1>1, <2>2, <2>3, <2>4, SMTT(20)
  <2>6. End(f, p) = m
    BY <1>1, <1>2, <1>7, <2>3, <2>4, <2>5, SMTT(20)
  <2> QED BY <2>3, <2>6
<1> QED BY <1>3, <1>4, <1>7, <1>8, <1>9

(* The last file is the one with the largest base. *)
LEMMA LastIs ==
  ASSUME NEW S \in SUBSET Nat, NEW t \in S, \A b \in S : b <= t
  PROVE  Max(S) = t
<1>1. \E x \in S : \A y \in S : x >= y
  OBVIOUS
<1>2. Max(S) \in S /\ \A y \in S : Max(S) >= y
  BY <1>1, Zenon DEF Max
<1>3. PICK k : k = Max(S)
  OBVIOUS
<1>4. k \in S /\ k >= t /\ k <= t /\ t \in Nat
  BY <1>2, <1>3, ZenonT(60)
<1>5. k = t
  BY <1>4, SMTT(20)
<1> QED BY <1>3, <1>5

(* One step of the log: it starts from the files f, with the same low end as *)
(* the files on disk and the same records, and keeps those in S.             *)
LEMMA ReclaimStep ==
  ASSUME NEW f, NEW t, Disk(f, offsets, t), Cursors(offsets),
         Min(DOMAIN f) = Min(DOMAIN file), End(f, t) = LastBase + file[LastBase].n,
         DOMAIN file' \in SUBSET DOMAIN f, t \in DOMAIN file',
         \A b \in DOMAIN f \ DOMAIN file' : /\ DOMAIN offsets # {}
                                            /\ \A n \in DOMAIN offsets : End(f, b) <= offsets[n]
  PROVE  Log!Reclaim /\ LastBase' = t
<1>1. PICK S : S = DOMAIN file'
  OBVIOUS
<1>2. S \in SUBSET DOMAIN f /\ t \in S /\ \A b \in DOMAIN f \ S :
        DOMAIN offsets # {} /\ \A n \in DOMAIN offsets : End(f, b) <= offsets[n]
  BY <1>1
<1>3. /\ Min(S) \in Nat /\ Min(DOMAIN f) \in Nat /\ Min(S) >= Min(DOMAIN f)
      /\ Min(S) > Min(DOMAIN f) => /\ DOMAIN offsets # {} /\ \A n \in DOMAIN offsets : Min(S) <= offsets[n]
                                   /\ Min(S) <= End(f, t)
  BY <1>2, LowEnd, Zenon
<1>4. Max(S) = t
  <2>1. S \in SUBSET Nat /\ \A b \in S : b <= t
    BY <1>2, SMTT(20) DEF Disk
  <2> QED BY <1>2, <2>1, LastIs
<1>5. Min(DOMAIN file)' = Min(S) /\ LastBase' = Max(S)
  BY <1>1 DEF LastBase, Min, Max
<1> QED BY <1>3, <1>4, <1>5 DEF Log!Reclaim

(* high is the next offset of an open topic. *)
LEMMA HighIs ==
  ASSUME NEW t, Disk(file, offsets, t)
  PROVE  LastBase = t /\ End(file, t) = LastBase + file[LastBase].n /\ End(file, t) \in Nat
<1>1. LastBase = t
  BY NamesFacts
<1>2. t \in DOMAIN file /\ t \in Nat /\ file[t].n \in Nat
  BY SMTT(20) DEF Disk, File
<1> QED BY <1>1, <1>2, SMTT(20) DEF End

(* A step of a handle or a compaction of an open topic. *)
LEMMA KeepsRecords ==
  ASSUME Inv, up, NEW S, DOMAIN file' = S, S \in SUBSET DOMAIN file, tail \in S,
         \A b \in S : file'[b].n = file[b].n,
         \A b \in DOMAIN file \ S : /\ DOMAIN offsets # {}
                                    /\ \A n \in DOMAIN offsets : End(file, b) <= offsets[n]
  PROVE  Log!Reclaim /\ (LastBase + file[LastBase].n)' = LastBase + file[LastBase].n
<1>1. Disk(file, offsets, tail) /\ Cursors(offsets)
  BY DEF Inv, Opened, Shape
<1>2. LastBase = tail /\ End(file, tail) = LastBase + file[LastBase].n
  BY <1>1, HighIs, ZenonT(60)
<1>3. Log!Reclaim /\ LastBase' = tail
  BY <1>1, <1>2, ReclaimStep
<1>4. (LastBase + file[LastBase].n)' = tail + file'[tail].n
  BY <1>3
<1> QED BY <1>2, <1>3, <1>4

LEMMA HoldLog ==
  ASSUME Inv, NEW n \in active, NEW h \in SUBSET DOMAIN file, Hold(n, h)
  PROVE  Log!Reclaim /\ (LastBase + file[LastBase].n)' = LastBase + file[LastBase].n
<1>1. up /\ n \in Name /\ n \in DOMAIN offsets
  BY ActiveUp, SourceFacts
<1>2. Shape(file, list, tail, seg, offsets, held) /\ Readers(file, offsets, held, active, cons)
  BY <1>1 DEF Inv, Opened
<1>3. PICK S : S = Live(list, held')
  OBVIOUS
<1>4. held' = [held EXCEPT ![n] = h] /\ file' = Restrict(file, S)
  BY <1>3 DEF Hold
<1>5. DOMAIN file' = S /\ \A b \in S : file'[b] = file[b]
  BY <1>4 DEF Restrict
<1>6. held \in [Name -> SUBSET DOMAIN file] /\ tail \in list /\ DOMAIN file = Live(list, held)
  BY <1>2 DEF Shape, Readers
<1>7. S \in SUBSET DOMAIN file /\ tail \in S
  BY <1>3, <1>4, <1>6 DEF Live
<1>8. ASSUME NEW b \in DOMAIN file \ S
      PROVE  DOMAIN offsets # {} /\ \A m \in DOMAIN offsets : End(file, b) <= offsets[m]
  <2>1. b \notin list
    BY <1>3, <1>8 DEF Live
  <2> QED BY <1>1, <1>2, <2>1 DEF Shape
<1> QED BY <1>1, <1>5, <1>7, <1>8, KeepsRecords

LEMMA CompactLog ==
  ASSUME Inv, Compact
  PROVE  Log!Reclaim /\ (LastBase + file[LastBase].n)' = LastBase + file[LastBase].n
<1>1. PICK gone : gone = Removable(seg, list, tail)
  OBVIOUS
<1>2. PICK S : S = Live(list \ gone, held)
  OBVIOUS
<1>3. up /\ file' = Restrict(file, S)
  BY <1>1, <1>2 DEF Compact
<1>4. Shape(file, list, tail, seg, offsets, held) /\ Readers(file, offsets, held, active, cons) /\ Cursors(offsets)
  BY <1>3 DEF Inv, Opened
<1>5. /\ gone \in SUBSET (list \ {tail})
      /\ \A b \in gone : \A n \in DOMAIN offsets : End(file, b) <= offsets[n]
  <2>1. gone = {} \/ gone = Removable(seg, list, tail)
    BY <1>1
  <2> QED BY <1>4, <2>1, RemovableFacts, ZenonT(60)
<1>6. DOMAIN file' = S /\ \A b \in S : file'[b] = file[b]
  BY <1>3 DEF Restrict
<1>7. tail \in list /\ DOMAIN file = Live(list, held) /\ DOMAIN cons = DOMAIN offsets
  BY <1>4, ZenonT(60) DEF Shape, Readers
<1>8. S \in SUBSET DOMAIN file /\ tail \in S /\ \A b \in DOMAIN file \ S : b \in gone
  BY <1>2, <1>5, <1>7 DEF Live
<1>9. gone # {} => DOMAIN offsets # {}
  BY <1>1, <1>7, ZenonT(60) DEF Removable
<1> QED BY <1>3, <1>5, <1>6, <1>8, <1>9, KeepsRecords

(* The files of an append before it compacts: the same first file, the same  *)
(* records, and what the compaction takes all consumers have committed.      *)
LEMMA AppendFiles ==
  ASSUME Inv, up, NEW s \in RecordSize
  PROVE  /\ Disk(Files(s), offsets, TailBase(s)) /\ Cursors(offsets)
         /\ Min(DOMAIN Files(s)) = Min(DOMAIN file)
         /\ End(Files(s), TailBase(s)) = LastBase + file[LastBase].n
         /\ ~Files(s)[TailBase(s)].torn
         /\ \A b \in DOMAIN Files(s) : b \in Dropped(s) =>
              DOMAIN offsets # {} /\ \A n \in DOMAIN offsets : End(Files(s), b) <= offsets[n]
         /\ TailBase(s) \in Listed(s) \ Dropped(s) /\ DOMAIN Files(s) = Live(Listed(s), held)
         /\ End(Files(s), TailBase(s)) = next /\ next \in Nat
<1>0. PICK t, f, sg, l, gone :
        t = TailBase(s) /\ f = Files(s) /\ sg = Segments(s) /\ l = Listed(s) /\ gone = Dropped(s)
  OBVIOUS
<1>1. Shape(f, l, t, sg, offsets, held) /\ Readers(f, offsets, held, active, cons) /\ End(f, t) = next
  BY <1>0, TailShape
<1>2. Disk(file, offsets, tail) /\ Cursors(offsets) /\ next = End(file, tail) /\ DOMAIN cons = DOMAIN offsets
  BY ZenonT(60) DEF Inv, Opened, Shape, Readers
<1>3. LastBase = tail /\ End(file, tail) = LastBase + file[LastBase].n /\ End(file, tail) \in Nat
  BY <1>2, HighIs, ZenonT(60)
<1>4. gone = {} \/ gone = Removable(sg, l, t)
  BY <1>0 DEF Dropped
<1>5. DOMAIN f = DOMAIN file \cup {t} /\ (t = tail \/ t = next)
  BY <1>0 DEF Files, TailBase
<1>6. Min(DOMAIN f) = Min(DOMAIN file)
  <2>1. DOMAIN file \in SUBSET Nat /\ tail \in DOMAIN file /\ file[tail].n \in Nat
    BY <1>2, SMTT(20) DEF Disk, File
  <2>2. PICK m : m = Min(DOMAIN file)
    OBVIOUS
  <2>3. m \in DOMAIN file /\ \A c \in DOMAIN file : m <= c
    BY <2>1, <2>2, MinLeast
  <2>4. tail <= next /\ next \in Nat
    BY <1>2, <2>1, SMTT(20) DEF End
  <2>5. m \in DOMAIN f /\ (\A c \in DOMAIN f : m <= c) /\ DOMAIN f \in SUBSET Int
    BY <1>5, <2>1, <2>3, <2>4, SMTT(20)
  <2>6. PICK D : D = DOMAIN f
    OBVIOUS
  <2>7. Min(D) = m
    BY <2>5, <2>6, MinIs
  <2> QED BY <2>2, <2>6, <2>7
<1>7. gone \in SUBSET (l \ {t}) /\ \A b \in gone : \A n \in DOMAIN offsets : End(f, b) <= offsets[n]
  <2>1. Shape(f, l, t, sg, offsets, held) /\ Readers(f, offsets, held, active, cons) /\ Cursors(offsets)
    BY <1>1, <1>2, Zenon
  <2>2. /\ gone \in SUBSET (l \ {t})
        /\ \A b \in gone : \A n \in DOMAIN offsets : End(f, b) <= offsets[n]
        /\ \A b \in gone : \A c \in l : c <= b => c \in gone
        /\ \A n \in Name : \A b \in held[n] : End(f, b) \notin gone
    BY <1>4, <2>1, RemovableFacts, ZenonT(60)
  <2> QED BY <2>2, Zenon
<1>8. gone # {} => DOMAIN offsets # {}
  BY <1>2, <1>4 DEF Removable
<1>9. Disk(f, offsets, t) /\ ~f[t].torn /\ t \in l /\ DOMAIN f = Live(l, held)
  BY <1>1, ZenonT(60) DEF Shape
<1>10. /\ Disk(f, offsets, t) /\ Cursors(offsets) /\ Min(DOMAIN f) = Min(DOMAIN file)
       /\ End(f, t) = LastBase + file[LastBase].n /\ ~f[t].torn
       /\ \A b \in DOMAIN f : b \in gone =>
            DOMAIN offsets # {} /\ \A n \in DOMAIN offsets : End(f, b) <= offsets[n]
       /\ t \in l \ gone /\ DOMAIN f = Live(l, held) /\ End(f, t) = next /\ next \in Nat
  BY <1>1, <1>2, <1>3, <1>6, <1>7, <1>8, <1>9, ZenonT(60)
<1> QED BY <1>0, <1>10, ZenonT(60)

LEMMA AppendLog ==
  ASSUME Inv, NEW s \in RecordSize, AppendRecord(s)
  PROVE  Log!Reclaim /\ Log!Append
<1>1. up /\ offsets' = offsets /\ s \in Nat
  BY TopicConstants DEF AppendRecord
<1>2. PICK f, t, l, gone : f = Files(s) /\ t = TailBase(s) /\ l = Listed(s) /\ gone = Dropped(s)
  OBVIOUS
<1>3. /\ Disk(f, offsets, t) /\ Cursors(offsets) /\ Min(DOMAIN f) = Min(DOMAIN file)
      /\ End(f, t) = LastBase + file[LastBase].n /\ ~f[t].torn
      /\ \A b \in DOMAIN f : b \in gone =>
           DOMAIN offsets # {} /\ \A n \in DOMAIN offsets : End(f, b) <= offsets[n]
      /\ t \in l \ gone /\ DOMAIN f = Live(l, held) /\ End(f, t) = next /\ next \in Nat
  BY <1>1, <1>2, AppendFiles, Zenon
<1>4. PICK S : S = Live(l \ gone, held)
  OBVIOUS
<1>5. S \in SUBSET DOMAIN f /\ t \in S /\ \A b \in DOMAIN f \ S : b \in gone
  BY <1>3, <1>4, Zenon DEF Live
<1>6. file' = [b \in S |-> IF b = t THEN WriteRecord(f[b], s) ELSE f[b]]
  BY <1>2, <1>4 DEF AppendRecord
<1>7. DOMAIN file' = S /\ file'[t] = WriteRecord(f[t], s)
  BY <1>5, <1>6
<1>8. Log!Reclaim /\ LastBase' = t
  BY <1>3, <1>5, <1>7, ReclaimStep, ZenonT(60)
<1>9. f[t] \in File /\ f[t].n \in Nat /\ t \in Nat
  BY <1>3, SMTT(20) DEF Disk, File
<1>10. file'[t].n = f[t].n + 1
  BY <1>1, <1>3, <1>7, <1>9, WriteType, Zenon
<1>11. (LastBase + file[LastBase].n)' = t + file'[t].n
  BY <1>8
<1>12. t + file'[t].n = (t + f[t].n) + 1
  BY <1>9, <1>10, SMTT(20)
<1>13. (LastBase + file[LastBase].n)' = (LastBase + file[LastBase].n) + 1
  BY <1>3, <1>11, <1>12 DEF End
<1> QED BY <1>1, <1>8, <1>13 DEF Log!Append

LEMMA CrashInCompactLog ==
  ASSUME Inv, CrashInCompact
  PROVE  Log!Reclaim /\ (LastBase + file[LastBase].n)' = LastBase + file[LastBase].n
<1>1. up /\ Opened /\ Cursors(offsets)
  BY DEF Inv, CrashInCompact
<1>2. PICK gone : gone = Removable(seg, list, tail)
  OBVIOUS
<1>3. PICK f \in Unlinked(file, gone, Live({}, held)) : file' = f
  BY <1>2 DEF CrashInCompact, Down
<1>4. Shape(file, list, tail, seg, offsets, held) /\ Readers(file, offsets, held, active, cons)
  BY <1>1 DEF Opened
<1>5. /\ gone \in SUBSET (list \ {tail})
      /\ \A b \in gone : \A n \in DOMAIN offsets : End(file, b) <= offsets[n]
  <2>1. gone = {} \/ gone = Removable(seg, list, tail)
    BY <1>2
  <2>2. Cursors(offsets)
    BY <1>1
  <2> QED BY <1>4, <2>1, <2>2, RemovableFacts, Zenon
<1>6. PICK S : /\ S \in SUBSET DOMAIN file /\ tail \in S /\ f = Restrict(file, S)
               /\ \A b \in DOMAIN file \ S : b \in gone
  <2>1. PICK b \in gone : f = Restrict(file, DOMAIN file \ ({c \in gone : c <= b} \ Live({}, held)))
    BY <1>3, Zenon DEF Unlinked
  <2>2. tail \in DOMAIN file
    BY <1>4, Zenon DEF Shape, Live
  <2> WITNESS DOMAIN file \ ({c \in gone : c <= b} \ Live({}, held))
  <2> QED BY <1>5, <2>1, <2>2
<1>7. DOMAIN file' = S /\ \A b \in S : file'[b] = file[b]
  BY <1>3, <1>6 DEF Restrict
<1>8. gone # {} => DOMAIN offsets # {}
  BY <1>2, <1>4, Zenon DEF Removable, Readers
<1> QED BY <1>1, <1>5, <1>6, <1>7, <1>8, KeepsRecords

LEMMA CrashInAppendLog ==
  ASSUME Inv, NEW s \in RecordSize, CrashInAppend(s)
  PROVE  /\ Log!Reclaim
         /\ \/ (LastBase + file[LastBase].n)' = LastBase + file[LastBase].n
            \/ (LastBase + file[LastBase].n)' = LastBase + file[LastBase].n + 1
<1>1. up /\ s \in Nat
  BY TopicConstants DEF CrashInAppend
<1>2. PICK f, t, l, gone : f = Files(s) /\ t = TailBase(s) /\ l = Listed(s) /\ gone = Dropped(s)
  OBVIOUS
<1>3. /\ Disk(f, offsets, t) /\ Cursors(offsets) /\ Min(DOMAIN f) = Min(DOMAIN file)
      /\ End(f, t) = LastBase + file[LastBase].n /\ ~f[t].torn
      /\ \A b \in DOMAIN f : b \in gone =>
           DOMAIN offsets # {} /\ \A n \in DOMAIN offsets : End(f, b) <= offsets[n]
      /\ t \in l \ gone /\ DOMAIN f = Live(l, held) /\ End(f, t) = next /\ next \in Nat
  BY <1>1, <1>2, AppendFiles, ZenonT(60)
<1>4. PICK S : S = Live(l \ gone, held)
  OBVIOUS
<1>5. S \in SUBSET DOMAIN f /\ t \in S /\ \A b \in DOMAIN f \ S : b \in gone
  BY <1>3, <1>4, Zenon DEF Live
<1>6. PICK left : left = Restrict(f, S)
  OBVIOUS
<1>7. DOMAIN left = S /\ \A b \in S : left[b] = f[b]
  BY <1>6 DEF Restrict
<1>8. t \in DOMAIN f /\ f[t] \in File /\ f[t].n \in Nat /\ t \in Nat
  BY <1>3, DiskEnds, Zenon
<1>9. ASSUME NEW T \in SUBSET DOMAIN f, DOMAIN file' = T, t \in T, \A b \in DOMAIN f \ T : b \in gone,
             t + file'[t].n = End(f, t) \/ t + file'[t].n = End(f, t) + 1
      PROVE  /\ Log!Reclaim
             /\ \/ (LastBase + file[LastBase].n)' = LastBase + file[LastBase].n
                \/ (LastBase + file[LastBase].n)' = LastBase + file[LastBase].n + 1
  <2>1. Log!Reclaim /\ LastBase' = t
    BY <1>3, <1>9, ReclaimStep, Zenon
  <2>2. (LastBase + file[LastBase].n)' = t + file'[t].n
    BY <2>1
  <2> QED BY <1>3, <1>9, <2>1, <2>2, Zenon
<1>10. ASSUME Rotates(s), NEW whole \in BOOLEAN, file' = [f EXCEPT ![t] = NewFile(whole)]
       PROVE  DOMAIN file' = DOMAIN f /\ t + file'[t].n = End(f, t)
  <2>1. DOMAIN file' = DOMAIN f /\ file'[t] = NewFile(whole)
    BY <1>8, <1>10
  <2>2. file'[t].n = 0
    BY <2>1, SMTT(20) DEF NewFile
  <2>3. t = next
    BY <1>2, <1>10 DEF TailBase
  <2>4. \A x \in Nat : x + 0 = x
    BY SMTT(20)
  <2> QED BY <1>3, <1>8, <2>1, <2>2, <2>3, <2>4, Zenon
<1>11. ASSUME NEW g \in Unlinked(f, gone, Live({}, held)), file' = g
       PROVE  \E T \in SUBSET DOMAIN f : /\ DOMAIN file' = T /\ t \in T /\ \A b \in DOMAIN f \ T : b \in gone
                                         /\ t + file'[t].n = End(f, t)
  <2>1. PICK b \in gone : g = Restrict(f, DOMAIN f \ ({c \in gone : c <= b} \ Live({}, held)))
    BY DEF Unlinked
  <2>2. PICK T : T = DOMAIN f \ ({c \in gone : c <= b} \ Live({}, held))
    BY Zenon
  <2>3. T \in SUBSET DOMAIN f /\ t \in T /\ \A c \in DOMAIN f \ T : c \in gone
    BY <1>3, <1>8, <2>2, Zenon
  <2>4. DOMAIN file' = T /\ file'[t] = f[t]
    BY <1>11, <2>1, <2>2, <2>3 DEF Restrict
  <2> QED BY <2>3, <2>4 DEF End
<1>12. ASSUME file' = [left EXCEPT ![t].torn = TRUE]
       PROVE  DOMAIN file' = S /\ t + file'[t].n = End(f, t)
  <2>1. DOMAIN file' = S /\ file'[t] = [f[t] EXCEPT !.torn = TRUE]
    BY <1>5, <1>7, <1>12, Zenon
  <2>2. file'[t].n = f[t].n
    BY <1>8, <2>1 DEF File
  <2> QED BY <2>1, <2>2 DEF End
<1>13. ASSUME file' = [left EXCEPT ![t] = WriteRecord(@, s)]
       PROVE  DOMAIN file' = S /\ t + file'[t].n = End(f, t) + 1
  <2>1. DOMAIN file' = S /\ file'[t] = WriteRecord(f[t], s)
    BY <1>5, <1>7, <1>13
  <2>2. file'[t].n = f[t].n + 1
    BY <1>1, <1>3, <1>8, <2>1, WriteType, ZenonT(60)
  <2>3. t + (f[t].n + 1) = (t + f[t].n) + 1
    BY <1>8, SMTT(20)
  <2> QED BY <2>1, <2>2, <2>3 DEF End
<1>14. \/ Rotates(s) /\ \E whole \in BOOLEAN : file' = [f EXCEPT ![t] = NewFile(whole)]
       \/ \E g \in Unlinked(f, gone, Live({}, held)) : file' = g
       \/ file' = [left EXCEPT ![t].torn = TRUE]
       \/ file' = [left EXCEPT ![t] = WriteRecord(@, s)]
  BY <1>2, <1>4, <1>6, Zenon DEF CrashInAppend, Down
<1> QED BY <1>5, <1>8, <1>9, <1>10, <1>11, <1>12, <1>13, <1>14

(* What a handle does to the files and to its committed offset. *)
LEMMA ReaderLog ==
  ASSUME Seeks # "any", Inv, NEW n \in Name,
         \/ Consumer(n) \/ ReadNext(n) \/ ReadFails(n) \/ ReadPanics(n)
         \/ Commit(n) \/ Reset(n) \/ DropConsumer(n) \/ DeleteConsumer(n)
         \/ \E o \in Offset : Seek(n, o)
  PROVE  Log!Next
<1> DEFINE high == LastBase + file[LastBase].n
<1>1. ASSUME UNCHANGED file PROVE Log!Reclaim /\ high' = high
  <2>1. PICK t : Disk(file, offsets, t)
    BY Zenon DEF Inv, Opened, Closed, Shape
  <2>2. DOMAIN file \in SUBSET Nat /\ DOMAIN file # {}
    BY <2>1, SMTT(20) DEF Disk
  <2>3. Min(DOMAIN file) \in Nat
    <3>1. PICK m : m = Min(DOMAIN file)
      OBVIOUS
    <3>2. m \in DOMAIN file
      BY <2>2, <3>1, MinLeast
    <3> QED BY <2>2, <3>1, <3>2
  <2>4. Min(DOMAIN file)' = Min(DOMAIN file) /\ high' = high
    BY <1>1, Zenon DEF LastBase
  <2> QED BY <2>3, <2>4, SMTT(20) DEF Log!Reclaim
<1>2. CASE Consumer(n)
  <2>1. up /\ UNCHANGED file
    BY <1>2 DEF Consumer
  <2>2. CASE UNCHANGED offsets
    BY <1>1, <2>1, <2>2, ZenonT(60) DEF Log!Next
  <2>3. CASE ~UNCHANGED offsets
    <3>1. Disk(file, offsets, tail) /\ next = End(file, tail) /\ DOMAIN cons = DOMAIN offsets
      BY <2>1 DEF Inv, Opened, Shape, Readers
    <3>2. high = next
      BY <3>1, HighIs
    <3>3. /\ n \notin DOMAIN offsets
          /\ offsets' = [m \in DOMAIN offsets \cup {n} |-> IF m = n THEN high ELSE offsets[m]]
      BY <1>2, <2>3, <3>1, <3>2 DEF Consumer
    <3>4. Log!Register(n)
      BY <1>1, <2>1, <3>3, ZenonT(60) DEF Log!Register
    <3> QED BY <1>1, <2>1, <3>4 DEF Log!Next
  <2> QED BY <2>2, <2>3
<1>3. CASE Commit(n)
  <2>1. n \in active /\ UNCHANGED file /\ offsets' = [offsets EXCEPT ![n] = cons[n].volatile]
    BY <1>3 DEF Commit
  <2>2. n \in DOMAIN offsets /\ offsets[n] <= cons[n].volatile /\ offsets[n] \in Nat /\ cons[n].volatile \in Nat
    BY <2>1, ActiveUp, SourceFacts, Zenon
  <2>3. offsets'[n] = cons[n].volatile /\ DOMAIN offsets' = DOMAIN offsets
    BY <2>1, <2>2
  <2>4. offsets'[n] >= offsets[n] /\ offsets' = [offsets EXCEPT ![n] = offsets'[n]]
    BY <2>1, <2>2, <2>3
  <2>5. Log!Commit(n)
    BY <1>1, <2>1, <2>2, <2>3, <2>4 DEF Log!Commit
  <2> QED BY <1>1, <2>1, <2>5 DEF Log!Next
<1>4. CASE DeleteConsumer(n)
  <2>1. n \in active /\ Hold(n, {}) /\ offsets' = Without(offsets, n)
    BY <1>4 DEF DeleteConsumer
  <2>2. n \in DOMAIN offsets
    BY <2>1, ActiveUp, SourceFacts, ZenonT(60)
  <2>3. Log!Reclaim /\ high' = high
    BY <2>1, HoldLog, ZenonT(60)
  <2>4. Log!Unregister(n)
    BY <2>1, <2>2, <2>3 DEF Log!Unregister, Without, Restrict
  <2> QED BY <2>3, <2>4, Zenon DEF Log!Next
<1>5. ASSUME n \in active, UNCHANGED offsets, NEW h \in SUBSET DOMAIN file, Hold(n, h) PROVE Log!Next
  <2>1. Log!Reclaim /\ high' = high
    BY <1>5, HoldLog
  <2> QED BY <1>5, <2>1 DEF Log!Next
<1>6. CASE ReadNext(n)
  <2>1. Pending(n) /\ n \in active /\ UNCHANGED offsets
    BY <1>6 DEF ReadNext, Pending
  <2>2. PICK b \in Source(n) : Hold(n, {b})
    BY <1>6, Zenon DEF ReadNext
  <2>3. {b} \in SUBSET DOMAIN file
    <3>1. up
      BY <2>1, ActiveUp
    <3>2. b \in DOMAIN file
      BY <2>1, <2>2, <3>1, SourceFacts, ZenonT(60)
    <3> QED BY <3>2
  <2> QED BY <1>5, <2>1, <2>2, <2>3
<1>7. CASE Reset(n) \/ DropConsumer(n) \/ \E o \in Offset : Seek(n, o)
  <2>1. n \in active /\ UNCHANGED offsets /\ Hold(n, {})
    BY <1>7 DEF Reset, DropConsumer, Seek, Move, Release
  <2>2. {} \in SUBSET DOMAIN file
    OBVIOUS
  <2> QED BY <1>5, <2>1, <2>2
<1>8. ~ReadFails(n) /\ ~ReadPanics(n)
  BY NoBadRead
<1> QED BY <1>2, <1>3, <1>4, <1>6, <1>7, <1>8

LEMMA LogStep ==
  ASSUME Seeks # "any", Inv, [Next]_vars
  PROVE  [Log!Next]_Log!logVars
<1> DEFINE high == LastBase + file[LastBase].n
<1>1. ASSUME UNCHANGED <<file, offsets>> PROVE UNCHANGED Log!logVars
  BY <1>1 DEF Log!logVars, LastBase, Min, Max
<1>2. ASSUME NEW s \in RecordSize, AppendRecord(s) PROVE Log!Next
  BY <1>2, AppendLog DEF Log!Next
<1>3. ASSUME NEW s \in RecordSize, CrashInAppend(s) PROVE Log!Next
  <2>1. UNCHANGED offsets
    BY <1>3 DEF CrashInAppend, Down
  <2>2. Log!Reclaim /\ (high' = high \/ high' = high + 1)
    BY <1>3, CrashInAppendLog
  <2> QED BY <2>1, <2>2 DEF Log!Next, Log!Append
<1>4. CASE Compact \/ CrashInCompact
  <2>1. UNCHANGED offsets
    BY <1>4 DEF Compact, CrashInCompact, Down
  <2>2. Log!Reclaim /\ high' = high
    BY <1>4, CompactLog, CrashInCompactLog
  <2> QED BY <2>1, <2>2 DEF Log!Next
<1>5. CASE Close \/ Crash \/ OpenFails \/ UNCHANGED vars
  BY <1>1, <1>5 DEF Close, Crash, OpenFails, Down, vars
<1>6. CASE Open
  <2>1. PICK t \in DOMAIN file : Disk(file, offsets, t)
    BY <1>6, Zenon DEF Inv, Closed, Open
  <2>2. LastBase = t
    BY <2>1, NamesFacts
  <2>3. file' = [file EXCEPT ![t].torn = FALSE] /\ offsets' = offsets
    BY <1>6, <2>2 DEF Open, Scanned
  <2>4. file[t] \in File
    BY <2>1 DEF Disk
  <2>5. DOMAIN file' = DOMAIN file /\ file'[t].n = file[t].n
    BY <2>3, <2>4 DEF File
  <2>6. LastBase' = t /\ Min(DOMAIN file)' = Min(DOMAIN file)
    BY <2>2, <2>5 DEF LastBase, Min, Max
  <2>7. high' = high
    BY <2>2, <2>5, <2>6
  <2> QED BY <2>3, <2>6, <2>7 DEF Log!logVars
<1> QED BY <1>2, <1>3, <1>4, <1>5, <1>6, ReaderLog DEF Next

(* The topic implements the log its users rely on, whatever the sizes, the   *)
(* consumers and the crashes, as long as no consumer seeks below what it has *)
(* committed: append adds exactly one record at the high end, no other       *)
(* handler, crash or open() adds or loses one, and the low end only moves to *)
(* a place every registered consumer has committed.                          *)
THEOREM TopicImplementsLog ==
  ASSUME Seeks # "any"
  PROVE  Spec => ImplementsLog
<1>1. Init => Log!Init
  <2> SUFFICES ASSUME Init PROVE Log!Init
    OBVIOUS
  <2>1. DOMAIN file = {0} /\ file[0] = NewFile(TRUE) /\ offsets = [n \in {} |-> 0]
    BY DEF Init
  <2>2. file[0].n = 0
    BY <2>1, SMTT(20) DEF NewFile
  <2>3. Min({0}) = 0 /\ Max({0}) = 0
    <3>1. {0} \in SUBSET Int /\ {0} \in SUBSET Nat /\ 0 \in {0} /\ \A y \in {0} : 0 <= y /\ y <= 0
      BY SMTT(20)
    <3> QED BY <3>1, MinIs, LastIs
  <2>4. LastBase = 0 /\ Min(DOMAIN file) = 0
    BY <2>1, <2>3 DEF LastBase
  <2> QED BY <2>1, <2>2, <2>4, SMTT(20) DEF Log!Init
<1>2. Inv /\ [Next]_vars => [Log!Next]_Log!logVars
  BY LogStep
<1> QED BY <1>1, <1>2, TopicInvariant, PTL DEF Spec, ImplementsLog, Log!Spec
=============================================================================
