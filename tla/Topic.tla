------------------------------- MODULE Topic -------------------------------
(***************************************************************************)
(* Topic<T> of zendb-storage: a segmented append-only log with one writer  *)
(* and named consumers.  A record is abstracted to its offset and its      *)
(* encoded size, a segment file to the number and length of the records a  *)
(* scan finds in it.  Handlers are atomic; a process crash may strike      *)
(* between any two file system effects of a handler.  Files and the mmap'd *)
(* offsets KeyDir survive a process crash; everything else is memory.      *)
(***************************************************************************)
EXTENDS Integers, FiniteSetsExt, Functions

CONSTANTS
  Name,             \* consumer names
  RecordSize,       \* sizes a record may have on disk, length prefix included
  HeaderSize,       \* bytes of the segment magic
  MaxSegmentBytes,  \* TopicConfig.max_segment_bytes
  MaxOffset,        \* bound of the model: records ever appended
  Seeks             \* how consumers use seek: "none", "forward", "any"

ASSUME TopicConstants ==
  /\ RecordSize \subseteq Nat \ {0}
  /\ HeaderSize \in Nat
  /\ MaxSegmentBytes \in Nat
  /\ MaxOffset \in Nat
  /\ Seeks \in {"none", "forward", "any"}

VARIABLES
  up,       \* the Topic value exists
  file,     \* segment files by base offset: header written, whole records, their bytes, torn tail
  offsets,  \* the persisted KeyDir: consumer name -> committed offset
  seg,      \* the Segment objects some Arc keeps alive, by base offset
  list,     \* base offsets of Topic.segments, also published in TopicShared
  tail,     \* base offset of the active segment
  next,     \* TopicShared.next_offset = TopicStats.next_offset
  stats,    \* the other fields of TopicStats
  cons,     \* TopicShared.consumers: name -> committed and volatile cursor
  active,   \* names whose reader_active is set
  held,     \* segment each handle's SegmentCursor holds: {} or {base}
  acked,    \* history: records append has acknowledged
  seen      \* history, if consumers never seek: first offset not yet delivered

vars == <<up, file, offsets, seg, list, tail, next, stats, cons, active,
          held, acked, seen>>

File == [magic : BOOLEAN, n : Nat, len : Nat, torn : BOOLEAN]
Offset == 0 .. MaxOffset + 1
NoHandles == [n \in Name |-> {}]

(* Offsets keep within their bound; listed and held segments exist.          *)
TypeOK ==
  /\ up \in BOOLEAN
  /\ DOMAIN file \subseteq Offset /\ \A b \in DOMAIN file : file[b] \in File
  /\ DOMAIN offsets \subseteq Name /\ \A n \in DOMAIN offsets : offsets[n] \in Offset
  /\ DOMAIN seg \subseteq Offset /\ \A b \in DOMAIN seg : seg[b] \in [end : Offset, bytes : Nat]
  /\ list \subseteq DOMAIN seg
  /\ tail \in Offset /\ next \in Offset /\ acked \in Offset
  /\ DOMAIN cons \subseteq Name
  /\ \A n \in DOMAIN cons : cons[n] \in [committed : Offset, volatile : Offset]
  /\ active \subseteq DOMAIN cons
  /\ \A n \in Name : held[n] \subseteq DOMAIN seg
  /\ seen \in [Name -> Offset]

(* Segment::drop removes the file of a compacted segment when its last Arc   *)
(* goes, so the live segments are the listed ones and those a cursor holds.  *)
Live(l, h) == l \cup UNION {h[n] : n \in Name}
---------------------------------------------------------------------------
NewFile(whole) == [magic |-> whole, n |-> 0, len |-> IF whole THEN HeaderSize ELSE 0, torn |-> FALSE]
NewSegment(b) == [end |-> b, bytes |-> HeaderSize]

(* create: an empty offsets KeyDir and one empty segment at offset 0. *)
Init ==
  /\ up = TRUE
  /\ file = [b \in {0} |-> NewFile(TRUE)]
  /\ offsets = [n \in {} |-> 0]
  /\ seg = [b \in {0} |-> NewSegment(0)]
  /\ list = {0} /\ tail = 0 /\ next = 0
  /\ stats = [earliest |-> 0, records |-> 0, retained |-> HeaderSize]
  /\ cons = [n \in {} |-> 0]
  /\ active = {} /\ held = NoHandles
  /\ acked = 0 /\ seen = [n \in Name |-> 0]

(* Mutant of Removable: compaction follows the fastest consumer. *)
RemovableByFastest(sg, l, t) ==
  {b \in l \ {t} : \A c \in l : c <= b =>
                     \E n \in DOMAIN cons : sg[c].end <= cons[n].committed}

(* compact: the leading segments, never the last one, that end at or below   *)
(* every registered consumer's committed offset; none when there is no       *)
(* consumer.                                                                 *)
Removable(sg, l, t) ==
  {b \in l \ {t} : /\ DOMAIN cons # {}
                   /\ \A c \in l : c <= b =>
                        \A n \in DOMAIN cons : sg[c].end <= cons[n].committed}

(* Sums over segments: their records and bytes, and the bytes of the files. *)
Records(sg, S) == SumFunction([b \in S |-> sg[b].end - b])
SegmentBytes(sg, S) == SumFunction([b \in S |-> sg[b].bytes])
FileBytes(f, S) == SumFunction([b \in S |-> f[b].len])

(* Mutant of Reclaim: earliest_offset is left behind. *)
ReclaimStale(st, sg, l, gone) ==
  [st EXCEPT !.records = @ - Records(sg, gone),
             !.retained = @ - SegmentBytes(sg, gone)]

Reclaim(st, sg, l, gone) ==
  IF gone = {} THEN st
  ELSE [earliest |-> Min(l \ gone),
        records  |-> st.records - Records(sg, gone),
        retained |-> st.retained - SegmentBytes(sg, gone)]

Compact ==
  /\ up
  /\ LET gone == Removable(seg, list, tail)
         live == Live(list \ gone, held)
     IN  /\ list' = list \ gone
         /\ seg' = Restrict(seg, live)
         /\ file' = Restrict(file, live)
         /\ stats' = Reclaim(stats, seg, list, gone)
  /\ UNCHANGED <<up, offsets, tail, next, cons, active, held, acked, seen>>

(* append rotates when the active segment has a record and would outgrow the *)
(* limit.                                                                    *)
Rotates(s) == seg[tail].end # tail /\ seg[tail].bytes + s > MaxSegmentBytes

(* Mutant of TailBase: the new segment is named after the next record but one. *)
TailSkips(s) == IF Rotates(s) THEN next + 1 ELSE tail

TailBase(s) == IF Rotates(s) THEN next ELSE tail

(* rotate_segment's segment list and files before it compacts. *)
Listed(s) == list \cup {TailBase(s)}
Segments(s) == [b \in DOMAIN seg \cup {TailBase(s)} |->
                  IF b \in DOMAIN seg THEN seg[b] ELSE NewSegment(b)]
Files(s) == [b \in DOMAIN file \cup {TailBase(s)} |->
               IF b \in DOMAIN file THEN file[b] ELSE NewFile(TRUE)]
Dropped(s) == IF Rotates(s) THEN Removable(Segments(s), Listed(s), TailBase(s)) ELSE {}

(* A record written behind a torn one is not found by any scan. *)
WriteRecord(f, s) == [f EXCEPT !.n = IF f.torn THEN @ ELSE @ + 1, !.len = @ + s]

AppendRecord(s) ==
  /\ up /\ next < MaxOffset
  /\ LET t == TailBase(s)
         live == Live(Listed(s) \ Dropped(s), held)
         st == Reclaim([stats EXCEPT !.retained = IF Rotates(s) THEN @ + HeaderSize ELSE @],
                       Segments(s), Listed(s), Dropped(s))
     IN  /\ list' = Listed(s) \ Dropped(s)
         /\ tail' = t
         /\ seg' = [b \in live |->
                      IF b = t THEN [end |-> next + 1, bytes |-> Segments(s)[b].bytes + s]
                               ELSE Segments(s)[b]]
         /\ file' = [b \in live |->
                       IF b = t THEN WriteRecord(Files(s)[b], s) ELSE Files(s)[b]]
         /\ stats' = [st EXCEPT !.records = @ + 1, !.retained = @ + s]
  /\ next' = next + 1
  /\ acked' = next + 1
  /\ UNCHANGED <<up, offsets, cons, active, held, seen>>
---------------------------------------------------------------------------
(* Mutant of Consumer: a known name is put back at the tail too. *)
ConsumerAtTail(n) ==
  /\ up /\ n \notin active
  /\ active' = active \cup {n}
  /\ offsets' = [m \in DOMAIN offsets \cup {n} |-> IF m = n THEN next ELSE offsets[m]]
  /\ cons' = [m \in DOMAIN cons \cup {n} |->
                IF m = n THEN [committed |-> next, volatile |-> next] ELSE cons[m]]
  /\ seen' = IF n \in DOMAIN cons THEN seen ELSE [seen EXCEPT ![n] = next]
  /\ UNCHANGED <<up, file, seg, list, tail, next, stats, held, acked>>

(* Topic::consumer: first seen, a name is registered and persisted at the    *)
(* tail.  A second handle of an active name is refused without an effect.    *)
Consumer(n) ==
  /\ up /\ n \notin active
  /\ active' = active \cup {n}
  /\ \/ /\ n \in DOMAIN cons
        /\ UNCHANGED <<offsets, cons, seen>>
     \/ /\ n \notin DOMAIN cons
        /\ offsets' = [m \in DOMAIN offsets \cup {n} |-> IF m = n THEN next ELSE offsets[m]]
        /\ cons' = [m \in DOMAIN cons \cup {n} |->
                      IF m = n THEN [committed |-> next, volatile |-> next] ELSE cons[m]]
        /\ seen' = IF Seeks = "none" THEN [seen EXCEPT ![n] = next] ELSE seen
  /\ UNCHANGED <<up, file, seg, list, tail, next, stats, held, acked>>

(* Replace the segment handle n's cursor holds; a compacted segment no one   *)
(* holds any more loses its file.                                            *)
Hold(n, h) ==
  /\ held' = [held EXCEPT ![n] = h]
  /\ seg' = Restrict(seg, Live(list, held'))
  /\ file' = Restrict(file, Live(list, held'))

(* The segment the next read uses: the cursor's while it has records left,   *)
(* otherwise the published segment that position() finds.                    *)
Current(n) == {b \in held[n] : cons[n].volatile < seg[b].end}
Containing(n) == {b \in list : b <= cons[n].volatile /\ cons[n].volatile < seg[b].end}
Source(n) == IF Current(n) # {} THEN Current(n) ELSE Containing(n)
(* Mutant of Pending: at the end of its segment a cursor reports the end. *)
PendingInSegment(n) ==
  n \in active /\ IF held[n] = {} THEN cons[n].volatile < next ELSE Current(n) # {}

Pending(n) == n \in active /\ (Current(n) # {} \/ cons[n].volatile < next)

(* Iterator::next of a handle, when the record is in the file. *)
ReadNext(n) ==
  /\ Pending(n)
  /\ \E b \in Source(n) :
       /\ cons[n].volatile - b < file[b].n
       /\ Hold(n, {b})
  /\ cons' = [cons EXCEPT ![n].volatile = @ + 1]
  /\ seen' = IF Seeks = "none" /\ cons[n].volatile = seen[n] THEN [seen EXCEPT ![n] = @ + 1] ELSE seen
  /\ UNCHANGED <<up, offsets, list, tail, next, stats, active, acked>>

(* The file ends before the record: read_exact fails, the cursor stays. *)
ReadFails(n) ==
  /\ Pending(n)
  /\ \E b \in Source(n) :
       /\ cons[n].volatile - b >= file[b].n
       /\ Hold(n, IF b \in held[n] \/ cons[n].volatile - b = file[b].n THEN {b} ELSE {})
  /\ UNCHANGED <<up, offsets, list, tail, next, stats, cons, active, acked, seen>>

(* TopicConsumer::drop forgets the uncommitted reads. *)
Release(n) ==
  /\ cons' = [cons EXCEPT ![n].volatile = cons[n].committed]
  /\ active' = active \ {n}
  /\ Hold(n, {})
  /\ UNCHANGED <<up, offsets, list, tail, next, stats, acked, seen>>

DropConsumer(n) == n \in active /\ Release(n)

(* position() unwraps: no published segment contains the offset.  The panic  *)
(* unwinds through the handle's Drop.                                        *)
ReadPanics(n) == Pending(n) /\ Source(n) = {} /\ Release(n)

Commit(n) ==
  /\ n \in active
  /\ offsets' = [offsets EXCEPT ![n] = cons[n].volatile]
  /\ cons' = [cons EXCEPT ![n].committed = cons[n].volatile]
  /\ UNCHANGED <<up, file, seg, list, tail, next, stats, active, held, acked, seen>>

Move(n, o) ==
  /\ cons' = [cons EXCEPT ![n].volatile = o]
  /\ Hold(n, {})
  /\ UNCHANGED <<up, offsets, list, tail, next, stats, active, acked, seen>>

Seek(n, o) ==
  /\ n \in active
  /\ Seeks = "any" \/ (Seeks = "forward" /\ o >= cons[n].committed)
  /\ Move(n, o)

Reset(n) == n \in active /\ Move(n, cons[n].committed)

Without(f, n) == Restrict(f, DOMAIN f \ {n})

(* TopicConsumer::delete, then the drop of the handle it consumes. *)
DeleteConsumer(n) ==
  /\ n \in active
  /\ offsets' = Without(offsets, n)
  /\ cons' = Without(cons, n)
  /\ active' = active \ {n}
  /\ Hold(n, {})
  /\ UNCHANGED <<up, list, tail, next, stats, acked, seen>>
---------------------------------------------------------------------------
(* The process is gone, the files are f. *)
Down(f) ==
  /\ up' = FALSE
  /\ file' = f
  /\ seg' = [b \in {} |-> 0] /\ list' = {} /\ tail' = 0 /\ next' = 0
  /\ stats' = [earliest |-> 0, records |-> 0, retained |-> 0]
  /\ cons' = [n \in {} |-> 0]
  /\ active' = {} /\ held' = NoHandles
  /\ UNCHANGED <<offsets, acked, seen>>

(* Drop for Topic, its consumers gone before it. *)
Close == up /\ active = {} /\ Down(file)

Crash == up /\ Down(file)

(* Some of the compacted segments' files are gone, oldest first. *)
Unlinked(f, gone, held0) ==
  {Restrict(f, DOMAIN f \ ({c \in gone : c <= b} \ held0)) : b \in gone}

CrashInCompact ==
  /\ up
  /\ \E f \in Unlinked(file, Removable(seg, list, tail), Live({}, held)) : Down(f)

(* Inside append: the new segment's file without or with its header, the     *)
(* rotation's compaction under way, the record cut short, or the record      *)
(* written and not yet acknowledged.                                         *)
CrashInAppend(s) ==
  /\ up /\ next < MaxOffset
  /\ LET t == TailBase(s)
         left == Restrict(Files(s), Live(Listed(s) \ Dropped(s), held))
     IN  \/ /\ Rotates(s)
            /\ \E whole \in BOOLEAN : Down([Files(s) EXCEPT ![t] = NewFile(whole)])
         \/ \E f \in Unlinked(Files(s), Dropped(s), Live({}, held)) : Down(f)
         \/ Down([left EXCEPT ![t].torn = TRUE])
         \/ Down([left EXCEPT ![t] = WriteRecord(@, s)])

Readable == \A b \in DOMAIN file : file[b].magic

(* open: scan and truncate the last segment; a sealed segment ends where the *)
(* next one begins; every consumer restarts at its persisted offset.         *)
SealedEnd(b) == Min({c \in DOMAIN file : c > b})
LastBase == Max(DOMAIN file)

(* Mutant of Scanned: the torn record is not cut off. *)
ScannedOnly == file
Scanned == [file EXCEPT ![LastBase].torn = FALSE]

Open ==
  /\ ~up /\ Readable
  /\ up' = TRUE
  /\ file' = Scanned
  /\ seg' = [b \in DOMAIN file |->
               [end |-> IF b = LastBase THEN b + file[b].n ELSE SealedEnd(b),
                bytes |-> file[b].len]]
  /\ list' = DOMAIN file /\ tail' = LastBase
  /\ next' = LastBase + file[LastBase].n
  /\ stats' = [earliest |-> Min(DOMAIN file),
               records  |-> next' - Min(DOMAIN file),
               retained |-> FileBytes(file, DOMAIN file)]
  /\ cons' = [n \in DOMAIN offsets |-> [committed |-> offsets[n], volatile |-> offsets[n]]]
  /\ UNCHANGED <<offsets, active, held, acked, seen>>

(* A segment without its magic makes open return an error, every time. *)
OpenFails == ~up /\ ~Readable /\ UNCHANGED vars
---------------------------------------------------------------------------
Read(n) == ReadNext(n) \/ ReadFails(n) \/ ReadPanics(n)

Next ==
  \/ \E s \in RecordSize : AppendRecord(s) \/ CrashInAppend(s)
  \/ \E n \in Name : \/ Consumer(n) \/ ReadNext(n) \/ ReadFails(n) \/ ReadPanics(n)
                     \/ Commit(n) \/ Reset(n) \/ DropConsumer(n) \/ DeleteConsumer(n)
                     \/ \E o \in Offset : Seek(n, o)
  \/ Compact \/ Close \/ Crash \/ CrashInCompact \/ Open \/ OpenFails

Spec == Init /\ [][Next]_vars

(* Every reader keeps calling next() and does not rewind for ever. *)
FairSpec ==
  /\ Spec
  /\ \A n \in Name : WF_vars(Read(n))
  /\ <>[][\A n \in Name : ~Reset(n)]_vars
---------------------------------------------------------------------------
(* Compaction, explicit or by a rotation, never reclaims a record that some  *)
(* registered consumer has not committed: it stays listed and in its file    *)
(* (compact's minimum over `committed`, across crashes and reopening).       *)
RetainsUncommitted ==
  up => \A n \in DOMAIN cons : \A o \in cons[n].committed .. next - 1 :
          \E b \in list : b <= o /\ o < seg[b].end /\ o - b < file[b].n

(* A handle that has something to read finds its record: position() never    *)
(* unwraps None and read_exact never meets the end of the file, whatever     *)
(* the writer has rotated and compacted in the meantime.                     *)
ReadsSucceed ==
  \A n \in Name : Pending(n) => \E b \in Source(n) : cons[n].volatile - b < file[b].n

(* open() takes the end of a sealed segment from the name of the next file   *)
(* without scanning it: on disk every segment but the last must really hold  *)
(* the records up to the next base, also after a crash inside compact.       *)
SealedSegmentsComplete ==
  \A b \in DOMAIN file : b # LastBase => b + file[b].n = SealedEnd(b)

(* A record append() acknowledged is never dropped by a process crash and    *)
(* the scan-and-truncate of the next open.                                   *)
AckedSurvive == up => next >= acked

(* TopicStats, maintained incrementally with unsigned subtractions by append *)
(* and compact, equals what open() would compute from the listed files.      *)
StatsExact ==
  up => stats = [earliest |-> Min(list),
                 records  |-> next - Min(list),
                 retained |-> FileBytes(file, list)]

(* At least once: as long as a consumer does not seek, no cursor, volatile   *)
(* or persisted, ever gets past a record that was not delivered to it, over  *)
(* resets, dropped handles, crashes and reopening.                           *)
AtLeastOnce ==
  Seeks = "none" => /\ \A n \in DOMAIN cons : cons[n].volatile <= seen[n]
                    /\ \A n \in DOMAIN offsets : offsets[n] <= seen[n]

(* A crash leaves segment files that open() accepts.  Refuted: one between   *)
(* the creation of a segment file and the write of its magic does not.       *)
CrashLeavesOpenable == ~up => Readable

(* A handle that keeps calling next() gets past every offset it has seen the *)
(* tail pass, over rotations and compactions, unless the handle or the       *)
(* process goes away first.                                                  *)
ReaderCatchesUp ==
  \A n \in Name : \A o \in Offset :
    (n \in active /\ next > o) ~> (n \notin active \/ cons[n].volatile > o)
---------------------------------------------------------------------------
(* What the files and the offsets KeyDir promise, whether or not a process   *)
(* has them open: the records from the first segment's base to the last      *)
(* whole record of the last segment, and the committed offsets.              *)
Log == INSTANCE ChangeLog WITH
         low <- Min(DOMAIN file),
         high <- LastBase + file[LastBase].n,
         committed <- offsets

(* The topic implements the log its users rely on: offsets are dense, a      *)
(* crash neither loses a record nor moves a cursor, and the low end only     *)
(* advances past what every consumer has committed.                          *)
ImplementsLog == Log!Spec
=============================================================================
