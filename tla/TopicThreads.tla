---------------------------- MODULE TopicThreads ----------------------------
(***************************************************************************)
(* Topic's writer and its readers in different threads: each atomic load   *)
(* and store of next_offset, of a segment's end_offset, of a consumer's    *)
(* committed and of the published segment list is a step, and so is each   *)
(* file operation.  The calls themselves are modelled in Topic.            *)
(*                                                                         *)
(* A segment is named by its base offset.  Its file goes when compaction   *)
(* has marked it and the last Arc is dropped.                              *)
(***************************************************************************)
EXTENDS Integers, FiniteSets

CONSTANTS
  Readers,      \* consumers, each read by a thread of its own
  PerSegment,   \* records that fit into a segment
  MaxOffset,    \* how many records are appended
  Failures      \* may a write fail in the middle of a record?

ASSUME ThreadsAssumption ==
  PerSegment \in Nat \ {0} /\ MaxOffset \in Nat /\ Failures \in BOOLEAN

Nothing == -1

VARIABLES
  file,       \* base -> [records, torn]: complete records, and the number of
              \* them that were written before the first torn one
  end,        \* base -> Segment::end_offset
  marked,     \* bases with delete_on_drop
  list,       \* the writer's own list of segments, a set of bases
  published,  \* TopicShared::segments
  next,       \* TopicShared::next_offset
  committed,  \* reader -> ConsumerState::committed
  writer,     \* [at, offset, through, loads]
  reader      \* reader -> [at, offset, segment, snapshot]

vars == <<file, end, marked, list, published, next, committed, writer, reader>>

At(pc, o) == [at |-> pc, offset |-> o, through |-> Nothing, loads |-> {}]

Init ==
  /\ file = [b \in {0} |-> [records |-> 0, torn |-> Nothing]]
  /\ end = [b \in {0} |-> 0]
  /\ marked = {} /\ list = {0} /\ published = {0} /\ next = 0
  /\ committed = [r \in Readers |-> 0]
  /\ writer = At("idle", 0)
  /\ reader = [r \in Readers |-> [at |-> "idle", offset |-> 0, segment |-> Nothing, snapshot |-> {}]]

Active == CHOOSE b \in list : \A c \in list : c <= b

(* The segments a reader keeps alive. *)
Held(r) == reader[r].snapshot \union ({reader[r].segment} \ {Nothing})

(* The file of a segment is there while it is not marked or has an owner. *)
FileThere(b) == b \notin marked \/ b \in list \/ b \in published \/ \E r \in Readers : b \in Held(r)
---------------------------------------------------------------------------
(* append: rotate first when the active segment is full. *)
Append ==
  /\ writer.at = "idle" /\ writer.offset < MaxOffset
  /\ writer' = [writer EXCEPT !.at = IF end[Active] - Active >= PerSegment THEN "rotate" ELSE "write"]
  /\ UNCHANGED <<file, end, marked, list, published, next, committed, reader>>

(* rotate_segment: a new file, and the list with it. *)
Rotate ==
  /\ writer.at = "rotate"
  /\ file' = [b \in DOMAIN file \union {writer.offset} |-> IF b = writer.offset THEN [records |-> 0, torn |-> Nothing] ELSE file[b]]
  /\ end' = [b \in DOMAIN end \union {writer.offset} |-> IF b = writer.offset THEN b ELSE end[b]]
  /\ list' = list \union {writer.offset}
  /\ published' = list'
  /\ writer' = [writer EXCEPT !.at = "load", !.through = Nothing, !.loads = Readers]
  /\ UNCHANGED <<marked, next, committed, reader>>

(* compact loads the committed offset of one consumer after the other. *)
LoadCommitted ==
  /\ writer.at = "load"
  /\ \E r \in writer.loads :
       writer' = [writer EXCEPT !.loads = @ \ {r},
                                !.through = IF @ = Nothing \/ committed[r] < @ THEN committed[r] ELSE @,
                                !.at = IF writer.loads = {r} THEN "cut" ELSE "load"]
  /\ UNCHANGED <<file, end, marked, list, published, next, committed, reader>>

(* Sealed segments every consumer has committed. *)
Removable(through) == {b \in list \ {Active} : end[b] <= through}

(* compact publishes the shorter list, then marks what it removed. *)
Cut ==
  /\ writer.at = "cut"
  /\ LET gone == Removable(writer.through)
     IN  /\ list' = list \ gone
         /\ published' = list'
         /\ marked' = marked \union gone
  /\ writer' = [writer EXCEPT !.at = "write"]
  /\ UNCHANGED <<file, end, next, committed, reader>>

(* Mutant of Write: the record stays in a buffer. *)
WriteBuffered ==
  /\ writer.at = "write"
  /\ writer' = [writer EXCEPT !.at = "end"]
  /\ UNCHANGED <<file, end, marked, list, published, next, committed, reader>>

(* write_all of the length and of the payload. *)
Write ==
  /\ writer.at = "write"
  /\ file' = [file EXCEPT ![Active].records = @ + 1]
  /\ writer' = [writer EXCEPT !.at = "end"]
  /\ UNCHANGED <<end, marked, list, published, next, committed, reader>>

(* A write fails with part of the record in the file; append returns the   *)
(* error and the next one writes behind it.                                *)
WriteFails ==
  /\ Failures
  /\ writer.at = "write"
  /\ file' = [file EXCEPT ![Active].torn = IF @ = Nothing THEN file[Active].records ELSE @]
  /\ writer' = [writer EXCEPT !.at = "idle"]
  /\ UNCHANGED <<end, marked, list, published, next, committed, reader>>

(* Mutant of StoreEnd: next_offset is stored first. *)
StoreNextFirst ==
  /\ writer.at = "end"
  /\ next' = writer.offset + 1
  /\ writer' = [writer EXCEPT !.at = "next"]
  /\ UNCHANGED <<file, end, marked, list, published, committed, reader>>

(* end_offset.store *)
StoreEnd ==
  /\ writer.at = "end"
  /\ end' = [end EXCEPT ![Active] = writer.offset + 1]
  /\ writer' = [writer EXCEPT !.at = "next"]
  /\ UNCHANGED <<file, marked, list, published, next, committed, reader>>

(* next_offset.store *)
StoreNext ==
  /\ writer.at = "next"
  /\ next' = writer.offset + 1
  /\ writer' = At("idle", writer.offset + 1)
  /\ UNCHANGED <<file, end, marked, list, published, committed, reader>>

WriterStep ==
  Rotate \/ LoadCommitted \/ Cut \/ Write \/ WriteFails \/ StoreEnd \/ StoreNext
---------------------------------------------------------------------------
Moves(r, s) == reader' = [reader EXCEPT ![r] = s]
OnlyReader == UNCHANGED <<file, end, marked, list, published, next, committed, writer>>

(* next: with a cursor, its segment's end_offset is loaded. *)
Next_(r) ==
  LET s == reader[r]
  IN  /\ s.at = "idle"
      /\ Moves(r, [s EXCEPT !.at = IF s.segment = Nothing THEN "position"
                                   ELSE IF s.offset < end[s.segment] THEN "read" ELSE "tail"])
      /\ OnlyReader

(* Mutant of Tail: the end of the segment is taken for the end of the topic. *)
TailOfSegment(r) ==
  /\ reader[r].at = "tail"
  /\ Moves(r, [reader[r] EXCEPT !.at = "idle"])
  /\ OnlyReader

(* At the end of its segment: next_offset tells whether there is another;  *)
(* if so the cursor is dropped.                                            *)
Tail(r) ==
  LET s == reader[r]
  IN  /\ s.at = "tail"
      /\ Moves(r, IF s.offset >= next THEN [s EXCEPT !.at = "idle"] ELSE [s EXCEPT !.at = "position", !.segment = Nothing])
      /\ OnlyReader

(* position: next_offset is loaded first, then the list. *)
Position(r) ==
  LET s == reader[r]
  IN  /\ s.at = "position"
      /\ Moves(r, [s EXCEPT !.at = IF s.offset >= next THEN "idle" ELSE "list"])
      /\ OnlyReader

LoadList(r) ==
  /\ reader[r].at = "list"
  /\ Moves(r, [reader[r] EXCEPT !.at = "find", !.snapshot = published])
  /\ OnlyReader

Found(r) == {b \in reader[r].snapshot : b <= reader[r].offset /\ reader[r].offset < end[b]}

(* The segment of the offset; unwrap panics when there is none. *)
Find(r) ==
  LET s == reader[r]
  IN  /\ s.at = "find"
      /\ Moves(r, IF Found(r) = {} THEN [s EXCEPT !.at = "panic"]
                  ELSE [s EXCEPT !.at = "open", !.segment = CHOOSE b \in Found(r) : TRUE])
      /\ OnlyReader

(* File::open, and the records before the offset are skipped. *)
OpenFile(r) ==
  LET s == reader[r]
  IN  /\ s.at = "open"
      /\ Moves(r, IF FileThere(s.segment) THEN [s EXCEPT !.at = "read", !.snapshot = {}] ELSE [s EXCEPT !.at = "lost"])
      /\ OnlyReader

(* A cursor at or behind the place where a record was torn. *)
PastTorn(s) == file[s.segment].torn # Nothing /\ file[s.segment].torn <= s.offset - s.segment

(* The record at the cursor is in the file, with no torn one before it. *)
Readable(s) == s.offset - s.segment < file[s.segment].records /\ ~PastTorn(s)

Read(r) ==
  LET s == reader[r]
  IN  /\ s.at = "read"
      /\ Moves(r, IF Readable(s) THEN [s EXCEPT !.at = "idle", !.offset = @ + 1] ELSE [s EXCEPT !.at = "garbage"])
      /\ OnlyReader

(* commit, between two reads. *)
Commit(r) ==
  /\ reader[r].at = "idle"
  /\ committed[r] # reader[r].offset
  /\ committed' = [committed EXCEPT ![r] = reader[r].offset]
  /\ UNCHANGED <<file, end, marked, list, published, next, writer, reader>>

ReaderStep(r) == Next_(r) \/ Tail(r) \/ Position(r) \/ LoadList(r) \/ Find(r) \/ OpenFile(r) \/ Read(r)

Next == Append \/ WriterStep \/ \E r \in Readers : ReaderStep(r) \/ Commit(r)

(* A call that has begun goes on, and readers keep polling. *)
Spec == Init /\ [][Next]_vars /\ WF_vars(WriterStep) /\ \A r \in Readers : WF_vars(ReaderStep(r))
---------------------------------------------------------------------------
(* The list is never empty and what readers load is what the writer has;   *)
(* segments keep within their size and commits behind the reads.           *)
TypeOK ==
  /\ next \in 0..MaxOffset /\ list # {} /\ list \subseteq DOMAIN file /\ published \subseteq list
  /\ \A b \in DOMAIN file : end[b] \in b..(b + PerSegment)
  /\ \A r \in Readers : committed[r] <= reader[r].offset

(* A reader finds the segment of every offset below next_offset, and its   *)
(* file, whatever the writer rotates and compacts meanwhile.               *)
SegmentFound == \A r \in Readers : reader[r].at \notin {"panic", "lost"}

(* What a reader reads at an offset is the record append returned that     *)
(* offset for, however the reads, appends, rotations and compactions       *)
(* interleave, unless a write failed in that segment, before the record.   *)
ReadsRecord == \A r \in Readers : reader[r].at = "garbage" => PastTorn(reader[r])

(* A record that was appended is read by everyone in the end, or a failed  *)
(* write stops the reader before it.                                       *)
ReadersCatchUp ==
  \A r \in Readers : \A o \in 1..MaxOffset :
    next >= o ~> reader[r].offset >= o \/ reader[r].at = "garbage"
=============================================================================
