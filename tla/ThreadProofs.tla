---------------------------- MODULE ThreadProofs ----------------------------
(***************************************************************************)
(* Writer and readers of a topic in their threads: for any number of       *)
(* readers, any segment size and any number of records, the order in which *)
(* they load and store keeps every record readable.  The processes of a    *)
(* workspace: what lock and directory say of each other.                   *)
(***************************************************************************)
EXTENDS TopicThreads, TLAPS

(* A leaf is tried with Zenon, then with SMT; those that need arithmetic   *)
(* or are too large for Zenon name SMT.                                    *)
USE ZenonT(10), SMTT(20)

WriterAt == {"idle", "rotate", "load", "cut", "write", "end", "next"}
ReaderAt == {"idle", "position", "tail", "list", "find", "open", "read", "panic", "lost", "garbage"}

Types ==
  /\ DOMAIN file \in SUBSET Nat
  /\ file \in [DOMAIN file -> [records : Nat, torn : Int]]
  /\ end \in [DOMAIN file -> Nat]
  /\ list \in SUBSET DOMAIN file /\ published = list
  /\ next \in Nat /\ committed \in [Readers -> Nat]
  /\ writer \in [at : WriterAt, offset : Nat, through : Int, loads : SUBSET Readers]
  /\ reader \in [Readers -> [at : ReaderAt, offset : Nat, segment : Int, snapshot : SUBSET DOMAIN file]]

(* The writer at each of its steps; what compaction has loaded is still    *)
(* a lower bound when it cuts.                                             *)
WriterInv ==
  /\ Active \in list /\ \A b \in DOMAIN file : b <= Active
  /\ next = writer.offset /\ next <= MaxOffset /\ (writer.at # "idle" => next < MaxOffset)
  /\ end[Active] = IF writer.at = "next" THEN next + 1 ELSE next
  /\ Active <= next /\ (writer.at = "rotate" => Active < next)
  /\ writer.at \in {"load", "cut"} => Active = next
  /\ writer.at \in {"write", "end"} => next < Active + PerSegment
  /\ \A b \in DOMAIN file : b <= end[b] /\ end[b] <= b + PerSegment
  /\ writer.at = "load" => \A r \in Readers \ writer.loads : writer.through # Nothing /\ writer.through <= committed[r]
  /\ writer.at = "cut" => \A r \in Readers : writer.through <= committed[r]

(* A file has the records its end_offset says. *)
Content ==
  /\ \A b \in DOMAIN file : end[b] <= b + file[b].records
  /\ writer.at = "end" => next < Active + file[Active].records

(* Every published record that some consumer has not committed is listed. *)
Covered ==
  \A r \in Readers, o \in Nat :
    committed[r] <= o /\ o < next => \E b \in list : b <= o /\ o < end[b]

(* A reader r that is at s. *)
MayBeAt(r, s) ==
  /\ committed[r] <= s.offset
  /\ s.segment # Nothing => s.segment \in DOMAIN file /\ s.segment <= s.offset
  /\ s.at \in {"tail", "open", "read", "garbage"} => s.segment # Nothing
  /\ s.at \in {"open", "read"} => s.offset < end[s.segment]
  /\ s.at = "list" => s.offset < next
  /\ s.at = "find" => \E b \in s.snapshot : b <= s.offset /\ s.offset < end[b]
  /\ s.at \notin {"panic", "lost"}
  /\ s.at = "garbage" => PastTorn(s)

ReaderInv == \A r \in Readers : MayBeAt(r, reader[r])

Inv == Types /\ WriterInv /\ Content /\ Covered /\ ReaderInv
---------------------------------------------------------------------------
(* A greatest base in the list is the active segment. *)
LEMMA ActiveIs ==
  ASSUME NEW S \in SUBSET Nat, NEW m \in S, \A c \in S : c <= m
  PROVE  (CHOOSE b \in S : \A c \in S : c <= b) = m
<1> DEFINE x == CHOOSE b \in S : \A c \in S : c <= b
<1>1. x \in S /\ \A c \in S : c <= x
  BY Zenon
<1>2. x <= m /\ m <= x
  BY <1>1, Zenon
<1>3. x \in Nat /\ m \in Nat
  BY <1>1, Zenon
<1> HIDE DEF x
<1>4. x = m
  BY <1>2, <1>3, SMTT(20)
<1> QED BY <1>4 DEF x

(* The initial state: an empty first segment and idle threads. *)
LEMMA InitInv == Init => Inv
<1> SUFFICES ASSUME Init PROVE Inv
  OBVIOUS
<1> USE ThreadsAssumption DEF Init, At, Nothing
<1>1. Types
  BY SMTT(20) DEF Types, WriterAt, ReaderAt
<1>2. Active = 0
  BY ActiveIs, SMTT(20) DEF Active
<1>3. WriterInv
  BY <1>2, SMTT(20) DEF WriterInv
<1>4. Content /\ Covered /\ ReaderInv
  BY SMTT(20) DEF Content, Covered, ReaderInv, MayBeAt, PastTorn
<1> QED BY <1>1, <1>3, <1>4 DEF Inv

ReaderType == [at : ReaderAt, offset : Nat, segment : Int, snapshot : SUBSET DOMAIN file]

(* Steps of a reader leave the rest alone, so only its own part of the     *)
(* invariant is to be shown.                                               *)
LEMMA ReaderOnly ==
  ASSUME Inv, OnlyReader, NEW r \in Readers, NEW s, Moves(r, s), s \in ReaderType, MayBeAt(r, s)
  PROVE  Inv'
<1>1. Types'
  BY DEF Inv, Types, OnlyReader, Moves, ReaderType
<1>2. Active' = Active
  BY DEF Active, OnlyReader
<1>3. WriterInv'
  BY <1>2 DEF Inv, WriterInv, OnlyReader
<1>4. Content' /\ Covered'
  BY <1>2 DEF Inv, Content, Covered, OnlyReader
<1>5. \A q \in Readers : reader'[q] = IF q = r THEN s ELSE reader[q]
  BY DEF Moves, Inv, Types
<1>6. ReaderInv'
  BY <1>5, SMTT(20) DEF Inv, ReaderInv, MayBeAt, PastTorn, OnlyReader
<1> QED BY <1>1, <1>3, <1>4, <1>6 DEF Inv

(* A reader's steps: its segment is found, its file is there, the record   *)
(* is in it.                                                               *)
LEMMA ReaderKeeps ==
  ASSUME Inv, NEW r \in Readers, ReaderStep(r)
  PROVE  Inv'
<1> DEFINE s == reader[r]
<1>0. /\ s \in ReaderType /\ MayBeAt(r, s)
      /\ committed[r] \in Nat /\ next \in Nat /\ DOMAIN file \in SUBSET Nat /\ end \in [DOMAIN file -> Nat]
  BY DEF Inv, Types, ReaderInv, ReaderType
<1>t. s \in [at : ReaderAt, offset : Nat, segment : Int, snapshot : SUBSET DOMAIN file]
  BY <1>0 DEF ReaderType
<1> HIDE DEF s
<1> USE DEF ReaderAt, ReaderType, MayBeAt, Nothing
<1>1. CASE Next_(r)
  <2> DEFINE t == [s EXCEPT !.at = IF s.segment = Nothing THEN "position"
                                   ELSE IF s.offset < end[s.segment] THEN "read" ELSE "tail"]
  <2>1. s.at = "idle" /\ Moves(r, t) /\ OnlyReader
    BY <1>1 DEF Next_, s
  <2>2. t \in ReaderType /\ MayBeAt(r, t)
    BY <1>0, <2>1
  <2> QED BY <2>1, <2>2, ReaderOnly
<1>2. CASE Tail(r)
  <2>1. OnlyReader
    BY <1>2 DEF Tail
  <2>2. CASE s.offset >= next
    <3> DEFINE t == [s EXCEPT !.at = "idle"]
    <3>1. Moves(r, t)
      BY <1>2, <2>2 DEF Tail, s
    <3>2. t \in ReaderType /\ MayBeAt(r, t)
      BY <1>0
    <3> QED BY <2>1, <3>1, <3>2, ReaderOnly
  <2>3. CASE ~(s.offset >= next)
    <3> DEFINE t == [s EXCEPT !.at = "position", !.segment = Nothing]
    <3>1. Moves(r, t)
      BY <1>2, <2>3 DEF Tail, s
    <3>2. t \in ReaderType
      <4>1. Nothing \in Int /\ "position" \in ReaderAt
        BY SMTT(20)
      <4> HIDE DEF Nothing, ReaderAt, MayBeAt
      <4> QED BY <1>t, <4>1, Zenon
    <3>3. t.at = "position" /\ t.offset = s.offset /\ t.segment = Nothing
      BY <1>0
    <3> HIDE DEF t
    <3>4. MayBeAt(r, t)
      BY <1>0, <3>3
    <3> QED BY <2>1, <3>1, <3>2, <3>4, ReaderOnly
  <2> QED BY <2>2, <2>3
<1>3. CASE Position(r)
  <2> DEFINE t == [s EXCEPT !.at = IF s.offset >= next THEN "idle" ELSE "list"]
  <2>1. Moves(r, t) /\ OnlyReader
    BY <1>3 DEF Position, s
  <2>2. t \in ReaderType /\ MayBeAt(r, t)
    BY <1>0, SMTT(20)
  <2> QED BY <2>1, <2>2, ReaderOnly
<1>4. CASE LoadList(r)
  <2> DEFINE t == [s EXCEPT !.at = "find", !.snapshot = published]
  <2>1. s.at = "list" /\ Moves(r, t) /\ OnlyReader
    BY <1>4 DEF LoadList, s
  <2>2. published = list /\ list \in SUBSET DOMAIN file
    BY DEF Inv, Types
  <2>3. \E b \in published : b <= s.offset /\ s.offset < end[b]
    <3>1. s.offset \in Nat /\ committed[r] <= s.offset /\ s.offset < next
      BY <1>0, <2>1
    <3> QED BY <2>2, <3>1 DEF Inv, Covered
  <2>4. t \in ReaderType /\ MayBeAt(r, t)
    BY <1>0, <2>1, <2>2, <2>3, Zenon
  <2> QED BY <2>1, <2>4, ReaderOnly, Zenon
<1>5. CASE Find(r)
  <2> DEFINE t == [s EXCEPT !.at = "open", !.segment = CHOOSE b \in Found(r) : TRUE]
  <2>1. s.at = "find" /\ OnlyReader
    BY <1>5 DEF Find, s
  <2>2. Found(r) # {} /\ Found(r) \subseteq s.snapshot
    BY <1>0, <2>1 DEF Found, s
  <2>3. t.segment \in Found(r)
    BY <1>0, <2>2
  <2>4. Moves(r, t)
    BY <1>5, <2>2 DEF Find, s
  <2>5. t.segment \in s.snapshot /\ t.segment <= s.offset /\ s.offset < end[t.segment]
    BY <2>3, Zenon DEF Found, s
  <2>6. t.at = "open" /\ t.offset = s.offset /\ t.snapshot = s.snapshot /\ t.segment \in DOMAIN file
    BY <1>0, <2>5
  <2>7. t \in ReaderType
    <3>1. t.segment \in Int
      BY <1>0, <2>6, SMTT(20)
    <3> QED BY <1>0, <3>1, Zenon
  <2> HIDE DEF t
  <2>8. MayBeAt(r, t)
    BY <1>0, <2>5, <2>6, SMTT(20)
  <2> QED BY <2>1, <2>4, <2>7, <2>8, ReaderOnly
<1>6. CASE OpenFile(r)
  <2> DEFINE t == [s EXCEPT !.at = "read", !.snapshot = {}]
  <2>1. s.at = "open" /\ OnlyReader
    BY <1>6 DEF OpenFile, s
  <2>2. FileThere(s.segment)
    BY <1>0, <2>1 DEF FileThere, Held, s
  <2>3. Moves(r, t)
    BY <1>6, <2>2 DEF OpenFile, s
  <2>4. t \in ReaderType /\ MayBeAt(r, t)
    BY <1>0, <2>1, Zenon
  <2> QED BY <2>1, <2>3, <2>4, ReaderOnly, Zenon
<1>7. CASE Read(r)
  <2>1. s.at = "read" /\ OnlyReader
    BY <1>7 DEF Read, s
  <2>2. Readable(s) \/ PastTorn(s)
    <3>1. s.segment \in DOMAIN file /\ s.offset < end[s.segment] /\ s.segment \in Nat /\ s.offset \in Nat
      BY <1>0, <2>1
    <3>2. end[s.segment] \in Nat /\ file[s.segment].records \in Nat
      BY <3>1 DEF Inv, Types
    <3>3. end[s.segment] <= s.segment + file[s.segment].records
      BY <3>1 DEF Inv, Content
    <3> QED BY <3>1, <3>2, <3>3, SMTT(20) DEF Readable
  <2>3. CASE Readable(s)
    <3> DEFINE t == [s EXCEPT !.at = "idle", !.offset = @ + 1]
    <3>1. Moves(r, t)
      BY <1>7, <2>3 DEF Read, s
    <3>2. t \in ReaderType
      <4>1. s.offset + 1 \in Nat /\ "idle" \in ReaderAt
        BY <1>t, SMTT(20)
      <4> HIDE DEF Nothing, ReaderAt, MayBeAt
      <4> QED BY <1>t, <4>1, Zenon
    <3>3. t.at = "idle" /\ t.offset = s.offset + 1 /\ t.segment = s.segment
      BY <1>0
    <3> HIDE DEF t
    <3>4. MayBeAt(r, t)
      BY <1>0, <3>3, SMTT(20)
    <3> QED BY <2>1, <3>1, <3>2, <3>4, ReaderOnly
  <2>4. CASE ~Readable(s)
    <3> DEFINE t == [s EXCEPT !.at = "garbage"]
    <3>1. Moves(r, t)
      BY <1>7, <2>4 DEF Read, s
    <3>2. t \in ReaderType /\ MayBeAt(r, t)
      BY <1>0, <2>1, <2>2, <2>4 DEF PastTorn
    <3> QED BY <2>1, <3>1, <3>2, ReaderOnly
  <2> QED BY <2>3, <2>4
<1> QED BY <1>1, <1>2, <1>3, <1>4, <1>5, <1>6, <1>7 DEF ReaderStep
---------------------------------------------------------------------------
(* What the invariant says of the writer, with the types the provers need. *)
LEMMA WriterFacts ==
  ASSUME Inv
  PROVE  /\ Active \in list /\ Active \in DOMAIN file /\ Active \in Nat /\ end[Active] \in Nat
         /\ next \in Nat /\ writer.offset = next /\ next <= MaxOffset
         /\ writer.at \in WriterAt /\ writer.loads \in SUBSET Readers /\ writer.through \in Int
BY DEF Inv, Types, WriterInv

(* Steps of the writer that only grow the ends of segments, the records    *)
(* and the files move no reader.                                           *)
LEMMA ReadersStay ==
  ASSUME Inv, Types', UNCHANGED <<committed, reader>>, next <= next',
         DOMAIN file \subseteq DOMAIN file', \A b \in DOMAIN file : end[b] <= end'[b],
         \A b \in DOMAIN file : file[b].torn # Nothing => file'[b].torn = file[b].torn
  PROVE  ReaderInv'
<1> SUFFICES ASSUME NEW r \in Readers PROVE MayBeAt(r, reader[r])'
  BY DEF ReaderInv
<1> DEFINE s == reader[r]
<1>1. s \in ReaderType /\ MayBeAt(r, s) /\ s' = s /\ committed' = committed
  BY DEF Inv, Types, ReaderInv, ReaderType
<1>2. \A b \in DOMAIN file : b \in DOMAIN file' /\ end[b] \in Nat /\ end'[b] \in Nat /\ end[b] <= end'[b]
  BY DEF Inv, Types
<1>3. next \in Nat /\ next' \in Nat /\ next <= next'
  BY DEF Inv, Types
<1> HIDE DEF s
<1>4. s.offset \in Nat /\ s.snapshot \subseteq DOMAIN file
  BY <1>1 DEF ReaderType
<1>5. MayBeAt(r, s)'
  BY <1>1, <1>2, <1>3, <1>4, SMTT(20) DEF MayBeAt, PastTorn, ReaderType
<1> QED BY <1>5 DEF s

(* append begins, rotating first when the active segment is full. *)
LEMMA AppendKeeps == ASSUME Inv, Append PROVE Inv'
<1> USE ThreadsAssumption, WriterFacts DEF Append, Nothing
<1>1. Active' = Active
  BY DEF Active
<1>2. Types'
  BY DEF Inv, Types, WriterAt
<1>3. WriterInv'
  BY <1>1, SMTT(20) DEF Inv, Types, WriterInv
<1>4. Content' /\ Covered'
  BY <1>1 DEF Inv, Types, Content, Covered
<1>5. ReaderInv'
  BY DEF Inv, ReaderInv, MayBeAt, PastTorn
<1> QED BY <1>2, <1>3, <1>4, <1>5 DEF Inv

(* compact loads the consumers' committed offsets, which only grow. *)
LEMMA LoadKeeps == ASSUME Inv, LoadCommitted PROVE Inv'
<1> USE ThreadsAssumption, WriterFacts DEF Nothing
<1>0. PICK r \in writer.loads :
        writer' = [writer EXCEPT !.loads = @ \ {r},
                                 !.through = IF @ = Nothing \/ committed[r] < @ THEN committed[r] ELSE @,
                                 !.at = IF writer.loads = {r} THEN "cut" ELSE "load"]
  BY Zenon DEF LoadCommitted
<1>1. writer.at = "load" /\ UNCHANGED <<file, end, marked, list, published, next, committed, reader>>
  BY DEF LoadCommitted
<1>2. Active' = Active
  BY <1>1 DEF Active
<1>3. r \in Readers /\ committed[r] \in Nat
  BY DEF Inv, Types
<1>4. writer' \in [at : WriterAt, offset : Nat, through : Int, loads : SUBSET Readers]
  <2> DEFINE th == IF writer.through = Nothing \/ committed[r] < writer.through THEN committed[r] ELSE writer.through
             pc == IF writer.loads = {r} THEN "cut" ELSE "load"
  <2>1. th \in Int /\ pc \in WriterAt /\ writer.loads \ {r} \in SUBSET Readers
    BY <1>3, SMTT(20) DEF WriterAt
  <2>2. writer \in [at : WriterAt, offset : Nat, through : Int, loads : SUBSET Readers]
    BY DEF Inv, Types
  <2>3. writer' = [writer EXCEPT !.loads = writer.loads \ {r}, !.through = th, !.at = pc]
    BY <1>0, <2>2
  <2> HIDE DEF th, pc
  <2> QED BY <2>1, <2>2, <2>3, Zenon
<1>5. Types'
  BY <1>1, <1>4 DEF Inv, Types
<1>6. /\ writer'.at = IF writer.loads = {r} THEN "cut" ELSE "load"
      /\ writer'.loads = writer.loads \ {r} /\ writer'.offset = writer.offset
      /\ writer'.through = IF writer.through = Nothing \/ committed[r] < writer.through THEN committed[r] ELSE writer.through
  BY <1>0 DEF Inv, Types
<1>7. \A q \in Readers \ writer'.loads : writer'.through # Nothing /\ writer'.through <= committed[q]
  BY <1>1, <1>3, <1>6, SMTT(20) DEF Inv, Types, WriterInv
<1>8. WriterInv'
  BY <1>1, <1>2, <1>3, <1>6, <1>7 DEF Inv, Types, WriterInv
<1>9. Content' /\ Covered'
  BY <1>1, <1>2, <1>6 DEF Inv, Types, Content, Covered
<1>10. ReaderInv'
  BY <1>1 DEF Inv, ReaderInv, MayBeAt, PastTorn
<1> QED BY <1>5, <1>8, <1>9, <1>10 DEF Inv

(* The record is written. *)
LEMMA WriteKeeps == ASSUME Inv, Write PROVE Inv'
<1> USE ThreadsAssumption, WriterFacts DEF Write, Nothing
<1>1. Active' = Active
  BY DEF Active
<1>2. DOMAIN file' = DOMAIN file /\ file' \in [DOMAIN file -> [records : Nat, torn : Int]]
  BY SMTT(20) DEF Inv, Types
<1>3. Types'
  BY <1>2, Zenon DEF Inv, Types, WriterAt
<1>4. WriterInv'
  BY <1>1, <1>2 DEF Inv, Types, WriterInv
<1>5. Content' /\ Covered'
  BY <1>1, <1>2, SMTT(20) DEF Inv, Types, WriterInv, Content, Covered
<1>6. ReaderInv'
  BY <1>2 DEF Inv, ReaderInv, MayBeAt, PastTorn
<1> QED BY <1>3, <1>4, <1>5, <1>6 DEF Inv

(* A failing write, where writes may fail. *)
LEMMA WriteFailsKeeps == ASSUME Inv, WriteFails PROVE Inv'
<1> USE ThreadsAssumption, WriterFacts DEF WriteFails, Nothing
<1>1. Active' = Active
  BY DEF Active
<1>2. DOMAIN file' = DOMAIN file /\ file' \in [DOMAIN file -> [records : Nat, torn : Int]]
  BY SMTT(20) DEF Inv, Types
<1>3. Types'
  BY <1>2 DEF Inv, Types, WriterAt
<1>4. WriterInv'
  BY <1>1, <1>2 DEF Inv, Types, WriterInv
<1>5. Content' /\ Covered'
  BY <1>1, <1>2, SMTT(20), ZenonT(20) DEF Inv, Types, Content, Covered
<1>6. ReaderInv'
  BY <1>2 DEF Inv, ReaderInv, MayBeAt, PastTorn
<1> QED BY <1>3, <1>4, <1>5, <1>6 DEF Inv

(* end_offset is stored before next_offset: the record is in a segment     *)
(* before anyone looks for it.                                             *)
LEMMA StoreEndKeeps == ASSUME Inv, StoreEnd PROVE Inv'
<1> USE ThreadsAssumption, WriterFacts DEF StoreEnd, Nothing
<1>1. Active' = Active
  BY DEF Active
<1>2. Types'
  <2>1. end' \in [DOMAIN file -> Nat]
    BY SMTT(20) DEF Inv, Types
  <2>2. writer' \in [at : WriterAt, offset : Nat, through : Int, loads : SUBSET Readers]
    BY DEF Inv, Types, WriterAt
  <2> QED BY <2>1, <2>2 DEF Inv, Types
<1>3. \A b \in DOMAIN file : end'[b] = IF b = Active THEN next + 1 ELSE end[b]
  BY DEF Inv, Types
<1>4. end[Active] = next /\ \A b \in DOMAIN file : end[b] \in Nat /\ end[b] <= end'[b]
  BY <1>3, SMTT(20) DEF Inv, Types, WriterInv
<1>5. WriterInv'
  BY <1>1, <1>3, SMTT(20) DEF Inv, Types, WriterInv
<1>6. Content'
  BY <1>1, <1>3, SMTT(20) DEF Inv, Types, Content
<1>7. Covered'
  BY <1>4, <1>2, SMTT(20) DEF Inv, Types, Covered
<1>8. ReaderInv'
  BY <1>2, <1>4, ReadersStay, SMTT(20)
<1> QED BY <1>2, <1>5, <1>6, <1>7, <1>8 DEF Inv

(* Storing next_offset publishes a record the active segment covers. *)
LEMMA StoreNextKeeps == ASSUME Inv, StoreNext PROVE Inv'
<1> USE ThreadsAssumption, WriterFacts DEF StoreNext, At, Nothing
<1>1. Active' = Active
  BY DEF Active
<1>2. Types'
  BY SMTT(20) DEF Inv, Types, WriterAt
<1>3. WriterInv'
  BY <1>1, SMTT(20) DEF Inv, Types, WriterInv
<1>4. Content'
  BY <1>1 DEF Inv, Types, Content
<1>5. Covered'
  <2>1. end[Active] = next + 1 /\ Active <= next
    BY DEF Inv, WriterInv
  <2> QED BY <2>1, SMTT(20) DEF Inv, Types, Covered
<1>6. ReaderInv'
  BY <1>2, ReadersStay, SMTT(20) DEF Inv, Types
<1> QED BY <1>2, <1>3, <1>4, <1>5, <1>6 DEF Inv
(* The new segment begins where the active one ends, above every file. *)
LEMMA RotateKeeps == ASSUME Inv, Rotate PROVE Inv'
<1> USE ThreadsAssumption, WriterFacts DEF Nothing
<1>1. /\ writer.at = "rotate" /\ UNCHANGED <<marked, next, committed, reader>>
      /\ list' = list \union {next} /\ published' = list'
      /\ writer' = [writer EXCEPT !.at = "load", !.through = Nothing, !.loads = Readers]
  BY DEF Rotate
<1>2. Active < next /\ end[Active] = next /\ \A b \in DOMAIN file : b \in Nat /\ b <= Active
  BY <1>1 DEF Inv, Types, WriterInv
<1>3. next \notin DOMAIN file
  BY <1>2, SMTT(20)
<1>4. /\ DOMAIN file' = DOMAIN file \union {next} /\ DOMAIN end' = DOMAIN file'
      /\ file'[next] = [records |-> 0, torn |-> Nothing] /\ end'[next] = next
      /\ \A b \in DOMAIN file : file'[b] = file[b] /\ end'[b] = end[b]
  BY <1>3 DEF Rotate, Inv, Types
<1>5. Types'
  <2>1. DOMAIN file' \in SUBSET Nat /\ list' \in SUBSET DOMAIN file'
    BY <1>1, <1>4 DEF Inv, Types
  <2>2. file' \in [DOMAIN file' -> [records : Nat, torn : Int]]
    <3>1. file' = [b \in DOMAIN file' |-> file'[b]]
      BY DEF Rotate
    <3>2. \A b \in DOMAIN file' : file'[b] \in [records : Nat, torn : Int]
      BY <1>4, SMTT(20) DEF Inv, Types
    <3> QED BY <3>1, <3>2
  <2>3. end' \in [DOMAIN file' -> Nat]
    <3>1. end' = [b \in DOMAIN end' |-> end'[b]]
      BY DEF Rotate
    <3>2. \A b \in DOMAIN file' : end'[b] \in Nat
      BY <1>4 DEF Inv, Types
    <3> QED BY <1>4, <3>1, <3>2
  <2>4. writer' \in [at : WriterAt, offset : Nat, through : Int, loads : SUBSET Readers]
    <3>1. Nothing \in Int /\ "load" \in WriterAt
      BY SMTT(20) DEF WriterAt
    <3>2. writer \in [at : WriterAt, offset : Nat, through : Int, loads : SUBSET Readers]
      BY DEF Inv, Types
    <3> HIDE DEF Nothing
    <3> QED BY <1>1, <3>1, <3>2, Zenon
  <2>5. reader' \in [Readers -> [at : ReaderAt, offset : Nat, segment : Int, snapshot : SUBSET DOMAIN file']]
    <3>1. \A r \in Readers : reader[r] \in [at : ReaderAt, offset : Nat, segment : Int, snapshot : SUBSET DOMAIN file']
      BY <1>4 DEF Inv, Types
    <3> QED BY <1>1, <3>1 DEF Inv, Types
  <2> QED BY <1>1, <2>1, <2>2, <2>3, <2>4, <2>5 DEF Inv, Types
<1>6. Active' = next
  <2>1. list' \in SUBSET Nat /\ next \in list' /\ \A c \in list' : c <= next
    BY <1>1, <1>2, SMTT(20) DEF Inv, Types
  <2> QED BY <2>1, ActiveIs DEF Active
<1>7. WriterInv'
  <2>1. writer'.at = "load" /\ writer'.loads = Readers /\ writer'.offset = next /\ next' = next
    BY <1>1 DEF Inv, Types
  <2>2. \A b \in DOMAIN file' : b <= next /\ b <= end'[b] /\ end'[b] <= b + PerSegment
    BY <1>2, <1>4, SMTT(20) DEF Inv, WriterInv
  <2>3. next < MaxOffset /\ next \in list'
    BY <1>1 DEF Inv, WriterInv
  <2> QED BY <1>4, <1>6, <2>1, <2>2, <2>3 DEF WriterInv
<1>8. Content'
  <2>1. writer'.at = "load"
    BY <1>1 DEF Inv, Types
  <2> QED BY <1>4, <2>1, SMTT(20) DEF Inv, Types, Content
<1>9. Covered'
  BY <1>1, <1>4 DEF Inv, Types, Covered
<1>10. ReaderInv'
  <2>1. \A b \in DOMAIN file : end[b] \in Nat /\ end[b] <= end'[b]
    BY <1>4, SMTT(20) DEF Inv, Types
  <2> QED BY <1>1, <1>4, <1>5, <2>1, ReadersStay, SMTT(20)
<1> QED BY <1>5, <1>7, <1>8, <1>9, <1>10 DEF Inv

(* What is cut ends at or below every committed offset. *)
LEMMA CutKeeps == ASSUME Inv, Cut PROVE Inv'
<1> USE ThreadsAssumption, WriterFacts DEF Nothing
<1>1. /\ writer.at = "cut" /\ UNCHANGED <<file, end, next, committed, reader>>
      /\ list' = list \ Removable(writer.through) /\ published' = list'
      /\ writer' = [writer EXCEPT !.at = "write"]
  BY DEF Cut
<1>2. Active \in list' /\ list' \subseteq list
  BY <1>1 DEF Removable
<1>3. Active' = Active
  <2>1. list' \in SUBSET Nat /\ \A c \in list' : c <= Active
    BY <1>2 DEF Inv, Types, WriterInv
  <2> QED BY <1>2, <2>1, ActiveIs, Zenon DEF Active
<1>4. Types'
  BY <1>1, <1>2 DEF Inv, Types, WriterAt
<1>5. WriterInv'
  BY <1>1, <1>2, <1>3, SMTT(20) DEF Inv, Types, WriterInv
<1>6. Content'
  BY <1>1, <1>3 DEF Inv, Types, Content
<1>7. Covered'
  <2> SUFFICES ASSUME NEW r \in Readers, NEW o \in Nat, committed[r] <= o, o < next
               PROVE  \E b \in list' : b <= o /\ o < end[b]
    BY <1>1 DEF Covered
  <2>1. PICK b \in list : b <= o /\ o < end[b]
    BY DEF Inv, Covered
  <2>2. writer.through <= committed[r] /\ committed[r] \in Nat /\ end[b] \in Nat
    BY <1>1 DEF Inv, Types, WriterInv
  <2>3. b \notin Removable(writer.through)
    BY <2>1, <2>2, SMTT(20) DEF Removable
  <2> QED BY <1>1, <2>1, <2>3
<1>8. ReaderInv'
  BY <1>1 DEF Inv, ReaderInv, MayBeAt, PastTorn
<1> QED BY <1>4, <1>5, <1>6, <1>7, <1>8 DEF Inv

(* A commit raises a consumer's offset, also while compaction loads them. *)
LEMMA CommitKeeps == ASSUME Inv, NEW r \in Readers, Commit(r) PROVE Inv'
<1> USE ThreadsAssumption, WriterFacts DEF Nothing
<1>1. UNCHANGED <<file, end, marked, list, published, next, writer, reader>>
  BY DEF Commit
<1>2. reader[r].offset \in Nat /\ committed[r] <= reader[r].offset
  BY DEF Inv, Types, ReaderInv, MayBeAt, PastTorn
<1>3. \A q \in Readers : committed'[q] = IF q = r THEN reader[r].offset ELSE committed[q]
  BY DEF Commit, Inv, Types
<1>4. \A q \in Readers : committed[q] \in Nat /\ committed'[q] \in Nat /\ committed[q] <= committed'[q]
  BY <1>2, <1>3, SMTT(20) DEF Inv, Types
<1>5. Active' = Active
  BY <1>1 DEF Active
<1>6. Types'
  BY <1>1, <1>2 DEF Commit, Inv, Types
<1>7. WriterInv'
  BY <1>1, <1>4, <1>5, SMTT(20) DEF Inv, Types, WriterInv
<1>8. Content'
  BY <1>1, <1>5 DEF Inv, Content
<1>9. Covered'
  BY <1>1, <1>4, SMTT(20) DEF Inv, Types, Covered
<1>10. ReaderInv'
  BY <1>1, <1>2, <1>3, SMTT(20) DEF Inv, ReaderInv, MayBeAt, PastTorn
<1> QED BY <1>6, <1>7, <1>8, <1>9, <1>10 DEF Inv
---------------------------------------------------------------------------
(* Every step of writer and readers keeps the invariant. *)
THEOREM ThreadsInvariant == Spec => []Inv
<1>1. Inv /\ [Next]_vars => Inv'
  <2> SUFFICES ASSUME Inv, [Next]_vars PROVE Inv'
    OBVIOUS
  <2>1. CASE Append
    BY <2>1, AppendKeeps
  <2>2. CASE WriterStep
    BY <2>2, RotateKeeps, LoadKeeps, CutKeeps, WriteKeeps, WriteFailsKeeps, StoreEndKeeps, StoreNextKeeps DEF WriterStep
  <2>3. CASE \E r \in Readers : ReaderStep(r)
    BY <2>3, ReaderKeeps
  <2>4. CASE \E r \in Readers : Commit(r)
    BY <2>4, CommitKeeps
  <2>5. CASE UNCHANGED vars
    <3>1. Active' = Active
      BY <2>5 DEF Active, vars
    <3> QED BY <2>5, <3>1 DEF vars, Inv, Types, WriterInv, Content, Covered, ReaderInv, MayBeAt, PastTorn
  <2> QED BY <2>1, <2>2, <2>3, <2>4, <2>5 DEF Next
<1> QED BY <1>1, InitInv, PTL DEF Spec

(* TypeOK of TopicThreads for every instance. *)
THEOREM ThreadsTypeOK == Spec => []TypeOK
<1>1. Inv => TypeOK
  BY ThreadsAssumption, SMTT(20) DEF Inv, Types, WriterInv, ReaderInv, MayBeAt, PastTorn, TypeOK
<1> QED BY <1>1, ThreadsInvariant, PTL

(* position() finds the segment of every offset below the next_offset it   *)
(* has loaded and its file, however rotation, compaction and commits fall  *)
(* between its loads, and whether or not writes fail.                      *)
THEOREM ThreadsSegmentFound == Spec => []SegmentFound
<1>1. Inv => SegmentFound
  BY DEF Inv, ReaderInv, MayBeAt, PastTorn, SegmentFound
<1> QED BY <1>1, ThreadsInvariant, PTL

(* next() reads whole records only, unless a write failed in the segment   *)
(* before the record.                                                      *)
THEOREM ThreadsReadsRecord == Spec => []ReadsRecord
<1>1. Inv => ReadsRecord
  BY DEF Inv, ReaderInv, MayBeAt, PastTorn, ReadsRecord
<1> QED BY <1>1, ThreadsInvariant, PTL
---------------------------------------------------------------------------
(* The directory of a workspace and its processes (Workspace). *)
CONSTANTS Processes, MaxId, Rejoins, Outlive
VARIABLES ids, disk, lock, session, handles

Ws == INSTANCE Workspace

(* The parts of a workspace directory, in their order. *)
LEMMA PartsAre ==
  /\ Ws!Needed = {"identity", "states", "declared", "devices", "catalog"}
  /\ Ws!After("identity") = "states" /\ Ws!After("states") = "declared" /\ Ws!After("declared") = "devices"
  /\ Ws!After("devices") = "catalog" /\ Ws!After("catalog") = "open"
<1>1. /\ Ws!Parts[1] = "identity" /\ Ws!Parts[2] = "states" /\ Ws!Parts[3] = "declared"
      /\ Ws!Parts[4] = "devices" /\ Ws!Parts[5] = "catalog"
  BY DEF Ws!Parts
<1>2. 1 .. 5 = {1, 2, 3, 4, 5}
  BY SMTT(20)
<1>3. Ws!Needed = {"identity", "states", "declared", "devices", "catalog"}
  BY <1>1, <1>2 DEF Ws!Needed
<1>4. ASSUME NEW i \in 1 .. 5 PROVE Ws!After(Ws!Parts[i]) = IF i = 5 THEN "open" ELSE Ws!Parts[i + 1]
  <2> DEFINE j == CHOOSE k \in 1 .. 5 : Ws!Parts[k] = Ws!Parts[i]
  <2>1. j \in 1 .. 5 /\ Ws!Parts[j] = Ws!Parts[i]
    <3>1. \E k \in 1 .. 5 : Ws!Parts[k] = Ws!Parts[i]
      OBVIOUS
    <3> QED BY <3>1, Zenon
  <2>2. \A k \in 1 .. 5 : Ws!Parts[k] = Ws!Parts[i] => k = i
    BY <1>1, <1>2, SMTT(20)
  <2>3. j = i
    BY <2>1, <2>2, Zenon
  <2>4. Ws!After(Ws!Parts[i]) = IF j = 5 THEN "open" ELSE Ws!Parts[j + 1]
    BY DEF Ws!After
  <2> QED BY <2>3, <2>4
<1>5. 1 \in 1 .. 5 /\ 2 \in 1 .. 5 /\ 3 \in 1 .. 5 /\ 4 \in 1 .. 5 /\ 5 \in 1 .. 5
  BY SMTT(20)
<1>6. /\ Ws!After(Ws!Parts[1]) = Ws!Parts[2] /\ Ws!After(Ws!Parts[2]) = Ws!Parts[3]
      /\ Ws!After(Ws!Parts[3]) = Ws!Parts[4] /\ Ws!After(Ws!Parts[4]) = Ws!Parts[5]
      /\ Ws!After(Ws!Parts[5]) = "open"
  BY <1>4, <1>5, SMTT(20)
<1> QED BY <1>1, <1>3, <1>6

(* Sessions are at a part, open or closed; locks and handles are of        *)
(* processes.                                                              *)
Sessions == [at : Ws!Needed \cup {"closed", "open"}, id : Nat]
WsTypes ==
  /\ ids \in Nat /\ disk \in [Ws!Needed -> Nat]
  /\ lock \in Processes \cup {0} /\ handles \in SUBSET Processes
  /\ session \in [Processes -> Sessions]

(* The steps of the processes keep the types. *)
LEMMA WsTypesKept == ASSUME WsTypes, [Ws!Next]_Ws!vars PROVE WsTypes'
<1>0. ASSUME NEW p \in Processes, NEW s \in Ws!Needed \cup {"closed", "open"}, NEW id \in Nat, Ws!Goes(p, s, id)
      PROVE  session' \in [Processes -> Sessions]
  BY <1>0 DEF Ws!Goes, WsTypes, Sessions
<1>1. ASSUME NEW p \in Processes, session' = [session EXCEPT ![p] = Ws!Closed]
      PROVE  session' \in [Processes -> Sessions]
  BY <1>1 DEF Ws!Closed, Ws!None, WsTypes, Sessions
<1>2. ASSUME NEW p \in Processes, Ws!Create(p) \/ Ws!Join(p) PROVE WsTypes'
  <2>1. /\ lock' = p /\ handles' = handles /\ ids' = ids + 1 /\ Ws!Goes(p, "states", ids')
        /\ disk' = [disk EXCEPT !["identity"] = ids']
    BY <1>2 DEF Ws!Create, Ws!Join, Ws!TryLock
  <2> QED BY <1>0, <2>1, PartsAre, SMTT(20) DEF WsTypes
<1>3. ASSUME NEW p \in Processes, Ws!Make(p) PROVE WsTypes'
  <2>1. session[p].at \in Ws!Needed /\ session[p].id \in Nat
    BY <1>3 DEF Ws!Make, WsTypes, Sessions
  <2>2. CASE Ws!Fails(p)
    BY <1>1, <2>2 DEF Ws!Fails, WsTypes, Ws!None
  <2>3. CASE /\ disk' = [disk EXCEPT ![session[p].at] = session[p].id]
             /\ Ws!Goes(p, Ws!After(session[p].at), session[p].id) /\ UNCHANGED <<ids, lock, handles>>
    <3>1. Ws!After(session[p].at) \in Ws!Needed \cup {"closed", "open"}
      BY <2>1, PartsAre
    <3> QED BY <1>0, <2>1, <2>3, <3>1 DEF WsTypes
  <2> QED BY <1>3, <2>2, <2>3 DEF Ws!Make
<1>4. ASSUME NEW p \in Processes, Ws!Open(p) PROVE WsTypes'
  <2>1. /\ lock' = p /\ UNCHANGED <<ids, disk, handles>> /\ Ws!Goes(p, "open", disk["identity"])
    BY <1>4 DEF Ws!Open, Ws!TryLock
  <2> QED BY <1>0, <2>1, PartsAre DEF WsTypes
<1>5. ASSUME NEW p \in Processes, Ws!Drop(p) \/ Ws!Crash(p) \/ Ws!Get(p) \/ Ws!Release(p) PROVE WsTypes'
  BY <1>1, <1>5 DEF Ws!Drop, Ws!Crash, Ws!Get, Ws!Release, WsTypes, Ws!None
<1>6. ASSUME Ws!Wipe PROVE WsTypes'
  BY <1>6 DEF Ws!Wipe, WsTypes, Ws!None
<1>7. ASSUME UNCHANGED Ws!vars PROVE WsTypes'
  BY <1>7 DEF Ws!vars, WsTypes
<1> QED BY <1>2, <1>3, <1>4, <1>5, <1>6, <1>7 DEF Ws!Next
---------------------------------------------------------------------------
(* What a session that is at s with an id has behind it. *)
MadeFor(d, s, id) ==
  /\ d["identity"] = id /\ id # 0
  /\ s \in {"declared", "devices", "catalog", "open"} => d["states"] = id
  /\ s \in {"devices", "catalog", "open"} => d["declared"] = id
  /\ s \in {"catalog", "open"} => d["devices"] = id
  /\ s = "open" => d["catalog"] = id

(* Whoever works on the directory has the lock; what is there was made for *)
(* one workspace, even when its creation was cut short.                    *)
WsInv ==
  /\ WsTypes
  /\ \A p \in Processes : session[p] # Ws!Closed => lock = p /\ MadeFor(disk, session[p].at, session[p].id)
  /\ \A part \in Ws!Needed : disk[part] \in {0, disk["identity"]}

(* What a step leaves to the process that has the lock. *)
LEMMA OthersClosed ==
  ASSUME WsInv, 0 \notin Processes, NEW p \in Processes, lock \in {0, p}, NEW q \in Processes, q # p
  PROVE  session[q] = Ws!Closed
BY DEF WsInv

(* While join is called on no directory that has a workspace, every part   *)
(* stays of one workspace.                                                 *)
LEMMA WsInvKept == ASSUME Rejoins = FALSE, 0 \notin Processes, WsInv, [Ws!Next]_Ws!vars PROVE WsInv'
<1> DEFINE Own == \A p \in Processes : session[p] # Ws!Closed => lock = p /\ MadeFor(disk, session[p].at, session[p].id)
           One == \A part \in Ws!Needed : disk[part] \in {0, disk["identity"]}
<1>0. WsTypes /\ WsTypes' /\ Own /\ One
  BY WsTypesKept DEF WsInv
<1>1. SUFFICES Own' /\ One'
  BY <1>0 DEF WsInv
<1>2. ASSUME NEW p \in Processes, Ws!Create(p) \/ Ws!Join(p) PROVE Own' /\ One'
  <2>1. /\ lock = 0 /\ lock' = p /\ ids' = ids + 1 /\ disk["identity"] = 0
        /\ session' = [session EXCEPT ![p] = [at |-> "states", id |-> ids']]
        /\ disk' = [disk EXCEPT !["identity"] = ids']
    BY <1>2 DEF Ws!Create, Ws!Join, Ws!TryLock, Ws!Goes, Ws!None
  <2>2. \A part \in Ws!Needed : disk[part] = 0
    BY <1>0, <2>1
  <2>3. disk'["identity"] = ids' /\ ids' # 0 /\ \A part \in Ws!Needed : part # "identity" => disk'[part] = 0
    BY <1>0, <2>1, <2>2, PartsAre, SMTT(20) DEF WsTypes
  <2>4. session'[p] = [at |-> "states", id |-> ids'] /\ \A q \in Processes : q # p => session'[q] = Ws!Closed
    BY <1>0, <2>1, OthersClosed DEF WsTypes
  <2>5. MadeFor(disk', "states", ids')
    BY <2>3 DEF MadeFor
  <2> QED BY <2>1, <2>3, <2>4, <2>5, SMTT(20)
<1>3. ASSUME NEW p \in Processes, session' = [session EXCEPT ![p] = Ws!Closed], disk' = disk,
             lock' = IF lock = p THEN 0 ELSE lock
      PROVE  Own' /\ One'
  <2>1. session'[p] = Ws!Closed /\ \A q \in Processes : q # p => session'[q] = session[q]
    BY <1>0, <1>3 DEF WsTypes
  <2>2. \A q \in Processes : session'[q] # Ws!Closed => lock' = q
    BY <1>0, <1>3, <2>1
  <2> QED BY <1>0, <1>3, <2>1, <2>2, SMTT(20) DEF MadeFor
<1>4. ASSUME NEW p \in Processes, Ws!Make(p) PROVE Own' /\ One'
  <2> DEFINE at == session[p].at
             id == session[p].id
  <2>1. at \in Ws!Needed /\ session[p] # Ws!Closed /\ id \in Nat
    BY <1>0, <1>4, PartsAre, SMTT(20) DEF Ws!Make, Ws!Closed, WsTypes, Sessions
  <2>2. lock = p /\ MadeFor(disk, at, id)
    BY <1>0, <2>1
  <2>3. CASE Ws!Fails(p)
    BY <1>3, <2>2, <2>3 DEF Ws!Fails, Ws!None
  <2>4. CASE disk' = [disk EXCEPT ![at] = id] /\ Ws!Goes(p, Ws!After(at), id) /\ UNCHANGED <<ids, lock, handles>>
    <3>1. disk["identity"] = id /\ id # 0
      BY <2>2 DEF MadeFor
    <3>2. disk'[at] = id /\ \A part \in Ws!Needed : part # at => disk'[part] = disk[part]
      BY <1>0, <2>1, <2>4 DEF WsTypes
    <3>3. disk'["identity"] = id
      BY <3>1, <3>2, PartsAre
    <3>4. One'
      BY <1>0, <3>1, <3>2, <3>3
    <3>5. MadeFor(disk', Ws!After(at), id)
      <4>1. "states" \in Ws!Needed /\ "declared" \in Ws!Needed /\ "devices" \in Ws!Needed /\ "catalog" \in Ws!Needed
        BY PartsAre
      <4>2. at \in {"identity", "states", "declared", "devices", "catalog"}
        BY <2>1, PartsAre
      <4> HIDE DEF at, id
      <4>3. /\ disk'["states"] = IF at = "states" THEN id ELSE disk["states"]
            /\ disk'["declared"] = IF at = "declared" THEN id ELSE disk["declared"]
            /\ disk'["devices"] = IF at = "devices" THEN id ELSE disk["devices"]
            /\ disk'["catalog"] = IF at = "catalog" THEN id ELSE disk["catalog"]
        BY <3>2, <4>1
      <4>4. SUFFICES ASSUME NEW s, s = Ws!After(at)
                     PROVE  /\ s \in {"declared", "devices", "catalog", "open"} => disk'["states"] = id
                            /\ s \in {"devices", "catalog", "open"} => disk'["declared"] = id
                            /\ s \in {"catalog", "open"} => disk'["devices"] = id
                            /\ s = "open" => disk'["catalog"] = id
        BY <3>1, <3>3 DEF MadeFor, at, id
      <4> QED BY <2>2, <4>2, <4>3, <4>4, PartsAre DEF MadeFor
    <3>6. session'[p] = [at |-> Ws!After(at), id |-> id] /\ \A q \in Processes : q # p => session'[q] = Ws!Closed
      BY <1>0, <2>2, <2>4, OthersClosed DEF WsTypes, Ws!Goes
    <3> HIDE DEF at, id
    <3> QED BY <2>2, <2>4, <3>4, <3>5, <3>6, SMTT(20)
  <2> QED BY <1>4, <2>3, <2>4 DEF Ws!Make
<1>5. ASSUME NEW p \in Processes, Ws!Open(p) PROVE Own' /\ One'
  <2>1. /\ lock = 0 /\ lock' = p /\ disk' = disk
        /\ session' = [session EXCEPT ![p] = [at |-> "open", id |-> disk["identity"]]]
        /\ \A part \in Ws!Needed : disk[part] # 0
    BY <1>5 DEF Ws!Open, Ws!TryLock, Ws!Goes, Ws!Complete, Ws!None
  <2>2. session'[p] = [at |-> "open", id |-> disk["identity"]] /\ \A q \in Processes : q # p => session'[q] = Ws!Closed
    BY <1>0, <2>1, OthersClosed DEF WsTypes
  <2>3. MadeFor(disk, "open", disk["identity"])
    BY <1>0, <2>1, PartsAre DEF MadeFor
  <2> QED BY <1>0, <2>1, <2>2, <2>3, SMTT(20) DEF MadeFor
<1>6. ASSUME UNCHANGED <<disk, lock, session>> PROVE Own' /\ One'
  BY <1>0, <1>6 DEF MadeFor
<1>7. ASSUME NEW p \in Processes, Ws!Drop(p) PROVE Own' /\ One'
  <2>1. session[p] # Ws!Closed
    BY <1>7, SMTT(20) DEF Ws!Drop, Ws!Closed
  <2>2. session' = [session EXCEPT ![p] = Ws!Closed] /\ disk' = disk /\ lock' = 0 /\ lock = p
    BY <1>0, <1>7, <2>1 DEF Ws!Drop, Ws!None
  <2> QED BY <1>3, <2>2
<1>8. ASSUME Ws!Wipe PROVE Own' /\ One'
  <2>1. (\A p \in Processes : session'[p] = Ws!Closed) /\ \A part \in Ws!Needed : disk'[part] = 0
    BY <1>8 DEF Ws!Wipe, Ws!None
  <2> QED BY <2>1
<1>9. ASSUME NEW p \in Processes, Ws!Crash(p) PROVE Own' /\ One'
  BY <1>3, <1>9 DEF Ws!Crash, Ws!None
<1>10. ASSUME NEW p \in Processes, Ws!Get(p) \/ Ws!Release(p) PROVE Own' /\ One'
  <2>1. UNCHANGED <<disk, lock, session>>
    BY <1>10 DEF Ws!Get, Ws!Release
  <2> QED BY <1>6, <2>1
<1>11. CASE UNCHANGED Ws!vars
  <2>1. UNCHANGED <<disk, lock, session>>
    BY <1>11 DEF Ws!vars
  <2> QED BY <1>6, <2>1
<1> QED BY <1>2, <1>4, <1>5, <1>7, <1>8, <1>9, <1>10, <1>11 DEF Ws!Next

(* A fresh directory. *)
LEMMA WsInit == Ws!Init => WsInv
BY PartsAre, SMTT(20) DEF Ws!Init, WsInv, WsTypes, Sessions, Ws!Closed, Ws!None

(* An open workspace is whole and all of it was made for its id, whatever  *)
(* creations were cut short before, however many processes create, join    *)
(* and open it (create refuses a directory with an identity; assemble;     *)
(* open), as long as join is called on no directory that has a workspace.  *)
THEOREM OneWorkspaceOpens ==
  ASSUME Rejoins = FALSE, 0 \notin Processes
  PROVE  Ws!Spec => []Ws!OneWorkspace
<1>1. WsInv => Ws!OneWorkspace
  <2> SUFFICES ASSUME WsInv, NEW p \in Processes, session[p].at = "open", NEW part \in Ws!Needed
               PROVE  disk[part] = session[p].id
    BY DEF Ws!OneWorkspace
  <2>1. session[p] # Ws!Closed
    BY SMTT(20) DEF Ws!Closed
  <2>2. MadeFor(disk, "open", session[p].id)
    BY <2>1 DEF WsInv
  <2> QED BY <2>2, PartsAre DEF MadeFor
<1> QED BY <1>1, WsInit, WsInvKept, PTL DEF Ws!Spec
---------------------------------------------------------------------------
(* The lock is held by the one process that has something open. *)
Owned == WsTypes /\ Ws!SingleOwner /\ \A p \in handles : session[p].at = "open"

(* While no handle outlives its Workspace, whoever has the lock has all    *)
(* that is open.                                                           *)
LEMMA OwnedKept == ASSUME Outlive = FALSE, 0 \notin Processes, Owned, [Ws!Next]_Ws!vars PROVE Owned'
<1>0. WsTypes /\ WsTypes' /\ Ws!SingleOwner /\ \A p \in handles : session[p].at = "open"
  BY WsTypesKept DEF Owned
<1> DEFINE Busy(p) == session[p] # Ws!Closed \/ p \in handles
           Ok == (\A q \in Processes : Busy(q)' <=> lock' = q) /\ \A q \in handles' : session'[q].at = "open"
<1>1. \A p \in Processes : Busy(p) <=> lock = p
  BY <1>0 DEF Ws!SingleOwner
<1>2. SUFFICES Ok
  BY <1>0 DEF Ws!SingleOwner, Owned
<1>3. ASSUME NEW p \in Processes, lock \in {0, p}, lock' = p, handles' = handles, p \notin handles,
             session'[p] # Ws!Closed, \A q \in Processes : q # p => session'[q] = session[q]
      PROVE  Ok
  <2>1. \A q \in Processes : q # p => ~Busy(q)
    BY <1>1, <1>3
  <2> QED BY <1>0, <1>3, <2>1 DEF WsTypes
<1>4. ASSUME NEW p \in Processes, Ws!Create(p) \/ Ws!Join(p) \/ Ws!Open(p)
      PROVE  Ok
  <2>1. /\ lock = 0 /\ lock' = p /\ handles' = handles
        /\ \E id : Ws!Goes(p, "states", id) \/ Ws!Goes(p, "open", id)
    BY <1>4 DEF Ws!Create, Ws!Join, Ws!Open, Ws!TryLock, Ws!None
  <2>2. session'[p] # Ws!Closed /\ \A q \in Processes : q # p => session'[q] = session[q]
    BY <1>0, <2>1, SMTT(20) DEF WsTypes, Ws!Goes, Ws!Closed
  <2>3. p \notin handles
    BY <1>1, <2>1
  <2> QED BY <1>3, <2>1, <2>2, <2>3
<1>5. ASSUME NEW p \in Processes, p \notin handles', session' = [session EXCEPT ![p] = Ws!Closed],
             lock' = IF lock = p THEN 0 ELSE lock, handles' = handles \ {p}
      PROVE  Ok
  <2>1. session'[p] = Ws!Closed /\ \A q \in Processes : q # p => session'[q] = session[q]
    BY <1>0, <1>5 DEF WsTypes
  <2> QED BY <1>0, <1>1, <1>5, <2>1 DEF WsTypes
<1>6. ASSUME NEW p \in Processes, Ws!Make(p)
      PROVE  Ok
  <2>1. session[p].at \in Ws!Needed
    BY <1>6 DEF Ws!Make
  <2>2. session[p] # Ws!Closed /\ p \notin handles
    BY <1>0, <2>1, PartsAre, SMTT(20) DEF Ws!Closed
  <2>3. lock = p
    BY <1>1, <2>2
  <2>4. CASE Ws!Fails(p)
    BY <1>5, <2>2, <2>3, <2>4 DEF Ws!Fails, Ws!None
  <2>5. CASE Ws!Goes(p, Ws!After(session[p].at), session[p].id) /\ UNCHANGED <<lock, handles>>
    <3>1. Ws!After(session[p].at) \in Ws!Needed \cup {"open"}
      BY <2>1, PartsAre
    <3>2. session'[p] # Ws!Closed /\ \A q \in Processes : q # p => session'[q] = session[q]
      BY <1>0, <2>5, <3>1, PartsAre DEF WsTypes, Ws!Goes, Ws!Closed
    <3> QED BY <1>3, <2>2, <2>3, <2>5, <3>2
  <2> QED BY <1>6, <2>4, <2>5 DEF Ws!Make
<1>7. ASSUME NEW p \in Processes, Ws!Get(p) \/ Ws!Release(p)
      PROVE  Ok
  <2>1. UNCHANGED <<lock, session>> /\ session[p].at = "open" /\ \A q \in Processes : q # p => (q \in handles' <=> q \in handles)
    BY <1>0, <1>7 DEF Ws!Get, Ws!Release
  <2>2. session[p] # Ws!Closed
    BY <2>1, SMTT(20) DEF Ws!Closed
  <2> QED BY <1>0, <1>1, <2>1, <2>2 DEF WsTypes
<1>8. ASSUME NEW p \in Processes, Ws!Drop(p)
      PROVE  Ok
  <2>1. session[p] # Ws!Closed
    BY <1>8, SMTT(20) DEF Ws!Drop, Ws!Closed
  <2>2. p \notin handles /\ handles' = handles /\ session' = [session EXCEPT ![p] = Ws!Closed] /\ lock' = 0 /\ lock = p
    BY <1>1, <1>8, <2>1 DEF Ws!Drop, Ws!None
  <2> QED BY <1>5, <2>2
<1>9. ASSUME NEW p \in Processes, Ws!Crash(p)
      PROVE  Ok
  BY <1>5, <1>9 DEF Ws!Crash, Ws!None
<1>10. CASE Ws!Wipe \/ UNCHANGED Ws!vars
  <2>1. UNCHANGED <<lock, session, handles>>
    BY <1>10 DEF Ws!vars, Ws!Wipe
  <2> QED BY <1>0, <1>1, <2>1
<1> QED BY <1>4, <1>6, <1>7, <1>8, <1>9, <1>10 DEF Ws!Next

(* One process at a time works on the directory: whoever has a table or a  *)
(* state of it open has the lock, and nobody else keeps it (acquire_lock,  *)
(* Drop), as long as no handle outlives its Workspace.                     *)
THEOREM WorkspaceSingleOwner ==
  ASSUME Outlive = FALSE, 0 \notin Processes
  PROVE  Ws!Spec => []Ws!SingleOwner
<1>1. Ws!Init => Owned
  BY PartsAre, SMTT(20) DEF Ws!Init, Owned, WsTypes, Sessions, Ws!Closed, Ws!None, Ws!SingleOwner
<1> QED BY <1>1, OwnedKept, PTL DEF Ws!Spec, Owned
=============================================================================
