----------------------------- MODULE TopicDisk -----------------------------
(***************************************************************************)
(* The inductive invariant of Topic, which the writer and the consumers    *)
(* keep.  It has three parts: Disk, what the segment files promise whether *)
(* or not a process has them open; Shape, how the segment list and the     *)
(* Segment objects follow the files; Readers, where the cursors are.       *)
(***************************************************************************)
EXTENDS Topic, WellFoundedInduction, TLAPS

(* A leaf is tried with Zenon, then with SMT; those that need arithmetic   *)
(* or are too large for Zenon name SMT.                                    *)
USE ZenonT(10), SMTT(20)

(* A non-empty set of natural numbers has a least element. *)
LEMMA LeastExists ==
  ASSUME NEW S \in SUBSET Nat, S # {}
  PROVE  \E x \in S : \A y \in S : x <= y
<1> DEFINE R == {ss \in Nat \X Nat : ss[1] < ss[2]}
<1>1. IsWellFoundedOn(R, Nat)
  BY NatLessThanWellFounded DEF OpToRel
<1> HIDE DEF R
<1>2. PICK x \in S : \A y \in S : ~ (<<y, x>> \in R)
  BY <1>1, WFMin, Zenon
<1>3. \A y \in S : ~ (y < x)
  BY <1>2, Zenon DEF R
<1> QED BY <1>3, SMTT(20)

(* A non-empty set of natural numbers with a bound has a greatest element. *)
LEMMA GreatestExists ==
  ASSUME NEW e \in Nat, NEW S \in SUBSET (0 .. e), S # {}
  PROVE  \E x \in S : \A y \in S : y <= x
<1> DEFINE T == {d \in Nat : e - d \in S}
<1>1. PICK d \in T : \A c \in T : d <= c
  <2>1. PICK x \in S : TRUE
    BY Zenon
  <2>2. e - x \in T
    BY SMTT(20)
  <2> QED BY <2>2, LeastExists, Zenon
<1>2. \A y \in S : y <= e - d
  <2>1. SUFFICES ASSUME NEW y \in S PROVE d <= e - y
    BY SMTT(20)
  <2>2. e - y \in T
    BY SMTT(20)
  <2> QED BY <2>2, <1>1
<1> QED BY <1>2

(* The minimum of a set, once a least element is known. *)
LEMMA MinIs ==
  ASSUME NEW S \in SUBSET Int, NEW m \in S, \A y \in S : m <= y
  PROVE  Min(S) = m
<1>1. Min(S) \in S /\ \A y \in S : Min(S) <= y
  <2>1. \E x \in S : \A y \in S : x <= y
    OBVIOUS
  <2> QED BY <2>1, Zenon DEF Min
<1> DEFINE k == Min(S)
<1>2. k \in S /\ k <= m
  BY <1>1
<1> HIDE DEF k
<1>3. k = m
  BY <1>2, SMTT(20)
<1> QED BY <1>3 DEF k

LEMMA MinLeast ==
  ASSUME NEW S \in SUBSET Nat, S # {}
  PROVE  Min(S) \in S /\ \A y \in S : Min(S) <= y
<1>1. PICK m \in S : \A y \in S : m <= y
  BY LeastExists
<1>2. Min(S) = m
  BY <1>1, MinIs, SMTT(20)
<1> QED BY <1>1, <1>2
---------------------------------------------------------------------------
End(f, b) == b + f[b].n

(* The files are a gapless run of segments, all but the last one (base t)    *)
(* sealed and whole, that holds every record some consumer has not committed.*)
Disk(f, off, t) ==
  /\ DOMAIN f \in SUBSET (0 .. MaxOffset) /\ \A b \in DOMAIN f : f[b] \in File
  /\ t \in DOMAIN f /\ \A b \in DOMAIN f : b <= t
  /\ End(f, t) <= MaxOffset
  /\ \A b \in DOMAIN f \ {t} :
       /\ f[b].magic /\ ~f[b].torn /\ b < End(f, b)
       /\ End(f, b) \in DOMAIN f
       /\ \A c \in DOMAIN f : b < c => End(f, b) <= c
  /\ \A n \in DOMAIN off : \A o \in 0 .. MaxOffset :
       off[n] <= o /\ o < End(f, t) => \E b \in DOMAIN f : b <= o /\ o < End(f, b)

Shape(f, l, t, sg, off, h) ==
  /\ Disk(f, off, t) /\ f[t].magic /\ ~f[t].torn
  /\ DOMAIN f = Live(l, h) /\ DOMAIN sg = Live(l, h)
  /\ \A b \in DOMAIN f : sg[b] \in [end : Offset, bytes : Nat] /\ sg[b].end = End(f, b)
  /\ t \in l /\ \A b \in DOMAIN f \ {t} : End(f, b) \in l
  /\ \A b \in DOMAIN f \ l : \A n \in DOMAIN off : End(f, b) <= off[n]

Readers(f, off, h, ac, cn) ==
  /\ DOMAIN cn = DOMAIN off /\ ac \in SUBSET DOMAIN cn
  /\ \A n \in DOMAIN cn : /\ cn[n] \in [committed : Offset, volatile : Offset]
                          /\ cn[n].committed = off[n] /\ off[n] <= cn[n].volatile
  /\ h \in [Name -> SUBSET DOMAIN f]
  /\ \A n \in Name : \A b \in h[n] :
       n \in ac /\ b <= cn[n].volatile /\ cn[n].volatile <= End(f, b)

Cursors(off) == DOMAIN off \in SUBSET Name /\ \A n \in DOMAIN off : off[n] \in Offset
---------------------------------------------------------------------------
(* The numbers of a segment file. *)
LEMMA DiskEnds ==
  ASSUME NEW f, NEW off, NEW t, Disk(f, off, t)
  PROVE  /\ t \in DOMAIN f /\ t \in Nat
         /\ \A b \in DOMAIN f : b \in Nat /\ f[b] \in File /\ f[b].n \in Nat /\ End(f, b) \in Nat
         /\ \A b \in DOMAIN f \ {t} : End(f, b) \in DOMAIN f /\ b < End(f, b)
BY SMTT(20) DEF Disk, File, End

(* Removing files keeps the run gapless if the successor of every file that  *)
(* stays is kept, and harmless if all consumers have committed what goes.    *)
LEMMA DiskRestrict ==
  ASSUME NEW f, NEW off, NEW t, Disk(f, off, t), Cursors(off),
         NEW S \in SUBSET DOMAIN f, t \in S,
         \A b \in S \ {t} : End(f, b) \in S,
         \A b \in DOMAIN f \ S : \A n \in DOMAIN off : End(f, b) <= off[n]
  PROVE  Disk(Restrict(f, S), off, t) /\ End(Restrict(f, S), t) = End(f, t)
<1> DEFINE g == Restrict(f, S)
<1>1. DOMAIN g = S /\ \A b \in S : g[b] = f[b] /\ End(g, b) = End(f, b)
  BY DEF Restrict, End
<1>2. \A b \in DOMAIN f : b \in Nat /\ End(f, b) \in Nat
  BY SMTT(20) DEF Disk, File, End
<1>3. ASSUME NEW n \in DOMAIN off, NEW o \in 0 .. MaxOffset, off[n] <= o, o < End(g, t)
      PROVE  \E b \in DOMAIN g : b <= o /\ o < End(g, b)
  <2>1. PICK b \in DOMAIN f : b <= o /\ o < End(f, b)
    BY <1>1, <1>3 DEF Disk
  <2>2. off[n] \in Nat
    BY SMTT(20) DEF Cursors, Offset
  <2>3. b \in S
    BY <2>1, <2>2, <1>2, <1>3, SMTT(20)
  <2> QED BY <2>1, <2>3, <1>1
<1>4. \A b \in DOMAIN g \ {t} :
        /\ g[b].magic /\ ~g[b].torn /\ b < End(g, b)
        /\ End(g, b) \in DOMAIN g
        /\ \A c \in DOMAIN g : b < c => End(g, b) <= c
  BY <1>1 DEF Disk
<1> HIDE DEF g
<1>5. Disk(g, off, t)
  BY <1>1, <1>3, <1>4 DEF Disk
<1> QED BY <1>1, <1>5 DEF g

(* rotate_segment: a new file behind the last one, which has records. *)
LEMMA DiskGrow ==
  ASSUME NEW f, NEW off, NEW t, Disk(f, off, t), Cursors(off),
         f[t].magic, ~f[t].torn, t < End(f, t),
         NEW g, DOMAIN g = DOMAIN f \cup {End(f, t)}, \A b \in DOMAIN f : g[b] = f[b],
         NEW whole \in BOOLEAN, g[End(f, t)] = NewFile(whole)
  PROVE  Disk(g, off, End(f, t)) /\ End(g, End(f, t)) = End(f, t)
<1> DEFINE u == End(f, t)
<1>1. u \in 0 .. MaxOffset /\ u \notin DOMAIN f /\ t \in DOMAIN f
  BY SMTT(20) DEF Disk, File, End
<1>2. g[u] \in File /\ g[u].n = 0 /\ End(g, u) = u
  BY <1>1, TopicConstants, SMTT(20) DEF NewFile, File, End
<1>3. \A b \in DOMAIN f : g[b] = f[b] /\ End(g, b) = End(f, b) /\ b \in Nat /\ End(f, b) \in Nat /\ b <= t
  BY SMTT(20) DEF End, Disk, File
<1>4. ASSUME NEW b \in DOMAIN g \ {u}
      PROVE  /\ g[b].magic /\ ~g[b].torn /\ b < End(g, b)
             /\ End(g, b) \in DOMAIN g
             /\ \A c \in DOMAIN g : b < c => End(g, b) <= c
  <2>1. CASE b = t
    BY <2>1, <1>1, <1>3, SMTT(20)
  <2>2. CASE b # t
    <3>1. End(f, b) \in DOMAIN f /\ End(f, b) <= t /\ g[b].magic /\ ~g[b].torn /\ b < End(g, b)
      BY <2>2, <1>3 DEF Disk
    <3>2. \A c \in DOMAIN f : b < c => End(g, b) <= c
      BY <2>2, <1>3 DEF Disk
    <3>3. End(g, b) <= u
      BY <3>1, <1>1, <1>3, SMTT(20)
    <3> QED BY <3>1, <3>2, <3>3, <1>3
  <2> QED BY <2>1, <2>2
<1>5. ASSUME NEW n \in DOMAIN off, NEW o \in 0 .. MaxOffset, off[n] <= o, o < End(g, u)
      PROVE  \E b \in DOMAIN g : b <= o /\ o < End(g, b)
  <2>1. PICK b \in DOMAIN f : b <= o /\ o < End(f, b)
    BY <1>2, <1>5 DEF Disk
  <2> QED BY <2>1, <1>3
<1> HIDE DEF u
<1>6. Disk(g, off, u)
  <2>1. DOMAIN g \in SUBSET (0 .. MaxOffset) /\ \A b \in DOMAIN g : g[b] \in File
    BY <1>1, <1>2, <1>3 DEF Disk, u
  <2>2. u \in DOMAIN g /\ \A b \in DOMAIN g : b <= u
    BY <1>1, <1>3, SMTT(20) DEF u
  <2> QED BY <2>1, <2>2, <1>1, <1>2, <1>4, <1>5 DEF Disk
<1> QED BY <1>2, <1>6 DEF u

(* A record written behind whole ones is found by a scan. *)
LEMMA WriteType ==
  ASSUME NEW r \in File, ~r.torn, NEW s \in Nat
  PROVE  WriteRecord(r, s) \in File /\ WriteRecord(r, s).n = r.n + 1
<1> DEFINE i == r.n + 1
           j == r.len + s
<1>1. i \in Nat /\ j \in Nat
  BY SMTT(20) DEF File
<1>2. WriteRecord(r, s) = [r EXCEPT !.n = i, !.len = j]
  BY DEF WriteRecord
<1> HIDE DEF i, j
<1>3. [r EXCEPT !.n = i, !.len = j] \in File /\ [r EXCEPT !.n = i, !.len = j].n = i
  BY <1>1, Zenon DEF File
<1>4. WriteRecord(r, s) \in File /\ WriteRecord(r, s).n = i
  BY <1>2, <1>3, Zenon
<1> QED BY <1>4 DEF i

(* append: one more record in the last file. *)
LEMMA DiskWrite ==
  ASSUME NEW f, NEW off, NEW t, Disk(f, off, t), Cursors(off),
         ~f[t].torn, End(f, t) < MaxOffset, NEW s \in Nat,
         NEW g, DOMAIN g = DOMAIN f, g[t] = WriteRecord(f[t], s),
         \A b \in DOMAIN f \ {t} : g[b] = f[b]
  PROVE  Disk(g, off, t) /\ End(g, t) = End(f, t) + 1
<1>1. t \in DOMAIN f /\ t \in Nat /\ f[t] \in File /\ MaxOffset \in Nat
  BY TopicConstants, SMTT(20) DEF Disk
<1>2. g[t] \in File /\ End(g, t) = End(f, t) + 1 /\ End(f, t) \in Nat
  <2>1. g[t] \in File /\ g[t].n = f[t].n + 1
    BY <1>1, WriteType, SMTT(20), ZenonT(20)
  <2>2. f[t].n \in Nat
    BY <1>1 DEF File
  <2> QED BY <1>1, <2>1, <2>2, SMTT(20) DEF End
<1>3. \A b \in DOMAIN f \ {t} : g[b] = f[b] /\ End(g, b) = End(f, b)
  BY DEF End
<1>4. ASSUME NEW n \in DOMAIN off, NEW o \in 0 .. MaxOffset, off[n] <= o, o < End(g, t)
      PROVE  \E b \in DOMAIN g : b <= o /\ o < End(g, b)
  <2>1. CASE o < End(f, t)
    <3>1. PICK b \in DOMAIN f : b <= o /\ o < End(f, b)
      BY <2>1, <1>4 DEF Disk
    <3>2. CASE b = t
      BY <3>1, <3>2, <1>1, <1>4
    <3>3. CASE b # t
      BY <3>1, <3>3, <1>3
    <3> QED BY <3>2, <3>3
  <2>2. CASE ~(o < End(f, t))
    <3>1. t <= End(f, t)
      BY <1>1, SMTT(20) DEF End, File
    <3> QED BY <2>2, <3>1, <1>1, <1>2, <1>4, SMTT(20)
  <2> QED BY <2>1, <2>2
<1>5. \A b \in DOMAIN g \ {t} :
        /\ g[b].magic /\ ~g[b].torn /\ b < End(g, b)
        /\ End(g, b) \in DOMAIN g
        /\ \A c \in DOMAIN g : b < c => End(g, b) <= c
  BY <1>3 DEF Disk
<1>6. \A b \in DOMAIN g : g[b] \in File
  BY <1>2, <1>3 DEF Disk
<1>7. End(g, t) <= MaxOffset
  BY <1>1, <1>2, SMTT(20)
<1>8. Disk(g, off, t)
  BY <1>4, <1>5, <1>6, <1>7 DEF Disk
<1> QED BY <1>2, <1>8

(* A torn record behind the last file's whole ones, or its truncation. *)
LEMMA DiskMark ==
  ASSUME NEW f, NEW off, NEW t, Disk(f, off, t), NEW v \in BOOLEAN
  PROVE  /\ Disk([f EXCEPT ![t].torn = v], off, t)
         /\ End([f EXCEPT ![t].torn = v], t) = End(f, t)
<1> DEFINE g == [f EXCEPT ![t].torn = v]
<1>1. t \in DOMAIN f /\ f[t] \in File
  BY DEF Disk
<1>2. DOMAIN g = DOMAIN f /\ g[t] \in File /\ g[t].n = f[t].n
  BY <1>1 DEF File
<1>3. \A b \in DOMAIN f \ {t} : g[b] = f[b]
  OBVIOUS
<1> HIDE DEF g
<1>4. \A b \in DOMAIN f : End(g, b) = End(f, b)
  BY <1>2, <1>3 DEF End
<1>5. Disk(g, off, t)
  BY <1>1, <1>2, <1>3, <1>4 DEF Disk
<1> QED BY <1>1, <1>4, <1>5, Zenon DEF g

(* What a registration, a commit or a deletion does to the offsets. *)
LEMMA OffsetsShape ==
  ASSUME NEW f, NEW l, NEW t, NEW sg, NEW off, NEW h, Shape(f, l, t, sg, off, h),
         Cursors(off), NEW off2, Cursors(off2),
         \A n \in DOMAIN off2 : \/ n \in DOMAIN off /\ off[n] <= off2[n]
                                \/ off2[n] = End(f, t)
  PROVE  Shape(f, l, t, sg, off2, h)
<1>1. Disk(f, off, t)
  BY DEF Shape
<1>2. \A b \in DOMAIN f : b \in Nat /\ End(f, b) \in Nat /\ b <= t /\ t <= End(f, t)
  BY <1>1, SMTT(20) DEF Disk, File, End
<1>3. \A b \in DOMAIN f : End(f, b) <= End(f, t)
  BY <1>1, <1>2, SMTT(20) DEF Disk
<1>4. \A n \in DOMAIN off2 : off2[n] \in Nat /\ (n \in DOMAIN off => off[n] \in Nat)
  BY SMTT(20) DEF Cursors, Offset
<1>5. ASSUME NEW n \in DOMAIN off2, NEW o \in 0 .. MaxOffset, off2[n] <= o, o < End(f, t)
      PROVE  \E b \in DOMAIN f : b <= o /\ o < End(f, b)
  <2>1. t \in DOMAIN f
    BY <1>1 DEF Disk
  <2>2. off2[n] # End(f, t)
    BY <1>2, <1>4, <1>5, <2>1, SMTT(20)
  <2>3. n \in DOMAIN off /\ off[n] <= o
    BY <1>4, <1>5, <2>2, SMTT(20)
  <2> QED BY <1>1, <1>5, <2>3 DEF Disk
<1>6. Disk(f, off2, t)
  BY <1>1, <1>5 DEF Disk
<1>7. ASSUME NEW b \in DOMAIN f \ l, NEW n \in DOMAIN off2
      PROVE  End(f, b) <= off2[n]
  <2>1. CASE n \in DOMAIN off /\ off[n] <= off2[n]
    <3>1. End(f, b) <= off[n]
      BY <2>1 DEF Shape
    <3> QED BY <3>1, <2>1, <1>2, <1>4, SMTT(20)
  <2>2. CASE off2[n] = End(f, t)
    BY <2>2, <1>3
  <2> QED BY <2>1, <2>2
<1> QED BY <1>6, <1>7 DEF Shape

(* A reader that lets go of a segment: only files that compaction has        *)
(* already dropped from the list can disappear.                              *)
LEMMA HoldShape ==
  ASSUME NEW f, NEW l, NEW t, NEW sg, NEW off, NEW h, Shape(f, l, t, sg, off, h),
         Cursors(off), NEW h2 \in [Name -> SUBSET DOMAIN f]
  PROVE  /\ Shape(Restrict(f, Live(l, h2)), l, t, Restrict(sg, Live(l, h2)), off, h2)
         /\ \A b \in Live(l, h2) : End(Restrict(f, Live(l, h2)), b) = End(f, b)
<1> DEFINE S == Live(l, h2)
           g == Restrict(f, S)
<1>1. l \in SUBSET S /\ S \in SUBSET DOMAIN f /\ S = Live(l, h2)
  BY SMTT(20), ZenonT(20) DEF Live, Shape
<1> HIDE DEF S
<1>2. t \in S /\ \A b \in S \ {t} : End(f, b) \in S
  BY <1>1 DEF Shape
<1>3. \A b \in DOMAIN f \ S : \A n \in DOMAIN off : End(f, b) <= off[n]
  BY <1>1 DEF Shape
<1>4. Disk(g, off, t)
  BY <1>1, <1>2, <1>3, DiskRestrict DEF Shape
<1>5. DOMAIN g = S /\ \A b \in S : g[b] = f[b] /\ End(g, b) = End(f, b)
  BY DEF Restrict, End
<1>6. DOMAIN Restrict(sg, S) = S /\ \A b \in S : Restrict(sg, S)[b] = sg[b]
  BY DEF Restrict
<1> HIDE DEF g
<1>7. Shape(g, l, t, Restrict(sg, S), off, h2)
  <2>1. g[t].magic /\ ~g[t].torn /\ t \in l
    BY <1>2, <1>5 DEF Shape
  <2>2. \A b \in DOMAIN g : /\ Restrict(sg, S)[b] \in [end : Offset, bytes : Nat]
                            /\ Restrict(sg, S)[b].end = End(g, b)
    BY <1>1, <1>5, <1>6 DEF Shape
  <2>3. \A b \in DOMAIN g \ {t} : End(g, b) \in l
    BY <1>1, <1>5 DEF Shape
  <2>4. \A b \in DOMAIN g \ l : \A n \in DOMAIN off : End(g, b) <= off[n]
    BY <1>1, <1>5 DEF Shape
  <2> QED BY <2>1, <2>2, <2>3, <2>4, <1>1, <1>4, <1>5, <1>6 DEF Shape
<1> QED BY <1>5, <1>7 DEF g, S

(* What compaction may take from the list: a prefix all consumers have       *)
(* committed, never the last segment, and never the one behind a segment     *)
(* that some cursor still holds.                                             *)
LEMMA RemovableFacts ==
  ASSUME NEW f, NEW l, NEW t, NEW sg, Shape(f, l, t, sg, offsets, held),
         Readers(f, offsets, held, active, cons), Cursors(offsets),
         NEW gone, gone = {} \/ gone = Removable(sg, l, t)
  PROVE  /\ gone \in SUBSET (l \ {t})
         /\ \A b \in gone : \A n \in DOMAIN offsets : End(f, b) <= offsets[n]
         /\ \A b \in gone : \A c \in l : c <= b => c \in gone
         /\ \A n \in Name : \A b \in held[n] : End(f, b) \notin gone
<1>1. Disk(f, offsets, t) /\ l \in SUBSET DOMAIN f
  BY DEF Shape, Live
<1>2. \A b \in DOMAIN f : b \in Nat /\ End(f, b) \in Nat /\ b <= t
  BY <1>1, SMTT(20) DEF Disk, File, End
<1>3. \A n \in DOMAIN offsets : n \in DOMAIN cons /\ cons[n].committed = offsets[n]
  BY DEF Readers
<1>4. \A b \in l : sg[b].end = End(f, b)
  BY <1>1 DEF Shape
<1>5. gone \in SUBSET (l \ {t})
  BY DEF Removable
<1>6. \A b \in gone : \A c \in l : c <= b => \A n \in DOMAIN offsets : End(f, c) <= offsets[n]
  BY <1>3, <1>4, SMTT(20) DEF Removable
<1>7. ASSUME NEW b \in gone PROVE \A n \in DOMAIN offsets : End(f, b) <= offsets[n]
  BY <1>1, <1>2, <1>5, <1>6, SMTT(20)
<1>8. ASSUME NEW b \in gone, NEW c \in l, c <= b PROVE c \in gone
  <2>1. c # t
    BY <1>1, <1>2, <1>5, <1>8, SMTT(20)
  <2>2. \A d \in l : d <= c => d <= b
    BY <1>1, <1>2, <1>5, <1>8, SMTT(20)
  <2> QED BY <2>1, <2>2, <1>8 DEF Removable
<1>9. ASSUME NEW n \in Name, NEW b \in held[n], End(f, b) \in gone PROVE FALSE
  <2> DEFINE c == End(f, b)
  <2>1. n \in DOMAIN cons /\ cons[n].volatile <= c /\ b \in DOMAIN f
    BY <1>9 DEF Readers
  <2>2. offsets[n] <= cons[n].volatile /\ n \in DOMAIN offsets
    BY <2>1 DEF Readers
  <2>3. End(f, c) <= offsets[n]
    BY <1>7, <1>9, <2>2
  <2>4. c \in DOMAIN f \ {t}
    BY <1>1, <1>5, <1>9
  <2>5. c < End(f, c)
    BY <1>1, <2>4 DEF Disk
  <2>6. cons[n].volatile \in Nat /\ offsets[n] \in Nat
    BY <2>1, <2>2, SMTT(20) DEF Readers, Cursors, Offset
  <2> HIDE DEF c
  <2> QED BY <2>1, <2>2, <2>3, <2>4, <2>5, <2>6, <1>2, SMTT(20)
<1> QED BY <1>5, <1>7, <1>8, <1>9

(* compact: what it leaves has the shape again. *)
LEMMA CutShape ==
  ASSUME NEW f, NEW l, NEW t, NEW sg, Shape(f, l, t, sg, offsets, held),
         Readers(f, offsets, held, active, cons), Cursors(offsets),
         NEW gone, gone = {} \/ gone = Removable(sg, l, t),
         NEW S, S = Live(l \ gone, held)
  PROVE  /\ Shape(Restrict(f, S), l \ gone, t, Restrict(sg, S), offsets, held)
         /\ S \in SUBSET DOMAIN f /\ \A b \in S : End(Restrict(f, S), b) = End(f, b)
<1> DEFINE g == Restrict(f, S)
           sg2 == Restrict(sg, S)
<1>1. /\ gone \in SUBSET (l \ {t})
      /\ \A b \in gone : \A n \in DOMAIN offsets : End(f, b) <= offsets[n]
      /\ \A b \in gone : \A c \in l : c <= b => c \in gone
      /\ \A n \in Name : \A b \in held[n] : End(f, b) \notin gone
  BY RemovableFacts, Zenon
<1>2. Disk(f, offsets, t) /\ DOMAIN f = Live(l, held) /\ l \in SUBSET DOMAIN f
  BY DEF Shape, Live
<1>3. S \in SUBSET DOMAIN f /\ l \ gone \in SUBSET S /\ t \in l \ gone
  BY <1>1, <1>2 DEF Live, Shape
<1>4. \A b \in S : b \in l \ gone \/ \E n \in Name : b \in held[n]
  BY DEF Live
<1>5. ASSUME NEW b \in S \ {t} PROVE End(f, b) \in l \ gone
  <2>1. End(f, b) \in l /\ b < End(f, b) /\ b \in Nat /\ End(f, b) \in Nat
    <3>1. End(f, b) \in l
      BY <1>2, <1>3, Zenon DEF Shape
    <3>2. b \in DOMAIN f \ {t}
      BY <1>3
    <3>3. b < End(f, b) /\ End(f, b) \in DOMAIN f /\ DOMAIN f \in SUBSET (0 .. MaxOffset)
      BY <1>2, <3>2 DEF Disk
    <3> QED BY <3>1, <3>2, <3>3, SMTT(20)
  <2>2. CASE b \in l \ gone
    BY <1>1, <2>1, <2>2, SMTT(20)
  <2>3. CASE \E n \in Name : b \in held[n]
    BY <1>1, <2>1, <2>3
  <2> QED BY <1>4, <2>2, <2>3, Zenon
<1>6. \A b \in DOMAIN f : b \notin l \ gone => \A n \in DOMAIN offsets : End(f, b) <= offsets[n]
  BY <1>1 DEF Shape
<1>7. Disk(g, offsets, t)
  BY <1>2, <1>3, <1>5, <1>6, DiskRestrict, Zenon
<1>8. DOMAIN g = S /\ DOMAIN sg2 = S
  BY DEF Restrict
<1>9. \A b \in S : g[b] = f[b] /\ End(g, b) = End(f, b) /\ sg2[b] = sg[b]
  BY DEF Restrict, End
<1> HIDE DEF g, sg2
<1>10. Shape(g, l \ gone, t, sg2, offsets, held)
  <2>1. g[t].magic /\ ~g[t].torn
    BY <1>3, <1>9, Zenon DEF Shape
  <2>2. \A b \in DOMAIN g : sg2[b] \in [end : Offset, bytes : Nat] /\ sg2[b].end = End(g, b)
    BY <1>3, <1>8, <1>9 DEF Shape
  <2>3. \A b \in DOMAIN g \ {t} : End(g, b) \in l \ gone
    BY <1>5, <1>8, <1>9
  <2>4. \A b \in DOMAIN g \ (l \ gone) : \A n \in DOMAIN offsets : End(g, b) <= offsets[n]
    BY <1>3, <1>6, <1>8, <1>9
  <2> QED BY <2>1, <2>2, <2>3, <2>4, <1>3, <1>7, <1>8, Zenon DEF Shape
<1> QED BY <1>3, <1>9, <1>10 DEF g, sg2

(* A crash in the middle of the deletions of compact. *)
LEMMA UnlinkedDisk ==
  ASSUME NEW f, NEW l, NEW t, NEW sg, Shape(f, l, t, sg, offsets, held),
         Readers(f, offsets, held, active, cons), Cursors(offsets),
         NEW gone, gone = {} \/ gone = Removable(sg, l, t),
         NEW g \in Unlinked(f, gone, Live({}, held))
  PROVE  Disk(g, offsets, t) /\ End(g, t) = End(f, t) /\ t \in DOMAIN g
<1>1. /\ gone \in SUBSET (l \ {t})
      /\ \A b \in gone : \A n \in DOMAIN offsets : End(f, b) <= offsets[n]
      /\ \A b \in gone : \A c \in l : c <= b => c \in gone
      /\ \A n \in Name : \A b \in held[n] : End(f, b) \notin gone
  BY RemovableFacts, Zenon
<1>2. Disk(f, offsets, t) /\ DOMAIN f = Live(l, held)
  BY DEF Shape
<1>3. PICK b \in gone : g = Restrict(f, DOMAIN f \ ({c \in gone : c <= b} \ Live({}, held)))
  BY DEF Unlinked
<1> DEFINE S == DOMAIN f \ ({c \in gone : c <= b} \ Live({}, held))
<1>4. \A x \in DOMAIN f : x \in l \/ x \in Live({}, held)
  BY <1>2 DEF Live
<1>5. \A x \in Live({}, held) : End(f, x) \notin gone
  BY <1>1 DEF Live
<1>6. ASSUME NEW x \in S \ {t} PROVE End(f, x) \in S
  <2>1. End(f, x) \in DOMAIN f /\ x < End(f, x) /\ x \in Nat /\ End(f, x) \in Nat
    BY <1>2, DiskEnds, Zenon
  <2>2. ASSUME End(f, x) \in gone, End(f, x) <= b PROVE FALSE
    <3>1. b \in Nat
      <4>1. b \in DOMAIN f
        BY <1>1, <1>2 DEF Live
      <4> QED BY <1>2, <4>1, SMTT(20) DEF Disk
    <3>2. x \notin Live({}, held) /\ x \in l
      BY <1>4, <1>5, <2>2
    <3>3. x \in gone /\ x <= b
      BY <1>1, <2>1, <2>2, <3>1, <3>2, SMTT(20)
    <3> QED BY <3>2, <3>3
  <2> QED BY <2>1, <2>2
<1>7. t \in S /\ S \in SUBSET DOMAIN f
  BY <1>1, <1>2 DEF Disk
<1>8. \A x \in DOMAIN f \ S : \A n \in DOMAIN offsets : End(f, x) <= offsets[n]
  BY <1>1
<1>9. g = Restrict(f, S)
  BY <1>3
<1> HIDE DEF S
<1>10. Disk(g, offsets, t) /\ End(g, t) = End(f, t)
  BY <1>2, <1>6, <1>7, <1>8, <1>9, DiskRestrict
<1> QED BY <1>10 DEF Disk

(* Growing or dropping unheld files leaves the cursors in place. *)
LEMMA ReadersKept ==
  ASSUME NEW f, NEW g, NEW off, NEW h, NEW ac, NEW cn, Readers(f, off, h, ac, cn),
         \A n \in Name : \A b \in h[n] : b \in DOMAIN g /\ End(f, b) \in Int
                                         /\ End(g, b) \in Int /\ End(f, b) <= End(g, b)
  PROVE  Readers(g, off, h, ac, cn)
<1>1. h \in [Name -> SUBSET DOMAIN g]
  BY DEF Readers
<1>2. ASSUME NEW n \in Name, NEW b \in h[n]
      PROVE  n \in ac /\ b <= cn[n].volatile /\ cn[n].volatile <= End(g, b)
  <2>1. n \in ac /\ n \in DOMAIN cn /\ b <= cn[n].volatile /\ cn[n].volatile <= End(f, b)
    BY DEF Readers
  <2>2. cn[n].volatile \in Int
    BY <2>1, SMTT(20) DEF Readers, Offset
  <2> QED BY <2>1, <2>2, SMTT(20)
<1> QED BY <1>1, <1>2 DEF Readers

(* The numbers of a well-shaped segment list are in range. *)
LEMMA ShapeNat ==
  ASSUME NEW f, NEW l, NEW t, NEW sg, NEW off, NEW h, Shape(f, l, t, sg, off, h)
  PROVE  \A b \in DOMAIN f : b \in Nat /\ End(f, b) \in Nat /\ End(f, b) <= MaxOffset
<1>1. Disk(f, off, t)
  BY DEF Shape
<1>2. \A b \in DOMAIN f : b \in Nat /\ b + f[b].n \in Nat
  BY <1>1, SMTT(20) DEF Disk, File
<1>3. \A b \in DOMAIN f : End(f, b) <= MaxOffset
  BY <1>1, SMTT(20) DEF Disk
<1> QED BY <1>2, <1>3 DEF End

(* append: the record goes to the last segment and its end moves by one. *)
LEMMA WriteShape ==
  ASSUME NEW f, NEW l, NEW t, NEW sg, NEW off, NEW h, Shape(f, l, t, sg, off, h),
         Cursors(off), End(f, t) < MaxOffset, NEW s \in Nat,
         NEW g, DOMAIN g = DOMAIN f, g[t] = WriteRecord(f[t], s),
         \A b \in DOMAIN f \ {t} : g[b] = f[b],
         NEW sg2, DOMAIN sg2 = DOMAIN sg,
         sg2[t] = [end |-> End(f, t) + 1, bytes |-> sg[t].bytes + s],
         \A b \in DOMAIN f \ {t} : sg2[b] = sg[b]
  PROVE  /\ Shape(g, l, t, sg2, off, h) /\ End(g, t) = End(f, t) + 1
         /\ \A b \in DOMAIN f \ {t} : End(g, b) = End(f, b)
<1>1. Disk(f, off, t) /\ f[t].magic /\ ~f[t].torn /\ t \in DOMAIN f
  BY DEF Shape, Disk
<1>2. Disk(g, off, t) /\ End(g, t) = End(f, t) + 1
  BY <1>1, DiskWrite, Zenon
<1>3. \A b \in DOMAIN f \ {t} : End(g, b) = End(f, b)
  BY Zenon DEF End
<1>4. f[t] \in File /\ End(f, t) \in Nat /\ MaxOffset \in Nat
  <2>1. f[t] \in File /\ t \in 0 .. MaxOffset
    BY <1>1, Zenon DEF Disk
  <2>2. f[t].n \in Nat
    BY <2>1 DEF File
  <2>3. t \in Nat /\ MaxOffset \in Nat
    BY <2>1, TopicConstants, SMTT(20)
  <2>4. t + f[t].n \in Nat
    BY <2>2, <2>3, SMTT(20)
  <2> QED BY <2>1, <2>3, <2>4, ZenonT(60) DEF End
<1>5. g[t].magic /\ ~g[t].torn
  <2>1. ASSUME NEW r \in File, r.magic, ~r.torn PROVE WriteRecord(r, s).magic /\ ~WriteRecord(r, s).torn
    BY <2>1 DEF WriteRecord, File
  <2> QED BY <1>1, <1>4, <2>1, Zenon
<1>6. sg2[t] \in [end : Offset, bytes : Nat] /\ sg2[t].end = End(g, t)
  <2>1. sg[t].bytes \in Nat
    BY <1>1 DEF Shape
  <2>2. End(f, t) + 1 \in Offset /\ sg[t].bytes + s \in Nat
    BY <1>4, <2>1, SMTT(20) DEF Offset
  <2> QED BY <1>2, <2>2, SMTT(20)
<1>7. \A b \in DOMAIN g : sg2[b] \in [end : Offset, bytes : Nat] /\ sg2[b].end = End(g, b)
  BY <1>3, <1>6, SMTT(20), ZenonT(20) DEF Shape
<1>8. \A b \in DOMAIN g \ {t} : End(g, b) \in l
  BY <1>3 DEF Shape
<1>9. t \in l /\ DOMAIN g = Live(l, h) /\ DOMAIN sg2 = Live(l, h)
  BY DEF Shape
<1>10. \A b \in DOMAIN g \ l : \A n \in DOMAIN off : End(g, b) <= off[n]
  BY <1>3, <1>9 DEF Shape
<1>11. Shape(g, l, t, sg2, off, h)
  BY <1>2, <1>5, <1>7, <1>8, <1>9, <1>10, Zenon DEF Shape
<1> QED BY <1>2, <1>3, <1>11
---------------------------------------------------------------------------
Opened ==
  /\ Shape(file, list, tail, seg, offsets, held)
  /\ Readers(file, offsets, held, active, cons)
  /\ next = End(file, tail) /\ acked <= next

Closed ==
  /\ \E t \in DOMAIN file : Disk(file, offsets, t) /\ acked <= End(file, t)
  /\ seg = [b \in {} |-> 0] /\ list = {} /\ tail = 0 /\ next = 0
  /\ cons = [n \in {} |-> 0] /\ active = {} /\ held = NoHandles

Inv ==
  /\ up \in BOOLEAN /\ Cursors(offsets) /\ acked \in Offset /\ seen \in [Name -> Offset]
  /\ up => Opened
  /\ ~up => Closed
---------------------------------------------------------------------------
(* The segments before rotate_segment compacts, or as they are. *)
LEMMA TailShape ==
  ASSUME Inv, up, NEW s \in RecordSize
  PROVE  /\ Shape(Files(s), Listed(s), TailBase(s), Segments(s), offsets, held)
         /\ Readers(Files(s), offsets, held, active, cons)
         /\ End(Files(s), TailBase(s)) = next
<1>1. /\ Shape(file, list, tail, seg, offsets, held)
      /\ Readers(file, offsets, held, active, cons)
      /\ next = End(file, tail) /\ Cursors(offsets)
  BY DEF Inv, Opened
<1>2. Disk(file, offsets, tail) /\ tail \in list /\ list \in SUBSET DOMAIN file /\ DOMAIN seg = DOMAIN file
  BY <1>1 DEF Shape, Live
<1>3. \A b \in DOMAIN file : b \in Nat /\ End(file, b) \in Nat
  BY <1>2, SMTT(20) DEF Disk, File, End
<1>4. \A b \in DOMAIN file : Files(s)[b] = file[b] /\ Segments(s)[b] = seg[b]
  BY <1>2 DEF Files, Segments
<1>5. \A b \in DOMAIN file : End(Files(s), b) = End(file, b)
  BY <1>4 DEF End
<1>6. DOMAIN Files(s) = DOMAIN file \cup {TailBase(s)} /\ DOMAIN Segments(s) = DOMAIN file \cup {TailBase(s)}
  BY <1>2 DEF Files, Segments
<1>7. Readers(Files(s), offsets, held, active, cons)
  <2>1. \A n \in Name : \A b \in held[n] : b \in DOMAIN file
    BY <1>1 DEF Readers
  <2> QED BY <2>1, <1>1, <1>3, <1>5, <1>6, ReadersKept, SMTT(20)
<1>8. CASE ~Rotates(s)
  <2>1. TailBase(s) = tail /\ Listed(s) = list /\ DOMAIN Files(s) = DOMAIN file /\ DOMAIN Segments(s) = DOMAIN file
    BY <1>2, <1>6, <1>8 DEF TailBase, Listed
  <2>2. Disk(Files(s), offsets, tail)
    BY <1>2, <1>4, <1>5, <2>1 DEF Disk
  <2>3. Shape(Files(s), list, tail, Segments(s), offsets, held)
    BY <1>1, <1>2, <1>4, <1>5, <2>1, <2>2 DEF Shape
  <2> QED BY <1>1, <1>2, <1>5, <1>7, <2>1, <2>3, Zenon
<1>9. CASE Rotates(s)
  <2>1. TailBase(s) = next /\ Listed(s) = list \cup {next}
    BY <1>9 DEF TailBase, Listed
  <2>2. file[tail].magic /\ ~file[tail].torn /\ seg[tail].end = next
    BY <1>1, <1>2 DEF Shape
  <2>3. tail < next
    <3>1. tail <= End(file, tail)
      BY <1>2, SMTT(20) DEF Disk, File, End
    <3> QED BY <3>1, <2>2, <1>1, <1>2, <1>3, <1>9, SMTT(20) DEF Rotates
  <2>4. next \notin DOMAIN file
    BY <1>1, <1>2, <1>3, <2>3, SMTT(20) DEF Disk
  <2>5. Files(s)[next] = NewFile(TRUE) /\ Segments(s)[next] = NewSegment(next)
    BY <1>2, <2>1, <2>4 DEF Files, Segments
  <2>6. Disk(Files(s), offsets, next) /\ End(Files(s), next) = next
    <3>1. DOMAIN Files(s) = DOMAIN file \cup {End(file, tail)} /\ tail < End(file, tail)
      BY <1>1, <1>6, <2>1, <2>3
    <3>2. Files(s)[End(file, tail)] = NewFile(TRUE) /\ TRUE \in BOOLEAN
      BY <1>1, <2>5
    <3>3. /\ Disk(Files(s), offsets, End(file, tail))
          /\ End(Files(s), End(file, tail)) = End(file, tail)
      <4> DEFINE g == Files(s)
      <4>1. PICK whole \in BOOLEAN : g[End(file, tail)] = NewFile(whole)
        BY <3>2, Zenon
      <4>2. \A b \in DOMAIN file : g[b] = file[b]
        BY <1>4
      <4> HIDE DEF g
      <4>3. Disk(g, offsets, End(file, tail)) /\ End(g, End(file, tail)) = End(file, tail)
        BY <1>1, <1>2, <2>2, <3>1, <4>1, <4>2, DiskGrow, SMTT(30) DEF g
      <4> QED BY <4>3 DEF g
    <3> QED BY <1>1, <3>3
  <2>7. Live(Listed(s), held) = DOMAIN file \cup {next}
    <3>1. DOMAIN file = Live(list, held)
      BY <1>1 DEF Shape
    <3> QED BY <3>1, <2>1 DEF Live
  <2>8. \A b \in DOMAIN Files(s) : /\ Segments(s)[b] \in [end : Offset, bytes : Nat]
                                   /\ Segments(s)[b].end = End(Files(s), b)
    <3>1. NewSegment(next) \in [end : Offset, bytes : Nat] /\ NewSegment(next).end = next
      <4>1. next \in Offset
        BY <1>1, <1>2, <1>3, TopicConstants, SMTT(20) DEF Disk, Offset
      <4> QED BY <4>1, TopicConstants DEF NewSegment
    <3>2. \A b \in DOMAIN file : seg[b] \in [end : Offset, bytes : Nat] /\ seg[b].end = End(file, b)
      BY <1>1 DEF Shape
    <3> QED BY <3>1, <3>2, <1>4, <1>5, <1>6, <2>1, <2>5, <2>6
  <2>9. \A b \in DOMAIN Files(s) \ {next} : End(Files(s), b) \in Listed(s)
    <3>1. \A b \in DOMAIN file \ {tail} : End(file, b) \in list
      BY <1>1 DEF Shape
    <3> QED BY <3>1, <1>1, <1>5, <1>6, <2>1
  <2>10. \A b \in DOMAIN Files(s) \ Listed(s) : \A n \in DOMAIN offsets : End(Files(s), b) <= offsets[n]
    <3>1. \A b \in DOMAIN file \ list : \A n \in DOMAIN offsets : End(file, b) <= offsets[n]
      BY <1>1 DEF Shape
    <3> QED BY <3>1, <1>5, <1>6, <2>1
  <2>11. Files(s)[next].magic /\ ~Files(s)[next].torn /\ next \in Listed(s)
    BY <2>1, <2>5, SMTT(20) DEF NewFile
  <2>12. Shape(Files(s), Listed(s), next, Segments(s), offsets, held)
    BY <1>6, <2>1, <2>6, <2>7, <2>8, <2>9, <2>10, <2>11 DEF Shape
  <2> QED BY <1>7, <2>1, <2>6, <2>12
<1> QED BY <1>8, <1>9

(* The offsets of an open topic are naturals. *)
LEMMA TailFacts ==
  ASSUME Inv, up
  PROVE  /\ tail \in DOMAIN file /\ next = End(file, tail) /\ next \in Nat /\ next <= MaxOffset
         /\ next \in Offset /\ acked \in Nat /\ acked <= next
         /\ \A b \in DOMAIN file : b \in Nat /\ End(file, b) \in Nat /\ End(file, b) <= MaxOffset
<1>1. Shape(file, list, tail, seg, offsets, held) /\ next = End(file, tail) /\ acked <= next
  BY DEF Inv, Opened
<1>2. \A b \in DOMAIN file : b \in Nat /\ End(file, b) \in Nat /\ End(file, b) <= MaxOffset
  BY <1>1, ShapeNat
<1>3. Disk(file, offsets, tail)
  BY <1>1 DEF Shape
<1>4. tail \in DOMAIN file
  BY <1>3 DEF Disk
<1>5. next \in Nat /\ next <= MaxOffset /\ MaxOffset \in Nat
  BY <1>1, <1>2, <1>4, TopicConstants
<1>6. next \in Offset
  BY <1>5, SMTT(20) DEF Offset
<1>7. acked \in Nat
  BY SMTT(20) DEF Inv, Offset
<1> QED BY <1>1, <1>2, <1>4, <1>5, <1>6, <1>7

(* append preserves the invariant. *)
LEMMA AppendInv ==
  ASSUME Inv, NEW s \in RecordSize, AppendRecord(s)
  PROVE  Inv'
<1> DEFINE t == TailBase(s)
           gone == Dropped(s)
           S == Live(Listed(s) \ gone, held)
           f == Restrict(Files(s), S)
           sg == Restrict(Segments(s), S)
<1>1. up /\ next < MaxOffset /\ Cursors(offsets) /\ s \in Nat /\ MaxOffset \in Nat
  BY TopicConstants DEF Inv, AppendRecord
<1>2. /\ Shape(Files(s), Listed(s), t, Segments(s), offsets, held)
      /\ Readers(Files(s), offsets, held, active, cons)
      /\ End(Files(s), t) = next
  BY <1>1, TailShape
<1>3. gone = {} \/ gone = Removable(Segments(s), Listed(s), t)
  BY DEF Dropped
<1>4. /\ Shape(f, Listed(s) \ gone, t, sg, offsets, held)
      /\ S \in SUBSET DOMAIN Files(s) /\ \A b \in S : End(f, b) = End(Files(s), b)
  <2> DEFINE f0 == Files(s)
             sg0 == Segments(s)
             l0 == Listed(s)
  <2>1. S = Live(l0 \ gone, held)
    OBVIOUS
  <2> HIDE DEF gone, t, S, f0, sg0, l0
  <2>2. /\ Shape(f0, l0, t, sg0, offsets, held) /\ Readers(f0, offsets, held, active, cons)
        /\ gone = {} \/ gone = Removable(sg0, l0, t)
    BY <1>2, <1>3 DEF f0, sg0, l0
  <2>0. Cursors(offsets)
    BY <1>1
  <2>3. Shape(Restrict(f0, S), l0 \ gone, t, Restrict(sg0, S), offsets, held)
    BY <2>0, <2>1, <2>2, CutShape, Zenon
  <2>4. S \in SUBSET DOMAIN f0 /\ \A b \in S : End(Restrict(f0, S), b) = End(f0, b)
    <3>1. S \in SUBSET DOMAIN f0
      BY <2>1, <2>2 DEF Shape, Live
    <3> QED BY <3>1 DEF Restrict, End
  <2> QED BY <2>3, <2>4 DEF f0, sg0, l0
<1>5. t \in S /\ t \in Listed(s) \ gone
  BY <1>4 DEF Shape, Live
<1>6. DOMAIN f = S /\ DOMAIN sg = S /\ \A b \in S : f[b] = Files(s)[b] /\ sg[b] = Segments(s)[b]
  BY DEF Restrict
<1>7. /\ file' = [b \in S |-> IF b = t THEN WriteRecord(Files(s)[b], s) ELSE Files(s)[b]]
      /\ seg' = [b \in S |-> IF b = t THEN [end |-> next + 1, bytes |-> Segments(s)[b].bytes + s]
                                       ELSE Segments(s)[b]]
      /\ list' = Listed(s) \ gone /\ tail' = t /\ next' = next + 1 /\ acked' = next + 1
  BY DEF AppendRecord
<1>8. UNCHANGED <<up, offsets, cons, active, held, seen>>
  BY DEF AppendRecord
<1> HIDE DEF t, gone, S, f, sg
<1>9. End(f, t) = next
  BY <1>2, <1>4, <1>5
<1>10. /\ DOMAIN file' = DOMAIN f /\ file'[t] = WriteRecord(f[t], s)
       /\ \A b \in DOMAIN f \ {t} : file'[b] = f[b]
       /\ DOMAIN seg' = DOMAIN sg
       /\ seg'[t] = [end |-> End(f, t) + 1, bytes |-> sg[t].bytes + s]
       /\ \A b \in DOMAIN f \ {t} : seg'[b] = sg[b]
  BY <1>5, <1>6, <1>7, <1>9
<1>11. /\ Shape(file', Listed(s) \ gone, t, seg', offsets, held) /\ End(file', t) = End(f, t) + 1
       /\ \A b \in DOMAIN f \ {t} : End(file', b) = End(f, b)
  BY <1>1, <1>4, <1>9, <1>10, WriteShape, SMTT(20)
<1>12. Readers(file', offsets, held, active, cons)
  <2>1. \A n \in Name : \A b \in held[n] : b \in S
    BY DEF S, Live
  <2>2. \A b \in S : End(f, b) \in Nat
    BY <1>4, <1>6, ShapeNat
  <2>3. \A b \in S : End(file', b) \in Int /\ End(f, b) <= End(file', b)
    BY <1>6, <1>11, <2>2, SMTT(20)
  <2>4. DOMAIN file' = S /\ Readers(f, offsets, held, active, cons)
    <3>1. \A b \in S : End(Files(s), b) = End(f, b)
      BY <1>4
    <3>2. \A b \in S : End(Files(s), b) \in Int /\ End(f, b) \in Int /\ End(Files(s), b) <= End(f, b)
      BY <2>2, <3>1, SMTT(20)
    <3>3. \A n \in Name : \A b \in held[n] : /\ b \in DOMAIN f /\ End(Files(s), b) \in Int
                                             /\ End(f, b) \in Int /\ End(Files(s), b) <= End(f, b)
      BY <1>6, <2>1, <3>2
    <3> DEFINE f0 == Files(s)
    <3>4. Readers(f0, offsets, held, active, cons)
      BY <1>2
    <3> HIDE DEF f0
    <3>5. \A n \in Name : \A b \in held[n] : /\ b \in DOMAIN f /\ End(f0, b) \in Int
                                             /\ End(f, b) \in Int /\ End(f0, b) <= End(f, b)
      BY <3>3 DEF f0
    <3> QED BY <1>6, <1>10, <3>4, <3>5, ReadersKept
  <2>5. \A n \in Name : \A b \in held[n] : /\ b \in DOMAIN file' /\ End(f, b) \in Int
                                           /\ End(file', b) \in Int /\ End(f, b) <= End(file', b)
    BY <2>1, <2>2, <2>3, <2>4, SMTT(20)
  <2> QED BY <2>4, <2>5, ReadersKept
<1>13. next + 1 = End(file', t)
  BY <1>9, <1>11
<1>14. Opened'
  <2>1. Shape(file, list, tail, seg, offsets, held)'
    BY <1>7, <1>8, <1>11
  <2>2. Readers(file, offsets, held, active, cons)'
    BY <1>8, <1>12
  <2>3. (next = End(file, tail) /\ acked <= next)'
    <3>1. next \in Int
      BY <1>4, <1>5, <1>6, <1>9, ShapeNat, SMTT(20)
    <3> QED BY <1>7, <1>13, <3>1, SMTT(20) DEF End
  <2> QED BY <2>1, <2>2, <2>3 DEF Opened
<1>15. acked' \in Offset
  <2>1. next \in Nat
    BY <1>4, <1>5, <1>6, <1>9, ShapeNat
  <2> QED BY <1>1, <1>7, <2>1, SMTT(20) DEF Offset
<1> QED BY <1>1, <1>8, <1>14, <1>15 DEF Inv, Cursors

(* create establishes the invariant. *)
LEMMA InitInv == Init => Inv
<1> SUFFICES ASSUME Init PROVE Inv
  OBVIOUS
<1>1. /\ up = TRUE /\ DOMAIN file = {0} /\ file[0] = NewFile(TRUE) /\ DOMAIN offsets = {}
      /\ DOMAIN seg = {0} /\ seg[0] = NewSegment(0) /\ list = {0} /\ tail = 0 /\ next = 0
      /\ DOMAIN cons = {} /\ active = {} /\ held = [n \in Name |-> {}]
      /\ acked = 0 /\ seen = [n \in Name |-> 0]
  BY DEF Init, NoHandles
<1>2. NewFile(TRUE) \in File /\ NewFile(TRUE).n = 0 /\ NewFile(TRUE).magic /\ ~NewFile(TRUE).torn
  BY TopicConstants DEF NewFile, File
<1>3. MaxOffset \in Nat /\ 0 \in Offset /\ End(file, 0) = 0
  <2>1. MaxOffset \in Nat
    BY TopicConstants
  <2>2. file[0].n = 0
    BY <1>1, <1>2, Zenon
  <2> QED BY <2>1, <2>2, SMTT(20) DEF Offset, End
<1>4. Disk(file, offsets, 0)
  <2>1. DOMAIN file \in SUBSET (0 .. MaxOffset)
    BY <1>1, <1>3, SMTT(20)
  <2>2. \A b \in DOMAIN file : file[b] \in File
    BY <1>1, <1>2
  <2>3. DOMAIN file \ {0} = {} /\ 0 <= MaxOffset /\ \A b \in DOMAIN file : b <= 0
    BY <1>1, <1>3, SMTT(20)
  <2> QED BY <1>1, <1>3, <2>1, <2>2, <2>3 DEF Disk
<1>5. NewSegment(0) \in [end : Offset, bytes : Nat] /\ NewSegment(0).end = 0
  BY <1>3, TopicConstants DEF NewSegment
<1>6. Live(list, held) = {0}
  BY <1>1 DEF Live
<1>7. Shape(file, list, tail, seg, offsets, held)
  BY <1>1, <1>2, <1>3, <1>4, <1>5, <1>6, Zenon DEF Shape
<1>8. Readers(file, offsets, held, active, cons)
  BY <1>1 DEF Readers
<1>9. Opened
  BY <1>1, <1>3, <1>7, <1>8, SMTT(20) DEF Opened
<1> QED BY <1>1, <1>3, <1>9 DEF Inv, Cursors

(* compact preserves the invariant. *)
LEMMA CompactInv ==
  ASSUME Inv, Compact
  PROVE  Inv'
<1> DEFINE gone == Removable(seg, list, tail)
           S == Live(list \ gone, held)
<1>1. up /\ Opened /\ Cursors(offsets)
  BY DEF Inv, Compact
<1>2. list' = list \ gone /\ seg' = Restrict(seg, S) /\ file' = Restrict(file, S)
  BY DEF Compact
<1>3. UNCHANGED <<up, offsets, tail, next, cons, active, held, acked, seen>>
  BY DEF Compact
<1>4. S = Live(list \ gone, held) /\ gone = Removable(seg, list, tail)
  OBVIOUS
<1> HIDE DEF gone, S
<1>5. /\ Shape(file', list \ gone, tail, seg', offsets, held)
      /\ S \in SUBSET DOMAIN file /\ \A b \in S : End(file', b) = End(file, b)
  <2>1. /\ Shape(file, list, tail, seg, offsets, held) /\ Readers(file, offsets, held, active, cons)
        /\ Cursors(offsets)
    BY <1>1 DEF Opened
  <2>2. Shape(Restrict(file, S), list \ gone, tail, Restrict(seg, S), offsets, held)
    BY <1>4, <2>1, CutShape, Zenon
  <2>3. S \in SUBSET DOMAIN file
    BY <1>4, <2>1 DEF Shape, Live
  <2>4. \A b \in S : End(Restrict(file, S), b) = End(file, b)
    BY <2>3 DEF Restrict, End
  <2> QED BY <1>2, <2>2, <2>3, <2>4
<1>6. DOMAIN file' = S
  BY <1>2 DEF Restrict
<1>7. \A b \in S : End(file, b) \in Nat
  BY <1>1, <1>5, ShapeNat DEF Opened
<1>8. \A n \in Name : \A b \in held[n] : b \in S
  BY <1>4 DEF Live
<1>9. Readers(file', offsets, held, active, cons)
  <2>1. \A n \in Name : \A b \in held[n] : /\ b \in DOMAIN file' /\ End(file, b) \in Int
                                           /\ End(file', b) \in Int /\ End(file, b) <= End(file', b)
    BY <1>5, <1>6, <1>7, <1>8, SMTT(20)
  <2>2. Readers(file, offsets, held, active, cons)
    BY <1>1 DEF Opened
  <2> QED BY <2>1, <2>2, ReadersKept
<1>10. tail \in S /\ End(file', tail) = End(file, tail)
  BY <1>5, <1>6, Zenon DEF Shape, Disk
<1>11. Opened'
  <2>1. Shape(file, list, tail, seg, offsets, held)'
    BY <1>2, <1>3, <1>5
  <2>2. Readers(file, offsets, held, active, cons)'
    BY <1>3, <1>9
  <2>3. (next = End(file, tail) /\ acked <= next)'
    BY <1>1, <1>3, <1>10 DEF Opened, End
  <2> QED BY <2>1, <2>2, <2>3 DEF Opened
<1> QED BY <1>1, <1>3, <1>11 DEF Inv, Cursors

(* A step of a handle that moves a cursor or an offset. *)
LEMMA ReaderInv ==
  ASSUME Inv, up, UNCHANGED <<up, list, tail, next, acked>>,
         Cursors(offsets'), seen' \in [Name -> Offset],
         \A n \in DOMAIN offsets' : \/ n \in DOMAIN offsets /\ offsets[n] <= offsets'[n]
                                    \/ offsets'[n] = next,
         Readers(file, offsets', held', active', cons'),
         \/ UNCHANGED <<file, seg, held>>
         \/ file' = Restrict(file, Live(list, held')) /\ seg' = Restrict(seg, Live(list, held'))
  PROVE  Inv'
<1>1. /\ Shape(file, list, tail, seg, offsets, held) /\ Cursors(offsets)
      /\ next = End(file, tail) /\ acked <= next
  BY DEF Inv, Opened
<1>2. Shape(file, list, tail, seg, offsets', held)
  BY <1>1, OffsetsShape
<1>3. Shape(file', list, tail, seg', offsets', held') /\ Readers(file', offsets', held', active', cons')
      /\ End(file', tail) = End(file, tail)
  <2>1. CASE UNCHANGED <<file, seg, held>>
    BY <2>1, <1>2 DEF End
  <2>2. CASE file' = Restrict(file, Live(list, held')) /\ seg' = Restrict(seg, Live(list, held'))
    <3>1. held' \in [Name -> SUBSET DOMAIN file]
      BY DEF Readers
    <3>2. /\ Shape(file', list, tail, seg', offsets', held')
          /\ \A b \in Live(list, held') : End(file', b) = End(file, b)
      BY <2>2, <1>2, <3>1, HoldShape
    <3>3. DOMAIN file' = Live(list, held') /\ Live(list, held') \in SUBSET DOMAIN file
      BY <1>1, <2>2, <3>1, SMTT(20) DEF Restrict, Live, Shape
    <3>4. \A b \in DOMAIN file : End(file, b) \in Nat
      BY <1>1, ShapeNat
    <3>5. \A n \in Name : \A b \in held'[n] : b \in Live(list, held')
      BY DEF Live
    <3>6. Readers(file', offsets', held', active', cons')
      <4>1. \A n \in Name : \A b \in held'[n] : /\ b \in DOMAIN file' /\ End(file, b) \in Int
                                                /\ End(file', b) \in Int /\ End(file, b) <= End(file', b)
        <5>1. \A x \in Nat : x \in Int /\ x <= x
          BY SMTT(20)
        <5>2. \A b \in DOMAIN file : End(file, b) \in Int /\ End(file, b) <= End(file, b)
          BY <3>4, <5>1, Zenon
        <5>3. \A b \in Live(list, held') : b \in DOMAIN file' /\ b \in DOMAIN file
          BY <3>3, Zenon
        <5>4. \A b \in Live(list, held') : End(file', b) \in Int /\ End(file, b) <= End(file', b)
          BY <3>2, <5>2, <5>3, Zenon
        <5> QED BY <3>5, <5>2, <5>3, <5>4, Zenon
      <4> QED BY <4>1, ReadersKept
    <3>7. tail \in Live(list, held')
      BY <3>2, <3>3 DEF Shape, Disk
    <3> QED BY <3>2, <3>6, <3>7
  <2> QED BY <2>1, <2>2
<1>4. Opened'
  <2>1. Shape(file, list, tail, seg, offsets, held)' /\ Readers(file, offsets, held, active, cons)'
    BY <1>3
  <2>2. (next = End(file, tail) /\ acked <= next)'
    BY <1>1, <1>3 DEF End
  <2> QED BY <2>1, <2>2 DEF Opened
<1> QED BY <1>4 DEF Inv

(* A handle with something to read finds the record, in the segment its      *)
(* cursor holds or in a published one.                                       *)
LEMMA SourceFacts ==
  ASSUME Inv, up, NEW n \in active
  PROVE  /\ n \in DOMAIN cons /\ n \in DOMAIN offsets /\ n \in Name
         /\ cons[n] \in [committed : Offset, volatile : Offset]
         /\ cons[n].committed = offsets[n] /\ offsets[n] <= cons[n].volatile
         /\ cons[n].volatile \in Nat /\ offsets[n] \in Nat
         /\ \A b \in Source(n) : /\ b \in DOMAIN file /\ b <= cons[n].volatile
                                 /\ cons[n].volatile < End(file, b)
                                 /\ cons[n].volatile - b < file[b].n
         /\ Pending(n) => Source(n) # {}
<1>1. /\ Shape(file, list, tail, seg, offsets, held) /\ Readers(file, offsets, held, active, cons)
      /\ next = End(file, tail) /\ Cursors(offsets)
  BY DEF Inv, Opened
<1>2. /\ n \in DOMAIN cons /\ n \in DOMAIN offsets /\ n \in Name
      /\ cons[n] \in [committed : Offset, volatile : Offset]
      /\ cons[n].committed = offsets[n] /\ offsets[n] <= cons[n].volatile
  BY <1>1 DEF Readers, Cursors
<1> DEFINE v == cons[n].volatile
<1>3. v \in Nat /\ offsets[n] \in Nat
  BY <1>1, <1>2, TopicConstants, SMTT(20) DEF Offset, Cursors
<1>4. \A b \in DOMAIN file : b \in Nat /\ End(file, b) \in Nat /\ End(file, b) <= MaxOffset
  BY <1>1, ShapeNat
<1>5. list \in SUBSET DOMAIN file /\ tail \in DOMAIN file
      /\ \A b \in DOMAIN file : seg[b].end = End(file, b)
  BY <1>1 DEF Shape, Live
<1>6. \A b \in held[n] : b \in DOMAIN file /\ b <= v
  BY <1>1, <1>2 DEF Readers
<1>7. Current(n) = {b \in held[n] : v < seg[b].end}
      /\ Containing(n) = {b \in list : b <= v /\ v < seg[b].end}
  BY DEF Current, Containing
<1>8. \A b \in DOMAIN file : file[b].n \in Nat
  BY <1>1 DEF Shape, Disk, File
<1> HIDE DEF v
<1>9. ASSUME NEW b \in Source(n)
      PROVE  b \in DOMAIN file /\ b <= v /\ v < End(file, b) /\ v - b < file[b].n
  <2>1. b \in Current(n) \/ b \in Containing(n)
    BY <1>9 DEF Source
  <2>2. b \in DOMAIN file /\ b <= v /\ v < End(file, b)
    BY <1>5, <1>6, <1>7, <2>1
  <2> QED BY <1>3, <1>4, <1>8, <2>2, SMTT(20) DEF End
<1>10. ASSUME Pending(n), Current(n) = {} PROVE Containing(n) # {}
  <2>1. v < next
    BY <1>10 DEF Pending, v
  <2>2. v \in 0 .. MaxOffset /\ v < End(file, tail) /\ offsets[n] <= v
    BY <1>1, <1>2, <1>3, <1>4, <1>5, <2>1, TopicConstants, SMTT(20) DEF v
  <2>3. PICK b \in DOMAIN file : b <= v /\ v < End(file, b)
    BY <1>1, <1>2, <2>2 DEF Shape, Disk
  <2>4. b \in list
    <3>1. b \notin list => End(file, b) <= offsets[n]
      BY <1>1, <1>2 DEF Shape
    <3> QED BY <3>1, <2>2, <2>3, <1>3, <1>4, SMTT(20)
  <2> QED BY <2>3, <2>4, <1>5, <1>7
<1>11. Pending(n) => Source(n) # {}
  BY <1>10 DEF Source
<1> QED BY <1>2, <1>3, <1>9, <1>11 DEF v

(* No reader is active while the topic is closed, and reading needs one. *)
LEMMA ActiveUp ==
  ASSUME Inv, NEW n \in active
  PROVE  up
BY DEF Inv, Closed

(* next, seek, reset and the drop of a handle move one volatile cursor, never *)
(* below the committed offset, and replace the segment the handle holds.     *)
LEMMA MoveInv ==
  ASSUME Inv, up, NEW n \in active, NEW w \in Offset, offsets[n] <= w,
         NEW h \in SUBSET DOMAIN file, \A b \in h : b <= w /\ w <= End(file, b),
         cons' = [cons EXCEPT ![n].volatile = w], Hold(n, h),
         active' = active \/ (active' = active \ {n} /\ h = {}),
         UNCHANGED <<up, offsets, list, tail, next, acked>>, seen' \in [Name -> Offset]
  PROVE  Inv'
<1>1. /\ Readers(file, offsets, held, active, cons) /\ Cursors(offsets)
      /\ n \in DOMAIN cons /\ n \in Name
  BY SourceFacts DEF Inv, Opened
<1>2. /\ DOMAIN cons' = DOMAIN cons /\ \A m \in DOMAIN cons \ {n} : cons'[m] = cons[m]
      /\ cons'[n] = [cons[n] EXCEPT !.volatile = w]
  BY <1>1
<1>3. /\ cons'[n] \in [committed : Offset, volatile : Offset]
      /\ cons'[n].committed = offsets[n] /\ cons'[n].volatile = w
  <2>1. cons[n] \in [committed : Offset, volatile : Offset] /\ cons[n].committed = offsets[n]
    BY <1>1 DEF Readers
  <2> QED BY <1>2, <2>1, SMTT(20)
<1>4. held' = [held EXCEPT ![n] = h] /\ held \in [Name -> SUBSET DOMAIN file]
  BY <1>1 DEF Hold, Readers
<1>5. held' \in [Name -> SUBSET DOMAIN file] /\ held'[n] = h
      /\ \A m \in Name \ {n} : held'[m] = held[m]
  BY <1>1, <1>4
<1>6. Readers(file, offsets', held', active', cons')
  <2>1. DOMAIN cons' = DOMAIN offsets' /\ active' \in SUBSET DOMAIN cons'
    BY <1>1, <1>2 DEF Readers
  <2>2. \A m \in DOMAIN cons' : /\ cons'[m] \in [committed : Offset, volatile : Offset]
                                /\ cons'[m].committed = offsets'[m] /\ offsets'[m] <= cons'[m].volatile
    BY <1>1, <1>2, <1>3 DEF Readers
  <2>3. ASSUME NEW m \in Name, NEW b \in held'[m]
        PROVE  m \in active' /\ b <= cons'[m].volatile /\ cons'[m].volatile <= End(file, b)
    <3>1. CASE m = n
      BY <3>1, <2>3, <1>3, <1>5
    <3>2. CASE m # n
      <4>1. b \in held[m]
        BY <2>3, <3>2, <1>5
      <4>2. m \in active /\ b <= cons[m].volatile /\ cons[m].volatile <= End(file, b)
        BY <1>1, <4>1 DEF Readers
      <4>3. cons'[m] = cons[m]
        BY <1>1, <1>2, <3>2, <4>2 DEF Readers
      <4> QED BY <3>2, <4>2, <4>3
    <3> QED BY <3>1, <3>2
  <2> QED BY <1>5, <2>1, <2>2, <2>3 DEF Readers
<1>7. file' = Restrict(file, Live(list, held')) /\ seg' = Restrict(seg, Live(list, held'))
  BY DEF Hold
<1>8. Cursors(offsets') /\ \A m \in DOMAIN offsets' : m \in DOMAIN offsets /\ offsets[m] <= offsets'[m]
  BY <1>1, SMTT(20) DEF Cursors, Offset
<1> QED BY <1>6, <1>7, <1>8, ReaderInv

LEMMA ReadNextInv ==
  ASSUME Inv, NEW n \in Name, ReadNext(n)
  PROVE  Inv'
<1>1. Pending(n) /\ n \in active /\ up
  BY ActiveUp DEF ReadNext, Pending
<1> DEFINE v == cons[n].volatile
<1>2. PICK b \in Source(n) : Hold(n, {b})
  BY Zenon DEF ReadNext
<1>3. b \in DOMAIN file /\ b <= v /\ v < End(file, b) /\ v \in Offset /\ offsets[n] <= v
  BY <1>1, SourceFacts
<1>4. b \in Nat /\ End(file, b) \in Nat /\ End(file, b) <= MaxOffset
  BY <1>1, <1>3, TailFacts
<1>5. offsets[n] \in Nat /\ v \in Nat
  BY <1>1, SourceFacts
<1>6. v + 1 \in Offset /\ offsets[n] <= v + 1 /\ b <= v + 1 /\ v + 1 <= End(file, b)
  <2> DEFINE e == End(file, b)
             c == offsets[n]
  <2>1. b \in Nat /\ c \in Nat /\ v \in Nat /\ e \in Nat /\ MaxOffset \in Nat
        /\ e <= MaxOffset /\ b <= v /\ v < e /\ c <= v
    BY <1>3, <1>4, <1>5, TopicConstants
  <2> HIDE DEF e, c, v
  <2>2. v + 1 \in Offset /\ c <= v + 1 /\ b <= v + 1 /\ v + 1 <= e
    BY <2>1, SMTT(20) DEF Offset
  <2> QED BY <2>2 DEF e, c
<1>7. cons' = [cons EXCEPT ![n].volatile = v + 1]
      /\ UNCHANGED <<up, offsets, list, tail, next, active, acked>>
  BY DEF ReadNext
<1>8. seen' \in [Name -> Offset]
  <2>1. seen' = IF Seeks = "none" /\ v = seen[n] THEN [seen EXCEPT ![n] = seen[n] + 1] ELSE seen
    BY DEF ReadNext
  <2>2. seen \in [Name -> Offset]
    BY DEF Inv
  <2>3. CASE Seeks = "none" /\ v = seen[n]
    <3>1. seen[n] + 1 \in Offset
      BY <1>6, <2>3
    <3> QED BY <2>1, <2>2, <2>3, <3>1
  <2>4. CASE ~(Seeks = "none" /\ v = seen[n])
    BY <2>1, <2>2, <2>4
  <2> QED BY <2>3, <2>4
<1> HIDE DEF v
<1>9. \A c \in {b} : c <= v + 1 /\ v + 1 <= End(file, c)
  BY <1>6
<1> QED BY <1>1, <1>2, <1>3, <1>6, <1>7, <1>8, <1>9, MoveInv, Zenon

(* read_exact never fails and position never unwraps None. *)
LEMMA NoBadRead ==
  ASSUME Inv, NEW n \in Name
  PROVE  ~ReadFails(n) /\ ~ReadPanics(n)
<1>1. ASSUME Pending(n) PROVE n \in active /\ up
  BY <1>1, ActiveUp DEF Pending
<1>2. ~ReadPanics(n)
  BY <1>1, SourceFacts DEF ReadPanics
<1>3. ASSUME ReadFails(n) PROVE FALSE
  <2>1. PICK b \in Source(n) : cons[n].volatile - b >= file[b].n
    BY <1>3 DEF ReadFails
  <2>2. n \in active /\ up
    BY <1>1, <1>3 DEF ReadFails
  <2>3. cons[n].volatile - b < file[b].n /\ b \in DOMAIN file /\ cons[n].volatile \in Offset
    BY <2>1, <2>2, SourceFacts
  <2>4. b \in Int /\ file[b].n \in Int
    <3>1. Disk(file, offsets, tail)
      BY <2>2 DEF Inv, Opened, Shape
    <3> QED BY <2>3, <3>1, SMTT(20) DEF Disk, File
  <2>5. cons[n].volatile \in Int
    BY <2>3, SMTT(20) DEF Offset
  <2> QED BY <2>1, <2>3, <2>4, <2>5, SMTT(20)
<1> QED BY <1>2, <1>3

(* Reset, seek forward and the drop of the handle. *)
LEMMA RewindInv ==
  ASSUME Inv, NEW n \in Name, Seeks # "any",
         \/ Reset(n) \/ DropConsumer(n)
         \/ \E o \in Offset : Seek(n, o)
  PROVE  Inv'
<1>1. n \in active /\ up
  BY ActiveUp DEF Reset, DropConsumer, Seek
<1>2. cons[n].committed \in Offset /\ cons[n].committed = offsets[n] /\ offsets[n] \in Nat
  <2>1. cons[n] \in [committed : Offset, volatile : Offset]
        /\ cons[n].committed = offsets[n] /\ offsets[n] \in Nat
    BY <1>1, SourceFacts
  <2> QED BY <2>1
<1>3. PICK w \in Offset : /\ offsets[n] <= w /\ cons' = [cons EXCEPT ![n].volatile = w]
                          /\ Hold(n, {}) /\ (active' = active \/ active' = active \ {n})
                          /\ UNCHANGED <<up, offsets, list, tail, next, acked, seen>>
  <2> DEFINE c == cons[n].committed
             Moves(w) == /\ offsets[n] <= w /\ cons' = [cons EXCEPT ![n].volatile = w]
                         /\ Hold(n, {}) /\ (active' = active \/ active' = active \ {n})
                         /\ UNCHANGED <<up, offsets, list, tail, next, acked, seen>>
  <2>0. c \in Offset /\ offsets[n] <= c
    BY <1>2, SMTT(20)
  <2>1. CASE Reset(n)
    <3>1. Moves(c)
      BY <2>0, <2>1 DEF Reset, Move
    <3> QED BY <2>0, <3>1, Zenon
  <2>2. CASE DropConsumer(n)
    <3>1. Moves(c)
      BY <2>0, <2>2 DEF DropConsumer, Release
    <3> QED BY <2>0, <3>1, Zenon
  <2>3. ASSUME NEW o \in Offset, Seek(n, o) PROVE o >= offsets[n] /\ Move(n, o)
    BY <1>2, <2>3 DEF Seek
  <2>4. CASE \E o \in Offset : Seek(n, o)
    BY <1>2, <2>3, <2>4 DEF Move, Offset
  <2> QED BY <2>1, <2>2, <2>4
<1>4. seen' \in [Name -> Offset]
  BY <1>3 DEF Inv
<1>5. {} \in SUBSET DOMAIN file
  OBVIOUS
<1> QED BY <1>1, <1>3, <1>4, <1>5, MoveInv, Zenon

LEMMA ConsumerInv ==
  ASSUME Inv, NEW n \in Name, Consumer(n)
  PROVE  Inv'
<1>1. up /\ Opened /\ Cursors(offsets) /\ Readers(file, offsets, held, active, cons)
  BY DEF Inv, Consumer, Opened
<1>2. active' = active \cup {n} /\ UNCHANGED <<up, file, seg, list, tail, next, held, acked>>
  BY DEF Consumer
<1>3. next \in Offset /\ next \in Nat
  BY <1>1, TailFacts
<1>4. CASE n \in DOMAIN cons /\ UNCHANGED <<offsets, cons, seen>>
  <2>1. Readers(file, offsets', held', active', cons')
    BY <1>1, <1>2, <1>4 DEF Readers
  <2>2. \A m \in DOMAIN offsets' : m \in DOMAIN offsets /\ offsets[m] <= offsets'[m]
    BY <1>1, <1>4, SMTT(20) DEF Cursors, Offset
  <2>3. Cursors(offsets') /\ seen' \in [Name -> Offset]
    BY <1>1, <1>4 DEF Inv
  <2> QED BY <1>1, <1>2, <2>1, <2>2, <2>3, ReaderInv
<1>5. CASE /\ n \notin DOMAIN cons
           /\ offsets' = [m \in DOMAIN offsets \cup {n} |-> IF m = n THEN next ELSE offsets[m]]
           /\ cons' = [m \in DOMAIN cons \cup {n} |->
                         IF m = n THEN [committed |-> next, volatile |-> next] ELSE cons[m]]
           /\ seen' = IF Seeks = "none" THEN [seen EXCEPT ![n] = next] ELSE seen
  <2>1. DOMAIN cons = DOMAIN offsets /\ active \in SUBSET DOMAIN cons /\ n \notin active
    BY <1>1, <1>5 DEF Readers
  <2>2. /\ DOMAIN cons' = DOMAIN offsets' /\ DOMAIN offsets' = DOMAIN offsets \cup {n}
        /\ offsets'[n] = next /\ \A m \in DOMAIN offsets : offsets'[m] = offsets[m] /\ cons'[m] = cons[m]
        /\ cons'[n] = [committed |-> next, volatile |-> next]
    BY <2>1, <1>5
  <2>3. Cursors(offsets')
    BY <1>1, <1>3, <2>2 DEF Cursors
  <2>4. \A m \in DOMAIN offsets' : \/ m \in DOMAIN offsets /\ offsets[m] <= offsets'[m]
                                   \/ offsets'[m] = next
    BY <1>1, <2>2, SMTT(20) DEF Cursors, Offset
  <2>5. seen' \in [Name -> Offset]
    BY <1>3, <1>5 DEF Inv
  <2>7. [committed |-> next, volatile |-> next] \in [committed : Offset, volatile : Offset] /\ next <= next
    BY <1>3, SMTT(20)
  <2>6. Readers(file, offsets', held', active', cons')
    <3>1. ASSUME NEW m \in DOMAIN cons'
          PROVE  /\ cons'[m] \in [committed : Offset, volatile : Offset]
                 /\ cons'[m].committed = offsets'[m] /\ offsets'[m] <= cons'[m].volatile
      <4>1. CASE m = n
        BY <4>1, <2>2, <2>7, SMTT(20)
      <4>2. CASE m \in DOMAIN offsets
        BY <4>2, <1>1, <2>1, <2>2 DEF Readers
      <4> QED BY <4>1, <4>2, <2>2
    <3>2. ASSUME NEW m \in Name, NEW b \in held[m]
          PROVE  m \in active' /\ b <= cons'[m].volatile /\ cons'[m].volatile <= End(file, b)
      <4>1. m \in active /\ b <= cons[m].volatile /\ cons[m].volatile <= End(file, b)
        BY <1>1, <3>2 DEF Readers
      <4> QED BY <4>1, <1>2, <2>1, <2>2
    <3>3. active' \in SUBSET DOMAIN cons' /\ held' \in [Name -> SUBSET DOMAIN file]
      BY <1>1, <1>2, <2>1, <2>2 DEF Readers
    <3> QED BY <1>2, <2>2, <3>1, <3>2, <3>3 DEF Readers
  <2> QED BY <1>1, <1>2, <2>3, <2>4, <2>5, <2>6, ReaderInv
<1> QED BY <1>4, <1>5 DEF Consumer

LEMMA CommitInv ==
  ASSUME Inv, NEW n \in Name, Commit(n)
  PROVE  Inv'
<1>1. up /\ n \in active
  BY ActiveUp DEF Commit
<1>2. Cursors(offsets) /\ Readers(file, offsets, held, active, cons) /\ seen \in [Name -> Offset]
  BY <1>1 DEF Inv, Opened
<1> DEFINE v == cons[n].volatile
<1>3. /\ n \in DOMAIN cons /\ n \in DOMAIN offsets /\ v \in Offset /\ offsets[n] <= v
      /\ cons[n] \in [committed : Offset, volatile : Offset]
  BY <1>1, SourceFacts
<1>4. /\ offsets' = [offsets EXCEPT ![n] = v] /\ cons' = [cons EXCEPT ![n].committed = v]
      /\ UNCHANGED <<up, file, seg, list, tail, next, active, held, acked, seen>>
  BY DEF Commit
<1>5. /\ DOMAIN offsets' = DOMAIN offsets /\ offsets'[n] = v
      /\ \A m \in DOMAIN offsets \ {n} : offsets'[m] = offsets[m]
  BY <1>3, <1>4
<1>6. /\ DOMAIN cons' = DOMAIN cons /\ \A m \in DOMAIN cons \ {n} : cons'[m] = cons[m]
      /\ cons'[n] = [cons[n] EXCEPT !.committed = v]
  BY <1>3, <1>4
<1>7. /\ cons'[n] \in [committed : Offset, volatile : Offset]
      /\ cons'[n].committed = v /\ cons'[n].volatile = v
  BY <1>3, <1>6
<1>8. v \in Nat /\ \A m \in DOMAIN offsets : offsets[m] \in Nat
  BY <1>2, <1>3, SMTT(20) DEF Cursors, Offset
<1>9. Cursors(offsets') /\ \A m \in DOMAIN offsets' : m \in DOMAIN offsets /\ offsets[m] <= offsets'[m]
  <2>1. \A m \in DOMAIN offsets' : offsets'[m] \in Offset
    BY <1>2, <1>3, <1>5 DEF Cursors
  <2>2. \A m \in DOMAIN offsets' : offsets[m] <= offsets'[m]
    BY <1>3, <1>5, <1>8, SMTT(20)
  <2> QED BY <1>2, <1>5, <2>1, <2>2 DEF Cursors
<1> HIDE DEF v
<1>10. Readers(file, offsets', held', active', cons')
  <2>1. \A m \in DOMAIN cons' : /\ cons'[m] \in [committed : Offset, volatile : Offset]
                                /\ cons'[m].committed = offsets'[m] /\ offsets'[m] <= cons'[m].volatile
    <3>1. v <= v
      BY <1>8, SMTT(20)
    <3> QED BY <1>2, <1>5, <1>6, <1>7, <3>1, SMTT(20) DEF Readers
  <2>2. \A m \in DOMAIN cons : cons'[m].volatile = cons[m].volatile
    BY <1>6, <1>7 DEF v
  <2>3. \A m \in Name : \A b \in held[m] :
           m \in active /\ b <= cons'[m].volatile /\ cons'[m].volatile <= End(file, b)
    BY <1>2, <2>2 DEF Readers
  <2> QED BY <1>2, <1>4, <1>5, <1>6, <2>1, <2>3 DEF Readers
<1> QED BY <1>1, <1>2, <1>4, <1>9, <1>10, ReaderInv

LEMMA DeleteInv ==
  ASSUME Inv, NEW n \in Name, DeleteConsumer(n)
  PROVE  Inv'
<1>1. up /\ n \in active
  BY ActiveUp DEF DeleteConsumer
<1>2. Cursors(offsets) /\ Readers(file, offsets, held, active, cons) /\ seen \in [Name -> Offset]
  BY <1>1 DEF Inv, Opened
<1>3. /\ offsets' = Without(offsets, n) /\ cons' = Without(cons, n) /\ active' = active \ {n}
      /\ held' = [held EXCEPT ![n] = {}]
      /\ UNCHANGED <<up, list, tail, next, acked, seen>>
      /\ file' = Restrict(file, Live(list, held')) /\ seg' = Restrict(seg, Live(list, held'))
  BY DEF DeleteConsumer, Hold
<1>4. /\ DOMAIN offsets' = DOMAIN offsets \ {n} /\ DOMAIN cons' = DOMAIN cons \ {n}
      /\ \A m \in DOMAIN offsets' : offsets'[m] = offsets[m]
      /\ \A m \in DOMAIN cons' : cons'[m] = cons[m]
  BY <1>3 DEF Without, Restrict
<1>5. /\ held' \in [Name -> SUBSET DOMAIN file] /\ held'[n] = {}
      /\ \A m \in Name \ {n} : held'[m] = held[m]
  <2>1. held \in [Name -> SUBSET DOMAIN file]
    BY <1>2 DEF Readers
  <2> QED BY <1>3, <2>1
<1>6. Cursors(offsets') /\ \A m \in DOMAIN offsets' : m \in DOMAIN offsets /\ offsets[m] <= offsets'[m]
  <2>1. \A m \in DOMAIN offsets : offsets[m] \in Offset
    BY <1>2 DEF Cursors
  <2>2. \A m \in DOMAIN offsets' : m \in DOMAIN offsets /\ offsets'[m] = offsets[m] /\ offsets'[m] \in Offset
    BY <1>4, <2>1
  <2>3. \A x \in Offset : x <= x
    BY TopicConstants, SMTT(20) DEF Offset
  <2>4. Cursors(offsets')
    BY <1>2, <1>4, <2>2 DEF Cursors
  <2> QED BY <2>2, <2>3, <2>4
<1>7. Readers(file, offsets', held', active', cons')
  <2>1. ASSUME NEW m \in Name, NEW b \in held'[m]
        PROVE  m \in active' /\ b <= cons'[m].volatile /\ cons'[m].volatile <= End(file, b)
    <3>1. m # n /\ b \in held[m]
      BY <1>5, <2>1
    <3>2. m \in active /\ b <= cons[m].volatile /\ cons[m].volatile <= End(file, b)
      BY <1>2, <3>1 DEF Readers
    <3>3. m \in DOMAIN cons'
      BY <1>2, <1>4, <3>1, <3>2 DEF Readers
    <3> QED BY <1>3, <1>4, <3>1, <3>2, <3>3
  <2>2. DOMAIN cons' = DOMAIN offsets' /\ active' \in SUBSET DOMAIN cons'
    BY <1>2, <1>3, <1>4 DEF Readers
  <2>3. \A m \in DOMAIN cons' : /\ cons'[m] \in [committed : Offset, volatile : Offset]
                                /\ cons'[m].committed = offsets'[m] /\ offsets'[m] <= cons'[m].volatile
    BY <1>2, <1>4 DEF Readers
  <2> QED BY <1>5, <2>1, <2>2, <2>3 DEF Readers
<1> QED BY <1>1, <1>2, <1>3, <1>6, <1>7, ReaderInv
=============================================================================
