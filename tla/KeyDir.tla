-------------------------------- MODULE KeyDir --------------------------------
(***************************************************************************)
(* zendb-storage's KeyDir: an append-only file with an index in memory.    *)
(* The file is a sequence of units.  A record is a header unit that names  *)
(* its key and value, followed by the units of the value; a tombstone is   *)
(* one unit, and so is the sentinel behind the last record.  Units past    *)
(* the sentinel are whatever earlier records left there.  One thread       *)
(* calls, each call is one step; growing or shrinking the file may fail.   *)
(***************************************************************************)
EXTENDS Integers, SequencesExt

CONSTANTS
  Keys, Vals,
  ValueUnits(_),      \* units a value takes, at least 0
  InitialCapacity,    \* units of a fresh file
  RatioNum, RatioDen, \* compaction_ratio: 0/1 compacts always, 1/1 never
  Failures,           \* whether set_len may fail
  MaxUnits            \* bound on the file

VARIABLES
  file,     \* the mapped file
  index,    \* key -> [offset, size] of its record, or NoMeta
  stats,    \* [data, dead]: data_size and dead_bytes, in units
  mapped,   \* FALSE once compact failed to resize and left no mapping
  map,      \* what the calls so far make of a map
  undeleted \* keys whose delete failed to write its tombstone

vars == <<file, index, stats, mapped, map, undeleted>>

Absent == "absent"
NoMeta == [offset |-> 0, size |-> 0]
At == stats.data + 1   \* where the next record goes
Magic == <<"magic">>
Blank == <<"blank">>
Sentinel == <<"sentinel">>
Record(k, v) == <<<<"live", k, v>>>> \o [i \in 1 .. ValueUnits(v) |-> <<"part", v, i>>]
Tombstone(k) == <<<<"tombstone", k>>>>

(* A write of units at an offset of the mapping. *)
Write(f, at, units) == SubSeq(f, 1, at - 1) \o units \o SubSeq(f, at + Len(units), Len(f))

(* grow_into: twice the size, or more if that is not enough.               *)
Grown(f, end) ==
  IF end <= Len(f) THEN f ELSE f \o [i \in 1 .. Max({Len(f), end - Len(f)}) |-> Blank]
MayFail(end) == Failures /\ end > Len(file)

(* The units and the sentinel behind them, at the tail.                    *)
Appended(units) ==
  LET end == At + Len(units) IN Write(Grown(file, end), At, Append(units, Sentinel))

(* value_bytes_in and get.                                                 *)
ReadAt(f, meta) ==
  LET h == f[meta.offset]
  IN  IF h[1] = "live" /\ SubSeq(f, meta.offset, meta.offset + meta.size - 1) = Record(h[2], h[3])
      THEN h[3] ELSE "garbage"
Get(k) == IF index[k] = NoMeta THEN Absent ELSE ReadAt(file, index[k])

(* rebuild_index: index, dead units and tail found by a scan from at.      *)
RECURSIVE Rescan(_, _, _, _)
Rescan(f, at, idx, dead) ==
  LET h == f[at]
      n == IF h[1] = "live" THEN Len(Record(h[2], h[3])) ELSE 1
      meta == IF h[1] = "live" THEN [offset |-> at, size |-> n] ELSE NoMeta
  IN  IF h[1] = "sentinel" THEN [index |-> idx, dead |-> dead, data |-> at - 1]
      ELSE Rescan(f, at + n, [idx EXCEPT ![h[2]] = meta],
                  dead + idx[h[2]].size + IF h[1] = "live" THEN 0 ELSE 1)
RebuildIndex(f) == Rescan(f, 2, [k \in Keys |-> NoMeta], 0)

(* compact: the records slide forward in the order of their offsets; the   *)
(* file keeps its initial capacity.                                        *)
ByOffset(idx) == SetToSortSeq({k \in Keys : idx[k] # NoMeta}, LAMBDA a, b : idx[a].offset < idx[b].offset)

RECURSIVE Slide(_, _, _, _)
Slide(f, idx, ks, at) ==
  LET m == idx[Head(ks)]
  IN  IF ks = << >> THEN [file |-> Write(f, at, <<Sentinel>>), index |-> idx, data |-> at - 1, dead |-> 0]
      ELSE Slide(Write(f, at, SubSeq(f, m.offset, m.offset + m.size - 1)),
                 [idx EXCEPT ![Head(ks)].offset = at], SubSeq(ks, 2, Len(ks)), at + m.size)
Compacted(f, idx) == Slide(f, idx, ByOffset(idx), 2)

Shrunk(c) == SubSeq(c.file, 1, Min({Len(c.file), Max({c.data + 1, InitialCapacity})}))
---------------------------------------------------------------------------
Empty == [k \in Keys |-> NoMeta]
Fresh == <<Magic, Sentinel>> \o [i \in 1 .. InitialCapacity - 2 |-> Blank]

Init ==
  /\ file = Fresh
  /\ index = Empty /\ stats = [data |-> 1, dead |-> 0] /\ mapped = TRUE
  /\ map = [k \in Keys |-> Absent] /\ undeleted = {}

(* Leaves the file f, compacted with index idx; the resize may fail.       *)
Compact(f, idx) ==
  LET c == Compacted(f, idx)
  IN  /\ index' = c.index /\ stats' = [data |-> c.data, dead |-> c.dead] /\ undeleted' = {}
      /\ \/ file' = Shrunk(c) /\ mapped' = TRUE
         \/ Failures /\ file' = c.file /\ mapped' = FALSE

(* The end of a call that wrote: maybe_compact.                            *)
Due(st) == RatioNum < RatioDen /\ st.dead * RatioDen >= RatioNum * st.data

MaybeCompact(f, idx, st, undel) ==
  \/ Due(st) /\ Compact(f, idx)
  \/ ~Due(st) /\ file' = f /\ index' = idx /\ stats' = st /\ undeleted' = undel /\ UNCHANGED mapped

(* A put whose growth fails changes nothing.                               *)
(* Mutant of Put: the record it replaces is not counted as dead. *)
PutUncounted(k, v) ==
  LET n == Len(Record(k, v))
  IN  /\ mapped /\ At + n <= MaxUnits
      /\ MaybeCompact(Appended(Record(k, v)), [index EXCEPT ![k] = [offset |-> At, size |-> n]],
                      [data |-> stats.data + n, dead |-> stats.dead], undeleted \ {k})
      /\ map' = [map EXCEPT ![k] = v]

Put(k, v) ==
  LET n == Len(Record(k, v))
  IN  /\ mapped /\ At + n <= MaxUnits
      /\ MaybeCompact(Appended(Record(k, v)), [index EXCEPT ![k] = [offset |-> At, size |-> n]],
                      [data |-> stats.data + n, dead |-> stats.dead + index[k].size], undeleted \ {k})
      /\ map' = [map EXCEPT ![k] = v]

PutIfAbsent(k, v) == index[k] = NoMeta /\ Put(k, v)
Replace(k, v) == index[k] # NoMeta /\ Put(k, v)

(* Writes the tombstone of k and forgets it.                               *)
Erase(k) ==
  /\ At + 1 <= MaxUnits
  /\ MaybeCompact(Appended(Tombstone(k)), [index EXCEPT ![k] = NoMeta],
                  [data |-> stats.data + 1, dead |-> stats.dead + index[k].size + 1], undeleted \ {k})
  /\ map' = [map EXCEPT ![k] = Absent]

(* delete leaves the index before the tombstone is written; without room   *)
(* for it the call fails and the key is gone until the file is reopened.   *)
Delete(k) ==
  /\ mapped /\ index[k] # NoMeta
  /\ \/ Erase(k)
     \/ /\ MayFail(At + 1)
        /\ index' = [index EXCEPT ![k] = NoMeta] /\ stats' = [stats EXCEPT !.dead = @ + index[k].size]
        /\ map' = [map EXCEPT ![k] = Absent] /\ undeleted' = undeleted \cup {k}
        /\ UNCHANGED <<file, mapped>>

(* update: f gives the new value for the current one, or none; a failing   *)
(* tombstone leaves the key, its record already counted as dead.           *)
Update(k, f) ==
  /\ mapped
  /\ \/ f[Get(k)] # Absent /\ Put(k, f[Get(k)])
     \/ f[Get(k)] = Absent /\ index[k] # NoMeta /\ Erase(k)
     \/ /\ f[Get(k)] = Absent /\ index[k] # NoMeta /\ MayFail(At + 1) /\ stats.dead < MaxUnits
        /\ stats' = [stats EXCEPT !.dead = @ + index[k].size]
        /\ UNCHANGED <<file, index, mapped, map, undeleted>>

Compaction == mapped /\ Compact(file, index) /\ UNCHANGED map

(* Mutant of Clear: the sentinel stays where the old tail was. *)
ClearIndex ==
  /\ mapped
  /\ index' = Empty /\ stats' = [data |-> 1, dead |-> 0] /\ UNCHANGED file
  /\ map' = [k \in Keys |-> Absent] /\ undeleted' = {} /\ UNCHANGED mapped

Clear ==
  /\ mapped
  /\ index' = Empty /\ stats' = [data |-> 1, dead |-> 0] /\ file' = Write(file, 1, <<Magic, Sentinel>>)
  /\ map' = [k \in Keys |-> Absent] /\ undeleted' = {} /\ UNCHANGED mapped

(* Dropping the KeyDir and opening its file again.                         *)
Reopen ==
  LET r == RebuildIndex(file)
  IN  /\ index' = r.index /\ stats' = [data |-> r.data, dead |-> r.dead] /\ mapped' = TRUE
      /\ map' = [k \in Keys |-> IF k \in undeleted THEN ReadAt(file, r.index[k]) ELSE map[k]]
      /\ undeleted' = {} /\ UNCHANGED file

(* The functions given to update: present becomes absent and the reverse.  *)
Updates == {[w \in Vals \cup {Absent} |-> IF w = Absent THEN v ELSE Absent] : v \in Vals}

Next ==
  \/ \E k \in Keys, v \in Vals : Put(k, v) \/ PutIfAbsent(k, v) \/ Replace(k, v)
  \/ \E k \in Keys : Delete(k)
  \/ \E k \in Keys, f \in Updates : Update(k, f)
  \/ Compaction
  \/ Clear
  \/ Reopen

Spec == Init /\ [][Next]_vars
---------------------------------------------------------------------------
(* The index points into the file, whose mapped part ends with a sentinel. *)
TypeOK ==
  /\ stats.data + 1 \in 2 .. Len(file) /\ stats.dead \in Nat /\ Len(file) >= InitialCapacity
  /\ \A k \in Keys : index[k].offset + index[k].size <= stats.data + 1

(* get finds for every key the value the calls so far left there: records  *)
(* that compaction slides over each other stay whole and are found.        *)
GetsExact == mapped => \A k \in Keys : Get(k) = map[k]

(* Opening the file again shows what the index showed, and nothing that    *)
(* lies behind the sentinel; only a key whose delete could not write its   *)
(* tombstone comes back.  (rebuild_index against put, delete, compact.)    *)
ReopenExact ==
  LET r == RebuildIndex(file)
  IN  /\ r.data = stats.data
      /\ \A k \in Keys : r.index[k] = index[k] \/ (k \in undeleted /\ index[k] = NoMeta)

(* dead_bytes, kept by the writes, is what a scan of the file counts; a    *)
(* failed write may make it too large, never too small.                    *)
DeadExact ==
  LET r == RebuildIndex(file) IN stats.dead >= r.dead /\ (~Failures => stats.dead = r.dead)

(* Compaction keeps up: between calls that succeed the dead part stays     *)
(* below a positive compaction_ratio (maybe_compact).                      *)
DeadBounded == RatioNum < RatioDen => stats.dead * RatioDen < RatioNum * stats.data
=============================================================================
