------------------------------ MODULE SkipList ------------------------------
(***************************************************************************)
(* zendb-storage's SkipList, the cache of a Table and the in-memory State: *)
(* nodes in an arena, linked forward on up to MaxLevel levels and backward *)
(* on the lowest, freed slots reused before the arena grows.  Every call   *)
(* holds the list exclusively and is one step; the height of a new node is *)
(* random, so any.  Links are slots, Nil is none.                          *)
(***************************************************************************)
EXTENDS Integers, SequencesExt

CONSTANTS
  Keys, Vals,
  Capacity,   \* max_entries
  MaxLevel    \* MAX_LEVEL

VARIABLES
  list,     \* [arena, free, heads, tail, height, entries]
  refused   \* whether the last call returned StorageFull

vars == <<list, refused>>

Nil == 0
None == "none"
Levels == 1 .. MaxLevel
NoLinks == [l \in Levels |-> Nil]
Node(k, v, level) == [key |-> k, value |-> v, next |-> NoLinks, prev |-> Nil, level |-> level]
New == [arena |-> << >>, free |-> << >>, heads |-> NoLinks, tail |-> Nil, height |-> 0, entries |-> 0]

(* What follows a node on a level, or the level's head. *)
Succ(s, at, l) == IF at = Nil THEN s.heads[l] ELSE s.arena[at].next[l]

(* search: the last node before k on every level, each looked for from the *)
(* one found a level higher, and the node of k.                            *)
RECURSIVE Advance(_, _, _, _)
Advance(s, at, l, k) ==
  LET n == Succ(s, at, l)
  IN  IF n # Nil /\ s.arena[n].key < k THEN Advance(s, n, l, k) ELSE at

Search(s, k) ==
  LET update[l \in Levels] ==
        IF l > s.height THEN Nil
        ELSE Advance(s, IF l = MaxLevel THEN Nil ELSE update[l + 1], l, k)
      hits == {n \in {Succ(s, update[l], l) : l \in 1 .. s.height} \ {Nil} : s.arena[n].key = k}
  IN  [update |-> update, found |-> IF hits = {} THEN Nil ELSE CHOOSE n \in hits : TRUE]

(* A link to `to' from every predecessor of the lowest levels. *)
Repoint(s, update, level, to) ==
  [s EXCEPT
    !.heads = [l \in Levels |-> IF l <= level /\ update[l] = Nil THEN to[l] ELSE @[l]],
    !.arena = [i \in DOMAIN @ |->
      [@[i] EXCEPT !.next = [l \in Levels |-> IF l <= level /\ update[l] = i THEN to[l] ELSE @[l]]]]]

(* The back link of n, which for the end of the list is its tail. *)
SetPrev(s, n, p) == IF n = Nil THEN [s EXCEPT !.tail = p] ELSE [s EXCEPT !.arena[n].prev = p]
---------------------------------------------------------------------------
(* alloc: a freed slot, or a new one while there are fewer than Capacity;  *)
(* Nil when there is none.                                                 *)
(* Mutant of Alloc: freed slots count as used. *)
AllocGrows(s, node) ==
  IF Len(s.arena) < Capacity THEN [list |-> [s EXCEPT !.arena = Append(@, node)], index |-> Len(s.arena) + 1]
  ELSE [list |-> s, index |-> Nil]

Alloc(s, node) ==
  IF s.free # << >> THEN
    [list |-> [s EXCEPT !.arena[Last(s.free)] = node, !.free = Front(@)], index |-> Last(s.free)]
  ELSE IF Len(s.arena) < Capacity THEN
    [list |-> [s EXCEPT !.arena = Append(@, node)], index |-> Len(s.arena) + 1]
  ELSE [list |-> s, index |-> Nil]

InsertNew(s, k, v, update, level) ==
  LET node == [Node(k, v, level) EXCEPT
                 !.prev = update[1], !.next = [l \in Levels |-> IF l <= level THEN Succ(s, update[l], l) ELSE Nil]]
      a == Alloc(s, node)
      linked == Repoint(a.list, update, level, [l \in Levels |-> a.index])
  IN  IF a.index = Nil THEN a
      ELSE [a EXCEPT !.list = [SetPrev(linked, node.next[1], a.index)
                                 EXCEPT !.height = Max({@, level}), !.entries = @ + 1]]

(* remove_found: unlinks the node, lowers the list to its highest level    *)
(* that is not empty, and frees the slot, whose key and level stay.        *)
RemoveFound(s, update, index) ==
  LET node == s.arena[index]
      u == SetPrev(Repoint(s, update, node.level, node.next), node.next[1], node.prev)
  IN  [u EXCEPT !.height = Max({0} \cup {l \in 1 .. u.height : u.heads[l] # Nil}),
                !.arena[index] = Node(node.key, None, node.level),
                !.free = Append(@, index), !.entries = @ - 1]

SetValue(s, index, v) == [s EXCEPT !.arena[index].value = v]
---------------------------------------------------------------------------
(* The loop of the bulk calls: one pass over the lowest level that keeps   *)
(* the last node passed on every level, from call to call of the batch.    *)
Start(s) == [list |-> s, update |-> NoLinks, current |-> s.heads[1], full |-> FALSE]

(* Mutant of CatchUp: only the lowest level is kept. *)
RECURSIVE CatchUpLowest(_, _)
CatchUpLowest(c, k) ==
  LET n == c.list.arena[c.current]
  IN  IF c.current = Nil \/ n.key >= k THEN c
      ELSE CatchUpLowest([c EXCEPT !.update[1] = c.current, !.current = n.next[1]], k)

RECURSIVE CatchUp(_, _)
CatchUp(c, k) ==
  LET n == c.list.arena[c.current]
  IN  IF c.current = Nil \/ n.key >= k THEN c
      ELSE CatchUp([c EXCEPT !.update = [l \in Levels |-> IF l <= n.level THEN c.current ELSE @[l]],
                             !.current = n.next[1]], k)

At(c, k) == c.current # Nil /\ c.list.arena[c.current].key = k

(* One pair <<key, value, height of its node>>; an error ends the call.    *)
BulkPutOne(c0, kvl) ==
  LET c == CatchUp(c0, kvl[1])
      a == InsertNew(c.list, kvl[1], kvl[2], c.update, kvl[3])
  IN  IF c0.full THEN c0
      ELSE IF At(c, kvl[1]) THEN [c EXCEPT !.list = SetValue(@, c.current, kvl[2])]
      ELSE IF a.index = Nil THEN [c EXCEPT !.full = TRUE]
      ELSE [c EXCEPT !.list = a.list, !.current = a.index]

BulkDeleteOne(c0, k) ==
  LET c == CatchUp(c0, k)
  IN  IF At(c, k) THEN [c EXCEPT !.list = RemoveFound(@, c.update, c.current),
                                 !.current = c.list.arena[c.current].next[1]]
      ELSE c
---------------------------------------------------------------------------
Init == list = New /\ refused = FALSE

(* Stores v under k, in the node of k or in a new one of some height.      *)
Store(k, v) ==
  LET f == Search(list, k)
  IN  \/ f.found # Nil /\ list' = SetValue(list, f.found, v) /\ refused' = FALSE
      \/ /\ f.found = Nil
         /\ \E level \in Levels :
              LET a == InsertNew(list, k, v, f.update, level)
              IN  list' = a.list /\ refused' = (a.index = Nil)

Unlink(k) ==
  LET f == Search(list, k)
  IN  f.found # Nil /\ list' = RemoveFound(list, f.update, f.found) /\ refused' = FALSE

Put(k, v) == Store(k, v)
PutIfAbsent(k, v) == Search(list, k).found = Nil /\ Store(k, v)
Replace(k, v) == Store(k, v)
Delete(k) == Unlink(k)

(* update: f makes of the value of k, or of None, the next one. *)
Get(k) == LET n == Search(list, k).found IN IF n = Nil THEN None ELSE list.arena[n].value
Update(k, f) ==
  \/ f[Get(k)] # None /\ Store(k, f[Get(k)])
  \/ f[Get(k)] = None /\ Unlink(k)

BulkPutSorted(batch) ==
  LET c == FoldLeft(BulkPutOne, Start(list), batch) IN list' = c.list /\ refused' = c.full

BulkDeleteSorted(ks) == list' = FoldLeft(BulkDeleteOne, Start(list), ks).list /\ refused' = FALSE

Clear == list' = New /\ refused' = FALSE

(* The functions given to update: present becomes absent and the reverse.  *)
Updates == {[w \in Vals \cup {None} |-> IF w = None THEN v ELSE None] : v \in Vals}

Next ==
  \/ \E k \in Keys, v \in Vals : Put(k, v) \/ PutIfAbsent(k, v) \/ Replace(k, v)
  \/ \E k \in Keys : Delete(k)
  \/ \E k \in Keys, f \in Updates : Update(k, f)
  \/ \E a, b \in Keys \X Vals \X Levels : a[1] <= b[1] /\ BulkPutSorted(<<a, b>>)
  \/ \E a, b \in Keys : a <= b /\ BulkDeleteSorted(<<a, b>>)
  \/ Clear

Spec == Init /\ [][Next]_vars
---------------------------------------------------------------------------
(* Iter, RangeIter, RevIter, RevRangeIter: a walk along the links. *)
Pair(n) == <<list.arena[n].key, list.arena[n].value>>
RECURSIVE Ascend(_, _)
Ascend(n, end) ==
  IF n = Nil \/ list.arena[n].key >= end THEN << >> ELSE <<Pair(n)>> \o Ascend(list.arena[n].next[1], end)
RECURSIVE Descend(_, _)
Descend(n, start) ==
  IF n = Nil \/ list.arena[n].key < start THEN << >> ELSE <<Pair(n)>> \o Descend(list.arena[n].prev, start)

FirstAtOrAfter(k) ==
  LET f == Search(list, k) IN IF f.found # Nil THEN f.found ELSE Succ(list, f.update[1], 1)

RangeOf(start, end) == Ascend(FirstAtOrAfter(start), end)

LastBefore(end) ==
  LET n == FirstAtOrAfter(end)
      p == IF n = Nil THEN Nil ELSE list.arena[n].prev
  IN  IF p # Nil THEN p
      ELSE IF list.tail # Nil /\ list.arena[list.tail].key < end THEN list.tail ELSE Nil

RangeRevOf(start, end) == Descend(LastBefore(end), start)
---------------------------------------------------------------------------
Live == {i \in DOMAIN list.arena : i \notin Range(list.free)}
Slot(k) == CHOOSE i \in Live : list.arena[i].key = k
Contents == [k \in {list.arena[i].key : i \in Live} |-> list.arena[Slot(k)].value]
Map == INSTANCE BoundedMap WITH rows <- Contents

(* Slots and links stay in the arena, which stays within max_entries.      *)
TypeOK ==
  /\ Len(list.arena) <= Capacity /\ list.height \in 0 .. MaxLevel
  /\ \A i \in Live : list.arena[i].value \in Vals /\ Range(list.arena[i].next) \subseteq Live \cup {Nil}

(* The slots in use hold different keys, are as many as stats.entries      *)
(* counts, and no slot is free twice (alloc, remove_found): none is lost   *)
(* and none is given to two keys.                                          *)
SlotsExact ==
  /\ list.entries = Cardinality(Live)
  /\ IsInjective(list.free)
  /\ \A i, j \in Live : list.arena[i].key = list.arena[j].key => i = j

(* Every level links, in key order, exactly the nodes that are as high, up *)
(* to the height of the list; back links and the tail mirror the lowest.   *)
Layered ==
  /\ \A l \in Levels, i \in Live \cup {Nil} :
       LET ahead == {j \in Live : list.arena[j].level >= l /\ (i = Nil \/ list.arena[j].key > list.arena[i].key)}
       IN  i = Nil \/ list.arena[i].level >= l =>
             Succ(list, i, l) = IF ahead = {} THEN Nil
                                ELSE CHOOSE j \in ahead : \A h \in ahead : list.arena[j].key <= list.arena[h].key
  /\ list.height = Max({0} \cup {list.arena[i].level : i \in Live})
  /\ \A i \in Live : IF list.arena[i].next[1] = Nil THEN list.tail = i
                                                    ELSE list.arena[list.arena[i].next[1]].prev = i

(* get, range and range_rev find, for every key and between every two      *)
(* bounds, what the slots in use hold: a range ends before its end bound,  *)
(* whether or not a node lies at or after it.                              *)
Between(start, end) ==
  LET ks == SetToSortSeq({k \in DOMAIN Contents : start <= k /\ k < end}, <)
  IN  [i \in DOMAIN ks |-> <<ks[i], Contents[ks[i]]>>]
ReadsExact ==
  /\ \A k \in Keys : Get(k) = IF k \in DOMAIN Contents THEN Contents[k] ELSE None
  /\ \A start, end \in Keys : /\ RangeOf(start, end) = Between(start, end)
                              /\ RangeRevOf(start, end) = Reverse(Between(start, end))

(* Each call does what the map of BoundedMap does: in particular a new key *)
(* is refused only when max_entries keys are stored, however many slots    *)
(* were freed and reused, and a refused call changes nothing of the map.   *)
IsBoundedMap == Map!Spec
=============================================================================
