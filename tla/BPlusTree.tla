------------------------------ MODULE BPlusTree ------------------------------
(***************************************************************************)
(* zendb-storage's BPlusTree: leaves and internal pages in one file, a     *)
(* free list threaded through freed pages, extents for large values, and   *)
(* counters in the meta page.  Every call is one step: the tree is used by *)
(* one thread and promises no crash recovery.  Keys are byte strings in    *)
(* lexicographic order.  db is the mapped file: page[p] is page p, so the  *)
(* pages counter is Len(page) + 1, and stats mirrors the meta page.        *)
(***************************************************************************)
EXTENDS Integers, SequencesExt

CONSTANTS
  Keys,              \* serialized keys: sequences of naturals
  Vals,              \* values
  EntrySize(_, _),   \* bytes of a leaf entry with its slot, for a key and a value
  ExtentPages(_),    \* pages of a value's extent, 0 when it is inline
  LeafCap,           \* PAGE_SIZE - LEAF_HEADER_SIZE
  InternalCap,       \* separators an internal page holds
  RatioNum, RatioDen, \* compaction_ratio; 1/1 disables automatic compaction
  MaxPages,          \* bound on the pages of the file
  BulkLeaves,        \* bound on the leaves of a tree given to bulk_delete_sorted
  Loads              \* trees given to bulk_put_sorted: "none", "cleared", "emptied"

VARIABLES
  db,   \* the file: pages and meta page
  map   \* what the calls so far make of a map, to compare reads with

vars == <<db, map>>
Absent == "absent"

Less(a, b) ==
  \E i \in 1 .. Len(b) : /\ \A j \in 1 .. i - 1 : j <= Len(a) /\ a[j] = b[j]
                         /\ i > Len(a) \/ a[i] < b[i]

(* The keys of S in order, and the pairs of a function on keys. *)
Placed(k, ks) == SelectSeq(ks, LAMBDA x : Less(x, k)) \o <<k>> \o SelectSeq(ks, LAMBDA x : Less(k, x))
Sorted(S) == FoldSet(Placed, << >>, S)
Items(f) == LET ks == Sorted(DOMAIN f) IN [i \in DOMAIN ks |-> <<ks[i], f[ks[i]]>>]

TruncatedSeparator(left, right) ==
  LET differ == {i \in 1 .. Min({Len(left), Len(right)}) : right[i] > left[i]}
  IN  IF differ # {} THEN SubSeq(right, 1, Min(differ)) ELSE Append(left, 0)
---------------------------------------------------------------------------
(* Pages.  A leaf's entries are <<key, value, extent>>, an internal page's *)
(* seps <<separator, child>>; 0 is "no page".                              *)
Leaf(ents, next, prev) == [type |-> "leaf", ents |-> ents, next |-> next, prev |-> prev]
Internal(left, seps) == [type |-> "internal", left |-> left, seps |-> seps]
Data(v, i) == [type |-> "data", val |-> v, part |-> i]
Freed(next) == [type |-> "free", next |-> next]

IsLeaf(d, p) == d.page[p].type = "leaf"
Used(ents) == FoldFunction(LAMBDA e, n : n + EntrySize(e[1], e[2]), 0, ents)

Cleared ==
  [page |-> <<Leaf(<< >>, 0, 0)>>, root |-> 1, freeHead |-> 0, entries |-> 0, rightmost |-> 1,
   leafPages |-> 1, leafBytes |-> 0, freePages |-> 0]

(* alloc_page: the page, and the file once it is taken. *)
AllocPage(d) == IF d.freeHead # 0 THEN d.freeHead ELSE Len(d.page) + 1

Alloc(d) ==
  IF d.freeHead # 0
  THEN [d EXCEPT !.freeHead = d.page[@].next, !.freePages = @ - 1]
  ELSE [d EXCEPT !.page = Append(@, Freed(0))]

FreePage(d, p) ==
  [d EXCEPT !.page[p] = Freed(d.freeHead), !.freeHead = p, !.freePages = @ + 1]

(* The free list, cut off where a cycle would be walked again and at a     *)
(* page that something else has taken.                                     *)
RECURSIVE FreeFrom(_, _, _)
FreeFrom(d, p, n) ==
  IF p = 0 \/ n = 0 THEN << >>
  ELSE <<p>> \o IF d.page[p].type = "free" THEN FreeFrom(d, d.page[p].next, n - 1) ELSE << >>
FreeList(d) == FreeFrom(d, d.freeHead, Len(d.page) + 1)

(* The places in the free list where n descending neighbours start. *)
Runs(d, n) ==
  LET f == FreeList(d)
  IN  {i \in 1 .. Len(f) - n + 1 : \A j \in i .. i + n - 2 : f[j] = f[j + 1] + 1}

(* Mutant of UnlinkRun: the page before the run still points into it. *)
UnlinkRunHead(d, i, n) ==
  [d EXCEPT !.freeHead = IF i = 1 THEN d.page[FreeList(d)[i + n - 1]].next ELSE @,
            !.freePages = @ - n]

UnlinkRun(d, i, n) ==
  LET f == FreeList(d)
      after == d.page[f[i + n - 1]].next
      cut == [d EXCEPT !.freePages = @ - n]
  IN  IF i = 1 THEN [cut EXCEPT !.freeHead = after] ELSE [cut EXCEPT !.page[f[i - 1]].next = after]

(* write_extent: where n pages start, and the file once v is written.      *)
ExtentStart(d, n) ==
  IF n = 0 THEN 0
  ELSE IF Runs(d, n) # {} THEN FreeList(d)[Min(Runs(d, n)) + n - 1] ELSE Len(d.page) + 1
WriteExtent(d, v) ==
  LET n == ExtentPages(v)
      s == ExtentStart(d, n)
      a == IF Runs(d, n) # {} THEN UnlinkRun(d, Min(Runs(d, n)), n)
           ELSE [d EXCEPT !.page = @ \o [i \in 1 .. n |-> Freed(0)]]
  IN  IF n = 0 THEN d
      ELSE [a EXCEPT !.page = SubSeq(@, 1, s - 1) \o [i \in 1 .. n |-> Data(v, i - 1)]
                              \o SubSeq(@, s + n, Len(@))]

RECURSIVE FreePages(_, _, _)
FreePages(d, p, n) == IF n = 0 THEN d ELSE FreePages(FreePage(d, p), p + 1, n - 1)
FreeExtent(d, e) == FreePages(d, e[3], ExtentPages(e[2]))
---------------------------------------------------------------------------
(* Descent and point reads.                                                *)
Child(n, k) ==
  LET i == Cardinality({j \in DOMAIN n.seps : ~Less(k, n.seps[j][1])})
  IN  IF i = 0 THEN n.left ELSE n.seps[i][2]

(* descend_to_leaf: the pages from p down to the leaf for k. *)
RECURSIVE Path(_, _, _)
Path(d, p, k) == IF IsLeaf(d, p) THEN <<p>> ELSE <<p>> \o Path(d, Child(d.page[p], k), k)
Parents(path) == Front(path)
FindLeaf(d, k) == Last(Path(d, d.root, k))

(* leaf_find_slot: the entry for k, as a sequence of at most one. *)
Slot(d, p, k) == SelectSeq(d.page[p].ents, LAMBDA e : e[1] = k)
ContainsKey(d, k) == Slot(d, FindLeaf(d, k), k) # << >>

(* value_bytes_at: an extent holds the value it was written with, unless   *)
(* one of its pages has been handed to something else.                     *)
ReadValue(d, e) ==
  IF \A i \in 0 .. ExtentPages(e[2]) - 1 : d.page[e[3] + i] = Data(e[2], i) THEN e[2] ELSE "garbage"
Get(d, k) == LET s == Slot(d, FindLeaf(d, k), k) IN IF s = << >> THEN Absent ELSE ReadValue(d, s[1])

RECURSIVE FirstLeaf(_, _)
FirstLeaf(d, p) == IF IsLeaf(d, p) THEN p ELSE FirstLeaf(d, d.page[p].left)

(* The leaves from p on by next, or by prev; cut off at a cycle or a page  *)
(* that is no leaf.                                                        *)
RECURSIVE Chain(_, _, _), ChainRev(_, _, _)
Chain(d, p, n) ==
  IF p = 0 \/ n = 0 THEN << >>
  ELSE IF ~IsLeaf(d, p) THEN << >> ELSE <<p>> \o Chain(d, d.page[p].next, n - 1)
ChainRev(d, p, n) ==
  IF p = 0 \/ n = 0 THEN << >>
  ELSE IF ~IsLeaf(d, p) THEN << >> ELSE <<p>> \o ChainRev(d, d.page[p].prev, n - 1)

Leaves(d) == Chain(d, FirstLeaf(d, d.root), Len(d.page) + 1)
LeafEntries(d, leaves) == FlattenSeq([i \in DOMAIN leaves |-> d.page[leaves[i]].ents])
Pairs(d, ents) == [i \in DOMAIN ents |-> <<ents[i][1], ReadValue(d, ents[i])>>]

(* The scans: entries, entries_rev, range over [from, to) and range_rev.   *)
Entries(d) == Pairs(d, LeafEntries(d, Leaves(d)))
Downward(d, leaf) ==
  LET leaves == ChainRev(d, leaf, Len(d.page) + 1)
  IN  FlattenSeq([i \in DOMAIN leaves |-> Reverse(d.page[leaves[i]].ents)])
EntriesRev(d) == IF d.entries = 0 THEN << >> ELSE Pairs(d, Downward(d, d.rightmost))

(* Until(q, stops): q up to the first of the positions in stops.           *)
Until(q, stops) == SubSeq(q, 1, Min(stops \cup {Len(q) + 1}) - 1)
UpTo(ents, to) == Until(ents, {i \in DOMAIN ents : ~Less(ents[i][1], to)})
DownTo(ents, from) == Until(ents, {i \in DOMAIN ents : Less(ents[i][1], from)})

RangeOf(d, from, to) ==
  LET leaf == FindLeaf(d, from)
      skip == Cardinality({i \in DOMAIN d.page[leaf].ents : Less(d.page[leaf].ents[i][1], from)})
      ents == LeafEntries(d, Chain(d, leaf, Len(d.page) + 1))
  IN  Pairs(d, UpTo(SubSeq(ents, skip + 1, Len(ents)), to))

RangeRev(d, from, to) ==
  LET leaf == FindLeaf(d, to)
      skip == Cardinality({i \in DOMAIN d.page[leaf].ents : ~Less(d.page[leaf].ents[i][1], to)})
      ents == Downward(d, leaf)
  IN  Pairs(d, DownTo(SubSeq(ents, skip + 1, Len(ents)), from))

(* first and last: nothing in an empty tree, else the ends of the first    *)
(* leaf by next, and of the first by prev, that holds an entry.            *)
NonEmpty(d, leaves) == SelectSeq(leaves, LAMBDA p : d.page[p].ents # << >>)
FirstEntry(d) ==
  LET s == NonEmpty(d, Leaves(d))
  IN  IF d.entries = 0 \/ s = << >> THEN << >> ELSE Pairs(d, <<Head(d.page[s[1]].ents)>>)
LastEntry(d) ==
  LET s == NonEmpty(d, ChainRev(d, d.rightmost, Len(d.page) + 1))
  IN  IF d.entries = 0 \/ s = << >> THEN << >> ELSE Pairs(d, <<Last(d.page[s[1]].ents)>>)
---------------------------------------------------------------------------
(* Insertion.  SplitPoint is the number of entries, of the given sizes,    *)
(* that stay on the left: the first prefix of at least half the bytes.     *)
PrefixSum(sizes, n) == FoldFunction(LAMBDA a, b : a + b, 0, SubSeq(sizes, 1, n))
SplitPoint(sizes) ==
  LET half == PrefixSum(sizes, Len(sizes)) \div 2
      mid == Min({m \in DOMAIN sizes : PrefixSum(sizes, m) >= half})
  IN  Min({mid, Len(sizes) - 1})

(* write_leaf_entry_raw: the file with the entry's extent, and the entry.  *)
NewEntry(d, k, v) == <<k, v, ExtentStart(d, ExtentPages(v))>>

AddBytes(d, k, v) == [d EXCEPT !.leafBytes = @ + EntrySize(k, v)]

HasRoom(d, p, k, v) == Used(d.page[p].ents) + EntrySize(k, v) <= LeafCap
InOrder(ents, e) ==
  SelectSeq(ents, LAMBDA x : Less(x[1], e[1])) \o <<e>> \o SelectSeq(ents, LAMBDA x : Less(e[1], x[1]))

(* The leaf after a split one, or the meta page, learns of the new leaf.   *)
LinkBack(d, next, right) ==
  IF next # 0 THEN [d EXCEPT !.page[next].prev = right] ELSE [d EXCEPT !.rightmost = right]

(* leaf_split.  A leaf is always packed, so one that has no room for the   *)
(* entry has to be split: the re-pack branch does not apply.               *)
LeafSplit(d, p, k, v) ==
  LET right == AllocPage(d)
      fresh == Alloc(d)
      written == WriteExtent(fresh, v)
      old == d.page[p]
      order == InOrder(old.ents, NewEntry(fresh, k, v))
      mid == SplitPoint([i \in DOMAIN order |-> EntrySize(order[i][1], order[i][2])])
      linked == [written EXCEPT !.page[p] = Leaf(SubSeq(order, 1, mid), right, old.prev),
                                !.page[right] = Leaf(SubSeq(order, mid + 1, Len(order)), old.next, p),
                                !.leafPages = @ + 1]
  IN  [db |-> LinkBack(linked, old.next, right),
       sep |-> TruncatedSeparator(order[mid][1], order[mid + 1][1]), right |-> right]

(* internal_split: the two halves of a full page; the separator between    *)
(* them goes up with the right one.                                        *)
(* Mutant of InternalSplit: the right half is entered by its own left's child. *)
InternalSplitLeft(n, order, mid) ==
  [left |-> Internal(n.left, SubSeq(order, 1, mid)),
   right |-> Internal(order[mid][2], SubSeq(order, mid + 2, Len(order))),
   sep |-> TruncatedSeparator(order[mid][1], order[mid + 1][1])]

InternalSplit(n, order, mid) ==
  [left |-> Internal(n.left, SubSeq(order, 1, mid)),
   right |-> Internal(order[mid + 1][2], SubSeq(order, mid + 2, Len(order))),
   sep |-> TruncatedSeparator(order[mid][1], order[mid + 1][1])]

(* internal_insert: the new separator goes behind those not above it.      *)
SepsWith(n, sep, child) ==
  SelectSeq(n.seps, LAMBDA s : ~Less(sep, s[1])) \o <<<<sep, child>>>>
    \o SelectSeq(n.seps, LAMBDA s : Less(sep, s[1]))

(* cascade_split: up the path, a new root at its end. *)
RECURSIVE CascadeSplit(_, _, _, _, _)
CascadeSplit(d, path, left, sep, right) ==
  LET new == AllocPage(d)
      p == Last(path)
      n == d.page[p]
      order == SepsWith(n, sep, right)
      split == InternalSplit(n, order, SplitPoint([i \in DOMAIN order |-> 1]))
  IN  IF path = << >>
      THEN [Alloc(d) EXCEPT !.page[new] = Internal(left, <<<<sep, right>>>>), !.root = new]
      ELSE IF Len(order) <= InternalCap THEN [d EXCEPT !.page[p].seps = order]
      ELSE CascadeSplit([Alloc(d) EXCEPT !.page[p] = split.left, !.page[new] = split.right],
                        Front(path), p, split.sep, new)

(* delete_at, and the removal that leaf_insert_bytes makes of an old entry *)
(* (its in-place overwrite has the same effect on the leaf).               *)
RemoveEntry(d, p, e) ==
  [FreeExtent(d, e) EXCEPT !.page[p].ents = SelectSeq(@, LAMBDA x : x # e),
                           !.leafBytes = @ - EntrySize(e[1], e[2])]

(* The leaf without k: an old entry goes first, its extent included.       *)
WithoutOld(d, p, k) ==
  LET old == Slot(d, p, k)
  IN  IF old = << >> THEN [d EXCEPT !.entries = @ + 1] ELSE RemoveEntry(d, p, old[1])

InsertBytes(d, k, v) ==
  LET path == Path(d, d.root, k)
      p == Last(path)
      base == WithoutOld(d, p, k)
      split == LeafSplit(base, p, k, v)
  IN  IF HasRoom(base, p, k, v)
      THEN AddBytes([WriteExtent(base, v) EXCEPT !.page[p].ents = InOrder(@, NewEntry(base, k, v))], k, v)
      ELSE CascadeSplit(AddBytes(split.db, k, v), Parents(path), p, split.sep, split.right)

DeleteBytes(d, k) ==
  LET p == FindLeaf(d, k)
  IN  IF ContainsKey(d, k) THEN [RemoveEntry(d, p, Slot(d, p, k)[1]) EXCEPT !.entries = @ - 1] ELSE d
---------------------------------------------------------------------------
(* Building from sorted entries.  A child is [page, first, last]: a page   *)
(* and the least and greatest key reached through it.                      *)
Separator(left, right) == TruncatedSeparator(left.last, right.first)

(* One level: parents over children i and on, the last of them being open. *)
RECURSIVE Level(_, _, _, _)
Level(d, children, i, parents) ==
  LET c == children[i]
      open == Last(parents)
      new == AllocPage(d)
  IN  IF i > Len(children) THEN [db |-> d, parents |-> parents]
      ELSE IF parents # << >> /\ Len(d.page[open.page].seps) < InternalCap
      THEN Level([d EXCEPT !.page[open.page].seps = Append(@, <<Separator(children[i - 1], c), c.page>>)],
                 children, i + 1, Append(Front(parents), [open EXCEPT !.last = c.last]))
      ELSE Level([Alloc(d) EXCEPT !.page[new] = Internal(c.page, << >>)],
                 children, i + 1, Append(parents, [c EXCEPT !.page = new]))

(* build_internal_levels.  At the end the root flag of "the old root leaf  *)
(* (page 1)" is cleared: a bit of that page, whatever it holds by then.    *)
ClearFlag(d) ==
  IF d.root # 1 /\ d.page[1].type = "data" THEN [d EXCEPT !.page[1].val = "garbage"] ELSE d
RECURSIVE BuildInternalLevels(_, _)
BuildInternalLevels(d, children) ==
  LET up == Level(d, children, 1, << >>)
  IN  IF Len(children) = 1 THEN ClearFlag([d EXCEPT !.root = children[1].page])
      ELSE BuildInternalLevels(up.db, up.parents)

(* BottomUpBuilder: push the items from page 1 on, then finish.            *)
Child0(p, k) == [page |-> p, first |-> k, last |-> k]
Entry(d, p, k, v) ==
  AddBytes([WriteExtent(d, v) EXCEPT !.page[p].ents = Append(@, NewEntry(d, k, v))], k, v)
RECURSIVE BottomUp(_, _, _)
BottomUp(d, items, leaves) ==
  LET k == Head(items)[1]
      v == Head(items)[2]
      p == Last(leaves).page
      new == AllocPage(d)
      grown == [Alloc(d) EXCEPT !.page[p].next = new, !.page[new] = Leaf(<< >>, 0, p), !.leafPages = @ + 1]
  IN  IF items = << >> THEN [db |-> [d EXCEPT !.rightmost = p], leaves |-> leaves]
      ELSE IF HasRoom(d, p, k, v)
      THEN BottomUp(Entry(d, p, k, v), Tail(items), Append(Front(leaves),
             IF d.page[p].ents = << >> THEN Child0(p, k) ELSE [Last(leaves) EXCEPT !.last = k]))
      ELSE BottomUp(Entry(grown, new, k, v), Tail(items), Append(leaves, Child0(new, k)))
BottomUpBuild(d, items) ==
  LET b == BottomUp(d, items, <<Child0(1, << >>)>>)
      done == [b.db EXCEPT !.entries = @ + Len(items)]
  IN  IF Len(b.leaves) = 1 THEN done ELSE BuildInternalLevels(done, b.leaves)

(* bottom_up_build_encoded: of adjacent items with one key the last counts. *)
Coalesce(items) ==
  LET at == SelectSeq([i \in DOMAIN items |-> i], LAMBDA i : i = Len(items) \/ items[i + 1][1] # items[i][1])
  IN  [i \in DOMAIN at |-> items[at[i]]]

(* bottom_up_build_raw: the same loop, into a shadow file.                 *)
ShadowBuild(items) == BottomUpBuild(Cleared, items)
Compact(d) == ShadowBuild(Entries(d))

(* maybe_compact, by fragmentation_ratio: the free pages and the leaves    *)
(* that packing would save, of all pages but the meta page.                *)
CeilDiv(a, b) == (a + b - 1) \div b
Reclaimable(d) ==
  LET packed == IF d.leafBytes = 0 THEN 1 ELSE CeilDiv(d.leafBytes, LeafCap)
  IN  d.freePages + Max({0, d.leafPages - packed})
MaybeCompact(d) ==
  IF RatioNum < RatioDen /\ Reclaimable(d) * RatioDen >= RatioNum * Len(d.page) THEN Compact(d) ELSE d
---------------------------------------------------------------------------
(* bulk_delete_sorted.                                                     *)
RECURSIVE RemoveKeys(_, _, _)
RemoveKeys(d, leaves, S) ==
  LET p == Head(leaves)
      hit == SelectSeq(d.page[p].ents, LAMBDA e : e[1] \in S)
  IN  IF leaves = << >> THEN d
      ELSE IF hit = << >> THEN RemoveKeys(d, Tail(leaves), S)
      ELSE RemoveKeys([RemoveEntry(d, p, hit[1]) EXCEPT !.entries = @ - 1], leaves, S)

(* Unlinks and frees the empty leaves; prev is the last one kept so far.   *)
(* Mutant of DropEmpty: the leaf after a dropped one still points back to it. *)
RECURSIVE DropEmptyForward(_, _, _)
DropEmptyForward(d, leaves, prev) ==
  LET p == Head(leaves)
      next == d.page[p].next
      cut == IF prev # 0 THEN [d EXCEPT !.page[prev].next = next] ELSE d
  IN  IF leaves = << >> THEN d
      ELSE IF d.page[p].ents # << >> THEN DropEmptyForward(d, Tail(leaves), p)
      ELSE DropEmptyForward([FreePage(cut, p) EXCEPT !.leafPages = @ - 1], Tail(leaves), prev)

RECURSIVE DropEmpty(_, _, _)
DropEmpty(d, leaves, prev) ==
  LET p == Head(leaves)
      next == d.page[p].next
      cut == IF prev # 0 THEN [d EXCEPT !.page[prev].next = next] ELSE d
      back == IF next # 0 THEN [cut EXCEPT !.page[next].prev = prev] ELSE cut
  IN  IF leaves = << >> THEN d
      ELSE IF d.page[p].ents # << >> THEN DropEmpty(d, Tail(leaves), p)
      ELSE DropEmpty([FreePage(back, p) EXCEPT !.leafPages = @ - 1], Tail(leaves), prev)

(* Frees the internal pages below a stack of pages.  A page is taken for   *)
(* internal by its first byte, which in a freed page is the low byte of    *)
(* its link in the free list; such a page has a count of zero, and its     *)
(* leftmost child is a leaf that some internal page leads to as well.      *)
LooksInternal(d, p) ==
  \/ d.page[p].type = "internal"
  \/ d.page[p].type = "free" /\ d.page[p].next % 256 = 2
Children(n) == IF n.type = "internal" THEN <<n.left>> \o [i \in DOMAIN n.seps |-> n.seps[i][2]] ELSE << >>
RECURSIVE FreeInternals(_, _, _)
FreeInternals(d, stack, seen) ==
  LET p == Last(stack)
      push == SelectSeq(Children(d.page[p]), LAMBDA c : LooksInternal(d, c))
  IN  IF stack = << >> THEN d
      ELSE IF p \in seen THEN FreeInternals(d, Front(stack), seen)
      ELSE FreeInternals(FreePage(d, p), Front(stack) \o push, seen \cup {p})

Bounds(d, p) == [page |-> p, first |-> Head(d.page[p].ents)[1], last |-> Last(d.page[p].ents)[1]]
RebuildInternalFromLeaves(d) ==
  LET kept == NonEmpty(d, Leaves(d))
      dropped == DropEmpty(d, Leaves(d), 0)
      new == AllocPage(dropped)
      right == [dropped EXCEPT !.rightmost = Last(kept)]
      bare == IF d.root \in {Head(kept), Last(kept)} THEN right ELSE FreeInternals(right, <<d.root>>, {})
  IN  IF kept = << >>
      THEN [Alloc(dropped) EXCEPT !.page[new] = Leaf(<< >>, 0, 0), !.leafPages = @ + 1,
                                  !.root = new, !.rightmost = new]
      ELSE IF Len(kept) = 1 THEN [bare EXCEPT !.root = kept[1]]
      ELSE BuildInternalLevels(bare, [i \in DOMAIN kept |-> Bounds(d, kept[i])])

BulkDeleteSorted(d, S) ==
  LET r == RemoveKeys(d, Leaves(d), S) IN IF r.entries = d.entries THEN d ELSE RebuildInternalFromLeaves(r)
---------------------------------------------------------------------------
(* The calls.  A file past MaxPages is not explored.                       *)
Becomes(d, m) == /\ Len(d.page) <= MaxPages
                 /\ db' = d /\ map' = m

Init == db = Cleared /\ map = [k \in Keys |-> Absent]

Put(k, v) == Becomes(MaybeCompact(InsertBytes(db, k, v)), [map EXCEPT ![k] = v])
Replace(k, v) == ContainsKey(db, k) /\ Put(k, v)
PutIfAbsent(k, v) == ~ContainsKey(db, k) /\ Put(k, v)
Delete(k) == ContainsKey(db, k) /\ Becomes(MaybeCompact(DeleteBytes(db, k)), [map EXCEPT ![k] = Absent])

(* update: f sees the current value and gives a new one, or none.          *)
Update(k, f) ==
  IF f[Get(db, k)] # Absent THEN Put(k, f[Get(db, k)]) ELSE Delete(k)

Compaction == Becomes(Compact(db), map)
Clear == Becomes(Cleared, [k \in Keys |-> Absent])

(* bulk_put_sorted into a tree of no entries; else it is a put of each.    *)
(* The items give every key the value w, and then v.                       *)
BulkPutSorted(S, w, v) ==
  /\ Loads # "none" /\ db.entries = 0
  /\ Loads = "cleared" => db = Cleared
  /\ LET ks == Items([k \in S |-> <<<<k, w>>, <<k, v>>>>])
     IN  Becomes(BottomUpBuild(db, Coalesce(FlattenSeq([i \in DOMAIN ks |-> ks[i][2]]))),
                 [k \in Keys |-> IF k \in S THEN v ELSE Absent])

BulkDelete(S) ==
  /\ db.leafPages <= BulkLeaves
  /\ Becomes(BulkDeleteSorted(db, S), [k \in Keys |-> IF k \in S THEN Absent ELSE map[k]])

(* The functions given to update: set a value, or swap present and absent. *)
Updates == {[w \in Vals \cup {Absent} |-> IF w = Absent THEN v ELSE Absent] : v \in Vals}

Next ==
  \/ \E k \in Keys, v \in Vals : Put(k, v) \/ Replace(k, v) \/ PutIfAbsent(k, v)
  \/ \E k \in Keys : Delete(k)
  \/ \E k \in Keys, f \in Updates : Update(k, f)
  \/ \E S \in SUBSET Keys, w, v \in Vals : BulkPutSorted(S, w, v)
  \/ \E S \in SUBSET Keys : BulkDelete(S)
  \/ Compaction
  \/ Clear

Spec == Init /\ [][Next]_vars
---------------------------------------------------------------------------
(* Properties.                                                             *)
Expected == Items([k \in {x \in Keys : map[x] # Absent} |-> map[k]])
RECURSIVE Below(_, _)
Below(d, p) ==
  IF IsLeaf(d, p) THEN <<p>>
  ELSE <<p>> \o FlattenSeq([i \in DOMAIN Children(d.page[p]) |-> Below(d, Children(d.page[p])[i])])
TreePages == Below(db, db.root)
TreeLeaves == SelectSeq(TreePages, LAMBDA p : IsLeaf(db, p))
ExtentOf(e) == [i \in 1 .. ExtentPages(e[2]) |-> e[3] + i - 1]
ExtentsOf(leaves) == LET es == LeafEntries(db, leaves) IN FlattenSeq([i \in DOMAIN es |-> ExtentOf(es[i])])

(* The meta page names pages of the file and counts within it.             *)
TypeOK ==
  /\ {db.root, db.rightmost} \subseteq DOMAIN db.page
  /\ db.freeHead \in 0 .. Len(db.page)
  /\ {db.entries, db.leafPages, db.leafBytes, db.freePages} \subseteq Nat

(* A lookup by separators finds for every key the value that the writes,   *)
(* deletes, bulk loads, bulk deletes and compactions so far leave there,   *)
(* even when the value lies in an extent (get and contains).               *)
GetsExact ==
  \A k \in Keys : Get(db, k) = map[k] /\ (ContainsKey(db, k) <=> map[k] # Absent)

(* The scans agree with the lookups: forward along next, backward along    *)
(* prev from rightmost_leaf, from either end of any range, and first and   *)
(* last past the leaves that deletes left empty.                           *)
ScansExact ==
  LET n == Len(Expected)
      In(from, to) == SelectSeq(Expected, LAMBDA e : ~Less(e[1], from) /\ Less(e[1], to))
  IN  /\ Entries(db) = Expected /\ EntriesRev(db) = Reverse(Expected)
      /\ FirstEntry(db) = SelectSeq(Expected, LAMBDA e : e = Expected[1])
      /\ LastEntry(db) = SelectSeq(Expected, LAMBDA e : e = Expected[n])
      /\ \A from, to \in Keys : /\ RangeOf(db, from, to) = In(from, to)
                                 /\ RangeRev(db, from, to) = Reverse(In(from, to))

(* The leaf chain that scans and bulk operations walk is exactly the       *)
(* leaves under the root in key order, in both directions.                 *)
ChainIsTree ==
  /\ Leaves(db) = TreeLeaves
  /\ ChainRev(db, db.rightmost, Len(db.page) + 1) = Reverse(TreeLeaves)

(* The counters that open trusts instead of scanning are exact.            *)
CountersExact ==
  /\ db.entries = Cardinality({k \in Keys : map[k] # Absent})
  /\ db.leafPages = Len(TreeLeaves)
  /\ db.leafBytes = Used(LeafEntries(db, TreeLeaves))
  /\ db.freePages = Len(FreeList(db))

(* No page is in two places: the tree, the extents of live values and the  *)
(* free list never share a page, nor does one hold a page twice.           *)
PagesDisjoint ==
  LET all == TreePages \o ExtentsOf(TreeLeaves) \o FreeList(db) IN IsInjective(all)

(* Every page of the file is in the tree, in a live extent or free: no     *)
(* operation loses a page.                                                 *)
NoPageLost ==
  ToSet(TreePages \o ExtentsOf(TreeLeaves) \o FreeList(db)) = DOMAIN db.page

(* A page of an extent holds what was written to it: the bit that          *)
(* build_internal_levels clears is never a bit of a value.  Refuted: it is *)
(* cleared in page 1, which a bulk delete may free and an extent reuse.    *)
ExtentsIntact == \A p \in DOMAIN db.page : db.page[p].type = "data" => db.page[p].val \in Vals

(* No leaf is given more entries than a page holds.                        *)
LeavesFit == \A i \in DOMAIN TreeLeaves : Used(db.page[TreeLeaves[i]].ents) <= LeafCap
=============================================================================
