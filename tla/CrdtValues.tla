----------------------------- MODULE CrdtValues -----------------------------
(***************************************************************************)
(* The CRDT values of zendb-types: what apply and merge of every value     *)
(* type and of Cell compute.  A stamp is a natural number, ordered as      *)
(* EventStamp is; 0 is EventStamp::default() and Option<EventStamp>::None  *)
(* (no event has stamp 0).  A value is <<tag, data>>, a cell [val, stamp]; *)
(* BTreeMaps are functions.  Every operation returns [v, ch, ok]: the new  *)
(* value, the Ok(bool) it reports, and whether it is Ok.                   *)
(***************************************************************************)
EXTENDS Integers, SequencesExt

CONSTANTS
  PeerOf(_),   \* the peer in a stamp's EventId
  CounterMax   \* u64::MAX

Empty == [x \in {} |-> x]
At(f, k, d) == IF k \in DOMAIN f THEN f[k] ELSE d
Put(f, k, x) == (k :> x) @@ f
Newest(S) == Max(S \cup {0})
Done(v, ch) == [v |-> v, ch |-> ch, ok |-> TRUE]
Fail(v) == [v |-> v, ch |-> FALSE, ok |-> FALSE]

(* merge_clock, merge_required_clock and every `if remote > local`. *)
Later(a, b) == IF b > a THEN b ELSE a

(* The union of two maps, common keys merged by M. *)
Join(f, g, M(_, _)) ==
  [k \in DOMAIN f \cup DOMAIN g |->
     IF k \notin DOMAIN g THEN f[k] ELSE IF k \notin DOMAIN f THEN g[k] ELSE M(f[k], g[k])]
---------------------------------------------------------------------------
(* Counter: what each peer has added and subtracted. *)

CounterApply(c, op, s) ==
  LET e == At(c, PeerOf(s), <<0, 0>>)
      n == IF op.delta > 0 THEN <<e[1] + op.delta, e[2]>> ELSE <<e[1], e[2] - op.delta>>
  IN  IF op.delta = 0 THEN Done(c, FALSE)
      ELSE IF n[1] > CounterMax \/ n[2] > CounterMax THEN Fail(c)
      ELSE Done(Put(c, PeerOf(s), n), TRUE)

CounterMerge(c, d) ==
  Join(c, d, LAMBDA x, y : <<Later(x[1], y[1]), Later(x[2], y[2])>>)

CounterValue(c) == MapThenSumSet(LAMBDA p : c[p][1] - c[p][2], DOMAIN c)
---------------------------------------------------------------------------
(* Set: the latest add and the latest remove of each element. *)

SetApply(a, op, s) ==
  LET m == At(a, op.key, [updated |-> 0, deleted |-> 0])
      n == IF op.do = "add" THEN [m EXCEPT !.updated = Later(@, s)]
           ELSE [m EXCEPT !.deleted = Later(@, s)]
  IN  Done(Put(a, op.key, n), n # m)

SetMerge(a, b) ==
  Join(a, b, LAMBDA x, y : [updated |-> Later(x.updated, y.updated),
                            deleted |-> Later(x.deleted, y.deleted)])

SetKeys(a) == {k \in DOMAIN a : a[k].updated > a[k].deleted}
---------------------------------------------------------------------------
(* OrSet: the add tags of each element and the tags that removes observed. *)

(* Mutant of OrSetRemove: the remove also names tags it has not seen. *)
OrSetRemoveAll(o, k) ==
  [do |-> "remove", key |-> k, observed |-> UNION {o[j].adds : j \in DOMAIN o} \cup 1 .. 9]

OrSetRemove(o, k) ==
  [do |-> "remove", key |-> k, observed |-> IF k \in DOMAIN o THEN o[k].adds ELSE {}]

OrSetApply(o, op, s) ==
  LET e == At(o, op.key, [adds |-> {}, rems |-> Empty])
      older == {t \in op.observed : At(e.rems, t, 0) < s}
  IN  IF op.do = "add"
      THEN Done(Put(o, op.key, [e EXCEPT !.adds = @ \cup {s}]), s \notin e.adds)
      ELSE Done(Put(o, op.key, [e EXCEPT !.rems = [t \in older |-> s] @@ @]), older # {})

OrSetMerge(o, p) ==
  Join(o, p, LAMBDA x, y : [adds |-> x.adds \cup y.adds, rems |-> Join(x.rems, y.rems, Later)])

OrSetKeys(o) == {k \in DOMAIN o : o[k].adds \ DOMAIN o[k].rems # {}}
---------------------------------------------------------------------------
(* MvRegister: the visible assignments and the replaced ones. *)

MvAssign(m, x) == [do |-> "assign", value |-> x, replaces |-> DOMAIN m.entries]

MvApply(m, op, s) ==
  LET older == {t \in op.replaces : At(m.removed, t, 0) < s}
      removed == [t \in older |-> s] @@ m.removed
      kept == Restrict(m.entries, DOMAIN m.entries \ op.replaces)
      shown == IF s \in DOMAIN removed THEN kept ELSE Put(kept, s, op.value)
  IN  IF At(m.entries, s, op.value) # op.value THEN Fail(m)
      ELSE Done([entries |-> shown, removed |-> removed], older # {} \/ shown # m.entries)

MvMerge(m, n) ==
  LET removed == Join(m.removed, n.removed, Later)
      both == (DOMAIN m.entries \cap DOMAIN n.entries) \ DOMAIN removed
      all == m.entries @@ n.entries
  IN  IF \E t \in both : m.entries[t] # n.entries[t] THEN Fail(m)
      ELSE Done([entries |-> Restrict(all, DOMAIN all \ DOMAIN removed), removed |-> removed], TRUE)
---------------------------------------------------------------------------
(* PriorityQueue: an entry is a pending pop (present = FALSE) or a pushed  *)
(* element, whose priority stands for its priority and value.              *)

PqEntry(present, pri, del) == [present |-> present, pri |-> pri, del |-> del]
PqLive(q) == {id \in DOMAIN q : q[id].present /\ q[id].del = 0}

PqPop(q) ==
  [do |-> "pop", id |-> CHOOSE i \in PqLive(q) : \A j \in PqLive(q) :
     q[i].pri < q[j].pri \/ (q[i].pri = q[j].pri /\ i <= j)]

PqApply(q, op, s) ==
  IF op.do = "push"
  THEN LET e == At(q, s, PqEntry(FALSE, 0, 0))
       IN  IF e.present /\ e.pri # op.pri THEN Fail(q)
           ELSE Done(Put(q, s, PqEntry(TRUE, op.pri, e.del)), ~e.present)
  ELSE LET e == At(q, op.id, PqEntry(FALSE, 0, 0))
       IN  IF s <= op.id THEN Done(q, FALSE)
           ELSE Done(Put(q, op.id, [e EXCEPT !.del = Later(@, s)]), s > e.del)

PqMergeEntry(x, y) ==
  PqEntry(x.present \/ y.present, IF x.present THEN x.pri ELSE y.pri, Later(x.del, y.del))

PqMerge(q, p) ==
  IF \E id \in DOMAIN q \cap DOMAIN p : q[id].present /\ p[id].present /\ q[id].pri # p[id].pri
  THEN Fail(q)
  ELSE Done(Join(q, p, PqMergeEntry), TRUE)
---------------------------------------------------------------------------
(* The order of Text and List: every element follows its anchor, siblings  *)
(* in descending order of their ids.  kids maps an anchor to them.         *)
RECURSIVE Walk(_, _)
Walk(after, kids) ==
  IF after \notin DOMAIN kids THEN << >>
  ELSE FlattenSeq([i \in DOMAIN kids[after] |->
                     <<kids[after][i]>> \o Walk(kids[after][i], kids)])

(* Text: an id is <<stamp, offset>>, the head << >>; content is << >> or   *)
(* <<after, character>>; attr is the one formatting key, <<value, stamp>>. *)
Placeholder == [content |-> << >>, del |-> 0, attr |-> <<0, 0>>]
IdAbove(a, b) == a[1] > b[1] \/ (a[1] = b[1] /\ a[2] > b[2])

(* Mutant of TextInsert: a character whose anchor is missing goes to the head. *)
TextInsertAtHead(t, op, s) ==
  LET after == IF op.after \in DOMAIN t THEN op.after ELSE << >>
      content(i) == <<IF i = 0 THEN after ELSE <<s, i - 1>>, op.text[i + 1]>>
  IN  Done([id \in {<<s, i>> : i \in 0 .. Len(op.text) - 1} |->
              [At(t, id, Placeholder) EXCEPT !.content = content(id[2])]] @@ t, TRUE)

TextInsert(t, op, s) ==
  LET ids == {<<s, i>> : i \in 0 .. Len(op.text) - 1}
      content(id) == <<IF id[2] = 0 THEN op.after ELSE <<s, id[2] - 1>>, op.text[id[2] + 1]>>
      known == {id \in DOMAIN t : id[1] = s /\ t[id].content # << >>}
      filled == [id \in ids \ known |-> [At(t, id, Placeholder) EXCEPT !.content = content(id)]]
  IN  IF \/ op.after # << >> /\ op.after[1] \in {0, s}
         \/ \E id \in known : id \notin ids \/ t[id].content # content(id)
      THEN Fail(t)
      ELSE Done(filled @@ t, ids \ known # {})

TextDelete(t, op, s) ==
  LET hit == {id \in op.ids : s > id[1] /\ s > At(t, id, Placeholder).del}
  IN  Done([id \in hit |-> [At(t, id, Placeholder) EXCEPT !.del = s]] @@ t, hit # {})

(* Mutant of TextFormat: the last format to arrive wins. *)
TextFormatLast(t, op, s) ==
  Done([id \in op.ids |-> [At(t, id, Placeholder) EXCEPT !.attr = <<op.value, s>>]] @@ t, TRUE)

TextFormat(t, op, s) ==
  LET hit == {id \in op.ids : s > At(t, id, Placeholder).attr[2]}
      seen == [id \in op.ids |-> At(t, id, Placeholder)] @@ t
  IN  Done([id \in hit |-> [seen[id] EXCEPT !.attr = <<op.value, s>>]] @@ seen, hit # {})

TextApply(t, op, s) ==
  IF s = 0 \/ (op.do # "insert" /\ \E id \in op.ids : id[1] = 0) THEN Fail(t)
  ELSE CASE op.do = "insert" -> TextInsert(t, op, s)
         [] op.do = "delete" -> TextDelete(t, op, s)
         [] op.do = "format" -> TextFormat(t, op, s)

TextMergeEntry(x, y) ==
  [content |-> IF x.content = << >> THEN y.content ELSE x.content,
   del |-> Later(x.del, y.del), attr |-> IF y.attr[2] > x.attr[2] THEN y.attr ELSE x.attr]

TextMerge(t, u) ==
  IF \E id \in DOMAIN t \cap DOMAIN u :
       << >> \notin {t[id].content, u[id].content} /\ t[id].content # u[id].content
  THEN Fail(t)
  ELSE Done(Join(t, u, TextMergeEntry), TRUE)

TextIds(t) ==
  LET placed == {id \in DOMAIN t : t[id].content # << >>}
      kids == [a \in {t[id].content[1] : id \in placed} |->
                 SetToSortSeq({id \in placed : t[id].content[1] = a}, IdAbove)]
  IN  SelectSeq(Walk(<< >>, kids), LAMBDA id : t[id].del = 0 \/ id[1] > t[id].del)
---------------------------------------------------------------------------
(* List: an entry is [pos, cell]; pos is Unknown, Head or the id before.   *)
Head0 == 0

Unknown == -1

ResolvePosition(e, after) ==
  [v |-> [e EXCEPT !.pos = IF @ = Unknown THEN after ELSE @], ch |-> e.pos = Unknown,
   ok |-> e.pos \in {Unknown, after}]

ListIds(l) ==
  LET placed == {id \in DOMAIN l : l[id].pos # Unknown}
      kids == [a \in {l[id].pos : id \in placed} |->
                 SetToSortSeq({id \in placed : l[id].pos = a}, >)]
  IN  SelectSeq(Walk(Head0, kids), LAMBDA id : l[id].cell.val[1] # "None")
---------------------------------------------------------------------------
None == <<"None", 0>>
Dummy(v) == [val |-> v, stamp |-> 0]

EmptyValue(tag) ==
  <<tag, CASE tag \in {"None", "Int"} -> 0
           [] tag = "Mv" -> [entries |-> Empty, removed |-> Empty]
           [] OTHER -> Empty>>

RECURSIVE CellMerge(_, _)
RECURSIVE CellMaxStamp(_)

(* The entry id of l with the position e and the cell m that came of it. *)
WithEntry(l, id, e, m) ==
  IF ~e.ok \/ ~m.ok THEN Fail(l) ELSE Done(Put(l, id, [e.v EXCEPT !.cell = m.v]), e.ch \/ m.ch)

ListApply(l, op, s) ==
  LET inserts == op.do = "insert"
      id == IF inserts THEN s ELSE op.id
      cell == [val |-> IF inserts THEN op.value ELSE None, stamp |-> s]
  IN  IF id = 0 THEN Fail(l)
      ELSE IF id \notin DOMAIN l
      THEN Done(Put(l, id, [pos |-> IF inserts THEN op.after ELSE Unknown, cell |-> cell]), TRUE)
      ELSE WithEntry(l, id, IF inserts THEN ResolvePosition(l[id], op.after) ELSE Done(l[id], FALSE),
                     CellMerge(l[id].cell, cell))

ListMergeEntry(x, y) ==
  [pos |-> IF x.pos = Unknown THEN y.pos ELSE x.pos, cell |-> CellMerge(x.cell, y.cell).v]

ListMerge(l, k) ==
  IF \E id \in DOMAIN l \cap DOMAIN k :
       \/ Unknown \notin {l[id].pos, k[id].pos} /\ l[id].pos # k[id].pos
       \/ ~CellMerge(l[id].cell, k[id].cell).ok
  THEN Fail(l)
  ELSE Done(Join(l, k, ListMergeEntry), TRUE)

RecordMerge(r, q) ==
  IF \E f \in DOMAIN r \cap DOMAIN q : ~CellMerge(r[f], q[f]).ok THEN Fail(r)
  ELSE Done(Join(r, q, LAMBDA x, y : CellMerge(x, y).v), TRUE)
---------------------------------------------------------------------------
(* Value: the operations of the type the tag names. *)

(* Int, and likewise every other scalar: the newer one wins. *)
ScalarMerge(x, y, newer) == Done(IF newer THEN y ELSE x, newer)

ValueApply(v, op, s) ==
  LET d == v[2]
      r == CASE v[1] = "Counter" -> CounterApply(d, op, s)
             [] v[1] = "Set" -> SetApply(d, op, s)
             [] v[1] = "OrSet" -> OrSetApply(d, op, s)
             [] v[1] = "Mv" -> MvApply(d, op, s)
             [] v[1] = "Pq" -> PqApply(d, op, s)
             [] v[1] = "Text" -> TextApply(d, op, s)
             [] v[1] = "List" -> ListApply(d, op, s)
  IN  [r EXCEPT !.v = <<v[1], @>>]

DataMerge(tag, d, e, newer) ==
  CASE tag = "Int" -> ScalarMerge(d, e, newer)
    [] tag = "Counter" -> Done(CounterMerge(d, e), TRUE)
    [] tag = "Set" -> Done(SetMerge(d, e), TRUE)
    [] tag = "OrSet" -> Done(OrSetMerge(d, e), TRUE)
    [] tag = "Mv" -> MvMerge(d, e)
    [] tag = "Pq" -> PqMerge(d, e)
    [] tag = "Text" -> TextMerge(d, e)
    [] tag = "List" -> ListMerge(d, e)
    [] tag = "Record" -> RecordMerge(d, e)

(* A merge has changed a container when its data differ. *)
MergedValue(v, r) == [v |-> <<v[1], r.v>>, ch |-> r.ch /\ (v[1] = "Int" \/ r.v # v[2]), ok |-> r.ok]

ValueMerge(v, w, newer) == MergedValue(v, DataMerge(v[1], v[2], w[2], newer))

SetMaxStamp(d) == Newest(UNION {{d[k].updated, d[k].deleted} : k \in DOMAIN d})
OrSetMaxStamp(d) == Newest(UNION {d[k].adds \cup Range(d[k].rems) : k \in DOMAIN d})
MvMaxStamp(d) == Newest(DOMAIN d.entries \cup Range(d.removed))
PqMaxStamp(d) == Newest(UNION {{id, d[id].del} : id \in DOMAIN d})
TextMaxStamp(d) == Newest(UNION {{id[1], d[id].del, d[id].attr[2]} : id \in DOMAIN d})
ListMaxStamp(d) == Newest({CellMaxStamp(d[id].cell) : id \in DOMAIN d})
RecordMaxStamp(d) == Newest({CellMaxStamp(d[f]) : f \in DOMAIN d})

(* Types without stamps of their own use the trait's default, stamp 0. *)
ValueMaxStamp(v) ==
  CASE v[1] = "Set" -> SetMaxStamp(v[2])
    [] v[1] = "OrSet" -> OrSetMaxStamp(v[2])
    [] v[1] = "Mv" -> MvMaxStamp(v[2])
    [] v[1] = "Pq" -> PqMaxStamp(v[2])
    [] v[1] = "Text" -> TextMaxStamp(v[2])
    [] v[1] = "List" -> ListMaxStamp(v[2])
    [] v[1] = "Record" -> RecordMaxStamp(v[2])
    [] OTHER -> 0
---------------------------------------------------------------------------
(* Cell: a value or a tombstone, with the stamp of its last change. *)

EnsureType(c, tag, s) ==
  IF c.val[1] = tag THEN Done(c, FALSE)
  ELSE IF s > CellMaxStamp(c) THEN Done([val |-> EmptyValue(tag), stamp |-> s], TRUE)
  ELSE Fail(c)

CellMaxStamp(c) == Later(c.stamp, ValueMaxStamp(c.val))

(* The cell c with what came of its value, and a stamp. *)
WithValue(c, r, s, ch) == IF ~r.ok THEN Fail(c) ELSE Done([val |-> r.v, stamp |-> s], ch \/ r.ch)

CellMerge(c, d) ==
  LET newer == d.stamp > c.stamp
  IN  IF c.val[1] # d.val[1] \/ c.val[1] = "None"
      THEN Done(IF newer THEN d ELSE c, newer)
      ELSE WithValue(c, ValueMerge(c.val, d.val, newer), Later(c.stamp, d.stamp), newer)

(* Op::Type has the field tag; do is delete, upsert, merge or the TypeOp. *)
CellApply(c, op, s) ==
  CASE op.do = "merge" -> CellMerge(c, op.cell)
    [] op.do \in {"remove_cell", "upsert"} ->
         IF s <= c.stamp THEN Done(c, FALSE)
         ELSE Done([val |-> IF op.do = "upsert" THEN op.value ELSE None, stamp |-> s], TRUE)
    [] OTHER ->
         LET TypeApplied(t, r) == WithValue(c, r, IF r.ch THEN Later(t.stamp, s) ELSE t.stamp, FALSE)
             Typed(e) == IF ~e.ok THEN Done(c, FALSE) ELSE TypeApplied(e.v, ValueApply(e.v.val, op, s))
         IN  Typed(EnsureType(c, op.tag, s))

OpTag(op) ==
  CASE op.do = "upsert" -> op.value[1]
    [] op.do = "merge" -> op.cell.val[1]
    [] op.do = "remove_cell" -> "None"
    [] OTHER -> op.tag

RECURSIVE CellWalk(_, _, _, _)

(* The type that the rest of a path, or the operation, asks of a child. *)
ChildTag(op, rest) == IF rest # << >> THEN Head(rest)[1] ELSE OpTag(op)

Descend(child, op, s, rest) ==
  LET tag == ChildTag(op, rest)
      Walks(e) == IF ~e.ok THEN Done(child, FALSE) ELSE CellWalk(e.v, op, s, rest)
  IN  Walks(IF tag = "None" THEN Done(child, FALSE) ELSE EnsureType(child, tag, s))

(* A segment of a path is <<"Record", field>> or <<"List", id>>. *)
RecordWalk(r, op, s, path) ==
  LET f == Head(path)[2]
      c == Descend(At(r, f, Dummy(EmptyValue(ChildTag(op, Tail(path))))), op, s, Tail(path))
  IN  [c EXCEPT !.v = Put(r, f, @)]

ListWalk(l, op, s, path) ==
  LET id == Head(path)[2]
      placeholder == [pos |-> Unknown, cell |-> Dummy(EmptyValue(ChildTag(op, Tail(path))))]
      e == At(l, id, placeholder)
      c == Descend(e.cell, op, s, Tail(path))
  IN  IF id = 0 THEN Fail(l) ELSE [c EXCEPT !.v = Put(l, id, [pos |-> e.pos, cell |-> @])]

(* A path leads on only through containers. *)
ValueWalk(v, op, s, path) ==
  LET r == IF v[1] = "Record" THEN RecordWalk(v[2], op, s, path) ELSE ListWalk(v[2], op, s, path)
  IN  [r EXCEPT !.v = <<v[1], @>>]

CellWalk(c, op, s, path) ==
  IF path = << >> THEN CellApply(c, op, s)
  ELSE LET Walks(e) == IF ~e.ok THEN Done(c, FALSE)
                       ELSE [ValueWalk(e.v.val, op, s, path) EXCEPT !.v = [val |-> @, stamp |-> e.v.stamp]]
       IN  Walks(EnsureType(c, Head(path)[1], s))
=============================================================================
