------------------------------ MODULE Replicas ------------------------------
(***************************************************************************)
(* Replicas of one cell.  A peer mints stamped events on its own copy; an  *)
(* event reaches a peer in any order, any number of times, its own peer    *)
(* too, and goes through Cell::apply_walk each time as Table::insert calls *)
(* it: an Err or an unchanged result leaves the stored cell as it was.     *)
(* Nothing in the code recognises an event that it has applied before.  A  *)
(* peer may also be sent a whole cell (Op::Merge), and the events in it    *)
(* after that.  The operations a peer chooses from are those the values'   *)
(* own constructors build from its copy.                                   *)
(***************************************************************************)
EXTENDS CrdtValues

CONSTANTS
  Peers,       \* 0 .. Cardinality(Peers) - 1
  MaxTime,     \* bound on the clock part of a stamp
  Tags,        \* types the replicated cell may have
  Networks(_), \* the networks explored for a type: records of
               \*   peers: the peers that take part
               \*   merging: they also send whole cells
               \*   again: an event may come to a copy that has it
               \*   events: bound on the number of events minted
  CellOps      \* TRUE: cells are also deleted and replaced

ASSUME ReplicasAssumption ==
  /\ Peers = 0 .. Cardinality(Peers) - 1 /\ Peers # {}
  /\ MaxTime \in Nat /\ CellOps \in BOOLEAN
  /\ \A t \in Tags : \A n \in Networks(t) : n.peers \subseteq Peers /\ {n.merging, n.again} \subseteq BOOLEAN /\ n.events \in Nat

VARIABLES
  tag,      \* the type this behaviour is about
  net,      \* the network it runs on
  cell,     \* cell[p]: the copy of peer p
  log,      \* log[s]: the event minted at stamp s, and the events its peer had
  applied,  \* history: applied[p]: stamps of the events that p's copy has had
  once      \* history of Counters: once[p]: did each of them count once in p's copy?

vars == <<tag, net, cell, log, applied, once>>

Stamps == {t * Cardinality(Peers) + p : t \in 1 .. MaxTime, p \in Peers}

(* What type operations see in a cell: its value, or the empty one that    *)
(* ensure_type would put there.                                            *)
Data(c) == IF c.val[1] = tag THEN c.val[2] ELSE EmptyValue(tag)[2]

Type(op) == op @@ [tag |-> tag]

(* Text::format over the visible characters from index i to index j. *)
TextFormatOp(t, i, j, x) == [do |-> "format", ids |-> ToSet(SubSeq(TextIds(t), i, j)), value |-> x]

TextOps(t) ==
  LET n == Len(TextIds(t))
  IN  {[do |-> "insert", after |-> a, text |-> x] :
         a \in {<< >>} \cup ToSet(TextIds(t)), x \in {<<"x">>, <<"x", "y">>}}
      \cup {[do |-> "delete", ids |-> {id}] : id \in ToSet(TextIds(t))}
      \cup {TextFormatOp(t, i, n, x) : i \in 1 .. n, x \in {0, 1}}

TypeOps(d) ==
  CASE tag = "Counter" -> {[do |-> "add", delta |-> n] : n \in {-2, 1}}
    [] tag = "Set" -> {[do |-> o, key |-> 1] : o \in {"add", "remove"}}
    [] tag = "OrSet" -> {[do |-> "add", key |-> 1], OrSetRemove(d, 1)}
    [] tag = "Mv" -> {MvAssign(d, x) : x \in {1, 2}}
    [] tag = "Pq" -> {[do |-> "push", pri |-> n] : n \in {1, 2}}
                       \cup (IF PqLive(d) = {} THEN {} ELSE {PqPop(d)})
    [] tag = "Text" -> TextOps(d)
    [] tag = "List" -> {[do |-> "insert", after |-> a, value |-> <<"Int", 0>>] :
                          a \in {Head0} \cup ToSet(ListIds(d))}
                         \cup {[do |-> "delete", id |-> id] : id \in ToSet(ListIds(d))}
    [] OTHER -> {}

Upserts == {[do |-> "upsert", value |-> <<"Int", n>>] : n \in {1, 2}}
Removal == [do |-> "remove_cell"]
Field(f) == <<<<"Record", f>>>>

(* Field f is a scalar, g a Set, h a List with scalar elements. *)
FieldOps(r) ==
  LET ids == IF "h" \in DOMAIN r THEN DOMAIN r["h"].val[2] ELSE {}
  IN  {<<op, Field("f")>> : op \in Upserts}
      \cup {<<[do |-> "add", key |-> 1, tag |-> "Set"], Field("g")>>,
            <<[do |-> "insert", after |-> Head0, value |-> <<"Int", 0>>, tag |-> "List"], Field("h")>>}
      \cup {<<op, Append(Field("h"), <<"List", id>>)>> : op \in Upserts, id \in ids}
      \cup (IF CellOps THEN {<<Removal, Field("f")>>} ELSE {})

(* The operations, each with its path, that peer p may mint. *)
Inputs(p) ==
  LET d == Data(cell[p])
  IN  {<<Type(op), << >>>> : op \in TypeOps(d)}
      \cup (IF tag = "Int" THEN {<<op, << >>>> : op \in Upserts \cup {Removal}} ELSE {})
      \cup (IF tag = "Record" THEN FieldOps(d) ELSE {})
      \cup (IF tag # "Record" /\ CellOps THEN {<<Removal, << >>>>} ELSE {})

Init ==
  /\ tag \in Tags
  /\ net \in Networks(tag)
  /\ cell = [p \in Peers |-> Dummy(None)]
  /\ log = Empty
  /\ applied = [p \in Peers |-> {}]
  /\ once = [p \in Peers |-> TRUE]

(* Table::insert: a changed copy is stored, any other is dropped. *)
Stored(c, r) == IF r.ok /\ r.ch THEN r.v ELSE c

(* A peer's clock is ahead of every event it has. *)
NextStamp(p, s) == PeerOf(s) = p /\ s > Newest(applied[p])

(* p stamps an operation and applies it. *)
Mint(p) ==
  /\ Cardinality(DOMAIN log) < net.events
  /\ \E s \in Stamps, c \in Inputs(p) :
       LET r == CellWalk(cell[p], c[1], s, c[2])
       IN  /\ NextStamp(p, s)
           /\ r.ok /\ r.ch
           /\ cell' = [cell EXCEPT ![p] = r.v]
           /\ log' = Put(log, s, [op |-> c[1], path |-> c[2], seen |-> applied[p]])
           /\ applied' = [applied EXCEPT ![p] = @ \cup {s}]
  /\ UNCHANGED <<tag, net, once>>

(* once after a step at p that counts each event once only if counts. *)
Recount(p, counts) == once' = IF tag = "Counter" THEN [once EXCEPT ![p] = @ /\ counts] ELSE once

(* The event with stamp s reaches p, perhaps not for the first time. *)
Deliver(p, s) ==
  /\ s \in applied[p] => net.again
  /\ cell' = [cell EXCEPT ![p] = Stored(@, CellWalk(@, log[s].op, s, log[s].path))]
  /\ applied' = [applied EXCEPT ![p] = @ \cup {s}]
  /\ Recount(p, s \notin applied[p])
  /\ UNCHANGED <<tag, net, log>>

(* Of each peer's events one of S and T has all that the other has. *)
Nested(S, T) ==
  \A r \in Peers : LET By(A) == {s \in A : PeerOf(s) = r} IN By(S) \subseteq By(T) \/ By(T) \subseteq By(S)

(* q's cell reaches p. *)
Merge(p, q) ==
  /\ net.merging /\ p # q
  /\ cell' = [cell EXCEPT ![p] = Stored(@, CellApply(@, [do |-> "merge", cell |-> cell[q]], 0))]
  /\ applied' = [applied EXCEPT ![p] = @ \cup applied[q]]
  /\ Recount(p, once[q] /\ Nested(applied[p], applied[q]))
  /\ UNCHANGED <<tag, net, log>>

Next ==
  \E p \in net.peers : Mint(p) \/ (\E s \in DOMAIN log : Deliver(p, s)) \/ (\E q \in net.peers : Merge(p, q))

Spec == Init /\ [][Next]_vars
---------------------------------------------------------------------------
(* The stamps are those of minted events, seen by their peers in order. *)
TypeOK ==
  /\ tag \in Tags
  /\ DOMAIN log \subseteq Stamps
  /\ \A p \in net.peers : applied[p] \subseteq DOMAIN log /\ cell[p].stamp \in DOMAIN log \cup {0}
  /\ \A s \in DOMAIN log : log[s].seen \subseteq DOMAIN log \cap 0 .. s - 1

(* Two peers with the same events have the same cell, whatever the order   *)
(* they came in and however often they came.  Counters are the exception:  *)
(* theirs agree when each event counted once in both.  A record's own      *)
(* stamp is left out: ensure_type sets it to the stamp of whichever event  *)
(* arrived first.                                                          *)
Converges ==
  \A p, q \in net.peers :
    applied[p] = applied[q] /\ once[p] /\ once[q] =>
      /\ cell[p].val = cell[q].val
      /\ tag # "Record" => cell[p].stamp = cell[q].stamp

Deltas(S) == MapThenSumSet(LAMBDA s : log[s].op.delta, S)

(* Counter::value is the sum of the deltas of the events applied, by       *)
(* deliveries in any order and by merges, as long as no event came to the  *)
(* copy again after a delivery or a merge had brought it (Counter::apply   *)
(* counts it again), and no merge met copies that each lacked an event of  *)
(* one peer that the other had (Counter::merge takes the larger sum).      *)
CounterExact ==
  tag = "Counter" => \A p \in net.peers : once[p] => CounterValue(Data(cell[p])) = Deltas(applied[p])

(* An element is in a Set when the newest event applied to it is an add. *)
SetExact ==
  tag = "Set" => \A p \in net.peers :
    (1 \in SetKeys(Data(cell[p]))) <=>
      (applied[p] # {} /\ log[Newest(applied[p])].op.do = "add")

(* An element is in an OrSet when some applied add of it was unknown to    *)
(* the peer of every applied remove: an add wins over a concurrent remove. *)
OrSetExact ==
  tag = "OrSet" => \A p \in net.peers :
    (1 \in OrSetKeys(Data(cell[p]))) <=>
      \E s \in applied[p] : /\ log[s].op.do = "add"
                            /\ \A t \in applied[p] : log[t].op.do = "remove" => s \notin log[t].seen

(* p has every event that a peer had when it minted one of p's events. *)
Causal(p) == \A s \in applied[p] : log[s].seen \subseteq applied[p]

(* An MvRegister shows the assignments no applied assignment had seen:     *)
(* concurrent ones side by side, overwritten ones never again.             *)
MvExact ==
  tag = "Mv" => \A p \in net.peers :
    Causal(p) => DOMAIN Data(cell[p]).entries
                   = {s \in applied[p] : \A t \in applied[p] : s \notin log[t].seen}

(* A PriorityQueue holds the pushed elements that no applied pop chose,    *)
(* though the pop may have arrived before the push.                        *)
PqExact ==
  tag = "Pq" => \A p \in net.peers :
    PqLive(Data(cell[p])) =
      {s \in applied[p] : /\ log[s].op.do = "push"
                          /\ \A t \in applied[p] : log[t].op.do = "pop" => log[t].op.id # s}

Ids(p) == IF tag = "Text" THEN TextIds(Data(cell[p])) ELSE ListIds(Data(cell[p]))

(* Elements of a Text or a List that two peers both show stand in the same *)
(* order at both, even when the peers have different events.               *)
SameOrder ==
  tag \in {"Text", "List"} => \A p, q \in net.peers :
    SelectSeq(Ids(p), LAMBDA i : i \in ToSet(Ids(q))) =
    SelectSeq(Ids(q), LAMBDA i : i \in ToSet(Ids(p)))

(* The elements that event s puts into, or takes out of, a Text or a List. *)
Adds(s) ==
  IF log[s].op.do # "insert" THEN {} ELSE IF tag = "List" THEN {s}
  ELSE {<<s, i - 1>> : i \in DOMAIN log[s].op.text}
Dels(s) ==
  IF log[s].op.do # "delete" THEN {} ELSE IF tag = "List" THEN {log[s].op.id} ELSE log[s].op.ids

(* A peer that has an element's history shows every element inserted and   *)
(* not deleted: none hangs unseen below a deleted or late anchor.          *)
NothingHidden ==
  tag \in {"Text", "List"} => \A p \in net.peers :
    Causal(p) => ToSet(Ids(p)) = UNION {Adds(s) : s \in applied[p]} \ UNION {Dels(s) : s \in applied[p]}

(* Every type shows what the events applied to it say, in whatever order,  *)
(* however often and by whatever merges they came; a Counter when each of  *)
(* them counted once.                                                      *)
ShowsEvents == CounterExact /\ SetExact /\ OrSetExact /\ MvExact /\ PqExact

(* Texts and Lists show the same order everywhere and leave nothing out. *)
SequencesExact == SameOrder /\ NothingHidden

(* A peer that replaces a field later than every event it has then shows   *)
(* what it wrote: Op::Upsert is "Create or replace the target cell's value *)
(* at the event stamp" (crdt/op.rs).                                       *)
UpsertReplaces ==
  tag = "Record" => \A p \in net.peers, s \in Stamps, op \in Upserts :
    NextStamp(p, s) => CellWalk(cell[p], op, s, Field("f")).ch
=============================================================================
