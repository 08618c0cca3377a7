----------------------------- MODULE TableReads -----------------------------
(***************************************************************************)
(* The iterating reads of a Table: entries, entries_rev, range, range_rev  *)
(* merge the rows of the materialized state with the pending rows of the   *)
(* cache, a pair at a time; first and last compare the two ends.  A read   *)
(* borrows the table, so state and cache stay as they are while it runs.   *)
(* An Unordered state (KeyDir) yields its rows in any order, and State     *)
(* sorts them for the ordered reads.                                       *)
(***************************************************************************)
EXTENDS Integers, SequencesExt

CONSTANTS
  Keys,       \* naturals
  Row(_, _)   \* the row of a key: Row("state", k) or Row("cache", k)

VARIABLES
  kind,    \* the variant of State: "Ordered", "Unordered" or "InMemory"
  state,   \* keys of the materialized state
  cache,   \* keys of the cache
  read,    \* the call: [call, start, end]
  left,    \* rows of the state the iterator has not yielded
  right,   \* rows of the cache it has not yielded
  out      \* what the iterator yielded

vars == <<kind, state, cache, read, left, right, out>>

Kinds == {"Ordered", "Unordered", "InMemory"}
Descending(c) == c \in {"entries_rev", "range_rev"}
Pairs(part, ks) == [i \in DOMAIN ks |-> <<ks[i], Row(part, ks[i])>>]
Up(ks) == SetToSortSeq(ks, <)

(* The entries of a BPlusTree or SkipList are in key order, of a KeyDir in *)
(* any.                                                                    *)
StateEntries(ks) == IF kind = "Unordered" THEN SetToSeqs(ks) ELSE {Up(ks)}

(* What State yields to an ordered read: the backend's own range, or the   *)
(* rows of a KeyDir filtered and sorted.                                   *)
StateRange(ks, start, end) == Up({k \in ks : start <= k /\ k < end})

StateRangeRev(ks, start, end) == Reverse(StateRange(ks, start, end))
StateEntriesRev(ks) == Reverse(Up(ks))

(* The same reads of the cache, a SkipList. *)
CacheRows(r) ==
  CASE r.call = "entries" -> Up(cache)
    [] r.call = "entries_rev" -> Reverse(Up(cache))
    [] r.call = "range" -> Up({k \in cache : r.start <= k /\ k < r.end})
    [] r.call = "range_rev" -> Reverse(Up({k \in cache : r.start <= k /\ k < r.end}))

(* entries of an Unordered state leaves out what the cache holds. *)
Unshadowed(ks) == IF kind = "Unordered" THEN ks \ cache ELSE ks

Reads == {r \in [call : {"entries", "entries_rev", "range", "range_rev"}, start : Keys, end : Keys] :
            r.call \in {"entries", "entries_rev"} => {r.start, r.end} = {Min(Keys)}}

Init ==
  /\ kind \in Kinds /\ state \in SUBSET Keys /\ cache \in SUBSET Keys
  /\ read \in Reads
  /\ \/ /\ read.call = "entries"
        /\ \E ks \in StateEntries(Unshadowed(state)) : left = Pairs("state", ks)
     \/ read.call = "entries_rev" /\ left = Pairs("state", StateEntriesRev(state))
     \/ read.call = "range" /\ left = Pairs("state", StateRange(state, read.start, read.end))
     \/ read.call = "range_rev" /\ left = Pairs("state", StateRangeRev(state, read.start, read.end))
  /\ right = Pairs("cache", CacheRows(read)) /\ out = << >>

Merges == ~(kind = "Unordered" /\ read.call = "entries")
Before(j, k) == IF Descending(read.call) THEN j > k ELSE j < k

(* MergedEntries::next: the row that comes first in the order of the read; *)
(* of two rows of one key the cache's, and the state's is passed over.     *)
TakeState ==
  /\ left # << >>
  /\ (Merges /\ right # << >>) => Before(left[1][1], right[1][1])
  /\ out' = Append(out, left[1]) /\ left' = Tail(left) /\ UNCHANGED right

TakeCache ==
  /\ right # << >>
  /\ left # << >> => Merges /\ Before(right[1][1], left[1][1])
  /\ out' = Append(out, right[1]) /\ right' = Tail(right) /\ UNCHANGED left

(* Mutant of TakeEqual: the row of the state stays to be yielded. *)
TakeEqualTwice ==
  /\ left # << >> /\ right # << >> /\ Merges /\ left[1][1] = right[1][1]
  /\ out' = Append(out, right[1]) /\ right' = Tail(right) /\ UNCHANGED left

TakeEqual ==
  /\ left # << >> /\ right # << >> /\ Merges /\ left[1][1] = right[1][1]
  /\ out' = Append(out, right[1]) /\ left' = Tail(left) /\ right' = Tail(right)

Next == (TakeState \/ TakeCache \/ TakeEqual) /\ UNCHANGED <<kind, state, cache, read>>

Spec == Init /\ [][Next]_vars
---------------------------------------------------------------------------
(* State::first and last: the ends of the backend's order, or the least    *)
(* and greatest key of a KeyDir.                                           *)
StateFirst == Pairs("state", <<Min(state)>>)[1]
StateLast == Pairs("state", <<Max(state)>>)[1]

(* Table::first and last. *)
First ==
  IF cache = {} \/ (state # {} /\ StateFirst[1] < Min(cache)) THEN StateFirst ELSE <<Min(cache), Row("cache", Min(cache))>>

LastRow ==
  IF cache = {} \/ (state # {} /\ StateLast[1] > Max(cache)) THEN StateLast ELSE <<Max(cache), Row("cache", Max(cache))>>
---------------------------------------------------------------------------
(* What get returns for a stored key: the cache is asked first. *)
Current(k) == Row(IF k \in cache THEN "cache" ELSE "state", k)
Asked == IF read.call \in {"entries", "entries_rev"} THEN state \cup cache
         ELSE {k \in state \cup cache : read.start <= k /\ k < read.end}
Expected ==
  LET ks == IF Descending(read.call) THEN Reverse(Up(Asked)) ELSE Up(Asked)
  IN  [i \in DOMAIN ks |-> <<ks[i], Current(ks[i])>>]

(* However far a caller iterates, it has seen the first rows of what get   *)
(* would answer key by key, in order and each key once: no row of the      *)
(* state shows through a pending one.                                      *)
OrderedPrefix == Merges => IsPrefix(out, Expected)

(* The rows still to come and those yielded make up the answer, so that an *)
(* iterator that is exhausted has left nothing out; an Unordered state     *)
(* yields the same rows as the others, each key once.                      *)
NothingMissing ==
  /\ IsInjective([i \in DOMAIN out |-> out[i][1]])
  /\ Range(out) \subseteq Range(Expected)
  /\ left = << >> /\ right = << >> => Range(out) = Range(Expected)

(* first and last are the ends of what entries and entries_rev iterate.    *)
EndsAgree ==
  Asked = state \cup cache /\ Asked # {} =>
    LET ends == IF Descending(read.call) THEN <<LastRow, First>> ELSE <<First, LastRow>>
    IN  ends = <<Expected[1], Last(Expected)>>
=============================================================================
