------------------------------ MODULE Receipts ------------------------------
(***************************************************************************)
(* ReceiptWindow (devices/receipts.rs): which sequence numbers of a peer   *)
(* have been seen, as the largest one and the ranges missing below it.     *)
(***************************************************************************)
EXTENDS Integers, Sequences

CONSTANT MaxSequence   \* u64::MAX

ASSUME MaxSequenceAssumption == MaxSequence \in Nat

(* RangeInclusive<u64>. *)
Gap(start, end) == [start |-> start, end |-> end]

EmptyWindow == [max_seen |-> 0, missing |-> <<>>]

(* What a window says has been seen. *)
Seen(w) == {s \in 1..w.max_seen : \A i \in DOMAIN w.missing : s < w.missing[i].start \/ s > w.missing[i].end}

(* missing_index: the range that holds s, 0 if there is none.  The binary  *)
(* search finds it because the ranges are in order (see RangesApart).      *)
MissingIndex(w, s) ==
  LET Hit(i) == w.missing[i].start <= s /\ s <= w.missing[i].end
  IN  IF \E i \in DOMAIN w.missing : Hit(i) THEN CHOOSE i \in DOMAIN w.missing : Hit(i) ELSE 0

(* Element i of m replaced by the elements of new: Vec::remove and the     *)
(* insertions that follow it.                                              *)
Splice(m, i, new) ==
  [j \in 1..(Len(m) + Len(new) - 1) |->
     IF j < i THEN m[j] ELSE IF j < i + Len(new) THEN new[j - i + 1] ELSE m[j - Len(new) + 1]]

(* Mutant of Without: the part above s is forgotten when there is one      *)
(* below.                                                                  *)
WithoutTail(r, s) ==
  IF r.start < s THEN <<Gap(r.start, s - 1)>> ELSE IF s < r.end THEN <<Gap(s + 1, r.end)>> ELSE <<>>

(* What is left of a range without s: a part below, a part above. *)
Without(r, s) ==
  LET low == Gap(r.start, s - 1)
      high == Gap(s + 1, r.end)
  IN  IF r.start < s THEN IF s < r.end THEN <<low, high>> ELSE <<low>>
                     ELSE IF s < r.end THEN <<high>> ELSE <<>>

(* Mutant of Advance: the first number missed is forgotten. *)
AdvanceShort(w, s) ==
  [max_seen |-> s,
   missing |-> IF s > w.max_seen + 2 THEN Append(w.missing, Gap(w.max_seen + 2, s - 1)) ELSE w.missing]

(* A number above the largest: everything between is missing. *)
Advance(w, s) ==
  [max_seen |-> s,
   missing |-> IF s > w.max_seen + 1 THEN Append(w.missing, Gap(w.max_seen + 1, s - 1)) ELSE w.missing]

(* Fill: a number that was missing arrives. *)
Fill(w, s) ==
  LET i == MissingIndex(w, s) IN [w EXCEPT !.missing = Splice(w.missing, i, Without(w.missing[i], s))]

Duplicate(w, s) == s <= w.max_seen /\ MissingIndex(w, s) = 0

(* ReceiptWindow::observe of a positive number. *)
ObserveSequence(w, s) ==
  IF s > w.max_seen THEN Advance(w, s) ELSE IF Duplicate(w, s) THEN w ELSE Fill(w, s)
---------------------------------------------------------------------------
Gaps == [start : Nat, end : Nat]

(* The ranges of w are not empty, lie below the largest number, and any    *)
(* two in the vector's order leave a number between them that was seen.    *)
Apart(w) ==
  /\ w \in [max_seen : 0..MaxSequence, missing : Seq(Gaps)]
  /\ \A i \in DOMAIN w.missing :
       /\ 1 <= w.missing[i].start
       /\ w.missing[i].start <= w.missing[i].end
       /\ w.missing[i].end < w.max_seen
  /\ \A i, j \in DOMAIN w.missing : i < j => w.missing[i].end + 1 < w.missing[j].start
=============================================================================
