----------------------------- MODULE BoundedMap -----------------------------
(***************************************************************************)
(* What a bounded SkipList promises: a map that takes new keys until it    *)
(* holds Capacity of them, then refuses them and nothing else.  A batch is *)
(* taken in order, up to the first pair that is refused.                   *)
(***************************************************************************)
EXTENDS FiniteSets, SequencesExt, TLC

CONSTANTS Keys, Vals, Capacity

VARIABLES rows, refused   \* the map; whether the last call met StorageFull

Fits(m, k) == k \in DOMAIN m \/ Cardinality(DOMAIN m) < Capacity

Init == rows = << >> /\ refused = FALSE

Put(k, v) ==
  IF Fits(rows, k) THEN rows' = (k :> v) @@ rows /\ refused' = FALSE
                   ELSE rows' = rows /\ refused' = TRUE

(* Takes a prefix of the batch, all of it unless the next pair is refused. *)
PutAll(batch) ==
  \E n \in 0 .. Len(batch) :
    LET Take(m, kv) == (kv[1] :> kv[2]) @@ m
        after(i) == FoldLeft(Take, rows, SubSeq(batch, 1, i))
    IN  /\ \A i \in 1 .. n : Fits(after(i - 1), batch[i][1])
        /\ n < Len(batch) => ~Fits(after(n), batch[n + 1][1])
        /\ rows' = after(n) /\ refused' = (n < Len(batch))

DeleteAll(ks) == rows' = [k \in DOMAIN rows \ ks |-> rows[k]] /\ refused' = FALSE

Next ==
  \/ \E k \in Keys, v \in Vals : Put(k, v)
  \/ \E kv, lw \in Keys \X Vals : PutAll(<<kv, lw>>)
  \/ \E ks \in SUBSET Keys : DeleteAll(ks)

Spec == Init /\ [][Next]_<<rows, refused>>
=============================================================================
