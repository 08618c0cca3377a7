--------------------------- MODULE AbstractTable ---------------------------
(***************************************************************************)
(* What a Table promises: a map from keys to cells that changes only by    *)
(* applying one operation to one row, atomically.  Flushes, compactions,   *)
(* crashes and recoveries are stuttering steps.                            *)
(***************************************************************************)
CONSTANTS Key, Op, Absent, Apply(_, _), Changes(_, _)

VARIABLE rows

Init == rows = [k \in Key |-> Absent]

Insert(k, op) ==
  /\ Changes(rows[k], op)
  /\ rows' = [rows EXCEPT ![k] = Apply(rows[k], op)]

Next == \E k \in Key, op \in Op : Insert(k, op)

Spec == Init /\ [][Next]_rows
=============================================================================
