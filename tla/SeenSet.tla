------------------------------ MODULE SeenSet -------------------------------
(***************************************************************************)
(* What a ReceiptWindow promises: it is the set of the sequence numbers    *)
(* observed so far, and says of each whether it is new.                    *)
(***************************************************************************)
EXTENDS Integers

CONSTANT MaxSequence   \* u64::MAX

VARIABLES
  seen,     \* the numbers observed
  outcome   \* what the last observation returned, "none" before the first

Init == seen = {} /\ outcome = "none"

Observe(s) ==
  /\ outcome' = IF s \in seen THEN "Duplicate" ELSE "New"
  /\ seen' = seen \union {s}

(* Sequence 0 is refused with InvalidEventSequence. *)
Refuse == outcome' = "Err" /\ UNCHANGED seen

Next == (\E s \in 1..MaxSequence : Observe(s)) \/ Refuse

Spec == Init /\ [][Next]_<<seen, outcome>>
=============================================================================
