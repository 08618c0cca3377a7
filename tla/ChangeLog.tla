----------------------------- MODULE ChangeLog -----------------------------
(***************************************************************************)
(* What a Topic promises to the code above it: the records low .. high-1   *)
(* are on disk, append adds one at the high end, and the low end advances  *)
(* only past records that every registered consumer has committed.  There  *)
(* is no crash here: a crash and a reopening are stuttering steps.         *)
(***************************************************************************)
EXTENDS Integers

CONSTANT Name

VARIABLES
  low,        \* first offset on disk
  high,       \* offset the next record will get
  committed   \* name of a registered consumer -> its committed offset

logVars == <<low, high, committed>>

Init == low = 0 /\ high = 0 /\ committed = [n \in {} |-> 0]

Append == high' = high + 1 /\ UNCHANGED committed

Register(n) ==
  /\ n \notin DOMAIN committed
  /\ committed' = [m \in DOMAIN committed \cup {n} |-> IF m = n THEN high ELSE committed[m]]
  /\ UNCHANGED high

(* A committed offset never moves back. *)
Commit(n) ==
  /\ n \in DOMAIN committed /\ DOMAIN committed' = DOMAIN committed
  /\ committed'[n] >= committed[n]
  /\ committed' = [committed EXCEPT ![n] = committed'[n]]
  /\ UNCHANGED high

Unregister(n) ==
  /\ n \in DOMAIN committed
  /\ committed' = [m \in DOMAIN committed \ {n} |-> committed[m]]
  /\ UNCHANGED high

(* Any step may reclaim, up to the slowest consumer: a rotation compacts, a  *)
(* reader that moves on releases the segment it was the last to hold.        *)
Reclaim ==
  /\ low' >= low
  /\ low' > low => /\ DOMAIN committed # {}
                   /\ \A n \in DOMAIN committed : low' <= committed[n]
                   /\ low' <= high

Next ==
  /\ Reclaim
  /\ \/ Append
     \/ UNCHANGED <<high, committed>>
     \/ \E n \in Name : Register(n) \/ Commit(n) \/ Unregister(n)

Spec == Init /\ [][Next]_logVars
=============================================================================
