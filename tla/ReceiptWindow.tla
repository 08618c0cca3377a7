--------------------------- MODULE ReceiptWindow ----------------------------
(***************************************************************************)
(* One ReceiptWindow that observes sequence numbers in any order, with     *)
(* gaps and duplicates, and implements the set of what it has seen.        *)
(***************************************************************************)
EXTENDS Receipts

VARIABLES
  window,   \* the ReceiptWindow
  outcome   \* what the last call returned, "none" before the first

windowVars == <<window, outcome>>

WindowInit == window = EmptyWindow /\ outcome = "none"

(* observe(s) for a positive s. *)
Receive(s) ==
  /\ outcome' = IF Duplicate(window, s) THEN "Duplicate" ELSE "New"
  /\ window' = ObserveSequence(window, s)

(* observe(0) returns InvalidEventSequence. *)
Refuse == outcome' = "Err" /\ UNCHANGED window

WindowNext == (\E s \in 1..MaxSequence : Receive(s)) \/ Refuse

WindowSpec == WindowInit /\ [][WindowNext]_windowVars

(* What the binary search in missing_index relies on, after any mix of     *)
(* pushes, removals and splits.                                            *)
RangesApart == Apart(window)

SeenSet == INSTANCE SeenSet WITH seen <- Seen(window), outcome <- outcome

(* observe() answers New exactly once for each sequence number, however    *)
(* the numbers arrive: the window is the set of what it has seen.          *)
ImplementsSeenSet == SeenSet!Spec
=============================================================================
