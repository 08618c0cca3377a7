----------------------------- MODULE MCDevices ------------------------------
(***************************************************************************)
(* Devices for TLC, and the receipts they keep: a behaviour is that of two *)
(* threads, of one thread that other peers write to, of one thread in a    *)
(* process that dies and is opened by either of two owners, or of one      *)
(* ReceiptWindow under any sequence numbers.  mode says which; the rest    *)
(* stays as it is.                                                         *)
(* Peer 2 is a device elsewhere whose clock runs ahead of the local one.   *)
(***************************************************************************)
EXTENDS Devices, ReceiptWindow

VARIABLE mode

(* Event number n of peer 2. *)
From(n, ms, logical, key, value) == Event(key, value, Stamp(2, n, [ms |-> ms, logical |-> logical]))

(* A write of the application row; the same ahead of a gap; and a write, a *)
(* demotion of peer 1 and the deletion of peer 2.                          *)
OneWrite == {From(1, 2, 1, App, Gone)}
WithRecords == {From(1, 2, 0, App, Gone), From(2, 2, 0, 1, 1), From(3, 2, 1, 2, Gone)}
MCEvents == OneWrite \union WithRecords

MCInit == Create(1) /\ WindowInit /\ mode \in {"two", "alone", "dying", "window"}

(* How far the sequence numbers go, and a wall clock that stands still. *)
UpTo(n) == \A p \in Peers : peers'[p].clock.next_sequence <= n
Still == \A p \in Peers : peers'[p].clock.last_time.ms # 1

MCNext ==
  \/ /\ mode = "two" /\ Acts(Threads, {1, 3}, OneWrite, {1}) /\ crashes' = 0 /\ UpTo(4)
     /\ UNCHANGED <<mode, windowVars>>
  \/ /\ mode = "alone" /\ Acts({"t1"}, Roles, WithRecords, {1}) /\ crashes' = 0
     /\ UNCHANGED <<mode, windowVars>>
  \/ /\ mode = "dying" /\ Acts({"t1"}, {1}, OneWrite, {1, 2}) /\ UpTo(4) /\ Still
     /\ UNCHANGED <<mode, windowVars>>
  \/ mode = "window" /\ WindowNext /\ UNCHANGED <<mode, vars>>

MCSpec == MCInit /\ [][MCNext]_<<mode, vars, windowVars>>
=============================================================================
