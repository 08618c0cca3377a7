----------------------------- MODULE Workspace -----------------------------
(***************************************************************************)
(* Workspace (workspace.rs): several processes create, join, open and drop *)
(* the workspace in one directory, which an advisory lock guards.          *)
(*                                                                         *)
(* A session writes or reads the parts of the directory one after the      *)
(* other and may die between any two.  What is inside the parts is the     *)
(* subject of States, Devices and Tables; here a part remembers the id of  *)
(* the workspace it was made for.                                          *)
(***************************************************************************)
EXTENDS Integers

CONSTANTS
  Processes,
  MaxId,       \* how many workspace ids are generated
  Rejoins,     \* is join called on a directory that has a workspace?
  Outlive      \* do applications keep a handle longer than the Workspace?

None == 0

(* The parts, in the order assemble makes them: the identity file; the     *)
(* files of the states `_catalog` and `_peers`; their declarations; the    *)
(* table `_devices` with the creator's record; the table `_catalog`; and   *)
(* the declarations of the two tables, which open does not need.           *)
Parts == <<"identity", "states", "declared", "devices", "catalog">>
Needed == {Parts[i] : i \in 1..5}

Closed == [at |-> "closed", id |-> None]

VARIABLES
  ids,       \* how many ids were generated
  disk,      \* for each part the id it was made for, or None
  lock,      \* the process that has locked `_lock`, or None
  session,   \* where each process is: the part it makes next, or "open"
  handles    \* processes that hold a state or table handle

vars == <<ids, disk, lock, session, handles>>

Init ==
  /\ ids = 0
  /\ disk = [p \in Needed |-> None]
  /\ lock = None
  /\ session = [p \in Processes |-> Closed]
  /\ handles = {}

(* acquire_lock *)
TryLock(p) == lock = None /\ lock' = p

Goes(p, s, id) == session' = [session EXCEPT ![p] = [at |-> s, id |-> id]]
---------------------------------------------------------------------------
(* create: refuses a directory that has an identity. *)
Create(p) ==
  /\ session[p] = Closed
  /\ TryLock(p)
  /\ disk["identity"] = None
  /\ ids < MaxId /\ ids' = ids + 1
  /\ disk' = [disk EXCEPT !["identity"] = ids']
  /\ Goes(p, "states", ids')
  /\ UNCHANGED handles

(* join: with an id from elsewhere, and no such check. *)
Join(p) ==
  /\ session[p] = Closed
  /\ TryLock(p)
  /\ Rejoins \/ disk["identity"] = None
  /\ ids < MaxId /\ ids' = ids + 1
  /\ disk' = [disk EXCEPT !["identity"] = ids']
  /\ Goes(p, "states", ids')
  /\ UNCHANGED handles

(* An error: what was opened is dropped and the lock with it. *)
Fails(p) ==
  /\ session' = [session EXCEPT ![p] = Closed]
  /\ lock' = None
  /\ UNCHANGED <<ids, disk, handles>>

After(part) == LET i == CHOOSE k \in 1..5 : Parts[k] = part IN IF i = 5 THEN "open" ELSE Parts[i + 1]

(* Table::create fails when the first segment of the topic exists; states  *)
(* are truncated and written anew.                                         *)
Exclusive(part) == part \in {"devices", "catalog"}

(* assemble in Mode::Create makes the next part. *)
Make(p) ==
  LET s == session[p]
  IN  /\ s.at \in Needed
      /\ IF Exclusive(s.at) /\ disk[s.at] # None THEN Fails(p)
         ELSE /\ disk' = [disk EXCEPT ![s.at] = s.id]
              /\ Goes(p, After(s.at), s.id)
              /\ UNCHANGED <<ids, lock, handles>>

(* Mutant of Complete: the identity file is taken for the workspace. *)
CompleteIdentity == disk["identity"] # None

(* Everything open reads is there. *)
Complete == \A part \in Needed : disk[part] # None

(* open: States::open, the `_peers` state, Tables::open. *)
Open(p) ==
  /\ session[p] = Closed
  /\ TryLock(p)
  /\ Complete
  /\ Goes(p, "open", disk["identity"])
  /\ UNCHANGED <<ids, disk, handles>>

(* tables().get or states().get *)
Get(p) ==
  /\ session[p].at = "open"
  /\ handles' = handles \union {p}
  /\ UNCHANGED <<ids, disk, lock, session>>

Release(p) ==
  /\ p \in handles
  /\ handles' = handles \ {p}
  /\ UNCHANGED <<ids, disk, lock, session>>

(* Drop: flush, then the fields in their order, the lock last.  A handle   *)
(* that was cloned keeps its table or state open.                          *)
Drop(p) ==
  /\ session[p].at = "open"
  /\ Outlive \/ p \notin handles
  /\ session' = [session EXCEPT ![p] = Closed]
  /\ lock' = None
  /\ UNCHANGED <<ids, disk, handles>>

(* The process dies; the system closes its files. *)
Crash(p) ==
  /\ session[p] # Closed \/ p \in handles
  /\ session' = [session EXCEPT ![p] = Closed]
  /\ handles' = handles \ {p}
  /\ lock' = IF lock = p THEN None ELSE lock
  /\ UNCHANGED <<ids, disk>>

(* Somebody removes the directory, the only way on after a creation that   *)
(* was cut short: create refuses it and open fails.                        *)
Wipe ==
  /\ \A p \in Processes : session[p] = Closed /\ p \notin handles
  /\ disk' = [part \in Needed |-> None]
  /\ UNCHANGED <<ids, lock, session, handles>>

Next ==
  \/ \E p \in Processes : Create(p) \/ Join(p) \/ Make(p) \/ Open(p) \/ Get(p) \/ Release(p) \/ Drop(p) \/ Crash(p)
  \/ Wipe

Spec == Init /\ [][Next]_vars
---------------------------------------------------------------------------
(* Ids keep within their bound, and the parts of the directory are made    *)
(* one after the other.                                                    *)
TypeOK ==
  /\ ids \in 0..MaxId
  /\ disk \in [Needed -> 0..MaxId]
  /\ \A i \in 1..4 : disk[Parts[i + 1]] # None => disk[Parts[i]] # None
  /\ lock \in Processes \union {None}
  /\ \A p \in Processes : session[p].at \in Needed \union {"closed", "open"} /\ session[p].id \in 0..MaxId
  /\ handles \subseteq Processes

(* One process at a time works on the directory: whoever has a table or a  *)
(* state of it open has the lock, and nobody else keeps it.                *)
SingleOwner == \A p \in Processes : session[p] # Closed \/ p \in handles <=> lock = p

(* An open workspace is whole and all of it was made for its id, whatever  *)
(* creations were cut short before.                                        *)
OneWorkspace == \A p \in Processes : session[p].at = "open" => \A part \in Needed : disk[part] = session[p].id
=============================================================================
