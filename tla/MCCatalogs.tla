----------------------------- MODULE MCCatalogs -----------------------------
(***************************************************************************)
(* What a workspace keeps under a name, for TLC: a behaviour is that of    *)
(* Tables, of States, or of the processes that share a Workspace.  mode    *)
(* says which, and under which load; the variables of the others are       *)
(* unused.                                                                 *)
(***************************************************************************)
EXTENDS Integers

VARIABLES
  mode,
  open, stamps, dirs, map,            \* Tables
  cut, changed, late,                 \* histories of Tables
  files, opened,                      \* States
  catalog, held, thread, era,         \* Tables and States
  ids, disk, lock, session, handles   \* Workspace

Unused == "unused"
tablesOnly == <<open, stamps, dirs, map, cut, changed, late>>
statesOnly == <<files, opened>>
shared == <<catalog, held, thread, era>>
workspace == <<ids, disk, lock, session, handles>>
vars == <<mode, tablesOnly, statesOnly, shared, workspace>>

(* One thread that does everything, without and with failures and crashes; *)
(* one that manages both tables while two use them; and two that manage a  *)
(* table each and use the other's, with failures and crashes.              *)
OneOf(t) == {"upsert", "delete", "get"} \X {"a", "b"}
OneOfA(t) == {"upsert", "delete", "get"} \X {"a"}
ManageAndUse(t) ==
  IF t = 1 THEN ({"upsert", "delete"} \X {"a"}) \union {<<"upsert", "b">>} ELSE {"get"} \X {"a", "b"}
Neighbours(t) ==
  IF t = 1 THEN {<<"upsert", "a">>, <<"delete", "a">>, <<"get", "b">>} ELSE {<<"upsert", "b">>, <<"delete", "b">>, <<"get", "a">>}

Alone == INSTANCE Tables WITH
  Names <- {"a", "b"}, Configs <- {"keydir"}, Threads <- {1}, May <- OneOf, MaxStamp <- 7,
  Failures <- FALSE, Crashes <- FALSE
Failing == INSTANCE Tables WITH
  Names <- {"a"}, Configs <- {"keydir", "btree"}, Threads <- {1}, May <- OneOfA, MaxStamp <- 6,
  Failures <- TRUE, Crashes <- TRUE
Users == INSTANCE Tables WITH
  Names <- {"a", "b"}, Configs <- {"keydir"}, Threads <- {1, 2, 3}, May <- ManageAndUse, MaxStamp <- 6,
  Failures <- FALSE, Crashes <- FALSE

Team == INSTANCE Tables WITH
  Names <- {"a", "b"}, Configs <- {"keydir", "btree"}, Threads <- {1, 2}, May <- Neighbours, MaxStamp <- 4,
  Failures <- TRUE, Crashes <- TRUE

(* One thread that declares files, and two that declare files and maps in  *)
(* memory, with failures and crashes.                                      *)
Single == INSTANCE States WITH
  Names <- {"a", "b"}, Kinds <- {"keydir"}, Threads <- {1}, MaxDeletes <- 2, Failures <- FALSE, Crashes <- FALSE
Pair == INSTANCE States WITH
  Names <- {"a", "b"}, Kinds <- {"keydir", "memory"}, Threads <- {1, 2}, MaxDeletes <- 1,
  Failures <- TRUE, Crashes <- TRUE

(* Three processes; join is called on an empty directory, or on any. *)
Sessions == INSTANCE Workspace WITH Processes <- {11, 12, 13}, MaxId <- 6, Rejoins <- FALSE, Outlive <- FALSE
Joins == INSTANCE Workspace WITH Processes <- {11, 12, 13}, MaxId <- 6, Rejoins <- TRUE, Outlive <- FALSE

NoTables ==
  /\ open = Unused /\ stamps = Unused /\ dirs = Unused /\ map = Unused
  /\ cut = Unused /\ changed = Unused /\ late = Unused
NoStates == files = Unused /\ opened = Unused
NoShared == catalog = Unused /\ held = Unused /\ thread = Unused /\ era = Unused
NoWorkspace == ids = Unused /\ disk = Unused /\ lock = Unused /\ session = Unused /\ handles = Unused

Init ==
  \/ /\ \/ mode = "alone" /\ Alone!Init
        \/ mode = "failing" /\ Failing!Init
        \/ mode = "users" /\ Users!Init
        \/ mode = "team" /\ Team!Init
     /\ NoStates /\ NoWorkspace
  \/ /\ \/ mode = "single" /\ Single!Init
        \/ mode = "pair" /\ Pair!Init
     /\ NoTables /\ NoWorkspace
  \/ /\ \/ mode = "sessions" /\ Sessions!Init
        \/ mode = "joins" /\ Joins!Init
     /\ NoTables /\ NoStates /\ NoShared

Next ==
  \/ mode = "alone" /\ Alone!Next /\ UNCHANGED <<mode, statesOnly, workspace>>
  \/ mode = "failing" /\ Failing!Next /\ UNCHANGED <<mode, statesOnly, workspace>>
  \/ mode = "users" /\ Users!Next /\ UNCHANGED <<mode, statesOnly, workspace>>
  \/ mode = "team" /\ Team!Next /\ UNCHANGED <<mode, statesOnly, workspace>>
  \/ mode = "single" /\ Single!Next /\ UNCHANGED <<mode, tablesOnly, workspace>>
  \/ mode = "pair" /\ Pair!Next /\ UNCHANGED <<mode, tablesOnly, workspace>>
  \/ mode = "sessions" /\ Sessions!Next /\ UNCHANGED <<mode, tablesOnly, statesOnly, shared>>
  \/ mode = "joins" /\ Joins!Next /\ UNCHANGED <<mode, tablesOnly, statesOnly, shared>>

(* A call of a thread that has begun goes on. *)
GoesOn == mode = "alone" /\ Alone!Step(1) /\ UNCHANGED <<mode, statesOnly, workspace>>

Spec == Init /\ [][Next]_vars /\ WF_vars(GoesOn)
---------------------------------------------------------------------------
(* Every declared table is open and no other: when no call is in progress  *)
(* the handle map of Tables is what the catalog says, but for names whose  *)
(* files could not be made or removed; and all handles of one table are    *)
(* one object (TableCatalogListener).                                      *)
MapFollowsCatalog ==
  /\ mode = "alone" => Alone!MapFollowsCatalog /\ Alone!HandlesShared
  /\ mode = "failing" => Failing!MapFollowsCatalog /\ Failing!HandlesShared
  /\ mode = "users" => Users!MapFollowsCatalog /\ Users!HandlesShared
  /\ mode = "team" => Team!MapFollowsCatalog /\ Team!HandlesShared

(* While a handle is in use the directory of its table is there, unless it *)
(* was got after a delete of the table had counted its handles; and a      *)
(* state handle somebody holds is the one in the map: neither close nor    *)
(* delete takes it away, so that get never opens a file twice.             *)
BusyProtects ==
  /\ mode = "alone" => Alone!BusyProtects
  /\ mode = "failing" => Failing!BusyProtects
  /\ mode = "users" => Users!BusyProtects
  /\ mode = "team" => Team!BusyProtects
  /\ mode = "pair" => Pair!HandleKept

(* A table or a state that is declared again after a deletion shows none   *)
(* of the rows from before, unless its files could not be removed.         *)
CleanRecreate ==
  /\ mode = "alone" => Alone!CleanRecreate
  /\ mode = "failing" => Failing!CleanRecreate
  /\ mode = "users" => Users!CleanRecreate
  /\ mode = "team" => Team!CleanRecreate
  /\ mode = "single" => Single!CleanRecreate

(* What is declared can be had: after a close or a crash every declared    *)
(* table has its files (Tables::open), but for those whose file operations *)
(* failed or were cut off or whose configuration was changed; and get      *)
(* succeeds once States::upsert is done with a name.                       *)
Reopens ==
  /\ mode = "alone" => Alone!Reopens
  /\ mode = "failing" => Failing!Reopens
  /\ mode = "users" => Users!Reopens
  /\ mode = "team" => Team!Reopens
  /\ mode = "single" => Single!Gettable

(* A table that is declared is opened, unless it is deleted or the         *)
(* workspace is closed: upsert does not end with the declaration alone.    *)
DeclaredOpens ==
  \A n \in {"a", "b"} :
    (mode = "alone" /\ Alone!Declared(n)) ~>
      (mode = "alone" => map[n] # Alone!NoHandle \/ ~Alone!Declared(n) \/ ~open)

(* An open workspace is whole and all of it was made for its id, whatever  *)
(* creations were cut short before (assemble), and one process at a time   *)
(* works on the directory: whoever has it open has the lock, and nobody    *)
(* else keeps it (acquire_lock, Drop).                                     *)
OneWorkspace ==
  /\ mode = "sessions" => Sessions!OneWorkspace
  /\ mode = "joins" => Joins!SingleOwner
=============================================================================
