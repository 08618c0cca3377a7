------------------------------- MODULE Tables -------------------------------
(***************************************************************************)
(* Tables (tables/mod.rs) and TableCatalogListener (listeners/catalog.rs): *)
(* the durable catalog of declared tables, the map of open handles, and    *)
(* the directories, under threads that declare, use and delete tables.     *)
(*                                                                         *)
(* A call takes one step for each lock it takes and each file operation:   *)
(* the catalog row is read, a stamp minted, the row written, and then,     *)
(* with the catalog unlocked, the listener opens or creates the table and  *)
(* enters it into the map, or removes it and its directory.  Its errors    *)
(* are swallowed.  Roles and clocks are modelled in Devices.               *)
(***************************************************************************)
EXTENDS Integers, FiniteSets

CONSTANTS
  Names,       \* names of application tables
  Configs,     \* table configurations that need different files
  Threads,
  May(_),      \* what thread t does: a set of <<"upsert" | "delete" | "get", name>>
  MaxStamp,    \* how many stamps are minted
  Failures,    \* may creating and removing files fail?
  Crashes      \* may the process die?

Gone == "gone"
NoHandle == [id |-> 0, gen |-> 0]

(* A directory: gen tells the directories of one name apart, config is     *)
(* what its files were made for, whole is FALSE while files are missing,   *)
(* damaged tells that a second create has truncated them, and rows holds   *)
(* for each row the number of deletions of the name before it.             *)
NoDir == [gen |-> 0, config |-> Gone, whole |-> FALSE, damaged |-> FALSE, rows |-> {}]

Idle == [at |-> "idle", name |-> Gone, config |-> Gone, stamp |-> 0, gen |-> 0]

VARIABLES
  open,      \* is the workspace open?
  stamps,    \* how many stamps were minted
  catalog,   \* the `_catalog` table: name -> [stamp, config]
  dirs,      \* the directories
  map,       \* the handle in Tables::tables, or NoHandle
  held,      \* the handle each thread got and has not dropped
  thread,    \* the call each thread is in
  era,       \* history: how often each name was deleted from the catalog
  cut,       \* history: names with a change in the catalog whose file operations failed or were cut off
  changed,   \* history: names declared anew with another configuration
  late       \* history: has the thread got its handle during a delete of the table?

history == <<era, cut, changed>>
disk == <<catalog, dirs, history>>
uses == <<held, late>>
vars == <<open, stamps, disk, map, uses, thread>>

Init ==
  /\ open = TRUE
  /\ stamps = 0
  /\ catalog = [n \in Names |-> [stamp |-> 0, config |-> Gone]]
  /\ dirs = [n \in Names |-> NoDir]
  /\ map = [n \in Names |-> NoHandle]
  /\ held = [t \in Threads |-> NoHandle]
  /\ thread = [t \in Threads |-> Idle]
  /\ era = [n \in Names |-> 0]
  /\ cut = {} /\ changed = {}
  /\ late = [t \in Threads |-> FALSE]

Goes(t, s) == thread' = [thread EXCEPT ![t].at = s]
Returns(t) == thread' = [thread EXCEPT ![t] = Idle]

(* Mutant of HasOpened: the table is opened and forgotten. *)
HasOpenedForgets(t, n) == Returns(t)

HasOpened(t, n) == thread' = [thread EXCEPT ![t].at = "publish", ![t].gen = dirs[n].gen]

(* Table::open finds the files it looks for; without them it fails, or     *)
(* panics on a topic that has no segment.                                  *)
Openable(n, config) == dirs[n].whole /\ dirs[n].config = config
---------------------------------------------------------------------------
(* A call starts when the stamp it will mint is within the bound. *)
Starts(t, n, config) ==
  /\ open /\ thread[t].at = "idle"
  /\ stamps + Cardinality({u \in Threads : thread[u].at = "mint"}) < MaxStamp
  /\ thread' = [thread EXCEPT ![t] = [at |-> "mint", name |-> n, config |-> config, stamp |-> 0, gen |-> 0]]

(* upsert: nothing to do when the catalog has this configuration. *)
Upsert(t, n, config) ==
  /\ Starts(t, n, config)
  /\ catalog[n].config # config
  /\ UNCHANGED <<open, stamps, disk, map, uses>>

(* Mutant of InUse: handles are not counted. *)
NeverInUse(n) == FALSE

(* Arc::strong_count(entry) > 1 *)
InUse(n) == \E t \in Threads : held[t] = map[n]

(* delete, up to the check that nobody uses the table. *)
Delete(t, n) ==
  /\ Starts(t, n, Gone)
  /\ map[n] # NoHandle
  /\ ~InUse(n)
  /\ UNCHANGED <<open, stamps, disk, map, uses>>

Mint(t) ==
  /\ thread[t].at = "mint"
  /\ stamps' = stamps + 1
  /\ thread' = [thread EXCEPT ![t].at = "put", ![t].stamp = stamps']
  /\ UNCHANGED <<open, disk, map, uses>>

(* The catalog row is written; an event older than the row is ignored and  *)
(* no listener runs.                                                       *)
Put(t) ==
  LET c == thread[t]
  IN  /\ c.at = "put"
      /\ IF c.stamp > catalog[c.name].stamp
         THEN /\ catalog' = [catalog EXCEPT ![c.name] = [stamp |-> c.stamp, config |-> c.config]]
              /\ era' = [era EXCEPT ![c.name] = IF c.config = Gone THEN @ + 1 ELSE @]
              /\ changed' = IF Gone \in {c.config, catalog[c.name].config} THEN changed ELSE changed \union {c.name}
              /\ Goes(t, IF c.config = Gone THEN "remove" ELSE "check")
         ELSE Returns(t) /\ UNCHANGED <<catalog, era, changed>>
      /\ UNCHANGED <<open, stamps, dirs, map, uses, cut>>

(* Mutants of AlreadyOpen: a check that always, or never, succeeds. *)
AlwaysOpen(n) == TRUE
NeverOpen(n) == FALSE

AlreadyOpen(n) == map[n] # NoHandle

(* The listener of an Upsert: a table that is open stays as it is. *)
Check(t) ==
  /\ thread[t].at = "check"
  /\ IF AlreadyOpen(thread[t].name) THEN Returns(t) ELSE Goes(t, "exists")
  /\ UNCHANGED <<open, stamps, disk, map, uses>>

(* path.exists() decides between open and create; open may fail. *)
Exists(t) ==
  LET c == thread[t]
  IN  /\ c.at = "exists"
      /\ IF dirs[c.name] = NoDir THEN Goes(t, "create")
         ELSE IF Openable(c.name, c.config) THEN HasOpened(t, c.name) ELSE Returns(t)
      /\ UNCHANGED <<open, stamps, disk, map, uses>>

(* Table::create makes the directory and the state file, which it          *)
(* truncates when another thread has made it.                              *)
Create(t) ==
  LET c == thread[t]
  IN  /\ c.at = "create"
      /\ dirs' = [dirs EXCEPT ![c.name] =
                    IF @ = NoDir THEN [NoDir EXCEPT !.gen = c.stamp, !.config = c.config] ELSE [@ EXCEPT !.damaged = TRUE]]
      /\ Goes(t, "finish")
      /\ UNCHANGED <<open, stamps, catalog, history, map, uses>>

(* Table::create makes the topic; its first segment must not exist.        *)
Finish(t) ==
  LET c == thread[t]
  IN  /\ c.at = "finish"
      /\ IF dirs[c.name] = NoDir \/ dirs[c.name].whole THEN Returns(t) /\ UNCHANGED dirs
         ELSE dirs' = [dirs EXCEPT ![c.name].whole = TRUE] /\ HasOpened(t, c.name)
      /\ UNCHANGED <<open, stamps, catalog, history, map, uses>>

(* A file operation of create fails; the listener gives up. *)
CreateFails(t) ==
  /\ Failures
  /\ thread[t].at \in {"create", "finish"}
  /\ Returns(t)
  /\ cut' = cut \union {thread[t].name}
  /\ UNCHANGED <<open, stamps, catalog, dirs, era, changed, map, uses>>

(* The handle is entered into the map, over the one that may be there. *)
Publish(t) ==
  LET c == thread[t]
  IN  /\ c.at = "publish"
      /\ map' = [map EXCEPT ![c.name] = [id |-> c.stamp, gen |-> c.gen]]
      /\ Returns(t)
      /\ UNCHANGED <<open, stamps, disk, uses>>

(* Mutants of Removed: everything stays; the directory stays without its   *)
(* files; the tables of all names go.                                      *)
RemovedNothing(n) == dirs
RemovedFiles(n) == [dirs EXCEPT ![n] = [NoDir EXCEPT !.gen = dirs[n].gen]]
RemovedAll(n) == [m \in Names |-> NoDir]

(* remove_dir_all *)
Removed(n) == [dirs EXCEPT ![n] = NoDir]

(* Mutant of Dropped: the handle stays in the map. *)
DroppedNot(n) == map

(* tables_map.remove *)
Dropped(n) == [map EXCEPT ![n] = NoHandle]

(* The listener of a Delete, all of it under the lock of the map: a name   *)
(* that is not in the map is left alone; a failed removal is swallowed.    *)
Remove(t) ==
  LET n == thread[t].name
  IN  /\ thread[t].at = "remove"
      /\ Returns(t)
      /\ map' = Dropped(n)
      /\ IF map[n] = NoHandle THEN UNCHANGED <<dirs, cut, changed>>
         ELSE \/ dirs' = Removed(n) /\ cut' = cut \ {n} /\ changed' = changed \ {n}
              \/ /\ Failures
                 /\ UNCHANGED dirs \/ dirs' = [dirs EXCEPT ![n].whole = FALSE]
                 /\ cut' = cut \union {n} /\ UNCHANGED changed
      /\ UNCHANGED <<open, stamps, catalog, era, uses>>
---------------------------------------------------------------------------
(* A delete of n has counted the handles and is not done. *)
Deleting(n) == \E t \in Threads : thread[t].at # "idle" /\ thread[t].name = n /\ thread[t].config = Gone

(* Tables::get *)
Get(t, n) ==
  /\ open /\ thread[t].at = "idle"
  /\ held[t] = NoHandle /\ map[n] # NoHandle
  /\ held' = [held EXCEPT ![t] = map[n]]
  /\ late' = [late EXCEPT ![t] = Deleting(n)]
  /\ UNCHANGED <<open, stamps, disk, map, thread>>

(* TableHandle::insert through a handle: into the files it has open, which *)
(* may no longer have a name.                                              *)
Insert(t, n) ==
  /\ held[t] # NoHandle /\ thread[t].at = "idle"
  /\ dirs[n].gen = held[t].gen
  /\ dirs' = [dirs EXCEPT ![n].rows = @ \union {era[n]}]
  /\ UNCHANGED <<open, stamps, catalog, history, map, uses, thread>>

Release(t) ==
  /\ held[t] # NoHandle
  /\ held' = [held EXCEPT ![t] = NoHandle]
  /\ late' = [late EXCEPT ![t] = FALSE]
  /\ UNCHANGED <<open, stamps, disk, map, thread>>
---------------------------------------------------------------------------
Ends ==
  /\ open' = FALSE
  /\ map' = [n \in Names |-> NoHandle]
  /\ held' = [t \in Threads |-> NoHandle]
  /\ late' = [t \in Threads |-> FALSE]
  /\ thread' = [t \in Threads |-> Idle]

(* The workspace is dropped when nobody uses it. *)
Close ==
  /\ open
  /\ \A t \in Threads : thread[t] = Idle /\ held[t] = NoHandle
  /\ Ends
  /\ UNCHANGED <<stamps, disk>>

(* The steps of a call whose row is written and whose files are not done. *)
Unfinished == {"check", "exists", "create", "finish", "remove"}

(* The process dies, perhaps in the middle of a removal. *)
Crash ==
  /\ open
  /\ Crashes
  /\ Ends
  /\ \/ UNCHANGED dirs
     \/ \E t \in Threads : thread[t].at = "remove" /\ dirs' = [dirs EXCEPT ![thread[t].name].whole = FALSE]
  /\ cut' = cut \union {thread[t].name : t \in {u \in Threads : thread[u].at \in Unfinished}}
  /\ UNCHANGED <<stamps, catalog, era, changed>>

Declared(n) == catalog[n].config # Gone

(* Tables::open opens every declared table, and fails if one does not open. *)
Open ==
  /\ ~open
  /\ \A n \in Names : Declared(n) => Openable(n, catalog[n].config)
  /\ open' = TRUE
  /\ map' = [n \in Names |-> IF Declared(n) THEN [id |-> 0, gen |-> dirs[n].gen] ELSE NoHandle]
  /\ UNCHANGED <<stamps, disk, uses, thread>>

(* A call that has begun goes on. *)
Step(t) ==
  \/ Mint(t) \/ Put(t) \/ Check(t) \/ Exists(t) \/ Create(t) \/ Finish(t) \/ CreateFails(t)
  \/ Publish(t) \/ Remove(t)

Next ==
  \/ \E t \in Threads :
       \/ Step(t) \/ Release(t)
       \/ \E n \in Names :
            \/ <<"upsert", n>> \in May(t) /\ \E c \in Configs : Upsert(t, n, c)
            \/ <<"delete", n>> \in May(t) /\ Delete(t, n)
            \/ <<"get", n>> \in May(t) /\ (Get(t, n) \/ Insert(t, n))
  \/ Close \/ Crash \/ Open

Spec == Init /\ [][Next]_vars /\ \A t \in Threads : WF_vars(Step(t))
---------------------------------------------------------------------------
(* Stamps keep within their bound, and a directory is of a create that was *)
(* stamped.                                                                *)
TypeOK ==
  /\ open \in BOOLEAN /\ stamps \in 0..MaxStamp
  /\ \A n \in Names : /\ catalog[n].stamp \in 0..MaxStamp /\ catalog[n].config \in Configs \union {Gone}
                      /\ dirs[n] = NoDir \/ (dirs[n].gen \in 1..stamps /\ dirs[n].config \in Configs)
                      /\ dirs[n].rows \subseteq 0..era[n]

(* Every declared table is open and no other: when no call is in progress  *)
(* the handle map is what the catalog says, but for names whose file       *)
(* operations failed or were cut off by the death of the process.          *)
MapFollowsCatalog ==
  open /\ (\A t \in Threads : thread[t] = Idle) =>
    \A n \in Names \ cut : map[n] # NoHandle <=> Declared(n)

(* All handles of one table are one object, which serialises its writers   *)
(* and calls its listeners; no second create runs over its files.  A       *)
(* handle got while the table was deleted is an exception when the removal *)
(* fails: the next upsert opens what is left under a second handle.        *)
HandlesShared ==
  \A n \in Names :
    /\ ~dirs[n].damaged
    /\ \A t \in Threads :
         held[t] # NoHandle /\ map[n] # NoHandle /\ held[t].gen = map[n].gen => held[t] = map[n] \/ (Failures /\ late[t])

(* While a handle is in use the directory of its table is there, unless    *)
(* the handle was got after a delete of the table had counted its handles. *)
BusyProtects ==
  \A t \in Threads : held[t] # NoHandle /\ ~late[t] => \E n \in Names : dirs[n].gen = held[t].gen

(* A table that is declared again after a deletion starts empty, unless    *)
(* its files could not be removed.                                         *)
CleanRecreate == \A n \in Names \ cut : map[n] # NoHandle /\ Declared(n) => dirs[n].rows \subseteq {era[n]}

(* After a close or a crash the workspace can be opened: each declared     *)
(* table has its files, but for those whose file operations failed or were *)
(* cut off and those declared anew with another configuration.             *)
Reopens == ~open => \A n \in Names \ (cut \union changed) : Declared(n) => Openable(n, catalog[n].config)

(* A table that is declared is opened, unless it is deleted or the         *)
(* workspace is closed: upsert does not end with the declaration alone.    *)
DeclaredOpens == \A n \in Names : Declared(n) ~> (map[n] # NoHandle \/ ~Declared(n) \/ ~open)
=============================================================================
