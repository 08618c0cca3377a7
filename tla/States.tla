------------------------------- MODULE States -------------------------------
(***************************************************************************)
(* States (states/mod.rs): local key-value stores that are declared in a   *)
(* catalog, kept in one file each and opened by the first get.             *)
(*                                                                         *)
(* upsert and delete change the catalog under its lock and touch the file  *)
(* after releasing it; get, close and delete hold the lock of the map of   *)
(* open states.  The catalog is itself a State that persists each put.     *)
(***************************************************************************)
EXTENDS Integers

CONSTANTS
  Names,       \* names of application states
  Kinds,       \* of {"keydir", "btree", "memory"}: the StateConfigs declared
  Threads,
  MaxDeletes,  \* how often a name is deleted
  Failures,    \* may creating a file fail?
  Crashes      \* may the process die?

None == "none"
NoFile == [kind |-> None, rows |-> {}, damaged |-> FALSE]
Idle == [at |-> "idle", name |-> None, kind |-> None]

VARIABLES
  catalog,   \* what is declared: the kind of each name, or None
  files,     \* kind, the deletions of the name before each row, and whether
             \* the file was truncated under an open handle
  opened,    \* the open states: the kind of each handle in the map, or None
  held,      \* the name whose handle each thread holds, or None
  thread,    \* the call each thread is in, between two locks
  era        \* history: how often each name was deleted

vars == <<catalog, files, opened, held, thread, era>>

Init ==
  /\ catalog = [n \in Names |-> None]
  /\ files = [n \in Names |-> NoFile]
  /\ opened = [n \in Names |-> None]
  /\ held = [t \in Threads |-> None]
  /\ thread = [t \in Threads |-> Idle]
  /\ era = [n \in Names |-> 0]

Declared(n) == catalog[n] # None

(* State::open: a file of the right kind, or nothing for one in memory. *)
Openable(n, kind) == kind = "memory" \/ files[n].kind = kind

(* Mutant of InUse: handles are not counted. *)
NeverInUse(n) == FALSE

(* Arc::strong_count(state) > 1 *)
InUse(n) == \E t \in Threads : held[t] = n
---------------------------------------------------------------------------
(* upsert: a new name is declared and its file is made afterwards; the     *)
(* kind of a declared one is changed and nothing else.                     *)
Upsert(t, n, kind) ==
  /\ thread[t] = Idle
  /\ catalog[n] # kind
  /\ catalog' = [catalog EXCEPT ![n] = kind]
  /\ thread' = IF Declared(n) THEN thread
               ELSE [thread EXCEPT ![t] = [at |-> "create", name |-> n, kind |-> kind]]
  /\ UNCHANGED <<files, opened, held, era>>

(* The file that create leaves: it truncates what it finds, a file that is *)
(* mapped by an open handle too.                                           *)
Fresh(n, kind) == [NoFile EXCEPT !.kind = kind, !.damaged = opened[n] \notin {None, "memory"}]

(* State::create *)
Create(t) ==
  LET c == thread[t]
  IN  /\ c.at = "create"
      /\ files' = IF c.kind = "memory" THEN files ELSE [files EXCEPT ![c.name] = Fresh(c.name, c.kind)]
      /\ thread' = [thread EXCEPT ![t] = Idle]
      /\ UNCHANGED <<catalog, opened, held, era>>

CreateFails(t) ==
  /\ Failures
  /\ thread[t].at = "create"
  /\ thread' = [thread EXCEPT ![t] = Idle]
  /\ UNCHANGED <<catalog, files, opened, held, era>>

(* get: the open handle, or the declared state is opened. *)
Get(t, n) ==
  /\ thread[t] = Idle /\ held[t] = None
  /\ \/ opened[n] # None /\ UNCHANGED opened
     \/ /\ opened[n] = None
        /\ Declared(n) /\ Openable(n, catalog[n])
        /\ opened' = [opened EXCEPT ![n] = catalog[n]]
  /\ held' = [held EXCEPT ![t] = n]
  /\ UNCHANGED <<catalog, files, thread, era>>

(* StateHandle::write and a put through it. *)
Write(t) ==
  /\ held[t] # None /\ thread[t] = Idle
  /\ LET n == held[t]
     IN  files' = IF opened[n] = "memory" THEN files ELSE [files EXCEPT ![n].rows = @ \union {era[n]}]
  /\ UNCHANGED <<catalog, opened, held, thread, era>>

Release(t) ==
  /\ held[t] # None
  /\ held' = [held EXCEPT ![t] = None]
  /\ UNCHANGED <<catalog, files, opened, thread, era>>

Close(t, n) ==
  /\ thread[t] = Idle
  /\ opened[n] # None /\ ~InUse(n)
  /\ opened' = [opened EXCEPT ![n] = None]
  /\ UNCHANGED <<catalog, files, held, thread, era>>

(* delete: the handle and the declaration go; an undeclared name only      *)
(* loses its handle.                                                       *)
Delete(t, n) ==
  /\ thread[t] = Idle
  /\ ~InUse(n)
  /\ opened' = [opened EXCEPT ![n] = None]
  /\ IF Declared(n)
     THEN /\ era[n] < MaxDeletes
          /\ catalog' = [catalog EXCEPT ![n] = None]
          /\ era' = [era EXCEPT ![n] = @ + 1]
          /\ thread' = [thread EXCEPT ![t] = [at |-> "remove", name |-> n, kind |-> None]]
     ELSE UNCHANGED <<catalog, era, thread>>
  /\ UNCHANGED <<files, held>>

(* remove_dir_all removes directories: on the file of a state it fails,    *)
(* and delete returns that error with the declaration gone.                *)
Remove(t) ==
  /\ thread[t].at = "remove"
  /\ thread' = [thread EXCEPT ![t] = Idle]
  /\ UNCHANGED <<catalog, files, opened, held, era>>

(* The workspace is dropped, or the process dies, and is opened again:     *)
(* States::open opens the catalog and no other state.                      *)
Reopen ==
  /\ Crashes \/ \A t \in Threads : thread[t] = Idle /\ held[t] = None
  /\ opened' = [n \in Names |-> None]
  /\ held' = [t \in Threads |-> None]
  /\ thread' = [t \in Threads |-> Idle]
  /\ UNCHANGED <<catalog, files, era>>

Next ==
  \/ \E t \in Threads :
       \/ Create(t) \/ CreateFails(t) \/ Write(t) \/ Release(t) \/ Remove(t)
       \/ \E n \in Names : Get(t, n) \/ Close(t, n) \/ Delete(t, n) \/ \E k \in Kinds : Upsert(t, n, k)
  \/ Reopen

Spec == Init /\ [][Next]_vars
---------------------------------------------------------------------------
(* Declarations, handles and files have kinds, and rows are of no later    *)
(* life of the name than this one.                                         *)
TypeOK ==
  /\ catalog \in [Names -> Kinds \union {None}]
  /\ opened \in [Names -> Kinds \union {None}]
  /\ held \in [Threads -> Names \union {None}]
  /\ \A n \in Names : files[n] = NoFile \/ (files[n].kind \in Kinds /\ files[n].rows \subseteq 0..era[n])

(* A handle somebody holds is the one in the map: neither close nor delete *)
(* takes it away, so that get never opens a file twice.                    *)
HandleKept == \A t \in Threads : held[t] # None => opened[held[t]] # None

(* Once upsert is done with a name, get succeeds. *)
Gettable ==
  \A n \in Names : Declared(n) /\ (\A t \in Threads : thread[t].name # n) => opened[n] # None \/ Openable(n, catalog[n])

(* Nothing of a deleted state is seen in the one declared next. *)
CleanRecreate == \A n \in Names : opened[n] \notin {None, "memory"} => files[n].rows \subseteq {era[n]}

(* A state that somebody holds keeps its file: no create truncates it.     *)
(* Refuted: upsert creates the file after it has unlocked the catalog, and *)
(* truncates what a get has opened in between.                             *)
KeepsFile == \A t \in Threads : held[t] # None => ~files[held[t]].damaged

(* delete leaves neither declaration nor data.  Refuted: a State is one    *)
(* file, on which remove_dir_all fails.                                    *)
NothingLeft == \A n \in Names : ~Declared(n) /\ (\A t \in Threads : thread[t].name # n) => files[n] = NoFile
=============================================================================
