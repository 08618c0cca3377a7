--------------------------- MODULE CatalogProofs ---------------------------
(***************************************************************************)
(* The tables and the named states of a workspace under several threads:   *)
(* what the catalog, the directories, the map of open handles and the      *)
(* handles in use say of each other.                                       *)
(***************************************************************************)
EXTENDS Integers, FiniteSets, TLAPS

(* A leaf is tried with Zenon, then with SMT; those that need arithmetic   *)
(* or are too large for Zenon name SMT.                                    *)
USE ZenonT(10), SMTT(20)

(* The tables of a workspace (Tables). *)
CONSTANTS Names, Threads, Failures, Crashes, Configs, May(_), MaxStamp
VARIABLES catalog, held, thread, era, open, stamps, dirs, map, cut, changed, late

Tb == INSTANCE Tables

(* A name is upserted and deleted by one thread, so that no two calls work *)
(* on the same name; any thread may get and use its table at any time.     *)
Managed ==
  /\ "gone" \notin Configs
  /\ \A t, u \in Threads, n \in Names :
       {<<"upsert", n>>, <<"delete", n>>} \cap May(t) # {} /\ {<<"upsert", n>>, <<"delete", n>>} \cap May(u) # {} => t = u

Handles == [id : Nat, gen : Nat]
Dirs == [gen : Nat, config : Configs \cup {"gone"}, whole : BOOLEAN, damaged : BOOLEAN, rows : SUBSET Nat]
Stamped == {"put", "check", "exists", "create", "finish", "publish", "remove"}
Calls ==
  [at : Stamped \cup {"idle", "mint"}, name : Names \cup {"gone"}, config : Configs \cup {"gone"}, stamp : Nat, gen : Nat]

TbTypes ==
  /\ open \in BOOLEAN /\ stamps \in Nat
  /\ catalog \in [Names -> [stamp : Nat, config : Configs \cup {"gone"}]] /\ era \in [Names -> Nat]
  /\ dirs \in [Names -> Dirs] /\ map \in [Names -> Handles]
  /\ held \in [Threads -> Handles] /\ late \in [Threads -> BOOLEAN] /\ thread \in [Threads -> Calls]

(* The call c that thread t is in, where the map is mp, the directories    *)
(* are dr, the handles are hd, those of lt got late, and st stamps were    *)
(* minted: what a delete removes is in the map and whoever holds it got it *)
(* late, what an upsert opens is not in the map, what it creates is not    *)
(* there, and its stamp is that of no directory and no handle in use.      *)
CallOk(t, c, mp, dr, hd, lt, st) ==
  \/ c = Tb!Idle
  \/ /\ c.at \in Stamped \cup {"mint"} /\ c.name \in Names
     /\ <<IF c.config = "gone" THEN "delete" ELSE "upsert", c.name>> \in May(t)
     /\ c.at # "mint" => c.stamp \in 1 .. st
     /\ c.at = "remove" => c.config = "gone"
     /\ c.at \in {"check", "exists", "create", "finish", "publish"} => c.config # "gone"
     /\ c.config = "gone" => mp[c.name] # Tb!NoHandle /\ \A u \in Threads : hd[u] = mp[c.name] => lt[u]
     /\ c.at \in {"exists", "create", "finish", "publish"} => mp[c.name] = Tb!NoHandle
     /\ c.at \in {"put", "check", "exists", "create"} =>
          (\A m \in Names : dr[m].gen # c.stamp) /\ (\A u \in Threads : hd[u].gen # c.stamp)
     /\ c.at = "create" => dr[c.name] = Tb!NoDir
     /\ c.at = "publish" => c.gen = dr[c.name].gen /\ c.gen # 0

TbCalls == \A t \in Threads : CallOk(t, thread[t], map, dirs, held, late, stamps)

(* The directory d and the handle h of a name. *)
DirOk(d, h, st) ==
  /\ d = Tb!NoDir \/ d.gen \in 1 .. st
  /\ d.damaged = FALSE
  /\ h # Tb!NoHandle => h.gen = d.gen /\ h.gen # 0

TbDirs ==
  /\ \A n \in Names : DirOk(dirs[n], map[n], stamps)
  /\ \A n, m \in Names : dirs[n].gen = dirs[m].gen /\ dirs[n].gen # 0 => n = m

(* The handle h of a thread, got late or not: it is the one in the map     *)
(* unless it was got late, and a directory it belongs to has no other.     *)
HeldOk(h, l, mp, dr, st) ==
  h # Tb!NoHandle =>
    /\ h.gen \in 1 .. st
    /\ l \/ \E n \in Names : h = mp[n]
    /\ (l /\ Failures) \/ \A n \in Names : dr[n].gen = h.gen => h = mp[n]

(* Stamps and handles. *)
TbStamps ==
  \A t, u \in Threads : thread[t].at \in Stamped /\ thread[u].at \in Stamped /\ thread[t].stamp = thread[u].stamp => t = u
TbHeld ==
  /\ \A t \in Threads : HeldOk(held[t], late[t], map, dirs, stamps)
  /\ ~open => \A t \in Threads : thread[t] = Tb!Idle /\ held[t] = Tb!NoHandle

TbInv == TbTypes /\ TbCalls /\ TbDirs /\ TbStamps /\ TbHeld
---------------------------------------------------------------------------
(* The constants of Tables, field by field. *)
LEMMA TbConstants ==
  /\ Tb!Idle \in Calls /\ Tb!Idle.at = "idle" /\ Tb!Gone = "gone"
  /\ Tb!NoHandle \in Handles /\ Tb!NoHandle.gen = 0
  /\ Tb!NoDir \in Dirs /\ Tb!NoDir.gen = 0 /\ Tb!NoDir.damaged = FALSE /\ Tb!NoDir.whole = FALSE /\ Tb!NoDir.rows = {}
  /\ DirOk(Tb!NoDir, Tb!NoHandle, 0)
<1>1. Tb!Idle \in Calls /\ Tb!Idle.at = "idle" /\ Tb!Gone = "gone"
  BY DEF Tb!Idle, Tb!Gone, Calls
<1>2. Tb!NoHandle \in Handles /\ Tb!NoHandle.gen = 0
  BY DEF Tb!NoHandle, Handles
<1>3. /\ Tb!NoDir \in Dirs /\ Tb!NoDir.gen = 0 /\ Tb!NoDir.damaged = FALSE /\ Tb!NoDir.whole = FALSE
      /\ Tb!NoDir.rows = {}
  BY DEF Tb!NoDir, Tb!Gone, Dirs
<1> QED BY <1>1, <1>2, <1>3 DEF DirOk

(* No two calls work on the same name. *)
LEMMA OwnName ==
  ASSUME Managed, TbInv, NEW t \in Threads, NEW u \in Threads, t # u, thread[u] # Tb!Idle, NEW n \in Names,
         \/ thread[t] # Tb!Idle /\ thread[t].name = n
         \/ <<"upsert", n>> \in May(t) \/ <<"delete", n>> \in May(t)
  PROVE  thread[u].name # n
<1>1. ASSUME NEW v \in Threads, thread[v] # Tb!Idle
      PROVE  {<<"upsert", thread[v].name>>, <<"delete", thread[v].name>>} \cap May(v) # {}
  BY <1>1 DEF TbInv, TbCalls, CallOk
<1>2. {<<"upsert", n>>, <<"delete", n>>} \cap May(t) # {}
  BY <1>1
<1> QED BY <1>1, <1>2 DEF Managed

(* Calls of other threads do not notice what happens to n. *)
LEMMA OthersKept ==
  ASSUME TbInv, NEW t \in Threads, NEW n \in Names, NEW mp, NEW dr, NEW st \in Nat, stamps <= st,
         \A u \in Threads : u # t /\ thread[u] # Tb!Idle => thread[u].name # n,
         \A u \in Threads : u # t /\ thread[u].at \in Stamped => dr[n].gen # thread[u].stamp \/ dr[n].gen = dirs[n].gen,
         \A m \in Names : m # n => mp[m] = map[m] /\ dr[m] = dirs[m],
         NEW u \in Threads, u # t
  PROVE  CallOk(u, thread[u], mp, dr, held, late, st)
<1>1. CASE thread[u] = Tb!Idle
  BY <1>1 DEF CallOk
<1>2. CASE thread[u] # Tb!Idle
  <2>1. CallOk(u, thread[u], map, dirs, held, late, stamps) /\ stamps \in Nat
    BY DEF TbInv, TbCalls, TbTypes
  <2>2. thread[u].name \in Names /\ thread[u].name # n
    BY <1>2, <2>1 DEF CallOk
  <2>3. mp[thread[u].name] = map[thread[u].name] /\ dr[thread[u].name] = dirs[thread[u].name]
    BY <2>2
  <2>4. thread[u].stamp \in 1 .. stamps => thread[u].stamp \in 1 .. st
    BY <2>1, SMTT(20)
  <2>5. thread[u].at \in Stamped /\ (\A m \in Names : dirs[m].gen # thread[u].stamp) =>
          \A m \in Names : dr[m].gen # thread[u].stamp
    OBVIOUS
  <2> QED BY <1>2, <2>1, <2>3, <2>4, <2>5 DEF CallOk, Stamped
<1> QED BY <1>1, <1>2

(* The call of thread t goes on as c. *)
BecomesCall(t, c) ==
  thread' \in [Threads -> Calls] /\ thread'[t] = c /\ \A u \in Threads : u # t => thread'[u] = thread[u]

(* The handle h of a name becomes g, and its directory d: nobody has h     *)
(* without having got it late, and then only a removal that fails leaves   *)
(* its directory.                                                          *)
KeepsHandle(h, g, d) ==
  \/ g = h
  \/ h = Tb!NoHandle
  \/ (\A u \in Threads : held[u] = h => late[u]) /\ (Failures \/ d.gen = 0)

(* A handle in use, when the handle of n becomes g and its directory d. *)
LEMMA HeldKept ==
  ASSUME TbInv, NEW u \in Threads, NEW n \in Names, NEW mp, NEW dr, NEW st \in Nat, stamps <= st,
         \A m \in Names : m # n => mp[m] = map[m] /\ dr[m] = dirs[m],
         KeepsHandle(map[n], mp[n], dr[n]),
         dr[n].gen \in {0, dirs[n].gen} \/ dr[n].gen # held[u].gen
  PROVE  HeldOk(held[u], late[u], mp, dr, st)
<1> SUFFICES ASSUME held[u] # Tb!NoHandle PROVE HeldOk(held[u], late[u], mp, dr, st)
  BY DEF HeldOk
<1>1. HeldOk(held[u], late[u], map, dirs, stamps) /\ stamps \in Nat
  BY DEF TbInv, TbHeld, TbTypes
<1>2. held[u].gen \in 1 .. st /\ held[u].gen # 0
  BY <1>1, SMTT(20) DEF HeldOk
<1>3. held[u] = map[n] => late[u] \/ mp[n] = map[n]
  BY DEF KeepsHandle
<1>4. late[u] \/ \E m \in Names : held[u] = mp[m]
  BY <1>1, <1>3 DEF HeldOk
<1>5. ASSUME ~(late[u] /\ Failures), NEW m \in Names, dr[m].gen = held[u].gen PROVE held[u] = mp[m]
  <2>1. dirs[m].gen = held[u].gen
    BY <1>2, <1>5
  <2>2. held[u] = map[m]
    BY <1>1, <1>5, <2>1 DEF HeldOk
  <2>3. CASE m # n
    BY <2>2, <2>3
  <2>4. CASE m = n
    BY <1>2, <1>5, <2>2, <2>4 DEF KeepsHandle
  <2> QED BY <2>3, <2>4
<1> QED BY <1>2, <1>4, <1>5 DEF HeldOk

(* A step of a call of thread t on the name n, which goes on as c. *)
LEMMA CallStep ==
  ASSUME TbInv, TbTypes', NEW t \in Threads, NEW n \in Names, NEW c,
         BecomesCall(t, c), UNCHANGED <<held, late, open>>, stamps <= stamps',
         open \/ thread[t] # Tb!Idle,
         \A u \in Threads : u # t /\ thread[u] # Tb!Idle => thread[u].name # n,
         \A m \in Names : m # n => map'[m] = map[m] /\ dirs'[m] = dirs[m],
         CallOk(t, c, map', dirs', held, late, stamps'), DirOk(dirs'[n], map'[n], stamps'),
         dirs'[n].gen \in {0, dirs[n].gen} \/ (thread[t].at = "create" /\ dirs'[n].gen = thread[t].stamp),
         c.at \in Stamped => c.stamp = stamps + 1 \/ (thread[t].at \in Stamped /\ c.stamp = thread[t].stamp),
         KeepsHandle(map[n], map'[n], dirs'[n])
  PROVE  TbInv'
<1>0. TbTypes /\ TbCalls /\ TbDirs /\ TbStamps /\ TbHeld /\ stamps \in Nat /\ stamps' \in Nat
  BY DEF TbInv, TbTypes
<1>1. thread'[t] = c /\ \A u \in Threads : u # t => thread'[u] = thread[u]
  BY DEF BecomesCall
<1>2. \A u \in Threads : thread[u] # Tb!Idle /\ thread[u].at \in Stamped => thread[u].stamp \in 1 .. stamps
  BY <1>0 DEF TbCalls, CallOk, Stamped
<1>3. \A u \in Threads : thread[u].at \in Stamped \cup {"mint"} => thread[u] # Tb!Idle
  BY TbConstants DEF Stamped
<1>4. ASSUME NEW u \in Threads, u # t, thread[u].at \in Stamped
      PROVE  dirs'[n].gen # thread[u].stamp \/ dirs'[n].gen = dirs[n].gen
  <2>1. thread[u].stamp \in 1 .. stamps
    BY <1>2, <1>3, <1>4
  <2>2. thread[t].at = "create" => thread[u].stamp # thread[t].stamp
    BY <1>0, <1>4 DEF TbStamps, Stamped
  <2> QED BY <2>1, <2>2, SMTT(20)
<1>5. TbCalls'
  <2>1. ASSUME NEW u \in Threads, u # t PROVE CallOk(u, thread[u], map', dirs', held, late, stamps')
    BY <1>0, <1>4, <2>1, OthersKept
  <2> QED BY <1>1, <2>1 DEF TbCalls
<1>6. TbStamps'
  BY <1>0, <1>1, <1>2, <1>3, SMTT(20) DEF TbStamps
<1>7. TbDirs'
  <2>1. ASSUME NEW m \in Names PROVE DirOk(dirs'[m], map'[m], stamps')
    <3>1. m = n \/ DirOk(dirs[m], map[m], stamps)
      BY <1>0 DEF TbDirs
    <3> QED BY <1>0, <3>1, SMTT(20) DEF DirOk
  <2>2. ASSUME NEW m \in Names, m # n, dirs'[n].gen # 0 PROVE dirs'[n].gen # dirs[m].gen
    <3>1. thread[t].at = "create" => dirs[m].gen # thread[t].stamp
      BY <1>0, TbConstants DEF TbCalls, CallOk
    <3> QED BY <1>0, <2>2, <3>1 DEF TbDirs
  <2> QED BY <1>0, <2>1, <2>2, SMTT(20) DEF TbDirs
<1>8. TbHeld'
  <2>1. ASSUME NEW u \in Threads PROVE HeldOk(held[u], late[u], map', dirs', stamps')
    <3>1. thread[t].at = "create" => held[u].gen # thread[t].stamp
      BY <1>0, TbConstants DEF TbCalls, CallOk
    <3>2. dirs'[n].gen \in {0, dirs[n].gen} \/ dirs'[n].gen # held[u].gen
      BY <3>1
    <3> QED BY <1>0, <3>2, HeldKept
  <2>2. ~open' => \A u \in Threads : thread'[u] = Tb!Idle /\ held'[u] = Tb!NoHandle
    BY <1>0 DEF TbHeld
  <2> QED BY <2>1, <2>2 DEF TbHeld
<1> QED BY <1>5, <1>6, <1>7, <1>8 DEF TbInv

(* Where a call goes on: to its next step, with a stamp, with a table that *)
(* was opened.                                                             *)
LEMMA GoesOn ==
  ASSUME TbTypes, NEW t \in Threads, NEW s \in Stamped, Tb!Goes(t, s)
  PROVE  \E c \in Calls : /\ BecomesCall(t, c) /\ c.at = s /\ c.name = thread[t].name
                          /\ c.config = thread[t].config /\ c.stamp = thread[t].stamp /\ c.gen = thread[t].gen
<1> DEFINE c == [thread[t] EXCEPT !.at = s]
<1>1. thread[t] \in Calls
  BY DEF TbTypes
<1>2. /\ c \in Calls /\ c.at = s /\ c.name = thread[t].name
      /\ c.config = thread[t].config /\ c.stamp = thread[t].stamp /\ c.gen = thread[t].gen
  BY <1>1 DEF Calls
<1>3. BecomesCall(t, c)
  BY <1>1, <1>2 DEF Tb!Goes, BecomesCall, TbTypes
<1> QED BY <1>2, <1>3

(* What Mint makes of a call. *)
LEMMA GoesStamped ==
  ASSUME TbTypes, NEW t \in Threads, Tb!Mint(t)
  PROVE  \E c \in Calls : /\ BecomesCall(t, c) /\ c.at = "put" /\ c.name = thread[t].name
                          /\ c.config = thread[t].config /\ c.stamp = stamps + 1
<1>1. thread[t] \in Calls /\ thread \in [Threads -> Calls] /\ stamps + 1 \in Nat
  BY SMTT(20) DEF TbTypes
<1>2. PICK st \in Nat : st = stamps + 1
  BY <1>1
<1> DEFINE c == [thread[t] EXCEPT !.at = "put", !.stamp = st]
<1>3. c \in Calls /\ c.at = "put" /\ c.name = thread[t].name /\ c.config = thread[t].config /\ c.stamp = st
  BY <1>1 DEF Calls, Stamped
<1>4. thread' = [thread EXCEPT ![t].at = "put", ![t].stamp = st]
  BY <1>2 DEF Tb!Mint
<1>5. BecomesCall(t, c)
  BY <1>1, <1>3, <1>4 DEF BecomesCall
<1> QED BY <1>2, <1>3, <1>5

(* What the opening of a table makes of a call. *)
LEMMA GoesOpened ==
  ASSUME TbTypes, NEW t \in Threads, NEW n \in Names, Tb!HasOpened(t, n)
  PROVE  \E c \in Calls : /\ BecomesCall(t, c) /\ c.at = "publish" /\ c.name = thread[t].name
                          /\ c.config = thread[t].config /\ c.stamp = thread[t].stamp /\ c.gen = dirs[n].gen
<1> DEFINE c == [thread[t] EXCEPT !.at = "publish", !.gen = dirs[n].gen]
<1>1. thread[t] \in Calls /\ thread \in [Threads -> Calls] /\ dirs[n].gen \in Nat
  BY DEF TbTypes, Dirs
<1>2. /\ c \in Calls /\ c.at = "publish" /\ c.name = thread[t].name /\ c.config = thread[t].config
      /\ c.stamp = thread[t].stamp /\ c.gen = dirs[n].gen
  BY <1>1 DEF Calls, Stamped
<1>3. BecomesCall(t, c)
  BY <1>1, <1>2 DEF Tb!HasOpened, BecomesCall
<1> QED BY <1>2, <1>3

(* A call that has begun. *)
LEMMA Begun ==
  ASSUME Managed, TbInv, NEW t \in Threads, thread[t].at # "idle"
  PROVE  /\ thread[t] # Tb!Idle /\ thread[t].name \in Names /\ thread[t].at \in Stamped \cup {"mint"}
         /\ CallOk(t, thread[t], map, dirs, held, late, stamps) /\ DirOk(dirs[thread[t].name], map[thread[t].name], stamps)
         /\ \A u \in Threads : u # t /\ thread[u] # Tb!Idle => thread[u].name # thread[t].name
<1>1. thread[t] # Tb!Idle /\ CallOk(t, thread[t], map, dirs, held, late, stamps)
  BY TbConstants DEF TbInv, TbCalls
<1>2. thread[t].name \in Names /\ thread[t].at \in Stamped \cup {"mint"}
  BY <1>1 DEF CallOk
<1>3. \A u \in Threads : u # t /\ thread[u] # Tb!Idle => thread[u].name # thread[t].name
  BY <1>1, <1>2, OwnName
<1> QED BY <1>1, <1>2, <1>3 DEF TbInv, TbDirs

(* A step that changes neither the map nor the directories. *)
LEMMA CallQuiet ==
  ASSUME TbInv, NEW t \in Threads, NEW n \in Names, NEW c \in Calls,
         BecomesCall(t, c), UNCHANGED <<held, late, open, dirs, map>>, stamps' \in Nat, stamps <= stamps',
         catalog' \in [Names -> [stamp : Nat, config : Configs \cup {"gone"}]], era' \in [Names -> Nat],
         open \/ thread[t] # Tb!Idle,
         \A u \in Threads : u # t /\ thread[u] # Tb!Idle => thread[u].name # n,
         CallOk(t, c, map, dirs, held, late, stamps'),
         c.at \in Stamped => c.stamp = stamps + 1 \/ (thread[t].at \in Stamped /\ c.stamp = thread[t].stamp)
  PROVE  TbInv'
<1>1. TbTypes'
  BY DEF TbInv, TbTypes, BecomesCall
<1>2. DirOk(dirs[n], map[n], stamps')
  BY SMTT(20) DEF TbInv, TbTypes, TbDirs, DirOk
<1>3. KeepsHandle(map[n], map'[n], dirs'[n])
  BY DEF KeepsHandle
<1> QED BY <1>1, <1>2, <1>3, CallStep, SMTT(20)

(* A call that returns without a further change. *)
LEMMA ReturnKept ==
  ASSUME Managed, TbInv, NEW t \in Threads, thread[t].at # "idle", Tb!Returns(t),
         UNCHANGED <<open, stamps, dirs, map, held, late>>,
         catalog' \in [Names -> [stamp : Nat, config : Configs \cup {"gone"}]], era' \in [Names -> Nat]
  PROVE  TbInv'
<1>1. PICK c \in Calls : c = Tb!Idle
  BY TbConstants
<1>2. BecomesCall(t, c)
  BY <1>1 DEF Tb!Returns, BecomesCall, TbInv, TbTypes
<1>3. CallOk(t, c, map, dirs, held, late, stamps) /\ c.at \notin Stamped
  BY <1>1, TbConstants DEF CallOk, Stamped
<1>4. stamps \in Nat
  BY DEF TbInv, TbTypes
<1> QED BY <1>2, <1>3, <1>4, Begun, CallQuiet, SMTT(20)

(* A call begins: its name is nobody else's. *)
LEMMA StartsKept ==
  ASSUME Managed, TbInv, NEW t \in Threads, NEW n \in Names,
         \/ \E k \in Configs : <<"upsert", n>> \in May(t) /\ Tb!Upsert(t, n, k)
         \/ <<"delete", n>> \in May(t) /\ Tb!Delete(t, n)
  PROVE  TbInv'
<1>1. PICK k \in Configs \cup {"gone"} :
        /\ open /\ thread' = [thread EXCEPT ![t] = [at |-> "mint", name |-> n, config |-> k, stamp |-> 0, gen |-> 0]]
        /\ UNCHANGED <<open, stamps, catalog, dirs, era, map, held, late>>
        /\ <<IF k = "gone" THEN "delete" ELSE "upsert", n>> \in May(t)
        /\ k = "gone" => map[n] # Tb!NoHandle /\ \A u \in Threads : held[u] = map[n] => late[u]
  BY TbConstants DEF Tb!Upsert, Tb!Delete, Tb!Starts, Tb!InUse, Tb!disk, Tb!history, Tb!uses, Managed
<1>2. PICK c : c = [at |-> "mint", name |-> n, config |-> k, stamp |-> 0, gen |-> 0]
  OBVIOUS
<1>3. c \in Calls
  BY <1>2 DEF Calls
<1>4. CallOk(t, c, map, dirs, held, late, stamps)
  BY <1>1, <1>2 DEF CallOk
<1>5. \A u \in Threads : u # t /\ thread[u] # Tb!Idle => thread[u].name # n
  BY <1>1, OwnName
<1>6. c.at \notin Stamped
  BY <1>2 DEF Stamped
<1>7. BecomesCall(t, c) /\ UNCHANGED <<held, late, open, dirs, map>> /\ stamps' = stamps /\ open
  BY <1>1, <1>2, <1>3 DEF BecomesCall, TbInv, TbTypes
<1>8. /\ stamps \in Nat /\ catalog' \in [Names -> [stamp : Nat, config : Configs \cup {"gone"}]]
      /\ era' \in [Names -> Nat]
  BY <1>1 DEF TbInv, TbTypes
<1> QED BY <1>3, <1>4, <1>5, <1>6, <1>7, <1>8, CallQuiet, SMTT(20)

(* The call gets a stamp greater than all earlier ones. *)
LEMMA MintKept == ASSUME Managed, TbInv, NEW t \in Threads, Tb!Mint(t) PROVE TbInv'
<1> DEFINE n == thread[t].name
<1>0. /\ thread[t].at = "mint" /\ stamps' = stamps + 1 /\ stamps \in Nat
      /\ thread' = [thread EXCEPT ![t].at = "put", ![t].stamp = stamps']
      /\ UNCHANGED <<open, catalog, dirs, era, map, held, late>>
  BY DEF Tb!Mint, Tb!disk, Tb!history, Tb!uses, TbInv, TbTypes
<1>1. /\ thread[t] # Tb!Idle /\ n \in Names /\ CallOk(t, thread[t], map, dirs, held, late, stamps)
      /\ \A u \in Threads : u # t /\ thread[u] # Tb!Idle => thread[u].name # n
  BY <1>0, Begun
<1>2. PICK c \in Calls : /\ BecomesCall(t, c) /\ c.at = "put" /\ c.name = n
                         /\ c.config = thread[t].config /\ c.stamp = stamps + 1
  BY GoesStamped DEF TbInv
<1>3. \A m \in Names : dirs[m].gen # stamps'
  BY <1>0, TbConstants, SMTT(20) DEF TbInv, TbDirs, DirOk
<1>4. \A u \in Threads : held[u].gen # stamps'
  BY <1>0, TbConstants, SMTT(20) DEF TbInv, TbHeld, HeldOk
<1>5. CallOk(t, c, map, dirs, held, late, stamps')
  BY <1>0, <1>1, <1>2, <1>3, <1>4, SMTT(20) DEF CallOk, Stamped
<1>6. catalog' \in [Names -> [stamp : Nat, config : Configs \cup {"gone"}]] /\ era' \in [Names -> Nat]
  BY <1>0 DEF TbInv, TbTypes
<1> HIDE DEF n
<1> QED BY <1>0, <1>1, <1>2, <1>5, <1>6, CallQuiet, SMTT(20)

(* The declaration is written, and the call goes on or returns. *)
LEMMA PutKept == ASSUME Managed, TbInv, NEW t \in Threads, Tb!Put(t) PROVE TbInv'
<1> DEFINE n == thread[t].name
<1>0. thread[t].at = "put" /\ UNCHANGED <<open, stamps, dirs, map, held, late>> /\ stamps \in Nat /\ "put" \in Stamped
  BY DEF Tb!Put, Tb!uses, TbInv, TbTypes, Stamped
<1>1. /\ thread[t] # Tb!Idle /\ n \in Names /\ CallOk(t, thread[t], map, dirs, held, late, stamps)
      /\ \A u \in Threads : u # t /\ thread[u] # Tb!Idle => thread[u].name # n
  BY <1>0, Begun
<1>2. catalog' \in [Names -> [stamp : Nat, config : Configs \cup {"gone"}]] /\ era' \in [Names -> Nat]
  <2>1. thread[t] \in Calls /\ era \in [Names -> Nat] /\ catalog \in [Names -> [stamp : Nat, config : Configs \cup {"gone"}]]
    BY DEF TbInv, TbTypes
  <2>2. thread[t].stamp \in Nat /\ thread[t].config \in Configs \cup {"gone"}
    BY <2>1 DEF Calls
  <2> QED BY <1>1, <2>1, <2>2, SMTT(20) DEF Tb!Put
<1>3. CASE Tb!Returns(t)
  BY <1>0, <1>1, <1>2, <1>3, ReturnKept DEF Tb!Put
<1>4. CASE Tb!Goes(t, IF thread[t].config = Tb!Gone THEN "remove" ELSE "check")
  <2>1. PICK s \in {"remove", "check"} : Tb!Goes(t, s) /\ (s = "remove" <=> thread[t].config = "gone")
    BY <1>4, TbConstants
  <2>2. s \in Stamped
    BY DEF Stamped
  <2>3. PICK c \in Calls : /\ BecomesCall(t, c) /\ c.at = s /\ c.name = thread[t].name
                           /\ c.config = thread[t].config /\ c.stamp = thread[t].stamp
    BY <2>1, <2>2, GoesOn, SMTT(20), ZenonT(20) DEF TbInv
  <2>4. CallOk(t, c, map, dirs, held, late, stamps')
    BY <1>0, <1>1, <2>1, <2>2, <2>3 DEF CallOk
  <2> HIDE DEF n
  <2> QED BY <1>0, <1>1, <1>2, <2>3, <2>4, CallQuiet, SMTT(20)
<1> QED BY <1>3, <1>4 DEF Tb!Put

(* The call looks for an open table of its name. *)
LEMMA CheckKept == ASSUME Managed, TbInv, NEW t \in Threads, Tb!Check(t) PROVE TbInv'
<1> DEFINE n == thread[t].name
<1>0. /\ thread[t].at = "check" /\ UNCHANGED <<open, stamps, catalog, dirs, era, map, held, late>> /\ stamps \in Nat
      /\ "check" \in Stamped /\ "exists" \in Stamped
  BY DEF Tb!Check, Tb!disk, Tb!history, Tb!uses, TbInv, TbTypes, Stamped
<1>1. /\ thread[t] # Tb!Idle /\ n \in Names /\ CallOk(t, thread[t], map, dirs, held, late, stamps)
      /\ \A u \in Threads : u # t /\ thread[u] # Tb!Idle => thread[u].name # n
  BY <1>0, Begun
<1>2. catalog' \in [Names -> [stamp : Nat, config : Configs \cup {"gone"}]] /\ era' \in [Names -> Nat]
  BY <1>0 DEF TbInv, TbTypes
<1>3. CASE Tb!Returns(t)
  BY <1>0, <1>1, <1>2, <1>3, ReturnKept
<1>4. CASE map[n] = Tb!NoHandle /\ Tb!Goes(t, "exists")
  <2>1. PICK c \in Calls : /\ BecomesCall(t, c) /\ c.at = "exists" /\ c.name = thread[t].name
                           /\ c.config = thread[t].config /\ c.stamp = thread[t].stamp
    BY <1>0, <1>4, GoesOn, SMTT(20) DEF TbInv
  <2>2. CallOk(t, c, map, dirs, held, late, stamps')
    BY <1>0, <1>1, <1>4, <2>1 DEF CallOk
  <2> HIDE DEF n
  <2> QED BY <1>0, <1>1, <1>2, <2>1, <2>2, CallQuiet, SMTT(20)
<1> QED BY <1>3, <1>4 DEF Tb!Check, Tb!AlreadyOpen

(* The call looks for the directory of its name. *)
LEMMA ExistsKept == ASSUME Managed, TbInv, NEW t \in Threads, Tb!Exists(t) PROVE TbInv'
<1> DEFINE n == thread[t].name
<1>0. /\ thread[t].at = "exists" /\ UNCHANGED <<open, stamps, catalog, dirs, era, map, held, late>> /\ stamps \in Nat
      /\ "exists" \in Stamped /\ "create" \in Stamped /\ "publish" \in Stamped
  BY DEF Tb!Exists, Tb!disk, Tb!history, Tb!uses, TbInv, TbTypes, Stamped
<1>1. /\ thread[t] # Tb!Idle /\ n \in Names /\ CallOk(t, thread[t], map, dirs, held, late, stamps)
      /\ DirOk(dirs[n], map[n], stamps)
      /\ \A u \in Threads : u # t /\ thread[u] # Tb!Idle => thread[u].name # n
  BY <1>0, Begun
<1>2. catalog' \in [Names -> [stamp : Nat, config : Configs \cup {"gone"}]] /\ era' \in [Names -> Nat]
  BY <1>0 DEF TbInv, TbTypes
<1>3. CASE Tb!Returns(t)
  BY <1>0, <1>1, <1>2, <1>3, ReturnKept
<1>4. CASE dirs[n] = Tb!NoDir /\ Tb!Goes(t, "create")
  <2>1. PICK c \in Calls : /\ BecomesCall(t, c) /\ c.at = "create" /\ c.name = thread[t].name
                           /\ c.config = thread[t].config /\ c.stamp = thread[t].stamp
    BY <1>0, <1>4, GoesOn, SMTT(20) DEF TbInv
  <2>2. CallOk(t, c, map, dirs, held, late, stamps')
    BY <1>0, <1>1, <1>4, <2>1 DEF CallOk
  <2> HIDE DEF n
  <2> QED BY <1>0, <1>1, <1>2, <2>1, <2>2, CallQuiet, SMTT(20)
<1>5. CASE dirs[n] # Tb!NoDir /\ Tb!HasOpened(t, n)
  <2>1. PICK c \in Calls : /\ BecomesCall(t, c) /\ c.at = "publish" /\ c.name = thread[t].name /\ c.config = thread[t].config
                           /\ c.stamp = thread[t].stamp /\ c.gen = dirs[n].gen
    BY <1>1, <1>5, GoesOpened DEF TbInv
  <2>2. dirs[n].gen # 0
    BY <1>0, <1>1, <1>5, SMTT(20) DEF DirOk
  <2>3. CallOk(t, c, map, dirs, held, late, stamps')
    BY <1>0, <1>1, <2>1, <2>2 DEF CallOk
  <2> HIDE DEF n
  <2> QED BY <1>0, <1>1, <1>2, <2>1, <2>3, CallQuiet, SMTT(20)
<1> QED BY <1>3, <1>4, <1>5 DEF Tb!Exists

(* The directory of n becomes d, and its handle h. *)
Becomes(n, d, h) ==
  /\ dirs' \in [Names -> Dirs] /\ dirs'[n] = d /\ \A m \in Names : m # n => dirs'[m] = dirs[m]
  /\ map' \in [Names -> Handles] /\ map'[n] = h /\ \A m \in Names : m # n => map'[m] = map[m]

(* Becomes from an assignment to dirs and to map. *)
LEMMA BecomesIs ==
  ASSUME TbInv, NEW n \in Names, NEW d \in Dirs, NEW h \in Handles,
         dirs' = [dirs EXCEPT ![n] = d] \/ (dirs' = dirs /\ d = dirs[n]),
         map' = [map EXCEPT ![n] = h] \/ (map' = map /\ h = map[n])
  PROVE  Becomes(n, d, h)
BY DEF Becomes, TbInv, TbTypes

(* A step that changes directory and handle of the name of its call. *)
LEMMA CallChanges ==
  ASSUME Managed, TbInv, NEW t \in Threads, thread[t].at # "idle", NEW c \in Calls, NEW n \in Names, n = thread[t].name,
         BecomesCall(t, c), UNCHANGED <<open, stamps, catalog, era, held, late>>,
         NEW d, NEW h, Becomes(n, d, h),
         CallOk(t, c, map', dirs', held, late, stamps), DirOk(d, h, stamps),
         d.gen \in {0, dirs[n].gen} \/ (thread[t].at = "create" /\ d.gen = thread[t].stamp),
         c = Tb!Idle \/ c.stamp = thread[t].stamp, thread[t].at # "mint",
         KeepsHandle(map[n], h, d)
  PROVE  TbInv'
<1>1. TbTypes /\ stamps \in Nat
  BY DEF TbInv, TbTypes
<1>2. TbTypes'
  BY <1>1 DEF TbTypes, BecomesCall, Becomes
<1>3. dirs'[n] = d /\ map'[n] = h /\ \A m \in Names : m # n => map'[m] = map[m] /\ dirs'[m] = dirs[m]
  BY DEF Becomes
<1>4. /\ thread[t] # Tb!Idle /\ thread[t].at \in Stamped
      /\ \A u \in Threads : u # t /\ thread[u] # Tb!Idle => thread[u].name # n
  BY Begun
<1>5. c.at \in Stamped => c.stamp = stamps + 1 \/ (thread[t].at \in Stamped /\ c.stamp = thread[t].stamp)
  BY <1>4, TbConstants DEF Stamped
<1>6. CallOk(t, c, map', dirs', held, late, stamps') /\ DirOk(dirs'[n], map'[n], stamps')
  BY <1>3
<1>7. dirs'[n].gen \in {0, dirs[n].gen} \/ (thread[t].at = "create" /\ dirs'[n].gen = thread[t].stamp)
  BY <1>3
<1>8. KeepsHandle(map[n], map'[n], dirs'[n])
  BY <1>3
<1>9. UNCHANGED <<held, late, open>> /\ stamps <= stamps' /\ (open \/ thread[t] # Tb!Idle)
  BY <1>1, <1>4, SMTT(20)
<1> QED BY <1>2, <1>3, <1>4, <1>5, <1>6, <1>7, <1>8, <1>9, CallStep, ZenonT(60)

(* The directory is created, or the creation fails on the way. *)
LEMMA CreateKept == ASSUME Managed, TbInv, NEW t \in Threads, Tb!Create(t) PROVE TbInv'
<1>0. /\ thread[t].at = "create" /\ UNCHANGED <<open, stamps, catalog, era, map, held, late>> /\ stamps \in Nat
      /\ "create" \in Stamped /\ "finish" \in Stamped /\ Tb!Goes(t, "finish")
  BY DEF Tb!Create, Tb!history, Tb!uses, TbInv, TbTypes, Stamped
<1>1. PICK n \in Names : n = thread[t].name
  BY <1>0, Begun
<1>2. CallOk(t, thread[t], map, dirs, held, late, stamps) /\ DirOk(dirs[n], map[n], stamps) /\ thread[t] # Tb!Idle
  BY <1>0, <1>1, Begun
<1>3. dirs[n] = Tb!NoDir /\ map[n] = Tb!NoHandle /\ thread[t].stamp \in 1 .. stamps
  BY <1>0, <1>1, <1>2 DEF CallOk
<1>4. PICK d \in Dirs : d.gen = thread[t].stamp /\ d.damaged = FALSE /\ dirs' = [dirs EXCEPT ![n] = d]
  <2> DEFINE d == [Tb!NoDir EXCEPT !.gen = thread[t].stamp, !.config = thread[t].config]
  <2>1. thread[t].stamp \in Nat /\ thread[t].config \in Configs \cup {"gone"}
    BY DEF TbInv, TbTypes, Calls
  <2>2. d \in Dirs /\ d.gen = thread[t].stamp /\ d.damaged = FALSE
    BY <2>1 DEF Tb!NoDir, Dirs
  <2>3. dirs' = [dirs EXCEPT ![n] = d]
    BY <1>1, <1>3 DEF Tb!Create
  <2> QED BY <2>2, <2>3
<1>5. PICK c \in Calls : /\ BecomesCall(t, c) /\ c.at = "finish" /\ c.name = thread[t].name
                         /\ c.config = thread[t].config /\ c.stamp = thread[t].stamp
  BY <1>0, GoesOn, SMTT(20), ZenonT(20) DEF TbInv
<1>6. PICK h \in Handles : h = map[n]
  BY DEF TbInv, TbTypes
<1>7. DirOk(d, h, stamps) /\ Becomes(n, d, h) /\ KeepsHandle(map[n], h, d)
  BY <1>0, <1>3, <1>4, <1>6, BecomesIs DEF DirOk, KeepsHandle
<1>8. CallOk(t, c, map', dirs', held, late, stamps)
  BY <1>0, <1>2, <1>5 DEF CallOk
<1> QED BY <1>0, <1>1, <1>4, <1>5, <1>6, <1>7, <1>8, CallChanges

(* The table is complete, or its opening fails. *)
LEMMA FinishKept == ASSUME Managed, TbInv, NEW t \in Threads, Tb!Finish(t) PROVE TbInv'
<1>0. /\ thread[t].at = "finish" /\ UNCHANGED <<open, stamps, catalog, era, map, held, late>> /\ stamps \in Nat
      /\ "finish" \in Stamped /\ "publish" \in Stamped
  BY DEF Tb!Finish, Tb!history, Tb!uses, TbInv, TbTypes, Stamped
<1>1. PICK n \in Names : n = thread[t].name
  BY <1>0, Begun
<1>2. CallOk(t, thread[t], map, dirs, held, late, stamps) /\ DirOk(dirs[n], map[n], stamps) /\ thread[t] # Tb!Idle
  BY <1>0, <1>1, Begun
<1>3. CASE Tb!Returns(t) /\ dirs' = dirs
  <2>1. catalog' \in [Names -> [stamp : Nat, config : Configs \cup {"gone"}]] /\ era' \in [Names -> Nat]
    BY <1>0 DEF TbInv, TbTypes
  <2> QED BY <1>0, <1>3, <2>1, ReturnKept
<1>4. CASE dirs[n] # Tb!NoDir /\ dirs' = [dirs EXCEPT ![n].whole = TRUE] /\ Tb!HasOpened(t, n)
  <2>1. PICK d \in Dirs : d.gen = dirs[n].gen /\ d.damaged = dirs[n].damaged /\ dirs' = [dirs EXCEPT ![n] = d]
    <3> DEFINE d == [dirs[n] EXCEPT !.whole = TRUE]
    <3>1. d \in Dirs /\ d.gen = dirs[n].gen /\ d.damaged = dirs[n].damaged
      BY DEF TbInv, TbTypes, Dirs
    <3> QED BY <1>4, <3>1
  <2>2. PICK c \in Calls : /\ BecomesCall(t, c) /\ c.at = "publish" /\ c.name = thread[t].name /\ c.config = thread[t].config
                           /\ c.stamp = thread[t].stamp /\ c.gen = dirs[n].gen
    BY <1>4, GoesOpened DEF TbInv
  <2>3. dirs[n].gen \in 1 .. stamps
    BY <1>2, <1>4 DEF DirOk
  <2>4. PICK h \in Handles : h = map[n]
    BY DEF TbInv, TbTypes
  <2>5. DirOk(d, h, stamps) /\ Becomes(n, d, h) /\ KeepsHandle(map[n], h, d)
    BY <1>0, <1>2, <2>1, <2>3, <2>4, BecomesIs DEF DirOk, KeepsHandle
  <2>6. dirs'[n].gen = dirs[n].gen
    BY <2>1 DEF TbInv, TbTypes
  <2>7. CallOk(t, c, map', dirs', held, late, stamps)
    BY <1>0, <1>1, <1>2, <2>2, <2>3, <2>6, SMTT(20) DEF CallOk
  <2> QED BY <1>0, <1>1, <2>1, <2>2, <2>4, <2>5, <2>7, CallChanges
<1> QED BY <1>1, <1>3, <1>4 DEF Tb!Finish

(* The open table goes into the map. *)
LEMMA PublishKept == ASSUME Managed, TbInv, NEW t \in Threads, Tb!Publish(t) PROVE TbInv'
<1>0. /\ thread[t].at = "publish" /\ UNCHANGED <<open, stamps, catalog, dirs, era, held, late>> /\ stamps \in Nat
      /\ Tb!Returns(t)
  BY DEF Tb!Publish, Tb!disk, Tb!history, Tb!uses, TbInv, TbTypes
<1>1. PICK n \in Names : n = thread[t].name
  BY <1>0, Begun
<1>2. CallOk(t, thread[t], map, dirs, held, late, stamps) /\ DirOk(dirs[n], map[n], stamps) /\ thread[t] # Tb!Idle
  BY <1>0, <1>1, Begun
<1>3. map[n] = Tb!NoHandle /\ thread[t].gen = dirs[n].gen /\ thread[t].gen # 0
  BY <1>0, <1>1, <1>2 DEF CallOk
<1>4. PICK h \in Handles : h.gen = dirs[n].gen /\ map' = [map EXCEPT ![n] = h]
  <2>1. thread[t].stamp \in Nat /\ thread[t].gen \in Nat
    BY DEF TbInv, TbTypes, Calls
  <2> QED BY <1>1, <1>3, <2>1 DEF Tb!Publish, Handles
<1>5. PICK d \in Dirs : d = dirs[n]
  BY DEF TbInv, TbTypes
<1>6. PICK c \in Calls : c = Tb!Idle
  BY TbConstants
<1>7. BecomesCall(t, c)
  BY <1>0, <1>6 DEF Tb!Returns, BecomesCall, TbInv, TbTypes
<1>8. DirOk(d, h, stamps) /\ Becomes(n, d, h) /\ KeepsHandle(map[n], h, d)
  BY <1>0, <1>2, <1>3, <1>4, <1>5, BecomesIs DEF DirOk, KeepsHandle
<1>9. CallOk(t, c, map', dirs', held, late, stamps)
  BY <1>6 DEF CallOk
<1> QED BY <1>0, <1>1, <1>3, <1>4, <1>5, <1>6, <1>7, <1>8, <1>9, CallChanges

(* The handle and the directory are removed, or the removal fails. *)
LEMMA RemoveKept == ASSUME Managed, TbInv, NEW t \in Threads, Tb!Remove(t) PROVE TbInv'
<1>0. /\ thread[t].at = "remove" /\ UNCHANGED <<open, stamps, catalog, era, held, late>> /\ stamps \in Nat
      /\ Tb!Returns(t)
  BY DEF Tb!Remove, Tb!uses, TbInv, TbTypes
<1>1. PICK n \in Names : n = thread[t].name
  BY <1>0, Begun
<1>2. CallOk(t, thread[t], map, dirs, held, late, stamps) /\ DirOk(dirs[n], map[n], stamps) /\ thread[t] # Tb!Idle
  BY <1>0, <1>1, Begun
<1>3. map[n] # Tb!NoHandle /\ \A u \in Threads : held[u] = map[n] => late[u]
  BY <1>0, <1>1, <1>2 DEF CallOk
<1>4. PICK h \in Handles : h = Tb!NoHandle /\ map' = [map EXCEPT ![n] = h]
  BY <1>1, TbConstants DEF Tb!Remove, Tb!Dropped
<1>5. PICK d \in Dirs : /\ d = Tb!NoDir \/ (Failures /\ d.gen = dirs[n].gen /\ d.damaged = dirs[n].damaged)
                        /\ dirs' = [dirs EXCEPT ![n] = d]
  <2>0. dirs[n] \in Dirs /\ dirs \in [Names -> Dirs]
    BY DEF TbInv, TbTypes
  <2>1. CASE Failures /\ dirs' = dirs
    BY <2>0, <2>1
  <2>2. CASE dirs' = Tb!Removed(n)
    BY <2>2, TbConstants DEF Tb!Removed
  <2>3. CASE Failures /\ dirs' = [dirs EXCEPT ![n].whole = FALSE]
    <3> DEFINE d == [dirs[n] EXCEPT !.whole = FALSE]
    <3>1. d \in Dirs /\ d.gen = dirs[n].gen /\ d.damaged = dirs[n].damaged
      BY <2>0 DEF Dirs
    <3> QED BY <2>3, <3>1
  <2> QED BY <1>1, <1>3, <2>1, <2>2, <2>3 DEF Tb!Remove
<1>6. PICK c \in Calls : c = Tb!Idle
  BY TbConstants
<1>7. BecomesCall(t, c)
  BY <1>0, <1>6 DEF Tb!Returns, BecomesCall, TbInv, TbTypes
<1>8. DirOk(d, h, stamps)
  <2>2. dirs[n].gen \in 1 .. stamps /\ dirs[n].damaged = FALSE
    BY <1>2, <1>3, TbConstants DEF DirOk
  <2> QED BY <1>4, <1>5, <2>2, TbConstants DEF DirOk
<1>9. CallOk(t, c, map', dirs', held, late, stamps)
  BY <1>6 DEF CallOk
<1>10. d.gen \in {0, dirs[n].gen} /\ Becomes(n, d, h)
  BY <1>4, <1>5, TbConstants, BecomesIs
<1>11. KeepsHandle(map[n], h, d)
  BY <1>3, <1>5, TbConstants DEF KeepsHandle
<1> QED BY <1>0, <1>1, <1>4, <1>5, <1>6, <1>7, <1>8, <1>9, <1>10, <1>11, CallChanges

(* A file operation of create fails. *)
LEMMA CreateFailsKept == ASSUME Managed, TbInv, NEW t \in Threads, Tb!CreateFails(t) PROVE TbInv'
<1>1. thread[t].at # "idle" /\ Tb!Returns(t) /\ UNCHANGED <<open, stamps, catalog, dirs, era, map, held, late>>
  BY DEF Tb!CreateFails, Tb!uses
<1>2. catalog' \in [Names -> [stamp : Nat, config : Configs \cup {"gone"}]] /\ era' \in [Names -> Nat]
  BY <1>1 DEF TbInv, TbTypes
<1> QED BY <1>1, <1>2, ReturnKept

(* A handle that is taken of a table that is being deleted is taken late. *)
LEMMA GetKept == ASSUME TbInv, NEW t \in Threads, NEW n \in Names, Tb!Get(t, n) PROVE TbInv'
<1>1. /\ open /\ thread[t].at = "idle" /\ map[n] # Tb!NoHandle /\ held' = [held EXCEPT ![t] = map[n]]
      /\ late' = [late EXCEPT ![t] = Tb!Deleting(n)]
      /\ UNCHANGED <<open, stamps, catalog, dirs, era, map, thread>>
  BY DEF Tb!Get, Tb!disk, Tb!history
<1>2. held'[t] = map[n] /\ held' \in [Threads -> Handles] /\ \A u \in Threads : u # t => held'[u] = held[u]
  BY <1>1 DEF TbInv, TbTypes
<1>3. Tb!Deleting(n) \in BOOLEAN
  BY DEF Tb!Deleting
<1>4. late'[t] = Tb!Deleting(n) /\ late' \in [Threads -> BOOLEAN] /\ \A u \in Threads : u # t => late'[u] = late[u]
  BY <1>1, <1>3 DEF TbInv, TbTypes
<1>5. map[n].gen = dirs[n].gen /\ map[n].gen # 0 /\ dirs[n].gen \in 1 .. stamps
  BY <1>1, TbConstants DEF TbInv, TbDirs, DirOk
<1>6. ASSUME NEW u \in Threads PROVE CallOk(u, thread[u], map, dirs, held', late', stamps)
  <2>1. CallOk(u, thread[u], map, dirs, held, late, stamps)
    BY DEF TbInv, TbCalls
  <2>2. ASSUME thread[u] # Tb!Idle, thread[u].config = "gone", NEW v \in Threads, held'[v] = map[thread[u].name]
        PROVE  late'[v]
    <3>1. /\ thread[u].name \in Names /\ thread[u].at # "idle"
          /\ map[thread[u].name] # Tb!NoHandle /\ \A w \in Threads : held[w] = map[thread[u].name] => late[w]
      BY <2>1, <2>2 DEF CallOk, Stamped
    <3>2. thread[u].name = n => Tb!Deleting(n)
      BY <2>2, <3>1, TbConstants DEF Tb!Deleting
    <3>3. thread[u].name # n => map[thread[u].name] # map[n]
      BY <1>1, <3>1, SMTT(20), ZenonT(20) DEF TbInv, TbDirs, DirOk
    <3> QED BY <1>2, <1>4, <2>2, <3>1, <3>2, <3>3
  <2>3. ASSUME thread[u] # Tb!Idle, thread[u].at \in {"put", "check", "exists", "create"}, NEW v \in Threads
        PROVE  held'[v].gen # thread[u].stamp
    BY <1>2, <1>5, <2>1, <2>3 DEF CallOk
  <2> QED BY <2>1, <2>2, <2>3 DEF CallOk
<1>7. TbTypes' /\ TbDirs' /\ TbStamps'
  BY <1>1, <1>2, <1>4 DEF TbInv, TbTypes, TbDirs, TbStamps
<1>8. TbCalls'
  BY <1>1, <1>6 DEF TbCalls
<1>9. ASSUME NEW u \in Threads PROVE HeldOk(held'[u], late'[u], map, dirs, stamps)
  <2>1. CASE u # t
    BY <1>2, <1>4, <2>1 DEF TbInv, TbHeld
  <2>2. \A m \in Names : dirs[m].gen = map[n].gen => map[n] = map[m]
    BY <1>5 DEF TbInv, TbDirs
  <2>3. CASE u = t
    BY <1>2, <1>5, <2>2, <2>3 DEF HeldOk
  <2> QED BY <2>1, <2>3
<1>10. TbHeld'
  BY <1>1, <1>9 DEF TbHeld
<1> QED BY <1>7, <1>8, <1>10 DEF TbInv

(* An insert adds rows to a directory. *)
LEMMA InsertRows ==
  ASSUME TbInv, NEW t \in Threads, NEW n \in Names, Tb!Insert(t, n)
  PROVE  /\ UNCHANGED <<open, stamps, catalog, era, map, held, late, thread>>
         /\ dirs' \in [Names -> Dirs] /\ \A m \in Names : m # n => dirs'[m] = dirs[m]
         /\ dirs'[n].gen = dirs[n].gen /\ dirs'[n].damaged = dirs[n].damaged /\ dirs'[n].whole = dirs[n].whole
         /\ dirs'[n].config = dirs[n].config
         /\ dirs'[n].rows = dirs[n].rows \cup {era[n]} /\ dirs[n].gen = held[t].gen /\ held[t] # Tb!NoHandle
<1>1. dirs \in [Names -> Dirs] /\ dirs[n] \in Dirs /\ era[n] \in Nat
  BY DEF TbInv, TbTypes
<1>2. dirs' = [dirs EXCEPT ![n].rows = @ \cup {era[n]}]
  BY DEF Tb!Insert
<1> DEFINE d == [dirs[n] EXCEPT !.rows = @ \cup {era[n]}]
<1>3. /\ d \in Dirs /\ d.gen = dirs[n].gen /\ d.damaged = dirs[n].damaged /\ d.whole = dirs[n].whole
      /\ d.rows = dirs[n].rows \cup {era[n]} /\ d.config = dirs[n].config
  BY <1>1 DEF Dirs
<1>4. dirs' \in [Names -> Dirs] /\ dirs'[n] = d /\ \A m \in Names : m # n => dirs'[m] = dirs[m]
  BY <1>1, <1>2, <1>3
<1> QED BY <1>3, <1>4 DEF Tb!Insert, Tb!history, Tb!uses

(* A row is inserted through a handle. *)
LEMMA InsertKept == ASSUME TbInv, NEW t \in Threads, NEW n \in Names, Tb!Insert(t, n) PROVE TbInv'
<1>1. /\ UNCHANGED <<open, stamps, catalog, era, map, held, late, thread>>
      /\ dirs' \in [Names -> Dirs] /\ \A m \in Names : m # n => dirs'[m] = dirs[m]
      /\ dirs'[n].gen = dirs[n].gen /\ dirs'[n].damaged = dirs[n].damaged
      /\ dirs[n].gen = held[t].gen /\ held[t] # Tb!NoHandle
  BY InsertRows
<1>2. \A m \in Names : dirs'[m].gen = dirs[m].gen /\ dirs'[m].damaged = dirs[m].damaged
  BY <1>1
<1>3. dirs[n] # Tb!NoDir /\ dirs[n].gen \in 1 .. stamps
  <2>2. held[t].gen # 0
    BY <1>1, SMTT(20) DEF TbInv, TbHeld, HeldOk, TbTypes
  <2> QED BY <1>1, <2>2, TbConstants DEF TbInv, TbDirs, DirOk
<1>4. TbTypes' /\ TbStamps' /\ TbHeld'
  BY <1>1, <1>2 DEF TbInv, TbTypes, TbStamps, TbHeld, HeldOk
<1>5. TbDirs'
  BY <1>1, <1>2, <1>3, SMTT(20) DEF TbInv, TbDirs, DirOk
<1>6. ASSUME NEW u \in Threads PROVE CallOk(u, thread[u], map, dirs', held, late, stamps)
  <2>1. CallOk(u, thread[u], map, dirs, held, late, stamps)
    BY DEF TbInv, TbCalls
  <2>2. \A m \in Names : dirs[m] = Tb!NoDir => dirs'[m] = Tb!NoDir
    BY <1>1, <1>3
  <2> QED BY <1>2, <2>1, <2>2 DEF CallOk
<1> QED BY <1>1, <1>4, <1>5, <1>6 DEF TbInv, TbCalls

(* A handle is dropped. *)
LEMMA ReleaseKept == ASSUME TbInv, NEW t \in Threads, Tb!Release(t) PROVE TbInv'
<1>1. UNCHANGED <<open, stamps, catalog, dirs, era, map, thread>> /\ held' = [held EXCEPT ![t] = Tb!NoHandle]
  BY DEF Tb!Release, Tb!disk, Tb!history
<1>2. held'[t] = Tb!NoHandle /\ held' \in [Threads -> Handles] /\ \A u \in Threads : u # t => held'[u] = held[u]
  BY <1>1, TbConstants DEF TbInv, TbTypes
<1>3. late' \in [Threads -> BOOLEAN] /\ \A u \in Threads : u # t => late'[u] = late[u]
  BY DEF Tb!Release, TbInv, TbTypes
<1>4. TbTypes' /\ TbStamps' /\ TbDirs' /\ TbHeld'
  BY <1>1, <1>2, <1>3 DEF TbInv, TbTypes, TbStamps, TbDirs, TbHeld, HeldOk
<1>5. ASSUME NEW u \in Threads PROVE CallOk(u, thread[u], map, dirs, held', late', stamps)
  <2>1. CallOk(u, thread[u], map, dirs, held, late, stamps) /\ stamps \in Nat
    BY DEF TbInv, TbCalls, TbTypes
  <2>2. ASSUME thread[u] # Tb!Idle, thread[u].at \in {"put", "check", "exists", "create"}, NEW v \in Threads
        PROVE  held'[v].gen # thread[u].stamp
    <3>1. thread[u].stamp # 0
      BY <2>1, <2>2, SMTT(20) DEF CallOk
    <3> QED BY <1>2, <2>1, <2>2, <3>1, TbConstants DEF CallOk
  <2>3. ASSUME thread[u] # Tb!Idle, thread[u].config = "gone", NEW v \in Threads, held'[v] = map[thread[u].name]
        PROVE  late'[v]
    BY <1>2, <1>3, <2>1, <2>3 DEF CallOk
  <2> QED BY <2>1, <2>2, <2>3 DEF CallOk
<1> QED BY <1>1, <1>4, <1>5 DEF TbInv, TbCalls

(* Nothing is open: every call and handle is gone. *)
LEMMA EndsKept ==
  ASSUME TbInv, Tb!Ends, UNCHANGED <<stamps, catalog, era>>, dirs' \in [Names -> Dirs],
         \A n \in Names : dirs'[n] = dirs[n] \/ (dirs[n] # Tb!NoDir /\ dirs'[n].gen = dirs[n].gen /\ dirs'[n].damaged = dirs[n].damaged)
  PROVE  TbInv'
<1>1. /\ open' = FALSE /\ \A n \in Names : map'[n] = Tb!NoHandle
      /\ \A t \in Threads : held'[t] = Tb!NoHandle /\ thread'[t] = Tb!Idle
      /\ map' \in [Names -> Handles] /\ held' \in [Threads -> Handles] /\ thread' \in [Threads -> Calls]
      /\ late' \in [Threads -> BOOLEAN]
  BY TbConstants DEF Tb!Ends
<1>2. TbTypes'
  BY <1>1 DEF TbInv, TbTypes
<1>3. TbCalls' /\ TbHeld'
  BY <1>1 DEF TbCalls, CallOk, TbHeld, HeldOk
<1>4. TbStamps'
  BY <1>1, TbConstants DEF TbStamps, Stamped
<1>5. TbDirs'
  <2>1. \A n \in Names : dirs'[n].gen = dirs[n].gen
    OBVIOUS
  <2> QED BY <1>1, <2>1, SMTT(20) DEF TbInv, TbDirs, DirOk
<1> QED BY <1>2, <1>3, <1>4, <1>5 DEF TbInv

(* A crash ends all calls and loses the map. *)
LEMMA CrashKept == ASSUME Managed, TbInv, Tb!Crash PROVE TbInv'
<1>0. Tb!Ends /\ UNCHANGED <<stamps, catalog, era>> /\ dirs \in [Names -> Dirs]
  BY DEF Tb!Crash, TbInv, TbTypes
<1>1. CASE dirs' = dirs
  BY <1>0, <1>1, EndsKept
<1>2. CASE \E t \in Threads : thread[t].at = "remove" /\ dirs' = [dirs EXCEPT ![thread[t].name].whole = FALSE]
  <2>1. PICK t \in Threads : thread[t].at = "remove" /\ dirs' = [dirs EXCEPT ![thread[t].name].whole = FALSE]
    BY <1>2
  <2>2. PICK n \in Names : n = thread[t].name
    BY <2>1, Begun
  <2>3. CallOk(t, thread[t], map, dirs, held, late, stamps) /\ thread[t] # Tb!Idle
    BY <2>1, Begun
  <2>4. map[n] # Tb!NoHandle
    BY <2>1, <2>2, <2>3 DEF CallOk
  <2>5. dirs[n] # Tb!NoDir
    BY <2>4, TbConstants DEF TbInv, TbDirs, DirOk
  <2> DEFINE d == [dirs[n] EXCEPT !.whole = FALSE]
  <2>6. d \in Dirs /\ d.gen = dirs[n].gen /\ d.damaged = dirs[n].damaged
    BY <1>0 DEF Dirs
  <2>7. dirs' \in [Names -> Dirs] /\ dirs'[n] = d /\ \A m \in Names : m # n => dirs'[m] = dirs[m]
    BY <1>0, <2>1, <2>2, <2>6
  <2> QED BY <1>0, <2>5, <2>6, <2>7, EndsKept
<1> QED BY <1>1, <1>2 DEF Tb!Crash

(* The workspace is closed. *)
LEMMA CloseKept == ASSUME TbInv, Tb!Close PROVE TbInv'
<1>1. Tb!Ends /\ UNCHANGED <<stamps, catalog, dirs, era>> /\ dirs \in [Names -> Dirs]
  BY DEF Tb!Close, Tb!disk, Tb!history, Tb!uses, TbInv, TbTypes
<1> QED BY <1>1, EndsKept

(* The workspace is opened, and every declared table that can be. *)
LEMMA OpenKept == ASSUME TbInv, Tb!Open PROVE TbInv'
<1>1. /\ open' = TRUE /\ UNCHANGED <<stamps, catalog, dirs, era, held, late, thread>>
      /\ \A t \in Threads : thread[t] = Tb!Idle /\ held[t] = Tb!NoHandle
  BY DEF Tb!Open, Tb!disk, Tb!history, Tb!uses, TbInv, TbHeld
<1>2. ASSUME NEW n \in Names
      PROVE  /\ map'[n] \in Handles
             /\ map'[n] = Tb!NoHandle \/ (map'[n].gen = dirs[n].gen /\ dirs[n] # Tb!NoDir)
  <2>1. map'[n] = IF Tb!Declared(n) THEN [id |-> 0, gen |-> dirs[n].gen] ELSE Tb!NoHandle
    BY DEF Tb!Open
  <2>2. dirs[n].gen \in Nat
    BY DEF TbInv, TbTypes, Dirs
  <2>3. Tb!Declared(n) => dirs[n] # Tb!NoDir
    BY TbConstants DEF Tb!Open, Tb!Openable
  <2> QED BY <2>1, <2>2, <2>3, TbConstants, SMTT(20) DEF Handles
<1>3. map' \in [Names -> Handles]
  BY <1>2 DEF Tb!Open
<1>4. TbTypes' /\ TbStamps' /\ TbHeld'
  BY <1>1, <1>3 DEF TbInv, TbTypes, TbStamps, TbHeld, HeldOk
<1>5. TbCalls'
  BY <1>1 DEF TbCalls, CallOk
<1>6. TbDirs'
  BY <1>1, <1>2, SMTT(20) DEF TbInv, TbDirs, DirOk
<1> QED BY <1>4, <1>5, <1>6 DEF TbInv

(* Every step of Tables keeps the invariant. *)
LEMMA TablesStep == ASSUME Managed, TbInv, [Tb!Next]_Tb!vars PROVE TbInv'
<1>1. ASSUME NEW t \in Threads, Tb!Step(t) PROVE TbInv'
  BY <1>1, MintKept, PutKept, CheckKept, ExistsKept, CreateKept, FinishKept, CreateFailsKept, PublishKept, RemoveKept
     DEF Tb!Step
<1>2. ASSUME NEW t \in Threads, NEW n \in Names,
             \/ <<"upsert", n>> \in May(t) /\ \E c \in Configs : Tb!Upsert(t, n, c)
             \/ <<"delete", n>> \in May(t) /\ Tb!Delete(t, n)
      PROVE  TbInv'
  BY <1>2, StartsKept
<1>3. ASSUME NEW t \in Threads, NEW n \in Names, <<"get", n>> \in May(t), Tb!Get(t, n) \/ Tb!Insert(t, n) PROVE TbInv'
  BY <1>3, GetKept, InsertKept
<1>4. CASE UNCHANGED Tb!vars
  <2>1. UNCHANGED <<open, stamps, catalog, dirs, map, held, late, thread, era>>
    BY <1>4 DEF Tb!vars, Tb!disk, Tb!history, Tb!uses
  <2> QED BY <2>1 DEF TbInv, TbTypes, TbCalls, TbDirs, TbStamps, TbHeld
<1> QED BY <1>1, <1>2, <1>3, <1>4, ReleaseKept, CloseKept, CrashKept, OpenKept DEF Tb!Next

(* The invariant holds in an empty workspace. *)
LEMMA TablesInit == Tb!Init => TbInv
<1> SUFFICES ASSUME Tb!Init PROVE TbInv
  OBVIOUS
<1>1. TbTypes
  BY TbConstants DEF Tb!Init, TbTypes
<1>2. /\ \A n \in Names : dirs[n] = Tb!NoDir /\ map[n] = Tb!NoHandle
      /\ \A t \in Threads : held[t] = Tb!NoHandle /\ thread[t] = Tb!Idle
  BY DEF Tb!Init
<1>3. TbCalls /\ TbHeld
  BY <1>2 DEF TbCalls, CallOk, TbHeld, HeldOk
<1>4. TbStamps /\ TbDirs
  BY <1>2, TbConstants DEF TbStamps, Stamped, TbDirs, DirOk
<1> QED BY <1>1, <1>3, <1>4 DEF TbInv

(* All handles of one table are one object, no second create runs over its *)
(* files, and while a handle is in use the directory of its table is there *)
(* (Tables::get, delete and TableCatalogListener), for any number of       *)
(* tables and threads, through failures and crashes, when each table is    *)
(* declared and deleted by one thread.  Any thread may use any table, also *)
(* one that is being deleted: of a handle that was got after the delete    *)
(* had counted the handles, all of this is claimed but that the directory  *)
(* stays, and that a removal that fails leaves no second handle.           *)
THEOREM TablesHandlesShared ==
  ASSUME Managed
  PROVE  Tb!Spec => [](Tb!HandlesShared /\ Tb!BusyProtects)
<1>1. TbInv => Tb!HandlesShared /\ Tb!BusyProtects
  <2> SUFFICES ASSUME TbInv PROVE Tb!HandlesShared /\ Tb!BusyProtects
    OBVIOUS
  <2>1. ASSUME NEW t \in Threads, held[t] # Tb!NoHandle, ~late[t] PROVE \E n \in Names : dirs[n].gen = held[t].gen
    <3>1. PICK n \in Names : held[t] = map[n]
      BY <2>1 DEF TbInv, TbHeld, HeldOk
    <3> QED BY <2>1, <3>1 DEF TbInv, TbDirs, DirOk
  <2>2. Tb!BusyProtects
    BY <2>1 DEF Tb!BusyProtects
  <2>3. ASSUME NEW n \in Names, NEW t \in Threads, held[t] # Tb!NoHandle, map[n] # Tb!NoHandle, held[t].gen = map[n].gen
        PROVE  held[t] = map[n] \/ (Failures /\ late[t])
    <3>1. map[n].gen = dirs[n].gen
      BY <2>3 DEF TbInv, TbDirs, DirOk
    <3> QED BY <2>3, <3>1 DEF TbInv, TbHeld, HeldOk
  <2>4. \A n \in Names : ~dirs[n].damaged
    BY DEF TbInv, TbDirs, DirOk
  <2> QED BY <2>2, <2>3, <2>4 DEF Tb!HandlesShared
<1> QED BY <1>1, TablesInit, TablesStep, PTL DEF Tb!Spec
---------------------------------------------------------------------------
(* A name whose call is at s ("idle" for none), in a workspace that is     *)
(* open or not, that is declared with k, has directory d and handle h and  *)
(* was deleted e times; ch tells that its configuration was changed.       *)
NameOk(s, op, k, d, h, e, ch) ==
  /\ k # "gone" => d.rows \subseteq {e}
  /\ k # "gone" /\ d # Tb!NoDir => d.config = k \/ ch
  /\ s \in {"idle", "mint", "put"} =>
       /\ op => (h # Tb!NoHandle <=> k # "gone")
       /\ IF k # "gone" THEN d.whole = TRUE ELSE d = Tb!NoDir
  /\ s \in {"check", "exists", "create", "finish", "publish"} => k # "gone"
  /\ s = "check" => IF h # Tb!NoHandle THEN d.whole = TRUE ELSE d = Tb!NoDir
  /\ s \in {"exists", "create"} => d = Tb!NoDir
  /\ s = "finish" => d # Tb!NoDir /\ d.whole = FALSE
  /\ s = "publish" => d.whole = TRUE
  /\ s = "remove" => k = "gone"

TbNames ==
  \A n \in Names \ cut :
    /\ \A t \in Threads : thread[t] # Tb!Idle /\ thread[t].name = n =>
         NameOk(thread[t].at, open, catalog[n].config, dirs[n], map[n], era[n], n \in changed)
    /\ (\A t \in Threads : thread[t] = Tb!Idle \/ thread[t].name # n) =>
         NameOk("idle", open, catalog[n].config, dirs[n], map[n], era[n], n \in changed)

(* A call that has written its row finds it in the catalog until it ends. *)
TbRows == \A t \in Threads : thread[t].at \in Stamped \ {"put"} => catalog[thread[t].name].config = thread[t].config

(* Nothing happens to names other than n. *)
Elsewhere(n) ==
  \A m \in Names : m # n =>
    /\ catalog'[m] = catalog[m] /\ dirs'[m] = dirs[m] /\ map'[m] = map[m] /\ era'[m] = era[m]
    /\ (m \in cut') = (m \in cut) /\ (m \in changed') = (m \in changed)

(* A step of a call on n, which goes on as c. *)
LEMMA NameStep ==
  ASSUME Managed, TbInv, TbNames, NEW t \in Threads, NEW n \in Names, NEW c, BecomesCall(t, c), c = Tb!Idle \/ c.name = n,
         \A u \in Threads : u # t /\ thread[u] # Tb!Idle => thread[u].name # n,
         thread[t] = Tb!Idle \/ thread[t].name = n, open' = open,
         Elsewhere(n),
         n \in cut' \/ NameOk(c.at, open, catalog'[n].config, dirs'[n], map'[n], era'[n], n \in changed')
  PROVE  TbNames'
<1>1. thread'[t] = c /\ \A u \in Threads : u # t => thread'[u] = thread[u]
  BY DEF BecomesCall
<1>2. ASSUME NEW m \in Names, m # n, m \notin cut'
      PROVE  /\ \A u \in Threads : thread'[u] # Tb!Idle /\ thread'[u].name = m =>
                  NameOk(thread'[u].at, open, catalog'[m].config, dirs'[m], map'[m], era'[m], m \in changed')
             /\ (\A u \in Threads : thread'[u] = Tb!Idle \/ thread'[u].name # m) =>
                  NameOk("idle", open, catalog'[m].config, dirs'[m], map'[m], era'[m], m \in changed')
  <2>1. \A u \in Threads : (thread'[u] # Tb!Idle /\ thread'[u].name = m) <=> (thread[u] # Tb!Idle /\ thread[u].name = m)
    BY <1>1, <1>2
  <2>2. \A u \in Threads : thread[u].name = m /\ thread[u] # Tb!Idle => thread'[u] = thread[u]
    BY <1>1, <1>2
  <2>3. /\ catalog'[m] = catalog[m] /\ dirs'[m] = dirs[m] /\ map'[m] = map[m] /\ era'[m] = era[m]
        /\ m \notin cut /\ (m \in changed') = (m \in changed)
    BY <1>2 DEF Elsewhere
  <2> QED BY <2>1, <2>2, <2>3 DEF TbNames
<1>3. n \in cut' \/
      /\ \A u \in Threads : thread'[u] # Tb!Idle /\ thread'[u].name = n =>
           NameOk(thread'[u].at, open, catalog'[n].config, dirs'[n], map'[n], era'[n], n \in changed')
      /\ (\A u \in Threads : thread'[u] = Tb!Idle \/ thread'[u].name # n) =>
           NameOk("idle", open, catalog'[n].config, dirs'[n], map'[n], era'[n], n \in changed')
  <2>1. \A u \in Threads : thread'[u] # Tb!Idle /\ thread'[u].name = n => u = t
    BY <1>1
  <2>2. (\A u \in Threads : thread'[u] = Tb!Idle \/ thread'[u].name # n) => c.at = "idle"
    BY <1>1, TbConstants
  <2> QED BY <1>1, <2>1, <2>2
<1> QED BY <1>2, <1>3 DEF TbNames

(* How it is with the name of a call. *)
LEMMA NameNow ==
  ASSUME TbInv, TbNames, NEW t \in Threads, thread[t].at # "idle", NEW n \in Names, n = thread[t].name, n \notin cut
  PROVE  NameOk(thread[t].at, open, catalog[n].config, dirs[n], map[n], era[n], n \in changed) /\ open
<1>1. thread[t] # Tb!Idle
  BY TbConstants
<1> QED BY <1>1 DEF TbNames, TbInv, TbHeld

(* A call begins. *)
LEMMA NameStarts ==
  ASSUME Managed, TbInv, TbNames, NEW t \in Threads, NEW n \in Names,
         \/ \E k \in Configs : <<"upsert", n>> \in May(t) /\ Tb!Upsert(t, n, k)
         \/ <<"delete", n>> \in May(t) /\ Tb!Delete(t, n)
  PROVE  TbNames'
<1>1. PICK c \in Calls : /\ thread' = [thread EXCEPT ![t] = c] /\ c.at = "mint" /\ c.name = n
                         /\ thread[t].at = "idle" /\ UNCHANGED <<open, catalog, dirs, era, map, cut, changed>>
  <2>1. PICK k \in Configs \cup {"gone"} :
          /\ thread' = [thread EXCEPT ![t] = [at |-> "mint", name |-> n, config |-> k, stamp |-> 0, gen |-> 0]]
          /\ thread[t].at = "idle" /\ UNCHANGED <<open, catalog, dirs, era, map, cut, changed>>
    BY TbConstants DEF Tb!Upsert, Tb!Delete, Tb!Starts, Tb!disk, Tb!history, Tb!uses
  <2>2. [at |-> "mint", name |-> n, config |-> k, stamp |-> 0, gen |-> 0] \in Calls
    BY DEF Calls
  <2> QED BY <2>1, <2>2
<1>2. BecomesCall(t, c)
  BY <1>1 DEF BecomesCall, TbInv, TbTypes
<1>3. thread[t] = Tb!Idle
  BY <1>1, TbConstants DEF TbInv, TbCalls, CallOk, Stamped
<1>4. \A u \in Threads : u # t /\ thread[u] # Tb!Idle => thread[u].name # n
  BY OwnName
<1>5. n \in cut \/ NameOk("idle", open, catalog[n].config, dirs[n], map[n], era[n], n \in changed)
  BY <1>3, <1>4 DEF TbNames
<1>6. n \in cut \/ NameOk(c.at, open, catalog[n].config, dirs[n], map[n], era[n], n \in changed)
  BY <1>1, <1>5 DEF NameOk
<1>7. UNCHANGED <<open, catalog, dirs, era, map, cut, changed>> /\ c.name = n /\ Elsewhere(n)
  BY <1>1 DEF Elsewhere
<1> QED BY <1>2, <1>3, <1>4, <1>6, <1>7, NameStep, SMTT(20)

(* A step of a call on its own name n, in the form NameStep asks for. *)
LEMMA NameGoes ==
  ASSUME Managed, TbInv, TbNames, NEW t \in Threads, thread[t].at # "idle", NEW n \in Names, n = thread[t].name,
         NEW c, BecomesCall(t, c), c = Tb!Idle \/ c.name = n, UNCHANGED <<open, catalog, era, cut, changed>>,
         \A m \in Names : m # n => dirs'[m] = dirs[m] /\ map'[m] = map[m],
         NameOk(thread[t].at, open, catalog[n].config, dirs[n], map[n], era[n], n \in changed) =>
           NameOk(c.at, open, catalog[n].config, dirs'[n], map'[n], era[n], n \in changed)
  PROVE  TbNames'
<1>1. \A u \in Threads : u # t /\ thread[u] # Tb!Idle => thread[u].name # n
  BY Begun
<1>2. n \in cut' \/ NameOk(c.at, open, catalog'[n].config, dirs'[n], map'[n], era'[n], n \in changed')
  BY NameNow
<1>3. Elsewhere(n)
  BY DEF Elsewhere
<1> QED BY <1>1, <1>2, <1>3, NameStep

(* A stamp changes nothing of the name. *)
LEMMA NameMint == ASSUME Managed, TbInv, TbNames, NEW t \in Threads, Tb!Mint(t) PROVE TbNames'
<1>1. thread[t].at = "mint" /\ UNCHANGED <<open, catalog, dirs, era, map, cut, changed>>
  BY DEF Tb!Mint, Tb!disk, Tb!history, Tb!uses
<1>2. PICK n \in Names : n = thread[t].name
  BY <1>1, Begun
<1>3. PICK c \in Calls : BecomesCall(t, c) /\ c.at = "put" /\ c.name = n
  BY <1>2, GoesStamped DEF TbInv
<1>4. NameOk(thread[t].at, open, catalog[n].config, dirs[n], map[n], era[n], n \in changed) =>
        NameOk(c.at, open, catalog[n].config, dirs[n], map[n], era[n], n \in changed)
  BY <1>1, <1>3 DEF NameOk
<1> QED BY <1>1, <1>2, <1>3, <1>4, NameGoes

(* The declaration is written: the call is now to make files and map       *)
(* follow.                                                                 *)
LEMMA NamePut ==
  ASSUME Managed, TbInv, TbNames, NEW t \in Threads, Tb!Put(t), thread[t].name \notin cut'
  PROVE  TbNames'
<1>1. thread[t].at = "put" /\ UNCHANGED <<open, dirs, map, cut>> /\ "remove" \in Stamped /\ "check" \in Stamped
  BY DEF Tb!Put, Stamped
<1>2. PICK n \in Names : n = thread[t].name
  BY <1>1, Begun
<1>3. \A u \in Threads : u # t /\ thread[u] # Tb!Idle => thread[u].name # n
  BY <1>1, <1>2, Begun
<1>4. NameOk("put", open, catalog[n].config, dirs[n], map[n], era[n], n \in changed) /\ open
  BY <1>1, <1>2, NameNow
<1>5. CASE Tb!Returns(t) /\ UNCHANGED <<catalog, era, changed>>
  <2>1. PICK c \in Calls : c = Tb!Idle /\ BecomesCall(t, c)
    BY <1>5, TbConstants DEF Tb!Returns, BecomesCall, TbInv, TbTypes
  <2>2. NameOk(c.at, open, catalog[n].config, dirs[n], map[n], era[n], n \in changed)
    BY <1>4, <2>1, TbConstants DEF NameOk
  <2> QED BY <1>1, <1>2, <1>5, <2>1, <2>2, NameGoes
<1>6. CASE /\ catalog' = [catalog EXCEPT ![n] = [stamp |-> thread[t].stamp, config |-> thread[t].config]]
           /\ era' = [era EXCEPT ![n] = IF thread[t].config = Tb!Gone THEN @ + 1 ELSE @]
           /\ changed' = IF Tb!Gone \in {thread[t].config, catalog[n].config} THEN changed ELSE changed \union {n}
           /\ Tb!Goes(t, IF thread[t].config = Tb!Gone THEN "remove" ELSE "check")
  <2>1. PICK s \in {"remove", "check"} : Tb!Goes(t, s) /\ (s = "remove" <=> thread[t].config = "gone")
    BY <1>6, TbConstants
  <2>2. s \in Stamped
    BY DEF Stamped
  <2>3. PICK c \in Calls : BecomesCall(t, c) /\ c.at = s /\ c.name = n
    BY <1>2, <2>1, <2>2, GoesOn, SMTT(20), ZenonT(20) DEF TbInv
  <2>4. /\ catalog'[n].config = thread[t].config /\ (thread[t].config # "gone" => era'[n] = era[n])
        /\ \A m \in Names : m # n => catalog'[m] = catalog[m] /\ era'[m] = era[m]
    BY <1>6, TbConstants DEF TbInv, TbTypes
  <2>5. /\ "gone" \in {thread[t].config, catalog[n].config} \/ n \in changed'
        /\ \A m \in Names : m # n => (m \in changed') = (m \in changed)
    BY <1>6, TbConstants
  <2>6. NameOk(c.at, open, catalog'[n].config, dirs[n], map[n], era'[n], n \in changed')
    BY <1>4, <2>1, <2>3, <2>4, <2>5, TbConstants DEF NameOk
  <2>7. thread[t] = Tb!Idle \/ thread[t].name = n
    BY <1>2
  <2>8. /\ Elsewhere(n)
        /\ NameOk(c.at, open, catalog'[n].config, dirs'[n], map'[n], era'[n], n \in changed') /\ open' = open
    BY <1>1, <2>4, <2>5, <2>6 DEF Elsewhere
  <2> QED BY <1>3, <2>3, <2>7, <2>8, NameStep
<1> QED BY <1>2, <1>5, <1>6 DEF Tb!Put

(* An open table of the name: the upsert has nothing to do. *)
LEMMA NameCheck == ASSUME Managed, TbInv, TbNames, NEW t \in Threads, Tb!Check(t) PROVE TbNames'
<1>1. thread[t].at = "check" /\ UNCHANGED <<open, catalog, dirs, era, map, cut, changed>> /\ "exists" \in Stamped
  BY DEF Tb!Check, Tb!disk, Tb!history, Tb!uses, Stamped
<1>2. PICK n \in Names : n = thread[t].name
  BY <1>1, Begun
<1>3. CASE map[n] # Tb!NoHandle /\ Tb!Returns(t)
  <2>1. PICK c \in Calls : c = Tb!Idle /\ BecomesCall(t, c)
    BY <1>3, TbConstants DEF Tb!Returns, BecomesCall, TbInv, TbTypes
  <2>2. NameOk(thread[t].at, open, catalog[n].config, dirs[n], map[n], era[n], n \in changed) =>
          NameOk(c.at, open, catalog[n].config, dirs[n], map[n], era[n], n \in changed)
    BY <1>1, <1>3, <2>1, TbConstants DEF NameOk
  <2> QED BY <1>1, <1>2, <2>1, <2>2, NameGoes
<1>4. CASE map[n] = Tb!NoHandle /\ Tb!Goes(t, "exists")
  <2>1. PICK c \in Calls : BecomesCall(t, c) /\ c.at = "exists" /\ c.name = n
    BY <1>1, <1>2, <1>4, GoesOn, SMTT(20), ZenonT(20) DEF TbInv
  <2>2. NameOk(thread[t].at, open, catalog[n].config, dirs[n], map[n], era[n], n \in changed) =>
          NameOk(c.at, open, catalog[n].config, dirs[n], map[n], era[n], n \in changed)
    BY <1>1, <1>4, <2>1 DEF NameOk
  <2> QED BY <1>1, <1>2, <2>1, <2>2, NameGoes
<1> QED BY <1>2, <1>3, <1>4 DEF Tb!Check, Tb!AlreadyOpen

(* A directory of the name: it is opened, else created. *)
LEMMA NameExists ==
  ASSUME Managed, TbInv, TbNames, NEW t \in Threads, Tb!Exists(t), thread[t].name \notin cut'
  PROVE  TbNames'
<1>1. thread[t].at = "exists" /\ UNCHANGED <<open, catalog, dirs, era, map, cut, changed>> /\ "create" \in Stamped
  BY DEF Tb!Exists, Tb!disk, Tb!history, Tb!uses, Stamped
<1>2. PICK n \in Names : n = thread[t].name
  BY <1>1, Begun
<1>3. dirs[n] = Tb!NoDir
  BY <1>1, <1>2, NameNow DEF NameOk
<1>4. PICK c \in Calls : BecomesCall(t, c) /\ c.at = "create" /\ c.name = n
  BY <1>1, <1>2, <1>3, GoesOn, SMTT(20), ZenonT(20) DEF TbInv, Tb!Exists
<1>5. NameOk(thread[t].at, open, catalog[n].config, dirs[n], map[n], era[n], n \in changed) =>
        NameOk(c.at, open, catalog[n].config, dirs[n], map[n], era[n], n \in changed)
  BY <1>1, <1>4 DEF NameOk
<1> QED BY <1>1, <1>2, <1>4, <1>5, NameGoes

(* The creation of the directory. *)
LEMMA NameCreate ==
  ASSUME Managed, TbInv, TbNames, TbRows, NEW t \in Threads, Tb!Create(t), thread[t].name \notin cut'
  PROVE  TbNames'
<1>1. thread[t].at = "create" /\ UNCHANGED <<open, catalog, era, map, cut, changed>> /\ "finish" \in Stamped /\ Tb!Goes(t, "finish")
  BY DEF Tb!Create, Tb!history, Stamped
<1>2. PICK n \in Names : n = thread[t].name
  BY <1>1, Begun
<1>3. dirs[n] = Tb!NoDir
  BY <1>1, <1>2, NameNow DEF NameOk
<1>4. thread[t].stamp # 0 /\ thread[t].stamp \in Nat /\ thread[t].config \in Configs /\ thread[t].config # "gone"
  <2>1. CallOk(t, thread[t], map, dirs, held, late, stamps) /\ thread[t] # Tb!Idle
    BY <1>1, Begun
  <2>2. thread[t] \in Calls /\ stamps \in Nat
    BY DEF TbInv, TbTypes
  <2> QED BY <1>1, <2>1, <2>2, SMTT(20) DEF CallOk, Calls
<1> DEFINE d == [Tb!NoDir EXCEPT !.gen = thread[t].stamp, !.config = thread[t].config]
<1>5. d.gen # 0 /\ d.whole = FALSE /\ d.rows = {} /\ d.config = catalog[n].config
  <2>1. catalog[n].config = thread[t].config
    BY <1>1, <1>2 DEF TbRows, Stamped
  <2> QED BY <1>4, <2>1 DEF Tb!NoDir
<1>6. dirs' = [dirs EXCEPT ![n] = d]
  BY <1>2, <1>3 DEF Tb!Create
<1> HIDE DEF d
<1>7. dirs'[n] = d /\ \A m \in Names : m # n => dirs'[m] = dirs[m]
  BY <1>6 DEF TbInv, TbTypes
<1>8. PICK c \in Calls : BecomesCall(t, c) /\ c.at = "finish" /\ c.name = n
  BY <1>1, <1>2, GoesOn, SMTT(20), ZenonT(20) DEF TbInv
<1>9. NameOk(thread[t].at, open, catalog[n].config, dirs[n], map[n], era[n], n \in changed) =>
        NameOk(c.at, open, catalog[n].config, dirs'[n], map[n], era[n], n \in changed)
  BY <1>1, <1>5, <1>7, <1>8, TbConstants DEF NameOk
<1> QED BY <1>1, <1>2, <1>7, <1>8, <1>9, NameGoes

(* The completion of the table. *)
LEMMA NameFinish ==
  ASSUME Managed, TbInv, TbNames, NEW t \in Threads, Tb!Finish(t), thread[t].name \notin cut'
  PROVE  TbNames'
<1>1. thread[t].at = "finish" /\ UNCHANGED <<open, catalog, era, map, cut, changed>>
  BY DEF Tb!Finish, Tb!history
<1>2. PICK n \in Names : n = thread[t].name
  BY <1>1, Begun
<1>3. dirs[n] # Tb!NoDir /\ dirs[n].whole = FALSE
  BY <1>1, <1>2, NameNow DEF NameOk
<1>4. dirs' = [dirs EXCEPT ![n].whole = TRUE] /\ Tb!HasOpened(t, n)
  BY <1>2, <1>3 DEF Tb!Finish
<1> DEFINE d == [dirs[n] EXCEPT !.whole = TRUE]
<1>5. d.gen = dirs[n].gen /\ d.whole = TRUE /\ d.rows = dirs[n].rows /\ d.config = dirs[n].config
  BY DEF TbInv, TbTypes, Dirs
<1>6. dirs' = [dirs EXCEPT ![n] = d]
  BY <1>4
<1> HIDE DEF d
<1>7. dirs'[n] = d /\ \A m \in Names : m # n => dirs'[m] = dirs[m]
  BY <1>6 DEF TbInv, TbTypes
<1>8. PICK c \in Calls : BecomesCall(t, c) /\ c.at = "publish" /\ c.name = n
  BY <1>2, <1>4, GoesOpened DEF TbInv
<1>9. NameOk(thread[t].at, open, catalog[n].config, dirs[n], map[n], era[n], n \in changed) =>
        NameOk(c.at, open, catalog[n].config, dirs'[n], map[n], era[n], n \in changed)
  BY <1>1, <1>3, <1>5, <1>7, <1>8, TbConstants DEF NameOk
<1> QED BY <1>1, <1>2, <1>7, <1>8, <1>9, NameGoes

(* After Publish the map follows the catalog again. *)
LEMMA NamePublish == ASSUME Managed, TbInv, TbNames, NEW t \in Threads, Tb!Publish(t) PROVE TbNames'
<1>1. thread[t].at = "publish" /\ UNCHANGED <<open, catalog, dirs, era, cut, changed>> /\ Tb!Returns(t)
  BY DEF Tb!Publish, Tb!disk, Tb!history, Tb!uses
<1>2. PICK n \in Names : n = thread[t].name
  BY <1>1, Begun
<1>3. CallOk(t, thread[t], map, dirs, held, late, stamps) /\ thread[t] # Tb!Idle
  BY <1>1, Begun
<1>4. thread[t].gen # 0
  BY <1>1, <1>3 DEF CallOk
<1>5. map'[n].gen # 0 /\ \A m \in Names : m # n => map'[m] = map[m]
  BY <1>2, <1>4 DEF Tb!Publish, TbInv, TbTypes
<1>6. map'[n] # Tb!NoHandle
  BY <1>5, TbConstants
<1>7. PICK c \in Calls : c = Tb!Idle /\ BecomesCall(t, c)
  BY <1>1, TbConstants DEF Tb!Returns, BecomesCall, TbInv, TbTypes
<1>8. NameOk(thread[t].at, open, catalog[n].config, dirs[n], map[n], era[n], n \in changed) =>
        NameOk(c.at, open, catalog[n].config, dirs[n], map'[n], era[n], n \in changed)
  BY <1>1, <1>6, <1>7, TbConstants DEF NameOk
<1> QED BY <1>1, <1>2, <1>5, <1>7, <1>8, NameGoes, SMTT(20), ZenonT(20)

(* After Remove neither the map nor the disk has the name, or it is cut. *)
LEMMA NameRemove ==
  ASSUME Managed, TbInv, TbNames, TbRows, NEW t \in Threads, Tb!Remove(t), thread[t].name \notin cut'
  PROVE  TbNames'
<1>1. thread[t].at = "remove" /\ UNCHANGED <<open, catalog, era>> /\ Tb!Returns(t)
  BY DEF Tb!Remove
<1>2. PICK n \in Names : n = thread[t].name
  BY <1>1, Begun
<1>3. /\ CallOk(t, thread[t], map, dirs, held, late, stamps) /\ thread[t] # Tb!Idle
      /\ \A u \in Threads : u # t /\ thread[u] # Tb!Idle => thread[u].name # n
  BY <1>1, <1>2, Begun
<1>4. map[n] # Tb!NoHandle /\ catalog[n].config = "gone"
  BY <1>1, <1>2, <1>3 DEF CallOk, TbRows, Stamped
<1>5. /\ dirs' = [dirs EXCEPT ![n] = Tb!NoDir] /\ map' = [map EXCEPT ![n] = Tb!NoHandle]
      /\ cut' = cut \ {n} /\ changed' = changed \ {n}
  BY <1>2, <1>4 DEF Tb!Remove, Tb!Removed, Tb!Dropped
<1>6. dirs'[n] = Tb!NoDir /\ map'[n] = Tb!NoHandle /\ \A m \in Names : m # n => dirs'[m] = dirs[m] /\ map'[m] = map[m]
  BY <1>5 DEF TbInv, TbTypes
<1>7. Elsewhere(n)
  BY <1>1, <1>5, <1>6 DEF Elsewhere
<1>8. PICK c \in Calls : c = Tb!Idle /\ BecomesCall(t, c)
  BY <1>1, TbConstants DEF Tb!Returns, BecomesCall, TbInv, TbTypes
<1>9. NameOk(c.at, open, catalog'[n].config, dirs'[n], map'[n], era'[n], n \in changed')
  BY <1>1, <1>4, <1>6, <1>8, TbConstants DEF NameOk
<1> QED BY <1>1, <1>2, <1>3, <1>7, <1>8, <1>9, NameStep

(* A row is inserted in the era of its table. *)
LEMMA NameInsert == ASSUME TbInv, TbNames, NEW t \in Threads, NEW n \in Names, Tb!Insert(t, n) PROVE TbNames'
<1>1. /\ UNCHANGED <<open, catalog, era, map, thread, cut, changed>> /\ \A m \in Names : m # n => dirs'[m] = dirs[m]
      /\ dirs'[n].gen = dirs[n].gen /\ dirs'[n].whole = dirs[n].whole /\ dirs'[n].config = dirs[n].config
      /\ dirs'[n].rows = dirs[n].rows \cup {era[n]} /\ dirs[n].gen = held[t].gen /\ held[t] # Tb!NoHandle
  BY InsertRows DEF Tb!Insert, Tb!history
<1>2. dirs[n].gen # 0
  BY <1>1, SMTT(20) DEF TbInv, TbTypes, TbHeld, HeldOk
<1>3. ASSUME NEW s, NameOk(s, open, catalog[n].config, dirs[n], map[n], era[n], n \in changed)
      PROVE  NameOk(s, open, catalog[n].config, dirs'[n], map[n], era[n], n \in changed)
  BY <1>1, <1>2, <1>3, TbConstants DEF NameOk
<1>4. ASSUME NEW m \in Names, NEW s, NameOk(s, open, catalog[m].config, dirs[m], map[m], era[m], m \in changed)
      PROVE  NameOk(s, open, catalog[m].config, dirs'[m], map[m], era[m], m \in changed)
  BY <1>1, <1>3, <1>4
<1> QED BY <1>1, <1>4 DEF TbNames

(* Every declared table has its directory, so opening the workspace opens  *)
(* it.                                                                     *)
LEMMA NameCloseOpen == ASSUME Managed, TbInv, TbNames, Tb!Close \/ Tb!Open PROVE TbNames'
<1>1. UNCHANGED <<catalog, dirs, era, cut, changed>> /\ \A t \in Threads : thread[t] = Tb!Idle /\ thread'[t] = Tb!Idle
  BY DEF Tb!Close, Tb!Open, Tb!Ends, Tb!disk, Tb!history, Tb!uses, TbInv, TbHeld
<1>2. ASSUME NEW n \in Names \ cut PROVE NameOk("idle", open', catalog[n].config, dirs[n], map'[n], era[n], n \in changed)
  <2>1. NameOk("idle", open, catalog[n].config, dirs[n], map[n], era[n], n \in changed)
    BY <1>1 DEF TbNames
  <2>2. CASE open' = FALSE
    BY <2>1, <2>2 DEF NameOk
  <2>3. CASE Tb!Open
    <3>1. map'[n] = IF catalog[n].config # "gone" THEN [id |-> 0, gen |-> dirs[n].gen] ELSE Tb!NoHandle
      BY <2>3, TbConstants DEF Tb!Open, Tb!Declared
    <3>2. catalog[n].config # "gone" => dirs[n].gen # 0
      BY <2>1, TbConstants, SMTT(20) DEF NameOk, TbInv, TbDirs, DirOk
    <3>3. map'[n] # Tb!NoHandle <=> catalog[n].config # "gone"
      BY <3>1, <3>2, TbConstants, SMTT(20)
    <3> QED BY <2>1, <3>3 DEF NameOk
  <2> QED BY <2>2, <2>3 DEF Tb!Close, Tb!Ends
<1> QED BY <1>1, <1>2 DEF TbNames

(* After a crash the names whose calls were cut off are in cut, and what   *)
(* is left of the others is as when they are idle.                         *)
LEMMA NameCrash == ASSUME Managed, TbInv, TbNames, Tb!Crash PROVE TbNames'
<1>1. /\ open' = FALSE /\ UNCHANGED <<catalog, era, changed>> /\ \A t \in Threads : thread'[t] = Tb!Idle
      /\ cut' = cut \union {thread[t].name : t \in {u \in Threads : thread[u].at \in Tb!Unfinished}}
  BY DEF Tb!Crash, Tb!Ends
<1>2. ASSUME NEW n \in Names, n \notin cut' PROVE NameOk("idle", FALSE, catalog[n].config, dirs'[n], map'[n], era[n], n \in changed)
  <2>1. n \notin cut /\ \A t \in Threads : thread[t].name = n => thread[t].at \notin Tb!Unfinished
    BY <1>1, <1>2
  <2>2. dirs'[n] = dirs[n]
    BY <2>1 DEF Tb!Crash, Tb!Unfinished, TbInv, TbTypes
  <2>3. PICK s \in {"idle", "mint", "put", "publish"} :
          NameOk(s, open, catalog[n].config, dirs[n], map[n], era[n], n \in changed)
    <3>1. CASE \A t \in Threads : thread[t] = Tb!Idle \/ thread[t].name # n
      BY <2>1, <3>1 DEF TbNames
    <3>2. ASSUME NEW t \in Threads, thread[t] # Tb!Idle, thread[t].name = n
          PROVE  /\ thread[t].at \in {"idle", "mint", "put", "publish"}
                 /\ NameOk(thread[t].at, open, catalog[n].config, dirs[n], map[n], era[n], n \in changed)
      <4>1. thread[t].at \in Stamped \cup {"mint"}
        BY <3>2 DEF TbInv, TbCalls, CallOk
      <4> QED BY <2>1, <3>2, <4>1 DEF TbNames, Stamped, Tb!Unfinished
    <3> QED BY <3>1, <3>2
  <2> QED BY <2>2, <2>3, TbConstants DEF NameOk
<1> QED BY <1>1, <1>2 DEF TbNames

(* A call goes on, and nothing happens to other names. *)
LEMMA Onward ==
  ASSUME Managed, TbInv, NEW t \in Threads, Tb!Step(t)
  PROVE  /\ thread[t].at # "idle" /\ open' = open /\ Elsewhere(thread[t].name)
         /\ \E c \in Calls : BecomesCall(t, c) /\ (c = Tb!Idle \/ c.name = thread[t].name)
<1>1. thread[t].at # "idle" /\ open' = open
  BY DEF Tb!Step, Tb!Mint, Tb!Put, Tb!Check, Tb!Exists, Tb!Create, Tb!Finish, Tb!CreateFails, Tb!Publish, Tb!Remove
<1>2. PICK n \in Names : n = thread[t].name
  BY <1>1, Begun
<1>3. /\ catalog \in [Names -> [stamp : Nat, config : Configs \cup {"gone"}]] /\ era \in [Names -> Nat]
      /\ dirs \in [Names -> Dirs] /\ map \in [Names -> Handles] /\ thread \in [Threads -> Calls]
  BY DEF TbInv, TbTypes
<1>4. Elsewhere(n)
  <2>1. CASE UNCHANGED <<catalog, dirs, map, era, cut, changed>>
    BY <2>1 DEF Elsewhere
  <2>2. CASE Tb!Mint(t) \/ Tb!Check(t) \/ Tb!Exists(t)
    BY <2>1, <2>2 DEF Tb!Mint, Tb!Check, Tb!Exists, Tb!disk, Tb!history
  <2>3. CASE Tb!Put(t)
    BY <1>2, <1>3, <2>3 DEF Tb!Put, Elsewhere
  <2>4. CASE Tb!Create(t)
    BY <1>2, <1>3, <2>4 DEF Tb!Create, Tb!history, Elsewhere
  <2>5. CASE Tb!Finish(t)
    BY <1>2, <1>3, <2>5 DEF Tb!Finish, Tb!history, Elsewhere
  <2>6. CASE Tb!CreateFails(t)
    BY <1>2, <2>6 DEF Tb!CreateFails, Elsewhere
  <2>7. CASE Tb!Publish(t)
    BY <1>2, <1>3, <2>7 DEF Tb!Publish, Tb!disk, Tb!history, Elsewhere
  <2>8. CASE Tb!Remove(t)
    <3>1. \A m \in Names : m # n => dirs'[m] = dirs[m] /\ map'[m] = map[m]
      BY <1>2, <1>3, <2>8 DEF Tb!Remove, Tb!Removed, Tb!Dropped
    <3>2. \A m \in Names : m # n => (m \in cut') = (m \in cut) /\ (m \in changed') = (m \in changed)
      BY <1>2, <2>8 DEF Tb!Remove
    <3> QED BY <2>8, <3>1, <3>2 DEF Tb!Remove, Elsewhere
  <2> QED BY <2>2, <2>3, <2>4, <2>5, <2>6, <2>7, <2>8 DEF Tb!Step
<1>5. \E c \in Calls : BecomesCall(t, c) /\ (c = Tb!Idle \/ c.name = thread[t].name)
  <2>1. CASE Tb!Returns(t)
    BY <1>3, <2>1, TbConstants DEF Tb!Returns, BecomesCall
  <2>2. CASE \E s \in Stamped : Tb!Goes(t, s)
    BY <2>2, GoesOn, SMTT(20), ZenonT(20) DEF TbInv
  <2>3. CASE \E m \in Names : Tb!HasOpened(t, m)
    BY <2>3, GoesOpened DEF TbInv
  <2>4. CASE Tb!Mint(t)
    BY <2>4, GoesStamped DEF TbInv
  <2> QED BY <1>2, <2>1, <2>2, <2>3, <2>4
          DEF Tb!Step, Tb!Put, Tb!Check, Tb!Exists, Tb!Create, Tb!Finish, Tb!CreateFails, Tb!Publish, Tb!Remove, Stamped
<1> QED BY <1>1, <1>2, <1>4, <1>5

(* Of a name that is cut nothing is claimed. *)
LEMMA NameCut ==
  ASSUME Managed, TbInv, TbNames, NEW t \in Threads, Tb!Step(t), thread[t].name \in cut'
  PROVE  TbNames'
<1>1. thread[t].at # "idle" /\ open' = open
  BY Onward
<1>2. PICK n \in Names : n = thread[t].name
  BY <1>1, Begun
<1>3. Elsewhere(n) /\ \E c \in Calls : BecomesCall(t, c) /\ (c = Tb!Idle \/ c.name = n)
  BY <1>2, Onward
<1>4. \A u \in Threads : u # t /\ thread[u] # Tb!Idle => thread[u].name # n
  BY <1>1, <1>2, Begun
<1> QED BY <1>1, <1>2, <1>3, <1>4, NameStep

(* Every step keeps the rows of the calls. *)
LEMMA RowsStep == ASSUME Managed, TbInv, TbRows, [Tb!Next]_Tb!vars PROVE TbRows'
<1>1. ASSUME NEW t \in Threads, NEW c \in Calls, BecomesCall(t, c),
             \A u \in Threads : u # t /\ thread[u].at \in Stamped => catalog'[thread[u].name] = catalog[thread[u].name],
             c.at \in Stamped \ {"put"} => catalog'[c.name].config = c.config
      PROVE  TbRows'
  BY <1>1 DEF TbRows, BecomesCall
<1>2. ASSUME NEW t \in Threads, Tb!Step(t) PROVE TbRows'
  <2>1. thread[t].at # "idle" /\ Elsewhere(thread[t].name)
    BY <1>2, Onward
  <2>2. PICK n \in Names : n = thread[t].name
    BY <2>1, Begun
  <2>3. \A u \in Threads : u # t /\ thread[u].at \in Stamped => thread[u].name \in Names /\ thread[u].name # n
    <3>1. \A u \in Threads : thread[u].at \in Stamped => thread[u] # Tb!Idle
      BY TbConstants DEF Stamped
    <3> QED BY <2>1, <2>2, <3>1, Begun DEF TbInv, TbCalls, CallOk
  <2>4. \A u \in Threads : u # t /\ thread[u].at \in Stamped => catalog'[thread[u].name] = catalog[thread[u].name]
    BY <2>1, <2>2, <2>3 DEF Elsewhere
  <2>5. CASE Tb!Returns(t)
    <3>1. PICK c \in Calls : c = Tb!Idle /\ BecomesCall(t, c)
      BY <2>5, TbConstants DEF Tb!Returns, BecomesCall, TbInv, TbTypes
    <3> QED BY <1>1, <2>4, <3>1, TbConstants DEF Stamped
  <2>6. CASE Tb!Mint(t)
    <3>1. PICK c \in Calls : BecomesCall(t, c) /\ c.at = "put"
      BY <2>6, GoesStamped DEF TbInv
    <3> QED BY <1>1, <2>4, <3>1
  <2>7. CASE Tb!Put(t) /\ ~Tb!Returns(t)
    <3>1. PICK s \in Stamped : Tb!Goes(t, s)
      BY <2>7 DEF Tb!Put, Stamped
    <3>2. PICK c \in Calls : BecomesCall(t, c) /\ c.name = n /\ c.config = thread[t].config
      BY <2>2, <3>1, GoesOn, SMTT(20), ZenonT(20) DEF TbInv
    <3>3. catalog'[n].config = thread[t].config
      BY <2>2, <2>7 DEF Tb!Put, TbInv, TbTypes
    <3> QED BY <1>1, <2>4, <3>2, <3>3
  <2>8. CASE thread[t].at \in {"check", "exists", "create", "finish"} /\ catalog' = catalog /\ ~Tb!Returns(t)
    <3>1. PICK c \in Calls : BecomesCall(t, c) /\ c.name = n /\ c.config = thread[t].config
      <4>1. CASE \E s \in Stamped : Tb!Goes(t, s)
        BY <2>2, <4>1, GoesOn, SMTT(20), ZenonT(20) DEF TbInv
      <4>2. CASE Tb!HasOpened(t, n)
        BY <2>2, <4>2, GoesOpened DEF TbInv
      <4> QED BY <1>2, <2>2, <2>8, <4>1, <4>2
              DEF Tb!Step, Tb!Mint, Tb!Put, Tb!Check, Tb!Exists, Tb!Create, Tb!Finish, Tb!CreateFails, Tb!Publish, Tb!Remove, Stamped
    <3>2. catalog[n].config = thread[t].config
      BY <2>2, <2>8 DEF TbRows, Stamped
    <3> QED BY <1>1, <2>4, <2>8, <3>1, <3>2
  <2> QED BY <1>2, <2>5, <2>6, <2>7, <2>8
          DEF Tb!Step, Tb!Check, Tb!Exists, Tb!Create, Tb!Finish, Tb!CreateFails, Tb!Publish, Tb!Remove, Tb!disk, Tb!history
<1>3. ASSUME NEW t \in Threads, NEW n \in Names, (\E k \in Configs : Tb!Upsert(t, n, k)) \/ Tb!Delete(t, n) PROVE TbRows'
  <2>1. PICK k \in Configs \cup {"gone"} :
          /\ thread' = [thread EXCEPT ![t] = [at |-> "mint", name |-> n, config |-> k, stamp |-> 0, gen |-> 0]]
          /\ catalog' = catalog
    BY <1>3, TbConstants DEF Tb!Upsert, Tb!Delete, Tb!Starts, Tb!disk
  <2>2. PICK c \in Calls : c.at = "mint" /\ thread' = [thread EXCEPT ![t] = c]
    <3>1. [at |-> "mint", name |-> n, config |-> k, stamp |-> 0, gen |-> 0] \in Calls
      BY DEF Calls
    <3> QED BY <2>1, <3>1
  <2>3. BecomesCall(t, c)
    BY <2>2 DEF BecomesCall, TbInv, TbTypes
  <2> QED BY <1>1, <2>1, <2>2, <2>3 DEF Stamped
<1>4. CASE UNCHANGED <<catalog, thread>>
  BY <1>4 DEF TbRows
<1>5. CASE \A t \in Threads : thread'[t] = Tb!Idle
  BY <1>5, TbConstants DEF TbRows, Stamped
<1>6. CASE Tb!Close \/ Tb!Crash
  BY <1>5, <1>6 DEF Tb!Close, Tb!Crash, Tb!Ends
<1>7. CASE Tb!Open \/ UNCHANGED Tb!vars
  BY <1>4, <1>7 DEF Tb!Open, Tb!vars, Tb!disk
<1>8. ASSUME NEW t \in Threads, NEW n \in Names, Tb!Get(t, n) \/ Tb!Insert(t, n) PROVE TbRows'
  BY <1>4, <1>8 DEF Tb!Get, Tb!Insert, Tb!disk
<1>9. ASSUME NEW t \in Threads, Tb!Release(t) PROVE TbRows'
  BY <1>4, <1>9 DEF Tb!Release, Tb!disk
<1> QED BY <1>2, <1>3, <1>6, <1>7, <1>8, <1>9 DEF Tb!Next

(* Every step keeps names, directories and map together but for names that *)
(* are cut.                                                                *)
LEMMA NamesStep == ASSUME Managed, TbInv, TbRows, TbNames, [Tb!Next]_Tb!vars PROVE TbNames'
<1>1. ASSUME NEW t \in Threads, Tb!Step(t) PROVE TbNames'
  <2>1. CASE thread[t].name \in cut'
    BY <1>1, <2>1, NameCut
  <2>2. CASE thread[t].name \notin cut'
    <3>1. ~Tb!CreateFails(t)
      BY <2>2 DEF Tb!CreateFails
    <3> QED BY <1>1, <2>2, <3>1, NameMint, NamePut, NameCheck, NameExists, NameCreate, NameFinish, NamePublish, NameRemove
            DEF Tb!Step
  <2> QED BY <2>1, <2>2
<1>2. ASSUME NEW t \in Threads, NEW n \in Names,
             \/ <<"upsert", n>> \in May(t) /\ \E c \in Configs : Tb!Upsert(t, n, c)
             \/ <<"delete", n>> \in May(t) /\ Tb!Delete(t, n)
      PROVE  TbNames'
  BY <1>2, NameStarts
<1>3. ASSUME UNCHANGED <<open, catalog, dirs, era, map, thread, cut, changed>> PROVE TbNames'
  BY <1>3 DEF TbNames
<1>4. ASSUME NEW t \in Threads, NEW n \in Names, Tb!Get(t, n) PROVE TbNames'
  BY <1>3, <1>4 DEF Tb!Get, Tb!disk, Tb!history
<1>5. ASSUME NEW t \in Threads, Tb!Release(t) PROVE TbNames'
  BY <1>3, <1>5 DEF Tb!Release, Tb!disk, Tb!history
<1>6. CASE UNCHANGED Tb!vars
  BY <1>3, <1>6 DEF Tb!vars, Tb!disk, Tb!history
<1> QED BY <1>1, <1>2, <1>4, <1>5, <1>6, NameInsert, NameCloseOpen, NameCrash DEF Tb!Next

(* They are together in an empty workspace. *)
LEMMA NamesInit == Tb!Init => TbRows /\ TbNames
<1> SUFFICES ASSUME Tb!Init PROVE TbRows /\ TbNames
  OBVIOUS
<1>1. /\ \A n \in Names : dirs[n] = Tb!NoDir /\ map[n] = Tb!NoHandle /\ catalog[n].config = "gone"
      /\ \A t \in Threads : thread[t] = Tb!Idle
  BY DEF Tb!Init, Tb!Gone
<1>2. TbRows
  BY <1>1, TbConstants DEF TbRows, Stamped
<1> QED BY <1>1, <1>2 DEF TbNames, NameOk

(* When no call is in progress the handle map is what the catalog says,    *)
(* and a table that is declared again after a deletion starts empty        *)
(* (TableCatalogListener), for any number of tables and threads, through   *)
(* failures and crashes, when each table is declared and deleted by one    *)
(* thread: a failure spoils only the name whose file operation failed or   *)
(* was cut off, and that until its directory is removed.                   *)
THEOREM TablesFollowCatalog ==
  ASSUME Managed
  PROVE  Tb!Spec => [](Tb!MapFollowsCatalog /\ Tb!CleanRecreate)
<1>1. TbInv /\ TbNames => Tb!MapFollowsCatalog /\ Tb!CleanRecreate
  <2> SUFFICES ASSUME TbInv, TbNames PROVE Tb!MapFollowsCatalog /\ Tb!CleanRecreate
    OBVIOUS
  <2>1. Tb!MapFollowsCatalog
    BY TbConstants DEF TbNames, NameOk, Tb!MapFollowsCatalog, Tb!Declared
  <2>2. ASSUME NEW n \in Names \ cut PROVE \E s : NameOk(s, open, catalog[n].config, dirs[n], map[n], era[n], n \in changed)
    BY DEF TbNames
  <2>3. Tb!CleanRecreate
    BY <2>2, TbConstants DEF NameOk, Tb!CleanRecreate, Tb!Declared
  <2> QED BY <2>1, <2>3
<1> QED BY <1>1, TablesInit, NamesInit, TablesStep, RowsStep, NamesStep, PTL DEF Tb!Spec

(* After a close or a crash every declared table has the files its row     *)
(* calls for, so that Tables::open opens it: with any configurations,      *)
(* failures and crashes, only a table whose own file operations failed or  *)
(* were cut off, or whose configuration an upsert has changed, can keep    *)
(* the workspace from opening.                                             *)
THEOREM TablesReopen ==
  ASSUME Managed
  PROVE  Tb!Spec => []Tb!Reopens
<1>1. TbInv /\ TbNames => Tb!Reopens
  <2> SUFFICES ASSUME TbInv, TbNames, ~open, NEW n \in Names \ (cut \union changed), Tb!Declared(n)
               PROVE  Tb!Openable(n, catalog[n].config)
    BY DEF Tb!Reopens
  <2>1. NameOk("idle", open, catalog[n].config, dirs[n], map[n], era[n], n \in changed)
    BY DEF TbNames, TbInv, TbHeld
  <2>2. dirs[n].whole = TRUE /\ catalog[n].config # "gone"
    BY <2>1, TbConstants DEF NameOk, Tb!Declared
  <2>3. dirs[n] # Tb!NoDir
    BY <2>2, TbConstants
  <2> QED BY <2>1, <2>2, <2>3 DEF NameOk, Tb!Openable
<1> QED BY <1>1, TablesInit, NamesInit, TablesStep, RowsStep, NamesStep, PTL DEF Tb!Spec
---------------------------------------------------------------------------
(* The named states of a workspace (States). *)
CONSTANTS Kinds, MaxDeletes
VARIABLES files, opened

St == INSTANCE States

(* The types of catalog, map and handles of States, and HandleKept. *)
StTypes ==
  /\ catalog \in [Names -> Kinds \cup {"none"}] /\ opened \in [Names -> Kinds \cup {"none"}]
  /\ held \in [Threads -> Names \cup {"none"}]
StHeld == StTypes /\ St!HandleKept

(* No step closes a state that a thread still holds: delete refuses it. *)
LEMMA StHeldKept ==
  ASSUME "none" \notin Names, "none" \notin Kinds, StHeld, [St!Next]_St!vars
  PROVE  StHeld'
<1>0. StTypes /\ \A t \in Threads : held[t] # "none" => opened[held[t]] # "none"
  BY DEF StHeld, St!HandleKept, St!None
<1>1. SUFFICES StTypes' /\ \A t \in Threads : held'[t] # "none" => opened'[held'[t]] # "none"
  BY DEF StHeld, St!HandleKept, St!None
<1>2. ASSUME NEW t \in Threads, NEW n \in Names, NEW k \in Kinds, St!Upsert(t, n, k)
      PROVE  StTypes' /\ UNCHANGED <<opened, held>>
  BY <1>0, <1>2 DEF StTypes, St!Upsert
<1>3. ASSUME NEW t \in Threads, St!Create(t) \/ St!CreateFails(t) \/ St!Write(t) \/ St!Remove(t)
      PROVE  UNCHANGED <<catalog, opened, held>>
  BY <1>3 DEF St!Create, St!CreateFails, St!Write, St!Remove
<1>4. ASSUME NEW t \in Threads, NEW n \in Names, St!Get(t, n)
      PROVE  StTypes' /\ \A u \in Threads : held'[u] # "none" => opened'[held'[u]] # "none"
  <2>1. catalog' = catalog /\ held' = [held EXCEPT ![t] = n]
    BY <1>4 DEF St!Get
  <2>2. opened' \in [Names -> Kinds \cup {"none"}] /\ opened'[n] # "none" /\ \A m \in Names : opened[m] # "none" => opened'[m] # "none"
    BY <1>0, <1>4 DEF StTypes, St!Get, St!Declared, St!None
  <2> QED BY <1>0, <2>1, <2>2 DEF StTypes
<1>5. ASSUME NEW t \in Threads, St!Release(t)
      PROVE  StTypes' /\ \A u \in Threads : held'[u] # "none" => opened'[held'[u]] # "none"
  BY <1>0, <1>5 DEF StTypes, St!Release, St!None
<1>6. ASSUME NEW t \in Threads, NEW n \in Names, St!Close(t, n) \/ St!Delete(t, n)
      PROVE  StTypes' /\ \A u \in Threads : held'[u] # "none" => opened'[held'[u]] # "none"
  <2>1. /\ opened' = [opened EXCEPT ![n] = "none"] /\ held' = held /\ \A u \in Threads : held[u] # n
        /\ catalog' = catalog \/ catalog' = [catalog EXCEPT ![n] = "none"]
    BY <1>6 DEF St!Close, St!Delete, St!InUse, St!None
  <2> QED BY <1>0, <2>1 DEF StTypes
<1>7. CASE St!Reopen
  BY <1>0, <1>7 DEF StTypes, St!Reopen, St!None
<1>8. ASSUME UNCHANGED <<catalog, opened, held>>
      PROVE  StTypes' /\ \A u \in Threads : held'[u] # "none" => opened'[held'[u]] # "none"
  BY <1>0, <1>8 DEF StTypes
<1>9. CASE UNCHANGED St!vars
  <2>1. UNCHANGED <<catalog, opened, held>>
    BY <1>9 DEF St!vars
  <2> QED BY <1>8, <2>1
<1>10. CASE St!Next
  <2>1. ASSUME NEW t \in Threads, NEW n \in Names, NEW k \in Kinds, St!Upsert(t, n, k)
        PROVE  StTypes' /\ \A u \in Threads : held'[u] # "none" => opened'[held'[u]] # "none"
    BY <1>0, <1>2, <2>1
  <2>2. ASSUME NEW t \in Threads, St!Create(t) \/ St!CreateFails(t) \/ St!Write(t) \/ St!Remove(t)
        PROVE  StTypes' /\ \A u \in Threads : held'[u] # "none" => opened'[held'[u]] # "none"
    BY <1>3, <1>8, <2>2
  <2> QED BY <1>10, <1>4, <1>5, <1>6, <1>7, <2>1, <2>2 DEF St!Next
<1> QED BY <1>9, <1>10

(* A handle somebody holds is the one in the map: neither close nor delete *)
(* takes it away, so that get never opens a file twice (States::get,       *)
(* close, delete), whatever threads, failures and crashes there are.       *)
THEOREM StatesHandleKept ==
  ASSUME "none" \notin Names, "none" \notin Kinds
  PROVE  St!Spec => []St!HandleKept
<1>1. St!Init => StHeld
  BY SMTT(20), ZenonT(20) DEF St!Init, StHeld, StTypes, St!HandleKept, St!None
<1> QED BY <1>1, StHeldKept, PTL DEF St!Spec, StHeld
---------------------------------------------------------------------------
(* One thread t declares states of one kind k that is kept in files. *)
Alone(t, k) ==
  /\ Threads = {t} /\ Kinds = {k} /\ k \notin {"none", "memory"}
  /\ "none" \notin Names /\ Failures = FALSE /\ Crashes = FALSE

(* Is the file of n still to be made? *)
Pending(t, n) == thread[t].at = "create" /\ thread[t].name = n

(* A declared state whose file was made has that file, with rows of this   *)
(* life of the name only; one whose file is still to be made is not open.  *)
StFiles(t, k) ==
  /\ files \in [Names -> [kind : Kinds \cup {"none"}, rows : SUBSET Nat, damaged : BOOLEAN]]
  /\ era \in [Names -> Nat]
  /\ thread[t] = St!Idle \/ thread[t].at \in {"create", "remove"}
  /\ thread[t].at = "create" => thread[t].name \in Names /\ thread[t].kind = k
  /\ thread \in [Threads -> {thread[t]}]
  /\ \A n \in Names : opened[n] # "none" => catalog[n] # "none" /\ ~Pending(t, n)
  /\ \A n \in Names : Pending(t, n) => catalog[n] # "none"
  /\ \A n \in Names : catalog[n] # "none" /\ ~Pending(t, n) => files[n].kind = k /\ files[n].rows \subseteq {era[n]}

(* With one thread and one kind, every step keeps files, map and catalog   *)
(* together.                                                               *)
LEMMA StFilesKept ==
  ASSUME NEW t, NEW k, Alone(t, k), StHeld, StFiles(t, k), [St!Next]_St!vars
  PROVE  StFiles(t, k)'
<1>0. /\ t \in Threads /\ \A u \in Threads : u = t
      /\ k \in Kinds /\ (\A x \in Kinds : x = k) /\ k # "none" /\ k # "memory" /\ "none" \notin Names
  BY DEF Alone
<1>1. /\ catalog \in [Names -> Kinds \cup {"none"}] /\ opened \in [Names -> Kinds \cup {"none"}]
      /\ held \in [Threads -> Names \cup {"none"}] /\ (held[t] # "none" => opened[held[t]] # "none")
  BY <1>0 DEF StHeld, StTypes, St!HandleKept, St!None
<1>2. St!Idle.at = "idle" /\ St!Idle.at # "create"
  BY DEF St!Idle
<1>3. ASSUME NEW n \in Names, St!Upsert(t, n, k) PROVE StFiles(t, k)'
  <2>1. catalog[n] = "none"
    BY <1>0, <1>1, <1>3 DEF St!Upsert
  <2>2. /\ catalog' = [catalog EXCEPT ![n] = k] /\ UNCHANGED <<files, opened, era>> /\ thread[t] = St!Idle
        /\ thread' = [thread EXCEPT ![t] = [at |-> "create", name |-> n, kind |-> k]]
    BY <1>3, <2>1 DEF St!Upsert, St!Declared, St!None
  <2>3. thread'[t] = [at |-> "create", name |-> n, kind |-> k] /\ thread' \in [Threads -> {thread'[t]}]
    BY <1>0, <2>2 DEF StFiles
  <2>4. \A m \in Names : (Pending(t, m)' <=> m = n) /\ ~Pending(t, m)
    BY <1>2, <2>2, <2>3, SMTT(20) DEF Pending
  <2>5. catalog'[n] = k /\ \A m \in Names : m # n => catalog'[m] = catalog[m]
    BY <1>1, <2>2
  <2> QED BY <1>0, <2>1, <2>2, <2>3, <2>4, <2>5, SMTT(20), ZenonT(20) DEF StFiles
<1>4. ASSUME St!Create(t) PROVE StFiles(t, k)'
  <2> DEFINE n == thread[t].name
  <2>1. n \in Names /\ thread[t].kind = k /\ Pending(t, n) /\ thread[t].at = "create"
    BY <1>4 DEF St!Create, StFiles, Pending
  <2>2. /\ files' = [files EXCEPT ![n] = St!Fresh(n, k)] /\ UNCHANGED <<catalog, opened, era>>
        /\ thread' = [thread EXCEPT ![t] = St!Idle]
    BY <1>0, <1>4, <2>1 DEF St!Create
  <2>3. PICK d \in BOOLEAN : St!Fresh(n, k) = [kind |-> k, rows |-> {}, damaged |-> d]
    <3>1. PICK d \in BOOLEAN : d = (opened[n] \notin {"none", "memory"})
      BY Zenon
    <3>2. St!Fresh(n, k) = [St!NoFile EXCEPT !.kind = k, !.damaged = d]
      BY <3>1, Zenon DEF St!Fresh, St!None
    <3> QED BY <3>2 DEF St!NoFile
  <2>4. thread'[t] = St!Idle /\ thread' \in [Threads -> {thread'[t]}]
    BY <1>0, <2>2 DEF StFiles
  <2>5. \A m \in Names : ~Pending(t, m)' /\ (m # n => ~Pending(t, m))
    BY <1>2, <2>1, <2>4 DEF Pending
  <2>6. /\ files'[n].kind = k /\ files'[n].rows = {} /\ \A m \in Names : m # n => files'[m] = files[m]
        /\ files' \in [Names -> [kind : Kinds \cup {"none"}, rows : SUBSET Nat, damaged : BOOLEAN]]
    BY <1>0, <2>1, <2>2, <2>3, SMTT(20) DEF StFiles
  <2> HIDE DEF n
  <2> QED BY <1>2, <2>2, <2>4, <2>5, <2>6 DEF StFiles
<1>5. ASSUME NEW n \in Names, St!Get(t, n) PROVE StFiles(t, k)'
  <2>1. /\ UNCHANGED <<catalog, files, thread, era>> /\ thread[t] = St!Idle
        /\ opened' = opened \/ (catalog[n] # "none" /\ opened' = [opened EXCEPT ![n] = catalog[n]])
    BY <1>5 DEF St!Get, St!Declared, St!None
  <2>2. \A m \in Names : ~Pending(t, m) /\ ~Pending(t, m)'
    BY <1>2, <2>1 DEF Pending
  <2>3. \A m \in Names : opened'[m] # "none" => catalog[m] # "none"
    BY <1>1, <2>1 DEF StFiles
  <2> QED BY <2>1, <2>2, <2>3 DEF StFiles
<1>6. ASSUME St!Write(t) PROVE StFiles(t, k)'
  <2> DEFINE n == held[t]
  <2>1. n \in Names /\ opened[n] # "none" /\ thread[t] = St!Idle
    BY <1>0, <1>1, <1>6 DEF St!Write, St!None
  <2>2. UNCHANGED <<catalog, opened, thread, era>> /\ files' = [files EXCEPT ![n].rows = @ \cup {era[n]}]
    BY <1>0, <1>1, <1>6, <2>1 DEF St!Write
  <2>3. \A m \in Names : ~Pending(t, m) /\ ~Pending(t, m)'
    BY <1>2, <2>1, <2>2 DEF Pending
  <2>4. catalog[n] # "none" /\ files[n].kind = k /\ files[n].rows \subseteq {era[n]}
    BY <2>1, <2>3 DEF StFiles
  <2>5. /\ files'[n].kind = k /\ files'[n].rows \subseteq {era[n]} /\ \A m \in Names : m # n => files'[m] = files[m]
        /\ files' \in [Names -> [kind : Kinds \cup {"none"}, rows : SUBSET Nat, damaged : BOOLEAN]]
    <3>1. /\ files \in [Names -> [kind : Kinds \cup {"none"}, rows : SUBSET Nat, damaged : BOOLEAN]]
          /\ era[n] \in Nat
      BY <2>1 DEF StFiles
    <3> QED BY <2>1, <2>2, <2>4, <3>1, SMTT(20), ZenonT(20)
  <2> HIDE DEF n
  <2> QED BY <1>2, <2>2, <2>3, <2>5 DEF StFiles
<1>7. ASSUME NEW n \in Names, St!Close(t, n) PROVE StFiles(t, k)'
  <2>1. UNCHANGED <<catalog, files, thread, era>> /\ opened' = [opened EXCEPT ![n] = "none"]
    BY <1>7 DEF St!Close, St!None
  <2>2. \A m \in Names : Pending(t, m)' <=> Pending(t, m)
    BY <2>1 DEF Pending
  <2>3. \A m \in Names : opened'[m] # "none" => opened[m] # "none"
    BY <1>1, <2>1
  <2> QED BY <2>1, <2>2, <2>3 DEF StFiles
<1>8. ASSUME NEW n \in Names, St!Delete(t, n) PROVE StFiles(t, k)'
  <2>1. /\ UNCHANGED files /\ opened' = [opened EXCEPT ![n] = "none"] /\ thread[t] = St!Idle
        /\ \/ UNCHANGED <<catalog, era, thread>>
           \/ /\ catalog' = [catalog EXCEPT ![n] = "none"] /\ era' = [era EXCEPT ![n] = @ + 1]
              /\ thread' = [thread EXCEPT ![t] = [at |-> "remove", name |-> n, kind |-> "none"]]
    BY <1>8 DEF St!Delete, St!None
  <2>2. thread'[t] = St!Idle \/ thread'[t].at = "remove"
    BY <1>0, <2>1, SMTT(20) DEF StFiles
  <2>3. \A m \in Names : ~Pending(t, m) /\ ~Pending(t, m)'
    BY <1>2, <2>1, <2>2 DEF Pending
  <2>4. thread' \in [Threads -> {thread'[t]}]
    BY <1>0, <2>1 DEF StFiles
  <2>5. /\ era' \in [Names -> Nat] /\ opened'[n] = "none"
        /\ catalog'[n] = "none" \/ (catalog' = catalog /\ era' = era)
        /\ \A m \in Names : m # n => opened'[m] = opened[m] /\ catalog'[m] = catalog[m] /\ era'[m] = era[m]
    BY <1>1, <2>1, SMTT(20) DEF StFiles
  <2> QED BY <1>2, <2>1, <2>2, <2>3, <2>4, <2>5, SMTT(20) DEF StFiles
<1>9. ASSUME St!Release(t) \/ UNCHANGED St!vars PROVE StFiles(t, k)'
  <2>1. UNCHANGED <<catalog, files, opened, thread, era>>
    BY <1>9 DEF St!Release, St!vars
  <2> QED BY <2>1 DEF StFiles, Pending
<1>10. ASSUME St!Remove(t) \/ St!Reopen PROVE StFiles(t, k)'
  <2>1. /\ UNCHANGED <<catalog, files, era>> /\ thread[t].at # "create"
        /\ \/ opened' = opened /\ thread' = [thread EXCEPT ![t] = St!Idle]
           \/ opened' = [n \in Names |-> "none"] /\ thread' = [u \in Threads |-> St!Idle]
    BY <1>0, <1>2, <1>10 DEF St!Remove, St!Reopen, St!None, Alone
  <2>2. thread'[t] = St!Idle /\ thread' \in [Threads -> {thread'[t]}]
    BY <1>0, <2>1, SMTT(20) DEF StFiles
  <2>3. \A m \in Names : ~Pending(t, m) /\ ~Pending(t, m)' /\ (opened'[m] # "none" => opened[m] # "none")
    BY <1>2, <2>1, <2>2 DEF Pending
  <2> QED BY <1>2, <2>1, <2>2, <2>3 DEF StFiles
<1>11. ~St!CreateFails(t)
  BY DEF St!CreateFails, Alone
<1> QED BY <1>0, <1>3, <1>4, <1>5, <1>6, <1>7, <1>8, <1>9, <1>10, <1>11 DEF St!Next

(* They are together in an empty workspace. *)
LEMMA StFilesInit == ASSUME NEW t, NEW k, Alone(t, k), St!Init PROVE StHeld /\ StFiles(t, k)
<1>1. St!NoFile \in [kind : Kinds \cup {"none"}, rows : SUBSET Nat, damaged : BOOLEAN]
  BY DEF St!NoFile, St!None
<1> QED BY <1>1 DEF St!Init, StHeld, StTypes, StFiles, St!HandleKept, St!Idle, Pending, Alone, St!None

(* Nothing of a deleted state is seen in the one that is declared next,    *)
(* and once upsert is done with a name, get succeeds (States::upsert,      *)
(* delete, get), for one thread and one kind of file, without failures.    *)
(* Neither holds with a second thread or a second kind.                    *)
THEOREM StatesCleanRecreate ==
  ASSUME NEW t, NEW k, Alone(t, k)
  PROVE  St!Spec => [](St!CleanRecreate /\ St!Gettable)
<1>1. StHeld /\ StFiles(t, k) => St!CleanRecreate /\ St!Gettable
  <2> SUFFICES ASSUME StHeld, StFiles(t, k) PROVE St!CleanRecreate /\ St!Gettable
    OBVIOUS
  <2>1. St!CleanRecreate
    BY DEF StFiles, St!CleanRecreate, St!None
  <2>2. ASSUME NEW n \in Names, St!Declared(n), \A u \in Threads : thread[u].name # n
        PROVE  St!Openable(n, catalog[n])
    <3>1. catalog[n] = k /\ ~Pending(t, n)
      BY <2>2 DEF St!Declared, St!None, StHeld, StTypes, Alone, Pending
    <3> QED BY <2>2, <3>1 DEF St!Openable, StFiles, St!Declared, St!None
  <2> QED BY <2>1, <2>2 DEF St!Gettable
<1>2. StHeld /\ StFiles(t, k) /\ [St!Next]_St!vars => (StHeld /\ StFiles(t, k))'
  BY StHeldKept, StFilesKept DEF Alone
<1>3. St!Init => StHeld /\ StFiles(t, k)
  BY StFilesInit
<1> QED BY <1>1, <1>2, <1>3, PTL DEF St!Spec
=============================================================================
