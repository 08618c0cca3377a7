---------------------------- MODULE MCBackends ------------------------------
(***************************************************************************)
(* The two backends a State keeps in a file: a behaviour is a KeyDir or a  *)
(* BPlusTree under any calls.  backend says which, and with which          *)
(* configuration; the variables of the other are unused.                   *)
(***************************************************************************)
EXTENDS Integers, Sequences

VARIABLES
  backend,
  file, index, stats, mapped, undeleted,  \* KeyDir
  db,                                     \* BPlusTree
  map                                     \* both

Unused == "unused"

DirOnly == <<file, index, stats, mapped, undeleted>>
vars == <<backend, DirOnly, db, map>>

(* A KeyDir with a value of no units, as the unit type's, and one of two; *)
(* it compacts at one half, never by itself, or may fail to resize.       *)
Units(v) == IF v = "unit" THEN 0 ELSE 2

Halving == INSTANCE KeyDir WITH
  Keys <- {"k", "l"}, Vals <- {"unit", "pair"}, ValueUnits <- Units, InitialCapacity <- 4,
  RatioNum <- 1, RatioDen <- 2, Failures <- FALSE, MaxUnits <- 9
Manual == INSTANCE KeyDir WITH
  Keys <- {"k", "l"}, Vals <- {"unit", "pair"}, ValueUnits <- Units, InitialCapacity <- 4,
  RatioNum <- 1, RatioDen <- 1, Failures <- FALSE, MaxUnits <- 7
Resizing == INSTANCE KeyDir WITH
  Keys <- {"k", "l"}, Vals <- {"unit", "pair"}, ValueUnits <- Units, InitialCapacity <- 4,
  RatioNum <- 1, RatioDen <- 2, Failures <- TRUE, MaxUnits <- 8

(* A BPlusTree with two entries in a leaf and two separators in an         *)
(* internal page: three levels, values in extents of one and two pages, or *)
(* bulk calls.                                                             *)
UnitSize(k, v) == 1
Pages(v) == IF v = "one" THEN 1 ELSE IF v = "two" THEN 2 ELSE 0
Keys3 == {<<1>>, <<2>>, <<3>>}
Keys4 == Keys3 \cup {<<4>>}
Keys6 == Keys4 \cup {<<5>>, <<6>>}

Levels3 == INSTANCE BPlusTree WITH
  Keys <- Keys6, Vals <- {"a"}, EntrySize <- UnitSize, ExtentPages <- Pages, LeafCap <- 2, InternalCap <- 2,
  RatioNum <- 1, RatioDen <- 1, MaxPages <- 12, BulkLeaves <- 0, Loads <- "none"
Extents == INSTANCE BPlusTree WITH
  Keys <- Keys3, Vals <- {"a", "one", "two"}, EntrySize <- UnitSize, ExtentPages <- Pages, LeafCap <- 2,
  InternalCap <- 2, RatioNum <- 1, RatioDen <- 2, MaxPages <- 6, BulkLeaves <- 0, Loads <- "none"
Bulk == INSTANCE BPlusTree WITH
  Keys <- Keys4, Vals <- {"a", "b"}, EntrySize <- UnitSize, ExtentPages <- Pages, LeafCap <- 2, InternalCap <- 2,
  RatioNum <- 1, RatioDen <- 1, MaxPages <- 7, BulkLeaves <- 2, Loads <- "cleared"

(* Keys of two bytes, whose separators share a prefix. *)
Routes == INSTANCE BPlusTree WITH
  Keys <- {<<1>>, <<2>>, <<4, 1>>, <<4, 2>>, <<4, 9>>, <<5>>}, Vals <- {"a"}, EntrySize <- UnitSize,
  ExtentPages <- Pages, LeafCap <- 2, InternalCap <- 2, RatioNum <- 1, RatioDen <- 1, MaxPages <- 14,
  BulkLeaves <- 0, Loads <- "none"

NoDir == file = Unused /\ index = Unused /\ stats = Unused /\ mapped = Unused /\ undeleted = Unused

Init ==
  \/ /\ \/ backend = "halving" /\ Halving!Init
        \/ backend = "manual" /\ Manual!Init
        \/ backend = "resizing" /\ Resizing!Init
     /\ db = Unused
  \/ /\ \/ backend = "levels" /\ Levels3!Init
        \/ backend = "extents" /\ Extents!Init
        \/ backend = "bulk" /\ Bulk!Init
     /\ NoDir

Next ==
  \/ backend = "halving" /\ Halving!Next /\ UNCHANGED <<backend, db>>
  \/ backend = "manual" /\ Manual!Next /\ UNCHANGED <<backend, db>>
  \/ backend = "resizing" /\ Resizing!Next /\ UNCHANGED <<backend, db>>
  \/ backend = "levels" /\ Levels3!Next /\ UNCHANGED <<backend, DirOnly>>
  \/ backend = "extents" /\ Extents!Next /\ UNCHANGED <<backend, DirOnly>>
  \/ backend = "bulk" /\ Bulk!Next /\ UNCHANGED <<backend, DirOnly>>

Spec == Init /\ [][Next]_vars

RoutesInit == backend = "routes" /\ Routes!Init /\ NoDir
RoutesNext == Routes!Next /\ UNCHANGED <<backend, DirOnly>>
RoutesSpec == RoutesInit /\ [][RoutesNext]_vars

(* A bulk delete of everything loses pages: the bulk calls are explored up *)
(* to that.                                                                *)
UpToLoss == backend = "bulk" => Bulk!NoPageLost
---------------------------------------------------------------------------
(* get finds for every key the value the calls so far left there: in a     *)
(* KeyDir whose compaction slides records over each other or fails to      *)
(* resize the file, in trees of three levels, in extents, after bulk       *)
(* loads and bulk deletes.                                                 *)
GetsExact ==
  /\ backend = "halving" => Halving!GetsExact
  /\ backend = "manual" => Manual!GetsExact
  /\ backend = "resizing" => Resizing!GetsExact
  /\ backend = "levels" => Levels3!GetsExact
  /\ backend = "extents" => Extents!GetsExact
  /\ backend = "bulk" => Bulk!GetsExact

(* Opening the file of a KeyDir again shows what the index showed, and     *)
(* nothing that lies behind the sentinel; only a key whose tombstone could *)
(* not be written comes back (rebuild_index against put, delete, compact). *)
ReopenExact ==
  /\ backend = "halving" => Halving!ReopenExact
  /\ backend = "manual" => Manual!ReopenExact
  /\ backend = "resizing" => Resizing!ReopenExact

(* The counters are exact: dead_bytes, which decides about compaction, is  *)
(* what a scan of the file counts, or more after a failed resize, and      *)
(* stays below the compaction_ratio (maybe_compact); those in the meta     *)
(* page of a tree, which open trusts, are what its leaves hold.            *)
CountersExact ==
  /\ backend = "halving" => Halving!DeadExact /\ Halving!DeadBounded
  /\ backend = "manual" => Manual!DeadExact
  /\ backend = "resizing" => Resizing!DeadExact
  /\ backend = "levels" => Levels3!CountersExact
  /\ backend = "extents" => Extents!CountersExact
  /\ backend = "bulk" => Bulk!CountersExact

(* The leaf chain that scans and bulk calls walk is exactly the leaves     *)
(* under the root, in both directions, and the scans agree with the        *)
(* lookups, past leaves that deletes left empty.                           *)
ScansExact ==
  /\ backend = "levels" => Levels3!ChainIsTree /\ Levels3!ScansExact
  /\ backend = "bulk" => Bulk!ChainIsTree /\ Bulk!ScansExact

(* The tree, the extents of live values and the free list never share a    *)
(* page, nor does one hold a page twice; but for bulk deletes none is      *)
(* lost; and with entries of one size no split overfills a leaf.           *)
PagesAccounted ==
  /\ backend = "levels" => Levels3!LeavesFit
  /\ backend = "extents" => Extents!PagesDisjoint /\ Extents!NoPageLost
  /\ backend = "bulk" => Bulk!PagesDisjoint

(* get finds every key also where separators are truncated to a prefix of  *)
(* two bytes and an internal page splits (internal_split).                 *)
RoutesExact == Routes!GetsExact
=============================================================================
