-------------------------- MODULE TopicDurability --------------------------
(***************************************************************************)
(* Topic with the page cache: Topic::sync fsyncs the active segment only,  *)
(* and a power loss may cut every segment file back to what an fsync has   *)
(* covered.  Directory entries and the offsets KeyDir are taken to survive *)
(* whole.                                                                  *)
(***************************************************************************)
EXTENDS Topic

VARIABLES
  synced,    \* base offset of a segment -> records an fsync of its file covered
  promised   \* next_offset when sync last returned Ok

durableVars == <<synced, promised>>

DurableInit == Init /\ synced = [b \in {} |-> 0] /\ promised = 0

(* sync: active.sync_all, then the offsets. *)
Sync ==
  /\ up
  /\ synced' = [b \in DOMAIN synced \cup {tail} |-> IF b = tail THEN file[b].n ELSE synced[b]]
  /\ promised' = next
  /\ UNCHANGED vars

Kept(b) == IF b \in DOMAIN synced THEN synced[b] ELSE 0

(* External: what a file system may leave of a file whose last bytes nobody  *)
(* has fsynced.                                                              *)
Remains(b) ==
  {f \in [magic : BOOLEAN, n : Kept(b) .. file[b].n, len : 0 .. file[b].len, torn : BOOLEAN] :
     /\ f.magic \/ (b \notin DOMAIN synced /\ f.n = 0 /\ f.len = 0)
     /\ f.magic => f.len >= HeaderSize + f.n /\ (f.n = file[b].n <=> f.len = file[b].len)}

PowerLoss ==
  /\ up
  /\ \E f \in [DOMAIN file -> UNION {Remains(b) : b \in DOMAIN file}] :
       (\A b \in DOMAIN file : f[b] \in Remains(b)) /\ Down(f)
  /\ UNCHANGED durableVars

DurableNext == Sync \/ PowerLoss \/ (Next /\ UNCHANGED durableVars)

DurableSpec == DurableInit /\ [][DurableNext]_<<vars, durableVars>>

(* Every record that was in the topic when sync() returned is still readable *)
(* after a power loss, if compaction has not reclaimed it.                   *)
SyncIsDurable ==
  ~up => \A o \in Min(DOMAIN file) .. promised - 1 :
           \E b \in DOMAIN file : file[b].magic /\ b <= o /\ o < b + file[b].n
=============================================================================
