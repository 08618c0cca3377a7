------------------------------ MODULE MCTopic ------------------------------
(***************************************************************************)
(* Topic for TLC: a header of 1 byte, records of 1 and 2 bytes and         *)
(* segments of 3 bytes, so a segment holds one or two records, rotation    *)
(* depends on the size of the record, and compaction can drop two segments *)
(* at once.                                                                *)
(*                                                                         *)
(* A behaviour is that of a Topic whose consumers seek as Seeks says, or   *)
(* of a second one, on variables of its own, whose consumers also seek     *)
(* back to records that compaction may have removed.                       *)
(***************************************************************************)
EXTENDS Topic, TLC

VARIABLES
  mode,  \* which of the two: "topic" or "any"
  up2, file2, offsets2, seg2, list2, tail2, next2, stats2, cons2, active2, held2, acked2, seen2

vars2 == <<up2, file2, offsets2, seg2, list2, tail2, next2, stats2, cons2, active2, held2, acked2, seen2>>
allVars == <<mode, vars, vars2>>

Seeking == INSTANCE Topic WITH
  Seeks <- "any", up <- up2, file <- file2, offsets <- offsets2, seg <- seg2, list <- list2, tail <- tail2,
  next <- next2, stats <- stats2, cons <- cons2, active <- active2, held <- held2, acked <- acked2, seen <- seen2

Step(action) == mode = "topic" /\ action /\ UNCHANGED <<mode, vars2>>

MCInit == Init /\ Seeking!Init /\ mode \in {"topic", "any"}
MCNext == Step(Next) \/ (mode = "any" /\ Seeking!Next /\ UNCHANGED <<mode, vars>>)
MCSpec == MCInit /\ [][MCNext]_allVars

(* FairSpec of the first Topic. *)
DeliveryInit == MCInit /\ mode = "topic"
DeliveryNext == Step(Next)
DeliverySpec ==
  /\ DeliveryInit /\ [][DeliveryNext]_allVars
  /\ \A n \in Name : WF_allVars(Step(Read(n)))
  /\ <>[][\A n \in Name : ~Reset(n)]_allVars

Symmetry == Permutations(Name)
---------------------------------------------------------------------------
(* Also with consumers that seek anywhere, and whose reads then fail or    *)
(* panic, append never loses what it acknowledged to a process crash, and  *)
(* TopicStats stays what open() would compute.                             *)
SeeksHarmless == Seeking!AckedSurvive /\ Seeking!StatsExact
=============================================================================
