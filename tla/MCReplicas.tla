----------------------------- MODULE MCReplicas -----------------------------
(***************************************************************************)
(* Replicas for TLC: a stamp is 3 * time + peer, so that stamps are        *)
(* ordered by time first and by peer second.  Events arrive in any order,  *)
(* up to four of them once, and up to three again and again, with merges   *)
(* of whole cells.  Two peers take part, and three when the cell is a      *)
(* Counter: a merge can lose an addition only between two peers that had   *)
(* different events of a third.                                            *)
(***************************************************************************)
EXTENDS Replicas

MCPeers == 0 .. 2
MCPeerOf(s) == s % 3

Once(n) == [peers |-> 0 .. 1, merging |-> FALSE, again |-> FALSE, events |-> n]
Again(n) == [peers |-> 0 .. 1, merging |-> TRUE, again |-> TRUE, events |-> n]
Three(n) == [Again(n) EXCEPT !.peers = 0 .. 2]

MCNetworks(t) ==
  CASE t = "Counter" -> {Once(4), Again(3), Three(2)}
    [] t \in {"Text", "Record"} -> {Again(3)}
    [] OTHER -> {Once(4), Again(3)}
MCRetyping(t) == {Once(3)}
=============================================================================
