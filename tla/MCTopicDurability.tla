------------------------- MODULE MCTopicDurability -------------------------
(***************************************************************************)
(* TopicDurability for TLC, with one consumer and records that fill a      *)
(* segment, so that the second append rotates.                             *)
(***************************************************************************)
EXTENDS TopicDurability
=============================================================================
