-------------------------- MODULE MCTopicThreads ---------------------------
(* TopicThreads for TLC. *)
EXTENDS TopicThreads
=============================================================================
