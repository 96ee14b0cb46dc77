---------------------------- MODULE MCInstanceLife ----------------------------
(***************************************************************************)
(* InstanceLife for TLC: the topic of the sessions and one other.          *)
(***************************************************************************)
EXTENDS InstanceLife

MCTopics == {"pushLive", "other"}
MCLive == "pushLive"
================================================================================
