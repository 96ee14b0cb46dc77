--------------------------- MODULE MCControlSession ---------------------------
(* Instances of ControlSession for TLC: model values. *)
EXTENDS ControlSession

CONSTANTS q1, q2, q3, other

MCQueues == {q1, q2, q3}
MCOthers == {other}
AllOutcomes == Outcomes
===============================================================================
