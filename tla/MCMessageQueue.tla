---------------------------- MODULE MCMessageQueue ----------------------------
(* MessageQueue for TLC: model values. *)
EXTENDS MessageQueue

CONSTANTS m1, m2, s1, s2, t1, b1

MCMessages == {m1, m2}
TwoSenders == {s1, s2}
OneTimed == {t1}
OneBlocking == {b1}
OneOfEach == {s1, t1}
===============================================================================
