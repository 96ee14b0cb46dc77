------------------------------ MODULE MCAdtsDecode ------------------------------
(***************************************************************************)
(* AdtsDecode for TLC, scaled down: lengths of four bits, 0 .. 15, in      *)
(* parts of one, two and one bit, so that 4 .. 7 and 12 .. 15 read as      *)
(* negative; headers of two and three bytes; stray headers that go         *)
(* nowhere, forth, back and beyond the buffer.                             *)
(***************************************************************************)
EXTENDS AdtsDecode

MCHeaderLens == {2, 3}
MCStrayLens == {0, 3, 6, 11}
================================================================================
