------------------------------ MODULE MCH264Decode ------------------------------
(***************************************************************************)
(* H264Decode for TLC: every frame of up to eight bytes 0 and 1, followed  *)
(* by every continuation.                                                  *)
(***************************************************************************)
EXTENDS H264Decode

MCBytes == {0, 1}
===============================================================================
