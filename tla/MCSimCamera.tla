------------------------------- MODULE MCSimCamera -------------------------------
(***************************************************************************)
(* SimCamera for TLC: with five threads, both streams can be started and   *)
(* one of them once more; with two frames in a file, the video comes to    *)
(* its end and the audio has something behind its first frame.             *)
(***************************************************************************)
EXTENDS SimCamera
===============================================================================
