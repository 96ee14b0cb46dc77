------------------------------ MODULE MCLogChannel ------------------------------
(***************************************************************************)
(* LogChannel for TLC: two senders, which differ in nothing.               *)
(***************************************************************************)
EXTENDS LogChannel

MCSenders == {"first", "second"}
================================================================================
