------------------------------ MODULE MCMqttInstance ------------------------------
(***************************************************************************)
(* MqttInstance for TLC.  PingAt is 2 in place of 11: what matters is that *)
(* some passes end in a ping and some do not.                              *)
(***************************************************************************)
EXTENDS MqttInstance
===================================================================================
