----------------------------- MODULE ActorProxyMC -----------------------------
(* Constants of ActorProxy for TLC. *)
EXTENDS ActorProxy

CONSTANTS c1, c2

TwoClients == {c1, c2}
================================================================================
