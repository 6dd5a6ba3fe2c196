----------------------------- MODULE MCRemoteDelivery -----------------------------
(* One agreement and one connection, whose replay may come after the push:   *)
(* the command arrives twice and is acknowledged twice.                      *)
EXTENDS RemoteDelivery

CONSTANTS a1, b1, c1
=============================================================================
