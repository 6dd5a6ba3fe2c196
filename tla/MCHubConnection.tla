---------------------------- MODULE MCHubConnection ----------------------------
(* The constants of HubConnection are bounds and are given in the            *)
(* configurations: enough refreshes and troubles that a second timer and a   *)
(* second refresh meet a restart already under way.                          *)
EXTENDS HubConnection
=============================================================================
