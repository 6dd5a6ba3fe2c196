------------------------------ MODULE MCTokenRefresh ------------------------------
(* One broker and three connections: a refresh while an older connection is  *)
(* still listed, and a third after a restart of the endpoint.                *)
EXTENDS TokenRefresh

CONSTANTS b1, c1, c2, c3

MCBrokers == {b1}
MCConnectionIds == {c1, c2, c3}
MCBrokerOf == [c \in MCConnectionIds |-> b1]
=============================================================================
