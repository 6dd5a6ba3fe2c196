------------------------- MODULE MCBrokerConnectionManager -------------------------
(* Two brokers: one with three connections, so that a superseded connection  *)
(* can be superseded again, and one with two, to see that the brokers do not *)
(* disturb each other.                                                       *)
EXTENDS BrokerConnectionManager

CONSTANTS b1, b2, c1, c2, c3, c4, c5

MCBrokers == {b1, b2}
MCConnectionIds == {c1, c2, c3, c4, c5}
MCBrokerOf == [c \in MCConnectionIds |-> IF c \in {c1, c2, c3} THEN b1 ELSE b2]
=============================================================================
