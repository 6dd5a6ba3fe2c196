---------------------------------- MODULE MCHub ----------------------------------
(* One broker with two connections: every interaction of the Hub is between  *)
(* connections and commands of the same broker.  The message d1 is of        *)
(* another type; its row competes for the Retries of the replays.            *)
EXTENDS Hub, TLC

CONSTANTS b1, c1, c2, d1, m1, m2, k1, k2

MCBrokers == {b1}
TwoConnections == {c1, c2}
MCBrokerOf == [c \in ConnectionIds |-> b1]
OneCommand == {m1}
TwoCommands == {m1, m2}
MCMessages == Commands \cup {d1}
MCCorrelations == {k1, k2}
MCCorrelationOf == [m \in Messages |-> IF m = m2 THEN k2 ELSE k1]
MCBrokerIdOf == [m \in Messages |-> b1]

Symmetry == Permutations(ConnectionIds)
=============================================================================
