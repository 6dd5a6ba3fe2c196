-------------------------- MODULE BrokerConnectionManager --------------------------
(***************************************************************************)
(* The registry of SignalR connections that the Hub process keeps          *)
(* (Hub/Managers/BrokerConnectionManager.cs).  It is one static list; each *)
(* operation holds the lock of that list from its first to its last line,  *)
(* so each operation is one action here.                                   *)
(*                                                                         *)
(* A broker may own several entries, because SignalR may tell the Hub that *)
(* the new connection of a broker is up long before it notices that the    *)
(* old one is dead.  AddConnection marks the older entries of the broker   *)
(* Expired; ActiveBrokerTokenIsDueToExpire looks for the one which is not. *)
(*                                                                         *)
(* The list is modelled as a set: no operation depends on its order as     *)
(* long as a connection is listed once (NoDuplicateEntries) and a broker   *)
(* has one active entry (AtMostOneActive).  The time at which a token      *)
(* expires is left out here; TokenRefresh adds it to the entries.          *)
(***************************************************************************)
EXTENDS Integers, FiniteSets

CONSTANTS
    Brokers,          \* the brokers, by the BrokerId claim of their token
    ConnectionIds,    \* the SignalR connection ids
    BrokerOf,         \* the broker whose token opened a connection
    NoConnection      \* sentinel: no connection of the broker yet

ASSUME BrokerOfAssumption == BrokerOf \in [ConnectionIds -> Brokers]
ASSUME NoConnectionAssumption == NoConnection \notin ConnectionIds

VARIABLES
    brokerConnections,  \* the static list BrokerConnections
    newest              \* history: the connection of a broker last added to it

registryVars == <<brokerConnections, newest>>

BrokerConnection == [ConnectionId : ConnectionIds, BrokerId : Brokers, Expired : BOOLEAN]

TypeOK ==
    /\ brokerConnections \subseteq BrokerConnection
    /\ newest \in [Brokers -> ConnectionIds \cup {NoConnection}]

---------------------------------------------------------------------------
(* Helpers.                                                                *)

Listed(c) == \E e \in brokerConnections : e.ConnectionId = c

IsBrokerConnected(b) == \E e \in brokerConnections : e.BrokerId = b

\* The entries among which the First of line 88 chooses.  It throws on none.
ActiveEntries(b) == {e \in brokerConnections : e.BrokerId = b /\ ~e.Expired}

\* Mutant: the older entries of the broker are not marked.
ExpireForgotten(b) == brokerConnections

\* The list after every entry of broker b was marked.
ExpireSuperceededConnections(b) ==
    {[e EXCEPT !.Expired = (e.Expired \/ e.BrokerId = b)] : e \in brokerConnections}

---------------------------------------------------------------------------
(* The operations.                                                         *)

\* The static constructor; also the state after the Hub process restarted.
RegistryInit ==
    /\ brokerConnections = {}
    /\ newest = [b \in Brokers |-> NoConnection]

\* Mutant: the duplicate check of line 43 is left out.
AddConnectionUnchecked(c, b) ==
    /\ brokerConnections' =
            ExpireSuperceededConnections(b)
                \cup {[ConnectionId |-> c, BrokerId |-> b, Expired |-> FALSE]}
    /\ newest' = [newest EXCEPT ![b] = c]

\* Mutant: the initializer leaves BrokerId out, so that it keeps an int's default.
AddConnectionNoBroker(c, b) ==
    /\ ~Listed(c)
    /\ brokerConnections' =
            ExpireSuperceededConnections(b)
                \cup {[ConnectionId |-> c, BrokerId |-> 0, Expired |-> FALSE]}
    /\ newest' = [newest EXCEPT ![b] = c]

\* Mutant: the new entry is marked instead of the older ones.
AddConnectionKeepsOld(c, b) ==
    /\ ~Listed(c)
    /\ brokerConnections' =
            brokerConnections \cup
                {[ConnectionId |-> c, BrokerId |-> b, Expired |-> IsBrokerConnected(b)]}
    /\ newest' = [newest EXCEPT ![b] = c]

AddConnection(c, b) ==
    IF Listed(c)
    THEN UNCHANGED registryVars
    ELSE /\ brokerConnections' =
                ExpireSuperceededConnections(b)
                    \cup {[ConnectionId |-> c, BrokerId |-> b, Expired |-> FALSE]}
         /\ newest' = [newest EXCEPT ![b] = c]

RemoveConnection(c) ==
    /\ brokerConnections' = {e \in brokerConnections : e.ConnectionId # c}
    /\ UNCHANGED newest

ClearBrokerConnections ==
    /\ brokerConnections' = {}
    /\ newest' = [b \in Brokers |-> NoConnection]

Init == RegistryInit

Next ==
    \/ \E c \in ConnectionIds : AddConnection(c, BrokerOf[c])
    \/ \E c \in ConnectionIds : RemoveConnection(c)
    \/ ClearBrokerConnections

Spec == Init /\ [][Next]_registryVars

---------------------------------------------------------------------------
(* Properties.                                                             *)

\* A connection is listed once, under the broker of its token.  RemoveConnection
\* removes only the First match: a second entry would outlive the connection
\* and keep IsBrokerConnected true for a broker who has left.
NoDuplicateEntries ==
    /\ \A e \in brokerConnections : e.BrokerId = BrokerOf[e.ConnectionId]
    /\ \A e, f \in brokerConnections : e.ConnectionId = f.ConnectionId => e = f

\* However connects and disconnects of a broker's connections interleave, at
\* most one entry of it is not Expired: the First of
\* ActiveBrokerTokenIsDueToExpire has no choice, so list order is immaterial.
AtMostOneActive ==
    \A b \in Brokers : \A e, f \in ActiveEntries(b) : e = f

\* The token that decides whether the handler must wait for a refresh is that
\* of the connection most recently added, exactly as long as it is listed.  So
\* the lookup of a listed broker fails, with only superseded entries left, in
\* one situation alone: its newest connection left before the older ones.
ActiveIsNewest ==
    \A b \in Brokers :
        ActiveEntries(b) =
            {e \in brokerConnections : e.BrokerId = b /\ e.ConnectionId = newest[b]}

\* No operation turns a superseded entry back into the active one, so a late
\* OnReconnected of an old connection cannot take the broker over from the
\* connection that replaced it.
SupersededStaysSuperseded ==
    [][\A e \in brokerConnections :
            e.Expired => \A f \in brokerConnections' :
                            f.ConnectionId = e.ConnectionId => f.Expired]_registryVars
=============================================================================
