------------------------------ MODULE HubConnection ------------------------------
(***************************************************************************)
(* The connection of the remote endpoint to the Hub, as HubConnectionMana- *)
(* ger opens, loses, refreshes and reopens it.                             *)
(*                                                                         *)
(* Three kinds of threads call Start: the service host once, the timer of  *)
(* every Closed event, and the handler of acknowledgements when the access *)
(* token is about to expire.  Start holds startLock to its end; Stop and   *)
(* the callbacks of SignalR do not take it, and they act on whatever       *)
(* connection the field hubConnection refers to when they run.             *)
(*                                                                         *)
(* Each successful GetToken creates a new HubConnection, so a connection   *)
(* is identified by its number and the field refers to the last one.  As   *)
(* the SignalR client does, a connection raises Closed once, when it is    *)
(* stopped, fails to connect, or gives up reconnecting.                    *)
(***************************************************************************)
EXTENDS Naturals, FiniteSets

CONSTANTS
    MaxTroubles,        \* bound: errors, slow or failed connections
    MaxLosses,          \* bound: transports that SignalR tries to reconnect
    MaxRefreshes,       \* bound: refreshes of the access token
    MaxTokenFailures    \* bound: requests the identity provider does not answer

ASSUME ConnectionBoundAssumption ==
    /\ MaxTroubles \in Nat /\ MaxLosses \in Nat
    /\ MaxRefreshes \in Nat /\ MaxTokenFailures \in Nat

\* A new connection needs the previous one disturbed, so these are enough.
Connections == 1 .. 1 + MaxTroubles + MaxLosses + MaxRefreshes

Callers == {"host", "timer", "handler"}

VARIABLES
    state,          \* the State of each HubConnection
    hubConnection,  \* the field: the last connection created, 0 for null
    timers,         \* restarts scheduled by Closed events
    waiting,        \* threads at startLock, by caller
    holder,         \* who holds startLock
    startPc,        \* where the holder is
    troubles, losses, refreshes, tokenFailures      \* count against the bounds

lockVars == <<waiting, holder, startPc>>
boundVars == <<troubles, losses, refreshes, tokenFailures>>
vars == <<state, hubConnection, timers, lockVars, boundVars>>

TypeOK ==
    /\ state \in [Connections ->
            {"unused", "connecting", "connected", "reconnecting", "disconnected"}]
    /\ hubConnection \in Connections \cup {0}
    /\ timers \in Nat
    /\ waiting \in [Callers -> Nat]
    /\ holder \in Callers \cup {"none"}
    /\ startPc \in {"free", "token", "connect"}
    /\ startPc = "free" <=> holder = "none"
    /\ troubles \in 0 .. MaxTroubles
    /\ losses \in 0 .. MaxLosses
    /\ refreshes \in 0 .. MaxRefreshes
    /\ tokenFailures \in 0 .. MaxTokenFailures

\* ServiceHost.Start: the bus runs, and the host is about to call Start.
Init ==
    /\ state = [c \in Connections |-> "unused"]
    /\ hubConnection = 0
    /\ timers = 0
    /\ waiting = [t \in Callers |-> IF t = "host" THEN 1 ELSE 0]
    /\ holder = "none"
    /\ startPc = "free"
    /\ troubles = 0
    /\ losses = 0
    /\ refreshes = 0
    /\ tokenFailures = 0

Live(c) == state[c] \in {"connecting", "connected", "reconnecting"}

Connected(c) == state[c] = "connected"

HubConnectionIsAlreadyConnected == hubConnection # 0 /\ Connected(hubConnection)

\* Mutant: Closed does not schedule a restart.
CloseQuietly(c) ==
    /\ state' = [state EXCEPT ![c] = "disconnected"]
    /\ UNCHANGED timers

\* The connection is closed and HubConnectionOnClosed schedules a restart.
Close(c) ==
    /\ state' = [state EXCEPT ![c] = "disconnected"]
    /\ timers' = timers + 1

\* hubConnection.Stop() on the connection the field refers to, if it is live.
StopField ==
    IF hubConnection # 0 /\ Live(hubConnection)
    THEN Close(hubConnection)
    ELSE UNCHANGED <<state, timers>>

---------------------------------------------------------------------------
(* Start.                                                                  *)

\* The 30 seconds of a scheduled restart are over.
TimerElapses ==
    /\ timers > 0
    /\ timers' = timers - 1
    /\ waiting' = [waiting EXCEPT !["timer"] = @ + 1]
    /\ UNCHANGED <<state, hubConnection, holder, startPc, boundVars>>

\* Mutant: Start goes on with a connection that is already there.
EnterStartUnchecked(t) ==
    /\ waiting[t] > 0
    /\ holder = "none"
    /\ waiting' = [waiting EXCEPT ![t] = @ - 1]
    /\ holder' = t
    /\ startPc' = "token"
    /\ UNCHANGED <<state, hubConnection, timers, boundVars>>

\* A thread enters Start; it leaves at once if the field is connected.
EnterStart(t) ==
    /\ waiting[t] > 0
    /\ holder = "none"
    /\ waiting' = [waiting EXCEPT ![t] = @ - 1]
    /\ IF HubConnectionIsAlreadyConnected
       THEN UNCHANGED <<holder, startPc>>
       ELSE holder' = t /\ startPc' = "token"
    /\ UNCHANGED <<state, hubConnection, timers, boundVars>>

\* Mutant: startLock is not released.
LeaveStartHoldingLock ==
    /\ startPc' = "free"
    /\ UNCHANGED <<holder, waiting>>

LeaveStart ==
    /\ holder' = "none"
    /\ startPc' = "free"
    /\ UNCHANGED waiting

\* The identity provider fails.  Start logs the exception and returns false;
\* there is no connection, and nobody will raise Closed.
GetTokenFails ==
    /\ startPc = "token"
    /\ tokenFailures < MaxTokenFailures
    /\ tokenFailures' = tokenFailures + 1
    /\ LeaveStart
    /\ UNCHANGED <<state, hubConnection, timers, troubles, losses, refreshes>>

\* With a token a new connection replaces the field and begins to connect.
GetToken ==
    /\ startPc = "token"
    /\ hubConnection + 1 \in Connections
    /\ hubConnection' = hubConnection + 1
    /\ state' = [state EXCEPT ![hubConnection + 1] = "connecting"]
    /\ startPc' = "connect"
    /\ UNCHANGED <<timers, waiting, holder, boundVars>>

ConnectSucceeds ==
    /\ startPc = "connect"
    /\ state[hubConnection] = "connecting"
    /\ state' = [state EXCEPT ![hubConnection] = "connected"]
    /\ LeaveStart
    /\ UNCHANGED <<hubConnection, timers, boundVars>>

\* hubConnection.Start().Wait() throws; the connection raises Closed.
ConnectFails ==
    /\ startPc = "connect"
    /\ state[hubConnection] = "connecting"
    /\ troubles < MaxTroubles
    /\ troubles' = troubles + 1
    /\ Close(hubConnection)
    /\ LeaveStart
    /\ UNCHANGED <<hubConnection, losses, refreshes, tokenFailures>>

\* The connection was stopped by another thread while it was connecting.
ConnectInterrupted ==
    /\ startPc = "connect"
    /\ state[hubConnection] = "disconnected"
    /\ LeaveStart
    /\ UNCHANGED <<state, hubConnection, timers, boundVars>>

---------------------------------------------------------------------------
(* The refresh of the token, and the events of a connection.               *)

\* Mutant: the connection is stopped without raising Closed, and not started again.
RefreshWithoutStart ==
    /\ waiting["handler"] = 0
    /\ holder # "handler"
    /\ refreshes < MaxRefreshes
    /\ refreshes' = refreshes + 1
    /\ state' = [c \in Connections |-> IF c = hubConnection /\ Live(c)
                                       THEN "disconnected" ELSE state[c]]
    /\ UNCHANGED <<hubConnection, timers, lockVars, troubles, losses, tokenFailures>>

\* SendAcknowledgmentCommandHandler: Stop, then Start.  The handler runs with
\* concurrency 1, so its last call of Start is over.
Refresh ==
    /\ waiting["handler"] = 0
    /\ holder # "handler"
    /\ refreshes < MaxRefreshes
    /\ refreshes' = refreshes + 1
    /\ StopField
    /\ waiting' = [waiting EXCEPT !["handler"] = @ + 1]
    /\ UNCHANGED <<hubConnection, holder, startPc, troubles, losses, tokenFailures>>

\* HubConnectionOnError and HubConnectionSlow of connection c stop the
\* connection of the field, which need not be c.
Trouble(c) ==
    /\ Live(c)
    /\ troubles < MaxTroubles
    /\ troubles' = troubles + 1
    /\ StopField
    /\ UNCHANGED <<hubConnection, lockVars, losses, refreshes, tokenFailures>>

\* The transport is lost and SignalR tries to reconnect it by itself.
LoseTransport(c) ==
    /\ Connected(c)
    /\ losses < MaxLosses
    /\ losses' = losses + 1
    /\ state' = [state EXCEPT ![c] = "reconnecting"]
    /\ UNCHANGED <<hubConnection, timers, lockVars, troubles, refreshes, tokenFailures>>

Reconnected(c) ==
    /\ state[c] = "reconnecting"
    /\ state' = [state EXCEPT ![c] = "connected"]
    /\ UNCHANGED <<hubConnection, timers, lockVars, boundVars>>

\* SignalR gives up after the disconnect timeout.
ReconnectTimesOut(c) ==
    /\ state[c] = "reconnecting"
    /\ Close(c)
    /\ UNCHANGED <<hubConnection, lockVars, boundVars>>

StartSteps ==
    \/ \E t \in Callers : EnterStart(t)
    \/ GetToken \/ GetTokenFails
    \/ ConnectSucceeds \/ ConnectFails \/ ConnectInterrupted

Next ==
    \/ TimerElapses
    \/ StartSteps
    \/ Refresh
    \/ \E c \in Connections :
            Trouble(c) \/ LoseTransport(c) \/ Reconnected(c) \/ ReconnectTimesOut(c)

\* A thread at startLock or inside Start goes on, a timer elapses, and SignalR
\* ends an attempt to reconnect.
Fairness ==
    /\ WF_vars(StartSteps)
    /\ WF_vars(TimerElapses)
    /\ WF_vars(\E c \in Connections : Reconnected(c) \/ ReconnectTimesOut(c))

Spec == Init /\ [][Next]_vars
FairSpec == Spec /\ Fairness

---------------------------------------------------------------------------
(* Properties.                                                             *)

\* README.md:9, "guaranteed single connection at any point in time (which
\* avoids duplicate message delivery)": no two connections are connected, so
\* the Hub has not two to which it would push the same command.
SingleConnection == Cardinality({c \in Connections : Connected(c)}) <= 1

\* The connections that the field does not refer to are down.
OthersAreDown == \A c \in Connections : Live(c) => c = hubConnection

\* As long as SignalR did not have to reconnect a transport, a connection that
\* the field no longer refers to is closed, whatever errors, failed connects,
\* failed tokens and refreshes crossed: no Stop could reach it any more.
OnlyFieldIsLive == losses = 0 => OthersAreDown

\* There is a live connection, or a thread in Start, at its lock, or a timer
\* that will bring one there.
Attended ==
    \/ hubConnection # 0 /\ Live(hubConnection)
    \/ timers > 0
    \/ holder # "none"
    \/ \E t \in Callers : waiting[t] > 0

\* Whatever the order of errors, timers, refreshes and failed connects: as long
\* as every request for a token was granted, the endpoint is not left without
\* a connection and without anybody who will open one.
NeverStranded == tokenFailures = 0 => Attended

\* README.md:9, "Robust management of Client Hub connection including
\* reconnection retry": when the disturbances end, the endpoint is connected
\* and remains so.
EventuallyConnected == <>[]HubConnectionIsAlreadyConnected

\* It is, if the identity provider never failed to grant a token: errors, lost
\* transports and refreshes alone do not keep the endpoint away.
ReconnectsIfTokensGranted == [](tokenFailures = 0) => EventuallyConnected
=============================================================================
