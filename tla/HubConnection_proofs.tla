-------------------------- MODULE HubConnection_proofs --------------------------
(***************************************************************************)
(* Safety of the connection manager for any number of disturbances.        *)
(*                                                                         *)
(* Two results.  As long as the identity provider grants every token, the  *)
(* endpoint is not stranded.  As long as SignalR does not have to          *)
(* reconnect a transport, only the connection of the field is live, and    *)
(* so there is a single connection.                                        *)
(***************************************************************************)
EXTENDS HubConnection, FiniteSetTheorems, TLAPS

\* The types of all the variables are kept by every step.
THEOREM Typed == Spec => []TypeOK
<1>1. Init => TypeOK
  BY ConnectionBoundAssumption DEF Init, TypeOK, Callers, Connections
<1>2. TypeOK /\ [Next]_vars => TypeOK'
  <2> SUFFICES ASSUME TypeOK, [Next]_vars
               PROVE  TypeOK'
    OBVIOUS
  <2> USE ConnectionBoundAssumption DEF TypeOK
  <2>1. CASE TimerElapses
    BY <2>1 DEF TimerElapses, Callers, boundVars
  <2>2. ASSUME NEW t \in Callers, EnterStart(t)
        PROVE  TypeOK'
    BY <2>2 DEF EnterStart, Callers, boundVars
  <2>3. CASE GetToken
    BY <2>3 DEF GetToken, boundVars
  <2>4. CASE GetTokenFails
    BY <2>4 DEF GetTokenFails, LeaveStart
  <2>5. CASE ConnectSucceeds
    BY <2>5 DEF ConnectSucceeds, LeaveStart, boundVars
  <2>6. CASE ConnectFails
    <3>1. state' = [state EXCEPT ![hubConnection] = "disconnected"] /\ timers' = timers + 1
      BY <2>6 DEF ConnectFails, Close
    <3>2. /\ holder' = "none" /\ startPc' = "free" /\ troubles' = troubles + 1
          /\ troubles < MaxTroubles
          /\ UNCHANGED <<hubConnection, waiting, losses, refreshes, tokenFailures>>
      BY <2>6 DEF ConnectFails, LeaveStart
    <3>3. state' \in [Connections ->
                    {"unused", "connecting", "connected", "reconnecting", "disconnected"}]
      BY <3>1, Zenon
    <3>4. timers' \in Nat
      BY <3>1
    <3>5. troubles' \in 0 .. MaxTroubles
      BY <3>2
    <3>6. startPc' = "free" <=> holder' = "none"
      BY <3>2
    <3>7. startPc' \in {"free", "token", "connect"} /\ holder' \in Callers \cup {"none"}
      BY <3>2
    <3> QED
      BY <3>2, <3>3, <3>4, <3>5, <3>6, <3>7
  <2>7. CASE ConnectInterrupted
    BY <2>7 DEF ConnectInterrupted, LeaveStart, boundVars
  <2>8. CASE Refresh
    BY <2>8 DEF Refresh, StopField, Close, Callers
  <2>9. ASSUME NEW c \in Connections, Trouble(c)
        PROVE  TypeOK'
    BY <2>9 DEF Trouble, StopField, Close, lockVars
  <2>10. ASSUME NEW c \in Connections, LoseTransport(c)
         PROVE  TypeOK'
    BY <2>10 DEF LoseTransport, lockVars
  <2>11. ASSUME NEW c \in Connections, Reconnected(c)
         PROVE  TypeOK'
    BY <2>11 DEF Reconnected, lockVars, boundVars
  <2>12. ASSUME NEW c \in Connections, ReconnectTimesOut(c)
         PROVE  TypeOK'
    BY <2>12 DEF ReconnectTimesOut, Close, lockVars, boundVars
  <2>13. CASE UNCHANGED vars
    BY <2>13 DEF vars, lockVars, boundVars
  <2> QED
    BY <2>1, <2>2, <2>3, <2>4, <2>5, <2>6, <2>7, <2>8, <2>9, <2>10, <2>11, <2>12, <2>13
       DEF Next, StartSteps
<1> QED
  BY <1>1, <1>2, PTL DEF Spec

\* The counts of disturbances only grow.
LEMMA CountsGrow ==
    ASSUME TypeOK, [Next]_vars
    PROVE  /\ tokenFailures' = 0 => tokenFailures = 0
           /\ losses' = 0 => losses = 0
BY DEF TypeOK, Next, StartSteps, vars, lockVars, boundVars, TimerElapses, EnterStart, GetToken,
       GetTokenFails, ConnectSucceeds, ConnectFails, ConnectInterrupted, Refresh, Trouble,
       LoseTransport, Reconnected, ReconnectTimesOut

---------------------------------------------------------------------------
(* Never stranded.                                                         *)

\* A thread or a timer that will try to start a connection.
RestartComing == timers > 0 \/ \E t \in Callers : waiting[t] > 0

\* Attended is not inductive: when Start comes back from a connection that
\* another thread stopped meanwhile, the restart which that stop scheduled must
\* not be used up yet.  It is not, because startLock is still held.
StopsAreAnswered ==
    startPc = "connect" /\ state[hubConnection] = "disconnected" => RestartComing

\* There is a connection to come back from.
FieldIsSet == startPc = "connect" => hubConnection # 0

StrandedInv == Attended /\ StopsAreAnswered /\ FieldIsSet

\* The timer of a Closed event is a restart to come.
LEMMA TimerIsRestart ==
    ASSUME TypeOK, FieldIsSet, timers' = timers + 1, UNCHANGED <<hubConnection, startPc>>
    PROVE  StrandedInv'
BY DEF TypeOK, StrandedInv, Attended, StopsAreAnswered, RestartComing, FieldIsSet

\* Stop either schedules a restart or leaves the connections as they are.
LEMMA StopFieldCases ==
    StopField => timers' = timers + 1 \/ UNCHANGED <<state, timers>>
BY DEF StopField, Close

LEMMA StrandedStep ==
    ASSUME tokenFailures' = 0, TypeOK, StrandedInv, [Next]_vars
    PROVE  StrandedInv'
<1> USE DEF StrandedInv, Attended, StopsAreAnswered, RestartComing, FieldIsSet
<1>1. CASE TimerElapses
  <2>1. waiting'["timer"] > 0
    BY <1>1 DEF TimerElapses, TypeOK, Callers
  <2> QED
    BY <1>1, <2>1 DEF TimerElapses, Callers
<1>2. ASSUME NEW t \in Callers, EnterStart(t)
      PROVE  StrandedInv'
  <2>1. CASE HubConnectionIsAlreadyConnected
    BY <1>2, <2>1 DEF EnterStart, HubConnectionIsAlreadyConnected, Connected, Live, TypeOK
  <2>2. CASE ~HubConnectionIsAlreadyConnected
    BY <1>2, <2>2 DEF EnterStart, Callers
  <2> QED
    BY <2>1, <2>2
<1>3. CASE GetToken
  <2>1. /\ hubConnection' = hubConnection + 1
        /\ hubConnection' \in Connections
        /\ state' = [state EXCEPT ![hubConnection'] = "connecting"]
    BY <1>3 DEF GetToken
  <2>2. state'[hubConnection'] = "connecting" /\ hubConnection' # 0
    BY <2>1, ConnectionBoundAssumption DEF TypeOK, Connections
  <2> QED
    BY <2>2 DEF Live
<1>4. CASE GetTokenFails
  BY <1>4 DEF GetTokenFails, TypeOK
<1>5. CASE ConnectSucceeds
  <2>1. hubConnection \in Connections /\ hubConnection # 0
    BY <1>5 DEF ConnectSucceeds, TypeOK
  <2>2. state'[hubConnection] = "connected"
    BY <1>5, <2>1 DEF ConnectSucceeds, TypeOK
  <2> QED
    BY <1>5, <2>1, <2>2 DEF ConnectSucceeds, LeaveStart, Live
<1>6. CASE ConnectFails
  BY <1>6 DEF ConnectFails, LeaveStart, Close, TypeOK
<1>7. CASE ConnectInterrupted
  BY <1>7 DEF ConnectInterrupted, LeaveStart
<1>8. CASE Refresh
  <2>1. waiting'["handler"] > 0
    BY <1>8 DEF Refresh, TypeOK, Callers
  <2> QED
    BY <1>8, <2>1 DEF Refresh, Callers
<1>9. ASSUME NEW c \in Connections, Trouble(c)
      PROVE  StrandedInv'
  <2>1. UNCHANGED <<hubConnection, waiting, holder, startPc>> /\ StopField
    BY <1>9 DEF Trouble, lockVars
  <2>2. CASE timers' = timers + 1
    BY <2>1, <2>2, TimerIsRestart
  <2>3. CASE UNCHANGED <<state, timers>>
    BY <2>1, <2>3 DEF Live
  <2> QED
    BY <2>1, <2>2, <2>3, StopFieldCases
<1>10. ASSUME NEW c \in Connections, LoseTransport(c) \/ Reconnected(c)
       PROVE  StrandedInv'
  <2>1. /\ UNCHANGED <<hubConnection, timers, waiting, holder, startPc>>
        /\ \A d \in Connections : Live(d) => Live(d)'
        /\ \A d \in Connections : state'[d] = "disconnected" => state[d] = "disconnected"
    BY <1>10 DEF LoseTransport, Reconnected, lockVars, Live, Connected, TypeOK
  <2>2. hubConnection # 0 => hubConnection \in Connections
    BY DEF TypeOK
  <2> QED
    BY <2>1, <2>2
<1>11. ASSUME NEW c \in Connections, ReconnectTimesOut(c)
       PROVE  StrandedInv'
  BY <1>11, TimerIsRestart DEF ReconnectTimesOut, Close, lockVars
<1>12. CASE UNCHANGED vars
  BY <1>12 DEF vars, lockVars, Live
<1> QED
  BY <1>1, <1>2, <1>3, <1>4, <1>5, <1>6, <1>7, <1>8, <1>9, <1>10, <1>11, <1>12
     DEF Next, StartSteps

\* For any number of errors, lost transports and refreshes: as long as every
\* token was granted, the endpoint has a live connection, a thread in Start or
\* at its lock, or a scheduled restart.
THEOREM AlwaysRestarted == Spec => []NeverStranded
<1> DEFINE Inv == tokenFailures = 0 => StrandedInv
<1>1. Init => Inv
  BY DEF Init, StrandedInv, Attended, StopsAreAnswered, FieldIsSet, Callers
<1>2. TypeOK /\ Inv /\ [Next]_vars => Inv'
  BY StrandedStep, CountsGrow
<1>3. Inv => NeverStranded
  BY DEF StrandedInv, NeverStranded
<1> QED
  BY <1>1, <1>2, <1>3, Typed, PTL DEF Spec

---------------------------------------------------------------------------
(* A single connection.                                                    *)

\* Without reconnecting transports a connection is live only as long as the
\* field refers to it: Start replaces the field only when its connection is down
\* (FieldIsDown), which startLock keeps true until it does, and it alone makes
\* a connection connect (ConnectingInStart).
NoneReconnects == \A c \in Connections : state[c] # "reconnecting"

ConnectingInStart ==
    \A c \in Connections : state[c] = "connecting" => startPc = "connect"

FieldIsDown ==
    startPc = "token" => \A c \in Connections : c = hubConnection => ~Live(c)

FieldInv == NoneReconnects /\ ConnectingInStart /\ FieldIsDown /\ OthersAreDown

\* Closing a connection, or closing none, makes none live.
LEMMA ClosedStep ==
    ASSUME TypeOK, FieldInv, NEW S \in SUBSET Connections,
           state' = [d \in Connections |-> IF d \in S THEN "disconnected" ELSE state[d]],
           UNCHANGED <<hubConnection, startPc>>
    PROVE  FieldInv'
BY DEF FieldInv, NoneReconnects, ConnectingInStart, FieldIsDown, OthersAreDown, Live

LEMMA StopFieldCloses ==
    ASSUME TypeOK, StopField
    PROVE  \E S \in SUBSET Connections :
              state' = [d \in Connections |-> IF d \in S THEN "disconnected" ELSE state[d]]
<1>1. CASE UNCHANGED state
  <2>1. state' = [d \in Connections |-> IF d \in {} THEN "disconnected" ELSE state[d]]
    BY <1>1 DEF TypeOK
  <2>2. {} \in SUBSET Connections
    OBVIOUS
  <2> QED
    BY <2>1, <2>2
<1>2. CASE Close(hubConnection)
  <2>1. state' = [d \in Connections |->
                    IF d \in {hubConnection} \cap Connections
                    THEN "disconnected" ELSE state[d]]
    BY <1>2 DEF Close, TypeOK
  <2>2. {hubConnection} \cap Connections \in SUBSET Connections
    OBVIOUS
  <2> QED
    BY <2>1, <2>2
<1> QED
  BY <1>1, <1>2 DEF StopField

LEMMA FieldStep ==
    ASSUME losses' = 0, TypeOK, FieldInv, [Next]_vars
    PROVE  FieldInv'
<1> USE DEF FieldInv, NoneReconnects, ConnectingInStart, FieldIsDown, OthersAreDown, Live
<1>1. CASE TimerElapses
  BY <1>1 DEF TimerElapses
<1>2. ASSUME NEW t \in Callers, EnterStart(t)
      PROVE  FieldInv'
  <2>1. UNCHANGED <<state, hubConnection>> /\ startPc = "free"
    BY <1>2 DEF EnterStart, TypeOK
  <2>2. CASE HubConnectionIsAlreadyConnected
    BY <1>2, <2>1, <2>2 DEF EnterStart
  <2>3. CASE ~HubConnectionIsAlreadyConnected
    <3>1. startPc' = "token"
      BY <1>2, <2>3 DEF EnterStart
    <3>2. \A c \in Connections : c = hubConnection => ~Live(c)
      BY <2>1, <2>3, ConnectionBoundAssumption
         DEF HubConnectionIsAlreadyConnected, Connected, Connections
    <3>3. \A c \in Connections : state[c] # "connecting"
      BY <2>1
    <3> QED
      BY <2>1, <3>1, <3>2, <3>3
  <2> QED
    BY <2>2, <2>3
<1>3. CASE GetToken
  <2>1. \A c \in Connections : ~Live(c)
    BY <1>3 DEF GetToken
  <2>2. /\ state' = [state EXCEPT ![hubConnection'] = "connecting"]
        /\ startPc' = "connect"
    BY <1>3 DEF GetToken
  <2>3. \A c \in Connections : c # hubConnection' => state'[c] = state[c]
    BY <2>2 DEF TypeOK
  <2> QED
    BY <2>1, <2>2, <2>3
<1>4. CASE GetTokenFails
  BY <1>4 DEF GetTokenFails, LeaveStart
<1>5. CASE ConnectSucceeds
  <2>1. /\ state' = [state EXCEPT ![hubConnection] = "connected"]
        /\ startPc' = "free" /\ hubConnection' = hubConnection
    BY <1>5 DEF ConnectSucceeds, LeaveStart
  <2>2. \A c \in Connections : state'[c] = IF c = hubConnection THEN "connected" ELSE state[c]
    BY <2>1 DEF TypeOK
  <2> QED
    BY <2>1, <2>2
<1>6. CASE ConnectFails
  <2>1. /\ state' = [state EXCEPT ![hubConnection] = "disconnected"]
        /\ startPc' = "free" /\ hubConnection' = hubConnection
    BY <1>6 DEF ConnectFails, Close, LeaveStart
  <2>2. \A c \in Connections :
           state'[c] = IF c = hubConnection THEN "disconnected" ELSE state[c]
    BY <2>1 DEF TypeOK
  <2> QED
    BY <2>1, <2>2
<1>7. CASE ConnectInterrupted
  <2>1. \A c \in Connections : state[c] # "connecting"
    BY <1>7 DEF ConnectInterrupted
  <2> QED
    BY <1>7, <2>1 DEF ConnectInterrupted, LeaveStart
<1>8. CASE Refresh
  BY <1>8, StopFieldCloses, ClosedStep DEF Refresh
<1>9. ASSUME NEW c \in Connections, Trouble(c)
      PROVE  FieldInv'
  BY <1>9, StopFieldCloses, ClosedStep DEF Trouble, lockVars
<1>10. ASSUME NEW c \in Connections, LoseTransport(c) \/ Reconnected(c) \/ ReconnectTimesOut(c)
       PROVE  FALSE
  BY <1>10 DEF LoseTransport, Reconnected, ReconnectTimesOut, TypeOK
<1>11. CASE UNCHANGED vars
  BY <1>11 DEF vars, lockVars
<1> QED
  BY <1>1, <1>2, <1>3, <1>4, <1>5, <1>6, <1>7, <1>8, <1>9, <1>10, <1>11 DEF Next, StartSteps

\* For any number of errors, failed connects, failed tokens and refreshes: as
\* long as SignalR did not have to reconnect a transport, no connection outlives
\* its being replaced in the field, and at most one is connected.
THEOREM SingleConnectionWithoutReconnect ==
    Spec => [](OnlyFieldIsLive /\ (losses = 0 => SingleConnection))
<1> DEFINE Inv == losses = 0 => FieldInv
<1>1. Init => Inv
  BY DEF Init, FieldInv, NoneReconnects, ConnectingInStart, FieldIsDown, OthersAreDown, Live
<1>2. TypeOK /\ Inv /\ [Next]_vars => Inv'
  BY FieldStep, CountsGrow
<1>3. FieldInv => OthersAreDown /\ SingleConnection
  <2> SUFFICES ASSUME FieldInv
               PROVE  OthersAreDown /\ SingleConnection
    OBVIOUS
  <2> DEFINE C == {c \in Connections : Connected(c)}
  <2>1. C \subseteq {hubConnection}
    BY DEF FieldInv, OthersAreDown, Live, Connected
  <2>2. IsFiniteSet({hubConnection}) /\ Cardinality({hubConnection}) = 1
    BY FS_Singleton
  <2>3. Cardinality(C) <= 1
    BY <2>1, <2>2, FS_Subset
  <2> QED
    BY <2>3 DEF FieldInv, SingleConnection
<1>4. Inv => OnlyFieldIsLive /\ (losses = 0 => SingleConnection)
  BY <1>3 DEF OnlyFieldIsLive
<1> QED
  BY <1>1, <1>2, <1>4, Typed, PTL DEF Spec
=============================================================================
