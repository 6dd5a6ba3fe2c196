-------------------------------- MODULE Hub_proofs --------------------------------
(***************************************************************************)
(* Safety of the Hub for any brokers, connections and commands, and any    *)
(* number of lost pushes, throwing callbacks and restarts.                 *)
(*                                                                         *)
(* Three invariants, each inductive by itself once the types are known.    *)
(* Registered: RegistryMatchesSignalR, with what a callback on its way to  *)
(* the registry finds: SignalR has changed its mind already, and keeps it  *)
(* until that callback is over.  Placed: where a command is, and    *)
(* that it has no row before it left the queue and the audit copy of it    *)
(* arrived, so that writing the row erases no stamp (CompletionIsFinal).   *)
(* Stamped: only commands that were delivered are stamped, or are about to *)
(* be by a completion on the way, and only after an acknowledgement was    *)
(* posted; with Placed this gives UndeliveredIsRecoverable.                *)
(* A fourth, Charged, needs only the types: for ChargedForReplays it       *)
(* counts the updates of the rows against the pushes that paid for them.   *)
(***************************************************************************)
EXTENDS Hub, FiniteSetTheorems, TLAPS

Logged(m) == messageLog[m].Logged
Completed(m) == messageLog[m].Completed

\* The state in which a callback finds SignalR.
Registered ==
    /\ RegistryMatchesSignalR
    /\ \A c \in ConnectionIds :
        /\ connPc[c] \in {"connected", "reconnected"} => signalr[c] = "open"
        /\ connPc[c] = "disconnected" => signalr[c] = "gone"

Placed ==
    /\ \A m \in Commands :
            Logged(m) \/ m \in hubQueue \cup hubErrors \cup auditQueue \cup auditErrors
    /\ \A m \in Commands : Logged(m) => m \notin hubQueue \cup auditQueue
    /\ hubQueue \cap auditQueue = {}
    /\ handlerPc # "idle" => current \in hubQueue

Stamped ==
    /\ \A m \in Commands : Completed(m) => Logged(m) /\ m \in delivered
    /\ \A m \in Commands : CorrelationOf[m] \in completions => m \in delivered
    /\ \A m \in Messages : Completed(m) => CorrelationOf[m] \in acked
    /\ completions \subseteq acked

---------------------------------------------------------------------------
(* What the shared operators do.                                           *)

\* Adding a connection lists it and keeps the others listed.
LEMMA AddLists ==
    ASSUME TypeOK, NEW c \in ConnectionIds, AddConnection(c, BrokerOf[c])
    PROVE  /\ TypeOK'
           /\ \A d \in ConnectionIds : Listed(d)' <=> (Listed(d) \/ d = c)
<1> DEFINE b == BrokerOf[c]
           new == [ConnectionId |-> c, BrokerId |-> b, Expired |-> FALSE]
<1>1. CASE Listed(c)
  BY <1>1 DEF AddConnection, registryVars, TypeOK, Listed
<1>2. CASE ~Listed(c)
  <2>1. /\ brokerConnections' = ExpireSuperceededConnections(b) \cup {new}
        /\ newest' = [newest EXCEPT ![b] = c]
    BY <1>2 DEF AddConnection
  <2>2. b \in Brokers /\ new \in BrokerConnection /\ new.ConnectionId = c
    BY BrokerOfAssumption DEF BrokerConnection
  <2>3. \A e \in ExpireSuperceededConnections(b) :
            /\ e \in BrokerConnection
            /\ \E f \in brokerConnections : f.ConnectionId = e.ConnectionId
    BY DEF ExpireSuperceededConnections, TypeOK, BrokerConnection
  <2>4. \A f \in brokerConnections :
            \E e \in ExpireSuperceededConnections(b) : e.ConnectionId = f.ConnectionId
    <3>1. SUFFICES ASSUME NEW f \in brokerConnections
                   PROVE  \E e \in ExpireSuperceededConnections(b) :
                                e.ConnectionId = f.ConnectionId
      OBVIOUS
    <3> DEFINE e == [f EXCEPT !.Expired = (f.Expired \/ f.BrokerId = b)]
    <3>2. e \in ExpireSuperceededConnections(b)
      BY DEF ExpireSuperceededConnections
    <3>3. e.ConnectionId = f.ConnectionId
      BY DEF TypeOK, BrokerConnection
    <3> QED
      BY <3>2, <3>3
  <2> HIDE DEF b, new
  <2>5. TypeOK'
    <3>1. brokerConnections' \subseteq BrokerConnection
      BY <2>1, <2>2, <2>3
    <3>2. newest' \in [Brokers -> ConnectionIds \cup {NoConnection}]
      BY <2>1 DEF TypeOK
    <3> QED
      BY <3>1, <3>2 DEF TypeOK
  <2>6. ASSUME NEW d \in ConnectionIds
        PROVE  Listed(d)' <=> (Listed(d) \/ d = c)
    BY <2>1, <2>2, <2>3, <2>4 DEF Listed
  <2> QED
    BY <2>5, <2>6
<1> QED
  BY <1>1, <1>2

\* Removing a connection leaves the others listed.
LEMMA RemoveUnlists ==
    ASSUME TypeOK, NEW c \in ConnectionIds, RemoveConnection(c)
    PROVE  /\ TypeOK'
           /\ \A d \in ConnectionIds : Listed(d)' <=> (Listed(d) /\ d # c)
BY DEF RemoveConnection, TypeOK, Listed

\* A clear empties the list.
LEMMA ClearUnlists ==
    ASSUME TypeOK, ClearBrokerConnections
    PROVE  TypeOK' /\ \A d \in ConnectionIds : ~Listed(d)'
BY DEF ClearBrokerConnections, TypeOK, Listed

\* Stamping writes the CompletionDate of the rows of one correlation id only.
LEMMA StampWrites ==
    ASSUME AuditTypeOK, NEW k \in Correlations,
           messageLog' = CompleteCorrelatedMessages(k)
    PROVE  /\ messageLog' \in [Messages -> Row]
           /\ \A m \in Messages :
                /\ Logged(m)' <=> Logged(m)
                /\ Completed(m)' <=> (Completed(m) \/ (Logged(m) /\ CorrelationOf[m] = k))
<1>1. messageLog \in [Messages -> Row]
  BY DEF AuditTypeOK
<1>2. ASSUME NEW m \in Messages
      PROVE  /\ messageLog'[m] \in Row
             /\ Logged(m)' <=> Logged(m)
             /\ Completed(m)' <=> (Completed(m) \/ (Logged(m) /\ CorrelationOf[m] = k))
  BY <1>1 DEF CompleteCorrelatedMessages, Row, Logged, Completed
<1> QED
  BY <1>2 DEF CompleteCorrelatedMessages

\* A replay changes the Retries of a row and nothing else of it.
LEMMA ChargeWrites ==
    ASSUME HubTypeOK, NEW c \in ConnectionIds, NEW x \in Messages, UpdateMessageRetries(c, x)
    PROVE  /\ messageLog' \in [Messages -> Row]
           /\ tracked' \in [ConnectionIds -> [Messages -> Nat \cup {NotTracked}]]
           /\ \A m \in Messages : (Logged(m)' <=> Logged(m)) /\ (Completed(m)' <=> Completed(m))
<1>1. /\ messageLog \in [Messages -> Row]
      /\ tracked \in [ConnectionIds -> [Messages -> Nat \cup {NotTracked}]]
  BY DEF HubTypeOK, AuditTypeOK
<1>2. Seen(c, x) + 1 \in Nat
  BY <1>1 DEF Seen, Row, NotTracked
<1>3. /\ messageLog' = [messageLog EXCEPT ![x].Retries = Seen(c, x) + 1]
      /\ tracked' = [tracked EXCEPT ![c][x] = Seen(c, x) + 1]
  BY DEF UpdateMessageRetries
<1> QED
  BY <1>1, <1>2, <1>3 DEF Row, Logged, Completed

\* Whatever becomes of a push, it only adds to what was delivered.
LEMMA PushDelivers ==
    ASSUME HubTypeOK, NEW m \in Commands, Push(m)
    PROVE  /\ delivered \subseteq delivered' /\ delivered' \subseteq Commands
           /\ faults' \in 0 .. MaxFaults
BY HubBoundAssumption DEF Push, Fault, HubTypeOK

\* A handler that throws leaves its command in the queue or makes it an error.
LEMMA ThrowKeeps ==
    ASSUME HubTypeOK, NEW m \in Commands, m \in hubQueue, HandlerThrows(m)
    PROVE  /\ hubQueue' \subseteq hubQueue /\ hubErrors' \subseteq Commands
           /\ hubQueue \cup hubErrors \subseteq hubQueue' \cup hubErrors'
           /\ attempts' \in [Commands -> 0 .. MaxAttempts - 1]
           /\ handlerPc' = "idle" /\ current' = NoCommand
           /\ auditQueue' = auditQueue
BY HubBoundAssumption DEF HandlerThrows, HubTypeOK

---------------------------------------------------------------------------
(* Types.                                                                  *)

\* The callbacks of a connection keep the types.
LEMMA CallbackTypes ==
    ASSUME HubTypeOK, NEW c \in ConnectionIds, Callback(c)
    PROVE  HubTypeOK'
<1> USE HubBoundAssumption DEF CallbackPoints, Arriving, Replaying
<1>1. TypeOK'
  BY AddLists, RemoveUnlists
  DEF Callback, Connect, OnConnected, OnConnectedThrows, Reconnect, OnReconnected,
      OnReconnectedThrows, Disconnect, OnDisconnected, OnDisconnectedThrows,
      CallbackThrows, registryVars, HubTypeOK, TypeOK
<1>2. UNCHANGED <<auditVars, pending, tracked, handlerVars, delivered, replays>>
  BY DEF Callback, Connect, OnConnected, OnConnectedThrows, Reconnect, OnReconnected,
      OnReconnectedThrows, Disconnect, OnDisconnected, OnDisconnectedThrows, CallbackThrows
<1>3. /\ signalr' \in [ConnectionIds -> {"new", "open", "cut", "gone"}]
      /\ connPc' \in [ConnectionIds -> CallbackPoints]
      /\ missed' \subseteq ConnectionIds
      /\ faults' \in 0 .. MaxFaults
  <2>1. signalr' \in {signalr, [signalr EXCEPT ![c] = "open"], [signalr EXCEPT ![c] = "gone"]}
    BY DEF Callback, Connect, OnConnected, OnConnectedThrows, Reconnect, OnReconnected,
      OnReconnectedThrows, Disconnect, OnDisconnected, OnDisconnectedThrows, CallbackThrows
  <2>2. \E p \in CallbackPoints : connPc' = [connPc EXCEPT ![c] = p]
    BY DEF Callback, Connect, OnConnected, OnConnectedThrows, Reconnect, OnReconnected,
      OnReconnectedThrows, Disconnect, OnDisconnected, OnDisconnectedThrows, CallbackThrows
  <2>3. \/ missed' \in {missed, missed \ {c}} /\ UNCHANGED faults
        \/ missed' = missed \cup {c} /\ Fault
    BY DEF Callback, Connect, OnConnected, OnConnectedThrows, Reconnect, OnReconnected,
      OnReconnectedThrows, Disconnect, OnDisconnected, OnDisconnectedThrows, CallbackThrows
  <2>4. missed' \subseteq ConnectionIds /\ faults' \in 0 .. MaxFaults
    BY <2>3 DEF Fault, HubTypeOK
  <2>5. signalr' \in [ConnectionIds -> {"new", "open", "cut", "gone"}]
    BY <2>1 DEF HubTypeOK
  <2>6. connPc' \in [ConnectionIds -> CallbackPoints]
    BY <2>2 DEF HubTypeOK
  <2> QED
    BY <2>4, <2>5, <2>6
<1> QED
  BY <1>1, <1>2, <1>3 DEF HubTypeOK, AuditTypeOK, auditVars, handlerVars

\* The steps of a replay keep the types.
LEMMA ReplayTypes ==
    ASSUME HubTypeOK, NEW c \in ConnectionIds, Replay(c)
    PROVE  HubTypeOK'
<1> USE HubBoundAssumption DEF HubTypeOK, CallbackPoints, Arriving, Replaying
<1>1. ASSUME GetUnacknowledgedMessages(c)
      PROVE  HubTypeOK'
  <2>1. pending' \in [ConnectionIds -> SUBSET Commands]
    BY <1>1 DEF GetUnacknowledgedMessages, Unacknowledged
  <2>2. [m \in Messages |-> IF m \in Unacknowledged(BrokerOf[c]) THEN messageLog[m].Retries
                            ELSE NotTracked] \in [Messages -> Nat \cup {NotTracked}]
    BY DEF AuditTypeOK, Row
  <2>3. tracked' \in [ConnectionIds -> [Messages -> Nat \cup {NotTracked}]]
    BY <1>1, <2>2 DEF GetUnacknowledgedMessages
  <2>4. connPc' \in [ConnectionIds -> CallbackPoints]
    BY <1>1 DEF GetUnacknowledgedMessages
  <2> QED
    BY <1>1, <2>1, <2>3, <2>4
    DEF GetUnacknowledgedMessages, registryVars, auditVars, handlerVars, TypeOK, AuditTypeOK
<1>2. ASSUME NEW m \in Commands, Resend(c, m)
      PROVE  HubTypeOK'
  <2>1. pending' \in [ConnectionIds -> SUBSET Commands]
    BY <1>2 DEF Resend
  <2>2. /\ replays' \in [Commands -> Nat]
        /\ connPc' \in [ConnectionIds -> CallbackPoints]
    BY <1>2 DEF Resend
  <2>3. delivered' \subseteq Commands /\ faults' \in 0 .. MaxFaults
    BY <1>2, PushDelivers DEF Resend
  <2> QED
    BY <1>2, <2>1, <2>2, <2>3 DEF Resend, registryVars, auditVars, handlerVars, TypeOK, AuditTypeOK
<1>3. ASSUME NEW m \in Messages, UpdateMessageRetries(c, m)
      PROVE  HubTypeOK'
  <2>1. connPc' \in [ConnectionIds -> CallbackPoints]
    BY <1>3 DEF UpdateMessageRetries
  <2>2. /\ messageLog' \in [Messages -> Row]
        /\ tracked' \in [ConnectionIds -> [Messages -> Nat \cup {NotTracked}]]
    BY <1>3, ChargeWrites
  <2> QED
    BY <1>3, <2>1, <2>2 DEF UpdateMessageRetries, registryVars, handlerVars, TypeOK, AuditTypeOK
<1>4. CASE ReplayReturns(c) \/ ReplayThrows(c)
  <2>1. faults' \in 0 .. MaxFaults /\ EndReplay(c)
    BY <1>4 DEF ReplayReturns, ReplayThrows, Fault
  <2>2. Untracked \in [Messages -> Nat \cup {NotTracked}]
    BY DEF Untracked
  <2>3. /\ pending' \in [ConnectionIds -> SUBSET Commands]
        /\ tracked' \in [ConnectionIds -> [Messages -> Nat \cup {NotTracked}]]
        /\ connPc' \in [ConnectionIds -> CallbackPoints]
    BY <2>1, <2>2 DEF EndReplay
  <2> QED
    BY <2>1, <2>3 DEF EndReplay, registryVars, auditVars, handlerVars, TypeOK, AuditTypeOK
<1> QED
  BY <1>1, <1>2, <1>3, <1>4 DEF Replay

\* The steps of the handler keep the types.
LEMMA HandlerTypes ==
    ASSUME HubTypeOK, NEW m \in Commands, Handle(m), handlerPc # "idle" => current \in hubQueue
    PROVE  HubTypeOK'
<1> USE HubBoundAssumption DEF HubTypeOK
<1>1. CASE HandleConnected(m)
  BY <1>1 DEF HandleConnected, registryVars, auditVars, connVars, TypeOK, AuditTypeOK
<1>2. CASE HandleNotConnected(m) \/ ThrottleThrows(m)
  <2>1. m \in hubQueue /\ HandlerThrows(m)
    BY <1>2 DEF HandleNotConnected, ThrottleThrows
  <2>2. /\ hubQueue' \subseteq hubQueue /\ hubErrors' \subseteq Commands
        /\ attempts' \in [Commands -> 0 .. MaxAttempts - 1]
        /\ handlerPc' = "idle" /\ current' = NoCommand /\ auditQueue' = auditQueue
    BY <2>1, ThrowKeeps
  <2> QED
    BY <1>2, <2>2
    DEF HandleNotConnected, ThrottleThrows, registryVars, connVars, TypeOK, AuditTypeOK
<1>3. CASE HandlePush(m)
  <2>1. delivered' \subseteq Commands /\ faults' \in 0 .. MaxFaults
    BY <1>3, PushDelivers DEF HandlePush
  <2> QED
    BY <1>3, <2>1 DEF HandlePush, registryVars, auditVars, connVars, TypeOK, AuditTypeOK
<1>4. CASE Throttle(m)
  BY <1>4 DEF Throttle, registryVars, connVars, TypeOK, AuditTypeOK
<1> QED
  BY <1>1, <1>2, <1>3, <1>4 DEF Handle

\* The posts of the broker, the handlers of Audit and a restart keep the types.
LEMMA EnvironmentTypes ==
    ASSUME HubTypeOK,
           \/ \E m \in Commands : BrokerPosts(m) \/ AuditCommand(m) \/ AuditCommandFails(m)
           \/ \E k \in Correlations : AuditCompletion(k) \/ AuditCompletionFails(k)
           \/ Restart
    PROVE  HubTypeOK'
<1> USE HubBoundAssumption, CorrelationAssumption, CommandsAssumption
    DEF HubTypeOK, CallbackPoints
<1>1. ASSUME NEW k \in Correlations, messageLog' = CompleteCorrelatedMessages(k),
             UNCHANGED <<auditQueue, auditErrors>>, completions' \subseteq Correlations,
             acked' \subseteq Correlations, faults' \in 0 .. MaxFaults,
             UNCHANGED <<registryVars, connVars, handlerVars, delivered, replays, missed>>
      PROVE  HubTypeOK'
  <2>1. messageLog' \in [Messages -> Row]
    BY <1>1, StampWrites
  <2> QED
    BY <1>1, <2>1 DEF registryVars, connVars, handlerVars, TypeOK, AuditTypeOK
<1>2. ASSUME NEW m \in Commands, BrokerPosts(m)
      PROVE  HubTypeOK'
  <2>1. CorrelationOf[m] \in Correlations
    OBVIOUS
  <2>2. faults' \in 0 .. MaxFaults
    BY <1>2 DEF BrokerPosts, Acknowledge, AcknowledgeFails, Fault
  <2> QED
    BY <1>2, <2>1, <2>2, <1>1
    DEF BrokerPosts, Acknowledge, AcknowledgeFails, Post, PostFailsHalfway, AuditTypeOK
<1>3. ASSUME NEW m \in Commands, AuditCommand(m)
      PROVE  HubTypeOK'
  <2>1. messageLog' \in [Messages -> Row]
    BY <1>3 DEF AuditCommand, LogMessage, AuditTypeOK, Row
  <2> QED
    BY <1>3, <2>1
    DEF AuditCommand, LogMessage, registryVars, connVars, handlerVars, TypeOK, AuditTypeOK
<1>4. ASSUME NEW k \in Correlations, AuditCompletion(k)
      PROVE  HubTypeOK'
  BY <1>4, <1>1 DEF AuditCompletion, CompleteAgain, AuditTypeOK
<1>5. ASSUME NEW m \in Commands, AuditCommandFails(m)
      PROVE  HubTypeOK'
  BY <1>5
  DEF AuditCommandFails, LogMessageFails, Fault, registryVars, connVars, handlerVars, TypeOK,
      AuditTypeOK
<1>6. ASSUME NEW k \in Correlations, AuditCompletionFails(k)
      PROVE  HubTypeOK'
  BY <1>6
  DEF AuditCompletionFails, CompleteAgainFails, Fault, registryVars, connVars, handlerVars, TypeOK,
      AuditTypeOK
<1>7. CASE Restart
  <2>1. TypeOK'
    BY <1>7, ClearUnlists DEF Restart
  <2>2. Untracked \in [Messages -> Nat \cup {NotTracked}]
    BY DEF Untracked
  <2>3. /\ signalr' \in [ConnectionIds -> {"new", "open", "cut", "gone"}]
        /\ connPc' \in [ConnectionIds -> CallbackPoints]
        /\ pending' \in [ConnectionIds -> SUBSET Commands]
        /\ tracked' \in [ConnectionIds -> [Messages -> Nat \cup {NotTracked}]]
        /\ attempts' \in [Commands -> 0 .. MaxAttempts - 1]
    BY <1>7, <2>2 DEF Restart
  <2>4. faults' \in 0 .. MaxFaults
    BY <1>7 DEF Restart, Fault
  <2> QED
    BY <1>7, <2>1, <2>3, <2>4 DEF Restart, auditVars, AuditTypeOK
<1> QED
  BY <1>2, <1>3, <1>4, <1>7, <1>5, <1>6

---------------------------------------------------------------------------
(* The invariants.                                                         *)

HubInv == HubTypeOK /\ Registered /\ Placed /\ Stamped

\* The Hub starts with an empty registry, all commands in its queue and no row.
LEMMA HubInitEstablishes == HubInit => HubInv
<1> SUFFICES ASSUME HubInit
             PROVE  HubInv
  OBVIOUS
<1> USE HubBoundAssumption, CommandsAssumption DEF HubInit, RegistryInit, AuditInit
<1>1. TypeOK /\ AuditTypeOK
  BY DEF TypeOK, AuditTypeOK, Row
<1>2. tracked \in [ConnectionIds -> [Messages -> Nat \cup {NotTracked}]]
  BY DEF Untracked
<1>3. HubTypeOK
  BY <1>1, <1>2 DEF HubTypeOK, CallbackPoints
<1>4. Registered
  BY DEF Registered, RegistryMatchesSignalR, Listed
<1>5. Placed /\ Stamped
  BY DEF Placed, Stamped, Logged, Completed
<1> QED
  BY <1>3, <1>4, <1>5 DEF HubInv

\* Every step keeps the types.
LEMMA TypesKept ==
    ASSUME HubInv, [HubNext]_hubVars
    PROVE  HubTypeOK'
<1>1. CASE UNCHANGED hubVars
  BY <1>1
  DEF HubInv, HubTypeOK, TypeOK, AuditTypeOK, hubVars, registryVars, auditVars, connVars, handlerVars
<1>2. CASE HubNext
  BY <1>2, CallbackTypes, ReplayTypes, HandlerTypes, EnvironmentTypes DEF HubNext, HubInv, Placed
<1> QED
  BY <1>1, <1>2

\* SignalR moves a connection and puts a callback on its way, the callback that does
\* not throw makes the registry follow, a restart empties both, and nothing else
\* touches either.
LEMMA RegisteredKept ==
    ASSUME HubInv, [HubNext]_hubVars
    PROVE  Registered'
<1> USE DEF HubInv
<1>1. ASSUME NEW c \in ConnectionIds, Callback(c)
      PROVE  Registered'
  <2> USE DEF Registered, RegistryMatchesSignalR, HubTypeOK, Arriving
  <2>1. CASE Connect(c) \/ Reconnect(c) \/ Disconnect(c)
    <3>1. UNCHANGED missed /\ \A d \in ConnectionIds : Listed(d)' <=> Listed(d)
      BY <2>1 DEF Connect, Reconnect, Disconnect, Listed, registryVars
    <3>2. \E p \in Arriving, s \in {"open", "gone"} :
            /\ p = "disconnected" <=> s = "gone"
            /\ connPc' = [connPc EXCEPT ![c] = p]
            /\ signalr' = [signalr EXCEPT ![c] = s]
      BY <2>1 DEF Connect, Reconnect, Disconnect
    <3> QED
      BY <3>1, <3>2
  <2>2. CASE OnConnected(c) \/ OnReconnected(c)
    BY <2>2, AddLists DEF OnConnected, OnReconnected
  <2>3. CASE OnDisconnected(c)
    BY <2>3, RemoveUnlists DEF OnDisconnected
  <2>4. CASE OnConnectedThrows(c) \/ OnReconnectedThrows(c) \/ OnDisconnectedThrows(c)
    BY <2>4
    DEF OnConnectedThrows, OnReconnectedThrows, OnDisconnectedThrows, CallbackThrows, Listed,
        registryVars
  <2> QED
    BY <1>1, <2>1, <2>2, <2>3, <2>4 DEF Callback
<1>2. CASE Restart
  BY <1>2, ClearUnlists DEF Restart, Registered, RegistryMatchesSignalR, HubTypeOK
<1>3. ASSUME UNCHANGED <<registryVars, signalr, missed, connPc>>
      PROVE  Registered'
  BY <1>3 DEF Registered, RegistryMatchesSignalR, Listed, registryVars
<1>4. ASSUME NEW c \in ConnectionIds, Replay(c)
      PROVE  Registered'
  <2>1. UNCHANGED <<registryVars, signalr, missed>>
    BY <1>4 DEF Replay, GetUnacknowledgedMessages, Resend, UpdateMessageRetries, ReplayReturns,
                ReplayThrows, EndReplay
  <2>2. connPc[c] \notin Arriving /\ \E p \in {"idle"} \cup Replaying : connPc' = [connPc EXCEPT ![c] = p]
    BY <1>4 DEF Replay, GetUnacknowledgedMessages, Resend, UpdateMessageRetries, ReplayReturns,
                ReplayThrows, EndReplay, Arriving, Replaying
  <2> QED
    BY <2>1, <2>2
    DEF Registered, RegistryMatchesSignalR, Listed, registryVars, HubTypeOK, Arriving, Replaying
<1>5. ASSUME NEW m \in Commands,
             Handle(m) \/ BrokerPosts(m) \/ AuditCommand(m) \/ AuditCommandFails(m)
      PROVE  UNCHANGED <<registryVars, signalr, missed, connPc>>
  BY <1>5 DEF Handle, HandleConnected, HandleNotConnected, HandlePush, Throttle, ThrottleThrows,
              BrokerPosts, Acknowledge, AcknowledgeFails, AuditCommand, AuditCommandFails, connVars
<1>6. ASSUME NEW k \in Correlations, AuditCompletion(k) \/ AuditCompletionFails(k)
      PROVE  UNCHANGED <<registryVars, signalr, missed, connPc>>
  BY <1>6 DEF AuditCompletion, AuditCompletionFails, connVars
<1>7. CASE UNCHANGED hubVars
  BY <1>3, <1>7 DEF hubVars, connVars
<1> QED
  BY <1>1, <1>2, <1>3, <1>4, <1>5, <1>6, <1>7 DEF HubNext

\* What a step may do to where a command is and to the stamp of its row.
MovesNothing ==
    /\ UNCHANGED <<hubQueue, hubErrors, auditQueue, auditErrors, completions, acked>>
    /\ delivered \subseteq delivered'
    /\ \A m \in Messages : (Logged(m)' <=> Logged(m)) /\ (Completed(m)' <=> Completed(m))
    /\ UNCHANGED <<handlerPc, current>> \/ handlerPc' = "idle"

\* A step that moves no command keeps both invariants and all stamps.
LEMMA NothingMoved ==
    ASSUME HubInv, MovesNothing
    PROVE  Placed' /\ Stamped' /\ \A m \in Messages : Completed(m) => Completed(m)'
BY CommandsAssumption DEF HubInv, MovesNothing, Placed, Stamped

\* Stamping the rows of a command that was delivered.
LEMMA StampKeeps ==
    ASSUME HubInv, NEW k \in Correlations,
           messageLog' = CompleteCorrelatedMessages(k),
           \A m \in Commands : CorrelationOf[m] = k => m \in delivered,
           completions' \subseteq completions \cup {k},
           acked' = acked \cup {k},
           UNCHANGED <<auditQueue, auditErrors, handlerVars, delivered>>
    PROVE  Placed' /\ Stamped' /\ \A m \in Messages : Completed(m) => Completed(m)'
<1>1. \A m \in Messages :
            /\ Logged(m)' <=> Logged(m)
            /\ Completed(m)' <=> (Completed(m) \/ (Logged(m) /\ CorrelationOf[m] = k))
  BY StampWrites DEF HubInv, HubTypeOK
<1>2. Placed'
  BY <1>1, CommandsAssumption DEF HubInv, Placed, handlerVars
<1>3. Stamped'
  BY <1>1, CommandsAssumption DEF HubInv, Stamped
<1> QED
  BY <1>1, <1>2, <1>3

\* The handler moves a command from its queue to Audit's or to the errors.
LEMMA HandlerMoves ==
    ASSUME HubInv, NEW m \in Commands, Handle(m)
    PROVE  Placed' /\ Stamped' /\ \A x \in Messages : Completed(x) => Completed(x)'
<1> USE CommandsAssumption DEF HubInv
<1>1. CASE HandleConnected(m)
  BY <1>1
  DEF HandleConnected, Placed, Stamped, Logged, Completed, auditVars
<1>2. CASE HandleNotConnected(m) \/ ThrottleThrows(m)
  <2>1. /\ m \in hubQueue /\ HandlerThrows(m)
        /\ UNCHANGED <<messageLog, auditErrors, completions, acked, delivered>>
    BY <1>2 DEF HandleNotConnected, ThrottleThrows, Placed
  <2>2. /\ hubQueue' \subseteq hubQueue
        /\ hubQueue \cup hubErrors \subseteq hubQueue' \cup hubErrors'
        /\ handlerPc' = "idle" /\ auditQueue' = auditQueue
    BY <2>1, ThrowKeeps
  <2> QED
    BY <2>1, <2>2 DEF Placed, Stamped, Logged, Completed
<1>3. CASE HandlePush(m)
  <2>1. delivered \subseteq delivered'
    BY <1>3, PushDelivers DEF HandlePush
  <2> QED
    BY <1>3, <2>1 DEF HandlePush, Placed, Stamped, Logged, Completed, auditVars
<1>4. CASE Throttle(m)
  BY <1>4 DEF Throttle, Placed, Stamped, Logged, Completed
<1> QED
  BY <1>1, <1>2, <1>3, <1>4 DEF Handle

\* Every step keeps the place of commands, and leaves a stamped row stamped.
LEMMA CommandsKept ==
    ASSUME HubInv, [HubNext]_hubVars
    PROVE  Placed' /\ Stamped' /\ \A m \in Messages : Completed(m) => Completed(m)'
<1> USE CorrelationAssumption, CommandsAssumption DEF HubInv
<1>1. ASSUME NEW c \in ConnectionIds, Callback(c)
      PROVE  MovesNothing
  BY <1>1
  DEF MovesNothing, Callback, Connect, OnConnected, OnConnectedThrows, Reconnect, OnReconnected,
      OnReconnectedThrows, Disconnect, OnDisconnected, OnDisconnectedThrows,
      CallbackThrows, auditVars, handlerVars, Logged, Completed
<1>2. ASSUME NEW c \in ConnectionIds, Replay(c)
      PROVE  MovesNothing
  <2>1. CASE GetUnacknowledgedMessages(c) \/ ReplayReturns(c) \/ ReplayThrows(c)
    BY <2>1
    DEF MovesNothing, GetUnacknowledgedMessages, ReplayReturns, ReplayThrows, EndReplay, auditVars,
        handlerVars, Logged, Completed
  <2>2. ASSUME NEW m \in Commands, Resend(c, m)
        PROVE  MovesNothing
    <3>1. delivered \subseteq delivered'
      BY <2>2, PushDelivers DEF Resend
    <3> QED
      BY <2>2, <3>1 DEF MovesNothing, Resend, auditVars, handlerVars, Logged, Completed
  <2>3. ASSUME NEW m \in Messages, UpdateMessageRetries(c, m)
        PROVE  MovesNothing
    <3>1. \A x \in Messages : (Logged(x)' <=> Logged(x)) /\ (Completed(x)' <=> Completed(x))
      BY <2>3, ChargeWrites
    <3> QED
      BY <2>3, <3>1 DEF MovesNothing, UpdateMessageRetries, handlerVars
  <2> QED
    BY <1>2, <2>1, <2>2, <2>3 DEF Replay
<1>3. ASSUME NEW m \in Commands, BrokerPosts(m)
      PROVE  Placed' /\ Stamped' /\ \A x \in Messages : Completed(x) => Completed(x)'
  <2>1. m \in delivered /\ CorrelationOf[m] \in Correlations
    BY <1>3 DEF BrokerPosts, Acknowledge, AcknowledgeFails
  <2>2. \A n \in Commands : CorrelationOf[n] = CorrelationOf[m] => n \in delivered
    BY <2>1
  <2>3. /\ messageLog' = CompleteCorrelatedMessages(CorrelationOf[m])
        /\ completions' \subseteq completions \cup {CorrelationOf[m]}
        /\ acked' = acked \cup {CorrelationOf[m]}
        /\ UNCHANGED <<auditQueue, auditErrors, handlerVars, delivered>>
    BY <1>3 DEF BrokerPosts, Acknowledge, AcknowledgeFails, Post, PostFailsHalfway
  <2> QED
    BY <2>1, <2>2, <2>3, StampKeeps
<1>4. ASSUME NEW k \in Correlations, AuditCompletion(k)
      PROVE  Placed' /\ Stamped' /\ \A x \in Messages : Completed(x) => Completed(x)'
  <2>1. /\ k \in completions
        /\ messageLog' = CompleteCorrelatedMessages(k)
        /\ completions' \subseteq completions \cup {k}
        /\ acked' = acked \cup {k}
        /\ UNCHANGED <<auditQueue, auditErrors, handlerVars, delivered>>
    BY <1>4 DEF AuditCompletion, CompleteAgain, Stamped
  <2>2. \A n \in Commands : CorrelationOf[n] = k => n \in delivered
    BY <2>1 DEF Stamped
  <2> QED
    BY <2>1, <2>2, StampKeeps
<1>5. ASSUME NEW m \in Commands, AuditCommand(m)
      PROVE  Placed' /\ Stamped' /\ \A x \in Messages : Completed(x) => Completed(x)'
  <2>1. /\ m \in auditQueue /\ auditQueue' = auditQueue \ {m}
        /\ messageLog' = [messageLog EXCEPT
                ![m] = [Logged |-> TRUE, Completed |-> FALSE, Retries |-> 0]]
        /\ UNCHANGED <<auditErrors, completions, acked, handlerVars, delivered>>
    BY <1>5 DEF AuditCommand, LogMessage
  <2>2. ~Logged(m) /\ m \notin hubQueue
    BY <2>1 DEF Placed
  <2> QED
    BY <2>1, <2>2 DEF Placed, Stamped, Logged, Completed, HubTypeOK, AuditTypeOK, handlerVars
<1>6. ASSUME NEW m \in Commands, AuditCommandFails(m)
      PROVE  Placed' /\ Stamped' /\ \A x \in Messages : Completed(x) => Completed(x)'
  BY <1>6
  DEF AuditCommandFails, LogMessageFails, Placed, Stamped, Logged, Completed, handlerVars
<1>7. ASSUME NEW k \in Correlations, AuditCompletionFails(k)
      PROVE  Placed' /\ Stamped' /\ \A x \in Messages : Completed(x) => Completed(x)'
  BY <1>7
  DEF AuditCompletionFails, CompleteAgainFails, Placed, Stamped, Logged, Completed, handlerVars
<1>8. CASE Restart
  BY <1>8, NothingMoved DEF Restart, MovesNothing, auditVars, Logged, Completed
<1>9. CASE UNCHANGED hubVars
  BY <1>9, NothingMoved DEF hubVars, MovesNothing, auditVars, handlerVars, Logged, Completed
<1> QED
  BY <1>1, <1>2, <1>3, <1>4, <1>5, <1>8, <1>9, <1>6, <1>7, HandlerMoves, NothingMoved DEF HubNext

\* Every step keeps the invariant.
LEMMA HubNextPreserves == HubInv /\ [HubNext]_hubVars => HubInv'
BY TypesKept, RegisteredKept, CommandsKept DEF HubInv

---------------------------------------------------------------------------
(* How a command gets out of the Hub.                                      *)

\* The commands that were received, audited, logged or an error of Audit, or are to
\* be replayed.
Out ==
    delivered \cup auditQueue \cup auditErrors \cup {m \in Commands : Logged(m)}
        \cup UNION {pending[c] : c \in ConnectionIds}

\* Only the handler takes a command out, when it pushes it or consumes it.
LEMMA OnlyHandlerTakesOut ==
    ASSUME HubInv, [HubNext]_hubVars
    PROVE  /\ delivered \subseteq delivered'
           /\ \A m \in Out' \ Out :
                /\ handlerPc \in {"push", "throttle"} /\ current = m
                /\ handlerPc = "push" => handlerPc' = "throttle"
<1> USE CommandsAssumption DEF HubInv
<1>1. ASSUME NEW c \in ConnectionIds, Callback(c)
      PROVE  delivered \subseteq delivered' /\ Out' \subseteq Out
  <2>1. UNCHANGED <<messageLog, auditQueue, auditErrors, pending, delivered>>
    BY <1>1
    DEF Callback, Connect, OnConnected, OnConnectedThrows, Reconnect, OnReconnected,
      OnReconnectedThrows, Disconnect, OnDisconnected, OnDisconnectedThrows,
      CallbackThrows, auditVars
  <2> QED
    BY <2>1 DEF Out, Logged
<1>2. ASSUME NEW c \in ConnectionIds, Replay(c)
      PROVE  delivered \subseteq delivered' /\ Out' \subseteq Out
  <2>1. CASE GetUnacknowledgedMessages(c)
    <3>1. \A d \in ConnectionIds : pending'[d] \subseteq pending[d] \cup Unacknowledged(BrokerOf[c])
      BY <2>1 DEF GetUnacknowledgedMessages, HubTypeOK
    <3> QED
      BY <2>1, <3>1 DEF GetUnacknowledgedMessages, Out, Logged, Unacknowledged, auditVars
  <2>2. CASE ReplayReturns(c) \/ ReplayThrows(c)
    <3>1. \A d \in ConnectionIds : pending'[d] \subseteq pending[d]
      BY <2>2 DEF ReplayReturns, ReplayThrows, EndReplay, HubTypeOK
    <3> QED
      BY <2>2, <3>1 DEF ReplayReturns, ReplayThrows, EndReplay, Out, Logged, auditVars
  <2>3. ASSUME NEW m \in Commands, Resend(c, m)
        PROVE  delivered \subseteq delivered' /\ Out' \subseteq Out
    <3>1. \A d \in ConnectionIds : pending'[d] \subseteq pending[d]
      BY <2>3 DEF Resend, HubTypeOK
    <3>2. delivered \subseteq delivered' /\ delivered' \subseteq delivered \cup {m}
      BY <2>3 DEF Resend, Push
    <3> QED
      BY <2>3, <3>1, <3>2 DEF Resend, Out, Logged, auditVars
  <2>4. ASSUME NEW m \in Messages, UpdateMessageRetries(c, m)
        PROVE  delivered \subseteq delivered' /\ Out' \subseteq Out
    <3>1. \A x \in Messages : Logged(x)' <=> Logged(x)
      BY <2>4, ChargeWrites
    <3> QED
      BY <2>4, <3>1 DEF UpdateMessageRetries, Out
  <2> QED
    BY <1>2, <2>1, <2>2, <2>3, <2>4 DEF Replay
<1>3. ASSUME NEW m \in Commands, Handle(m)
      PROVE  /\ delivered \subseteq delivered'
             /\ \A x \in Out' \ Out :
                    /\ handlerPc \in {"push", "throttle"} /\ current = x
                    /\ handlerPc = "push" => handlerPc' = "throttle"
  <2>1. CASE HandleConnected(m) \/ HandleNotConnected(m) \/ ThrottleThrows(m)
    BY <2>1
    DEF HandleConnected, HandleNotConnected, ThrottleThrows, HandlerThrows, Out, Logged, auditVars,
        connVars
  <2>2. CASE HandlePush(m)
    <3>1. delivered \subseteq delivered' /\ delivered' \subseteq delivered \cup {m}
      BY <2>2 DEF HandlePush, Push
    <3> QED
      BY <2>2, <3>1 DEF HandlePush, Out, Logged, auditVars, connVars
  <2>3. CASE Throttle(m)
    BY <2>3 DEF Throttle, Out, Logged, connVars
  <2> QED
    BY <1>3, <2>1, <2>2, <2>3 DEF Handle
<1>4. ASSUME NEW k \in Correlations, messageLog' = CompleteCorrelatedMessages(k),
             UNCHANGED <<auditQueue, auditErrors, connVars, delivered>>
      PROVE  delivered \subseteq delivered' /\ Out' \subseteq Out
  <2>1. \A m \in Messages : Logged(m)' <=> Logged(m)
    BY <1>4, StampWrites DEF HubTypeOK
  <2> QED
    BY <1>4, <2>1 DEF Out, connVars
<1>5. ASSUME NEW m \in Commands, BrokerPosts(m)
      PROVE  delivered \subseteq delivered' /\ Out' \subseteq Out
  <2>1. CorrelationOf[m] \in Correlations
    BY CorrelationAssumption
  <2> QED
    BY <1>4, <1>5, <2>1 DEF BrokerPosts, Acknowledge, AcknowledgeFails, Post, PostFailsHalfway
<1>6. ASSUME NEW k \in Correlations, AuditCompletion(k)
      PROVE  delivered \subseteq delivered' /\ Out' \subseteq Out
  BY <1>4, <1>6 DEF AuditCompletion, CompleteAgain
<1>7. ASSUME NEW m \in Commands, AuditCommand(m)
      PROVE  delivered \subseteq delivered' /\ Out' \subseteq Out
  <2>1. /\ m \in auditQueue /\ auditQueue' \subseteq auditQueue
        /\ \A x \in Commands : Logged(x)' => Logged(x) \/ x = m
        /\ UNCHANGED <<delivered, pending, auditErrors>>
    BY <1>7 DEF AuditCommand, LogMessage, Logged, HubTypeOK, AuditTypeOK, connVars
  <2> QED
    BY <2>1 DEF Out
<1>8. ASSUME NEW m \in Commands, AuditCommandFails(m)
       PROVE  delivered \subseteq delivered' /\ Out' \subseteq Out
  BY <1>8 DEF AuditCommandFails, LogMessageFails, Out, Logged, connVars
<1>9. ASSUME NEW k \in Correlations, AuditCompletionFails(k)
       PROVE  delivered \subseteq delivered' /\ Out' \subseteq Out
  BY <1>9 DEF AuditCompletionFails, CompleteAgainFails, Out, Logged, connVars
<1>10. CASE Restart
  BY <1>10 DEF Restart, Out, Logged, auditVars
<1>11. CASE UNCHANGED hubVars
  BY <1>11 DEF hubVars, auditVars, connVars, Out, Logged
<1> QED
  BY <1>1, <1>2, <1>3, <1>5, <1>6, <1>7, <1>10, <1>11, <1>8, <1>9 DEF HubNext

---------------------------------------------------------------------------
(* The charge of a replay.  A row may be charged late, by a context that   *)
(* has not seen the charges of others, and then its Retries fall or jump.  *)
(* So they are compared with the number of updates a row ever had: no      *)
(* context has seen more.  Each update had a push of its own, and so has   *)
(* each replay that stands before its update.                              *)

Charging == {c \in ConnectionIds : connPc[c] = "charge"}

\* The updates account for all the Retries that are, or may be written.
Covers(updates) ==
    /\ \A m \in Messages : messageLog[m].Retries <= updates[m]
    /\ \A c \in ConnectionIds, m \in Messages : tracked[c][m] <= updates[m]

\* The updates made and those due are no more than the pushes.
Paid(updates) ==
    /\ IsFiniteSet(Counted(updates))
    /\ Cardinality(Counted(updates)) + Cardinality(Charging) <= Cardinality(Counted(replays))

Charged ==
    /\ IsFiniteSet(Charging)
    /\ IsFiniteSet(Counted(replays))
    /\ \E updates \in [Messages -> Nat] : Covers(updates) /\ Paid(updates)

\* One more occasion of x.
LEMMA CountOnce ==
    ASSUME NEW D, NEW f \in [D -> Nat], NEW x \in D, IsFiniteSet(Counted(f))
    PROVE  LET g == [f EXCEPT ![x] = @ + 1]
           IN  /\ IsFiniteSet(Counted(g))
               /\ Cardinality(Counted(g)) = Cardinality(Counted(f)) + 1
<1> DEFINE g == [f EXCEPT ![x] = @ + 1]
<1>1. /\ DOMAIN f = D /\ DOMAIN g = D
      /\ \A m \in D : f[m] \in Nat /\ g[m] = IF m = x THEN f[x] + 1 ELSE f[m]
  OBVIOUS
<1>2. 1 .. g[x] = (1 .. f[x]) \cup {f[x] + 1}
  BY <1>1
<1>3. Counted(g) = Counted(f) \cup {<<x, f[x] + 1>>}
  BY <1>1, <1>2 DEF Counted
<1>4. <<x, f[x] + 1>> \notin Counted(f)
  BY <1>1 DEF Counted
<1> DEFINE before == Counted(f)
           e == <<x, f[x] + 1>>
<1> HIDE DEF before, e
<1>5. IsFiniteSet(before \cup {e}) /\ Cardinality(before \cup {e}) = Cardinality(before) + 1
  BY <1>4, FS_AddElement DEF before, e
<1> QED
  BY <1>3, <1>5 DEF before, e

\* More occasions of each are more in all.
LEMMA CountGrows ==
    ASSUME NEW D, NEW f \in [D -> Nat], NEW g \in [D -> Nat], \A m \in D : f[m] <= g[m],
           IsFiniteSet(Counted(g))
    PROVE  IsFiniteSet(Counted(f)) /\ Cardinality(Counted(f)) <= Cardinality(Counted(g))
<1>1. Counted(f) \subseteq Counted(g)
  <2>1. \A m \in D : 1 .. f[m] \subseteq 1 .. g[m]
    OBVIOUS
  <2> QED
    BY <2>1 DEF Counted
<1> QED
  BY <1>1, FS_Subset

\* Nothing is counted yet at first.
LEMMA ChargedInit == HubInit => Charged
<1> SUFFICES ASSUME HubInit
             PROVE  Charged
  OBVIOUS
<1> DEFINE none == [m \in Messages |-> 0]
<1>1. Charging = {} /\ Counted(replays) = {} /\ Counted(none) = {}
  BY DEF HubInit, Charging, Counted
<1>2. none \in [Messages -> Nat]
  OBVIOUS
<1>3. Covers(none)
  BY DEF Covers, HubInit, AuditInit, Untracked, NotTracked
<1>4. Paid(none)
  BY <1>1, FS_EmptySet DEF Paid
<1> QED
  BY <1>1, <1>2, <1>3, <1>4, FS_EmptySet DEF Charged

\* A step that pushes no replay, and lets no context see more than it or the
\* table held.
LEMMA NothingCharged ==
    ASSUME HubTypeOK, Charged, Charging' \subseteq Charging, replays' = replays,
           \A m \in Messages : messageLog'[m].Retries <= messageLog[m].Retries,
           messageLog' \in [Messages -> Row],
           tracked' \in [ConnectionIds -> [Messages -> Nat \cup {NotTracked}]],
           \A c \in ConnectionIds, m \in Messages :
                tracked'[c][m] \in {tracked[c][m], messageLog[m].Retries, NotTracked}
    PROVE  Charged'
<1>1. PICK updates \in [Messages -> Nat] : Covers(updates) /\ Paid(updates)
  BY DEF Charged
<1>2. Covers(updates)'
  <2>1. \A m \in Messages : messageLog[m].Retries \in Nat /\ messageLog'[m].Retries \in Nat
    BY DEF HubTypeOK, AuditTypeOK, Row
  <2>2. \A c \in ConnectionIds, m \in Messages : tracked[c][m] \in Int
    BY DEF HubTypeOK, NotTracked
  <2> QED
    BY <1>1, <2>1, <2>2 DEF Covers, NotTracked
<1>3. /\ IsFiniteSet(Charging') /\ Cardinality(Charging') <= Cardinality(Charging)
      /\ Cardinality(Charging') \in Nat /\ Cardinality(Charging) \in Nat
  BY FS_Subset, FS_CardinalityType DEF Charged
<1>4. Counted(replays') = Counted(replays) /\ Cardinality(Counted(replays)) \in Nat
  BY FS_CardinalityType DEF Charged
<1>5. Cardinality(Counted(updates)) \in Nat
  BY <1>1, FS_CardinalityType DEF Paid
<1>6. Paid(updates)'
  BY <1>1, <1>3, <1>4, <1>5 DEF Paid
<1> QED
  BY <1>2, <1>3, <1>4, <1>6 DEF Charged

\* The push of a replay pays for the update that follows.
LEMMA ResendPays ==
    ASSUME HubTypeOK, Charged, NEW c \in ConnectionIds, NEW x \in Commands, Resend(c, x)
    PROVE  Charged'
<1>1. PICK updates \in [Messages -> Nat] : Covers(updates) /\ Paid(updates)
  BY DEF Charged
<1>2. Covers(updates)'
  BY <1>1 DEF Covers, Resend, auditVars
<1>3. c \notin Charging /\ Charging' = Charging \cup {c}
  BY DEF Charging, Resend, HubTypeOK
<1>4. IsFiniteSet(Charging') /\ Cardinality(Charging') = Cardinality(Charging) + 1
  BY <1>3, FS_AddElement DEF Charged
<1>5. /\ IsFiniteSet(Counted(replays'))
      /\ Cardinality(Counted(replays')) = Cardinality(Counted(replays)) + 1
  <2>1. replays \in [Commands -> Nat] /\ IsFiniteSet(Counted(replays))
    BY DEF HubTypeOK, Charged
  <2>2. replays' = [replays EXCEPT ![x] = @ + 1]
    BY DEF Resend
  <2> QED
    BY <2>1, <2>2, CountOnce, Zenon
<1>6. /\ Cardinality(Charging) \in Nat
      /\ Cardinality(Counted(updates)) \in Nat
      /\ Cardinality(Counted(replays)) \in Nat
  BY <1>1, FS_CardinalityType DEF Charged, Paid
<1>7. Paid(updates)'
  BY <1>1, <1>4, <1>5, <1>6 DEF Paid
<1> QED
  BY <1>2, <1>4, <1>5, <1>7 DEF Charged

\* The update takes the place that was kept for it, whatever row it takes and
\* whatever it writes there.
LEMMA UpdateCharges ==
    ASSUME HubTypeOK, Charged, NEW c \in ConnectionIds, NEW x \in Messages,
           UpdateMessageRetries(c, x)
    PROVE  Charged'
<1>1. PICK updates \in [Messages -> Nat] : Covers(updates) /\ Paid(updates)
  BY DEF Charged
<1> DEFINE next == [updates EXCEPT ![x] = @ + 1]
<1>2. next \in [Messages -> Nat] /\ \A m \in Messages : next[m] = IF m = x THEN updates[x] + 1
                                                                 ELSE updates[m]
  OBVIOUS
<1>3. Covers(next)'
  <2>1. /\ messageLog \in [Messages -> Row]
        /\ tracked \in [ConnectionIds -> [Messages -> Nat \cup {NotTracked}]]
    BY DEF HubTypeOK, AuditTypeOK
  <2>2. Seen(c, x) \in Nat /\ Seen(c, x) <= updates[x]
    BY <1>1, <2>1 DEF Seen, Covers, Row, NotTracked
  <2>3. /\ messageLog' = [messageLog EXCEPT ![x].Retries = Seen(c, x) + 1]
        /\ tracked' = [tracked EXCEPT ![c][x] = Seen(c, x) + 1]
    BY DEF UpdateMessageRetries
  <2>4. ASSUME NEW m \in Messages
        PROVE  messageLog'[m].Retries <= next[m]
    <3>1. messageLog'[m].Retries = IF m = x THEN Seen(c, x) + 1 ELSE messageLog[m].Retries
      BY <2>1, <2>3 DEF Row
    <3>2. messageLog[m].Retries \in Nat /\ messageLog[m].Retries <= updates[m]
      BY <1>1, <2>1 DEF Covers, Row
    <3> QED
      BY <1>2, <2>2, <3>1, <3>2
  <2>5. ASSUME NEW d \in ConnectionIds, NEW m \in Messages
        PROVE  tracked'[d][m] <= next[m]
    <3>1. tracked'[d][m] = IF d = c /\ m = x THEN Seen(c, x) + 1 ELSE tracked[d][m]
      BY <2>1, <2>3
    <3>2. tracked[d][m] \in Int /\ tracked[d][m] <= updates[m]
      BY <1>1, <2>1 DEF Covers, NotTracked
    <3> QED
      BY <1>2, <2>2, <3>1, <3>2
  <2> HIDE DEF next
  <2> QED
    BY <2>4, <2>5 DEF Covers
<1>4. c \in Charging /\ Charging' = Charging \ {c}
  BY DEF Charging, UpdateMessageRetries, HubTypeOK
<1>5. IsFiniteSet(Charging') /\ Cardinality(Charging') = Cardinality(Charging) - 1
  BY <1>4, FS_RemoveElement DEF Charged
<1>6. /\ IsFiniteSet(Counted(next))
      /\ Cardinality(Counted(next)) = Cardinality(Counted(updates)) + 1
  <2>1. IsFiniteSet(Counted(updates))
    BY <1>1 DEF Paid
  <2>2. next = [updates EXCEPT ![x] = @ + 1]
    OBVIOUS
  <2> HIDE DEF next
  <2> QED
    BY <2>1, <2>2, CountOnce, Zenon
<1>7. /\ Cardinality(Charging) \in Nat
      /\ Cardinality(Counted(updates)) \in Nat
      /\ Cardinality(Counted(replays)) \in Nat
  BY <1>1, FS_CardinalityType DEF Charged, Paid
<1>8. replays' = replays
  BY DEF UpdateMessageRetries
<1> HIDE DEF next
<1>9. Paid(next)'
  BY <1>1, <1>5, <1>6, <1>7, <1>8 DEF Paid
<1> QED
  BY <1>2, <1>3, <1>5, <1>8, <1>9 DEF Charged

\* Every step keeps the updates paid.
LEMMA ChargedKept ==
    ASSUME HubInv, HubTypeOK', Charged, [HubNext]_hubVars
    PROVE  Charged'
<1> USE CorrelationAssumption, CommandsAssumption DEF HubInv
<1>0. /\ messageLog' \in [Messages -> Row]
      /\ tracked' \in [ConnectionIds -> [Messages -> Nat \cup {NotTracked}]]
      /\ messageLog \in [Messages -> Row]
      /\ tracked \in [ConnectionIds -> [Messages -> Nat \cup {NotTracked}]]
      /\ connPc \in [ConnectionIds -> CallbackPoints]
  BY DEF HubTypeOK, AuditTypeOK
<1>1. ASSUME UNCHANGED tracked, Charging' \subseteq Charging, replays' = replays,
             \A m \in Messages : \/ messageLog'[m].Retries = messageLog[m].Retries
                                 \/ messageLog'[m].Retries = 0
      PROVE  Charged'
  <2>1. \A m \in Messages : messageLog'[m].Retries <= messageLog[m].Retries
    BY <1>0, <1>1 DEF Row
  <2> QED
    BY <1>0, <1>1, <2>1, NothingCharged
<1>2. ASSUME NEW c \in ConnectionIds, Callback(c)
      PROVE  Charged'
  <2>1. UNCHANGED <<messageLog, tracked, replays>>
    BY <1>2
    DEF Callback, Connect, OnConnected, OnConnectedThrows, Reconnect, OnReconnected,
      OnReconnectedThrows, Disconnect, OnDisconnected, OnDisconnectedThrows,
      CallbackThrows, auditVars
  <2>2. \E p \in {"idle", "query"} \cup Arriving : connPc' = [connPc EXCEPT ![c] = p]
    BY <1>2
    DEF Arriving, Callback, Connect, OnConnected, OnConnectedThrows, Reconnect, OnReconnected,
      OnReconnectedThrows, Disconnect, OnDisconnected, OnDisconnectedThrows, CallbackThrows
  <2>3. Charging' \subseteq Charging
    BY <1>0, <2>2 DEF Charging, Arriving
  <2> QED
    BY <2>1, <2>3, <1>1
<1>3. ASSUME NEW c \in ConnectionIds, GetUnacknowledgedMessages(c)
      PROVE  Charged'
  <2>1. Charging' \subseteq Charging
    BY <1>0, <1>3 DEF Charging, GetUnacknowledgedMessages
  <2>2. \A d \in ConnectionIds, m \in Messages :
            tracked'[d][m] \in {tracked[d][m], messageLog[m].Retries, NotTracked}
    BY <1>0, <1>3 DEF GetUnacknowledgedMessages
  <2>3. replays' = replays /\ messageLog' = messageLog
    BY <1>3 DEF GetUnacknowledgedMessages, auditVars
  <2>4. \A m \in Messages : messageLog'[m].Retries <= messageLog[m].Retries
    BY <1>0, <2>3 DEF Row
  <2> QED
    BY <1>0, <2>1, <2>2, <2>3, <2>4, NothingCharged
<1>4. ASSUME NEW c \in ConnectionIds, EndReplay(c)
      PROVE  Charged'
  <2>1. Charging' \subseteq Charging
    BY <1>0, <1>4 DEF Charging, EndReplay
  <2>2. \A d \in ConnectionIds, m \in Messages :
            tracked'[d][m] \in {tracked[d][m], messageLog[m].Retries, NotTracked}
    BY <1>0, <1>4 DEF EndReplay, Untracked
  <2>3. replays' = replays /\ messageLog' = messageLog
    BY <1>4 DEF EndReplay, auditVars
  <2>4. \A m \in Messages : messageLog'[m].Retries <= messageLog[m].Retries
    BY <1>0, <2>3 DEF Row
  <2> QED
    BY <1>0, <2>1, <2>2, <2>3, <2>4, NothingCharged
<1>5. ASSUME NEW c \in ConnectionIds, Replay(c)
      PROVE  Charged'
  BY <1>3, <1>4, <1>5, ResendPays, UpdateCharges DEF Replay, ReplayReturns, ReplayThrows
<1>6. ASSUME NEW m \in Commands, Handle(m)
      PROVE  Charged'
  <2>1. UNCHANGED <<messageLog, connPc, tracked, replays>>
    BY <1>6
    DEF Handle, HandleConnected, HandleNotConnected, HandlePush, Throttle, ThrottleThrows,
        auditVars, connVars
  <2> QED
    BY <2>1, <1>1 DEF Charging
<1>7. ASSUME NEW k \in Correlations, messageLog' = CompleteCorrelatedMessages(k),
             UNCHANGED <<connVars, replays>>
      PROVE  Charged'
  <2>1. \A m \in Messages : messageLog'[m].Retries = messageLog[m].Retries
    BY <1>0, <1>7 DEF CompleteCorrelatedMessages, Row
  <2> QED
    BY <1>7, <2>1, <1>1 DEF Charging, connVars
<1>8. ASSUME NEW m \in Commands, BrokerPosts(m)
      PROVE  Charged'
  <2>1. CorrelationOf[m] \in Correlations
    OBVIOUS
  <2> QED
    BY <1>8, <2>1, <1>7 DEF BrokerPosts, Acknowledge, AcknowledgeFails, Post, PostFailsHalfway
<1>9. ASSUME NEW k \in Correlations, AuditCompletion(k)
      PROVE  Charged'
  BY <1>9, <1>7 DEF AuditCompletion, CompleteAgain
<1>10. ASSUME NEW m \in Commands, AuditCommand(m)
       PROVE  Charged'
  <2>1. UNCHANGED <<connVars, replays>> /\ \A x \in Messages :
            messageLog'[x].Retries = IF x = m THEN 0 ELSE messageLog[x].Retries
    BY <1>0, <1>10 DEF AuditCommand, LogMessage
  <2> QED
    BY <2>1, <1>1 DEF Charging, connVars
<1>11. ASSUME \/ \E m \in Commands : AuditCommandFails(m)
              \/ \E k \in Correlations : AuditCompletionFails(k)
       PROVE  Charged'
  <2>1. UNCHANGED <<messageLog, connVars, replays>>
    BY <1>11 DEF AuditCommandFails, LogMessageFails, AuditCompletionFails, CompleteAgainFails
  <2> QED
    BY <2>1, <1>1 DEF Charging, connVars
<1>12. CASE Restart
  <2>1. Charging' \subseteq Charging
    BY <1>0, <1>12 DEF Charging, Restart
  <2>2. \A d \in ConnectionIds, m \in Messages :
            tracked'[d][m] \in {tracked[d][m], messageLog[m].Retries, NotTracked}
    BY <1>0, <1>12 DEF Restart, Untracked
  <2>3. replays' = replays /\ messageLog' = messageLog
    BY <1>12 DEF Restart, auditVars
  <2>4. \A m \in Messages : messageLog'[m].Retries <= messageLog[m].Retries
    BY <1>0, <2>3 DEF Row
  <2> QED
    BY <1>0, <2>1, <2>2, <2>3, <2>4, NothingCharged
<1>13. CASE UNCHANGED hubVars
  BY <1>13, <1>1 DEF hubVars, auditVars, connVars, Charging
<1> QED
  BY <1>2, <1>5, <1>6, <1>8, <1>9, <1>10, <1>12, <1>13, <1>11 DEF HubNext

---------------------------------------------------------------------------
(* The theorems.                                                           *)

\* The invariant holds throughout.
LEMMA HubInvariant == HubSpec => []HubInv
BY HubInitEstablishes, HubNextPreserves, PTL DEF HubSpec

\* For any constants the variables of the Hub and of Audit have their types.
THEOREM HubTyped == HubSpec => []HubTypeOK
<1>1. HubInv => HubTypeOK
  BY DEF HubInv
<1> QED
  BY <1>1, HubInvariant, PTL

\* For any brokers and connections, and any order of the events of SignalR, of the
\* callbacks that follow them or throw, and of restarts: once no callback of it is on
\* its way, and unless the last one threw, a connection is listed exactly if it is
\* open.
THEOREM RegistryFollowsSignalR == HubSpec => []RegistryMatchesSignalR
<1>1. HubInv => RegistryMatchesSignalR
  BY DEF HubInv, Registered
<1> QED
  BY <1>1, HubInvariant, PTL

\* For any number of commands, lost pushes, throwing callbacks, failed posts and
\* restarts: a command that never reached its broker can be found and sent again.
THEOREM NothingUndeliveredIsLost == HubSpec => []UndeliveredIsRecoverable
<1>1. HubInv => UndeliveredIsRecoverable
  BY DEF HubInv, Placed, Stamped, Logged, Completed, UndeliveredIsRecoverable
<1> QED
  BY <1>1, HubInvariant, PTL

\* For any number of replays and posts at once: no step takes the stamp of an
\* acknowledged row away.
THEOREM StampsAreFinal == HubSpec => CompletionIsFinal
<1>1. HubInv /\ [HubNext]_hubVars =>
        [\A m \in Messages : messageLog[m].Completed => messageLog'[m].Completed]_hubVars
  BY CommandsKept DEF Completed
<1> QED
  BY <1>1, HubInvariant, PTL DEF HubSpec, CompletionIsFinal

\* For any number of overlapping, failing and interrupted replays, and although
\* they overwrite each other's updates: the rows are never charged for more
\* replays than were pushed.
THEOREM ReplaysAreChargedAtMostOnce == HubSpec => []ChargedForReplays
<1>1. HubInv /\ Charged => ChargedForReplays
  <2> SUFFICES ASSUME HubInv, Charged
               PROVE  ChargedForReplays
    OBVIOUS
  <2> DEFINE retries == [m \in Messages |-> messageLog[m].Retries]
  <2>1. PICK updates \in [Messages -> Nat] : Covers(updates) /\ Paid(updates)
    BY DEF Charged
  <2>2. retries \in [Messages -> Nat] /\ \A m \in Messages : retries[m] <= updates[m]
    BY <2>1 DEF Covers, HubInv, HubTypeOK, AuditTypeOK, Row
  <2>3. /\ IsFiniteSet(Counted(retries))
        /\ Cardinality(Counted(retries)) <= Cardinality(Counted(updates))
    BY <2>1, <2>2, CountGrows DEF Paid
  <2>4. /\ Cardinality(Counted(retries)) \in Nat
        /\ Cardinality(Counted(updates)) \in Nat
        /\ Cardinality(Charging) \in Nat
        /\ Cardinality(Counted(replays)) \in Nat
    BY <2>1, <2>3, FS_CardinalityType DEF Charged, Paid
  <2> QED
    BY <2>1, <2>3, <2>4 DEF Paid, ChargedForReplays
<1>2. HubInit => Charged
  BY ChargedInit
<1>3. HubInv /\ HubInv' /\ Charged /\ [HubNext]_hubVars => Charged'
  BY ChargedKept DEF HubInv
<1> QED
  BY <1>1, <1>2, <1>3, HubInvariant, PTL DEF HubSpec
=============================================================================
