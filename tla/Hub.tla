---------------------------------- MODULE Hub ----------------------------------
(***************************************************************************)
(* The Hub process: the SignalR hub BackOfficeHub, whose callbacks keep    *)
(* the registry of connections and replay unacknowledged commands, and the *)
(* NServiceBus handler that pushes commands to the remote brokers.  It is  *)
(* composed with the registry and with the Audit process, whose table the  *)
(* replay reads and updates.                                               *)
(*                                                                         *)
(* SignalR runs the callbacks of one connection one after the other and    *)
(* those of different connections at the same time; the handler runs with  *)
(* concurrency 1 (Hub/App.config:32), next to them.  A step here is what   *)
(* runs between two points where another thread can be observed: a lock of *)
(* the registry, a statement on the database, a push.                      *)
(*                                                                         *)
(* A push goes to the connections of the broker that SignalR holds to be   *)
(* open at that moment.  It is dropped in silence when there is none, or   *)
(* when the transport loses it.  The broker answers a push it received     *)
(* with any number of acknowledgements posted to Audit; how it gets there  *)
(* is the subject of RemoteInsert, and of their composition RemoteDelivery.*)
(***************************************************************************)
EXTENDS BrokerConnectionManager, AuditLog

CONSTANTS
    BrokerIdOf,     \* the BrokerId of a message
    MaxRetries,     \* replays of a row stop at this many Retries (10 in the code)
    MaxAttempts,    \* failed attempts after which a command is an error
    MaxFaults       \* bound: losses, failing calls and restarts in a behaviour

ASSUME BrokerIdAssumption == BrokerIdOf \in [Messages -> Brokers]
ASSUME HubBoundAssumption ==
    MaxRetries \in Nat /\ MaxAttempts \in Nat \ {0} /\ MaxFaults \in Nat

VARIABLES
    signalr,        \* SignalR's view of a connection
    connPc,         \* where the callback of a connection is
    pending,        \* the commands its replay has still to push
    tracked,        \* the Retries of the rows its AuditContext has loaded
    hubQueue,       \* the queue "Hub"
    handlerPc,      \* where the handler is
    current,        \* the command it handles
    attempts,       \* failed attempts of each command, in memory
    hubErrors,      \* the error queue hub.error
    delivered,      \* history: commands that ever reached the broker
    replays,        \* history: how often a command was replayed
    missed,         \* history: connections whose last callback did not reach the
                    \* registry of this process
    faults          \* counts against MaxFaults

connVars == <<signalr, connPc, pending, tracked>>
handlerVars == <<hubQueue, handlerPc, current, attempts, hubErrors>>
hubVars == <<registryVars, auditVars, connVars, handlerVars, delivered, replays, missed,
             faults>>

NotTracked == -1    \* the AuditContext has not loaded the row
NoCommand == "none"

\* Before the registry is called, and in the replay.
Arriving == {"connected", "reconnected", "disconnected"}
Replaying == {"query", "replay", "charge"}
CallbackPoints == {"idle"} \cup Arriving \cup Replaying

HubTypeOK ==
    /\ TypeOK
    /\ AuditTypeOK
    /\ signalr \in [ConnectionIds -> {"new", "open", "cut", "gone"}]
    /\ connPc \in [ConnectionIds -> CallbackPoints]
    /\ pending \in [ConnectionIds -> SUBSET Commands]
    /\ tracked \in [ConnectionIds -> [Messages -> Nat \cup {NotTracked}]]
    /\ hubQueue \subseteq Commands
    /\ handlerPc \in {"idle", "push", "throttle"}
    /\ current \in Commands \cup {NoCommand}
    /\ attempts \in [Commands -> 0 .. MaxAttempts - 1]
    /\ hubErrors \subseteq Commands
    /\ delivered \subseteq Commands
    /\ replays \in [Commands -> Nat]
    /\ missed \subseteq ConnectionIds
    /\ faults \in 0 .. MaxFaults

Untracked == [m \in Messages |-> NotTracked]

\* The commands of the agreements were sent to the Hub; none is handled yet.
HubInit ==
    /\ RegistryInit
    /\ AuditInit
    /\ signalr = [c \in ConnectionIds |-> "new"]
    /\ connPc = [c \in ConnectionIds |-> "idle"]
    /\ pending = [c \in ConnectionIds |-> {}]
    /\ tracked = [c \in ConnectionIds |-> Untracked]
    /\ hubQueue = Commands
    /\ handlerPc = "idle"
    /\ current = NoCommand
    /\ attempts = [m \in Commands |-> 0]
    /\ hubErrors = {}
    /\ delivered = {}
    /\ replays = [m \in Commands |-> 0]
    /\ missed = {}
    /\ faults = 0

Fault ==
    /\ faults < MaxFaults
    /\ faults' = faults + 1

---------------------------------------------------------------------------
(* Clients.User(b).InsertDocument(m)                                       *)

Open(b) == \E c \in ConnectionIds : BrokerOf[c] = b /\ signalr[c] = "open"

Push(m) ==
    \/ /\ Open(BrokerIdOf[m])
       /\ delivered' = delivered \cup {m}
       /\ UNCHANGED faults
    \/ /\ Open(BrokerIdOf[m])
       /\ Fault
       /\ UNCHANGED delivered
    \/ /\ ~Open(BrokerIdOf[m])
       /\ UNCHANGED <<delivered, faults>>

---------------------------------------------------------------------------
(* SignalR opens and closes connections, and then calls BackOfficeHub.     *)

\* A client connected.  SignalR pushes to it from now on.
Connect(c) ==
    /\ signalr[c] = "new"
    /\ signalr' = [signalr EXCEPT ![c] = "open"]
    /\ connPc' = [connPc EXCEPT ![c] = "connected"]
    /\ UNCHANGED <<registryVars, auditVars, pending, tracked, handlerVars, delivered,
                   replays, missed, faults>>

\* A transport reconnected, after it was slow or after the Hub was restarted.
Reconnect(c) ==
    /\ signalr[c] \in {"open", "cut"}
    /\ connPc[c] = "idle"
    /\ signalr' = [signalr EXCEPT ![c] = "open"]
    /\ connPc' = [connPc EXCEPT ![c] = "reconnected"]
    /\ UNCHANGED <<registryVars, auditVars, pending, tracked, handlerVars, delivered,
                   replays, missed, faults>>

\* The client stopped, or SignalR gave it up after its timeout.
Disconnect(c) ==
    /\ signalr[c] = "open"
    /\ connPc[c] = "idle"
    /\ signalr' = [signalr EXCEPT ![c] = "gone"]
    /\ connPc' = [connPc EXCEPT ![c] = "disconnected"]
    /\ UNCHANGED <<registryVars, auditVars, pending, tracked, handlerVars, delivered,
                   replays, missed, faults>>

---------------------------------------------------------------------------
(* BackOfficeHub: the callbacks of a connection.  Each publishes an event  *)
(* and then calls the registry; the publish, or the parsing of the claims, *)
(* may throw, and then the registry is not called.                         *)

\* The connection is registered, and the replay follows.
OnConnected(c) ==
    /\ connPc[c] = "connected"
    /\ AddConnection(c, BrokerOf[c])
    /\ connPc' = [connPc EXCEPT ![c] = "query"]
    /\ UNCHANGED <<auditVars, signalr, pending, tracked, handlerVars, delivered, replays,
                   missed, faults>>

\* Mutant: the callback of a reconnect leaves the registry alone.
OnReconnectedForgetsBroker(c) ==
    /\ connPc[c] = "reconnected"
    /\ connPc' = [connPc EXCEPT ![c] = "idle"]
    /\ missed' = missed \ {c}
    /\ UNCHANGED <<registryVars, auditVars, signalr, pending, tracked, handlerVars,
                   delivered, replays, faults>>

\* The connection is registered, if it is not; there is no replay.
OnReconnected(c) ==
    /\ connPc[c] = "reconnected"
    /\ AddConnection(c, BrokerOf[c])
    /\ connPc' = [connPc EXCEPT ![c] = "idle"]
    /\ missed' = missed \ {c}
    /\ UNCHANGED <<auditVars, signalr, pending, tracked, handlerVars, delivered, replays,
                   faults>>

\* The connection is removed.
OnDisconnected(c) ==
    /\ connPc[c] = "disconnected"
    /\ RemoveConnection(c)
    /\ connPc' = [connPc EXCEPT ![c] = "idle"]
    /\ missed' = missed \ {c}
    /\ UNCHANGED <<auditVars, signalr, pending, tracked, handlerVars, delivered, replays,
                   faults>>

\* A callback throws before it called the registry: SignalR logs it, and the
\* connection stays as it is.
CallbackThrows(c) ==
    /\ connPc' = [connPc EXCEPT ![c] = "idle"]
    /\ missed' = missed \cup {c}
    /\ Fault
    /\ UNCHANGED <<registryVars, auditVars, signalr, pending, tracked, handlerVars,
                   delivered, replays>>

OnConnectedThrows(c) == connPc[c] = "connected" /\ CallbackThrows(c)

OnReconnectedThrows(c) == connPc[c] = "reconnected" /\ CallbackThrows(c)

OnDisconnectedThrows(c) == connPc[c] = "disconnected" /\ CallbackThrows(c)

---------------------------------------------------------------------------
(* BackOfficeHub: the replay.                                              *)

Unacknowledged(b) ==
    {m \in Commands : /\ messageLog[m].Logged
                      /\ BrokerIdOf[m] = b
                      /\ ~messageLog[m].Completed
                      /\ messageLog[m].Retries < MaxRetries}

\* The query is run once, to a list; its rows stay tracked by the context.
GetUnacknowledgedMessages(c) ==
    /\ connPc[c] = "query"
    /\ LET found == Unacknowledged(BrokerOf[c])
       IN /\ pending' = [pending EXCEPT ![c] = found]
          /\ tracked' = [tracked EXCEPT ![c] =
                [m \in Messages |-> IF m \in found THEN messageLog[m].Retries
                                                   ELSE NotTracked]]
    /\ connPc' = [connPc EXCEPT ![c] = "replay"]
    /\ UNCHANGED <<registryVars, auditVars, signalr, handlerVars, delivered, replays,
                   missed, faults>>

Resend(c, m) ==
    /\ connPc[c] = "replay"
    /\ m \in pending[c]
    /\ Push(m)
    /\ pending' = [pending EXCEPT ![c] = @ \ {m}]
    /\ replays' = [replays EXCEPT ![m] = @ + 1]
    /\ connPc' = [connPc EXCEPT ![c] = "charge"]
    /\ UNCHANGED <<registryVars, auditVars, signalr, tracked, handlerVars, missed>>

\* The Retries of a row as this context sees them: those it loaded first.
Seen(c, m) == IF tracked[c][m] = NotTracked THEN messageLog[m].Retries ELSE tracked[c][m]

\* Mutant: the whole tracked row is written back, with the CompletionDate it
\* had when it was loaded.
UpdateWholeRow(c, m) ==
    /\ connPc[c] = "charge"
    /\ messageLog[m].Logged
    /\ BrokerIdOf[m] = BrokerOf[c]
    /\ messageLog' = [messageLog EXCEPT
            ![m] = [@ EXCEPT !.Retries = Seen(c, m) + 1,
                             !.Completed = (@ /\ tracked[c][m] = NotTracked)]]
    /\ tracked' = [tracked EXCEPT ![c][m] = Seen(c, m) + 1]
    /\ connPc' = [connPc EXCEPT ![c] = "replay"]
    /\ UNCHANGED <<registryVars, auditQueue, auditErrors, completions, acked, signalr, pending,
                   handlerVars, delivered, replays, missed, faults>>

\* Mutant: all the rows of the broker are charged.
UpdateEveryRow(c, m) ==
    /\ connPc[c] = "charge"
    /\ messageLog[m].Logged
    /\ messageLog' = [x \in Messages |->
            IF messageLog[x].Logged /\ BrokerIdOf[x] = BrokerOf[c]
            THEN [messageLog[x] EXCEPT !.Retries = @ + 1] ELSE messageLog[x]]
    /\ connPc' = [connPc EXCEPT ![c] = "replay"]
    /\ UNCHANGED <<registryVars, auditQueue, auditErrors, completions, acked, signalr,
                   pending, tracked,
                   handlerVars, delivered, replays, missed, faults>>

\* UpdateMessageRetries: First takes any row of the broker, not the row of the
\* command just replayed.  Only the column Retries is written.
UpdateMessageRetries(c, m) ==
    /\ connPc[c] = "charge"
    /\ messageLog[m].Logged
    /\ BrokerIdOf[m] = BrokerOf[c]
    /\ messageLog' = [messageLog EXCEPT ![m].Retries = Seen(c, m) + 1]
    /\ tracked' = [tracked EXCEPT ![c][m] = Seen(c, m) + 1]
    /\ connPc' = [connPc EXCEPT ![c] = "replay"]
    /\ UNCHANGED <<registryVars, auditQueue, auditErrors, completions, acked, signalr, pending,
                   handlerVars, delivered, replays, missed, faults>>

\* OnConnected returns, and its context is disposed.
EndReplay(c) ==
    /\ pending' = [pending EXCEPT ![c] = {}]
    /\ tracked' = [tracked EXCEPT ![c] = Untracked]
    /\ connPc' = [connPc EXCEPT ![c] = "idle"]
    /\ UNCHANGED <<registryVars, auditVars, signalr, handlerVars, delivered, replays, missed>>

ReplayReturns(c) ==
    /\ connPc[c] = "replay"
    /\ pending[c] = {}
    /\ EndReplay(c)
    /\ UNCHANGED faults

\* A statement on the database throws, before or after a push.
ReplayThrows(c) ==
    /\ connPc[c] \in Replaying
    /\ Fault
    /\ EndReplay(c)

---------------------------------------------------------------------------
(* InsertDocumentIntoRemoteBackOfficeCommandHandler.                       *)

\* Mutant: the attempt that makes the command an error comes one too late.
HandlerThrowsOnceMore(m) ==
    /\ handlerPc' = "idle"
    /\ current' = NoCommand
    /\ IF attempts[m] < MaxAttempts
       THEN /\ attempts' = [attempts EXCEPT ![m] = @ + 1]
            /\ UNCHANGED <<hubQueue, hubErrors>>
       ELSE /\ hubQueue' = hubQueue \ {m}
            /\ hubErrors' = hubErrors \cup {m}
            /\ UNCHANGED attempts
    /\ UNCHANGED auditQueue

\* The handler throws: the command is tried again, or becomes an error.
HandlerThrows(m) ==
    /\ handlerPc' = "idle"
    /\ current' = NoCommand
    /\ IF attempts[m] + 1 < MaxAttempts
       THEN /\ attempts' = [attempts EXCEPT ![m] = @ + 1]
            /\ UNCHANGED <<hubQueue, hubErrors>>
       ELSE /\ hubQueue' = hubQueue \ {m}
            /\ hubErrors' = hubErrors \cup {m}
            /\ UNCHANGED attempts
    /\ UNCHANGED auditQueue

HandleConnected(m) ==
    /\ handlerPc = "idle"
    /\ m \in hubQueue
    /\ IsBrokerConnected(BrokerIdOf[m])
    /\ handlerPc' = "push"
    /\ current' = m
    /\ UNCHANGED <<registryVars, auditVars, connVars, hubQueue, attempts, hubErrors,
                   delivered, replays, missed, faults>>

HandleNotConnected(m) ==
    /\ handlerPc = "idle"
    /\ m \in hubQueue
    /\ ~IsBrokerConnected(BrokerIdOf[m])
    /\ HandlerThrows(m)
    /\ UNCHANGED <<registryVars, messageLog, auditErrors, completions, acked, connVars, delivered,
                   replays, missed, faults>>

HandlePush(m) ==
    /\ handlerPc = "push"
    /\ current = m
    /\ Push(m)
    /\ handlerPc' = "throttle"
    /\ UNCHANGED <<registryVars, auditVars, connVars, hubQueue, current, attempts, hubErrors,
                   replays, missed>>

\* Mutant: the command is consumed although nothing was sent to Audit.
ThrottleUnaudited(m) ==
    /\ handlerPc = "throttle"
    /\ current = m
    /\ ActiveEntries(BrokerIdOf[m]) # {}
    /\ handlerPc' = "idle"
    /\ current' = NoCommand
    /\ hubQueue' = hubQueue \ {m}
    /\ UNCHANGED <<registryVars, auditVars, attempts, hubErrors, connVars, delivered,
                   replays, missed, faults>>

\* The broker has an active entry: after the wait, if its token is about to
\* expire, the receive commits and the copy of the command goes to Audit.
Throttle(m) ==
    /\ handlerPc = "throttle"
    /\ current = m
    /\ ActiveEntries(BrokerIdOf[m]) # {}
    /\ handlerPc' = "idle"
    /\ current' = NoCommand
    /\ hubQueue' = hubQueue \ {m}
    /\ auditQueue' = auditQueue \cup {m}
    /\ UNCHANGED <<registryVars, messageLog, auditErrors, completions, acked, attempts, hubErrors,
                   connVars, delivered, replays, missed, faults>>

\* The broker left since the check, or only superseded entries of it remain:
\* ActiveBrokerTokenIsDueToExpire throws, after the push.
ThrottleThrows(m) ==
    /\ handlerPc = "throttle"
    /\ current = m
    /\ ActiveEntries(BrokerIdOf[m]) = {}
    /\ HandlerThrows(m)
    /\ UNCHANGED <<registryVars, messageLog, auditErrors, completions, acked, connVars, delivered,
                   replays, missed, faults>>

---------------------------------------------------------------------------
(* The environment: the brokers, Audit, and a restart of the Hub.          *)

\* The broker posts the acknowledgement of a command it received: once, or again
\* for a duplicate or after an answer that was lost, or never.
Acknowledge(m) ==
    /\ m \in delivered
    /\ Post(CorrelationOf[m])
    /\ UNCHANGED <<registryVars, connVars, handlerVars, delivered, replays, missed, faults>>

\* The post fails half way; the broker will post again.
AcknowledgeFails(m) ==
    /\ m \in delivered
    /\ Fault
    /\ PostFailsHalfway(CorrelationOf[m])
    /\ UNCHANGED <<registryVars, connVars, handlerVars, delivered, replays, missed>>

\* Audit takes the copy of a processed command from its queue.
AuditCommand(m) ==
    /\ LogMessage(m)
    /\ UNCHANGED <<registryVars, connVars, handlerVars, delivered, replays, missed, faults>>

AuditCompletion(k) ==
    /\ CompleteAgain(k)
    /\ UNCHANGED <<registryVars, connVars, handlerVars, delivered, replays, missed, faults>>

\* Audit gives a copy up after its retries.
AuditCommandFails(m) ==
    /\ LogMessageFails(m)
    /\ Fault
    /\ UNCHANGED <<registryVars, connVars, handlerVars, delivered, replays, missed>>

AuditCompletionFails(k) ==
    /\ CompleteAgainFails(k)
    /\ Fault
    /\ UNCHANGED <<registryVars, connVars, handlerVars, delivered, replays, missed>>

\* The registry, the counts of attempts and the replays in progress are gone;
\* the command in process is back in the queue; the transports are cut.
Restart ==
    /\ Fault
    /\ ClearBrokerConnections
    /\ signalr' = [c \in ConnectionIds |-> IF signalr[c] = "open" THEN "cut" ELSE signalr[c]]
    /\ connPc' = [c \in ConnectionIds |-> "idle"]
    /\ pending' = [c \in ConnectionIds |-> {}]
    /\ tracked' = [c \in ConnectionIds |-> Untracked]
    /\ handlerPc' = "idle"
    /\ current' = NoCommand
    /\ attempts' = [m \in Commands |-> 0]
    /\ missed' = {}
    /\ UNCHANGED <<auditVars, hubQueue, hubErrors, delivered, replays>>

---------------------------------------------------------------------------

Callback(c) ==
    \/ Connect(c) \/ OnConnected(c) \/ OnConnectedThrows(c)
    \/ Reconnect(c) \/ OnReconnected(c) \/ OnReconnectedThrows(c)
    \/ Disconnect(c) \/ OnDisconnected(c) \/ OnDisconnectedThrows(c)

Replay(c) ==
    \/ GetUnacknowledgedMessages(c)
    \/ \E m \in Commands : Resend(c, m)
    \/ \E m \in Messages : UpdateMessageRetries(c, m)
    \/ ReplayReturns(c) \/ ReplayThrows(c)

Handle(m) ==
    \/ HandleConnected(m) \/ HandleNotConnected(m) \/ HandlePush(m)
    \/ Throttle(m) \/ ThrottleThrows(m)

BrokerPosts(m) == Acknowledge(m) \/ AcknowledgeFails(m)

HubNext ==
    \/ \E c \in ConnectionIds : Callback(c) \/ Replay(c)
    \/ \E m \in Commands : Handle(m) \/ BrokerPosts(m)
    \/ \E m \in Commands : AuditCommand(m) \/ AuditCommandFails(m)
    \/ \E k \in Correlations : AuditCompletion(k) \/ AuditCompletionFails(k)
    \/ Restart

HubSpec == HubInit /\ [][HubNext]_hubVars

---------------------------------------------------------------------------
(* Properties.                                                             *)

\* A command that never reached its broker is not lost, although a push may be
\* dropped without an error: it is in the Hub's queue, or it or its copy for
\* Audit is an error an operator can return, or the copy is on its way to the
\* table, or a row that is not stamped as complete and so is a candidate for
\* the replay.
UndeliveredIsRecoverable ==
    \A m \in Commands \ delivered :
        \/ m \in hubQueue \cup hubErrors \cup auditQueue \cup auditErrors
        \/ messageLog[m].Logged /\ ~messageLog[m].Completed

\* A row stamped with a CompletionDate keeps it, whatever replay works at the
\* same time on the copy of the row it loaded before the acknowledgement.
CompletionIsFinal ==
    [][\A m \in Messages : messageLog[m].Completed => messageLog'[m].Completed]_hubVars

\* The occasions counted by f, one element for each.
Counted(f) == UNION {{m} \X (1 .. f[m]) : m \in DOMAIN f}

\* However replays of a broker's connections overlap, throw or are cut by a
\* restart, the rows are charged for no more replays than were pushed: a row
\* does not lose a replay it never had to a failure between push and update.
ChargedForReplays ==
    Cardinality(Counted([m \in Messages |-> messageLog[m].Retries]))
        <= Cardinality(Counted(replays))

\* SignalR opens and closes a connection before its callback is run, and the
\* callback may throw.  All the same, once no callback of it is on its way to the
\* registry, and unless the last one threw, a connection is listed exactly if
\* SignalR holds it open.  So one callback that succeeds makes up for all that
\* failed, also after a restart emptied the registry; it is what lets the handler
\* trust IsBrokerConnected.
RegistryMatchesSignalR ==
    \A c \in ConnectionIds \ missed :
        connPc[c] \notin Arriving => (Listed(c) <=> signalr[c] = "open")

\* README.md:14, "have not received an acknowledgment": no replay of a command
\* whose acknowledgement was posted.
AckedNotReplayed ==
    [][\A m \in Commands :
            replays'[m] > replays[m] => CorrelationOf[m] \notin acked]_hubVars

\* README.md:14, "the replay criteria of a given date and number of retries": a
\* command is charged for its own replays only, and not kept from being replayed
\* by those of another.
RetriesAreOwnReplays ==
    \A m \in Commands : messageLog[m].Retries <= replays[m]
=============================================================================
