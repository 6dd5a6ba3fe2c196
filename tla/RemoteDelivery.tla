------------------------------ MODULE RemoteDelivery ------------------------------
(***************************************************************************)
(* An agreement from end to end: the saga dispatches its command, the Hub  *)
(* pushes and replays it to the endpoint of the broker, the endpoint       *)
(* inserts the document and posts the acknowledgement to Audit, and Audit  *)
(* has the saga completed.  AgreementSaga, Hub (with the registry and      *)
(* Audit) and RemoteInsert are composed: an action here is the action of   *)
(* one of them, or actions of several joined where they are one step of    *)
(* the code, on both sides of a queue, a push or a post.                   *)
(*                                                                         *)
(* The components make assumptions about each other: Hub, that only a      *)
(* command its broker received is acknowledged; AgreementSaga, that only a *)
(* pushed one is.  The joined actions do not repeat these guards, so that  *)
(* the refinements below show that the assumptions are met.                *)
(*                                                                         *)
(* All agreements are of one remote broker.  A command is named by its     *)
(* agreement: its Message.Id and its CorrelationId are created together.   *)
(* The queue "Hub" is one queue with that of InsertRemote in the saga, and *)
(* the completions on the way to Audit are CompleteAgreementSagaCommands   *)
(* on the way to the saga or copies of processed ones.  A connection that  *)
(* the Hub holds open may belong to an endpoint that crashed; a push to it *)
(* is one of those that SignalR loses.                                     *)
(***************************************************************************)
EXTENDS Naturals, Sequences, FiniteSets

CONSTANTS
    Agreements,     \* the agreements of the broker
    Broker,         \* the broker
    ConnectionIds,  \* the SignalR connections of its endpoint
    NoConnection,   \* sentinel of the registry
    BackOffice,     \* what InsertDocument may do
    MaxAttempts,    \* failed attempts after which a command is an error
    MaxRetries,     \* replays of a row stop at this many
    MaxFaults,      \* bounds of Hub, RemoteInsert and AgreementSaga
    MaxDeliveries,
    MaxCrashes,
    MaxPosts

ASSUME NoConnectionAssumption == NoConnection \notin ConnectionIds
ASSUME BackOfficeAssumption == BackOffice \subseteq {"inserted", "refused", "throws"}
ASSUME AttemptsAssumption == MaxAttempts \in Nat \ {0}
ASSUME BoundAssumption ==
    /\ MaxRetries \in Nat /\ MaxFaults \in Nat /\ MaxDeliveries \in Nat
    /\ MaxCrashes \in Nat /\ MaxPosts \in Nat

VARIABLES
    submitted, inFlight, sagaErrors, saga, remote, posts, dispatched, completed,
    brokerConnections, newest,
    messageLog, auditQueue, auditErrors, completionCopies, acked,
    signalr, connPc, pending, tracked,
    handlerPc, current, hubAttempts, delivered, replays, missed, faults,
    queue, pc, attempts, store, inserts, posted, errors, deliveries, crashes

sagaVars == <<submitted, inFlight, sagaErrors, saga, remote, posts, dispatched, completed>>
connVars == <<signalr, connPc, pending, tracked>>
handlerVars == <<handlerPc, current, hubAttempts>>
hubVars == <<brokerConnections, newest, messageLog, auditQueue, auditErrors,
             completionCopies, acked, connVars, handlerVars, delivered, replays, missed, faults>>
brokerVars == <<queue, pc, attempts, store, inserts, posted, errors, deliveries, crashes>>
vars == <<sagaVars, hubVars, brokerVars>>

S == INSTANCE AgreementSaga WITH
        OnlineAgreements <- {}, errors <- sagaErrors, completions <- completed

R == INSTANCE RemoteInsert WITH Ids <- Agreements

\* The queue "Hub" holds the commands dispatched and not consumed; those not
\* dispatched yet are in the Hub's specification from the start.
HubQueue == {a \in Agreements : dispatched[a] = 0 \/ S!Queued("InsertRemote", a)}

HubErrors == {a \in Agreements : S!Msg("InsertRemote", a) \in sagaErrors}

Completions ==
    completionCopies \cup
        {a \in Agreements : \/ S!Queued("CompleteAgreementSaga", a)
                            \/ S!Msg("CompleteAgreementSaga", a) \in sagaErrors}

H == INSTANCE Hub WITH
        Brokers <- {Broker}, BrokerOf <- [c \in ConnectionIds |-> Broker],
        Messages <- Agreements, Commands <- Agreements, Correlations <- Agreements,
        CorrelationOf <- [a \in Agreements |-> a],
        BrokerIdOf <- [a \in Agreements |-> Broker],
        hubQueue <- HubQueue, hubErrors <- HubErrors, completions <- Completions,
        attempts <- hubAttempts

Init ==
    /\ S!Init
    /\ R!Init
    /\ completionCopies = {}
    /\ H!HubInit

---------------------------------------------------------------------------
(* The data centre before the Hub, and the end of the saga.                *)

Submit(a) ==
    /\ S!Submit(a)
    /\ UNCHANGED <<hubVars, brokerVars>>

\* Mutant: a copy of the SubmitAgreementCommand stamps the rows as well.
PrepareCopied(a) ==
    \/ /\ S!HandleSubmit(a)
       /\ completionCopies' = completionCopies \cup {a}
       /\ UNCHANGED <<brokerConnections, newest, messageLog, auditQueue, auditErrors, acked,
                      connVars, handlerVars, delivered, replays, missed, faults, brokerVars>>
    \/ /\ S!DownloadDocument(a) \/ S!HandleDownloaded(a)
       /\ UNCHANGED <<hubVars, brokerVars>>

\* The steps of an agreement up to its dispatch.
Prepare(a) ==
    /\ S!HandleSubmit(a) \/ S!DownloadDocument(a) \/ S!HandleDownloaded(a)
    /\ UNCHANGED <<hubVars, brokerVars>>

\* CompleteAgreementSagaCommand is processed, with or without a saga, and copied.
CompleteSaga(a) ==
    /\ \/ S!HandleComplete("CompleteAgreementSaga", a)
       \/ S!SagaNotFound("CompleteAgreementSaga", a)
    /\ completionCopies' = completionCopies \cup {a}
    /\ UNCHANGED <<brokerConnections, newest, messageLog, auditQueue, auditErrors, acked,
                   connVars, handlerVars, delivered, replays, missed, faults, brokerVars>>

GiveUp(t, a) ==
    /\ S!GiveUp(t, a)
    /\ UNCHANGED <<hubVars, brokerVars>>

---------------------------------------------------------------------------
(* The Hub.                                                                *)

\* Mutant: the callback acknowledges the command before its document is inserted.
AcknowledgedOnArrival(a) ==
    IF H!Open(Broker) /\ faults' = faults
    THEN /\ deliveries < MaxDeliveries
         /\ deliveries' = deliveries + 1
         /\ queue' = queue \o <<R!Ack(a), R!Insert(a)>>
         /\ UNCHANGED <<pc, attempts, store, inserts, posted, errors, crashes>>
    ELSE UNCHANGED brokerVars

\* A push that is not dropped reaches the queue of the endpoint.
Reaches(a) ==
    IF H!Open(Broker) /\ faults' = faults THEN R!Deliver(a) ELSE UNCHANGED brokerVars

Connection(c) ==
    /\ UNCHANGED <<sagaVars, completionCopies, brokerVars>>
    /\ \/ H!Callback(c) \/ H!GetUnacknowledgedMessages(c)
       \/ \E a \in Agreements : H!UpdateMessageRetries(c, a)
       \/ H!ReplayReturns(c) \/ H!ReplayThrows(c)

Resend(c, a) ==
    /\ UNCHANGED <<sagaVars, completionCopies>>
    /\ H!Resend(c, a)
    /\ Reaches(a)

HandleConnected(a) ==
    /\ S!Queued("InsertRemote", a)
    /\ UNCHANGED <<sagaVars, completionCopies, brokerVars>>
    /\ H!HandleConnected(a)

\* Mutant: the receive commits although nothing was pushed.
HandleUnpushed(a) ==
    /\ handlerPc = "push"
    /\ current = a
    /\ S!Consume("InsertRemote", a)
    /\ handlerPc' = "idle"
    /\ current' = H!NoCommand
    /\ UNCHANGED <<submitted, sagaErrors, saga, remote, posts, dispatched, completed,
                   brokerConnections, newest, messageLog, auditQueue, auditErrors,
                   completionCopies, acked, connVars, hubAttempts, delivered,
                   replays, missed, faults, brokerVars>>

\* The push stands, whatever becomes of the receive.
HandlePush(a) ==
    /\ remote' = remote \cup {a}
    /\ UNCHANGED <<submitted, inFlight, sagaErrors, saga, posts, dispatched, completed,
                   completionCopies>>
    /\ H!HandlePush(a)
    /\ Reaches(a)

Throttle(a) ==
    /\ S!Consume("InsertRemote", a)
    /\ UNCHANGED <<submitted, sagaErrors, saga, remote, posts, dispatched, completed,
                   completionCopies, brokerVars>>
    /\ H!Throttle(a)

\* Mutant: the handler waits for the broker to connect.
HandlerWaits(a) ==
    /\ S!Queued("InsertRemote", a)
    /\ handlerPc = "idle"
    /\ ~H!IsBrokerConnected(Broker)
    /\ UNCHANGED vars

\* The handler throws: the command stays, or goes to the error queue.
HandlerThrows(a) ==
    /\ S!Queued("InsertRemote", a)
    /\ S!GiveUp("InsertRemote", a) \/ UNCHANGED sagaVars
    /\ UNCHANGED <<completionCopies, brokerVars>>
    /\ H!HandleNotConnected(a) \/ H!ThrottleThrows(a)

Restart ==
    /\ UNCHANGED <<sagaVars, completionCopies, brokerVars>>
    /\ H!Restart

---------------------------------------------------------------------------
(* Audit.                                                                  *)

\* Audit writes the row, or gives the copy of the command up.
AuditCommand(a) ==
    /\ UNCHANGED <<sagaVars, completionCopies, brokerVars>>
    /\ H!AuditCommand(a) \/ H!AuditCommandFails(a)

\* Audit stamps the rows again, or gives the copy of the completion up.
AuditCompletion(a) ==
    /\ a \in completionCopies
    /\ completionCopies' \in {completionCopies, completionCopies \ {a}}
    /\ UNCHANGED <<sagaVars, brokerVars>>
    /\ H!AuditCompletion(a) \/ H!AuditCompletionFails(a)

---------------------------------------------------------------------------
(* The endpoint of the broker.                                             *)

\* What the endpoint does by itself.
Endpoint(i) ==
    /\ \/ R!HandleDuplicate(i) \/ R!AddMessageId(i) \/ R!InsertDocument(i) \/ R!Complete(i)
       \/ R!AckHandled(i) \/ R!Failure(i)
    /\ UNCHANGED <<sagaVars, hubVars>>

\* The acknowledgement reaches AcknowledgementController.Post, which stamps the
\* rows and sends to the saga.
PostAcknowledgement(i) ==
    /\ R!PostAcknowledgment(i)
    /\ posts[i] < MaxPosts
    /\ posts' = [posts EXCEPT ![i] = @ + 1]
    /\ S!Send("CompleteAgreementSaga", i)
    /\ UNCHANGED <<submitted, sagaErrors, saga, remote, dispatched, completed>>
    /\ UNCHANGED <<brokerConnections, newest, completionCopies, connVars, handlerVars,
                   delivered, replays, missed, faults>>
    /\ H!Post(i)

\* Mutant: the failed send is swallowed, and the status is a success.
PostHalfwaySucceeds(i) ==
    /\ R!PostAcknowledgment(i)
    /\ H!Fault
    /\ UNCHANGED <<sagaVars, brokerConnections, newest, completionCopies, connVars, handlerVars,
                   delivered, replays, missed>>
    /\ H!PostFailsHalfway(i)

\* The bus throws after the rows were stamped: the endpoint sees a status 500.
PostHalfway(i) ==
    /\ R!PostAcknowledgmentFails(i)
    /\ H!Fault
    /\ UNCHANGED <<sagaVars, brokerConnections, newest, completionCopies, connVars, handlerVars,
                   delivered, replays, missed>>
    /\ H!PostFailsHalfway(i)

Crash ==
    /\ R!Crash
    /\ UNCHANGED <<sagaVars, hubVars>>

---------------------------------------------------------------------------

SagaStep(a) ==
    \/ Prepare(a) \/ CompleteSaga(a)
    \/ \E t \in S!Types \ {"InsertRemote"} : GiveUp(t, a)

HubStep(a) == HandleConnected(a) \/ HandlePush(a) \/ Throttle(a) \/ HandlerThrows(a)

EndpointStep(a) == Endpoint(a) \/ PostAcknowledgement(a) \/ PostHalfway(a)

Next ==
    \/ \E a \in Agreements :
            \/ Submit(a) \/ SagaStep(a) \/ HubStep(a) \/ EndpointStep(a)
            \/ AuditCommand(a) \/ AuditCompletion(a)
            \/ \E c \in ConnectionIds : Resend(c, a)
    \/ \E c \in ConnectionIds : Connection(c)
    \/ Restart
    \/ Crash

\* Every endpoint goes on with its queue.
Fairness ==
    /\ \A a \in Agreements : WF_vars(SagaStep(a)) /\ WF_vars(AuditCommand(a))
    /\ WF_vars(\E a \in Agreements : HubStep(a))
    /\ WF_vars(\E a \in Agreements : EndpointStep(a))

Spec == Init /\ [][Next]_vars
FairSpec == Spec /\ Fairness

---------------------------------------------------------------------------
(* Properties.                                                             *)

\* What Hub assumes of the brokers and of the saga is so: only commands that
\* reached the broker are acknowledged, and completions are copied to Audit only
\* after that.  Every invariant of Hub holds of the composed system.
ImplementsHub == H!HubSpec

\* What AgreementSaga assumes of the Hub and the broker is so: the command of an
\* agreement is consumed only after it was pushed, and only then acknowledged.
ImplementsSaga == S!Spec

\* The saga of an agreement completes only after the attempt to insert its document
\* is over, through pushes lost and repeated, restarts of the Hub, a crash of the
\* endpoint, and acknowledgements that overtake the audit copy.  There is one
\* attempt, and it may have failed: see SuccessMeansInserted of RemoteInsert.
Attempt == INSTANCE SingleAttempt WITH
        Ids <- Agreements, attempt <- R!attempt,
        answered <- {a \in Agreements : completed[a] > 0}

CompletesAfterAttempt == Attempt!Spec

InErrorQueue(a) ==
    \/ \E t \in S!Types : S!Msg(t, a) \in sagaErrors
    \/ {R!Insert(a), R!Ack(a)} \cap errors # {}

\* An agreement that was submitted and is not completed is not forgotten by all
\* processes at once: a message of it, its row without a CompletionDate, or its
\* acknowledgement is somewhere it will be found.  The post that stamps the row
\* and then fails to reach the saga is the critical step.
NothingForgotten ==
    \A a \in submitted :
        \/ completed[a] > 0
        \/ \E t \in S!Types : S!Queued(t, a)
        \/ a \in auditQueue \cup auditErrors
        \/ messageLog[a].Logged /\ ~messageLog[a].Completed
        \/ R!InQueue(R!Insert(a)) \/ R!InQueue(R!Ack(a))
        \/ InErrorQueue(a)

\* Every submitted agreement is completed, or one of its messages or the copy for
\* Audit ends in an error queue, or its row waits for the broker to connect again;
\* and once the command reached the broker, neither another connection nor Audit's
\* queue is needed to complete it.
EveryAgreementSettles ==
    \A a \in Agreements :
        /\ a \in submitted ~>
                \/ completed[a] > 0
                \/ InErrorQueue(a) \/ a \in auditErrors
                \/ messageLog[a].Logged /\ ~messageLog[a].Completed
        /\ a \in delivered ~> (completed[a] > 0 \/ InErrorQueue(a))
=============================================================================
