--------------------------- MODULE RemoteDelivery_proofs ---------------------------
(***************************************************************************)
(* The composed system keeps what its components assume of each other, for *)
(* any agreements and connections and any losses, retries and crashes.     *)
(*                                                                         *)
(* Hub assumes that only commands its broker received are acknowledged,    *)
(* and AgreementSaga that only pushed ones are.  Neither assumption holds  *)
(* by the invariant of one component; both rest on the invariant of the    *)
(* other two and on what ties the three together:                          *)
(*   Arrived   what is in the queue of the endpoint was delivered,         *)
(*   Pushed    what has left the Hub was pushed,                           *)
(*   Handled   the command in the handler is still in its queue,           *)
(*   Answered  what is on the way to the saga was posted, after the        *)
(*             attempt to insert it, whatever came of that.                *)
(* Together they are inductive, and every step is a step of each component *)
(* or invisible to it, so that the theorems about the components hold here.*)
(***************************************************************************)
EXTENDS RemoteDelivery, TLAPS

SP == INSTANCE AgreementSaga_proofs WITH
        OnlineAgreements <- {}, errors <- sagaErrors, completions <- completed

RP == INSTANCE RemoteInsert_proofs WITH Ids <- Agreements

HP == INSTANCE Hub_proofs WITH
        Brokers <- {Broker}, BrokerOf <- [c \in ConnectionIds |-> Broker],
        Messages <- Agreements, Commands <- Agreements, Correlations <- Agreements,
        CorrelationOf <- [a \in Agreements |-> a],
        BrokerIdOf <- [a \in Agreements |-> Broker],
        hubQueue <- HubQueue, hubErrors <- HubErrors, completions <- Completions,
        attempts <- hubAttempts

---------------------------------------------------------------------------
(* The modules of proofs extend the components: what they say of their     *)
(* instance is so of the instance in RemoteDelivery.                       *)

\* The Hub, the registry and Audit.
LEMMA SameHub ==
    /\ H!HubInit <=> HP!HubInit
    /\ [H!HubNext]_H!hubVars <=> [HP!HubNext]_HP!hubVars
BY DEF H!HubNext, HP!HubNext, H!AuditCommand, HP!AuditCommand, H!LogMessage, HP!LogMessage,
    H!connVars, HP!connVars, H!auditVars, HP!auditVars, H!handlerVars, HP!handlerVars,
    H!hubVars, HP!hubVars, H!registryVars, HP!registryVars, H!AuditCompletion,
    HP!AuditCompletion, H!CompleteAgain, HP!CompleteAgain, H!CompleteCorrelatedMessages,
    HP!CompleteCorrelatedMessages, H!BrokerPosts, HP!BrokerPosts, H!Acknowledge,
    HP!Acknowledge, H!Post, HP!Post, H!AcknowledgeFails, HP!AcknowledgeFails, H!Fault,
    HP!Fault, H!PostFailsHalfway, HP!PostFailsHalfway, H!Callback, HP!Callback,
    H!OnConnected, HP!OnConnected, H!AddConnection, HP!AddConnection,
    H!ExpireSuperceededConnections, HP!ExpireSuperceededConnections, H!Listed, HP!Listed,
    H!OnConnectedThrows, HP!OnConnectedThrows, H!OnDisconnected, HP!OnDisconnected,
    H!RemoveConnection, HP!RemoveConnection, H!OnDisconnectedThrows,
    HP!OnDisconnectedThrows, H!OnReconnected, HP!OnReconnected, H!Handle, HP!Handle,
    H!HandleConnected, HP!HandleConnected, H!IsBrokerConnected, HP!IsBrokerConnected,
    H!HandleNotConnected, HP!HandleNotConnected, H!HandlerThrows, HP!HandlerThrows,
    H!NoCommand, HP!NoCommand, H!HandlePush, HP!HandlePush, H!Push, HP!Push, H!Open,
    HP!Open, H!Throttle, HP!Throttle, H!ActiveEntries, HP!ActiveEntries, H!ThrottleThrows,
    HP!ThrottleThrows, H!Replay, HP!Replay, H!GetUnacknowledgedMessages,
    HP!GetUnacknowledgedMessages, H!NotTracked, HP!NotTracked, H!Unacknowledged,
    HP!Unacknowledged, H!ReplayReturns, HP!ReplayReturns, H!EndReplay, HP!EndReplay,
    H!Untracked, HP!Untracked, H!ReplayThrows, HP!ReplayThrows, H!Resend, HP!Resend,
    H!UpdateMessageRetries, HP!UpdateMessageRetries, H!Seen, HP!Seen, H!Restart, HP!Restart,
    H!ClearBrokerConnections, HP!ClearBrokerConnections, H!HubInit, HP!HubInit, H!AuditInit,
    HP!AuditInit, H!RegistryInit, HP!RegistryInit, H!Connect, HP!Connect, H!Reconnect,
    HP!Reconnect, H!Disconnect, HP!Disconnect, H!CallbackThrows, HP!CallbackThrows,
    H!OnReconnectedThrows, HP!OnReconnectedThrows, H!Replaying, HP!Replaying,
    H!AuditCommandFails, HP!AuditCommandFails, H!LogMessageFails, HP!LogMessageFails,
    H!AuditCompletionFails, HP!AuditCompletionFails, H!CompleteAgainFails,
    HP!CompleteAgainFails

\* The saga.
LEMMA SameSaga ==
    /\ S!Init <=> SP!Init
    /\ [S!Next]_S!vars <=> [SP!Next]_SP!vars
BY DEF S!Next, SP!Next, S!Handle, SP!Handle, S!Completing, SP!Completing, S!DownloadDocument,
    SP!DownloadDocument, S!Forward, SP!Forward, S!Msg, SP!Msg, S!Queued, SP!Queued,
    S!GiveUp, SP!GiveUp, S!Consume, SP!Consume, S!HandleComplete, SP!HandleComplete,
    S!HandleDownloaded, SP!HandleDownloaded, S!InsertOnline, SP!InsertOnline,
    S!HandleSubmit, SP!HandleSubmit, S!HubCommits, SP!HubCommits, S!HubPushes, SP!HubPushes,
    S!SagaNotFound, SP!SagaNotFound, S!Types, SP!Types, S!PostAcknowledgement,
    SP!PostAcknowledgement, S!Send, SP!Send, S!Submit, SP!Submit, S!vars, SP!vars, S!Init,
    SP!Init, S!Message, SP!Message

\* The endpoint, with its mapping to SingleAttempt.
LEMMA SameEndpoint ==
    /\ R!Init <=> RP!Init
    /\ [R!Next]_R!vars <=> [RP!Next]_RP!vars
    /\ R!attempt = RP!attempt /\ R!attempt' = RP!attempt'
BY DEF R!Next, RP!Next, R!Crash, RP!Crash, R!Deliver, RP!Deliver, R!Insert, RP!Insert, R!Ack,
    RP!Ack, R!Failure, RP!Failure, R!AckHandlerThrows, RP!AckHandlerThrows, R!At, RP!At,
    R!Rollback, RP!Rollback, R!CompleteFails, RP!CompleteFails, R!InsertDocumentFails,
    RP!InsertDocumentFails, R!MessageStoreThrows, RP!MessageStoreThrows,
    R!PostAcknowledgmentFails, RP!PostAcknowledgmentFails, R!Progress, RP!Progress,
    R!AckHandled, RP!AckHandled, R!Commit, RP!Commit, R!AddMessageId, RP!AddMessageId,
    R!MessageExists, RP!MessageExists, R!Complete, RP!Complete, R!HandleDuplicate,
    RP!HandleDuplicate, R!InsertDocument, RP!InsertDocument, R!PostAcknowledgment,
    RP!PostAcknowledgment, R!vars, RP!vars, R!Init, RP!Init, R!attempt, RP!attempt,
    R!InQueue, RP!InQueue

\* The constants of the instances are as the components assume.
LEMMA HubAssumptions ==
    /\ [c \in ConnectionIds |-> Broker] \in [ConnectionIds -> {Broker}]
    /\ NoConnection \notin ConnectionIds
    /\ Agreements \subseteq Agreements
    /\ [a \in Agreements |-> a] \in [Agreements -> Agreements]
    /\ \A m, n \in Agreements :
            [a \in Agreements |-> a][m] = [a \in Agreements |-> a][n] => m = n
    /\ [a \in Agreements |-> Broker] \in [Agreements -> {Broker}]
    /\ MaxRetries \in Nat /\ MaxAttempts \in Nat \ {0} /\ MaxFaults \in Nat
BY NoConnectionAssumption, AttemptsAssumption, BoundAssumption

\* No agreement of this broker is online.
LEMMA SagaAssumptions == {} \subseteq Agreements /\ MaxPosts \in Nat
BY BoundAssumption

\* The endpoint takes its constants over.
LEMMA EndpointAssumptions ==
    /\ BackOffice \subseteq {"inserted", "refused", "throws"}
    /\ MaxAttempts \in Nat \ {0} /\ MaxDeliveries \in Nat /\ MaxCrashes \in Nat
BY BackOfficeAssumption, AttemptsAssumption, BoundAssumption

\* The invariants of the components hold at first.
LEMMA ComponentsStart ==
    Init => SP!IInv /\ RP!IInv /\ HP!HubInv
<1>1. S!Init => SP!IInv
  BY SameSaga, SagaAssumptions, SP!InitInv
<1>2. R!Init => RP!IInv
  BY SameEndpoint, EndpointAssumptions, RP!InitEstablishes
<1>3. H!HubInit => HP!HubInv
  BY SameHub, HubAssumptions, HP!HubInitEstablishes
<1> QED
  BY <1>1, <1>2, <1>3 DEF Init

\* A step of a component keeps its invariant.
LEMMA ComponentsKept ==
    /\ SP!IInv /\ [S!Next]_S!vars => SP!IInv'
    /\ RP!IInv /\ [R!Next]_R!vars => RP!IInv'
    /\ HP!HubInv /\ [H!HubNext]_H!hubVars => HP!HubInv'
<1>1. SP!IInv /\ [S!Next]_S!vars => SP!IInv'
  BY SameSaga, SagaAssumptions, SP!NextInv
<1>2. RP!IInv /\ [R!Next]_R!vars => RP!IInv'
  BY SameEndpoint, EndpointAssumptions, RP!NextPreserves
<1>3. HP!HubInv /\ [H!HubNext]_H!hubVars => HP!HubInv'
  BY SameHub, HubAssumptions, HP!HubNextPreserves
<1> QED
  BY <1>1, <1>2, <1>3
---------------------------------------------------------------------------
(* The invariant.                                                          *)

\* What is in the queue of the endpoint was delivered.
Arrived == RP!Known \subseteq delivered

\* What was delivered, audited or logged, or is to be replayed, was pushed.
Pushed == HP!Out \subseteq remote

\* The command in the handler is still queued, and after the push it is pushed.
Handled ==
    /\ handlerPc # "idle" => current \in Agreements /\ S!Queued("InsertRemote", current)
    /\ handlerPc = "throttle" => current \in remote

\* CompleteAgreementSaga is queued, or was processed and copied.
Completing(a) == S!Queued("CompleteAgreementSaga", a) \/ a \in completionCopies

\* What is on the way to the saga was posted, after the attempt to insert it.
Answered ==
    /\ \A a \in posted : posts[a] > 0 /\ R!attempt[a] = "over"
    /\ \A a \in Agreements : Completing(a) => a \in posted
    /\ acked \subseteq store

DInv ==
    /\ SP!IInv /\ RP!IInv /\ HP!HubInv
    /\ Arrived /\ Pushed /\ Handled /\ Answered

\* The types of the components, as far as they are needed here.
LEMMA ComponentTypes ==
    ASSUME DInv
    PROVE  /\ submitted \subseteq Agreements /\ remote \subseteq Agreements
           /\ sagaErrors \subseteq S!Message
           /\ inFlight \in [S!Message -> Nat]
           /\ saga \in [Agreements -> {"absent", "submitted", "downloaded"}]
           /\ posts \in [Agreements -> Nat]
           /\ dispatched \in [Agreements -> Nat]
           /\ completed \in [Agreements -> Nat]
           /\ delivered \subseteq Agreements /\ faults \in Nat
           /\ posted \subseteq store /\ store \subseteq Agreements
BY BoundAssumption
DEF DInv, SP!IInv, SP!TypeOK, SP!Message, SP!Types, S!Message, S!Types, RP!IInv, RP!TypeOK,
    RP!Claimed, HP!HubInv, HP!HubTypeOK

---------------------------------------------------------------------------
(* The queues of the saga, by what is in them.                             *)

\* A message is named by its type and its agreement.
LEMMA MessagesDiffer ==
    \A t \in S!Types, a \in Agreements :
        /\ S!Msg(t, a) \in S!Message
        /\ \A u \in S!Types, b \in Agreements : u # t \/ b # a => S!Msg(u, b) # S!Msg(t, a)
BY DEF S!Msg, S!Message

\* A message sent is queued, and no other is touched.
LEMMA SendQueues ==
    ASSUME DInv, NEW t \in S!Types, NEW a \in Agreements, S!Send(t, a)
    PROVE  /\ S!Queued(t, a)'
           /\ \A u \in S!Types, b \in Agreements :
                u # t \/ b # a => (S!Queued(u, b)' <=> S!Queued(u, b))
BY ComponentTypes, MessagesDiffer DEF S!Send, S!Queued

\* Only the message consumed may be gone.
LEMMA ConsumeQueues ==
    ASSUME DInv, NEW t \in S!Types, NEW a \in Agreements, S!Consume(t, a)
    PROVE  /\ S!Queued(t, a)
           /\ \A u \in S!Types, b \in Agreements :
                u # t \/ b # a => (S!Queued(u, b)' <=> S!Queued(u, b))
BY ComponentTypes, MessagesDiffer DEF S!Consume, S!Queued

\* The message forwarded is queued, and only its cause may be gone.
LEMMA ForwardQueues ==
    ASSUME DInv, NEW t \in S!Types, NEW u \in S!Types \ {t}, NEW a \in Agreements,
           S!Forward(t, u, a)
    PROVE  /\ S!Queued(t, a) /\ S!Queued(u, a)'
           /\ \A v \in S!Types, b \in Agreements :
                b # a \/ (v # t /\ v # u) => (S!Queued(v, b)' <=> S!Queued(v, b))
BY ComponentTypes, MessagesDiffer DEF S!Forward, S!Queued

---------------------------------------------------------------------------
(* The steps.                                                              *)

\* The handler stops, or its command stays queued and is pushed at most.
HandlerGoesOn ==
    \/ handlerPc' = "idle"
    \/ /\ current' \in Agreements /\ S!Queued("InsertRemote", current)'
       /\ \/ UNCHANGED <<handlerPc, current>>
          \/ handlerPc = "idle" /\ handlerPc' = "push"
          \/ handlerPc = "push" /\ current' = current /\ current \in remote'

\* Only a queued CompleteAgreementSaga completes a saga, and the endpoint rests.
CompletesQueued ==
    \/ completed' = completed
    \/ /\ UNCHANGED brokerVars
       /\ \E a \in Agreements :
            /\ S!Queued("CompleteAgreementSaga", a)
            /\ completed' = [completed EXCEPT ![a] = @ + 1]

\* What a step does to the ties between the components.
Tied ==
    /\ RP!Known' \subseteq RP!Known \cup delivered'
    /\ HandlerGoesOn
    /\ \A a \in posted' : a \in posted \/ posts'[a] > 0
    /\ \A a \in Agreements : Completing(a)' => Completing(a) \/ a \in posted'
    /\ acked' \subseteq acked \cup store
    /\ CompletesQueued

\* A step of each component, or one that it does not see.
Composed ==
    /\ [S!Next]_S!vars /\ [H!HubNext]_H!hubVars /\ [R!Next]_R!vars
    /\ Tied

\* A handler that a step leaves alone goes on, if its command stays queued.
LEMMA HandlerLeft ==
    ASSUME DInv, UNCHANGED <<handlerPc, current>>,
           \A a \in Agreements :
                S!Queued("InsertRemote", a) => S!Queued("InsertRemote", a)'
    PROVE  HandlerGoesOn
BY DEF DInv, Handled, HandlerGoesOn, S!Queued, S!Msg

\* The endpoint and the variables of the Hub and Audit rest while the saga works.
LEMMA SagaAlone ==
    ASSUME DInv, [S!Next]_S!vars, UNCHANGED brokerVars,
           UNCHANGED <<brokerConnections, newest, messageLog, auditQueue, auditErrors, acked,
                       connVars, handlerVars, delivered, replays, missed, faults>>,
           HubQueue' = HubQueue, HubErrors' = HubErrors, Completions' = Completions,
           \A a \in Agreements :
                S!Queued("InsertRemote", a) => S!Queued("InsertRemote", a)',
           \A a \in Agreements : Completing(a)' => Completing(a),
           CompletesQueued
    PROVE  Composed
<1>1. UNCHANGED H!hubVars
  BY DEF H!hubVars, H!registryVars, H!auditVars, H!connVars, H!handlerVars, connVars, handlerVars
<1>2. UNCHANGED R!vars
  BY DEF R!vars, brokerVars
<1>3. RP!Known' = RP!Known /\ posted' = posted
  BY DEF brokerVars, RP!Known, RP!Queued, RP!Elements, RP!Insert, RP!Ack
<1>4. HandlerGoesOn
  BY HandlerLeft DEF handlerVars
<1> QED
  BY <1>1, <1>2, <1>3, <1>4 DEF Composed, Tied

\* The steps of an agreement up to its dispatch, and those that end its saga.
LEMMA SagaComposed ==
    ASSUME DInv, NEW a \in Agreements, Submit(a) \/ SagaStep(a)
    PROVE  Composed
<1>0. /\ {"InsertRemote", "CompleteAgreementSaga", "SubmitAgreement", "DownloadDocument",
          "DocumentDownloaded"} \subseteq S!Types
      /\ \A t \in S!Types : S!Queued(t, a) <=> SP!Queued(t, a)
  BY DEF S!Types, S!Queued, SP!Queued, S!Msg, SP!Msg
<1>1. CASE Submit(a)
  <2>1. S!Submit(a) /\ UNCHANGED <<hubVars, brokerVars, sagaErrors, dispatched, completed>>
    BY <1>1 DEF Submit, S!Submit
  <2>2. \A b \in Agreements, t \in {"InsertRemote", "CompleteAgreementSaga"} :
            S!Queued(t, b)' <=> S!Queued(t, b)
    BY <1>0, <2>1, SendQueues DEF S!Submit
  <2>3. HubQueue' = HubQueue /\ HubErrors' = HubErrors /\ Completions' = Completions
    BY <2>1, <2>2 DEF HubQueue, HubErrors, Completions, hubVars, S!Msg
  <2>4. [S!Next]_S!vars
    BY <2>1 DEF S!Next
  <2> QED
    BY <2>1, <2>2, <2>3, <2>4, SagaAlone DEF hubVars, Completing, CompletesQueued
<1>2. CASE S!HandleSubmit(a) /\ UNCHANGED <<hubVars, brokerVars>>
  <2>1. UNCHANGED <<sagaErrors, dispatched, completed>>
    BY <1>2 DEF S!HandleSubmit
  <2>2. \A b \in Agreements, t \in {"InsertRemote", "CompleteAgreementSaga"} :
            S!Queued(t, b)' <=> S!Queued(t, b)
    BY <1>0, <1>2, ForwardQueues DEF S!HandleSubmit
  <2>3. HubQueue' = HubQueue /\ HubErrors' = HubErrors /\ Completions' = Completions
    BY <1>2, <2>1, <2>2 DEF HubQueue, HubErrors, Completions, hubVars, S!Msg
  <2>4. [S!Next]_S!vars
    BY <1>2 DEF S!Next, S!Handle
  <2> QED
    BY <1>2, <2>1, <2>2, <2>3, <2>4, SagaAlone DEF hubVars, Completing, CompletesQueued
<1>3. CASE S!DownloadDocument(a) /\ UNCHANGED <<hubVars, brokerVars>>
  <2>1. UNCHANGED <<sagaErrors, dispatched, completed>>
    BY <1>3 DEF S!DownloadDocument
  <2>2. \A b \in Agreements, t \in {"InsertRemote", "CompleteAgreementSaga"} :
            S!Queued(t, b)' <=> S!Queued(t, b)
    BY <1>0, <1>3, ForwardQueues DEF S!DownloadDocument
  <2>3. HubQueue' = HubQueue /\ HubErrors' = HubErrors /\ Completions' = Completions
    BY <1>3, <2>1, <2>2 DEF HubQueue, HubErrors, Completions, hubVars, S!Msg
  <2>4. [S!Next]_S!vars
    BY <1>3 DEF S!Next, S!Handle
  <2> QED
    BY <1>3, <2>1, <2>2, <2>3, <2>4, SagaAlone DEF hubVars, Completing, CompletesQueued
<1>4. CASE S!HandleDownloaded(a) /\ UNCHANGED <<hubVars, brokerVars>>
  <2>1. UNCHANGED <<sagaErrors, completed>> /\ dispatched' = [dispatched EXCEPT ![a] = @ + 1]
    BY <1>4 DEF S!HandleDownloaded
  <2>2. S!Forward("DocumentDownloaded", "InsertRemote", a)
    BY <1>4 DEF S!HandleDownloaded
  <2>3. /\ S!Queued("DocumentDownloaded", a) /\ S!Queued("InsertRemote", a)'
        /\ \A b \in Agreements, t \in {"InsertRemote", "CompleteAgreementSaga"} :
                b # a \/ t # "InsertRemote" => (S!Queued(t, b)' <=> S!Queued(t, b))
    BY <1>0, <2>2, ForwardQueues
  <2>4. dispatched[a] = 0
    BY <1>0, <2>3 DEF DInv, SP!IInv, SP!AInv, SP!AfterDispatch, SP!Early
  <2>5. HubQueue' = HubQueue
    BY <2>1, <2>3, <2>4, ComponentTypes DEF HubQueue
  <2>6. HubErrors' = HubErrors /\ Completions' = Completions
    BY <1>4, <2>1, <2>3 DEF HubErrors, Completions, hubVars, S!Msg
  <2>7. [S!Next]_S!vars
    BY <1>4 DEF S!Next, S!Handle
  <2> QED
    BY <1>4, <2>1, <2>3, <2>5, <2>6, <2>7, SagaAlone DEF hubVars, Completing, CompletesQueued
<1>5. CASE CompleteSaga(a)
  <2>1. /\ S!Consume("CompleteAgreementSaga", a)
        /\ completionCopies' = completionCopies \cup {a}
        /\ completed' \in {completed, [completed EXCEPT ![a] = @ + 1]}
        /\ UNCHANGED <<sagaErrors, dispatched, brokerVars>>
    BY <1>5 DEF CompleteSaga, S!HandleComplete, S!SagaNotFound
  <2>2. /\ S!Queued("CompleteAgreementSaga", a)
        /\ \A b \in Agreements, t \in {"InsertRemote", "CompleteAgreementSaga"} :
                b # a \/ t # "CompleteAgreementSaga" => (S!Queued(t, b)' <=> S!Queued(t, b))
    BY <1>0, <2>1, ConsumeQueues
  <2>3. HubQueue' = HubQueue /\ HubErrors' = HubErrors
    BY <2>1, <2>2 DEF HubQueue, HubErrors, S!Msg
  <2>4. Completions' = Completions
    BY <2>1, <2>2 DEF Completions, S!Msg
  <2>5. [S!Next]_S!vars
    BY <1>5 DEF CompleteSaga, S!Next, S!Handle, S!Completing
  <2>6. CompletesQueued /\ \A b \in Agreements : Completing(b)' => Completing(b)
    BY <2>1, <2>2 DEF CompletesQueued, Completing
  <2> QED
    BY <1>5, <2>1, <2>2, <2>3, <2>4, <2>5, <2>6, SagaAlone DEF CompleteSaga
<1>6. ASSUME NEW t \in S!Types \ {"InsertRemote"}, GiveUp(t, a)
      PROVE  Composed
  <2>1. /\ S!Consume(t, a)
        /\ sagaErrors' = sagaErrors \cup {S!Msg(t, a)}
        /\ UNCHANGED <<dispatched, completed, hubVars, brokerVars>>
    BY <1>6 DEF GiveUp, S!GiveUp
  <2>2. /\ S!Queued(t, a)
        /\ \A b \in Agreements, u \in {"InsertRemote", "CompleteAgreementSaga"} :
                b # a \/ u # t => (S!Queued(u, b)' <=> S!Queued(u, b))
    BY <1>0, <2>1, ConsumeQueues
  <2>3. \A b \in Agreements, u \in {"InsertRemote", "CompleteAgreementSaga"} :
            b # a \/ u # t => (S!Msg(u, b) \in sagaErrors' <=> S!Msg(u, b) \in sagaErrors)
    BY <1>0, <2>1, MessagesDiffer
  <2>4. HubQueue' = HubQueue /\ HubErrors' = HubErrors
    BY <2>1, <2>2, <2>3 DEF HubQueue, HubErrors, S!Msg
  <2>5. Completions' = Completions
    BY <2>1, <2>2, <2>3 DEF Completions, S!Msg, hubVars
  <2>6. [S!Next]_S!vars
    BY <1>6 DEF GiveUp, S!Next, S!Handle
  <2>7. CompletesQueued /\ \A b \in Agreements : Completing(b)' => Completing(b)
    BY <2>1, <2>2 DEF CompletesQueued, Completing, hubVars
  <2> QED
    BY <1>6, <2>1, <2>2, <2>4, <2>5, <2>6, <2>7, SagaAlone DEF hubVars
<1> QED
  BY <1>1, <1>2, <1>3, <1>4, <1>5, <1>6 DEF SagaStep, Prepare

\* A push that is not dropped reaches the queue of the endpoint as delivered;
\* no other push does.
LEMMA PushArrives ==
    ASSUME DInv, NEW a \in Agreements, H!Push(a), Reaches(a)
    PROVE  /\ [R!Next]_R!vars
           /\ RP!Known' \subseteq RP!Known \cup delivered'
           /\ UNCHANGED <<store, posted>>
<1>1. CASE H!Open(Broker) /\ faults' = faults
  <2>1. a \in delivered'
    BY <1>1, ComponentTypes DEF H!Push, H!Fault
  <2>2. R!Deliver(a) /\ RP!Deliver(a)
    BY <1>1 DEF Reaches, R!Deliver, RP!Deliver, R!Insert, RP!Insert
  <2>3. RP!Known' \subseteq RP!Known \cup {a}
    BY <2>2, EndpointAssumptions, RP!DeliverMakesKnown DEF DInv
  <2> QED
    BY <2>1, <2>2, <2>3 DEF R!Next, R!Deliver
<1>2. CASE UNCHANGED brokerVars
  BY <1>2 DEF brokerVars, R!vars, RP!Known, RP!Queued, RP!Elements, RP!Insert, RP!Ack
<1> QED
  BY <1>1, <1>2 DEF Reaches

\* A step of the Hub or of Audit that the saga does not see.
LEMMA HubAlone ==
    ASSUME DInv, [H!HubNext]_H!hubVars, UNCHANGED sagaVars, HandlerGoesOn,
           completionCopies' \subseteq completionCopies, acked' \subseteq acked,
           [R!Next]_R!vars, RP!Known' \subseteq RP!Known \cup delivered',
           UNCHANGED <<store, posted>>
    PROVE  Composed
<1>1. UNCHANGED S!vars /\ \A t \in S!Types, a \in Agreements : S!Queued(t, a)' <=> S!Queued(t, a)
  BY DEF S!vars, sagaVars, S!Queued, S!Msg
<1>2. \A a \in Agreements : Completing(a)' => Completing(a)
  BY <1>1 DEF Completing, S!Types
<1> QED
  BY <1>1, <1>2 DEF Composed, Tied, CompletesQueued, sagaVars

\* The endpoint rests while the Hub works without a push.
LEMMA EndpointRests ==
    ASSUME UNCHANGED brokerVars
    PROVE  /\ [R!Next]_R!vars /\ RP!Known' \subseteq RP!Known \cup delivered'
           /\ UNCHANGED <<store, posted>>
BY DEF brokerVars, R!vars, RP!Known, RP!Queued, RP!Elements, RP!Insert, RP!Ack

\* A replay pushes what was pushed before.
LEMMA ResendComposed ==
    ASSUME DInv, NEW c \in ConnectionIds, NEW a \in Agreements, Resend(c, a)
    PROVE  Composed
<1>1. H!Resend(c, a) /\ Reaches(a) /\ UNCHANGED <<sagaVars, completionCopies>>
  BY DEF Resend
<1>2. H!Push(a) /\ UNCHANGED <<acked, handlerPc, current>>
  BY <1>1 DEF H!Resend, H!auditVars, H!handlerVars
<1>3. [H!HubNext]_H!hubVars
  BY <1>1 DEF H!HubNext, H!Replay
<1>4. HandlerGoesOn
  BY <1>1, <1>2, HandlerLeft DEF sagaVars, S!Queued, S!Msg
<1> QED
  BY <1>1, <1>2, <1>3, <1>4, PushArrives, HubAlone

\* The callbacks, the replays but for their pushes, Audit and a restart.
LEMMA HubComposed ==
    ASSUME DInv,
           \/ \E c \in ConnectionIds : Connection(c)
           \/ \E a \in Agreements : HandleConnected(a) \/ AuditCommand(a) \/ AuditCompletion(a)
           \/ Restart
    PROVE  Composed
<1>1. UNCHANGED <<sagaVars, brokerVars>> /\ completionCopies' \subseteq completionCopies
  BY DEF Connection, HandleConnected, AuditCommand, AuditCompletion, Restart
<1>2. \A t, a : S!Queued(t, a) => S!Queued(t, a)'
  BY <1>1 DEF sagaVars, S!Queued, S!Msg
<1>3. /\ [H!HubNext]_H!hubVars
      /\ acked' = acked
      /\ HandlerGoesOn
  <2>1. ASSUME NEW c \in ConnectionIds, Connection(c)
        PROVE  [H!HubNext]_H!hubVars /\ UNCHANGED <<acked, handlerPc, current>>
    <3>1. CASE H!Callback(c)
      BY <3>1
      DEF H!HubNext, H!Callback, H!Connect, H!OnConnected, H!OnConnectedThrows, H!Reconnect,
          H!OnReconnected, H!OnReconnectedThrows, H!Disconnect, H!OnDisconnected,
          H!OnDisconnectedThrows, H!CallbackThrows, H!auditVars, H!handlerVars
    <3>2. CASE H!GetUnacknowledgedMessages(c) \/ H!ReplayReturns(c) \/ H!ReplayThrows(c)
      BY <3>2
      DEF H!HubNext, H!Replay, H!GetUnacknowledgedMessages, H!ReplayReturns, H!ReplayThrows,
          H!EndReplay, H!auditVars, H!handlerVars
    <3>3. ASSUME NEW a \in Agreements, H!UpdateMessageRetries(c, a)
          PROVE  [H!HubNext]_H!hubVars /\ UNCHANGED <<acked, handlerPc, current>>
      BY <3>3 DEF H!HubNext, H!Replay, H!UpdateMessageRetries, H!handlerVars
    <3> QED
      BY <2>1, <3>1, <3>2, <3>3 DEF Connection
  <2>2. ASSUME NEW a \in Agreements, HandleConnected(a)
        PROVE  [H!HubNext]_H!hubVars /\ acked' = acked /\ HandlerGoesOn
    BY <2>2, <1>2 DEF HandleConnected, H!HubNext, H!Handle, H!HandleConnected, H!auditVars,
                      HandlerGoesOn
  <2>3. ASSUME NEW a \in Agreements, AuditCommand(a) \/ AuditCompletion(a)
        PROVE  [H!HubNext]_H!hubVars /\ UNCHANGED <<acked, handlerPc, current>>
    BY <2>3 DEF AuditCommand, AuditCompletion, H!HubNext, H!AuditCommand, H!AuditCompletion,
                H!AuditCommandFails, H!AuditCompletionFails, H!LogMessage, H!LogMessageFails,
                H!CompleteAgain, H!CompleteAgainFails, H!handlerVars
  <2>4. ASSUME Restart
        PROVE  [H!HubNext]_H!hubVars /\ acked' = acked /\ HandlerGoesOn
    BY <2>4 DEF Restart, H!HubNext, H!Restart, H!auditVars, HandlerGoesOn
  <2> QED
    BY <1>2, <2>1, <2>2, <2>3, <2>4, HandlerLeft
<1> QED
  BY <1>1, <1>3, EndpointRests, HubAlone

\* The push of the handler: the saga's environment pushes the same command.
LEMMA HandlePushComposed ==
    ASSUME DInv, NEW a \in Agreements, HandlePush(a)
    PROVE  Composed
<1>1. /\ H!HandlePush(a) /\ Reaches(a)
      /\ remote' = remote \cup {a}
      /\ UNCHANGED <<submitted, inFlight, sagaErrors, saga, posts, dispatched, completed,
                     completionCopies>>
  BY DEF HandlePush
<1>2. /\ H!Push(a) /\ acked' = acked
      /\ handlerPc = "push" /\ current = a /\ handlerPc' = "throttle" /\ current' = current
  BY <1>1 DEF H!HandlePush, H!auditVars
<1>3. S!Queued("InsertRemote", a) /\ \A t, b : S!Queued(t, b)' <=> S!Queued(t, b)
  BY <1>1, <1>2 DEF DInv, Handled, S!Queued, S!Msg
<1>4. [S!Next]_S!vars
  BY <1>1, <1>3 DEF S!Next, S!Handle, S!HubPushes
<1>5. [H!HubNext]_H!hubVars
  BY <1>1 DEF H!HubNext, H!Handle
<1>6. HandlerGoesOn
  BY <1>1, <1>2, <1>3 DEF HandlerGoesOn
<1>7. \A b \in Agreements : Completing(b)' => Completing(b)
  BY <1>1, <1>3 DEF Completing
<1>8. CompletesQueued
  BY <1>1 DEF CompletesQueued
<1> QED
  BY <1>1, <1>2, <1>4, <1>5, <1>6, <1>7, <1>8, PushArrives DEF Composed, Tied

\* The command is consumed after its push, or given up with or without one.
LEMMA HandlerComposed ==
    ASSUME DInv, NEW a \in Agreements, Throttle(a) \/ HandlerThrows(a)
    PROVE  Composed
<1>0. "InsertRemote" \in S!Types /\ "CompleteAgreementSaga" \in S!Types
  BY DEF S!Types
<1>1. /\ UNCHANGED <<completionCopies, brokerVars, completed>>
      /\ S!Consume("InsertRemote", a) \/ UNCHANGED inFlight
  BY DEF Throttle, HandlerThrows, S!GiveUp, sagaVars
<1>2. [S!Next]_S!vars
  <2>1. CASE Throttle(a)
    <3>1. a \in remote
      BY <2>1 DEF Throttle, H!Throttle, DInv, Handled
    <3> QED
      BY <2>1, <3>1 DEF Throttle, S!Next, S!Handle, S!HubCommits
  <2>2. CASE HandlerThrows(a)
    BY <1>0, <2>2 DEF HandlerThrows, S!Next, S!Handle, S!vars, sagaVars
  <2> QED
    BY <2>1, <2>2
<1>3. [H!HubNext]_H!hubVars
  BY DEF Throttle, HandlerThrows, H!HubNext, H!Handle
<1>4. handlerPc' = "idle" /\ acked' = acked
  BY DEF Throttle, HandlerThrows, H!Throttle, H!HandleNotConnected, H!ThrottleThrows,
         H!HandlerThrows
<1>5. \A b \in Agreements : Completing(b)' => Completing(b)
  BY <1>0, <1>1, ConsumeQueues DEF Completing, S!Queued
<1> QED
  BY <1>1, <1>2, <1>3, <1>4, <1>5, EndpointRests
  DEF Composed, Tied, HandlerGoesOn, CompletesQueued

\* The endpoint alone, and its crash.
LEMMA EndpointComposed ==
    ASSUME DInv, (\E i \in Agreements : Endpoint(i)) \/ Crash
    PROVE  Composed
<1>1. UNCHANGED <<sagaVars, hubVars>>
  BY DEF Endpoint, Crash
<1>2. /\ UNCHANGED S!vars /\ UNCHANGED H!hubVars
      /\ \A t, a : S!Queued(t, a)' <=> S!Queued(t, a)
  BY <1>1
  DEF sagaVars, hubVars, connVars, handlerVars, S!vars, H!hubVars, H!registryVars, H!auditVars,
      H!connVars, H!handlerVars, HubQueue, HubErrors, Completions, S!Queued, S!Msg
<1>3. /\ [R!Next]_R!vars
      /\ (\E i \in Agreements : RP!Progress(i) \/ RP!Failure(i)) \/ RP!Crash
      /\ posted' = posted
  <2>1. ASSUME NEW i \in Agreements, Endpoint(i)
        PROVE  /\ [R!Next]_R!vars
               /\ RP!Progress(i) \/ RP!Failure(i)
               /\ posted' = posted
    BY <2>1 DEF Endpoint, R!Next, R!Progress, RP!Progress, R!AckHandled, RP!AckHandled,
        R!At, RP!At, R!Commit, RP!Commit, R!AddMessageId, RP!AddMessageId, R!MessageExists,
        RP!MessageExists, R!Complete, RP!Complete, R!Ack, RP!Ack, R!HandleDuplicate,
        RP!HandleDuplicate, R!InsertDocument, RP!InsertDocument, R!PostAcknowledgment,
        RP!PostAcknowledgment, R!Failure, RP!Failure, R!AckHandlerThrows,
        RP!AckHandlerThrows, R!Rollback, RP!Rollback, R!CompleteFails, RP!CompleteFails,
        R!InsertDocumentFails, RP!InsertDocumentFails, R!MessageStoreThrows,
        RP!MessageStoreThrows, R!PostAcknowledgmentFails, RP!PostAcknowledgmentFails
  <2>2. ASSUME Crash
        PROVE  [R!Next]_R!vars /\ RP!Crash /\ posted' = posted
    BY <2>2 DEF Crash, R!Next, R!Crash, RP!Crash
  <2> QED
    BY <2>1, <2>2
<1>4. RP!Known' \subseteq RP!Known
  BY <1>3, EndpointAssumptions, RP!NothingElseKnown DEF DInv
<1>5. HandlerGoesOn
  BY <1>1, <1>2, HandlerLeft DEF hubVars, handlerVars
<1> QED
  BY <1>1, <1>2, <1>3, <1>4, <1>5
  DEF Composed, Tied, Completing, CompletesQueued, hubVars, sagaVars

\* Whoever is about to post an acknowledgement holds a command that was delivered
\* and pushed, and its id is in the message store.
LEMMA PosterIsPushed ==
    ASSUME DInv, NEW i \in Agreements, R!At("idle", "ack", i)
    PROVE  i \in delivered /\ i \in remote /\ i \in store
<1>1. RP!At("idle", "ack", i)
  BY DEF R!At, RP!At
<1>2. i \in RP!Known /\ i \in store
  BY <1>1, EndpointAssumptions, RP!PostIsKnown DEF DInv
<1> QED
  BY <1>2 DEF DInv, Arrived, Pushed, HP!Out

\* The post is an acknowledgement to the Hub's specification and to the saga's.
LEMMA PostComposed ==
    ASSUME DInv, NEW i \in Agreements, PostAcknowledgement(i)
    PROVE  Composed
<1>0. "InsertRemote" \in S!Types /\ "CompleteAgreementSaga" \in S!Types
  BY DEF S!Types
<1>1. /\ R!PostAcknowledgment(i) /\ H!Post(i) /\ S!Send("CompleteAgreementSaga", i)
      /\ posts[i] < MaxPosts /\ posts' = [posts EXCEPT ![i] = @ + 1]
      /\ UNCHANGED <<submitted, sagaErrors, saga, remote, dispatched, completed>>
      /\ UNCHANGED <<brokerConnections, newest, completionCopies, connVars, handlerVars,
                     delivered, replays, missed, faults>>
  BY DEF PostAcknowledgement
<1>2. i \in delivered /\ i \in remote /\ i \in store
  BY <1>1, PosterIsPushed DEF R!PostAcknowledgment
<1>3. \A b \in Agreements, t \in {"InsertRemote", "CompleteAgreementSaga"} :
            t # "CompleteAgreementSaga" \/ b # i => (S!Queued(t, b)' <=> S!Queued(t, b))
  BY <1>0, <1>1, SendQueues
<1>4. [S!Next]_S!vars
  BY <1>1, <1>2 DEF S!Next, S!PostAcknowledgement
<1>5. [H!HubNext]_H!hubVars
  <2>1. HubQueue' = HubQueue /\ HubErrors' = HubErrors
    BY <1>1, <1>3 DEF HubQueue, HubErrors, S!Msg
  <2>2. H!Acknowledge(i)
    BY <1>1, <1>2, <2>1
    DEF H!Acknowledge, H!registryVars, H!connVars, H!handlerVars, connVars, handlerVars
  <2> QED
    BY <2>2 DEF H!HubNext, H!BrokerPosts
<1>6. /\ [R!Next]_R!vars
      /\ queue' = queue /\ posted' = posted \cup {i}
  BY <1>1 DEF R!Next, R!Progress, R!PostAcknowledgment
<1>7. RP!Known' = RP!Known
  BY <1>6 DEF RP!Known, RP!Queued, RP!Elements, RP!Insert, RP!Ack
<1>8. HandlerGoesOn
  BY <1>0, <1>1, <1>3, HandlerLeft DEF handlerVars
<1>9. \A b \in Agreements : Completing(b)' => Completing(b) \/ b \in posted'
  BY <1>1, <1>3, <1>6 DEF Completing
<1>10. posts'[i] > 0
  BY <1>1, ComponentTypes
<1>11. acked' = acked \cup {i}
  BY <1>1 DEF H!Post
<1> QED
  BY <1>1, <1>2, <1>4, <1>5, <1>6, <1>7, <1>8, <1>9, <1>10, <1>11
  DEF Composed, Tied, CompletesQueued

\* The post that fails half way stamps the rows of a command that was delivered.
LEMMA PostHalfwayComposed ==
    ASSUME DInv, NEW i \in Agreements, PostHalfway(i)
    PROVE  Composed
<1>1. /\ R!PostAcknowledgmentFails(i) /\ H!Fault /\ H!PostFailsHalfway(i)
      /\ UNCHANGED <<sagaVars, brokerConnections, newest, completionCopies, connVars,
                     handlerVars, delivered, replays, missed>>
  BY DEF PostHalfway
<1>2. i \in delivered /\ i \in store
  BY <1>1, PosterIsPushed DEF R!PostAcknowledgmentFails
<1>3. UNCHANGED S!vars /\ \A t, a : S!Queued(t, a)' <=> S!Queued(t, a)
  BY <1>1 DEF sagaVars, S!vars, S!Queued, S!Msg
<1>4. [H!HubNext]_H!hubVars
  <2>1. HubQueue' = HubQueue /\ HubErrors' = HubErrors
    BY <1>1, <1>3 DEF HubQueue, HubErrors, S!Msg, sagaVars
  <2>2. H!AcknowledgeFails(i)
    BY <1>1, <1>2, <2>1
    DEF H!AcknowledgeFails, H!registryVars, H!connVars, H!handlerVars, connVars, handlerVars
  <2> QED
    BY <2>2 DEF H!HubNext, H!BrokerPosts
<1>5. [R!Next]_R!vars /\ RP!Failure(i) /\ posted' = posted
  BY <1>1 DEF R!Next, R!Failure, RP!Failure, R!PostAcknowledgmentFails,
      RP!PostAcknowledgmentFails, R!At, RP!At, R!Rollback, RP!Rollback
<1>6. RP!Known' \subseteq RP!Known
  BY <1>5, EndpointAssumptions, RP!NothingElseKnown DEF DInv
<1>7. HandlerGoesOn
  BY <1>1, <1>3, HandlerLeft DEF handlerVars
<1>8. acked' = acked \cup {i}
  BY <1>1 DEF H!PostFailsHalfway
<1> QED
  BY <1>1, <1>2, <1>3, <1>4, <1>5, <1>6, <1>7, <1>8
  DEF Composed, Tied, Completing, CompletesQueued, sagaVars

\* Every step of the composed system is one of each component.
LEMMA StepComposed ==
    ASSUME DInv, [Next]_vars
    PROVE  Composed
<1>1. CASE UNCHANGED vars
  <2>1. /\ UNCHANGED S!vars /\ UNCHANGED H!hubVars /\ UNCHANGED brokerVars
        /\ UNCHANGED <<handlerPc, current, acked, completionCopies, sagaVars>>
        /\ \A t, a : S!Queued(t, a)' <=> S!Queued(t, a)
    BY <1>1
    DEF vars, sagaVars, hubVars, connVars, handlerVars, S!vars, H!hubVars, H!registryVars,
        H!auditVars, H!connVars, H!handlerVars, HubQueue, HubErrors, Completions, S!Queued, S!Msg
  <2> QED
    BY <2>1, EndpointRests, HandlerLeft, HubAlone
<1> QED
  BY <1>1, SagaComposed, ResendComposed, HubComposed, HandlePushComposed, HandlerComposed,
     EndpointComposed, PostComposed, PostHalfwayComposed
  DEF Next, HubStep, EndpointStep

---------------------------------------------------------------------------
(* The invariant is kept.                                                  *)

\* A push and a post stand.
LEMMA SagaGrows ==
    ASSUME DInv, [S!Next]_S!vars
    PROVE  /\ remote \subseteq remote'
           /\ \A a \in Agreements : posts[a] > 0 => posts'[a] > 0
<1>1. CASE UNCHANGED S!vars
  BY <1>1 DEF S!vars
<1>2. ASSUME NEW b \in Agreements, S!PostAcknowledgement(b)
      PROVE  /\ remote' = remote
             /\ \A a \in Agreements : posts[a] > 0 => posts'[a] > 0
  BY <1>2, ComponentTypes DEF S!PostAcknowledgement
<1>3. ASSUME NEW b \in Agreements, S!Submit(b) \/ S!Handle(b)
      PROVE  remote \subseteq remote' /\ posts' = posts
  BY <1>3
  DEF S!Submit, S!Handle, S!HandleSubmit, S!DownloadDocument, S!HandleDownloaded,
      S!InsertOnline, S!HubPushes, S!HubCommits, S!HandleComplete, S!SagaNotFound, S!GiveUp
<1> QED
  BY <1>1, <1>2, <1>3 DEF S!Next

\* An id stays in the message store, and an acknowledgement posted.
LEMMA EndpointGrows ==
    ASSUME [R!Next]_R!vars
    PROVE  store \subseteq store' /\ posted \subseteq posted'
BY DEF R!Next, R!Crash, R!Deliver, R!Failure, R!AckHandlerThrows, R!Rollback,
    R!CompleteFails, R!InsertDocumentFails, R!MessageStoreThrows, R!PostAcknowledgmentFails,
    R!Progress, R!AckHandled, R!Commit, R!AddMessageId, R!Complete, R!HandleDuplicate,
    R!InsertDocument, R!PostAcknowledgment, R!vars

\* Only the push of the handler, or a commit after it, takes a command out.
LEMMA PushedKept ==
    ASSUME DInv, Composed
    PROVE  Pushed' /\ delivered \subseteq delivered'
<1>1. /\ delivered \subseteq delivered'
      /\ \A a \in HP!Out' \ HP!Out :
            /\ handlerPc \in {"push", "throttle"} /\ current = a
            /\ handlerPc = "push" => handlerPc' = "throttle"
  BY SameHub, HubAssumptions, HP!OnlyHandlerTakesOut DEF DInv, Composed
<1>2. remote \subseteq remote'
  BY SagaGrows DEF Composed
<1>3. handlerPc = "push" /\ handlerPc' = "throttle" => current \in remote'
  BY DEF Composed, Tied, HandlerGoesOn
<1>4. handlerPc = "throttle" => current \in remote'
  BY <1>2 DEF DInv, Handled
<1> QED
  BY <1>1, <1>2, <1>3, <1>4 DEF DInv, Pushed

\* A step of the components that respects the ties keeps the whole invariant.
LEMMA ComposedPreserves ==
    ASSUME DInv, Composed
    PROVE  DInv'
<1>1. SP!IInv' /\ RP!IInv' /\ HP!HubInv'
  BY ComponentsKept DEF DInv, Composed
<1>2. Pushed' /\ delivered \subseteq delivered'
  BY PushedKept
<1>3. Arrived'
  BY <1>2 DEF DInv, Composed, Tied, Arrived
<1>4. Handled'
  <2>1. remote \subseteq remote'
    BY SagaGrows DEF Composed
  <2> QED
    BY <2>1 DEF DInv, Composed, Tied, HandlerGoesOn, Handled
<1>5. Answered'
  <2>1. \A a \in posted' : R!attempt'[a] = "over"
    <3>1. \A a \in posted : RP!attempt[a] = "over"
      BY SameEndpoint DEF DInv, Answered
    <3>2. \A a \in posted' : RP!attempt'[a] = "over"
      BY <3>1, SameEndpoint, EndpointAssumptions, RP!PostedIsOver DEF DInv, Composed
    <3> QED
      BY <3>2, SameEndpoint
  <2>2. store \subseteq store' /\ posted \subseteq posted' /\ posted \subseteq Agreements
    BY EndpointGrows, ComponentTypes DEF Composed
  <2>3. \A a \in posted' : posts'[a] > 0
    BY <2>2, SagaGrows DEF DInv, Composed, Tied, Answered
  <2>4. \A a \in Agreements : Completing(a)' => a \in posted'
    BY <2>2 DEF DInv, Composed, Tied, Answered
  <2>5. acked' \subseteq store'
    BY <2>2 DEF DInv, Composed, Tied, Answered
  <2> QED
    BY <2>1, <2>3, <2>4, <2>5 DEF Answered
<1> QED
  BY <1>1, <1>2, <1>3, <1>4, <1>5 DEF DInv

\* At first nothing is delivered, queued or posted.
LEMMA InitTied == Init => DInv
<1> SUFFICES ASSUME Init
             PROVE  DInv
  OBVIOUS
<1>1. SP!IInv /\ RP!IInv /\ HP!HubInv
  BY ComponentsStart
<1>2. RP!Known = {}
  BY DEF Init, R!Init, RP!Known, RP!Queued, RP!Elements
<1>3. HP!Out = {}
  BY DEF Init, H!HubInit, H!AuditInit, HP!Out, HP!Logged
<1>4. Handled
  BY DEF Init, H!HubInit, Handled
<1>5. Answered
  <2>1. \A a \in Agreements : ~S!Queued("CompleteAgreementSaga", a)
    BY DEF Init, S!Init, S!Queued, S!Msg, S!Message, S!Types
  <2>2. posted = {} /\ acked = {} /\ completionCopies = {}
    BY DEF Init, R!Init, H!HubInit, H!AuditInit
  <2> QED
    BY <2>1, <2>2 DEF Answered, Completing
<1> QED
  BY <1>1, <1>2, <1>3, <1>4, <1>5 DEF DInv, Arrived, Pushed

\* The components keep their invariants and the ties between them.
LEMMA DInvariant == Spec => []DInv
<1>1. DInv /\ [Next]_vars => DInv'
  BY StepComposed, ComposedPreserves
<1> QED
  BY <1>1, InitTied, PTL DEF Spec

---------------------------------------------------------------------------
(* The theorems.                                                           *)

\* For any number of agreements, connections, lost pushes, restarts, crashes and
\* failed posts: only commands that their broker received are acknowledged, as the
\* specification of the Hub and Audit assumes, and so it is implemented.
THEOREM DeliveryImplementsHub == Spec => ImplementsHub
<1>1. Init => H!HubInit
  BY DEF Init
<1>2. DInv /\ [Next]_vars => [H!HubNext]_H!hubVars
  BY StepComposed DEF Composed
<1> QED
  BY <1>1, <1>2, DInvariant, PTL DEF Spec, ImplementsHub, H!HubSpec

\* For the same: the command of an agreement is consumed only after its push, and
\* only then acknowledged, as the specification of the saga assumes.
THEOREM DeliveryImplementsSaga == Spec => ImplementsSaga
<1>1. Init => S!Init
  BY DEF Init
<1>2. DInv /\ [Next]_vars => [S!Next]_S!vars
  BY StepComposed DEF Composed
<1> QED
  BY <1>1, <1>2, DInvariant, PTL DEF Spec, ImplementsSaga, S!Spec

\* A step of the endpoint, or the end of a saga, is one of SingleAttempt.
LEMMA StepAttempts ==
    ASSUME DInv, Composed
    PROVE  [Attempt!Next]_Attempt!vars
<1> DEFINE Ended == {a \in Agreements : completed[a] > 0}
<1>1. CASE completed' = completed
  <2>1. Ended' = Ended
    BY <1>1
  <2>2. \/ UNCHANGED <<R!attempt, inserts>>
        \/ \E i \in Agreements :
             /\ R!attempt[i] = "new" /\ R!attempt' = [R!attempt EXCEPT ![i] = "open"]
             /\ UNCHANGED inserts
        \/ \E i \in Agreements :
             /\ R!attempt[i] = "open" /\ R!attempt' = [R!attempt EXCEPT ![i] = "over"]
             /\ inserts' \in {inserts, [inserts EXCEPT ![i] = @ + 1]}
    BY SameEndpoint, EndpointAssumptions, RP!AttemptSteps DEF DInv, Composed
  <2> HIDE DEF Ended
  <2> QED
    BY <2>1, <2>2
    DEF Ended, Attempt!Next, Attempt!vars, Attempt!Begin, Attempt!Insert, Attempt!Abandon
<1>2. ASSUME NEW a \in Agreements, UNCHANGED brokerVars,
             S!Queued("CompleteAgreementSaga", a),
             completed' = [completed EXCEPT ![a] = @ + 1]
      PROVE  Attempt!Answer(a)
  <2>1. R!attempt[a] = "over"
    BY <1>2 DEF DInv, Answered, Completing
  <2>2. UNCHANGED <<R!attempt, inserts>>
    BY <1>2 DEF brokerVars, R!attempt, R!At
  <2>3. Ended' = Ended \cup {a}
    BY <1>2, ComponentTypes
  <2> QED
    BY <2>1, <2>2, <2>3 DEF Attempt!Answer
<1> QED
  BY <1>1, <1>2 DEF Composed, Tied, CompletesQueued, Attempt!Next

\* For any number of agreements, and whatever is lost, repeated or restarted: the
\* saga of an agreement completes only after the attempt to insert its document
\* is over.  That the document was inserted does not hold, nor that a failed
\* insertion is tried again: see SuccessMeansInserted of RemoteInsert.
THEOREM DeliveryCompletesAfterAttempt == Spec => CompletesAfterAttempt
<1>1. Init => Attempt!Init
  BY DEF Init, S!Init, R!Init, Attempt!Init, R!attempt
<1>2. DInv /\ [Next]_vars => [Attempt!Next]_Attempt!vars
  BY StepComposed, StepAttempts
<1> QED
  BY <1>1, <1>2, DInvariant, PTL DEF Spec, CompletesAfterAttempt, Attempt!Spec

\* For the same, and for posts that stamp the row and fail to reach the saga: an
\* agreement that was submitted is completed, or found in one of the queues, in a
\* row that is not complete, or among the errors.
THEOREM SubmittedIsNotForgotten == Spec => []NothingForgotten
<1>1. ASSUME DInv, NEW a \in submitted, completed[a] = 0
      PROVE  \/ \E t \in S!Types : S!Queued(t, a)
             \/ a \in auditQueue \cup auditErrors
             \/ messageLog[a].Logged /\ ~messageLog[a].Completed
             \/ R!InQueue(R!Insert(a)) \/ R!InQueue(R!Ack(a))
             \/ InErrorQueue(a)
  <2>0. /\ a \in Agreements
        /\ S!Types = SP!Types
        /\ \A t : (S!Queued(t, a) <=> SP!Queued(t, a)) /\ S!Msg(t, a) = SP!Msg(t, a)
    BY <1>1, ComponentTypes DEF S!Types, SP!Types, S!Queued, SP!Queued, S!Msg, SP!Msg
  <2>1. SP!Begun(a) /\ SP!Acknowledged(a)
    BY <1>1, <2>0 DEF DInv, SP!IInv, SP!AInv
  <2>2. CASE dispatched[a] = 0
    BY <1>1, <2>0, <2>1, <2>2 DEF SP!Begun, InErrorQueue, SP!Types
  <2>3. CASE a \in (HubQueue \cup HubErrors \cup auditQueue \cup auditErrors) /\ dispatched[a] # 0
    BY <2>3 DEF HubQueue, HubErrors, InErrorQueue, S!Types
  <2>4. CASE messageLog[a].Completed /\ dispatched[a] # 0
    <3>1. a \in store
      BY <1>1, <2>0, <2>4 DEF DInv, HP!HubInv, HP!Stamped, HP!Completed, Answered
    <3>2. CASE a \in posted
      <4>1. saga[a] = "downloaded"
        BY <1>1, <2>0, <2>1, <2>4, ComponentTypes DEF SP!Begun
      <4>2. posts[a] > 0
        BY <1>1, <3>2 DEF DInv, Answered
      <4> QED
        BY <2>0, <2>1, <4>1, <4>2 DEF SP!Acknowledged, InErrorQueue, SP!Types
    <3>3. CASE a \notin posted
      <4>1. {RP!Insert(a), RP!Ack(a)} \cap (RP!Queued \cup errors) # {}
        BY <1>1, <3>1, <3>3 DEF DInv, RP!IInv, RP!Accounted
      <4> QED
        BY <4>1
        DEF RP!Queued, RP!Elements, RP!Insert, RP!Ack, R!Insert, R!Ack, R!InQueue, InErrorQueue
    <3> QED
      BY <3>2, <3>3
  <2>5. messageLog[a].Logged \/ a \in HubQueue \cup HubErrors \cup auditQueue \cup auditErrors
    BY <1>1, <2>0 DEF DInv, HP!HubInv, HP!Placed, HP!Logged
  <2> QED
    BY <2>2, <2>3, <2>4, <2>5
<1>2. DInv => \A a \in submitted : completed[a] \in Nat
  BY ComponentTypes
<1>3. DInv => NothingForgotten
  BY <1>1, <1>2 DEF NothingForgotten
<1> QED
  BY <1>3, DInvariant, PTL

\* What the components promise holds of the composed system as well: a document is
\* inserted at most once, its saga completes at most once and is driven on, and
\* a command is not lost before it reaches its broker nor after it is recorded.
THEOREM ComponentsKeepTheirPromises ==
    Spec => [](/\ R!AtMostOnceInsert /\ R!RecordedIsAccountedFor
               /\ S!CompletesOnceAfterDispatch /\ S!OpenSagaIsDriven
               /\ H!UndeliveredIsRecoverable /\ H!RegistryMatchesSignalR)
<1>1. DInv => R!AtMostOnceInsert /\ R!RecordedIsAccountedFor
  BY DEF DInv, RP!IInv, RP!AtMostOnceInsert, R!AtMostOnceInsert, RP!Accounted,
         R!RecordedIsAccountedFor, R!InQueue, RP!Queued, RP!Elements, RP!Insert, RP!Ack,
         R!Insert, R!Ack
<1>2. DInv => S!CompletesOnceAfterDispatch /\ S!OpenSagaIsDriven
  <2>1. SP!IInv => SP!CompletesOnceAfterDispatch /\ SP!OpenSagaIsDriven
    BY SagaAssumptions, SP!InvImplies
  <2> QED
    BY <2>1
    DEF DInv, SP!CompletesOnceAfterDispatch, S!CompletesOnceAfterDispatch, SP!OpenSagaIsDriven,
        S!OpenSagaIsDriven, SP!Types, S!Types, SP!Queued, S!Queued, SP!Msg, S!Msg
<1>3. DInv => H!UndeliveredIsRecoverable /\ H!RegistryMatchesSignalR
  BY DEF DInv, HP!HubInv, HP!Registered, HP!Placed, HP!Stamped, HP!Logged, HP!Completed,
         HP!Arriving, H!Arriving, H!UndeliveredIsRecoverable,
         HP!RegistryMatchesSignalR, H!RegistryMatchesSignalR,
         HP!Listed, H!Listed
<1> QED
  BY <1>1, <1>2, <1>3, DInvariant, PTL
=============================================================================
