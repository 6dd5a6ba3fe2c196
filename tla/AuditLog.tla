-------------------------------- MODULE AuditLog --------------------------------
(***************************************************************************)
(* The Audit process and the table MessageLog it shares with the Hub.      *)
(*                                                                         *)
(* NServiceBus sends a copy of every message that an endpoint processed to *)
(* the queue "audit".  Audit writes a row for it (SuccessfulMessageHandler)*)
(* and, when the acknowledgement of a remote insertion is posted to its    *)
(* Web Api, stamps the rows of its correlation id with a CompletionDate.   *)
(* The Web Api also sends CompleteAgreementSagaCommand to the Saga; the    *)
(* copy of that command, once processed, stamps the rows again.  A copy    *)
(* whose handler fails for good goes to the error queue "audit.error".     *)
(*                                                                         *)
(* A row is kept for what the code tests of it: whether it is there,       *)
(* whether its CompletionDate is set, and its Retries.  Commands are the   *)
(* messages of type InsertDocumentIntoRemoteBackOfficeCommand; the rows of *)
(* the others were written before, by the earlier steps of the agreements. *)
(* The log of connection events is left out: nothing reads it.             *)
(***************************************************************************)
EXTENDS Naturals

CONSTANTS
    Messages,       \* the audited messages, by Message.Id
    Commands,       \* those that insert a document into a remote back office
    Correlations,   \* the CorrelationId values, one per agreement
    CorrelationOf   \* the correlation id of a message

ASSUME CommandsAssumption == Commands \subseteq Messages
\* An agreement makes one correlation id and sends one such command.
ASSUME CorrelationAssumption ==
    /\ CorrelationOf \in [Messages -> Correlations]
    /\ \A m, n \in Commands : CorrelationOf[m] = CorrelationOf[n] => m = n

VARIABLES
    messageLog,     \* the table MessageLog
    auditQueue,     \* copies of processed commands, on the way to Audit
    auditErrors,    \* such copies in the error queue audit.error
    completions,    \* correlation ids of completion messages on the way to Audit;
                    \* a set stands for the bag: a copy taken may leave another
    acked           \* history: correlation ids whose acknowledgement was posted

auditVars == <<messageLog, auditQueue, auditErrors, completions, acked>>

Row == [Logged : BOOLEAN, Completed : BOOLEAN, Retries : Nat]

AuditTypeOK ==
    /\ messageLog \in [Messages -> Row]
    /\ auditQueue \subseteq Commands
    /\ auditErrors \subseteq Commands
    /\ completions \subseteq Correlations
    /\ acked \subseteq Correlations

AuditInit ==
    /\ messageLog = [m \in Messages |->
            [Logged |-> m \notin Commands, Completed |-> FALSE, Retries |-> 0]]
    /\ auditQueue = {}
    /\ auditErrors = {}
    /\ completions = {}
    /\ acked = {}

\* Mutant: the rows are stamped whatever their correlation id.
CompleteAllMessages(k) ==
    [m \in Messages |->
        [messageLog[m] EXCEPT !.Completed = (@ \/ messageLog[m].Logged)]]

\* The table after the rows of correlation id k were stamped.  A row not
\* written yet is not found, and is not stamped when it is written.
CompleteCorrelatedMessages(k) ==
    [m \in Messages |->
        [messageLog[m] EXCEPT
            !.Completed = (@ \/ (messageLog[m].Logged /\ CorrelationOf[m] = k))]]

\* SuccessfulMessageHandler: the copy of a processed command becomes a row.
LogMessage(m) ==
    /\ m \in auditQueue
    /\ auditQueue' = auditQueue \ {m}
    /\ messageLog' =
            [messageLog EXCEPT ![m] = [Logged |-> TRUE, Completed |-> FALSE, Retries |-> 0]]
    /\ UNCHANGED <<auditErrors, completions, acked>>

\* Its handler failed for good: no row is written, and the copy is an error.
LogMessageFails(m) ==
    /\ m \in auditQueue
    /\ auditQueue' = auditQueue \ {m}
    /\ auditErrors' = auditErrors \cup {m}
    /\ UNCHANGED <<messageLog, completions, acked>>

\* AcknowledgementController.Post, to its end.
Post(k) ==
    /\ messageLog' = CompleteCorrelatedMessages(k)
    /\ completions' = completions \cup {k}
    /\ acked' = acked \cup {k}
    /\ UNCHANGED <<auditQueue, auditErrors>>

\* The same, but the bus throws after the rows were stamped: a status 500.
PostFailsHalfway(k) ==
    /\ messageLog' = CompleteCorrelatedMessages(k)
    /\ acked' = acked \cup {k}
    /\ UNCHANGED <<auditQueue, auditErrors, completions>>

\* CompletionMessageHandler: the copy of CompleteAgreementSagaCommand arrives.
CompleteAgain(k) ==
    /\ k \in completions
    /\ completions' \in {completions, completions \ {k}}
    /\ messageLog' = CompleteCorrelatedMessages(k)
    /\ UNCHANGED <<auditQueue, auditErrors, acked>>

\* Its handler failed for good: the copy stamps no row.
CompleteAgainFails(k) ==
    /\ k \in completions
    /\ completions' \in {completions, completions \ {k}}
    /\ UNCHANGED <<messageLog, auditQueue, auditErrors, acked>>
=============================================================================
