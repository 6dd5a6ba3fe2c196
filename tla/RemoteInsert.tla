------------------------------ MODULE RemoteInsert ------------------------------
(***************************************************************************)
(* The message processing of the remote endpoint, the HubSubscriber        *)
(* process: the MSMQ queue to which the SignalR callback moves a pushed    *)
(* command, the handler that inserts its document into the back office,    *)
(* the handler that posts the acknowledgement to the Audit Web Api, and    *)
(* the Esent message store that makes the insertion idempotent.            *)
(*                                                                         *)
(* Both commands travel through the one queue "HubSubscriber" with         *)
(* concurrency 1 (App.config:19-23), so one program counter is enough.     *)
(* NServiceBus runs a handler inside the transaction of its receive: what  *)
(* the handler sends leaves when the receive commits; a handler that       *)
(* throws, or that disposes a nested TransactionScope without completing   *)
(* it, aborts the receive, and the message stays at the head of the queue. *)
(* After MaxAttempts failures it is moved to the error queue.  The count   *)
(* of failures is kept in memory.                                          *)
(*                                                                         *)
(* The message store takes no part in that transaction: AddMessageId       *)
(* commits a transaction of Esent itself (MessageStoreService.cs:171).     *)
(*                                                                         *)
(* Left out: the failure acknowledgement of line 62 never leaves, because  *)
(* its receive is already aborted; the refresh of the access token, which  *)
(* is the subject of HubConnection; what Audit does with a post.           *)
(***************************************************************************)
EXTENDS Naturals, Sequences, FiniteSets

CONSTANTS
    Ids,            \* the Message.Id values of the pushed commands
    BackOffice,     \* what InsertDocument may do: "inserted", "refused", "throws"
    MaxAttempts,    \* failed attempts after which a message is an error
    MaxDeliveries,  \* bound: how many pushes arrive in a behaviour
    MaxCrashes      \* bound: how often the process dies in a behaviour

ASSUME BackOfficeAssumption == BackOffice \subseteq {"inserted", "refused", "throws"}
ASSUME BoundAssumption ==
    MaxAttempts \in Nat \ {0} /\ MaxDeliveries \in Nat /\ MaxCrashes \in Nat

VARIABLES
    queue,          \* the MSMQ queue of the endpoint, its head in process
    pc,             \* where the handler of the head is
    attempts,       \* failed attempts of the head, in memory
    store,          \* the Esent message store
    inserts,        \* how often the back office inserted the document of an id
    posted,         \* the ids whose acknowledgement reached the Audit Web Api
    errors,         \* the error queue hubsubscriber.error
    deliveries,     \* counts against MaxDeliveries
    crashes         \* counts against MaxCrashes

vars == <<queue, pc, attempts, store, inserts, posted, errors, deliveries, crashes>>

Command == [type : {"insert", "ack"}, id : Ids]

TypeOK ==
    /\ queue \in Seq(Command)
    /\ pc \in {"idle", "recorded", "inserted", "posted"}
    /\ attempts \in 0 .. MaxAttempts - 1
    /\ store \subseteq Ids
    /\ inserts \in [Ids -> Nat]
    /\ posted \subseteq Ids
    /\ errors \subseteq Command
    /\ deliveries \in 0 .. MaxDeliveries
    /\ crashes \in 0 .. MaxCrashes

Init ==
    /\ queue = <<>>
    /\ pc = "idle"
    /\ attempts = 0
    /\ store = {}
    /\ inserts = [i \in Ids |-> 0]
    /\ posted = {}
    /\ errors = {}
    /\ deliveries = 0
    /\ crashes = 0

---------------------------------------------------------------------------
(* The transaction of the receive.                                         *)

Insert(i) == [type |-> "insert", id |-> i]
Ack(i) == [type |-> "ack", id |-> i]

\* The handler of a command of this type is at step p, on behalf of id i.
At(p, type, i) == pc = p /\ queue # <<>> /\ Head(queue) = [type |-> type, id |-> i]

\* The receive commits: the head is consumed and what was sent is enqueued.
Commit(sent) ==
    /\ queue' = Tail(queue) \o sent
    /\ pc' = "idle"
    /\ attempts' = 0
    /\ UNCHANGED errors

\* Mutant: the attempt that makes the head an error comes one too late.
RollbackOnceMore ==
    /\ pc' = "idle"
    /\ IF attempts < MaxAttempts
       THEN /\ attempts' = attempts + 1
            /\ UNCHANGED <<queue, errors>>
       ELSE /\ attempts' = 0
            /\ queue' = Tail(queue)
            /\ errors' = errors \cup {Head(queue)}

\* The receive aborts: the head is tried again, or becomes an error.
Rollback ==
    /\ pc' = "idle"
    /\ IF attempts + 1 < MaxAttempts
       THEN /\ attempts' = attempts + 1
            /\ UNCHANGED <<queue, errors>>
       ELSE /\ attempts' = 0
            /\ queue' = Tail(queue)
            /\ errors' = errors \cup {Head(queue)}

---------------------------------------------------------------------------
(* The SignalR callback.                                                   *)

\* SendInsertDocumentCommand: a push, or a push of the same command again,
\* goes from the buffer of SignalR to the queue at once.
Deliver(i) ==
    /\ deliveries < MaxDeliveries
    /\ deliveries' = deliveries + 1
    /\ queue' = Append(queue, Insert(i))
    /\ UNCHANGED <<pc, attempts, store, inserts, posted, errors, crashes>>

---------------------------------------------------------------------------
(* InsertDocumentIntoRemoteBackOfficeCommandHandler.Handle                 *)

MessageExists(i) == i \in store

\* Mutant: the handler acknowledges before it looks into the message store.
HandleAnyMessage(i) ==
    /\ At("idle", "insert", i)
    /\ Commit(<<Ack(i)>>)
    /\ UNCHANGED <<store, inserts, posted, deliveries, crashes>>

\* Mutant: a duplicate is dropped without an acknowledgement.
DropDuplicate(i) ==
    /\ At("idle", "insert", i)
    /\ MessageExists(i)
    /\ Commit(<<>>)
    /\ UNCHANGED <<store, inserts, posted, deliveries, crashes>>

\* A message seen before is acknowledged as a success.
HandleDuplicate(i) ==
    /\ At("idle", "insert", i)
    /\ MessageExists(i)
    /\ Commit(<<Ack(i)>>)
    /\ UNCHANGED <<store, inserts, posted, deliveries, crashes>>

\* Mutant: the handler does not ask the message store first.
AddMessageIdUnchecked(i) ==
    /\ At("idle", "insert", i)
    /\ store' = store \cup {i}
    /\ pc' = "recorded"
    /\ UNCHANGED <<queue, attempts, inserts, posted, errors, deliveries, crashes>>

\* A new message is recorded, durably, before the back office is called.
AddMessageId(i) ==
    /\ At("idle", "insert", i)
    /\ ~MessageExists(i)
    /\ store' = store \cup {i}
    /\ pc' = "recorded"
    /\ UNCHANGED <<queue, attempts, inserts, posted, errors, deliveries, crashes>>

\* The message store throws before it commits.
MessageStoreThrows(i) ==
    /\ At("idle", "insert", i)
    /\ Rollback
    /\ UNCHANGED <<store, inserts, posted, deliveries, crashes>>

InsertDocument(i) ==
    /\ "inserted" \in BackOffice
    /\ At("recorded", "insert", i)
    /\ inserts' = [inserts EXCEPT ![i] = @ + 1]
    /\ pc' = "inserted"
    /\ UNCHANGED <<queue, attempts, store, posted, errors, deliveries, crashes>>

\* The back office throws, or it refuses and the scope is disposed without
\* Complete: the receive aborts either way.
InsertDocumentFails(i) ==
    /\ BackOffice \cap {"refused", "throws"} # {}
    /\ At("recorded", "insert", i)
    /\ Rollback
    /\ UNCHANGED <<store, inserts, posted, deliveries, crashes>>

\* Mutant: the handler returns without its acknowledgement.
CompleteSilently(i) ==
    /\ At("inserted", "insert", i)
    /\ Commit(<<>>)
    /\ UNCHANGED <<store, inserts, posted, deliveries, crashes>>

\* The success acknowledgement leaves with the receive.
Complete(i) ==
    /\ At("inserted", "insert", i)
    /\ Commit(<<Ack(i)>>)
    /\ UNCHANGED <<store, inserts, posted, deliveries, crashes>>

\* The send or the distributed commit fails after the insertion.
CompleteFails(i) ==
    /\ At("inserted", "insert", i)
    /\ Rollback
    /\ UNCHANGED <<store, inserts, posted, deliveries, crashes>>

---------------------------------------------------------------------------
(* SendAcknowledgmentCommandHandler.Handle                                 *)

\* The post reaches Audit.  HTTP takes no part in the transaction.
PostAcknowledgment(i) ==
    /\ At("idle", "ack", i)
    /\ posted' = posted \cup {i}
    /\ pc' = "posted"
    /\ UNCHANGED <<queue, attempts, store, inserts, errors, deliveries, crashes>>

\* No token, Audit unreachable or not a success status: the handler throws.
PostAcknowledgmentFails(i) ==
    /\ At("idle", "ack", i)
    /\ Rollback
    /\ UNCHANGED <<store, inserts, posted, deliveries, crashes>>

\* The answer came back and the refresh of the token, if any, is done.
AckHandled(i) ==
    /\ At("posted", "ack", i)
    /\ Commit(<<>>)
    /\ UNCHANGED <<store, inserts, posted, deliveries, crashes>>

\* The answer of the post is lost, or the refresh throws: it is posted again.
AckHandlerThrows(i) ==
    /\ At("posted", "ack", i)
    /\ Rollback
    /\ UNCHANGED <<store, inserts, posted, deliveries, crashes>>

---------------------------------------------------------------------------
(* The process.                                                            *)

\* The process dies and is started again.  Queue, error queue and store are
\* on disk; the receive aborts and the count of failures is forgotten.
Crash ==
    /\ crashes < MaxCrashes
    /\ crashes' = crashes + 1
    /\ pc' = "idle"
    /\ attempts' = 0
    /\ UNCHANGED <<queue, store, inserts, posted, errors, deliveries>>

Progress(i) ==
    \/ HandleDuplicate(i) \/ AddMessageId(i) \/ InsertDocument(i) \/ Complete(i)
    \/ PostAcknowledgment(i) \/ AckHandled(i)

Failure(i) ==
    \/ MessageStoreThrows(i) \/ InsertDocumentFails(i) \/ CompleteFails(i)
    \/ PostAcknowledgmentFails(i) \/ AckHandlerThrows(i)

Next ==
    \/ \E i \in Ids : Deliver(i) \/ Progress(i) \/ Failure(i)
    \/ Crash

\* NServiceBus keeps receiving: the head of the queue is not left alone.
Fairness == WF_vars(\E i \in Ids : Progress(i) \/ Failure(i))

Spec == Init /\ [][Next]_vars
FairSpec == Spec /\ Fairness

---------------------------------------------------------------------------
(* Properties.                                                             *)

InQueue(m) == \E n \in 1 .. Len(queue) : queue[n] = m

\* However often a command is pushed, retried, or interrupted by a crash at
\* any line of the handler, the back office inserts its document at most once.
AtMostOnceInsert == \A i \in Ids : inserts[i] <= 1

\* A message whose attempt was made is not forgotten half way, whichever of the
\* later steps fails: its command or its acknowledgement is still queued, or in
\* the error queue where an operator finds it, or the acknowledgement was posted.
RecordedIsAccountedFor ==
    \A i \in store :
        \/ i \in posted
        \/ InQueue(Insert(i)) \/ InQueue(Ack(i))
        \/ {Insert(i), Ack(i)} \cap errors # {}

\* The endpoint does what SingleAttempt says, and no more.  The attempt for a
\* message is open exactly while the handler stands between the message store and
\* the back office; after that, in whatever way it ended, it is not made again:
\* the guarantee against a second insertion is bought with that of the first.
attempt ==
    [i \in Ids |-> IF i \notin store THEN "new"
                   ELSE IF At("recorded", "insert", i) THEN "open" ELSE "over"]

Abstract == INSTANCE SingleAttempt WITH answered <- posted

ImplementsSingleAttempt == Abstract!Spec

\* Every command moved to the queue is in the end acknowledged to Audit, or it
\* or its acknowledgement ends in the error queue after MaxAttempts failures.
EveryDeliveryAnswered ==
    \A i \in Ids :
        InQueue(Insert(i)) ~>
            (i \in posted \/ {Insert(i), Ack(i)} \cap errors # {})

\* The comment on line 56 of the handler: an id is in the message store, and so
\* is acknowledged as a success, only if the back office has its document.  It is
\* also what the "multiple retries of insertion of data into the Back Office" of
\* README.md:16 come to: a failed insertion is tried again before the success is
\* acknowledged.
SuccessMeansInserted == \A i \in posted : inserts[i] > 0
=============================================================================
