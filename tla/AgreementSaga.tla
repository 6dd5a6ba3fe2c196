------------------------------ MODULE AgreementSaga ------------------------------
(***************************************************************************)
(* The workflow of an agreement: the Ui submits it, the Saga has its       *)
(* document downloaded and dispatches it to the back office of its broker, *)
(* and a message from there completes the saga.                            *)
(*                                                                         *)
(* The Saga, DocumentDownloader and OnlineBackOffice are NServiceBus       *)
(* endpoints with a persistence that shares the transaction of the         *)
(* receive: a handler consumes its message, changes its saga and sends, or *)
(* does none of these.  An attempt that fails and will be repeated changes *)
(* nothing, and so is not a step; the last one moves the message to the    *)
(* error queue of its endpoint (GiveUp).  First level retries keep the     *)
(* order of a queue and second level retries do not, so queues are bags.   *)
(*                                                                         *)
(* A message is kept for its type and its correlation id, by which a saga  *)
(* is found.  A message that finds no saga and may not start one is        *)
(* discarded.  The way of a command through the Hub to the broker and of   *)
(* the acknowledgement back is the subject of Hub and RemoteInsert; here   *)
(* the broker of a pushed command may post any number of times, as the     *)
(* replay and the retries of its acknowledgement make it do.               *)
(***************************************************************************)
EXTENDS Naturals

CONSTANTS
    Agreements,         \* the agreements, by CorrelationId
    OnlineAgreements,   \* those of the broker with the online back office
    MaxPosts            \* bound: acknowledgements posted for an agreement

ASSUME OnlineAssumption == OnlineAgreements \subseteq Agreements
ASSUME PostsAssumption == MaxPosts \in Nat

VARIABLES
    submitted,      \* the agreements submitted in the Ui
    inFlight,       \* how many copies of a message are in the queues
    errors,         \* messages in the error queues
    saga,           \* AgreementSagaData: absent, or with DocumentDownloaded unset or set
    remote,         \* agreements whose command the Hub has pushed
    posts,          \* acknowledgements posted by the broker, against MaxPosts
    dispatched,     \* history: how often a document was sent to a back office
    completions     \* history: how often the saga was marked as complete

vars == <<submitted, inFlight, errors, saga, remote, posts, dispatched, completions>>

Types == {"SubmitAgreement", "DownloadDocument", "DocumentDownloaded",
          "InsertOnline", "InsertRemote", "OnlineInserted", "CompleteAgreementSaga"}

Message == [type : Types, agreement : Agreements]

TypeOK ==
    /\ submitted \subseteq Agreements
    /\ inFlight \in [Message -> Nat]
    /\ errors \subseteq Message
    /\ saga \in [Agreements -> {"absent", "submitted", "downloaded"}]
    /\ remote \subseteq Agreements
    /\ posts \in [Agreements -> 0 .. MaxPosts]
    /\ dispatched \in [Agreements -> Nat]
    /\ completions \in [Agreements -> Nat]

Init ==
    /\ submitted = {}
    /\ inFlight = [m \in Message |-> 0]
    /\ errors = {}
    /\ saga = [a \in Agreements |-> "absent"]
    /\ remote = {}
    /\ posts = [a \in Agreements |-> 0]
    /\ dispatched = [a \in Agreements |-> 0]
    /\ completions = [a \in Agreements |-> 0]

---------------------------------------------------------------------------
(* Messages.                                                               *)

Msg(t, a) == [type |-> t, agreement |-> a]

Queued(t, a) == inFlight[Msg(t, a)] > 0

Send(t, a) == inFlight' = [inFlight EXCEPT ![Msg(t, a)] = @ + 1]

Consume(t, a) ==
    /\ Queued(t, a)
    /\ inFlight' = [inFlight EXCEPT ![Msg(t, a)] = @ - 1]

\* The handler of a message of type t sends one of another type.
Forward(t, u, a) ==
    /\ Queued(t, a)
    /\ inFlight' = [inFlight EXCEPT ![Msg(t, a)] = @ - 1, ![Msg(u, a)] = @ + 1]

---------------------------------------------------------------------------
(* HomeController, DocumentDownloader and OnlineBackOffice.                *)

\* Every submission has a CorrelationId of its own.
Submit(a) ==
    /\ a \notin submitted
    /\ submitted' = submitted \cup {a}
    /\ Send("SubmitAgreement", a)
    /\ UNCHANGED <<errors, saga, remote, posts, dispatched, completions>>

\* Mutant: the document is compressed but its event is not published.
DownloadQuietly(a) ==
    /\ Consume("DownloadDocument", a)
    /\ UNCHANGED <<submitted, errors, saga, remote, posts, dispatched, completions>>

DownloadDocument(a) ==
    /\ Forward("DownloadDocument", "DocumentDownloaded", a)
    /\ UNCHANGED <<submitted, errors, saga, remote, posts, dispatched, completions>>

InsertOnline(a) ==
    /\ Forward("InsertOnline", "OnlineInserted", a)
    /\ UNCHANGED <<submitted, errors, saga, remote, posts, dispatched, completions>>

---------------------------------------------------------------------------
(* AgreementSaga.                                                          *)

\* The only message that starts a saga.
HandleSubmit(a) ==
    /\ saga' = [saga EXCEPT ![a] = "submitted"]
    /\ Forward("SubmitAgreement", "DownloadDocument", a)
    /\ UNCHANGED <<submitted, errors, remote, posts, dispatched, completions>>

\* Mutant: no strategy is applicable to the online broker, and nothing is sent.
DispatchRemoteOnly(a) ==
    /\ Queued("DocumentDownloaded", a)
    /\ saga[a] # "absent"
    /\ saga' = [saga EXCEPT ![a] = "downloaded"]
    /\ IF a \in OnlineAgreements
       THEN Consume("DocumentDownloaded", a)
       ELSE Forward("DocumentDownloaded", "InsertRemote", a)
    /\ dispatched' = [dispatched EXCEPT ![a] = @ + 1]
    /\ UNCHANGED <<submitted, errors, remote, posts, completions>>

\* The applicable strategy sends the document to its back office.
HandleDownloaded(a) ==
    /\ saga[a] # "absent"
    /\ saga' = [saga EXCEPT ![a] = "downloaded"]
    /\ Forward("DocumentDownloaded",
               IF a \in OnlineAgreements THEN "InsertOnline" ELSE "InsertRemote", a)
    /\ dispatched' = [dispatched EXCEPT ![a] = @ + 1]
    /\ UNCHANGED <<submitted, errors, remote, posts, completions>>

\* Mutant: the saga is kept, with DocumentSuccessfullyInserted set.
CompleteByFlag(t, a) ==
    /\ Consume(t, a)
    /\ saga[a] # "absent"
    /\ saga' = [saga EXCEPT ![a] = "inserted"]
    /\ completions' = [completions EXCEPT ![a] = @ + 1]
    /\ UNCHANGED <<submitted, errors, remote, posts, dispatched>>

\* Mutant: the saga is not removed.
CompleteAndKeep(t, a) ==
    /\ Consume(t, a)
    /\ saga[a] # "absent"
    /\ completions' = [completions EXCEPT ![a] = @ + 1]
    /\ UNCHANGED <<submitted, errors, saga, remote, posts, dispatched>>

\* MarkAsComplete removes the saga.
HandleComplete(t, a) ==
    /\ Consume(t, a)
    /\ saga[a] # "absent"
    /\ saga' = [saga EXCEPT ![a] = "absent"]
    /\ completions' = [completions EXCEPT ![a] = @ + 1]
    /\ UNCHANGED <<submitted, errors, remote, posts, dispatched>>

\* A message that may not start a saga, and finds none, is discarded.
SagaNotFound(t, a) ==
    /\ Consume(t, a)
    /\ saga[a] = "absent"
    /\ UNCHANGED <<submitted, errors, saga, remote, posts, dispatched, completions>>

Completing == {"OnlineInserted", "CompleteAgreementSaga"}

---------------------------------------------------------------------------
(* The environment.                                                        *)

\* The Hub pushes the command inside its receive: the broker may answer before
\* the receive is committed, and the push stands when it is repeated or given up.
HubPushes(a) ==
    /\ Queued("InsertRemote", a)
    /\ remote' = remote \cup {a}
    /\ UNCHANGED <<submitted, inFlight, errors, saga, posts, dispatched, completions>>

HubCommits(a) ==
    /\ a \in remote
    /\ Consume("InsertRemote", a)
    /\ UNCHANGED <<submitted, errors, saga, remote, posts, dispatched, completions>>

\* AcknowledgementController.Post: once for each acknowledgement that arrives.
PostAcknowledgement(a) ==
    /\ a \in remote
    /\ posts[a] < MaxPosts
    /\ posts' = [posts EXCEPT ![a] = @ + 1]
    /\ Send("CompleteAgreementSaga", a)
    /\ UNCHANGED <<submitted, errors, saga, remote, dispatched, completions>>

\* The last retry of a handler failed.
GiveUp(t, a) ==
    /\ Consume(t, a)
    /\ errors' = errors \cup {Msg(t, a)}
    /\ UNCHANGED <<submitted, saga, remote, posts, dispatched, completions>>

Handle(a) ==
    \/ HandleSubmit(a) \/ DownloadDocument(a) \/ HandleDownloaded(a) \/ InsertOnline(a)
    \/ HubPushes(a) \/ HubCommits(a)
    \/ \E t \in Completing : HandleComplete(t, a)
    \/ \E t \in Completing \cup {"DocumentDownloaded"} : SagaNotFound(t, a)
    \/ \E t \in Types : GiveUp(t, a)

Next == \E a \in Agreements : Submit(a) \/ Handle(a) \/ PostAcknowledgement(a)

\* Every message in a queue is handled in the end, or given up.
Fairness == \A a \in Agreements : WF_vars(Handle(a))

Spec == Init /\ [][Next]_vars
FairSpec == Spec /\ Fairness

---------------------------------------------------------------------------
(* Properties.                                                             *)

\* However often the broker acknowledges, and in whatever order messages are
\* handled and retried: a document goes to one back office once, and the saga
\* completes at most once, and not before that.
CompletesOnceAfterDispatch ==
    \A a \in Agreements : completions[a] <= dispatched[a] /\ dispatched[a] <= 1

\* A saga that exists is not an orphan: a message that will drive it on is in a
\* queue or, for an operator to return, in an error queue, or its command was
\* pushed and is not acknowledged yet.  Once acknowledged it is not replayed.
OpenSagaIsDriven ==
    \A a \in Agreements : saga[a] # "absent" =>
        \/ a \in remote /\ posts[a] = 0
        \/ \E t \in Types : Queued(t, a) \/ Msg(t, a) \in errors

\* Every submitted agreement is completed, or its command is pushed, or one of its
\* messages ends in an error queue; and an acknowledged one does not stay open.
GivenUp(a) == \E t \in Types : Msg(t, a) \in errors

EveryAgreementEnds ==
    \A a \in Agreements :
        /\ a \in submitted ~> (completions[a] > 0 \/ a \in remote \/ GivenUp(a))
        /\ posts[a] > 0 ~> (completions[a] > 0 \/ GivenUp(a))
=============================================================================
