# ReliableSignalRMessaging: models, checks and proofs

ReliableSignalRMessaging carries agreement documents from a data centre to the
back offices of remote brokers. SignalR does the pushing, and it may drop what it
pushes; around it the repository builds a registry of connections, a throttle, a
replay of unacknowledged commands, an idempotent receiver with a persistent
message store, acknowledgements over a Web Api, and an audit log that says what was
acknowledged. The modules here model these mechanisms, check them with TLC on small
instances, and prove the central results with TLAPS for every instance.

Contents: the system (1), the modules and how they correspond to the code (2), the
runs, their bounds and what they show (3), fairness (4), the proofs (5), where the
code departs from what is said of it (6), what is not modelled (7), the plan (8).

## 1. The system

    Ui -> Saga -> DocumentDownloader -> Saga -> Hub  ~SignalR~>  HubSubscriber (at the broker)
                                                 |                     |
                                        copy of each           acknowledgement
                                      processed message            (HTTP)
                                                 v                     |
                                               Audit  <----------------+
                                                 |  CompleteAgreementSagaCommand
                                                 v
                                               Saga

Everything between processes of the data centre travels over MSMQ with NServiceBus 5:
a handler runs in the transaction of its receive, is retried when it throws, and its
message ends in an error queue after the last retry.

| component | state it keeps | operations | what makes it correct |
|---|---|---|---|
| Connection registry, `Hub/Managers/BrokerConnectionManager.cs` | one static list of entries (connection, broker, Expired, token expiry) | add, remove, clear, "is the broker connected", "is its token about to expire" | one entry per connection; one active entry per broker, its newest connection; a superseded connection stays superseded |
| Hub callbacks and replay, `Hub/Hubs/BackOfficeHub.cs` | nothing of its own but the snapshot of a replay in progress and the rows its context tracks | OnConnected (register, then replay), OnReconnected, OnDisconnected | the registry follows SignalR; the replay reads and writes the audit table without losing completions or inventing retries |
| Push handler, `Hub/Handlers/InsertDocument...Handler.cs` | its queue, its retries, the error queue | check the registry, push, throttle | a dropped push leaves a trace from which the command can be sent again; no command stays in the queue for ever |
| Audit, `Audit/` | the table MessageLog (and HubConnectionLog), its queue and error queue | write a row per audited message, stamp the rows of a correlation id, controller for acknowledgements | a completed row stays completed; an undelivered command is not completed |
| Remote processing, `HubSubscriber/Handlers`, `Services/MessageStoreService.cs` | its queue, the Esent message store, the error queue | move a push to the queue, insert, post the acknowledgement | a document is inserted at most once; every delivery is answered or becomes an error |
| Remote connection, `HubSubscriber/Managers/HubConnectionManager.cs` | the field `hubConnection`, the connections behind it, restart timers, threads at `startLock` | Start, Stop, refresh of the token, callbacks Error, Slow, Closed | never left without a connection and without a restart to come; one connection at a time |
| Saga, DocumentDownloader, OnlineBackOffice, Ui | saga data per agreement, the queues and error queues of the endpoints | submit, download, dispatch to the back office of the broker, complete | dispatched once, completed at most once and after that; an open saga always has something that will drive it on |
| IdentityProvider and the tokens of the brokers, `IdentityProvider/`, `HubSubscriber/Services/AccessTokenService.cs` | the expiry in the claims of a token, the endpoint's own expiry date | grant, check after each acknowledgement, refresh, check after each push | a connection does not outlive its token while the broker is busy; the Hub waits while the endpoint may refresh |
| Contracts, infrastructure, logging | none that matters here | | not modelled, see 7 |

How they interact. The push handler and the SignalR callbacks are threads of one
process and share the registry under its lock. The replay and Audit are two processes
that share the table MessageLog. A push, an audit copy and an acknowledgement of the
same command travel on three different ways and arrive in any order: the broker may
acknowledge before the receive that pushed the command commits, and Audit may stamp before
it has written the row. The expiry of a token is kept on both ends, computed differently,
and each end acts on its own. At the broker
the SignalR callback, two kinds of handlers of one queue and the timers of closed
connections share the connection manager.

What is hard. Callbacks of the old and of the new connection of a broker interleave;
registry answers are stale when the handler pushes; the replay works on a snapshot
while acknowledgements arrive; a push disappears without an exception; the message
store commits outside the transaction around it; the process may die between any two
lines; stopping a connection raises an event that starts another. The list, with the
line of each, is under `hazards` in `PROJECT.json`.

## 2. The modules

### BrokerConnectionManager
Variable `brokerConnections` is the static list, as a set: an invariant of the model
(`NoDuplicateEntries`) shows that a connection is listed once, and `AtMostOneActive`
that `First(... && !b.Expired)` has no choice, so the order of the list is immaterial.
Each method holds the lock from its first to its last line and is one action:
`AddConnection`, `RemoveConnection`, `ClearBrokerConnections`; `IsBrokerConnected` and
`ActiveEntries` (the lookup of the token) are operators. `newest` is a history
variable. The time of expiry is left to `TokenRefresh`.

### AuditLog and Hub
`AuditLog` is the Audit process and its table. A row is kept as three facts: written or
not (`Logged`), stamped or not (`Completed`), and `Retries`. `auditQueue` holds copies
of processed commands on their way to Audit, `auditErrors` those that Audit gave up after its
retries (`audit.error`), `completions` the completion commands
whose processed copies will stamp the rows again. It has no next-state relation of its
own: its operations are taken by the actions of `Hub`.

`Hub` extends both and is the composition of the Hub process, the registry, Audit and,
as far as the Hub sees them, the brokers.

| model | code |
|---|---|
| `Connect`, `Reconnect`, `Disconnect` | SignalR opens, reconnects or drops a connection; from here to the write of the registry the connection is open and not listed, or dropped and still listed |
| `OnConnected`, `OnReconnected`, `OnDisconnected` | the callback that follows writes the registry |
| `OnConnectedThrows`, `OnReconnectedThrows`, `OnDisconnectedThrows` | the publish, or the parsing of the claims, throws before the registry is reached; SignalR does not call again (`missed` keeps these connections) |
| `GetUnacknowledgedMessages`, `Resend`, `UpdateMessageRetries`, `ReplayReturns`, `ReplayThrows` | the replay, one step for each statement on the database and each push; `pending` is the list in the loop, `tracked` the entities the context has loaded, whose `Retries` it increments without reading the table again |
| `HandleConnected` / `HandleNotConnected`, `HandlePush`, `Throttle` / `ThrottleThrows` | the handler: the check, the push, the lookup of the token, with the commit of the receive or a retry |
| `Push` | `Clients.User(...).InsertDocument`: reaches the broker if a connection of it is open then, or is lost |
| `Acknowledge`, `AcknowledgeFails` | the post of a broker that received the command, whole or half way, any number of times |
| `AuditCommand`, `AuditCompletion` | the handlers of the queue "audit": the row of a processed command, the stamp of a processed completion |
| `AuditCommandFails`, `AuditCompletionFails` | a copy whose handler failed for good goes to `audit.error` |
| `Restart` | the process dies: registry, replays, retries in memory are gone, transports are cut and reconnect |

`First(a => a.BrokerId == ...)` in `UpdateMessageRetries` has no order, so the row is
chosen nondeterministically among the rows of the broker. The query's test
`CreateDate <= tomorrow` holds of every row and is left out. First and second level
retries are one count, `MaxAttempts`.

### SingleAttempt and RemoteInsert
`SingleAttempt` is what the code of the broker's side does with a message, without its
details: one attempt at most, and an answer only after the attempt is over. It is less than the
repository promises (README.md:16, "multiple retries of insertion"): an attempt that failed is not
made again, and the answer does not tell. The violation `remote_uninserted`, section 6, is what is
missing. `RemoteInsert` is the code: the
queue "HubSubscriber" (both commands go through it with concurrency 1, so there is one
program counter `pc`), `Commit` and `Rollback` of the receive, the Esent `store`, and
both handlers statement by statement:
`HandleDuplicate`, or `AddMessageId`, `InsertDocument`, `Complete`, with
`MessageStoreThrows`, `InsertDocumentFails`, `CompleteFails`; then
`PostAcknowledgment`, `AckHandled` with `PostAcknowledgmentFails`, `AckHandlerThrows`;
and `Crash` anywhere. `AddMessageId` is durable at once because
`MessageStoreService.InsertMessage` commits a transaction of Esent, which does not
enlist in the `TransactionScope`. When the back office refuses, the nested scope is
disposed without `Complete`, which aborts the receive: the failure acknowledgement
that follows never leaves, and `InsertDocumentFails` is a `Rollback`.

The refinement mapping: `attempt` of a message is "new" while its id is not in the
store, "open" while the handler stands between the store and the back office, "over"
after that; `answered` is `posted`.

### HubConnection
Each successful `GetToken` creates a `HubConnection`, so connections are numbered and the
field `hubConnection` holds the number of the last. `EnterStart` is the acquisition of
`startLock` with the test `HubConnectionIsAlreadyConnected`; `GetToken` /
`GetTokenFails`, `ConnectSucceeds` / `ConnectFails` / `ConnectInterrupted` are the rest
of `Start`, under the lock. `Refresh` is the end of `SendAcknowledgmentCommandHandler`
(`Stop`, then `Start`). `Trouble(c)` is `Error` or `ConnectionSlow` of connection `c`, whose
handlers stop the connection *of the field*. `Close` raises `Closed`, which schedules a
restart (`timers`, `TimerElapses`). `LoseTransport`, `Reconnected`, `ReconnectTimesOut` are
what the SignalR client does by itself.

### AgreementSaga
The life of an agreement in the data centre. `Submit` is the form of the Ui; `HandleSubmit`,
`HandleDownloaded`, `HandleComplete` are the handlers of the saga, `DownloadDocument` and
`InsertOnline` those of the two other endpoints. `saga` is the stored `AgreementSagaData`: absent,
or with `DocumentDownloaded` unset or set. The two strategies are told apart by
`OnlineAgreements`: the Ui submits for broker 123 and broker 456, and each has one applicable
strategy. `inFlight` counts the copies of each message in the queues; it is a bag because
second level retries put a message back later. A handler, its saga data and its sends share the
transaction of the receive, so an attempt that will be repeated changes nothing and is not
a step; the last one is `GiveUp`, into the error queue. `SagaNotFound` is what NServiceBus does
with a message that may not start a saga and finds none: it is discarded.

The Hub and the broker appear by what the saga can notice. `HubPushes` and `HubCommits` are apart
because a push stands although its receive may be repeated or given up, so the broker can
acknowledge a command that is still in the queue. `PostAcknowledgement` sends one
`CompleteAgreementSagaCommand` for each acknowledgement that arrives, and there may be several.

### RemoteDelivery
The agreement from end to end. `AgreementSaga`, `Hub` (with the registry and Audit) and
`RemoteInsert` are instantiated on shared variables, and an action is the action of one of
them or several joined where the code makes them one step:

| action | joins |
|---|---|
| `HandlePush`, `Resend` | the push of the Hub with `Deliver` at the endpoint (`Reaches`), unless the push is lost |
| `Throttle` | the commit of the Hub's receive with the consumption of the command in the queue the saga sent it to |
| `HandlerThrows` | the retry, or the move to the error queue, in the Hub and in the saga's view of its queue |
| `PostAcknowledgement`, `PostHalfway` | the post of the endpoint, the stamp in Audit and the command to the saga; or the stamp alone and a failed post |
| `CompleteSaga` | the end of the saga and the audit copy of its command, which stamps the rows again |
| `AuditCommand`, `AuditCompletion` | Audit takes a copy, or gives it up into `audit.error` |

Each of the three was written with an environment that does what it may: `Hub` lets a broker
acknowledge any command it received, `AgreementSaga` lets a pushed command be acknowledged at any
time. The composition does not repeat these guards, and `ImplementsHub` and `ImplementsSaga` show
that the real neighbours stay within them; so every invariant of the two holds end to end. The queue
"Hub" is one variable: the Hub's `hubQueue` is computed from the saga's messages.
`CompletesAfterAttempt` is the abstract specification `SingleAttempt` again, with "the saga
completed" for "answered": completion follows the attempt, not the insertion. `NothingForgotten`
follows an agreement from its submission to its completion: in between, some queue, an incomplete
row or an error queue holds what will be found of it. An endpoint that crashed keeps its connection
in the eyes of the Hub, and a push to it is one of those that are lost.

### TokenRefresh
The registry composed with the tokens of a broker, in time. `GrantToken` is the identity provider
(`AuthorizationProvider.AddMandatoryClaims` writes the expiry into the claims, in ticks),
`ReceiveToken` the endpoint, which counts `expires_in` from the receipt. `expires_in` is a whole
number of seconds: what remains of the lifetime when the answer is written is cut, by anything from
nothing to a `Second` (1199 instead of 1200 is usual). So `accessTokenExpiryDate` is later than the
claim by the time the token was on its way, and earlier by the cut; which of the two prevails is
open. `LookupThrows` is the Hub without an active entry for the broker: it does not wait then, the
handler fails and the command is retried. `CheckToken` and `StopToRefresh` are two steps because
`AccessTokenNeedsRefresh` releases its lock before `Stop`, and a timer's `Start` may replace the
connection in between. `AddBrokerToConnections` and `OnDisconnected` reach the Hub at any later
time. `RestartEndpoint` and `RestartHub` lose the memory of one side. Which thread enters
`Start` is left to `HubConnection`.

### Assumed of the environment
MSMQ and NServiceBus 5: receive in an ambient transaction, messages sent leave with its
commit, error queue after the retries, audit copies only of processed messages, retries
counted in memory. SignalR 2.2: callbacks of one connection run one after the other;
`Clients.User` reaches every open connection of the user and reports nothing when there
is none; a connection raises `Closed` once; a client that reconnects to a restarted Hub
raises `OnReconnected`. Entity Framework: a tracked entity is not refreshed by a query,
and only changed columns are written.

## 3. The runs

| run | cfg | checks |
|---|---|---|
| registry | MCBrokerConnectionManager | `TypeOK`, `NoDuplicateEntries`, `AtMostOneActive`, `ActiveIsNewest`, `SupersededStaysSuperseded` |
| remote | MCRemoteInsert | `TypeOK`, `AtMostOnceInsert`, `RecordedIsAccountedFor`, `ImplementsSingleAttempt`, `EveryDeliveryAnswered` |
| hub | MCHub | `HubTypeOK`, `ChargedForReplays`, `RegistryMatchesSignalR`, `UndeliveredIsRecoverable`, `CompletionIsFinal` |
| connection | MCHubConnection | `TypeOK`, `NeverStranded`, `OnlyFieldIsLive`, `ReconnectsIfTokensGranted` |
| saga | MCAgreementSaga | `TypeOK`, `CompletesOnceAfterDispatch`, `OpenSagaIsDriven`, `EveryAgreementEnds` |
| delivery | MCRemoteDelivery | `NothingForgotten`, `ImplementsHub`, `ImplementsSaga`, `CompletesAfterAttempt`, `EveryAgreementSettles` |
| tokens | MCTokenRefresh | `TokenTypeOK`, `ConnectedTokenIsValid`, `ThrottleFollowsRefresh` |
| remote_uninserted, hub_acked, hub_retries, connection_single, connection_token | of the same name | one violation each, section 6 |

Bounds, and why they are enough.

- Registry: two brokers, five connections of which one broker owns three. Three
  connections are the first case in which a superseded entry is followed by two newer
  ones; the operations look at one broker and one connection at a time, and the theorems
  of section 5 remove the bound.
- Remote: two ids and three deliveries. A command can stand behind its own duplicate
  and behind the acknowledgement of another, which are the only relations between
  queued messages the handlers can notice; two attempts make both branches of `Rollback`
  happen. `AtMostOnceInsert` and the refinement are proved without these bounds.
- Hub: the actions relate connections and commands of one broker, so there is one. Two connections,
  two commands and two faults: two replays run at once, or a replay beside the handler and an
  acknowledgement; one connection supersedes the other and closes before or after it, with its
  callback still on the way; a push is lost and the Hub restarts, or the Hub restarts and the
  callback of the reconnect throws. A fault is a lost push, a callback or a replay that throws, a
  post that fails half way, an audit copy given up, or a restart. `MaxRetries = 1` reaches the limit
  of the replay, which is 10 in the code; the limit is only compared with. The handler has one
  attempt in `hub`, and two in `hub_acked`, `hub_retries` and `delivery`, instead of all first and
  second level retries; the safety of the Hub is proved without these bounds.
- Connection: two troubles, one loss, two refreshes and one failed token: two timers can be
  pending while a refresh meets a restart under way. Every connection after the first needs
  one of these, so the number of connections follows from the bounds.
- Saga: an agreement of each kind and a second remote one. Agreements do not meet anywhere, so
  more show nothing new; two acknowledgements are the first case in which one finds no saga.
- Delivery: one agreement, one connection, one fault at the Hub or Audit (a lost push, a callback
  that throws, a post that fails half way, an audit copy given up, or a restart) and one crash of
  the endpoint, two attempts and one replay. The connection may open before or after the push, so
  that the command arrives by the push, by the replay, by both or not at all. Two deliveries and two posts are
  what these bounds can produce and `MaxDeliveries` does not cut anything off. Agreements meet only
  in the queues and in `UpdateMessageRetries`, which `hub` and `remote` check with two; the theorems
  are for any number of agreements and of everything else that is bounded here.
- Tokens: three connections, a lifetime of 4, a window of 2, and a delay and a cut of up to 1, in
  units of which the clock counts 8: two lifetimes, so that a token expires, is refreshed, and the
  next one comes due while its predecessor may still be listed. The theorems remove all of these
  bounds.

The runs of `Hub` and `HubConnection` do not check for deadlock: once the faults and troubles
are used up and every connection is gone, or the endpoint is connected, these systems do
stop. `RemoteInsert`, `AgreementSaga` and `RemoteDelivery` stop too, when all messages are processed.
The registry and `TokenRefresh` never stop and are checked for deadlock.

Every property has a mutant, a definition beside the original marked "Mutant" that makes a
plausible mistake in one operation and breaks that property in that run.

## 4. Fairness

- `RemoteInsert`: weak fairness of the handlers' next step. NServiceBus keeps receiving as
  long as the process runs, crashes are finitely many, and failures are steps too:
  nothing says that a retry ever succeeds, and `EveryDeliveryAnswered` holds because
  retries end in the error queue.
- `RemoteDelivery`: weak fairness of each process that receives from a queue: the saga and its
  endpoints for each agreement, the handler of the Hub, Audit for each copy of a command, and the
  endpoint of the broker. That Audit goes on with a copy does not mean that it succeeds: the fair
  action is the row or, within the bound on faults, `audit.error`. Nothing is assumed of SignalR, of
  the replay or of the arrival of the broker, so `EveryAgreementSettles` says that an agreement is
  completed, or one of its messages, or the copy for Audit, is in an error queue, or its row waits
  for the broker to connect again; and that once the command has reached the broker no connection is
  needed any more. `HandlerThrows` is a step too: the queue of the Hub empties even when the broker
  never comes.
- `HubConnection`: weak fairness of the thread in `Start` or at its lock, of timers, and of
  the end of a reconnect attempt, which SignalR bounds by the disconnect timeout. A connect
  that can fail may always fail, so what ends the disturbances is only their bound:
  `ReconnectsIfTokensGranted` reads "if errors stop and every token request was answered, the
  endpoint gets and stays connected". Without its condition it is the violation
  `connection_token`.
- `AgreementSaga`: weak fairness of the handling of each agreement's messages: every queue is
  received from, and a message is consumed or given up in the end. Nothing is assumed
  of the user, nor of the broker's posts.

## 5. The proofs

All are proved by TLAPS, without assumptions but those named `ASSUME` in the modules and
where the theorem says so.

- `BrokerConnectionManager_proofs`. `RegistrySafety`: type correctness, `NoDuplicateEntries`,
  `AtMostOneActive`, `ActiveIsNewest`; the theorems `RegistryTyped`, `ListedOnce` and
  `NewestIsActive` state its parts. The conjunction is inductive; the argument for
  `AddConnection` is lemma `ExpireMarks` (after marking, no entry of the broker is active and
  those of other brokers are as before) and the other operations only remove.
  `ActiveIsNewest` is an equality: a listed broker has no active entry in one situation only,
  when its newest connection left before an older one.
  `SupersededSafety`: the action property from the same
  invariant; it needs `NoDuplicateEntries`, without which an expired and an active entry
  of one connection could coexist.
- `Hub_proofs`. `HubTyped`, `RegistryFollowsSignalR`, `NothingUndeliveredIsLost`, `StampsAreFinal`,
  `ReplaysAreChargedAtMostOnce`. `RegistryMatchesSignalR` says nothing of a connection while its
  callback is between SignalR and the registry; what it needs for that time is in `Registered`: a
  connection about to be added is held open by SignalR, and one about to be removed is gone, because
  SignalR lets no other event of the connection overtake its callback. `AddLists` says what
  `AddConnection` lists. `UndeliveredIsRecoverable` needs `Placed` (a command is in the queue, an
  error, an audit copy or a row, and has no row before its copy arrived) and `Stamped` (only
  delivered commands are stamped or about to be, by a completion on its way). The latter rests on
  `CorrelationAssumption`, that each agreement has a correlation id of its own: with a shared one
  the acknowledgement of a command would stamp another that was never delivered. `Placed` also gives
  `CompletionIsFinal`, since the only step that writes a whole row finds none. `ChargedForReplays`
  compares what all the rows were charged with all the pushes of replays. The rows alone do not
  carry an induction: a context that tracks an old copy of a row sets its `Retries` back, or a row
  is charged for what another context has seen. `Charged` says that there is a count of updates for
  each row that is no less than the row, and than every tracked copy of it (`Covers`), and that the
  updates, with one more for each replay standing between push and update, are no more than the
  pushes (`Paid`). Totals are cardinalities of the set `Counted` of single occasions, so that one
  more occasion is one more element, and no sum over the rows has to be taken apart by induction.
- `TokenRefresh_proofs`. `ConnectionNeverOutlivesToken`: the endpoint's date is at most `Delay`
  ahead of the claim (`DateIsClose`, from `GrantIsRecent`), so a token kept by a check has more than
  `Window - Delay` to live. With the timeout of HttpClient, 100 seconds, and the window of 5
  minutes, acknowledgements every 3 minutes are enough. `HubSeesRefreshComing`: the endpoint's date
  is behind the claim of any connection the Hub may list by no more than a `Second` (`DateIsLast`),
  because no token granted earlier expires later (`NoneOutlivesNext`). So a Hub that finds an active
  entry waits from at most that much after the endpoint may refresh. Both need `Window < Lifetime`
  (5 and 20 minutes) or less.
- `RemoteInsert_proofs`. `RemoteInsertSafety` and `Refinement`. `AtMostOnceInsert` is not
  inductive: it needs that an id not in the store was never inserted, and that while the
  handler stands between store and back office the document of the head is not inserted
  yet, which in turn needs that a message acknowledged or queued as an
  acknowledgement is in the store. `IInv` is the conjunction of these claims. The lemmas on
  sequences say which commands are in the queue after `Append`, `Tail` and concatenation.
  For the refinement each action is shown to be `Begin`, `Insert`, `Abandon` or `Answer` of
  the abstract specification, or to leave `attempt`, `inserts` and `posted` alone; a crash or
  a rollback at "recorded" is `Abandon`.
  `RecordedIsAccountedFor` joins the invariant as it is: whatever leaves the queue without
  an answer goes to the error queue.
- `HubConnection_proofs`. `AlwaysRestarted`: `NeverStranded`, that is, as long as every token was
  granted somebody attends to the connection. It is strengthened by the fact that whenever the
  field is set and its connection is down, a restart is on its way, also after a stop that hit
  a connection still connecting; `Close` adds a timer, a timer becomes a waiting thread, a
  waiting thread becomes the holder, and the holder leaves only a live connection or a
  new timer. `SingleConnectionWithoutReconnect`: as long as no transport was lost,
  `OnlyFieldIsLive` and `SingleConnection`, because then a thread that finds the field not
  connected finds it down, every connection being opened by the holder of `startLock`. The two
  conditions are exactly those the violations in section 6 lift.
- `AgreementSaga_proofs`. `SagaSafety`: type correctness, `CompletesOnceAfterDispatch` and
  `OpenSagaIsDriven`. The invariant of an agreement says that until the broker posts there is a
  single token, one message of one type; that before the dispatch nothing behind it has
  happened, and after it nothing before it is in flight; and that an acknowledgement of an open
  saga is in the queue of the saga or in the error queue. `Begun`, which `RemoteDelivery` needs,
  adds which message each state of the saga waits for before the dispatch. Each action has a
  lemma, and the lemma `Frame` says that an action of one agreement leaves the others alone.
- `RemoteDelivery_proofs`. `DeliveryImplementsHub`, `DeliveryImplementsSaga`,
  `DeliveryCompletesAfterAttempt`, `SubmittedIsNotForgotten`, `ComponentsKeepTheirPromises`. The Hub
  may assume that only delivered commands are acknowledged, the saga that only pushed ones are,
  and neither can be shown from one component. The invariant `DInv` is the conjunction of the
  inductive invariants of the three components, taken over from their modules of proofs by
  INSTANCE, with what ties them together:

  | conjunct | says | needed for |
  |---|---|---|
  | `Arrived` | what is in the queue of the endpoint, as a command or as an acknowledgement, was delivered | an acknowledgement is of a delivered command |
  | `Pushed` | what has left the queue of the Hub was pushed | the saga is completed only after the push |
  | `Handled` | the command in the handler is still in the queue "Hub", and pushed before the throttle | the commit in the Hub is a commit in the saga |
  | `Answered` | completions on their way were posted, after the attempt to insert, and only commands in the message store are stamped | a copied completion stamps a delivered row; the saga ends after the attempt |

  Each action has a lemma that it is `Composed`: a step of each of the three components or
  invisible to it, and one that respects the ties. So the refinements and the preservation of
  `DInv` come from the same case analysis (`StepComposed`, `ComposedPreserves`), and the invariants
  of the components are not proved a second time: their own preservation lemmas apply to the step
  (`ComponentsKept`). The lemmas `SameHub`, `SameSaga` and `SameEndpoint` say that the instance of a
  component in `RemoteDelivery` is that of its module of proofs.
  `SubmittedIsNotForgotten` goes along the life of the agreement: `Begun` up to the dispatch,
  `Placed` in the Hub and Audit, then `Accounted` of the endpoint for a row that is stamped
  while nothing was posted to the saga, which is the post that failed half way, and `Acknowledged`
  of the saga once it was. The assumptions named in `RemoteDelivery` are those of its components:
  the bounds are natural numbers, a handler has at least one attempt, the back office inserts,
  refuses or throws.

Every safety invariant, action property and refinement that a passing run checks is stated by one
of these theorems. Only model-checked: the liveness properties (`EveryDeliveryAnswered`,
`EveryAgreementSettles`, `ReconnectsIfTokensGranted`, `EveryAgreementEnds`), since the proof
system handles neither fairness nor ENABLED. `ImplementsHub`, `ImplementsSaga` and
`CompletesAfterAttempt` are refinements of safety specifications: no fairness of the abstract
side is claimed, by the runs or by the theorems.

## 6. Where the code departs from what is said of it

Each is a run in which TLC finds the counterexample.

- `remote_uninserted`, `SuccessMeansInserted`. The comment at the handler's line 56 says the id is
  committed "if successfully inserted to back office". It is committed before, and it survives the
  rollback. A back office that refuses or throws once, or a process that dies in between, ends in an
  acknowledged success for a document never inserted, and in a completed saga. It is also against
  README.md:16 of the repository, that the handler "allows for multiple retries of insertion of data
  into the Back Office": the back office is called once for a message, because every retry takes the
  branch for duplicates. The failure acknowledgement that the unit test
  `Handle_WhenBackOfficeInsertFails_ShouldSendFailureAcknowledgement` expects is sent in a receive
  that is already aborted; with a mocked bus the test cannot see it.
- `hub_acked`, `AckedNotReplayed`. A command whose acknowledgement was posted may be replayed:
  the acknowledgement may come after the snapshot, or before there is a row to stamp, in
  which case the row is never stamped by it. The message store at the broker absorbs the
  duplicate.
- `hub_retries`, `RetriesAreOwnReplays`. `UpdateMessageRetries` increments any row of the broker.
  What remains true is `ChargedForReplays`: the total is never more than the number of replays.
- `connection_single`, `SingleConnection`. A scheduled restart that meets a reconnecting connection
  replaces it without stopping it; both may end up connected.
- `connection_token`, `EventuallyConnected`. A failed token request ends the chain of restarts.

Two smaller observations, without runs of their own.

- When the newer of two connections closes first, a listed broker has no active entry (exactly then,
  by `ActiveIsNewest`), the throttle throws after each push, and the retries push again.
- README.md:13 of the repository says that the throttle "makes certain no notifications are pushed"
  while the client reconnects for a refresh. `expires_in` has whole seconds and the claim has ticks:
  with an answer faster than the fraction cut off, the endpoint is due to refresh before the Hub
  finds the token due. What remains true is `ThrottleFollowsRefresh`: a Hub that finds an active
  entry waits after its pushes from at most a second later (`ThrottleFollowsRefresh` fails when
  `Second` is taken out of it). Once it sets in, the throttle is a wait of 15 seconds after each
  push: a token that comes due between a push and its acknowledgement, an insertion that takes
  longer, and a replay are not covered, and there the retries and the replay have to help.

## 7. What is not modelled

- The row HubConnectionLog of each connection event: written and never read.
- The 15 and 30 second delays as times: a timer may elapse, and the throttle end, at any time.
- Shutdown of the services, the contents of documents, headers, serialization, logging.
- Of the identity provider: signatures, audiences, names and passwords, the OWIN middleware, the
  tokens of the acknowledgement posts (one per post, never kept). `HubConnection` has only whether a
  token is granted, `TokenRefresh` when it expires. Endpoints whose clocks differ.
- The Ui beyond the messages it sends; the stand-alone MessageStore project, an unused copy; the test
  publisher.
- The scripts under `Ui/Scripts`: they are the published jQuery, Bootstrap, Modernizr, Respond and
  jQuery Validation libraries, unchanged. The program itself is C#, and it is what the modules
  model; no script of the repository's own takes part in it.
- The first start of the endpoints, before the Saga has subscribed to the events of the other two.
  Subscriptions are persistent, so that the order matters once.

## 8. The plan

1. Done: the registry with its proofs; the remote processing with its abstract specification and the
   refinement; the Hub composed with the registry and Audit, with its proofs; the connection
   manager and the saga with theirs; tokens in time, with theirs; the delivery from end to end,
   proved to implement the Hub, the saga and `SingleAttempt`, and never to forget an agreement.
2. What remains true where the code departs from what is said of it, as a theorem: without a crash,
   a refusal or a throw between store and back office an acknowledged success was inserted (beside
   `remote_uninserted`).
3. An abstract specification of what the data centre promises for a command, from queued to pushed
   to stamped, that the Hub with Audit implements.
