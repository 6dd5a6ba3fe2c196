--------------------------- MODULE AgreementSaga_proofs ---------------------------
(* A document is dispatched once, its saga completes at most once and after    *)
(* that, and an open saga is driven on: for any number of agreements, any      *)
(* number of acknowledgements, and any order of the messages in the queues.    *)
EXTENDS AgreementSaga, TLAPS

Early == {"SubmitAgreement", "DownloadDocument", "DocumentDownloaded"}
Late == {"InsertOnline", "InsertRemote", "OnlineInserted"}

Copies(t, a) == inFlight[Msg(t, a)]

(* Before it is submitted an agreement has left no trace.                      *)
Untouched(a) ==
    a \notin submitted =>
        /\ \A t \in Types : ~ Queued(t, a)
        /\ saga[a] = "absent"
        /\ dispatched[a] = 0

(* Until the broker posts there is a single token: one message at most.        *)
SingleToken(a) ==
    /\ \A t \in Early \cup Late : Copies(t, a) <= 1
    /\ \A t, u \in Early \cup Late : Queued(t, a) /\ Queued(u, a) => t = u

(* What may be in flight, and what has happened, on each side of the dispatch. *)
BeforeDispatch(a) ==
    dispatched[a] = 0 =>
        /\ \A t \in Late \cup Completing : ~ Queued(t, a)
        /\ a \notin remote
        /\ completions[a] = 0

AfterDispatch(a) ==
    /\ dispatched[a] <= 1
    /\ \A t \in Early : Queued(t, a) => dispatched[a] = 0
    /\ completions[a] <= 1
    /\ completions[a] > 0 => saga[a] = "absent"

(* Only a pushed command is acknowledged, and an acknowledgement of an open    *)
(* saga is on its way to it.                                                   *)
Acknowledged(a) ==
    posts[a] > 0 =>
        /\ a \in remote
        /\ \/ saga[a] = "absent"
           \/ Queued("CompleteAgreementSaga", a)
           \/ Msg("CompleteAgreementSaga", a) \in errors

Driven(a) ==
    \/ saga[a] = "absent"
    \/ a \in remote
    \/ \E t \in Types : Queued(t, a) \/ Msg(t, a) \in errors

(* Until its dispatch an agreement has the message that the state of its saga  *)
(* waits for, or an error; after it the saga is downloaded until it completes. *)
Begun(a) ==
    /\ dispatched[a] > 0 => saga[a] = "downloaded" \/ completions[a] > 0
    /\ a \in submitted /\ dispatched[a] = 0 =>
        \/ /\ saga[a] = "absent"
           /\ Queued("SubmitAgreement", a) \/ Msg("SubmitAgreement", a) \in errors
        \/ /\ saga[a] = "submitted"
           /\ \E t \in {"DownloadDocument", "DocumentDownloaded"} :
                Queued(t, a) \/ Msg(t, a) \in errors

AInv(a) ==
    /\ Untouched(a)
    /\ SingleToken(a)
    /\ BeforeDispatch(a)
    /\ AfterDispatch(a)
    /\ Acknowledged(a)
    /\ Driven(a)
    /\ Begun(a)

IInv == TypeOK /\ \A a \in Agreements : AInv(a)

---------------------------------------------------------------------------
(* Messages.                                                                   *)

(* A message is determined by its type and its agreement.                      *)
LEMMA MsgIsMessage ==
    ASSUME NEW t \in Types, NEW a \in Agreements
    PROVE  /\ Msg(t, a) \in Message
           /\ \A u \in Types, b \in Agreements : Msg(t, a) = Msg(u, b) => t = u /\ a = b
BY DEF Msg, Message

(* Copies are counted, and a message is queued when its count is not zero.     *)
LEMMA CopiesAreCounted ==
    ASSUME TypeOK, NEW t \in Types, NEW a \in Agreements
    PROVE  Copies(t, a) \in Nat
BY MsgIsMessage DEF TypeOK, Copies

(* Send adds one copy of one message.                                          *)
LEMMA SendCopies ==
    ASSUME TypeOK, NEW t \in Types, NEW a \in Agreements, Send(t, a)
    PROVE  /\ inFlight' \in [Message -> Nat]
           /\ Copies(t, a)' = Copies(t, a) + 1
           /\ \A u \in Types, b \in Agreements :
                 u # t \/ b # a => Copies(u, b)' = Copies(u, b)
BY MsgIsMessage DEF TypeOK, Copies, Send

(* Consume takes one copy of one message, which there is.                      *)
LEMMA ConsumeCopies ==
    ASSUME TypeOK, NEW t \in Types, NEW a \in Agreements, Consume(t, a)
    PROVE  /\ inFlight' \in [Message -> Nat]
           /\ Copies(t, a) > 0
           /\ Copies(t, a)' = Copies(t, a) - 1
           /\ \A u \in Types, b \in Agreements :
                 u # t \/ b # a => Copies(u, b)' = Copies(u, b)
BY MsgIsMessage DEF TypeOK, Copies, Consume, Queued

(* Forward replaces one copy of a message by one of another.                   *)
LEMMA ForwardCopies ==
    ASSUME TypeOK, NEW t \in Types, NEW u \in Types, t # u,
           NEW a \in Agreements, Forward(t, u, a)
    PROVE  /\ inFlight' \in [Message -> Nat]
           /\ Copies(t, a) > 0
           /\ Copies(t, a)' = Copies(t, a) - 1
           /\ Copies(u, a)' = Copies(u, a) + 1
           /\ \A v \in Types, b \in Agreements :
                 b # a \/ (v # t /\ v # u) => Copies(v, b)' = Copies(v, b)
<1>1. Msg(t, a) \in Message /\ Msg(u, a) \in Message /\ Msg(t, a) # Msg(u, a)
  BY MsgIsMessage
<1>2. inFlight' \in [Message -> Nat]
  BY <1>1 DEF TypeOK, Forward, Queued
<1>3. \A v \in Types, b \in Agreements :
          /\ Msg(v, b) \in Message
          /\ b # a \/ (v # t /\ v # u) => Msg(v, b) # Msg(t, a) /\ Msg(v, b) # Msg(u, a)
  BY MsgIsMessage
<1>. QED  BY <1>1, <1>2, <1>3 DEF TypeOK, Copies, Forward, Queued

(* Nothing of an agreement changes, but that it may have more errors.          *)
Same(a) ==
    /\ (a \in submitted)' = (a \in submitted)
    /\ \A t \in Types : Copies(t, a)' = Copies(t, a)
    /\ \A t \in Types : Msg(t, a) \in errors => Msg(t, a) \in errors'
    /\ saga'[a] = saga[a]
    /\ (a \in remote)' = (a \in remote)
    /\ posts'[a] = posts[a]
    /\ dispatched'[a] = dispatched[a]
    /\ completions'[a] = completions[a]

(* The invariant of an agreement depends on nothing of another agreement.      *)
LEMMA Frame ==
    ASSUME NEW a \in Agreements, AInv(a), Same(a)
    PROVE  AInv(a)'
BY DEF AInv, Same, Untouched, SingleToken, BeforeDispatch, AfterDispatch,
       Acknowledged, Driven, Begun, Copies, Queued, Early, Late, Completing, Types

---------------------------------------------------------------------------
(* Each action keeps the invariant of its agreement, and the others the same.  *)

StepOf(a) ==
    /\ TypeOK'
    /\ AInv(a)'
    /\ \A b \in Agreements \ {a} : Same(b)

(* Of an agreement not seen before there is one message after Submit. *)
LEMMA SubmitStep ==
    ASSUME TypeOK, NEW a \in Agreements, AInv(a), Submit(a)
    PROVE  StepOf(a)
<1>1. /\ inFlight' \in [Message -> Nat]
      /\ Copies("SubmitAgreement", a)' = Copies("SubmitAgreement", a) + 1
      /\ \A u \in Types, b \in Agreements :
            u # "SubmitAgreement" \/ b # a => Copies(u, b)' = Copies(u, b)
  BY SendCopies, MsgIsMessage DEF Submit, Types
<1>2. TypeOK'
  BY <1>1, MsgIsMessage DEF TypeOK, Submit, Copies
<1>3. \A b \in Agreements \ {a} : Same(b)
  BY <1>1, MsgIsMessage DEF TypeOK, Submit, Same, Types
<1>4. AInv(a)'
  <2>. USE DEF TypeOK, Submit, AInv, Untouched, SingleToken, BeforeDispatch,
              AfterDispatch, Acknowledged, Driven, Begun, Copies, Queued, Early, Late,
              Completing, Types
  <2>1. \A u \in Types : Copies(u, a) \in Nat
    BY CopiesAreCounted
  <2>2. Untouched(a)' /\ SingleToken(a)'
    BY <1>1, <2>1
  <2>3. BeforeDispatch(a)' /\ AfterDispatch(a)'
    BY <1>1, <2>1
  <2>4. Acknowledged(a)' /\ Driven(a)' /\ Begun(a)'
    BY <1>1, <2>1, MsgIsMessage
  <2>. QED  BY <2>2, <2>3, <2>4
<1>. QED  BY <1>2, <1>3, <1>4 DEF StepOf

(* The token moves on, before the dispatch. *)
LEMMA DownloadDocumentStep ==
    ASSUME TypeOK, NEW a \in Agreements, AInv(a), DownloadDocument(a)
    PROVE  StepOf(a)
<1>1. /\ inFlight' \in [Message -> Nat]
      /\ Copies("DownloadDocument", a) > 0
      /\ Copies("DownloadDocument", a)' = Copies("DownloadDocument", a) - 1
      /\ Copies("DocumentDownloaded", a)' = Copies("DocumentDownloaded", a) + 1
      /\ \A v \in Types, b \in Agreements :
            b # a \/ (v # "DownloadDocument" /\ v # "DocumentDownloaded") => Copies(v, b)' = Copies(v, b)
  BY ForwardCopies, MsgIsMessage DEF DownloadDocument, Types
<1>2. TypeOK'
  BY <1>1, MsgIsMessage DEF TypeOK, DownloadDocument, Copies
<1>3. \A b \in Agreements \ {a} : Same(b)
  BY <1>1, MsgIsMessage DEF TypeOK, DownloadDocument, Same, Types
<1>4. AInv(a)'
  <2>. USE DEF TypeOK, DownloadDocument, AInv, Untouched, SingleToken, BeforeDispatch,
              AfterDispatch, Acknowledged, Driven, Begun, Copies, Queued, Early, Late,
              Completing, Types
  <2>1. \A u \in Types : Copies(u, a) \in Nat
    BY CopiesAreCounted
  <2>2. Untouched(a)' /\ SingleToken(a)'
    BY <1>1, <2>1
  <2>3. BeforeDispatch(a)' /\ AfterDispatch(a)'
    BY <1>1, <2>1
  <2>4. Acknowledged(a)' /\ Driven(a)' /\ Begun(a)'
    BY <1>1, <2>1, MsgIsMessage
  <2>. QED  BY <2>2, <2>3, <2>4
<1>. QED  BY <1>2, <1>3, <1>4 DEF StepOf

(* The token moves on, after the dispatch. *)
LEMMA InsertOnlineStep ==
    ASSUME TypeOK, NEW a \in Agreements, AInv(a), InsertOnline(a)
    PROVE  StepOf(a)
<1>1. /\ inFlight' \in [Message -> Nat]
      /\ Copies("InsertOnline", a) > 0
      /\ Copies("InsertOnline", a)' = Copies("InsertOnline", a) - 1
      /\ Copies("OnlineInserted", a)' = Copies("OnlineInserted", a) + 1
      /\ \A v \in Types, b \in Agreements :
            b # a \/ (v # "InsertOnline" /\ v # "OnlineInserted") => Copies(v, b)' = Copies(v, b)
  BY ForwardCopies, MsgIsMessage DEF InsertOnline, Types
<1>2. TypeOK'
  BY <1>1, MsgIsMessage DEF TypeOK, InsertOnline, Copies
<1>3. \A b \in Agreements \ {a} : Same(b)
  BY <1>1, MsgIsMessage DEF TypeOK, InsertOnline, Same, Types
<1>4. AInv(a)'
  <2>. USE DEF TypeOK, InsertOnline, AInv, Untouched, SingleToken, BeforeDispatch,
              AfterDispatch, Acknowledged, Driven, Begun, Copies, Queued, Early, Late,
              Completing, Types
  <2>1. \A u \in Types : Copies(u, a) \in Nat
    BY CopiesAreCounted
  <2>2. Untouched(a)' /\ SingleToken(a)'
    BY <1>1, <2>1
  <2>3. BeforeDispatch(a)' /\ AfterDispatch(a)'
    BY <1>1, <2>1
  <2>4. Acknowledged(a)' /\ Driven(a)' /\ Begun(a)'
    BY <1>1, <2>1, MsgIsMessage
  <2>. QED  BY <2>2, <2>3, <2>4
<1>. QED  BY <1>2, <1>3, <1>4 DEF StepOf

(* A saga starts, of an agreement that nobody has acknowledged. *)
LEMMA HandleSubmitStep ==
    ASSUME TypeOK, NEW a \in Agreements, AInv(a), HandleSubmit(a)
    PROVE  StepOf(a)
<1>1. /\ inFlight' \in [Message -> Nat]
      /\ Copies("SubmitAgreement", a) > 0
      /\ Copies("SubmitAgreement", a)' = Copies("SubmitAgreement", a) - 1
      /\ Copies("DownloadDocument", a)' = Copies("DownloadDocument", a) + 1
      /\ \A v \in Types, b \in Agreements :
            b # a \/ (v # "SubmitAgreement" /\ v # "DownloadDocument") => Copies(v, b)' = Copies(v, b)
  BY ForwardCopies, MsgIsMessage DEF HandleSubmit, Types
<1>2. TypeOK'
  BY <1>1, MsgIsMessage DEF TypeOK, HandleSubmit, Copies
<1>3. \A b \in Agreements \ {a} : Same(b)
  BY <1>1, MsgIsMessage DEF TypeOK, HandleSubmit, Same, Types
<1>4. AInv(a)'
  <2>. USE DEF TypeOK, HandleSubmit, AInv, Untouched, SingleToken, BeforeDispatch,
              AfterDispatch, Acknowledged, Driven, Begun, Copies, Queued, Early, Late,
              Completing, Types
  <2>1. \A u \in Types : Copies(u, a) \in Nat
    BY CopiesAreCounted
  <2>2. Untouched(a)' /\ SingleToken(a)'
    BY <1>1, <2>1
  <2>3. BeforeDispatch(a)' /\ AfterDispatch(a)'
    BY <1>1, <2>1
  <2>4. Acknowledged(a)' /\ Driven(a)' /\ Begun(a)'
    BY <1>1, <2>1, MsgIsMessage
  <2>. QED  BY <2>2, <2>3, <2>4
<1>. QED  BY <1>2, <1>3, <1>4 DEF StepOf

(* The dispatch: the token crosses to the other side, once. *)
LEMMA HandleDownloadedStep ==
    ASSUME TypeOK, NEW a \in Agreements, AInv(a), HandleDownloaded(a)
    PROVE  StepOf(a)
<1>1. PICK w \in {"InsertOnline", "InsertRemote"} :
      /\ inFlight' \in [Message -> Nat]
      /\ Copies("DocumentDownloaded", a) > 0
      /\ Copies("DocumentDownloaded", a)' = Copies("DocumentDownloaded", a) - 1
      /\ Copies(w, a)' = Copies(w, a) + 1
      /\ \A v \in Types, b \in Agreements :
            b # a \/ (v # "DocumentDownloaded" /\ v # w) => Copies(v, b)' = Copies(v, b)
  BY ForwardCopies, MsgIsMessage DEF HandleDownloaded, Types
<1>2. TypeOK'
  BY <1>1, MsgIsMessage DEF TypeOK, HandleDownloaded, Copies
<1>3. \A b \in Agreements \ {a} : Same(b)
  BY <1>1, MsgIsMessage DEF TypeOK, HandleDownloaded, Same, Types
<1>4. AInv(a)'
  <2>. USE DEF TypeOK, HandleDownloaded, AInv, Untouched, SingleToken, BeforeDispatch,
              AfterDispatch, Acknowledged, Driven, Begun, Copies, Queued, Early, Late,
              Completing, Types
  <2>1. \A u \in Types : Copies(u, a) \in Nat
    BY CopiesAreCounted
  <2>2. Untouched(a)' /\ SingleToken(a)'
    BY <1>1, <2>1
  <2>3. BeforeDispatch(a)' /\ AfterDispatch(a)'
    BY <1>1, <2>1
  <2>4. Acknowledged(a)' /\ Driven(a)' /\ Begun(a)'
    BY <1>1, <2>1, MsgIsMessage
  <2>. QED  BY <2>2, <2>3, <2>4
<1>. QED  BY <1>2, <1>3, <1>4 DEF StepOf

(* A saga that exists has not completed yet, and is dispatched. *)
LEMMA HandleCompleteStep ==
    ASSUME TypeOK, NEW a \in Agreements, AInv(a), NEW t \in Completing, HandleComplete(t, a)
    PROVE  StepOf(a)
<1>1. /\ inFlight' \in [Message -> Nat]
      /\ Copies(t, a) > 0
      /\ Copies(t, a)' = Copies(t, a) - 1
      /\ \A u \in Types, b \in Agreements :
            u # t \/ b # a => Copies(u, b)' = Copies(u, b)
  BY ConsumeCopies, MsgIsMessage DEF HandleComplete, Types, Completing
<1>2. TypeOK'
  BY <1>1, MsgIsMessage DEF TypeOK, HandleComplete, Copies
<1>3. \A b \in Agreements \ {a} : Same(b)
  BY <1>1, MsgIsMessage DEF TypeOK, HandleComplete, Same, Types
<1>4. AInv(a)'
  <2>. USE DEF TypeOK, HandleComplete, AInv, Untouched, SingleToken, BeforeDispatch,
              AfterDispatch, Acknowledged, Driven, Begun, Copies, Queued, Early, Late,
              Completing, Types
  <2>1. \A u \in Types : Copies(u, a) \in Nat
    BY CopiesAreCounted
  <2>2. Untouched(a)' /\ SingleToken(a)'
    BY <1>1, <2>1
  <2>3. BeforeDispatch(a)' /\ AfterDispatch(a)'
    BY <1>1, <2>1
  <2>4. Acknowledged(a)' /\ Driven(a)' /\ Begun(a)'
    BY <1>1, <2>1, MsgIsMessage
  <2>. QED  BY <2>2, <2>3, <2>4
<1>. QED  BY <1>2, <1>3, <1>4 DEF StepOf

(* A message that finds no saga is taken from its queue. *)
LEMMA SagaNotFoundStep ==
    ASSUME TypeOK, NEW a \in Agreements, AInv(a), NEW t \in Types \ {"SubmitAgreement"},
           SagaNotFound(t, a)
    PROVE  StepOf(a)
<1>1. /\ inFlight' \in [Message -> Nat]
      /\ Copies(t, a) > 0
      /\ Copies(t, a)' = Copies(t, a) - 1
      /\ \A u \in Types, b \in Agreements :
            u # t \/ b # a => Copies(u, b)' = Copies(u, b)
  BY ConsumeCopies, MsgIsMessage DEF SagaNotFound
<1>2. TypeOK'
  BY <1>1, MsgIsMessage DEF TypeOK, SagaNotFound, Copies
<1>3. \A b \in Agreements \ {a} : Same(b)
  BY <1>1, MsgIsMessage DEF TypeOK, SagaNotFound, Same, Types
<1>4. AInv(a)'
  <2>. USE DEF TypeOK, SagaNotFound, AInv, Untouched, SingleToken, BeforeDispatch,
              AfterDispatch, Acknowledged, Driven, Begun, Copies, Queued, Early, Late,
              Completing, Types
  <2>1. \A u \in Types : Copies(u, a) \in Nat
    BY CopiesAreCounted
  <2>2. Untouched(a)' /\ SingleToken(a)'
    BY <1>1, <2>1
  <2>3. BeforeDispatch(a)' /\ AfterDispatch(a)'
    BY <1>1, <2>1
  <2>4. Acknowledged(a)' /\ Driven(a)' /\ Begun(a)'
    BY <1>1, <2>1, MsgIsMessage
  <2>. QED  BY <2>2, <2>3, <2>4
<1>. QED  BY <1>2, <1>3, <1>4 DEF StepOf

(* Only a dispatched command is pushed. *)
LEMMA HubPushesStep ==
    ASSUME TypeOK, NEW a \in Agreements, AInv(a), HubPushes(a)
    PROVE  StepOf(a)
<1>1. /\ inFlight' \in [Message -> Nat]
      /\ \A u \in Types, b \in Agreements : Copies(u, b)' = Copies(u, b)
  BY CopiesAreCounted, MsgIsMessage DEF HubPushes, TypeOK, Copies
<1>2. TypeOK'
  BY <1>1, MsgIsMessage DEF TypeOK, HubPushes, Copies
<1>3. \A b \in Agreements \ {a} : Same(b)
  BY <1>1, MsgIsMessage DEF TypeOK, HubPushes, Same, Types
<1>4. AInv(a)'
  <2>. USE DEF TypeOK, HubPushes, AInv, Untouched, SingleToken, BeforeDispatch,
              AfterDispatch, Acknowledged, Driven, Begun, Copies, Queued, Early, Late,
              Completing, Types
  <2>1. \A u \in Types : Copies(u, a) \in Nat
    BY CopiesAreCounted
  <2>2. Untouched(a)' /\ SingleToken(a)'
    BY <1>1, <2>1
  <2>3. BeforeDispatch(a)' /\ AfterDispatch(a)'
    BY <1>1, <2>1
  <2>4. Acknowledged(a)' /\ Driven(a)' /\ Begun(a)'
    BY <1>1, <2>1, MsgIsMessage
  <2>. QED  BY <2>2, <2>3, <2>4
<1>. QED  BY <1>2, <1>3, <1>4 DEF StepOf

(* What the Hub commits was pushed. *)
LEMMA HubCommitsStep ==
    ASSUME TypeOK, NEW a \in Agreements, AInv(a), HubCommits(a)
    PROVE  StepOf(a)
<1>1. /\ inFlight' \in [Message -> Nat]
      /\ Copies("InsertRemote", a) > 0
      /\ Copies("InsertRemote", a)' = Copies("InsertRemote", a) - 1
      /\ \A u \in Types, b \in Agreements :
            u # "InsertRemote" \/ b # a => Copies(u, b)' = Copies(u, b)
  BY ConsumeCopies, MsgIsMessage DEF HubCommits, Types
<1>2. TypeOK'
  BY <1>1, MsgIsMessage DEF TypeOK, HubCommits, Copies
<1>3. \A b \in Agreements \ {a} : Same(b)
  BY <1>1, MsgIsMessage DEF TypeOK, HubCommits, Same, Types
<1>4. AInv(a)'
  <2>. USE DEF TypeOK, HubCommits, AInv, Untouched, SingleToken, BeforeDispatch,
              AfterDispatch, Acknowledged, Driven, Begun, Copies, Queued, Early, Late,
              Completing, Types
  <2>1. \A u \in Types : Copies(u, a) \in Nat
    BY CopiesAreCounted
  <2>2. Untouched(a)' /\ SingleToken(a)'
    BY <1>1, <2>1
  <2>3. BeforeDispatch(a)' /\ AfterDispatch(a)'
    BY <1>1, <2>1
  <2>4. Acknowledged(a)' /\ Driven(a)' /\ Begun(a)'
    BY <1>1, <2>1, MsgIsMessage
  <2>. QED  BY <2>2, <2>3, <2>4
<1>. QED  BY <1>2, <1>3, <1>4 DEF StepOf

(* Only a pushed command is acknowledged. *)
LEMMA PostAcknowledgementStep ==
    ASSUME TypeOK, NEW a \in Agreements, AInv(a), PostAcknowledgement(a)
    PROVE  StepOf(a)
<1>1. /\ inFlight' \in [Message -> Nat]
      /\ Copies("CompleteAgreementSaga", a)' = Copies("CompleteAgreementSaga", a) + 1
      /\ \A u \in Types, b \in Agreements :
            u # "CompleteAgreementSaga" \/ b # a => Copies(u, b)' = Copies(u, b)
  BY SendCopies, MsgIsMessage DEF PostAcknowledgement, Types
<1>2. TypeOK'
  BY <1>1, MsgIsMessage, PostsAssumption DEF TypeOK, PostAcknowledgement, Copies
<1>3. \A b \in Agreements \ {a} : Same(b)
  BY <1>1, MsgIsMessage DEF TypeOK, PostAcknowledgement, Same, Types
<1>4. AInv(a)'
  <2>. USE DEF TypeOK, PostAcknowledgement, AInv, Untouched, SingleToken, BeforeDispatch,
              AfterDispatch, Acknowledged, Driven, Begun, Copies, Queued, Early, Late,
              Completing, Types
  <2>1. \A u \in Types : Copies(u, a) \in Nat
    BY CopiesAreCounted
  <2>2. Untouched(a)' /\ SingleToken(a)'
    BY <1>1, <2>1
  <2>3. BeforeDispatch(a)' /\ AfterDispatch(a)'
    BY <1>1, <2>1
  <2>4. Acknowledged(a)' /\ Driven(a)' /\ Begun(a)'
    BY <1>1, <2>1, MsgIsMessage
  <2>. QED  BY <2>2, <2>3, <2>4
<1>. QED  BY <1>2, <1>3, <1>4 DEF StepOf

(* A message leaves its queue for the error queue. *)
LEMMA GiveUpStep ==
    ASSUME TypeOK, NEW a \in Agreements, AInv(a), NEW t \in Types, GiveUp(t, a)
    PROVE  StepOf(a)
<1>1. /\ inFlight' \in [Message -> Nat]
      /\ Copies(t, a) > 0
      /\ Copies(t, a)' = Copies(t, a) - 1
      /\ \A u \in Types, b \in Agreements :
            u # t \/ b # a => Copies(u, b)' = Copies(u, b)
  BY ConsumeCopies, MsgIsMessage DEF GiveUp
<1>2. TypeOK'
  BY <1>1, MsgIsMessage DEF TypeOK, GiveUp, Copies
<1>3. \A b \in Agreements \ {a} : Same(b)
  BY <1>1, MsgIsMessage DEF TypeOK, GiveUp, Same, Types
<1>4. AInv(a)'
  <2>. USE DEF TypeOK, GiveUp, AInv, Untouched, SingleToken, BeforeDispatch,
              AfterDispatch, Acknowledged, Driven, Begun, Copies, Queued, Early, Late,
              Completing, Types
  <2>1. \A u \in Types : Copies(u, a) \in Nat
    BY CopiesAreCounted
  <2>2. Untouched(a)' /\ SingleToken(a)'
    BY <1>1, <2>1
  <2>3. BeforeDispatch(a)' /\ AfterDispatch(a)'
    BY <1>1, <2>1
  <2>4. Acknowledged(a)' /\ Driven(a)' /\ Begun(a)'
    BY <1>1, <2>1, MsgIsMessage
  <2>. QED  BY <2>2, <2>3, <2>4
<1>. QED  BY <1>2, <1>3, <1>4 DEF StepOf

---------------------------------------------------------------------------
(* The invariant.                                                              *)

(* An agreement starts without a trace.                                        *)
LEMMA InitInv == Init => IInv
<1>. SUFFICES ASSUME Init PROVE IInv
  OBVIOUS
<1>1. TypeOK
  BY PostsAssumption DEF Init, TypeOK
<1>2. ASSUME NEW a \in Agreements, NEW t \in Types PROVE ~ Queued(t, a) /\ Copies(t, a) = 0
  BY MsgIsMessage DEF Init, Queued, Copies
<1>. QED
  BY <1>1, <1>2 DEF Init, IInv, AInv, Untouched, SingleToken, BeforeDispatch,
     AfterDispatch, Acknowledged, Driven, Begun, Early, Late, Completing, Types

(* Every step is one of an agreement, and touches no other.                    *)
LEMMA NextInv == IInv /\ [Next]_vars => IInv'
<1>. SUFFICES ASSUME IInv, [Next]_vars PROVE IInv'
  OBVIOUS
<1>. USE DEF IInv
<1>1. ASSUME NEW a \in Agreements, StepOf(a) PROVE IInv'
  BY <1>1, Frame DEF StepOf
<1>2. CASE UNCHANGED vars
  <2>1. TypeOK'
    BY <1>2 DEF vars, TypeOK
  <2>2. ASSUME NEW a \in Agreements PROVE AInv(a)'
    BY <1>2, Frame DEF vars, Same, Copies
  <2>. QED  BY <2>1, <2>2
<1>3. ASSUME NEW a \in Agreements, Submit(a) PROVE StepOf(a)
  BY <1>3, SubmitStep
<1>4. ASSUME NEW a \in Agreements, PostAcknowledgement(a) PROVE StepOf(a)
  BY <1>4, PostAcknowledgementStep
<1>5. ASSUME NEW a \in Agreements, Handle(a) PROVE StepOf(a)
  <2>1. CASE HandleSubmit(a)
    BY <2>1, HandleSubmitStep
  <2>2. CASE DownloadDocument(a)
    BY <2>2, DownloadDocumentStep
  <2>3. CASE HandleDownloaded(a)
    BY <2>3, HandleDownloadedStep
  <2>4. CASE InsertOnline(a)
    BY <2>4, InsertOnlineStep
  <2>5. CASE HubPushes(a)
    BY <2>5, HubPushesStep
  <2>6. CASE HubCommits(a)
    BY <2>6, HubCommitsStep
  <2>7. ASSUME NEW t \in Completing, HandleComplete(t, a) PROVE StepOf(a)
    BY <2>7, HandleCompleteStep
  <2>8. ASSUME NEW t \in Completing \cup {"DocumentDownloaded"}, SagaNotFound(t, a)
        PROVE  StepOf(a)
    <3>1. t \in Types \ {"SubmitAgreement"}
      BY DEF Completing, Types
    <3>. QED  BY <2>8, <3>1, SagaNotFoundStep
  <2>9. ASSUME NEW t \in Types, GiveUp(t, a) PROVE StepOf(a)
    BY <2>9, GiveUpStep
  <2>. QED
    BY <1>5, <2>1, <2>2, <2>3, <2>4, <2>5, <2>6, <2>7, <2>8, <2>9 DEF Handle
<1>. QED  BY <1>1, <1>2, <1>3, <1>4, <1>5 DEF Next

(* The invariant implies what the properties say.                              *)
LEMMA InvImplies == IInv => TypeOK /\ CompletesOnceAfterDispatch /\ OpenSagaIsDriven
<1>. SUFFICES ASSUME IInv PROVE TypeOK /\ CompletesOnceAfterDispatch /\ OpenSagaIsDriven
  OBVIOUS
<1>1. TypeOK
  BY DEF IInv
<1>2. ASSUME NEW a \in Agreements
      PROVE  completions[a] <= dispatched[a] /\ dispatched[a] <= 1
  <2>1. AInv(a) /\ dispatched[a] \in Nat /\ completions[a] \in Nat
    BY <1>1 DEF IInv, TypeOK
  <2>. QED  BY <2>1 DEF AInv, BeforeDispatch, AfterDispatch
<1>3. ASSUME NEW a \in Agreements, saga[a] # "absent"
      PROVE  \/ a \in remote /\ posts[a] = 0
             \/ \E t \in Types : Queued(t, a) \/ Msg(t, a) \in errors
  <2>1. AInv(a) /\ posts[a] \in Nat
    BY <1>1, PostsAssumption DEF IInv, TypeOK
  <2>2. CASE posts[a] = 0
    BY <1>3, <2>1, <2>2 DEF AInv, Driven
  <2>3. CASE posts[a] > 0
    BY <1>3, <2>1, <2>3 DEF AInv, Acknowledged, Types
  <2>. QED  BY <2>1, <2>2, <2>3
<1>. QED  BY <1>1, <1>2, <1>3 DEF CompletesOnceAfterDispatch, OpenSagaIsDriven

(* For any number of agreements and of acknowledgements, in whatever order the *)
(* queues are handled and whatever is given up: a document is dispatched to    *)
(* one back office once, its saga completes at most once and after that, and   *)
(* an open saga has something left that will drive it on.                      *)
THEOREM SagaSafety ==
    Spec => [](TypeOK /\ CompletesOnceAfterDispatch /\ OpenSagaIsDriven)
<1>1. Init => IInv
  BY InitInv
<1>2. IInv /\ [Next]_vars => IInv'
  BY NextInv
<1>3. IInv => TypeOK /\ CompletesOnceAfterDispatch /\ OpenSagaIsDriven
  BY InvImplies
<1>. QED  BY <1>1, <1>2, <1>3, PTL DEF Spec

(* The saga data and the queues have their types.                              *)
THEOREM SagaTyped == Spec => []TypeOK
BY SagaSafety, PTL

(* For any order of the queues, late and repeated acknowledgements: a saga     *)
(* completes at most once, and only after its document was dispatched.         *)
THEOREM CompletesOnce == Spec => []CompletesOnceAfterDispatch
BY SagaSafety, PTL
=============================================================================
