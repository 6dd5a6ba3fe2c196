--------------------------- MODULE RemoteInsert_proofs ---------------------------
(***************************************************************************)
(* Safety of the remote endpoint for any messages, any number of           *)
(* deliveries, attempts and crashes, and any behaviour of the back office. *)
(*                                                                         *)
(* AtMostOnceInsert is not inductive: it holds because an id whose         *)
(* document was inserted is in the store (Claimed), because a handler that *)
(* is about to insert works on an id that was not inserted (InProcess),    *)
(* and because a handler keeps the head of the queue while it works.       *)
(***************************************************************************)
EXTENDS RemoteInsert, SequenceTheorems, TLAPS

---------------------------------------------------------------------------
(* Lemmas on the queue.                                                    *)

Elements(s) == {s[n] : n \in 1 .. Len(s)}

\* A sequence that is not empty has its head among its elements.
LEMMA HeadIsElement ==
    ASSUME NEW S, NEW s \in Seq(S), s # <<>>
    PROVE  Head(s) \in Elements(s) /\ Head(s) = s[1] /\ 1 \in 1 .. Len(s)
<1>1. Len(s) \in Nat \ {0}
  BY EmptySeq
<1>2. Head(s) = s[1]
  OBVIOUS
<1> QED
  BY <1>1, <1>2 DEF Elements

\* A message moved to the queue leaves its head and what it holds.
LEMMA AppendElements ==
    ASSUME NEW S, NEW s \in Seq(S), NEW m \in S
    PROVE  /\ Append(s, m) \in Seq(S)
           /\ Append(s, m) # <<>>
           /\ Elements(Append(s, m)) = Elements(s) \cup {m}
           /\ s # <<>> => Head(Append(s, m)) = Head(s)
<1> DEFINE t == Append(s, m)
<1>1. /\ t \in Seq(S)
      /\ Len(t) = Len(s) + 1
      /\ \A n \in 1 .. Len(s) : t[n] = s[n]
      /\ t[Len(s) + 1] = m
  BY AppendProperties
<1>2. Len(s) \in Nat
  OBVIOUS
<1>3. t # <<>>
  BY <1>1, <1>2, EmptySeq
<1> HIDE DEF t
<1>4. Elements(t) = Elements(s) \cup {m}
  BY <1>1, <1>2 DEF Elements
<1>5. s # <<>> => Head(t) = Head(s)
  BY <1>1, <1>3, HeadIsElement
<1> QED
  BY <1>1, <1>3, <1>4, <1>5 DEF t

\* Consuming the head of the queue loses nothing but the head.
LEMMA TailElements ==
    ASSUME NEW S, NEW s \in Seq(S), s # <<>>
    PROVE  /\ Tail(s) \in Seq(S)
           /\ Elements(Tail(s)) \subseteq Elements(s)
           /\ Elements(s) \subseteq Elements(Tail(s)) \cup {Head(s)}
<1> DEFINE t == Tail(s)
<1>1. /\ t \in Seq(S)
      /\ Len(t) = Len(s) - 1
      /\ \A n \in 1 .. Len(t) : t[n] = s[n + 1]
  BY HeadTailProperties
<1>2. Len(s) \in Nat \ {0} /\ Head(s) = s[1]
  BY EmptySeq, HeadIsElement
<1> HIDE DEF t
<1>3. Elements(t) \subseteq Elements(s)
  <2>1. ASSUME NEW n \in 1 .. Len(t)
        PROVE  t[n] \in Elements(s)
    BY <1>1, <1>2 DEF Elements
  <2> QED
    BY <2>1 DEF Elements
<1>4. Elements(s) \subseteq Elements(t) \cup {Head(s)}
  <2>1. ASSUME NEW n \in 1 .. Len(s), n # 1
        PROVE  s[n] \in Elements(t)
    <3>1. n - 1 \in 1 .. Len(t) /\ t[n - 1] = s[(n - 1) + 1]
      BY <2>1, <1>1, <1>2
    <3> QED
      BY <3>1 DEF Elements
  <2> QED
    BY <2>1, <1>2 DEF Elements
<1> QED
  BY <1>1, <1>3, <1>4 DEF t

\* Appending what the handler sent with \o is Append for one message, and
\* nothing for none.
LEMMA ConcatElements ==
    ASSUME NEW S, NEW s \in Seq(S), NEW m \in S
    PROVE  s \o <<>> = s /\ s \o <<m>> = Append(s, m)
<1>1. s \o <<>> = s
  BY ConcatEmptySeq
<1>2. s \o <<m>> = Append(s, m)
  BY AppendIsConcat
<1> QED
  BY <1>1, <1>2

---------------------------------------------------------------------------
(* The inductive invariant.                                                *)

Queued == Elements(queue)

\* A handler works on the head of the queue, and knows how far it is.
InProcess ==
    /\ pc = "recorded" =>
            \E i \in Ids : At("recorded", "insert", i) /\ i \in store /\ inserts[i] = 0
    /\ pc = "inserted" => \E i \in Ids : At("inserted", "insert", i) /\ i \in store
    /\ pc = "posted" => \E i \in Ids : At("posted", "ack", i) /\ i \in posted

\* Whatever was inserted or acknowledged was recorded first.
Claimed ==
    /\ \A i \in Ids : inserts[i] > 0 => i \in store
    /\ \A i \in Ids : Ack(i) \in Queued => i \in store
    /\ posted \subseteq store

\* RecordedIsAccountedFor, on the elements of the queue.
Accounted ==
    \A i \in store : i \in posted \/ {Insert(i), Ack(i)} \cap (Queued \cup errors) # {}

IInv == TypeOK /\ InProcess /\ Claimed /\ AtMostOnceInsert /\ Accounted

\* The message that a handler works on is at the head of a queue not empty.
LEMMA AtHead ==
    ASSUME TypeOK, NEW i \in Ids, NEW p, NEW type \in {"insert", "ack"}, At(p, type, i)
    PROVE  /\ pc = p
           /\ queue # <<>>
           /\ Head(queue) = [type |-> type, id |-> i]
           /\ Head(queue) \in Queued
BY HeadIsElement DEF At, TypeOK, Queued

\* What a commit does to the queue, with and without an acknowledgement.
LEMMA CommitAck ==
    ASSUME TypeOK, queue # <<>>, NEW i \in Ids, Commit(<<Ack(i)>>)
    PROVE  /\ queue' \in Seq(Command)
           /\ Queued' \subseteq Queued \cup {Ack(i)}
           /\ Ack(i) \in Queued'
           /\ Queued \subseteq Queued' \cup {Head(queue)}
           /\ pc' = "idle" /\ attempts' = 0 /\ errors' = errors
<1>1. Ack(i) \in Command
  BY DEF Ack, Command
<1>2. Tail(queue) \in Seq(Command)
  BY TailElements DEF TypeOK
<1>3. queue' = Append(Tail(queue), Ack(i))
  BY <1>1, <1>2, ConcatElements DEF Commit
<1>4. /\ queue' \in Seq(Command)
      /\ Queued' = Elements(Tail(queue)) \cup {Ack(i)}
  BY <1>1, <1>2, <1>3, AppendElements DEF Queued
<1>5. /\ Elements(Tail(queue)) \subseteq Queued
      /\ Queued \subseteq Elements(Tail(queue)) \cup {Head(queue)}
  BY TailElements DEF TypeOK, Queued
<1> QED
  BY <1>4, <1>5 DEF Commit

LEMMA CommitNothing ==
    ASSUME TypeOK, queue # <<>>, Commit(<<>>)
    PROVE  /\ queue' \in Seq(Command)
           /\ Queued' \subseteq Queued
           /\ Queued \subseteq Queued' \cup {Head(queue)}
           /\ pc' = "idle" /\ attempts' = 0 /\ errors' = errors
<1>1. /\ Tail(queue) \in Seq(Command)
      /\ Elements(Tail(queue)) \subseteq Queued
      /\ Queued \subseteq Elements(Tail(queue)) \cup {Head(queue)}
  BY TailElements DEF TypeOK, Queued
<1>2. queue' = Tail(queue)
  BY <1>1, ConcatEmptySeq DEF Commit
<1> QED
  BY <1>1, <1>2 DEF Commit, Queued

\* A rollback keeps every message, in the queue or in the error queue.
LEMMA RollbackKeeps ==
    ASSUME TypeOK, queue # <<>>, Rollback
    PROVE  /\ queue' \in Seq(Command)
           /\ errors' \subseteq Command
           /\ Queued' \subseteq Queued
           /\ Queued \cup errors \subseteq Queued' \cup errors'
           /\ pc' = "idle"
           /\ attempts' \in 0 .. MaxAttempts - 1
<1>1. CASE attempts + 1 < MaxAttempts
  BY <1>1, BoundAssumption DEF Rollback, TypeOK, Queued
<1>2. CASE ~(attempts + 1 < MaxAttempts)
  <2>1. /\ queue' = Tail(queue)
        /\ errors' = errors \cup {Head(queue)}
        /\ attempts' = 0
        /\ pc' = "idle"
    BY <1>2 DEF Rollback
  <2>2. /\ Tail(queue) \in Seq(Command)
        /\ Elements(Tail(queue)) \subseteq Queued
        /\ Queued \subseteq Elements(Tail(queue)) \cup {Head(queue)}
    BY TailElements DEF TypeOK, Queued
  <2>3. Head(queue) \in Command
    BY HeadTailProperties DEF TypeOK
  <2> QED
    BY <2>1, <2>2, <2>3, BoundAssumption DEF TypeOK, Queued
<1> QED
  BY <1>1, <1>2

---------------------------------------------------------------------------
(* The steps.                                                              *)

\* Two commands are equal only if their ids are.
LEMMA CommandsDiffer ==
    /\ \A i \in Ids : Insert(i) \in Command /\ Ack(i) \in Command
    /\ \A i, j \in Ids : Insert(i) # Ack(j)
    /\ \A i, j \in Ids : Insert(i) = Insert(j) => i = j
    /\ \A i, j \in Ids : Ack(i) = Ack(j) => i = j
<1>1. \A i, j \in Ids : Insert(i) # Ack(j)
  <2>1. ASSUME NEW i \in Ids, NEW j \in Ids
        PROVE  Insert(i).type # Ack(j).type
    BY DEF Insert, Ack
  <2> QED
    BY <2>1
<1> QED
  BY <1>1 DEF Insert, Ack, Command

\* A push only adds a command behind the head.
LEMMA DeliverPreserves ==
    ASSUME IInv, NEW i \in Ids, Deliver(i)
    PROVE  IInv'
<1>1. /\ queue' \in Seq(Command)
      /\ queue' # <<>>
      /\ Queued' = Queued \cup {Insert(i)}
      /\ queue # <<>> => Head(queue') = Head(queue)
  BY CommandsDiffer, AppendElements DEF Deliver, IInv, TypeOK, Queued
<1>2. TypeOK'
  BY <1>1, BoundAssumption DEF Deliver, IInv, TypeOK
<1>3. InProcess'
  BY <1>1 DEF Deliver, IInv, InProcess, At
<1>4. Claimed'
  BY <1>1, CommandsDiffer DEF Deliver, IInv, Claimed
<1>5. AtMostOnceInsert'
  BY DEF Deliver, IInv, AtMostOnceInsert
<1>6. Accounted'
  BY <1>1 DEF Deliver, IInv, Accounted
<1> QED
  BY <1>2, <1>3, <1>4, <1>5, <1>6 DEF IInv

\* A step that commits an acknowledgement for an id in the store.
LEMMA AckCommitPreserves ==
    ASSUME IInv, NEW i \in store, queue # <<>>, Head(queue) = Insert(i), Commit(<<Ack(i)>>),
           UNCHANGED <<store, inserts, posted, deliveries, crashes>>
    PROVE  IInv'
<1>1. i \in Ids
  BY DEF IInv, TypeOK
<1>2. /\ queue' \in Seq(Command)
      /\ Queued' \subseteq Queued \cup {Ack(i)}
      /\ Ack(i) \in Queued'
      /\ Queued \subseteq Queued' \cup {Insert(i)}
      /\ pc' = "idle" /\ attempts' = 0 /\ errors' = errors
  BY <1>1, CommitAck DEF IInv
<1>3. TypeOK'
  BY <1>2, BoundAssumption DEF IInv, TypeOK
<1>4. InProcess'
  BY <1>2 DEF InProcess
<1>5. Claimed'
  BY <1>1, <1>2, CommandsDiffer DEF IInv, Claimed
<1>6. AtMostOnceInsert'
  BY DEF IInv, AtMostOnceInsert
<1>7. Accounted'
  <2>1. SUFFICES ASSUME NEW j \in store, j \notin posted
                 PROVE  {Insert(j), Ack(j)} \cap (Queued' \cup errors) # {}
    BY <1>2 DEF Accounted
  <2>2. CASE j = i
    BY <2>2, <1>2
  <2>3. CASE j # i
    <3>1. j \in Ids /\ Insert(j) # Insert(i) /\ Ack(j) # Insert(i)
      BY <2>3, <1>1, CommandsDiffer DEF IInv, TypeOK
    <3>2. {Insert(j), Ack(j)} \cap (Queued \cup errors) # {}
      BY <2>1 DEF IInv, Accounted
    <3> QED
      BY <3>1, <3>2, <1>2
  <2> QED
    BY <2>2, <2>3
<1> QED
  BY <1>3, <1>4, <1>5, <1>6, <1>7 DEF IInv

\* A step that rolls back.
LEMMA RollbackPreserves ==
    ASSUME IInv, queue # <<>>, Rollback,
           UNCHANGED <<store, inserts, posted, deliveries, crashes>>
    PROVE  IInv'
<1>1. /\ queue' \in Seq(Command)
      /\ errors' \subseteq Command
      /\ Queued' \subseteq Queued
      /\ Queued \cup errors \subseteq Queued' \cup errors'
      /\ pc' = "idle"
      /\ attempts' \in 0 .. MaxAttempts - 1
  BY RollbackKeeps DEF IInv
<1>2. TypeOK'
  BY <1>1 DEF IInv, TypeOK
<1>3. InProcess'
  BY <1>1 DEF InProcess
<1>4. Claimed'
  BY <1>1 DEF IInv, Claimed
<1>5. AtMostOnceInsert'
  BY DEF IInv, AtMostOnceInsert
<1>6. Accounted'
  BY <1>1 DEF IInv, Accounted
<1> QED
  BY <1>2, <1>3, <1>4, <1>5, <1>6 DEF IInv

\* The id recorded is the one at the head, and it was not inserted before.
LEMMA AddMessageIdPreserves ==
    ASSUME IInv, NEW i \in Ids, AddMessageId(i)
    PROVE  IInv'
<1>1. queue # <<>> /\ Head(queue) = Insert(i) /\ Insert(i) \in Queued
  BY AtHead DEF AddMessageId, IInv, Insert
<1>2. i \notin store /\ inserts[i] = 0
  BY DEF AddMessageId, MessageExists, IInv, TypeOK, Claimed
<1>3. TypeOK'
  BY DEF AddMessageId, IInv, TypeOK
<1>4. InProcess'
  BY <1>1, <1>2 DEF AddMessageId, InProcess, At, Insert
<1>5. Claimed'
  BY DEF AddMessageId, IInv, Claimed, Queued
<1>6. AtMostOnceInsert'
  BY DEF AddMessageId, IInv, AtMostOnceInsert
<1>7. Accounted'
  BY <1>1 DEF AddMessageId, IInv, Accounted, Queued
<1> QED
  BY <1>3, <1>4, <1>5, <1>6, <1>7 DEF IInv

\* InsertDocument runs only for an id recorded by this very receive.
LEMMA InsertDocumentPreserves ==
    ASSUME IInv, NEW i \in Ids, InsertDocument(i)
    PROVE  IInv'
<1>1. queue # <<>> /\ Head(queue) = Insert(i)
  BY AtHead DEF InsertDocument, IInv, Insert
<1>2. i \in store /\ inserts[i] = 0
  <2>1. PICK j \in Ids : At("recorded", "insert", j) /\ j \in store /\ inserts[j] = 0
    BY AtHead DEF InsertDocument, IInv, InProcess
  <2>2. j = i
    BY <1>1, <2>1, CommandsDiffer DEF At, Insert
  <2> QED
    BY <2>1, <2>2
<1>3. inserts' = [inserts EXCEPT ![i] = 1]
  BY <1>2 DEF InsertDocument
<1>4. TypeOK'
  BY <1>3 DEF InsertDocument, IInv, TypeOK
<1>5. InProcess'
  BY <1>1, <1>2 DEF InsertDocument, InProcess, At, Insert
<1>6. Claimed'
  BY <1>2, <1>3 DEF InsertDocument, IInv, Claimed, Queued, TypeOK
<1>7. AtMostOnceInsert'
  BY <1>3 DEF IInv, AtMostOnceInsert, TypeOK
<1>8. Accounted'
  BY DEF InsertDocument, IInv, Accounted, Queued
<1> QED
  BY <1>4, <1>5, <1>6, <1>7, <1>8 DEF IInv

\* An acknowledgement in the queue is of a recorded id.
LEMMA PostPreserves ==
    ASSUME IInv, NEW i \in Ids, PostAcknowledgment(i)
    PROVE  IInv'
<1>1. queue # <<>> /\ Head(queue) = Ack(i) /\ Ack(i) \in Queued
  BY AtHead DEF PostAcknowledgment, IInv, Ack
<1>2. i \in store
  BY <1>1 DEF IInv, Claimed
<1>3. TypeOK'
  BY DEF PostAcknowledgment, IInv, TypeOK
<1>4. InProcess'
  BY <1>1 DEF PostAcknowledgment, InProcess, At, Ack
<1>5. Claimed'
  BY <1>2 DEF PostAcknowledgment, IInv, Claimed, Queued
<1>6. AtMostOnceInsert'
  BY DEF PostAcknowledgment, IInv, AtMostOnceInsert
<1>7. Accounted'
  BY DEF PostAcknowledgment, IInv, Accounted, Queued
<1> QED
  BY <1>3, <1>4, <1>5, <1>6, <1>7 DEF IInv

\* An acknowledgement leaves the queue only after it was posted.
LEMMA AckHandledPreserves ==
    ASSUME IInv, NEW i \in Ids, AckHandled(i)
    PROVE  IInv'
<1>1. queue # <<>> /\ Head(queue) = Ack(i)
  BY AtHead DEF AckHandled, IInv, Ack
<1>2. i \in posted
  <2>1. PICK j \in Ids : At("posted", "ack", j) /\ j \in posted
    BY AtHead DEF AckHandled, IInv, InProcess
  <2>2. j = i
    BY <1>1, <2>1, CommandsDiffer DEF At, Ack
  <2> QED
    BY <2>1, <2>2
<1>3. /\ queue' \in Seq(Command)
      /\ Queued' \subseteq Queued
      /\ Queued \subseteq Queued' \cup {Ack(i)}
      /\ pc' = "idle" /\ attempts' = 0 /\ errors' = errors
  BY <1>1, CommitNothing DEF AckHandled, IInv
<1>4. TypeOK'
  BY <1>3, BoundAssumption DEF AckHandled, IInv, TypeOK
<1>5. InProcess'
  BY <1>3 DEF InProcess
<1>6. Claimed'
  BY <1>3 DEF AckHandled, IInv, Claimed
<1>7. AtMostOnceInsert'
  BY DEF AckHandled, IInv, AtMostOnceInsert
<1>8. Accounted'
  <2>1. SUFFICES ASSUME NEW j \in store, j \notin posted
                 PROVE  {Insert(j), Ack(j)} \cap (Queued' \cup errors) # {}
    BY <1>3 DEF Accounted, AckHandled
  <2>2. j \in Ids /\ Insert(j) # Ack(i) /\ Ack(j) # Ack(i)
    BY <2>1, <1>2, CommandsDiffer DEF IInv, TypeOK
  <2>3. {Insert(j), Ack(j)} \cap (Queued \cup errors) # {}
    BY <2>1 DEF IInv, Accounted
  <2> QED
    BY <2>2, <2>3, <1>3
<1> QED
  BY <1>4, <1>5, <1>6, <1>7, <1>8 DEF IInv

\* A crash forgets only what is in memory.
LEMMA CrashPreserves == IInv /\ Crash => IInv'
<1> SUFFICES ASSUME IInv, Crash
             PROVE  IInv'
  OBVIOUS
<1>1. TypeOK'
  BY BoundAssumption DEF Crash, IInv, TypeOK
<1>2. InProcess' /\ AtMostOnceInsert'
  BY DEF Crash, IInv, InProcess, AtMostOnceInsert
<1>3. Claimed' /\ Accounted'
  BY DEF Crash, IInv, Claimed, Accounted, Queued
<1> QED
  BY <1>1, <1>2, <1>3 DEF IInv

\* Every step keeps the invariant.
LEMMA NextPreserves == IInv /\ [Next]_vars => IInv'
<1> SUFFICES ASSUME IInv, [Next]_vars
             PROVE  IInv'
  OBVIOUS
<1>1. ASSUME NEW i \in Ids, HandleDuplicate(i) \/ Complete(i)
      PROVE  IInv'
  <2>1. queue # <<>> /\ Head(queue) = Insert(i)
    BY <1>1, AtHead DEF HandleDuplicate, Complete, IInv, Insert
  <2>2. CASE HandleDuplicate(i)
    BY <2>1, <2>2, AckCommitPreserves DEF HandleDuplicate, MessageExists
  <2>3. CASE Complete(i)
    <3>1. PICK j \in Ids : At("inserted", "insert", j) /\ j \in store
      BY <2>3, AtHead DEF Complete, IInv, InProcess
    <3>2. j = i
      BY <2>1, <3>1, CommandsDiffer DEF At, Insert
    <3> QED
      BY <2>1, <2>3, <3>1, <3>2, AckCommitPreserves DEF Complete
  <2> QED
    BY <1>1, <2>2, <2>3
<1>2. ASSUME NEW i \in Ids, Failure(i)
      PROVE  IInv'
  <2>1. /\ queue # <<>>
        /\ Rollback
        /\ UNCHANGED <<store, inserts, posted, deliveries, crashes>>
    BY <1>2 DEF Failure, MessageStoreThrows, InsertDocumentFails, CompleteFails,
                PostAcknowledgmentFails, AckHandlerThrows, At
  <2> QED
    BY <2>1, RollbackPreserves
<1>3. ASSUME NEW i \in Ids, Progress(i)
      PROVE  IInv'
  BY <1>1, <1>3, AddMessageIdPreserves, InsertDocumentPreserves, PostPreserves,
     AckHandledPreserves DEF Progress
<1>4. CASE UNCHANGED vars
  BY <1>4 DEF vars, IInv, TypeOK, InProcess, At, Claimed, AtMostOnceInsert, Accounted, Queued
<1> QED
  BY <1>2, <1>3, <1>4, DeliverPreserves, CrashPreserves DEF Next

\* Nothing is delivered, recorded or inserted at first.
LEMMA InitEstablishes == Init => IInv
<1> SUFFICES ASSUME Init
             PROVE  IInv
  OBVIOUS
<1>1. queue \in Seq(Command) /\ Queued = {}
  BY EmptySeq DEF Init, Queued, Elements
<1>2. TypeOK
  BY <1>1, BoundAssumption DEF Init, TypeOK
<1>3. InProcess /\ AtMostOnceInsert /\ Claimed /\ Accounted
  BY <1>1 DEF Init, InProcess, AtMostOnceInsert, Claimed, Accounted
<1> QED
  BY <1>2, <1>3 DEF IInv

\* For any messages, bounds and behaviour of the back office, under any order of
\* deliveries, failures, retries and crashes: the queue is well typed, a
\* document is inserted at most once, and a recorded message is accounted for.
THEOREM RemoteInsertSafety ==
    Spec => [](TypeOK /\ AtMostOnceInsert /\ RecordedIsAccountedFor)
<1>1. IInv => RecordedIsAccountedFor
  BY DEF IInv, Accounted, RecordedIsAccountedFor, InQueue, Queued, Elements
<1>2. IInv => TypeOK /\ AtMostOnceInsert /\ RecordedIsAccountedFor
  BY <1>1 DEF IInv
<1> QED
  BY <1>2, InitEstablishes, NextPreserves, PTL DEF Spec

\* The queue of the endpoint holds commands, and its handler works on the first.
THEOREM RemoteInsertTyped == Spec => []TypeOK
BY RemoteInsertSafety, PTL

\* For any order of deliveries, failures and crashes: a message whose id is in the
\* message store is acknowledged, or still in the queue, or an error.
THEOREM RecordedIsNeverDropped == Spec => []RecordedIsAccountedFor
BY RemoteInsertSafety, PTL

---------------------------------------------------------------------------
(* What the theorems of other modules need of the queue.                   *)

\* The ids whose command or acknowledgement is in the queue.
Known == {i \in Ids : Insert(i) \in Queued \/ Ack(i) \in Queued}

\* A push makes its own id known, and no other.
LEMMA DeliverMakesKnown ==
    ASSUME IInv, NEW i \in Ids, Deliver(i)
    PROVE  Known' \subseteq Known \cup {i}
<1>1. Queued' = Queued \cup {Insert(i)}
  BY CommandsDiffer, AppendElements DEF Deliver, IInv, TypeOK, Queued
<1> QED
  BY <1>1, CommandsDiffer DEF Known

\* Any other step of the endpoint works on ids that are known.
LEMMA NothingElseKnown ==
    ASSUME IInv, (\E i \in Ids : Progress(i) \/ Failure(i)) \/ Crash
    PROVE  Known' \subseteq Known
<1>1. ASSUME NEW i \in Ids, HandleDuplicate(i) \/ Complete(i)
      PROVE  Known' \subseteq Known
  <2>1. queue # <<>> /\ Insert(i) \in Queued /\ Commit(<<Ack(i)>>)
    BY <1>1, AtHead DEF HandleDuplicate, Complete, IInv, Insert
  <2>2. Queued' \subseteq Queued \cup {Ack(i)}
    BY <2>1, CommitAck DEF IInv
  <2> QED
    BY <2>1, <2>2, CommandsDiffer DEF Known
<1>2. ASSUME NEW i \in Ids, AckHandled(i)
      PROVE  Known' \subseteq Known
  <2>1. queue # <<>> /\ Commit(<<>>)
    BY <1>2 DEF AckHandled, At
  <2> QED
    BY <2>1, CommitNothing DEF IInv, Known
<1>3. ASSUME NEW i \in Ids, Failure(i)
      PROVE  Known' \subseteq Known
  <2>1. queue # <<>> /\ Rollback
    BY <1>3 DEF Failure, MessageStoreThrows, InsertDocumentFails, CompleteFails,
                PostAcknowledgmentFails, AckHandlerThrows, At
  <2> QED
    BY <2>1, RollbackKeeps DEF IInv, Known
<1>4. ASSUME UNCHANGED queue
      PROVE  Known' \subseteq Known
  BY <1>4 DEF Known, Queued
<1> QED
  BY <1>1, <1>2, <1>3, <1>4
  DEF Progress, AddMessageId, InsertDocument, PostAcknowledgment, Crash

\* The ids at the head of the queue, on the way to Audit, are known and recorded.
LEMMA PostIsKnown ==
    ASSUME IInv, NEW i \in Ids, At("idle", "ack", i)
    PROVE  i \in Known /\ i \in store
BY AtHead DEF IInv, Claimed, Known, Ack

---------------------------------------------------------------------------
(* The refinement of SingleAttempt.                                        *)

\* attempt while no handler stands between the message store and the back
\* office, and while one does, for id k.
Resting == [i \in Ids |-> IF i \in store THEN "over" ELSE "new"]
OpenFor(k) == [i \in Ids |-> IF i \notin store THEN "new" ELSE IF i = k THEN "open" ELSE "over"]

LEMMA AttemptResting == pc # "recorded" => attempt = Resting
BY DEF attempt, Resting, At

LEMMA AttemptRestingPrimed == pc' # "recorded" => attempt' = Resting'
BY DEF attempt, Resting, At

LEMMA AttemptOpen ==
    ASSUME NEW k \in Ids, At("recorded", "insert", k)
    PROVE  attempt = OpenFor(k)
<1>1. \A i \in Ids : At("recorded", "insert", i) <=> i = k
  BY CommandsDiffer DEF At, Insert
<1> QED
  BY <1>1 DEF attempt, OpenFor

LEMMA AttemptOpenPrimed ==
    ASSUME NEW k \in Ids, At("recorded", "insert", k)'
    PROVE  attempt' = OpenFor(k)'
<1>1. \A i \in Ids : At("recorded", "insert", i)' <=> i = k
  BY CommandsDiffer DEF At, Insert
<1> QED
  BY <1>1 DEF attempt, OpenFor

\* A step to rest that neither records, inserts nor posts ends the open
\* attempt, if there is one, and is invisible otherwise.
LEMMA RestRefines ==
    ASSUME IInv, pc' = "idle", UNCHANGED <<store, inserts, posted>>
    PROVE  [Abstract!Next]_Abstract!vars
<1>1. attempt' = Resting
  BY AttemptRestingPrimed DEF Resting
<1>2. CASE pc # "recorded"
  BY <1>1, <1>2, AttemptResting DEF Abstract!vars
<1>3. CASE pc = "recorded"
  <2>1. PICK k \in Ids : At("recorded", "insert", k) /\ k \in store
    BY <1>3 DEF IInv, InProcess
  <2>2. attempt = OpenFor(k)
    BY <2>1, AttemptOpen
  <2>3. attempt[k] = "open" /\ attempt' = [attempt EXCEPT ![k] = "over"]
    BY <1>1, <2>1, <2>2 DEF Resting, OpenFor
  <2>4. Abstract!Abandon(k)
    BY <2>3 DEF Abstract!Abandon
  <2> QED
    BY <2>4 DEF Abstract!Next
<1> QED
  BY <1>2, <1>3

\* Every step is one of SingleAttempt, or is invisible there.
LEMMA StepRefines == IInv /\ [Next]_vars => [Abstract!Next]_Abstract!vars
<1> SUFFICES ASSUME IInv, [Next]_vars
             PROVE  [Abstract!Next]_Abstract!vars
  OBVIOUS
<1>1. ASSUME NEW i \in Ids, Deliver(i)
      PROVE  [Abstract!Next]_Abstract!vars
  <2>1. queue # <<>> => Head(queue') = Head(queue) /\ queue' # <<>>
    BY <1>1, CommandsDiffer, AppendElements DEF Deliver, IInv, TypeOK
  <2>2. UNCHANGED <<pc, store, inserts, posted>>
    BY <1>1 DEF Deliver
  <2>3. attempt' = attempt
    <3>1. CASE pc # "recorded"
      BY <2>2, <3>1, AttemptResting, AttemptRestingPrimed DEF Resting
    <3>2. CASE pc = "recorded"
      <4>1. PICK k \in Ids : At("recorded", "insert", k)
        BY <3>2 DEF IInv, InProcess
      <4>2. At("recorded", "insert", k)'
        BY <2>1, <2>2, <4>1 DEF At
      <4> QED
        BY <2>2, <4>1, <4>2, AttemptOpen, AttemptOpenPrimed DEF OpenFor
    <3> QED
      BY <3>1, <3>2
  <2> QED
    BY <2>2, <2>3 DEF Abstract!vars
<1>2. ASSUME NEW i \in Ids, AddMessageId(i)
      PROVE  Abstract!Begin(i)
  <2>1. At("recorded", "insert", i)' /\ pc = "idle" /\ i \notin store
    BY <1>2 DEF AddMessageId, At, MessageExists
  <2>2. attempt = Resting /\ attempt' = OpenFor(i)'
    BY <2>1, AttemptResting, AttemptOpenPrimed
  <2> QED
    BY <1>2, <2>1, <2>2 DEF AddMessageId, Resting, OpenFor, Abstract!Begin
<1>3. ASSUME NEW i \in Ids, InsertDocument(i)
      PROVE  Abstract!Insert(i)
  <2>1. attempt = OpenFor(i) /\ attempt' = Resting'
    BY <1>3, AttemptOpen, AttemptRestingPrimed DEF InsertDocument
  <2>2. i \in store
    <3>1. PICK k \in Ids : At("recorded", "insert", k) /\ k \in store
      BY <1>3 DEF InsertDocument, At, IInv, InProcess
    <3> QED
      BY <1>3, <3>1, CommandsDiffer DEF InsertDocument, At, Insert
  <2> QED
    BY <1>3, <2>1, <2>2 DEF InsertDocument, Resting, OpenFor, Abstract!Insert
<1>4. ASSUME NEW i \in Ids, PostAcknowledgment(i)
      PROVE  Abstract!Answer(i)
  <2>1. Head(queue) = Ack(i) /\ Ack(i) \in Queued /\ pc = "idle" /\ pc' = "posted"
    BY <1>4, AtHead DEF PostAcknowledgment, IInv, Ack
  <2>2. i \in store
    BY <2>1 DEF IInv, Claimed
  <2>3. attempt = Resting /\ attempt' = Resting'
    BY <2>1, AttemptResting, AttemptRestingPrimed
  <2> QED
    BY <1>4, <2>2, <2>3 DEF PostAcknowledgment, Resting, Abstract!Answer
<1>5. ASSUME NEW i \in Ids, HandleDuplicate(i) \/ Complete(i) \/ AckHandled(i) \/ Failure(i)
      PROVE  [Abstract!Next]_Abstract!vars
  <2>1. pc' = "idle" /\ UNCHANGED <<store, inserts, posted>>
    BY <1>5 DEF HandleDuplicate, Complete, AckHandled, Commit, Failure, Rollback,
                MessageStoreThrows, InsertDocumentFails, CompleteFails,
                PostAcknowledgmentFails, AckHandlerThrows
  <2> QED
    BY <2>1, RestRefines
<1>6. CASE Crash
  BY <1>6, RestRefines DEF Crash
<1>7. CASE UNCHANGED vars
  BY <1>7 DEF vars, Abstract!vars, attempt, At
<1> QED
  BY <1>1, <1>2, <1>3, <1>4, <1>5, <1>6, <1>7 DEF Next, Progress, Abstract!Next

\* What a step may do to the attempts, whoever else hears of their end.
LEMMA AttemptSteps ==
    ASSUME IInv, [Next]_vars
    PROVE  \/ UNCHANGED <<attempt, inserts>>
           \/ \E i \in Ids :
                /\ attempt[i] = "new" /\ attempt' = [attempt EXCEPT ![i] = "open"]
                /\ UNCHANGED inserts
           \/ \E i \in Ids :
                /\ attempt[i] = "open" /\ attempt' = [attempt EXCEPT ![i] = "over"]
                /\ inserts' \in {inserts, [inserts EXCEPT ![i] = @ + 1]}
BY StepRefines
DEF Abstract!Next, Abstract!vars, Abstract!Begin, Abstract!Insert, Abstract!Abandon,
    Abstract!Answer

\* An attempt that is over stays so, and one that is posted is over.
LEMMA PostedIsOver ==
    ASSUME IInv, [Next]_vars, \A i \in posted : attempt[i] = "over"
    PROVE  \A i \in posted' : attempt'[i] = "over"
<1>1. posted \subseteq Ids /\ DOMAIN attempt = Ids
  BY DEF IInv, TypeOK, attempt
<1>2. [Abstract!Next]_Abstract!vars
  BY StepRefines
<1> HIDE DEF attempt
<1> QED
  BY <1>1, <1>2
  DEF Abstract!Next, Abstract!vars, Abstract!Begin, Abstract!Insert, Abstract!Abandon,
      Abstract!Answer

\* For any messages, bounds and behaviour of the back office the endpoint
\* implements SingleAttempt: one attempt per message, answered when it is over.
THEOREM Refinement == Spec => ImplementsSingleAttempt
<1>1. Init => Abstract!Init
  BY DEF Init, Abstract!Init, attempt
<1> QED
  BY <1>1, InitEstablishes, NextPreserves, StepRefines, PTL
     DEF Spec, ImplementsSingleAttempt, Abstract!Spec
=============================================================================
