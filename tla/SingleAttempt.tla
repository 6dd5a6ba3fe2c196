------------------------------ MODULE SingleAttempt ------------------------------
(***************************************************************************)
(* What the code of the remote endpoint does with a message, however often *)
(* it is delivered: one attempt to insert its document, and an answer only *)
(* when that attempt is over.  An attempt may end without an insertion; it *)
(* is not made again, and the answer does not tell.  This is less than     *)
(* README.md:16 promises, "multiple retries of insertion": see             *)
(* SuccessMeansInserted of RemoteInsert.                                   *)
(***************************************************************************)
EXTENDS Naturals

CONSTANT Ids        \* the Message.Id values

VARIABLES
    attempt,        \* of each message: not begun, open, or over
    inserts,        \* how often the back office inserted its document
    answered        \* the messages whose answer reached the data centre

vars == <<attempt, inserts, answered>>

Init ==
    /\ attempt = [i \in Ids |-> "new"]
    /\ inserts = [i \in Ids |-> 0]
    /\ answered = {}

Begin(i) ==
    /\ attempt[i] = "new"
    /\ attempt' = [attempt EXCEPT ![i] = "open"]
    /\ UNCHANGED <<inserts, answered>>

Insert(i) ==
    /\ attempt[i] = "open"
    /\ attempt' = [attempt EXCEPT ![i] = "over"]
    /\ inserts' = [inserts EXCEPT ![i] = @ + 1]
    /\ UNCHANGED answered

Abandon(i) ==
    /\ attempt[i] = "open"
    /\ attempt' = [attempt EXCEPT ![i] = "over"]
    /\ UNCHANGED <<inserts, answered>>

Answer(i) ==
    /\ attempt[i] = "over"
    /\ answered' = answered \cup {i}
    /\ UNCHANGED <<attempt, inserts>>

Next == \E i \in Ids : Begin(i) \/ Insert(i) \/ Abandon(i) \/ Answer(i)

Spec == Init /\ [][Next]_vars
=============================================================================
