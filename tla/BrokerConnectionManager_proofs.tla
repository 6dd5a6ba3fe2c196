---------------------- MODULE BrokerConnectionManager_proofs ----------------------
(***************************************************************************)
(* Safety of the connection registry for any brokers and connections.      *)
(*                                                                         *)
(* The inductive invariant is the conjunction of the four invariants:      *)
(* AtMostOneActive alone says nothing of which entries AddConnection must  *)
(* mark, NoDuplicateEntries ties an entry to the broker of its connection, *)
(* so that the entries marked are those with which the new one competes,   *)
(* and ActiveIsNewest needs the types to look newest up.                   *)
(***************************************************************************)
EXTENDS BrokerConnectionManager, TLAPS

IInv == TypeOK /\ NoDuplicateEntries /\ AtMostOneActive /\ ActiveIsNewest

\* What AddConnection leaves in the list is either the new entry or an entry
\* that was there, Expired if its broker is b.
LEMMA ExpireMarks ==
    ASSUME TypeOK, NEW b \in Brokers, NEW e \in ExpireSuperceededConnections(b)
    PROVE  /\ e \in BrokerConnection
           /\ e.BrokerId = b => e.Expired
           /\ \E f \in brokerConnections :
                    /\ f.ConnectionId = e.ConnectionId
                    /\ f.BrokerId = e.BrokerId
                    /\ e.BrokerId # b => e = f
                    /\ f.Expired => e.Expired
<1>1. PICK f \in brokerConnections : e = [f EXCEPT !.Expired = (f.Expired \/ f.BrokerId = b)]
  BY DEF ExpireSuperceededConnections
<1>2. f \in BrokerConnection
  BY DEF TypeOK
<1> QED
  BY <1>1, <1>2 DEF BrokerConnection

\* AddConnection keeps the invariant: its own entry is the only active one of
\* its broker, and the entries of other brokers are the ones they were.
LEMMA AddPreserves ==
    ASSUME IInv, NEW c \in ConnectionIds, AddConnection(c, BrokerOf[c])
    PROVE  IInv'
<1> DEFINE b == BrokerOf[c]
           new == [ConnectionId |-> c, BrokerId |-> b, Expired |-> FALSE]
<1>1. CASE Listed(c)
  BY <1>1 DEF AddConnection, IInv, TypeOK, NoDuplicateEntries, AtMostOneActive,
              ActiveIsNewest, ActiveEntries, registryVars
<1>2. CASE ~Listed(c)
  <2>1. /\ brokerConnections' = ExpireSuperceededConnections(b) \cup {new}
        /\ newest' = [newest EXCEPT ![b] = c]
    BY <1>2 DEF AddConnection
  <2>2. /\ b \in Brokers
        /\ new \in BrokerConnection
    BY BrokerOfAssumption DEF BrokerConnection
  <2> HIDE DEF b
  <2>3. \A e \in ExpireSuperceededConnections(b) :
           /\ e \in BrokerConnection
           /\ e.BrokerId = b => e.Expired
           /\ \E f \in brokerConnections :
                    /\ f.ConnectionId = e.ConnectionId
                    /\ f.BrokerId = e.BrokerId
                    /\ e.BrokerId # b => e = f
                    /\ f.Expired => e.Expired
    BY <2>2, ExpireMarks DEF IInv
  <2>4. \A e \in ExpireSuperceededConnections(b) : e.ConnectionId # c
    BY <1>2, <2>3 DEF Listed
  <2>5. \A e, f \in ExpireSuperceededConnections(b) :
           e.ConnectionId = f.ConnectionId => e = f
    <3>1. SUFFICES ASSUME NEW e \in ExpireSuperceededConnections(b),
                          NEW f \in ExpireSuperceededConnections(b),
                          e.ConnectionId = f.ConnectionId
                   PROVE  e = f
      OBVIOUS
    <3>2. /\ e.BrokerId = BrokerOf[e.ConnectionId]
          /\ f.BrokerId = BrokerOf[f.ConnectionId]
      BY <2>3 DEF IInv, NoDuplicateEntries
    <3>3. CASE e.BrokerId = b
      BY <3>1, <3>2, <3>3, <2>3 DEF BrokerConnection
    <3>4. CASE e.BrokerId # b
      BY <3>1, <3>2, <3>4, <2>3 DEF IInv, NoDuplicateEntries
    <3> QED
      BY <3>3, <3>4
  <2>6. TypeOK'
    BY <2>1, <2>2, <2>3 DEF IInv, TypeOK
  <2>7. NoDuplicateEntries'
    <3>1. \A e \in ExpireSuperceededConnections(b) : e.BrokerId = BrokerOf[e.ConnectionId]
      BY <2>3 DEF IInv, NoDuplicateEntries
    <3>2. new.BrokerId = BrokerOf[new.ConnectionId] /\ new.ConnectionId = c
      BY DEF b
    <3> HIDE DEF new
    <3>3. \A e \in brokerConnections' : e.BrokerId = BrokerOf[e.ConnectionId]
      BY <2>1, <3>1, <3>2
    <3>4. \A e, f \in brokerConnections' : e.ConnectionId = f.ConnectionId => e = f
      BY <2>1, <2>4, <2>5, <3>2
    <3> QED
      BY <3>3, <3>4 DEF NoDuplicateEntries
  <2>8. \A e \in brokerConnections' : ~e.Expired /\ e.BrokerId = b => e = new
    BY <2>1, <2>3
  <2>9. \A e \in brokerConnections' : e.BrokerId # b => e \in brokerConnections
    BY <2>1, <2>3
  <2>10. AtMostOneActive'
    BY <2>8, <2>9 DEF IInv, AtMostOneActive, ActiveEntries
  <2>11. ActiveIsNewest'
    <3>1. newest'[b] = c
      BY <2>1, <2>2 DEF IInv, TypeOK
    <3>2. \A d \in Brokers : d # b => newest'[d] = newest[d]
      BY <2>1, <2>2 DEF IInv, TypeOK
    <3> DEFINE Newest(d) ==
                {e \in brokerConnections : e.BrokerId = d /\ e.ConnectionId = newest[d]}
    <3>3. ActiveEntries(b)' = Newest(b)'
      BY <2>1, <2>4, <2>8, <3>1 DEF ActiveEntries, b
    <3>4. \A d \in Brokers : d # b => ActiveEntries(d)' = Newest(d)'
      <4>1. SUFFICES ASSUME NEW d \in Brokers, d # b
                     PROVE  ActiveEntries(d)' = Newest(d)'
        OBVIOUS
      <4>2. \A e : e \in brokerConnections' /\ e.BrokerId = d
                      <=> e \in brokerConnections /\ e.BrokerId = d
        <5>1. ASSUME NEW e \in brokerConnections, e.BrokerId # b
              PROVE  e \in brokerConnections'
          <6>1. e \in BrokerConnection
            BY DEF IInv, TypeOK
          <6>2. [e EXCEPT !.Expired = (e.Expired \/ e.BrokerId = b)] = e
            BY <5>1, <6>1 DEF BrokerConnection
          <6> QED
            BY <2>1, <6>2 DEF ExpireSuperceededConnections
        <5> QED
          BY <2>9, <4>1, <5>1
      <4> QED
        BY <3>2, <4>1, <4>2 DEF IInv, ActiveIsNewest, ActiveEntries
    <3> QED
      BY <3>3, <3>4 DEF ActiveIsNewest
  <2> QED
    BY <2>6, <2>7, <2>10, <2>11 DEF IInv
<1> QED
  BY <1>1, <1>2

\* Every operation of the registry keeps the invariant.
LEMMA NextPreserves == IInv /\ [Next]_registryVars => IInv'
<1> SUFFICES ASSUME IInv, [Next]_registryVars
             PROVE  IInv'
  OBVIOUS
<1>1. ASSUME NEW c \in ConnectionIds, AddConnection(c, BrokerOf[c])
      PROVE  IInv'
  BY <1>1, AddPreserves
<1>2. ASSUME NEW c \in ConnectionIds, RemoveConnection(c)
      PROVE  IInv'
  BY <1>2 DEF RemoveConnection, IInv, TypeOK, NoDuplicateEntries, AtMostOneActive,
              ActiveIsNewest, ActiveEntries
<1>3. CASE ClearBrokerConnections
  BY <1>3 DEF ClearBrokerConnections, IInv, TypeOK, NoDuplicateEntries,
              AtMostOneActive, ActiveIsNewest, ActiveEntries
<1>4. CASE UNCHANGED registryVars
  BY <1>4 DEF registryVars, IInv, TypeOK, NoDuplicateEntries, AtMostOneActive,
              ActiveIsNewest, ActiveEntries
<1> QED
  BY <1>1, <1>2, <1>3, <1>4 DEF Next

\* The empty list satisfies the invariant.
LEMMA InitEstablishes == Init => IInv
BY DEF Init, RegistryInit, IInv, TypeOK, NoDuplicateEntries, AtMostOneActive,
       ActiveIsNewest, ActiveEntries

\* For any set of brokers and connections and any history of adds, removals and
\* clears: the list is well typed, a connection is listed once, a broker has at
\* most one entry that is not Expired, and that entry is its newest connection.
THEOREM RegistrySafety ==
    Spec => [](TypeOK /\ NoDuplicateEntries /\ AtMostOneActive /\ ActiveIsNewest)
<1>1. IInv => TypeOK /\ NoDuplicateEntries /\ AtMostOneActive /\ ActiveIsNewest
  BY DEF IInv
<1> QED
  BY <1>1, InitEstablishes, NextPreserves, PTL DEF Spec

\* The entries of the list have the columns of BrokerConnection.
THEOREM RegistryTyped == Spec => []TypeOK
BY RegistrySafety, PTL

\* For any history of the list, the test of line 43 is enough to keep a connection
\* from being listed twice or for a broker that is not its own.
THEOREM ListedOnce == Spec => []NoDuplicateEntries
BY RegistrySafety, PTL

\* For any history of the list, the entry whose token the Hub looks at is that of
\* the broker's newest connection, for exactly as long as it is listed.
THEOREM NewestIsActive == Spec => []ActiveIsNewest
BY RegistrySafety, PTL

\* An operation that leaves a superseded connection in the list leaves it
\* superseded: AddConnection returns early for a connection already listed.
LEMMA SupersededStep ==
    ASSUME IInv, [Next]_registryVars,
           NEW e \in brokerConnections, e.Expired,
           NEW f \in brokerConnections', f.ConnectionId = e.ConnectionId
    PROVE  f.Expired
<1>1. CASE f \in brokerConnections
  BY <1>1 DEF IInv, NoDuplicateEntries
<1>2. CASE f \notin brokerConnections
  <2>1. PICK c \in ConnectionIds : AddConnection(c, BrokerOf[c]) /\ ~Listed(c)
    BY <1>2 DEF Next, registryVars, RemoveConnection, ClearBrokerConnections, AddConnection
  <2> DEFINE b == BrokerOf[c]
  <2>2. b \in Brokers
    BY BrokerOfAssumption
  <2>3. f.ConnectionId # c
    BY <2>1 DEF Listed
  <2>4. f \in ExpireSuperceededConnections(b)
    BY <2>1, <2>3 DEF AddConnection
  <2>5. \E g \in brokerConnections :
            g.ConnectionId = f.ConnectionId /\ (g.Expired => f.Expired)
    BY <2>2, <2>4, ExpireMarks DEF IInv
  <2> QED
    BY <2>5 DEF IInv, NoDuplicateEntries
<1> QED
  BY <1>1, <1>2

\* For any set of brokers and connections, no operation gives a superseded
\* connection its broker back.
THEOREM SupersededSafety == Spec => SupersededStaysSuperseded
<1>1. IInv /\ [Next]_registryVars =>
        [\A e \in brokerConnections :
            e.Expired => \A f \in brokerConnections' :
                            f.ConnectionId = e.ConnectionId => f.Expired]_registryVars
  BY SupersededStep
<1> QED
  BY <1>1, InitEstablishes, NextPreserves, PTL DEF Spec, SupersededStaysSuperseded
=============================================================================
