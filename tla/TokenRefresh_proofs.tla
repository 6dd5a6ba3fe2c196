---------------------------- MODULE TokenRefresh_proofs ----------------------------
(***************************************************************************)
(* The two invariants of TokenRefresh, for any lifetime, window and delay  *)
(* with Window < Lifetime, and any loss in the conversion of expires_in.   *)
(*                                                                         *)
(* ConnectedTokenIsValid needs how far the endpoint's expiry date may be   *)
(* ahead of the token's, which is how long a token may be on its way.      *)
(* ThrottleFollowsRefresh needs how far that date may be behind: never by  *)
(* more than a Second behind the expiry of any token used so far, because  *)
(* at each receipt no token granted so far expires later than one granted  *)
(* at that moment.                                                         *)
(***************************************************************************)
EXTENDS TokenRefresh, TLAPS

\* A token on its way was granted at most Delay ago.
GrantIsRecent ==
    granting # NoConnection =>
        /\ tokenExpiresOn[granting] = grantedAt + Lifetime
        /\ grantedAt <= now
        /\ now <= grantedAt + Delay

\* No token expires later than one granted now.
NoneOutlivesNext == \A c \in ConnectionIds : tokenExpiresOn[c] <= now + Lifetime

\* Only connections the endpoint opened are listed.
ListedIsOpened == \A e \in brokerConnections : e.ConnectionId \in Opened

\* The endpoint's date is at most a Second behind the expiry of any token it used.
DateIsLast ==
    hubConnection # NoConnection =>
        \A c \in Opened : tokenExpiresOn[c] <= accessTokenExpiryDate + Second

\* The endpoint's date is at most Delay ahead of its token's expiry, and when it
\* last had, or kept, a token, that had more than Window - Delay to live.
DateIsClose ==
    hubConnection # NoConnection =>
        /\ hubConnection \in Opened
        /\ accessTokenExpiryDate <= tokenExpiresOn[hubConnection] + Delay
        /\ checked + Window < tokenExpiresOn[hubConnection] + Delay

LinkHasConnection == link # "down" => hubConnection # NoConnection

TokenInv ==
    /\ TokenTypeOK
    /\ GrantIsRecent
    /\ NoneOutlivesNext
    /\ ListedIsOpened
    /\ DateIsLast
    /\ DateIsClose
    /\ LinkHasConnection

\* Nothing is granted, listed or connected.
LEMMA TokenInitEstablishes == TokenInit => TokenInv
BY TimeAssumption
DEF TokenInit, RegistryInit, NewEndpoint, TokenInv, TokenTypeOK, TypeOK, GrantIsRecent,
    NoneOutlivesNext, ListedIsOpened, DateIsLast, DateIsClose, LinkHasConnection, BrokerConnection

\* A token granted now has not been used: its connection was not opened.
LEMMA GrantPreserves ==
    ASSUME TokenInv, NEW c \in ConnectionIds, GrantToken(c)
    PROVE  TokenInv'
<1> USE TimeAssumption, NoConnectionAssumption
    DEF TokenInv, TokenTypeOK, GrantToken, endpointVars, registryVars
<1>1. TokenTypeOK'
  BY DEF TypeOK
<1>2. Opened' = Opened
  BY DEF Opened
<1>3. \A d \in Opened : d # c /\ tokenExpiresOn'[d] = tokenExpiresOn[d]
  BY DEF Opened
<1>4. GrantIsRecent'
  BY DEF GrantIsRecent
<1>5. NoneOutlivesNext'
  BY DEF NoneOutlivesNext
<1>6. ListedIsOpened'
  BY <1>2 DEF ListedIsOpened
<1>7. DateIsLast'
  BY <1>2, <1>3 DEF DateIsLast
<1>8. DateIsClose'
  BY <1>2, <1>3 DEF DateIsClose
<1>9. LinkHasConnection'
  BY DEF LinkHasConnection
<1> QED
  BY <1>1, <1>4, <1>5, <1>6, <1>7, <1>8, <1>9

\* The date set at the receipt is at most a Second behind that of any token granted
\* before, and at most Delay ahead of that of the token received.
LEMMA ReceivePreserves ==
    ASSUME TokenInv, ReceiveToken
    PROVE  TokenInv'
<1> USE TimeAssumption, NoConnectionAssumption DEF TokenInv, TokenTypeOK, ReceiveToken, registryVars
<1>1. TokenTypeOK'
  BY DEF TypeOK
<1>2. Opened' = Opened \cup {granting}
  BY DEF Opened, GrantIsRecent
<1>3. GrantIsRecent'
  BY DEF GrantIsRecent
<1>4. NoneOutlivesNext'
  BY DEF NoneOutlivesNext
<1>5. ListedIsOpened'
  BY <1>2 DEF ListedIsOpened
<1>6. DateIsLast'
  BY DEF DateIsLast, NoneOutlivesNext, Opened
<1>7. DateIsClose'
  BY <1>2 DEF DateIsClose, GrantIsRecent
<1>8. LinkHasConnection'
  BY DEF LinkHasConnection
<1> QED
  BY <1>1, <1>3, <1>4, <1>5, <1>6, <1>7, <1>8

\* A token that is forgotten was not used.
LEMMA ForgetPreserves ==
    ASSUME TokenInv, TokenNotReceived \/ RestartEndpoint
    PROVE  TokenInv'
<1> USE TimeAssumption, NoConnectionAssumption
    DEF TokenInv, TokenTypeOK, TokenNotReceived, RestartEndpoint, ForgetGrant,
        registryVars, endpointVars
<1>1. TokenTypeOK'
  BY DEF TypeOK
<1>2. Opened' = Opened
  BY DEF Opened
<1>3. \A d \in Opened : tokenExpiresOn'[d] = tokenExpiresOn[d]
  BY DEF Opened
<1>4. GrantIsRecent'
  BY DEF GrantIsRecent
<1>5. NoneOutlivesNext'
  BY DEF NoneOutlivesNext
<1>6. ListedIsOpened'
  BY <1>2 DEF ListedIsOpened
<1>7. DateIsLast'
  BY <1>2, <1>3 DEF DateIsLast
<1>8. DateIsClose'
  BY <1>2, <1>3 DEF DateIsClose
<1>9. LinkHasConnection'
  BY DEF LinkHasConnection
<1> QED
  BY <1>1, <1>4, <1>5, <1>6, <1>7, <1>8, <1>9

\* The handler keeps the token it has only if that has more than Window to live.
LEMMA CheckPreserves ==
    ASSUME TokenInv, CheckToken
    PROVE  TokenInv'
<1> USE TimeAssumption DEF TokenInv, TokenTypeOK, CheckToken, registryVars
<1>1. TokenTypeOK'
  BY DEF TypeOK
<1>2. DateIsClose'
  BY DEF DateIsClose, Opened, AccessTokenNeedsRefresh
<1>3. (GrantIsRecent /\ NoneOutlivesNext /\ ListedIsOpened /\ DateIsLast /\ LinkHasConnection)'
  BY DEF GrantIsRecent, NoneOutlivesNext, ListedIsOpened, DateIsLast, LinkHasConnection, Opened
<1> QED
  BY <1>1, <1>2, <1>3

\* The connection of the field goes up or down.
LEMMA LinkPreserves ==
    ASSUME TokenInv, Connect \/ Drop \/ StopToRefresh
    PROVE  TokenInv'
<1> USE DEF TokenInv, TokenTypeOK, Connect, Drop, StopToRefresh, registryVars
<1>1. TokenTypeOK'
  BY DEF TypeOK
<1>2. (GrantIsRecent /\ NoneOutlivesNext /\ ListedIsOpened)'
  BY DEF GrantIsRecent, NoneOutlivesNext, ListedIsOpened, Opened
<1>3. (DateIsLast /\ DateIsClose /\ LinkHasConnection)'
  BY DEF DateIsLast, DateIsClose, LinkHasConnection, Opened
<1> QED
  BY <1>1, <1>2, <1>3

\* The Hub lists and removes only connections that were opened.
LEMMA HubPreserves ==
    ASSUME TokenInv,
           \/ \E c \in ConnectionIds : AddBrokerToConnections(c) \/ OnDisconnected(c)
           \/ RestartHub
    PROVE  TokenInv'
<1> USE DEF TokenInv
<1>1. UNCHANGED <<now, tokenExpiresOn, granting, grantedAt, endpointVars>>
  BY DEF AddBrokerToConnections, OnDisconnected, RestartHub
<1>2. Opened' = Opened
  BY <1>1 DEF Opened
<1>3. TypeOK' /\ ListedIsOpened'
  <2>1. ASSUME NEW c \in ConnectionIds, AddBrokerToConnections(c)
        PROVE  TypeOK' /\ ListedIsOpened'
    <3>1. CASE Listed(c)
      BY <2>1, <3>1, <1>2
      DEF AddBrokerToConnections, AddConnection, registryVars, TokenTypeOK, TypeOK, ListedIsOpened
    <3>2. CASE ~Listed(c)
      <4>1. BrokerOf[c] \in Brokers
        BY BrokerOfAssumption
      <4>2. \A e \in ExpireSuperceededConnections(BrokerOf[c]) :
                e \in BrokerConnection /\ e.ConnectionId \in Opened
        BY DEF ExpireSuperceededConnections, TokenTypeOK, TypeOK, BrokerConnection, ListedIsOpened
      <4>3. /\ brokerConnections' = ExpireSuperceededConnections(BrokerOf[c])
                    \cup {[ConnectionId |-> c, BrokerId |-> BrokerOf[c], Expired |-> FALSE]}
            /\ newest' = [newest EXCEPT ![BrokerOf[c]] = c]
            /\ c \in Opened
        BY <2>1, <3>2 DEF AddBrokerToConnections, AddConnection
      <4>4. TypeOK'
        <5>1. [ConnectionId |-> c, BrokerId |-> BrokerOf[c], Expired |-> FALSE]
                    \in BrokerConnection
          BY <4>1 DEF BrokerConnection
        <5>2. brokerConnections' \subseteq BrokerConnection
          BY <4>2, <4>3, <5>1
        <5>3. newest' \in [Brokers -> ConnectionIds \cup {NoConnection}]
          BY <4>3 DEF TokenTypeOK, TypeOK
        <5> QED
          BY <5>2, <5>3 DEF TypeOK
      <4>5. ListedIsOpened'
        BY <4>2, <4>3, <1>2 DEF ListedIsOpened
      <4> QED
        BY <4>4, <4>5
    <3> QED
      BY <3>1, <3>2
  <2>2. ASSUME NEW c \in ConnectionIds, OnDisconnected(c)
        PROVE  TypeOK' /\ ListedIsOpened'
    BY <2>2, <1>2 DEF OnDisconnected, RemoveConnection, TokenTypeOK, TypeOK, ListedIsOpened
  <2>3. CASE RestartHub
    BY <2>3 DEF RestartHub, ClearBrokerConnections, TokenTypeOK, TypeOK, ListedIsOpened
  <2> QED
    BY <2>1, <2>2, <2>3
<1>4. TokenTypeOK'
  BY <1>1, <1>3 DEF TokenTypeOK, endpointVars
<1>5. (GrantIsRecent /\ NoneOutlivesNext)'
  BY <1>1 DEF GrantIsRecent, NoneOutlivesNext
<1>6. (DateIsLast /\ DateIsClose /\ LinkHasConnection)'
  BY <1>1, <1>2 DEF DateIsLast, DateIsClose, LinkHasConnection, endpointVars
<1> QED
  BY <1>3, <1>4, <1>5, <1>6

\* Time passes, and a token on its way is not kept waiting.
LEMMA TickPreserves ==
    ASSUME TokenInv, Tick
    PROVE  TokenInv'
<1> USE TimeAssumption, NoConnectionAssumption
    DEF TokenInv, TokenTypeOK, Tick, registryVars, endpointVars
<1>1. TokenTypeOK'
  BY DEF TypeOK
<1>2. GrantIsRecent'
  BY DEF GrantIsRecent
<1>3. NoneOutlivesNext'
  BY DEF NoneOutlivesNext
<1>4. (ListedIsOpened /\ DateIsLast /\ DateIsClose /\ LinkHasConnection)'
  BY DEF ListedIsOpened, DateIsLast, DateIsClose, LinkHasConnection, Opened
<1> QED
  BY <1>1, <1>2, <1>3, <1>4

\* Every step keeps the invariant.
LEMMA TokenNextPreserves == TokenInv /\ [TokenNext]_tokenVars => TokenInv'
<1> SUFFICES ASSUME TokenInv, [TokenNext]_tokenVars
             PROVE  TokenInv'
  OBVIOUS
<1>1. CASE \E c \in ConnectionIds : GrantToken(c)
  BY <1>1, GrantPreserves
<1>2. CASE \/ \E c \in ConnectionIds : AddBrokerToConnections(c) \/ OnDisconnected(c)
           \/ RestartHub
  BY <1>2, HubPreserves
<1>3. CASE ReceiveToken
  BY <1>3, ReceivePreserves
<1>4. CASE TokenNotReceived \/ RestartEndpoint
  BY <1>4, ForgetPreserves
<1>5. CASE CheckToken
  BY <1>5, CheckPreserves
<1>6. CASE Connect \/ Drop \/ StopToRefresh
  BY <1>6, LinkPreserves
<1>7. CASE Tick
  BY <1>7, TickPreserves
<1>8. CASE UNCHANGED tokenVars
  BY <1>8
  DEF tokenVars, registryVars, endpointVars, TokenInv, TokenTypeOK, TypeOK, GrantIsRecent,
      NoneOutlivesNext, ListedIsOpened, DateIsLast, DateIsClose, LinkHasConnection, Opened
<1> QED
  BY <1>1, <1>2, <1>3, <1>4, <1>5, <1>6, <1>7, <1>8 DEF TokenNext

\* For any tokens and connections the variables have their types.
THEOREM TokenTypeSafety == TokenSpec => []TokenTypeOK
<1>1. TokenInv => TokenTypeOK
  BY DEF TokenInv
<1> QED
  BY <1>1, TokenInitEstablishes, TokenNextPreserves, PTL DEF TokenSpec

\* For every lifetime of tokens, window and delay: as long as acknowledgements
\* come closer together than Window - Delay, the token of the endpoint's
\* connection has not expired.
THEOREM ConnectionNeverOutlivesToken == TokenSpec => []ConnectedTokenIsValid
<1>1. TokenInv => ConnectedTokenIsValid
  BY TimeAssumption DEF TokenInv, TokenTypeOK, ConnectedTokenIsValid, DateIsClose, LinkHasConnection
<1> QED
  BY <1>1, TokenInitEstablishes, TokenNextPreserves, PTL DEF TokenSpec

\* For every lifetime of tokens, window, delay and cut of expires_in, and any order
\* of the callbacks of the Hub: from a Second after the endpoint would refresh at its
\* next acknowledgement, a Hub that finds an active entry finds its token due.
THEOREM HubSeesRefreshComing == TokenSpec => []ThrottleFollowsRefresh
<1>1. TokenInv => ThrottleFollowsRefresh
  <2>1. SUFFICES ASSUME TokenInv, hubConnection # NoConnection, AccessTokenNeedsRefresh,
                        NEW b \in Brokers, ~LookupThrows(b)
                 PROVE  ActiveBrokerTokenIsDueToExpire(b, now + Second)
    BY DEF ThrottleFollowsRefresh
  <2>2. PICK e \in ActiveEntries(b) : TRUE
    BY <2>1 DEF LookupThrows
  <2>3. e.ConnectionId \in Opened
    BY <2>1 DEF TokenInv, ListedIsOpened, ActiveEntries
  <2>4. tokenExpiresOn[e.ConnectionId] <= accessTokenExpiryDate + Second
    BY <2>1, <2>3 DEF TokenInv, DateIsLast
  <2>5. tokenExpiresOn[e.ConnectionId] \in Nat
    BY <2>1, <2>3 DEF Opened, TokenInv, TokenTypeOK
  <2>6. tokenExpiresOn[e.ConnectionId] <= (now + Second) + Window
    BY <2>1, <2>4, <2>5, TimeAssumption DEF AccessTokenNeedsRefresh, TokenInv, TokenTypeOK
  <2> QED
    BY <2>6 DEF ActiveBrokerTokenIsDueToExpire
<1> QED
  BY <1>1, TokenInitEstablishes, TokenNextPreserves, PTL DEF TokenSpec
=============================================================================
