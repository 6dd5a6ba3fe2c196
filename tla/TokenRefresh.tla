------------------------------- MODULE TokenRefresh -------------------------------
(***************************************************************************)
(* The access token of a broker, in time.  The identity provider grants it *)
(* for Lifetime; it opens a connection, and the registry of the Hub keeps  *)
(* the expiry of its claim TokenExpiresOn, which is exact.  The endpoint   *)
(* keeps an expiry date of its own, counted from the receipt of the token  *)
(* and in the whole seconds of expires_in.  Both ends look Window ahead:   *)
(* the Hub after each push, to wait while the endpoint may be refreshing,  *)
(* and the endpoint after each acknowledgement, to refresh.  Neither tells *)
(* the other.                                                              *)
(*                                                                         *)
(* Composed with the registry, for one broker.  Which thread calls Start,  *)
(* and the restart timers, are the subject of HubConnection; here Start    *)
(* may be entered whenever the connection of the field is down.  As long   *)
(* as no transport reconnects that connection is the only one that is live *)
(* (OnlyFieldIsLive there).  The callbacks of SignalR may reach the Hub at *)
(* any later time, in any order, or not at all.                            *)
(***************************************************************************)
EXTENDS BrokerConnectionManager

CONSTANTS
    Lifetime,   \* TokenDurationInMinutes, 20
    Window,     \* AddMinutes(5) on both ends
    Delay,      \* bound: between the grant of a token and its receipt, by the
                \* timeout of HttpClient, 100 seconds
    Second,     \* what the conversion of Lifetime to expires_in may cut off
    MaxTime     \* bound: where the clock stops

ASSUME TimeAssumption ==
    /\ Lifetime \in Nat /\ Window \in Nat /\ Delay \in Nat /\ MaxTime \in Nat
    /\ Second \in Nat /\ Second <= Lifetime
    /\ Window < Lifetime

VARIABLES
    now,                    \* the clock
    tokenExpiresOn,         \* the expiry of the token of a connection, 0 before its grant
    granting,               \* the connection whose token is on its way, and
    grantedAt,              \* when it was granted
    hubConnection,          \* the field: the connection of the last token received
    link,                   \* its state
    accessTokenExpiryDate,  \* the field of the endpoint
    handlerPc,              \* the handler of acknowledgements
    checked                 \* history: when the endpoint last had, or kept, a token

endpointVars == <<hubConnection, link, accessTokenExpiryDate, handlerPc, checked>>
tokenVars == <<registryVars, now, tokenExpiresOn, granting, grantedAt, endpointVars>>

TokenTypeOK ==
    /\ TypeOK
    /\ now \in Nat
    /\ tokenExpiresOn \in [ConnectionIds -> Nat]
    /\ granting \in ConnectionIds \cup {NoConnection}
    /\ grantedAt \in Nat
    /\ hubConnection \in ConnectionIds \cup {NoConnection}
    /\ link \in {"down", "connecting", "connected"}
    /\ accessTokenExpiryDate \in 0 .. now + Lifetime
    /\ handlerPc \in {"idle", "refresh"}
    /\ checked \in Nat

\* The field accessTokenExpiryDate is DateTime.MinValue in a new process.
NewEndpoint ==
    /\ hubConnection = NoConnection
    /\ link = "down"
    /\ accessTokenExpiryDate = 0
    /\ handlerPc = "idle"

TokenInit ==
    /\ RegistryInit
    /\ NewEndpoint
    /\ now = 0
    /\ tokenExpiresOn = [c \in ConnectionIds |-> 0]
    /\ granting = NoConnection
    /\ grantedAt = 0
    /\ checked = 0

---------------------------------------------------------------------------
(* What the two ends look at.                                              *)

\* Mutant: the endpoint refreshes when the token has expired.
NeedsRefreshWhenExpired == accessTokenExpiryDate <= now

\* Mutant: the endpoint looks further ahead than the Hub.
NeedsRefreshEarlier == accessTokenExpiryDate <= now + 2 * Window

AccessTokenNeedsRefresh == accessTokenExpiryDate <= now + Window

\* The broker is not listed, or only by entries that were superseded.
LookupThrows(b) == ActiveEntries(b) = {}

\* What the Hub finds at time t of a broker whose lookup does not throw; by
\* AtMostOneActive there is one entry to look at.
ActiveBrokerTokenIsDueToExpire(b, t) ==
    \E e \in ActiveEntries(b) : tokenExpiresOn[e.ConnectionId] <= t + Window

\* The connections that the endpoint began to open.
Opened == {c \in ConnectionIds : tokenExpiresOn[c] # 0} \ {granting}

---------------------------------------------------------------------------
(* The endpoint.                                                           *)

\* Start asks for a token; the identity provider writes its claims.
GrantToken(c) ==
    /\ link = "down"
    /\ granting = NoConnection
    /\ tokenExpiresOn[c] = 0
    /\ tokenExpiresOn' = [tokenExpiresOn EXCEPT ![c] = now + Lifetime]
    /\ granting' = c
    /\ grantedAt' = now
    /\ UNCHANGED <<registryVars, now, endpointVars>>

\* Mutant: the seconds of expires_in are added as minutes.
ReceiveTokenInMinutes ==
    /\ granting # NoConnection
    /\ accessTokenExpiryDate' = now + 60 * Lifetime
    /\ hubConnection' = granting
    /\ link' = "connecting"
    /\ granting' = NoConnection
    /\ checked' = now
    /\ UNCHANGED <<registryVars, now, tokenExpiresOn, grantedAt, handlerPc>>

\* expires_in, the lifetime cut to whole seconds when the identity provider wrote
\* it, is counted from the receipt, and the connection begins to connect.
ReceiveToken ==
    /\ granting # NoConnection
    /\ \E cut \in 0 .. Second : accessTokenExpiryDate' = now + Lifetime - cut
    /\ hubConnection' = granting
    /\ link' = "connecting"
    /\ granting' = NoConnection
    /\ checked' = now
    /\ UNCHANGED <<registryVars, now, tokenExpiresOn, grantedAt, handlerPc>>

\* The token is lost with the answer of the identity provider, or with the process.
ForgetGrant ==
    /\ granting' = NoConnection
    /\ tokenExpiresOn' = [c \in ConnectionIds |-> IF c = granting THEN 0
                                                  ELSE tokenExpiresOn[c]]

\* GetToken throws: Start logs it and returns false.
TokenNotReceived ==
    /\ granting # NoConnection
    /\ ForgetGrant
    /\ UNCHANGED <<registryVars, now, grantedAt, endpointVars>>

\* The Hub authorizes a connection by its token.
Connect ==
    /\ link = "connecting"
    /\ now < tokenExpiresOn[hubConnection]
    /\ link' = "connected"
    /\ UNCHANGED <<registryVars, now, tokenExpiresOn, granting, grantedAt, hubConnection,
                   accessTokenExpiryDate, handlerPc, checked>>

\* The connection fails, or a callback of it stops it.
Drop ==
    /\ link # "down"
    /\ link' = "down"
    /\ UNCHANGED <<registryVars, now, tokenExpiresOn, granting, grantedAt, hubConnection,
                   accessTokenExpiryDate, handlerPc, checked>>

\* SendAcknowledgmentCommandHandler, after the post: the check.
CheckToken ==
    /\ handlerPc = "idle"
    /\ IF AccessTokenNeedsRefresh
       THEN handlerPc' = "refresh" /\ UNCHANGED checked
       ELSE checked' = now /\ UNCHANGED handlerPc
    /\ UNCHANGED <<registryVars, now, tokenExpiresOn, granting, grantedAt, hubConnection,
                   link, accessTokenExpiryDate>>

\* Stop, on the connection the field now refers to; then Start is entered.
StopToRefresh ==
    /\ handlerPc = "refresh"
    /\ handlerPc' = "idle"
    /\ link' = "down"
    /\ UNCHANGED <<registryVars, now, tokenExpiresOn, granting, grantedAt, hubConnection,
                   accessTokenExpiryDate, checked>>

\* The endpoint's process restarts; its connections are not closed at the Hub.
RestartEndpoint ==
    /\ hubConnection' = NoConnection
    /\ link' = "down"
    /\ accessTokenExpiryDate' = 0
    /\ handlerPc' = "idle"
    /\ ForgetGrant
    /\ UNCHANGED <<registryVars, now, grantedAt, checked>>

---------------------------------------------------------------------------
(* The Hub, and time.                                                      *)

\* OnConnected and OnReconnected: the claim of the connection goes into its entry.
AddBrokerToConnections(c) ==
    /\ c \in Opened
    /\ AddConnection(c, BrokerOf[c])
    /\ UNCHANGED <<now, tokenExpiresOn, granting, grantedAt, endpointVars>>

OnDisconnected(c) ==
    /\ RemoveConnection(c)
    /\ UNCHANGED <<now, tokenExpiresOn, granting, grantedAt, endpointVars>>

RestartHub ==
    /\ ClearBrokerConnections
    /\ UNCHANGED <<now, tokenExpiresOn, granting, grantedAt, endpointVars>>

\* The timeout of HttpClient bounds the time a token is on its way.
Tick ==
    /\ now < MaxTime
    /\ granting # NoConnection => now < grantedAt + Delay
    /\ now' = now + 1
    /\ UNCHANGED <<registryVars, tokenExpiresOn, granting, grantedAt, endpointVars>>

TokenNext ==
    \/ \E c \in ConnectionIds :
            GrantToken(c) \/ AddBrokerToConnections(c) \/ OnDisconnected(c)
    \/ ReceiveToken \/ TokenNotReceived \/ Connect \/ Drop \/ CheckToken \/ StopToRefresh
    \/ RestartEndpoint \/ RestartHub
    \/ Tick

TokenSpec == TokenInit /\ [][TokenNext]_tokenVars

---------------------------------------------------------------------------
(* Properties.                                                             *)

\* As long as acknowledgements come closer together than Window - Delay, a
\* connection never outlives its token, so that a lost transport is authorized
\* again when SignalR reconnects it.  The endpoint believes the token to live up
\* to Delay longer than it does; Window must make up for that.
ConnectedTokenIsValid ==
    link = "connected" /\ now + Delay <= checked + Window
        => now < tokenExpiresOn[hubConnection]

\* From a Second after the endpoint would first refresh at its next
\* acknowledgement, the Hub waits after every push for which it finds an active
\* entry, whichever connections of this or an earlier process of the endpoint it
\* still lists: the endpoint's expiry date is earlier than that of the entry the
\* Hub looks at by no more than the conversion cut off.  In that Second the endpoint
\* may refresh while the Hub does not wait, other than README.md:13 has it.  Where
\* the lookup throws it does not wait either; the command is pushed again by its
\* retry.
ThrottleFollowsRefresh ==
    hubConnection # NoConnection /\ AccessTokenNeedsRefresh =>
        \A b \in Brokers : LookupThrows(b) \/ ActiveBrokerTokenIsDueToExpire(b, now + Second)
=============================================================================
