SPECIFICATION TokenSpec
CONSTANTS
    b1 = b1
    c1 = c1
    c2 = c2
    c3 = c3
    NoConnection = NoConnection
    Brokers <- MCBrokers
    ConnectionIds <- MCConnectionIds
    BrokerOf <- MCBrokerOf
    Lifetime = 4
    Window = 2
    Delay = 1
    Second = 1
    MaxTime = 8
INVARIANTS
    TokenTypeOK
    ConnectedTokenIsValid
    ThrottleFollowsRefresh
