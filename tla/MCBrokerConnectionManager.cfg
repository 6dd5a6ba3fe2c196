SPECIFICATION Spec
CONSTANTS
    b1 = b1
    b2 = b2
    c1 = c1
    c2 = c2
    c3 = c3
    c4 = c4
    c5 = c5
    NoConnection = NoConnection
    Brokers <- MCBrokers
    ConnectionIds <- MCConnectionIds
    BrokerOf <- MCBrokerOf
INVARIANTS
    TypeOK
    NoDuplicateEntries
    AtMostOneActive
    ActiveIsNewest
PROPERTY
    SupersededStaysSuperseded
