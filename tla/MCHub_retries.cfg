SPECIFICATION HubSpec
CONSTANTS
    b1 = b1
    c1 = c1
    c2 = c2
    d1 = d1
    m1 = m1
    m2 = m2
    k1 = k1
    k2 = k2
    NoConnection = NoConnection
    Brokers <- MCBrokers
    ConnectionIds <- TwoConnections
    BrokerOf <- MCBrokerOf
    Messages <- MCMessages
    Commands <- TwoCommands
    Correlations <- MCCorrelations
    CorrelationOf <- MCCorrelationOf
    BrokerIdOf <- MCBrokerIdOf
    MaxRetries = 1
    MaxAttempts = 2
    MaxFaults = 0
INVARIANT
    RetriesAreOwnReplays
CHECK_DEADLOCK FALSE
