SPECIFICATION MCSpec
CONSTANTS
    Connectors = {k1}
    MaxUp = 1
    MaxDown = 1
    Conns = {n1, n2}
    RelayLimit = 1
    MaxChunks = 1
    Nobody = Nobody
    Streams = {s1}
    MaxEntries = 2
    MaxOpens = 1
    MaxCalls = 2
    CallLimit = 2
    WriteLimit = 2
    MaxEvents = 2
    MaxRetries = 1
INVARIANTS
    AnswersAreComplete
    RelayIsComplete
    SidecarIsContained
    ExchangeIsOrdered
PROPERTIES
    RevocationReturns
CHECK_DEADLOCK FALSE
