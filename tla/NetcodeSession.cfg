SPECIFICATION Spec
CONSTANTS
    t1 = t1
    t2 = t2
    t3 = t3
    a1 = a1
    a2 = a2
    Addr = {a1}
    Token = {t1}
    Encrypted = {a1}
    Presents <- AllTokens
    ClientId <- Ids112
    Expire <- Expire3
    Timeout <- Timeout1
    Hosts <- TwoHosts
    SendRate = 1
    Durations = {1}
    Capacities = {1}
    Limits = {0}
    MaxPending = 1
    NumEntries = 1
    LastSecond = 4
    BufferSize = 2
    MaxSequence = 3
    MaxStarts = 1
    PayloadAt = {2}
PROPERTIES
    DeadLinkIsNoticed
    ConnectingEnds
