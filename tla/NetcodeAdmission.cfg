SPECIFICATION Spec
CONSTANTS
    t1 = t1
    t2 = t2
    t3 = t3
    a1 = a1
    a2 = a2
    Addr = {a1, a2}
    Token = {t1, t2, t3}
    Encrypted = {a1}
    Presents <- OneAtA2
    ClientId <- Ids112
    Expire <- Expire1
    Timeout <- Timeout1
    Hosts <- OneHost
    SendRate = 1
    Durations = {0}
    Capacities = {1, 2}
    Limits = {}
    MaxPending = 2
    NumEntries = 3
    LastSecond = 2
    BufferSize = 2
    MaxSequence = 2
    PayloadAt = {}
    MaxStarts = 2
INVARIANTS
    UniqueAddresses
    UniqueClients
    IdentityMatches
    KeysMatch
    TokenBound
    AcceptedFirst
