SPECIFICATION MCSpec
CONSTANTS
    Ids = {1, 2}
    NoId = 0
    TokenIds <- AnyToken
    MaxClients = 1
    MaxIdx = 2
    MaxEntering = 2
    MaxPackets = 1
INVARIANTS
    CountIsExact
    SlotsAreOwned
    AnswersWait
PROPERTY PendingEnds
CHECK_DEADLOCK FALSE
