SPECIFICATION MCSpec
CONSTANTS
    RemoteIds = {1, 3}
    LocalIds = {2}
    MaxSessions = 2
    NoConnection = NoConnection
    WebAddrs = {w1}
    BareAddrs = {u1}
    ReliableAddrs = {w1}
    Encrypted = {u1}
    Presents <- OneInClear
    NoId = 0
    SteamMaxClients = 1
    MaxConnections = 2
    MaxIncoming = 2
INVARIANTS
    TablesAgree
    SteamTablesAgree
    EventsTellTruth
    WriterLetGo
PROPERTIES
    DisconnectionsEnd
    LossesEnd
    ClientEndsTogether
    FarewellLeaves
CHECK_DEADLOCK FALSE
