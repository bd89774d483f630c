SPECIFICATION Spec
CONSTANTS
    client = client
    server = server
    Peers = {client, server}
    Senders = {client}
    Leavers = {server}
    Channels <- OrderedOnly
    Lengths = {1, 7}
    SliceSize = 6
    VarintBytes = 1
    ResendTime = 1
    DiscardAfter = 2
    MaxRanges = 2
    BytesPerTick = 8
    PacketBytes = 13
    OrderedNetwork = FALSE
    MaxMessages <- Two
    MaxSequence <- Sequences31
    MaxDuplicates = 1
    Origin = client
    Channel = 1
PROPERTY ImplementsAckProtocol
INVARIANTS
    AckedIsStored
    OrderedIsPrefix
    NoExpiredPacketKept
    NoConstructorOfAssembled
