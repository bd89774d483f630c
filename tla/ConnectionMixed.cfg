SPECIFICATION Spec
CONSTANTS
    client = client
    server = server
    Peers = {client, server}
    Senders = {client}
    Leavers = {}
    Channels <- UnorderedFirst
    Lengths = {1, 7}
    SliceSize = 6
    VarintBytes = 1
    ResendTime = 1
    DiscardAfter = 2
    MaxRanges = 2
    BytesPerTick = 8
    PacketBytes = 13
    OrderedNetwork = FALSE
    MaxMessages <- TwoAndOne
    MaxSequence <- Sequences31
    MaxDuplicates = 1
INVARIANTS
    MemoryIsExact
    SlicesAreTimed
    MessagesIntact
    UnorderedOnce
