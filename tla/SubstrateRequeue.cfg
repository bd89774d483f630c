SPECIFICATION Spec
CONSTANTS
    client = client
    server = server
    Peers = {client, server}
    Senders = {client}
    Leavers = {}
    Channels <- SubstrateOnly
    Lengths = {1, 5}
    SliceSize = 6
    VarintBytes = 1
    ResendTime = 1
    DiscardAfter = 2
    MaxRanges = 2
    BytesPerTick = 8
    PacketBytes = 13
    OrderedNetwork = TRUE
    MaxMessages <- Three
    MaxSequence <- Sequences41
    MaxDuplicates = 0
INVARIANT SubstrateInOrder
