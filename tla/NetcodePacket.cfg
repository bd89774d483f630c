SPECIFICATION WireSpec
CONSTANTS
    BufferSize = 2
    MaxSequence = 4
    Protocol = 4
    ConnectKey = 11
    ChallengeKey = 12
    Key = 13
    Slots = 2
    Byte = 2
    WordBytes = 3
    MaxSends = 3
    MaxDamage = 1
    Addresses <- MCAddresses
CHECK_DEADLOCK FALSE
INVARIANTS
    ExactWindow
    SlotsHoldHighest
    WireIsFaithful
