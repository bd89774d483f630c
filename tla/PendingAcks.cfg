SPECIFICATION Spec
CONSTANTS
    MaxRanges = 2
    MaxSequence = 6
INVARIANTS
    RangesSeparated
    OnlyReceivedCovered
    AckRoundTrip
PROPERTY AcksKept
