SPECIFICATION Spec
CONSTANTS
    Part = {"a"}
    MaxSequence = 3
    MaxRanges = 2
INVARIANTS
    AckedAreStored
    AcksAreSound
CHECK_DEADLOCK FALSE
