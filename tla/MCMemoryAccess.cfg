\* one session with an even ID; segments that cross the end of the buffer
CONSTANTS
    WordBytes = 4
    BufferSize = 16
    LengthRange = 16
    Sides = {"rx", "tx"}
    Sessions = {2}
    Starts = {7, 12, 13}
    BypassDepth = 1
    Lengths = {2, 9, 11}
    MaxBytes = 11
    MaxReads = 1
    ExactFit = FALSE
    NoByte = NoByte
SPECIFICATION FairSpec
INVARIANTS
    ReadsWhatWasWritten
PROPERTIES
    AllIsDelivered
CHECK_DEADLOCK FALSE
