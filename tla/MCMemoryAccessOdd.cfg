\* a session with an odd ID
CONSTANTS
    WordBytes = 4
    BufferSize = 16
    LengthRange = 16
    Sides = {"tx"}
    Sessions = {1}
    Starts = {7, 8, 11}
    BypassDepth = 2
    Lengths = {2, 5, 9, 11}
    MaxBytes = 11
    MaxReads = 1
    ExactFit = FALSE
    NoByte = NoByte
SPECIFICATION Spec
INVARIANTS
    ReadsWhatWasWritten
CHECK_DEADLOCK FALSE
