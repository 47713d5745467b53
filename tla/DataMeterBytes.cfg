SPECIFICATION Spec
CONSTANTS
    None = None
    Devices = {d1}
    DayLength = 3
    AnnounceHold = 1
    Terms <- ByteTerms
    CounterFlush = 2
    Merging = FALSE
    MaxAdvance = 1
    MaxBytes = 2
    MaxTime = 4
    MaxEdits = 2
    MaxCrashes = 1
INVARIANTS
    NeverOvercharged
    CountsEveryByte
    HeldWhenDue
    HeldOnlyWhenDue
CHECK_DEADLOCK FALSE
