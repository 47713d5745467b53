SPECIFICATION Spec
CONSTANTS
    None = None
    Devices = {d1, d2}
    DayLength = 3
    AnnounceHold = 1
    Terms <- ClockTerms
    CounterFlush = 2
    Merging = TRUE
    MaxAdvance = 0
    MaxBytes = 0
    MaxTime = 3
    MaxEdits = 3
    MaxCrashes = 1
SYMMETRY Same
INVARIANTS
    BoundariesAreCurrent
    AnnouncementsRetire
PROPERTIES
    StandingTermsFollow
CHECK_DEADLOCK FALSE
