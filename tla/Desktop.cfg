SPECIFICATION MCSpec
CONSTANTS
    Pids = {p1, p2, p3}
    NoPid = NoPid
    MaxAttempts = 2
    Overlap = FALSE
    v1 = v1
    v2 = v2
    n1 = n1
    n2 = n2
    ipv4 = ipv4
    setByHand = setByHand
    c1 = c1
    c2 = c2
    s1 = s1
    s2 = s2
    StaleMs = 6
    ReportStaleMs = 4
    StatusMs = 4
    Watchers = {v1, v2}
    Networks = {n1, n2}
    IPv4 = ipv4
    SetAddress = setByHand
    RouterCallers = {c1, c2}
    RunLen = 2
    Tolerance = 2
    MaxStray = 2
    MaxGap = 2
    BinEdges <- ThreeEdges
    Readable = {0, 1, 2, 3, 5, 8}
    Quantiles = {50, 95, 99}
    Streams = {s1, s2}
    MaxEras = 2
    MaxReloads = 1
    MaxWindows = 2
    MaxUpsets = 2
    MaxPanels = 1
    MaxEdits = 1
    MaxSamples = 3
    MaxMounts = 3
    MaxTime = 8
    MaxReadings = 3
    MaxMinutes = 3
    MaxRuns = 2
    MaxBytes = 2
INVARIANTS
    SingleOwner
    ReadoutIsTrue
    AnnouncedOnce
    ReachedWhereItAnswers
    SeriesIsWhole
    OutagesAreTold
    FiguresAreOfTheReadings
PROPERTIES
    CrashNeverWedges
    WatchedIsAnswered
    GoodSessionIsTaken
    EitherSourceServes
    RunsEndWithTheirPanel
CHECK_DEADLOCK FALSE
