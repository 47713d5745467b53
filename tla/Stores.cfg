SPECIFICATION Spec
CONSTANTS
    None = None
    ida = ida
    idb = idb
    idc = idc
    macm = macm
    macn = macn
    hash = hash
    g1 = g1
    d1 = d1
    d2 = d2
    RingSize = 3
    Phases = {0, 2, 3}
    Jitter = 3
    PollPhases = {0}
    MinuteLen = 2
    YearLen = 4
    ViewLen = 6
    Tearing = TRUE
    MaxAwait = 1
    DishFlags = {"noEthernetLink"}
    RouterFlags = {"heat"}
    Latched = "noEthernetLink"
    Retention = 0
    DishReports = {"heat"}
    Groups = {g1}
    Devices = {d1, d2}
    GroupTerms <- PooledTerms
    OwnTerms <- SingleTerms
    DayLength = 2
    AnnounceHold = 1
    Merging = TRUE
    Identities <- ThreeIds
    Macs = {macm, macn}
    MacOf <- MacOfThree
    HashOf <- HashOfThree
    MaxGap = 1
    Rate = 1
    MonthLen = 2
    MonthsKept = 0
    Returning = {"merged"}
    Hosts <- FourHosts
    MaxSeconds = 4
    MaxBoots = 1
    MaxRecorded = 5
    MaxKills = 2
    MaxHours = 1
    MaxRestarts = 1
    MaxTicks = 3
    MaxRepaints = 1
    MaxBytes = 1
    MaxDays = 2
    MaxEdits = 3
    MaxLife = 5
    MaxRolls = 2
INVARIANTS
    DrainIsExact
    EpisodesFollowDevices
    OdometersAreExact
    TellsWhatIsOnRecord
    GroupsGovern
PROPERTIES
    MinutesAreKept
    GroupsShareAClock
CHECK_DEADLOCK FALSE
