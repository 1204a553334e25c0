SPECIFICATION Spec
CONSTANTS
    Screens = {"schedules", "item", "lists", "drive", "card", "query", "members"}
    RuleIds = {"r1", "r2"}
    Day = 2
    MaxDays = 1
    MaxRun = 3
    MaxRules = 2
    MaxSends = 2
    Saved <- LongNight
    MaxEdits = 1
    MaxOthers = 1
    MaxMarks = 3
    MaxReads = 3
    MaxTurns = 3
    Oldest = 4
    MaxRows = 5
    Page = 2
    Workers = 2
    MaxListReads = 3
    MaxPages = 1
    Parts = {"panel", "server"}
    Remote = "server"
    MaxCommands = 2
    MaxSamples = 1
    MaxPanel = 1
    MaxRequests = 3
    MaxAttempts = 3
    MaxChanges = 1
    MaxAways = 1
    Bounds <- Usual
    StaleAfter = 2
    Timeout = 2
    Interval = 2
    RetryAfters = {3}
    MaxTime = 4
    MaxFailures = 1
    People = {"a", "b", "c"}
    Places = {1}
    MaxWrites = 2
    MaxLinks = 2
    Casts <- UsualCasts
INVARIANTS
    FormAgreesWithServer
    JournalIsContiguous
    StopIsLast
    Accounted
    ActsOnWhatWasSeen
    FreshIsRecent
PROPERTIES
    ReplacesWhatWasSeen
    RepeatedOnSight
    WritesOverWhatWasSeen
    StartSeesSettings
    SomeoneManages
    RevivedOnSight
    GrantedByStanding
VIEW OnScreen
CHECK_DEADLOCK FALSE
