\* What must eventually happen to names, media, the database, files, cron jobs and events.
CONSTANTS
    MediaCallers = {"a"}
    OrphanGrace = 1
    OutputTTL = 1
    SignedTTL = 1
    RefreshMargin = 0
    MaxObjectFaults = 1
    LegacyScopes <- TheScopes
    LargestID = 5
    RangeSize = 2
    MaxDBFaults = 2
    Named = {"n"}
    Tasks = {"t1", "t2"}
    MaxFailures = 3
    FileOps = {1, 2}
    FileBindings = {1, 2}
    MaxContents = 3
    MaxBackups = 1
    MaxBackupBytes = 1
    MaxMeddling = 0
    FileRoles <- TheRoles
    Platforms = {"cli", "qq"}
    Source = "cli"
    OutputIDs <- TheOutputs
    CronLimits <- TheLimits
    Jobs = {"j"}
    Runs = {"r1", "r2"}
    MaxChanges = 2
    Keys = {"k"}
    Requests = {"r1"}
    LLMWorkers = {"w"}
    Addressees = {"a", "b"}
    QueueSize = 1
    MaxRequests = 2
    MaxElnisFaults = 1
    MaxRestarts = 1
SPECIFICATION SuiteSpec
CHECK_DEADLOCK FALSE
INVARIANTS
    DataSafe
PROPERTIES
    ConvertedWhole
    DataProgress
    BackgroundProgress
