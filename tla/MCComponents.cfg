\* Every invariant and action property of the components around the turn, each on a small instance.
CONSTANTS
    Scopes = {"x"}
    Sessions = {"s1", "s2"}
    Timed = {"x"}
    MaxBindings = 2
    MaxSchedules = 4
    MaxCalls = 1
    Nobody = Nobody
    Worlds <- TheWorlds
    Named = {"n"}
    Tasks = {"t1", "t2"}
    MaxFailures = 3
    Platforms = {"cli", "qq"}
    Source = "cli"
    OutputIDs <- TheOutputs
    CronLimits <- TheLimits
    Jobs = {"j"}
    Runs = {"r1", "r2"}
    MaxChanges = 2
    Keys = {"k"}
    Requests = {"r1", "r2"}
    LLMWorkers = {"w"}
    Addressees = {"a", "b"}
    QueueSize = 1
    MaxRequests = 2
    MaxElnisFaults = 1
    MaxRestarts = 1
    QTasks = {"a1", "a2", "n1", "n2"}
    KeyOf <- TheKeys
    Draining = {"a2", "n1"}
    NoKey = "none"
    Capacity = 2
    Concurrency = 2
    Conns = {"h", "f"}
    Forwarding = {"f"}
    DrainConns = {"h"}
    Emissions = {"e1"}
    Processes = {"p1", "p2"}
    NoProcess = "none"
    RunTasks = {"r1"}
    Stoppers = {"s", "closer"}
    Closer = "closer"
    Restarting = {"stops"}
    MaxRestartTasks = 2
    Instances = {"a1", "b1"}
    HookOf <- TheHooks
    Events = {"e", "f"}
    Leases = {1}
    Nowhere = "none"
    RouteWorlds <- TheRouteWorlds
    SharedKeys = {1, 2, 3}
    Sizes = {1, 2}
    TTLs = {0, 1}
    MaxEntries = 2
    MaxSize = 3
    Horizon = 1
    Callers = {"c", "d"}
    LeaseTTL = 2
    CleanupRetries = 1
    MediaHorizon = 3
    MediaFaults = 2
    HookFiles <- FileVersions
    PipeCalls = {"m", "n"}
    HookOps = {"o1", "o2", "o3"}
    PipeScripts <- Plays
    RuleCases <- CaseList
    Adapters <- TheAdapters
    Terminals = {"tty"}
    AppFaults = 1
    AppCallers = {"chat", "cron"}
    AppCalls = 1
    MediaCallers = {"a", "b"}
    OrphanGrace = 1
    OutputTTL = 1
    SignedTTL = 1
    RefreshMargin = 0
    MaxObjectFaults = 0
    DialogueAttempts = 2
    CallIDs = {"c", "d"}
    ToolNames = {"t"}
    MaxExchanges = 2
    MaxRounds = 0
    MaxInputs = 5
    ModelOperations <- TheOperations
    ModelAnswers <- TheAnswers
    MaxRetries = 1
    InitialDelay = 2
    MaxDuration = 5
    ToolsEnabled = TRUE
    StreamFaults = 1
    NRequests = 2
    MaxSockets = 2
    MaxEvents = 1
    MessageIDs = {0, 1}
    MaxMessages = 2
    MaxDials = 2
    Base = 2
    Cap = 3
    MaxQQSessions = 2
    MaxQQEvents = 3
    MaxQQTasks = 3
    QQSenders = {1}
    Posts = {1, 2}
    Posting <- Outs
    Lifetime = 2
    MaxTokens = 2
    MaxTicks = 1
    MaxUpdates = 3
    Operations = {1}
    MaxBots = 1
    CliConns = {"c", "peer"}
    CliClient = "c"
    CliTasks <- TheCliTasks
    CliWorlds <- TheCliWorlds
    MaxCliFaults = 1
    FileOps = {1, 2, 3}
    FileBindings = {1, 2}
    MaxContents = 3
    MaxBackups = 1
    MaxBackupBytes = 1
    MaxMeddling = 1
    FileRoles <- TheRoles
    Texts <- TheTexts
    EditChoices <- TheEdits
    LineLists <- TheLists
    ContextLines = {0, 1}
    RawTexts <- TheRaw
    MaxFileLines = 5
    ReadLimit = 2
    Plans <- ThePlans
    Actors = {"user", "superadmin"}
    RunnerWorlds = {{"stop"}, {"faults"}, {"promote"}, {"directive"}}
    UserMaxRisk = 3
    ConfirmRisk = 3
    Folders = {"a", "c", "g"}
    GoFolders = {"g"}
    NameOf <- SkillNames
    BuiltinNames = {"b"}
    SkillOps = {"p", "q"}
    SkillScripts <- TheScripts
    MaxRevision = 2
    BuiltinTools <- Builtins
    SkillGroups <- Groups
    CatalogJobs = {1, 2}
    CatalogScripts <- TheWishes
    MaxReloads = 1
    MaxTagEdits = 2
    MaxMemory = 2
    UserFiles = 1
    MemoryTexts = {"x", "y"}
    UserChanges <- TheUserChanges
    MemoryWorlds <- TheMemoryWorlds
    MemoryOwners = {"a", "b"}
    CoreLimit = 1
    NormalLimit = 2
SPECIFICATION SuiteSpec
VIEW SuiteView
CHECK_DEADLOCK FALSE
INVARIANTS
    SessionsSafe
    BackgroundSafe
    HostSafe
    MediaSafe
    DialogueSafe
    PlatformsSafe
    FilesSafe
    ToolsSafe
PROPERTIES
    ServiceSteps
    TalkSteps
