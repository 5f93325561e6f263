\* What must eventually happen in signals, in the hook host and on the chat platforms.
CONSTANTS
    QTasks = {"a1", "a2", "n1"}
    KeyOf <- TheKeys
    Draining = {"a2", "n1"}
    NoKey = "none"
    Capacity = 1
    Concurrency = 2
    Conns = {"f"}
    Forwarding = {"f"}
    DrainConns = {"f"}
    Emissions = {"e1"}
    Processes = {"p1", "p2"}
    NoProcess = "none"
    RunTasks = {"r1", "r2"}
    Stoppers = {"closer"}
    Closer = "closer"
    Restarting = {"stops"}
    MaxRestartTasks = 2
    Instances = {"a1"}
    HookOf <- TheHooks
    Events = {"e", "f"}
    Leases = {1, 2}
    Nowhere = "none"
    RouteWorlds <- TheRouteWorlds
    SharedKeys = {1, 2}
    Sizes = {1}
    TTLs = {0, 1}
    MaxEntries = 2
    MaxSize = 3
    Horizon = 2
    Callers = {"c"}
    LeaseTTL = 2
    CleanupRetries = 1
    MediaHorizon = 3
    MediaFaults = 2
    HookFiles <- FileVersions
    PipeCalls = {"m"}
    HookOps = {"o1"}
    PipeScripts <- Plays
    RuleCases <- CaseList
    Plans <- ThePlans
    Actors = {"user"}
    RunnerWorlds = {{"stop", "faults"}}
    UserMaxRisk = 3
    ConfirmRisk = 3
    Folders = {"a", "c", "g"}
    GoFolders = {"g"}
    NameOf <- SkillNames
    BuiltinNames = {"b"}
    SkillOps = {"p", "q"}
    SkillScripts <- TheScripts
    MaxRevision = 2
    BuiltinTools <- Builtins
    SkillGroups <- Groups
    CatalogJobs = {1}
    CatalogScripts <- TheWishes
    MaxReloads = 1
    MaxTagEdits = 2
    NRequests = 2
    MaxSockets = 1
    MaxEvents = 0
    MessageIDs = {1}
    MaxMessages = 1
    MaxDials = 2
    Base = 2
    Cap = 2
    MaxQQSessions = 2
    MaxQQEvents = 2
    MaxQQTasks = 1
    QQSenders = {}
    MaxUpdates = 2
    Operations = {}
    MaxBots = 0
    Posts = {1, 2}
    Posting <- Outs
    Lifetime = 2
    MaxTokens = 2
    MaxTicks = 1
SPECIFICATION SuiteSpec
CHECK_DEADLOCK FALSE
PROPERTIES
    SignalProgress
    HookProgress
    PlatformProgress
