SPECIFICATION ServicesSpec

CONSTANTS
    a1 = a1
    a2 = a2
    u1 = u1
    t1 = t1
    t2 = t2
    c1 = c1
    k1 = k1
    h1 = h1
    h2 = h2
    p1 = p1
    p2 = p2
    r1 = r1
    r2 = r2
    w1 = w1
    x = x
    g = g
    People = {a1, a2, u1}
    Founders = {a1, a2}
    Tokens = {t1, t2}
    Codes = {c1}
    KeyHashes = {k1}
    Handlers = {h1, h2}
    Focuses <- AdminWork
    MaxEpoch = 2
    MaxJobs = 1
    MaxCuts = 1
    Jobs = {1, 2, 3}
    Foreign = {9}
    Retains = {1, 2}
    Times = {1, 2}
    MaxLost = 2
    ConfigFiles = {"compose", "auth"}
    TemplateFile = "compose"
    AuthFile = "auth"
    MaxWrites = 2
    MaxArchives = 2
    MaxChanges = 1
    Pages = {r1, r2}
    Paths = {p1, p2}
    Editors = {w1}
    MaxEntries = 1
    MaxSettings = 2
    Events = {1, 2}
    Models = {"a", "b"}
    MaxTime = 3
    Span = 2
    Overlap = 1
    Reconcile = 2
    PageSize = 1
    MaxEdits = 3
    Bucket = 2
    TimingSpan = 5
    TimingOverlap = 1
    TimingReconcile = 4
    Keep = 1
    LastTime = 6
    MaxSamples = 2
    Callers = {"c1", "c2", "c3"}
    MaxQueries = 4
    CacheOn = TRUE
    Codex = {x}
    Antigravity = {g}
    Visits = {"v1"}
    TTL = 0
    PoolTTL = 0
    Minute = 1
    Pause = 1
    LastClock = 2
    MaxTurns = 1
    MaxEnabled = 1
    ChannelList <- TwoChannels
    ModelsOf <- ThreeModels
    AliasesOf <- AliasForms
    Capped = {"n1"}
    Captures = {0, 1, 2}
    Legacy = {0}
    Messages = {"m1", "m2"}
    Identified = {0, 1}
    KeepNewest = 1
    MaxMishaps = 1
    FormAdmins = {a1, a2, u1}
    MaxRevision = 3
    MaxPolicyFaults = 2
    HighFor = 3
    RecoverFor = 2
    MaxGap = 2
    Gaps = {1, 2, 3}
    Limit = 3

INVARIANTS
    ServicesTypeOK
    AdminRemains
    CredentialsEnd
    BackupsKept
    RestoredIsWhole
    CachedReadsHold
    StatisticsAreRight
    QuotaHonest
    RoutingSettled
    CapturesKept
    PolicyFollowsRow
    MessagesWithinLimit

PROPERTIES
    PauseIsEarned

CHECK_DEADLOCK FALSE
