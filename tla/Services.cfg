CONSTANTS
    a1 = a1  a2 = a2  x1 = x1  x2 = x2  r1 = r1  r2 = r2  r3 = r3
    Client = {c1}
    Approver = {a1, a2}
    Context = {x1, x2}
    RuleId = {r1, r2, r3}
    RuleInput <- ThreeRules
    DefaultRequired = 2
    NoRule = NoRule  NoEval = NoEval
    CronId = {i1, i2}
    MaxConcurrentRuns = 2  ErrorRetryCount = 1
    MaxObjects = 2  MaxRetryTimers = 2  MaxStops = 1
    InitialSize = 4  MaxSize = 7  GrowthFactor = 2  BlockSize = 2
    Request = {1, 2, 3}
    CacheKey = {k1, k2, k3}
    EntrySize = {1, 2}
    MaxEntries = 2  MaxMemory = 3  MaxSets = 2
    Sender = {s1, s2}
    MaxNonce = 3  NoNonce = NoNonce
    StreamBatch = 2  StreamQueue = 3  StreamRetries = 1
    MaxPoints = 7
    Source = {o1, o2}
    Collection = {d1, d2}
    MaxRequests = 1  MaxAttempts = 2  RateLimit = 1
    MaxEdits = 4  NoSource = NoSource  NoCollect = NoCollect
    p1 = p1  p2 = p2  p3 = p3
    PluginId = {p1, p2, p3}
    RegistryCaller = {g1, g2}
    PluginDeps <- Dependencies
    MaxPlugins = 2  NoPlugin = NoPlugin
    Allocator = {l1, l2}
    Amount = {1, 2}
    Measured = {0, 1}
    Limits = {1, 4}
SPECIFICATION ServicesSpec
INVARIANTS ServicesTypeOK EvaluationExact OneRunPerId BlocksDisjoint NoNonceGap
           SentInOrder SteadySourcesCountedOnce LimitsOverrunOnlyByConcurrency
PROPERTIES RunsAgainAndAgain
CHECK_DEADLOCK FALSE
