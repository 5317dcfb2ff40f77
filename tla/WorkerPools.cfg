CONSTANTS
    t1 = t1  t2 = t2
    PoolTask = {t1, t2}
    PoolPriority <- Priorities
    PoolRetries <- Retries
    MinWorkers = 1  MaxWorkers = 2
    MaxThreads = 4  MaxCrashes = 1
    NoTask = NoTask
    j1 = j1  j2 = j2  j3 = j3  j4 = j4
    Job = {j1, j2, j3, j4}
    JobPriority <- JobPriorities
    PoolSize = 2  MaxQueueSize = 1
    LoadThreshold = 20  MaxErrors = 1
    NoJob = NoJob
    q1 = q1  q2 = q2 
    BalancedPool = {q1, q2}
    BalancedTask = {u1, u2}
    PoolThreads <- Sizes
    LoadLimit = 80  TaskRetries = 1
    MaxSubmits = 2  MaxDeaths = 1
    NoTaskId = NoTaskId
SPECIFICATION MCSpec
INVARIANTS PoolsTypeOK AttemptsWithinRetries SchedulerTracksPool OverfullOnlyByUrgent OnePlacePerTask
           LoadNeverUnderestimated
PROPERTIES ShutdownWaitsForTasks
CHECK_DEADLOCK FALSE
