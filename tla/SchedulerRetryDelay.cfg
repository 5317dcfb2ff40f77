CONSTANTS
    t1 = t1  t2 = t2  t3 = t3
    Task = {t1, t2, t3}
    MaxConcurrent = 2
    Priority <- MCPriority
    Retries <- MCRetries
    Dependencies <- Chain
    Registered = {t1, t2, t3}
    MaxAsleep = 0
SPECIFICATION Spec
PROPERTY RetryWaitsForDelay
