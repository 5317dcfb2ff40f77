CONSTANTS
    t1 = t1  t2 = t2  t3 = t3
    Task = {t1, t2, t3}
    MaxConcurrent = 2
    Priority <- Urgency
    Retries <- MCRetries
    Dependencies <- NoDependencies
    Registered = {t1, t2, t3}
    MaxAsleep = 1
SPECIFICATION FairSpec
INVARIANT OverrunOnlyByRetries
PROPERTY RunnableIsStarted
