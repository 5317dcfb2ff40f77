CONSTANTS
    a1 = a1  a2 = a2  a3 = a3  x1 = x1  x2 = x2  r1 = r1  r2 = r2
    Client = {c1, c2}
    Approver = {a1, a2}
    Context = {x1}
    RuleId = {r1, r2}
    RuleInput <- TwoOfTwo
    DefaultRequired = 2
    NoRule = NoRule  NoEval = NoEval  NoCall = NoCall
    Workflow = {w1, w2}
    MaxPending = 1
    Expiration = 1
    CleanupInterval = 1
    CrossChain = FALSE
SPECIFICATION Spec
INVARIANT PendingLimitRespected
