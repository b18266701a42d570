SPECIFICATION QueueSpec
CONSTANTS
    w1 = w1
    w2 = w2
    m1 = m1
    m2 = m2
    bad = bad
    Workers = {w1, w2}
    Messages = {m1, bad}
    Malformed = {bad}
    NoDelivery = NoDelivery
    FaultKinds = {"db", "crash", "signal", "connection", "publisher"}
    MaxFaults = 1
    MaxRestarts = 1
SYMMETRY MCSymmetry
CHECK_DEADLOCK FALSE
INVARIANT QueueTypeOK
INVARIANT LossOnlyByRestart
INVARIANT RetriesEarned
INVARIANT RetryBudget
INVARIANT ExclusiveHandling
PROPERTY LedgerSpec
