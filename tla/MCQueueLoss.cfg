SPECIFICATION QueueSpec
CONSTANTS
    w1 = w1
    w2 = w2
    m1 = m1
    m2 = m2
    bad = bad
    Workers = {w1}
    Messages = {m1}
    Malformed = {}
    NoDelivery = NoDelivery
    FaultKinds = {"db", "crash", "signal", "connection", "publisher"}
    MaxFaults = 0
    MaxRestarts = 1
CHECK_DEADLOCK FALSE
INVARIANT NoMessageLost
