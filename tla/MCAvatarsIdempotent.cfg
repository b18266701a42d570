SPECIFICATION Spec
CONSTANTS
    u1 = u1
    Users = {u1}
    Messages = {m1}
    Malformed = {}
    Workers = {w1}
    NoDelivery = NoDelivery
    None = None
    UserOf <- MCUserOf
    Corrupt = {}
    Deletes = {}
    DeleteUser <- MCDeleteUser
    Overlapping = TRUE
    FaultKinds = {"db"}
    MaxFaults = 1
    MaxRestarts = 0
    CallFaultKinds = {}
    MaxCallFaults = 0
CHECK_DEADLOCK FALSE
INVARIANT IdempotentProcessing
