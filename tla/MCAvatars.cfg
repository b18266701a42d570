SPECIFICATION Spec
CONSTANTS
    u1 = u1
    Users = {u1}
    Messages = {m1, m2}
    Malformed = {}
    Workers = {w1}
    NoDelivery = NoDelivery
    None = None
    UserOf <- MCUserOf
    Corrupt = {}
    Deletes = {}
    DeleteUser <- MCDeleteUser
    Overlapping = TRUE
    FaultKinds = {"db", "crash", "signal", "connection", "publisher"}
    MaxFaults = 1
    MaxRestarts = 1
    CallFaultKinds = {"db", "s3", "client", "api"}
    MaxCallFaults = 2

SYMMETRY MCSymmetry
CHECK_DEADLOCK FALSE
INVARIANT TypeOK
INVARIANT ReadyIsOnePicture
INVARIANT SourceKept
INVARIANT RefusedLeavesNothing
INVARIANT NoRowForgotten
INVARIANT NoRework
PROPERTY QueueSpec
