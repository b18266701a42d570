SPECIFICATION FairSpec
CONSTANTS
    u1 = u1
    Users = {u1}
    Messages = {m1, m2}
    Malformed = {}
    Workers = {w1}
    NoDelivery = NoDelivery
    None = None
    UserOf <- MCUserOf
    Corrupt = {m1}
    Deletes = {}
    DeleteUser <- MCDeleteUser
    Overlapping = TRUE
    FaultKinds = {"db", "crash", "signal", "connection", "publisher"}
    MaxFaults = 1
    MaxRestarts = 0
    CallFaultKinds = {"db", "s3", "client", "api"}
    MaxCallFaults = 1
CHECK_DEADLOCK FALSE
PROPERTY StatusSettles
PROPERTY Settled
