SPECIFICATION Spec
CONSTANTS
    u1 = u1
    Users = {u1}
    Messages = {m1, m2}
    Malformed = {}
    Workers = {w1}
    NoDelivery = NoDelivery
    None = None
    UserOf <- MCUserOf
    Corrupt = {}
    Deletes = {d1}
    DeleteUser <- MCDeleteUser
    Overlapping = FALSE
    FaultKinds = {}
    MaxFaults = 0
    MaxRestarts = 0
    CallFaultKinds = {}
    MaxCallFaults = 0
CHECK_DEADLOCK FALSE
INVARIANT DeletedLeavesNothing
