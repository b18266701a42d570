\* Two API replicas and a worker, started at once; one fault.
SPECIFICATION FairSpec
CONSTANTS
    Apis = {a1, a2}
    Workers = {w1}
    MaxRequests = 1
    MaxFaults = 1
INVARIANT ProcessesTypeOK
INVARIANT ServesOnTopology
INVARIANT NothingCutOff
PROPERTY EverybodyServes
PROPERTY WorkersReconnect
PROPERTY SignalsEndProcesses
