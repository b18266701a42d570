\* Five pings at a time against a threshold of two: late failures can trip it again.
SPECIFICATION FairSpec
CONSTANTS
    Callers = {c1, c2, c3, c4, c5}
    MaxFailures = 2
    Cooldown = 2
INVARIANT BreakerTypeOK
INVARIANT LateTripsBounded
PROPERTY TripsOnStreak
PROPERTY ClosesAgain
