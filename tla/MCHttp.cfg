\* A bucket of two tokens, two ticks each; two connections, four requests.
SPECIFICATION HttpSpec
CONSTANTS
    Capacity = 2
    Interval = 2
    MaxWindow = 4
    c1 = c1
    c2 = c2
    Connections = {c1, c2}
    MaxUploadBytes <- MCMaxUploadBytes
    DefaultMaxUpload = 2
    Overhead = 1
    Requests <- MCRequests
    Contents <- MCContents
    MaxRequests = 4
SYMMETRY MCSymmetry
CHECK_DEADLOCK FALSE
INVARIANT RateLimiterTypeOK
INVARIANT RateBounded
INVARIANT HttpTypeOK
INVARIANT UploadsAgree
INVARIANT LimitIsExact
PROPERTY RetriesCostNothing
