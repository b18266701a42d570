\* The processor with the bounds of the code; two values per option; two users, two ids.
SPECIFICATION Spec
CONSTANTS
    MaxOriginalSize = 512
    ThumbSize = 128
    MaxDimension = 4096
    Sizes <- MCSizes
    Unset = Unset
    Unreadable = Unreadable
    Empty = Empty
    v1 = v1
    v2 = v2
    Values = {v1, v2}
    Limits <- MCLimits
    DefaultString = v1
    DefaultMaxUpload = 5
    None = None
    p1 = p1
    p2 = p2
    People = {p1, p2}
    i1 = i1
    i2 = i2
    Ids = {i1, i2}
    SizeOf <- MCSizeOf
    MaxCalls = 5
CHECK_DEADLOCK FALSE
INVARIANT AvatarIsScaled
INVARIANT Precedence
INVARIANT StoresAgree
PROPERTY AvatarIsStable
