SPECIFICATION KeySpec
CONSTANTS
    None = None
    k1 = k1
    k2 = k2
    MaxTime = 2
    KeyIds = {k1, k2}
    DefaultId = k1
    MaxKeys = 2
    Overlaps = {1}
    DefaultOverlap = 1
    Slots = {1}
    AllowFaults = FALSE
INVARIANT PassiveKeyExpires
CHECK_DEADLOCK FALSE
