SPECIFICATION PoolSpec
CONSTANTS
    Threads = {t1}
    SizeBits = 6
    MinBlock = 1
    BaseSize = 2
    Requests = {1, 2}
    AllowGrowth = TRUE
    MaxRegions = 2
INVARIANT InsideRegion
