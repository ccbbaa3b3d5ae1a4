SPECIFICATION Spec
CONSTANTS
    Blocks = {b1, b2, b3, b4, b5, b6, b7, b8, b9, b10, b11}
    cachesize = 5
    NUMofLRUSEGs = 3
    MINIMUMLRUSIZE = 1
    InitSizes <- SizesOf5
VIEW MCView
INVARIANTS TypeOK BuffersOnce BuffersKept FaultsOnlyAtEqualGains SegmentsBounded
PROPERTIES MissKeepsMinimum IsPartitionedCache
