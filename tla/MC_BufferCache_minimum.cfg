SPECIFICATION Spec
CONSTANTS
    Blocks = {b1, b2, b3, b4, b5, b6, b7, b8, b9}
    cachesize = 4
    NUMofLRUSEGs = 3
    MINIMUMLRUSIZE = 1
    InitSizes <- SizesOf4
VIEW MCView
PROPERTY OthersKeepMinimum
