SPECIFICATION Spec
CONSTANTS
    Tasks <- MC_Three
    MemReq <- MC_AllModeMemReq
    MaxCapacity <- MC_AllModeCapacity
    FixedMem <- MC_FixedMem
    UMod = 4096
    MemTypeOrder <- MC_MemOrder
    FreqScale <- MC_Freqs
    MemScale <- MC_SlowNvram
    Confs <- MC_Tasks
    Modes = {"one", "all"}
    Chosen = {1, 2, 3, 4, 5, 6}
    FixedFreq <- MC_FixedFreq
    IdlePower <- MC_IdlePower
    MaxSimtime = 42
INVARIANTS
    TypeOK
    JobDeadline
    FeasibleQueue
    NoMissAtFixedSpeed
    QueueSound
    EveryTickCharged
PROPERTIES
    NoTaskLost
    LedgerSpec
    Termination
