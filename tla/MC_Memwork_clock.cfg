SPECIFICATION Spec
CONSTANTS
    Tasks <- MC_Three
    MemReq <- MC_MemReq3
    MaxCapacity <- MC_Capacity
    FixedMem <- MC_FixedMem
    UMod = 4096
    MemTypeOrder <- MC_MemOrder
    FreqScale <- MC_Freqs
    MemScale <- MC_EqualMem
    Confs <- MC_Easy
    Modes = {"all"}
    Chosen = {1}
    FixedFreq <- MC_FullSpeed
    IdlePower <- MC_IdlePower
    MaxSimtime = 60
INVARIANTS
    DeadlineOnClock
