SPECIFICATION Spec
CONSTANTS
    Tasks <- MC_Two
    MemReq <- MC_MemReq2
    MaxCapacity <- MC_Capacity
    FixedMem <- MC_FixedMem
    UMod = 4096
    MemTypeOrder <- MC_MemOrder
    FreqScale <- MC_Freqs
    MemScale <- MC_EqualMem
    Confs <- MC_Slowed
    Modes = {"one"}
    Chosen = {1, 2, 6}
    FixedFreq <- MC_FullSpeed
    IdlePower <- MC_IdlePower
    MaxSimtime = 60
INVARIANTS
    NoDeadlineMissed
