SPECIFICATION Spec
CONSTANTS
    Tasks <- MC_Tasks
    MemReq <- MC_MemReq
    MaxCapacity <- MC_MaxCapacity
    FixedMem <- MC_FixedMem
    UMod = 16
INVARIANTS
    MemPolicyTypeOK
    LedgerCovers
    LedgerExact
    CapacityRespected
    RevokeSafe
    HomeStillFits
