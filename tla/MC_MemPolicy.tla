---------------------------- MODULE MC_MemPolicy ----------------------------
(* Three tasks that do not all fit in one memory type, DRAM smaller than   *)
(* NVRAM, and UMod just large enough for no sum to wrap.                   *)
EXTENDS MemPolicy

MC_Tasks == 1..3
MC_MemReq == <<1, 2, 3>>
MC_MaxCapacity == [m \in MemTypes |-> IF m = "dram" THEN 3 ELSE 5]
MC_FixedMem == <<"dram", "nvram", "nvram">>
=============================================================================
