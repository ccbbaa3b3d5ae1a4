----------------------------- MODULE MC_Memwork -----------------------------
(* Task sections, memories and frequencies for the runs of Memwork. *)
EXTENDS Memwork

(* Every execution time and period, for the periods in P. *)
Shapes(P) == {s \in [wcet : 1..(Max(P) - 1), period : P] : s.wcet < s.period}
Task(w, p) == [wcet |-> w, period |-> p]

MC_Two == {1, 2}
MC_Three == {1, 2, 3}
MC_TwoTasks == [MC_Two -> Shapes(2..7)]
MC_ThreeTasks == [MC_Three -> Shapes(3..6)]
MC_Period11 == [MC_Three -> Shapes({11})]
MC_Tasks == MC_TwoTasks \cup MC_ThreeTasks \cup MC_Period11

(* Task sets that break a self-check of the queue, a deadline under DVS.   *)
MC_NoDelay == {<<Task(1, 3), Task(2, 5), Task(1, 4)>>}
MC_Easy == {<<Task(1, 4), Task(1, 5), Task(1, 6)>>}
MC_Slowed == {<<Task(9, 12), Task(1, 8)>>}

MC_AllModeMemReq == <<2, 1, 3>>
MC_AllModeCapacity == [m \in MemTypes |-> 3]

MC_Freqs == <<100, 50>>
MC_IdlePower == <<8000, 1300>>
MC_MemOrder == <<"dram", "nvram">>
MC_SlowNvram == [m \in MemTypes |-> IF m = "dram" THEN 100 ELSE 70]
MC_EqualMem == [m \in MemTypes |-> 100]
MC_Capacity == [m \in MemTypes |-> IF m = "dram" THEN 3 ELSE 4]
MC_MemReq2 == <<2, 1>>
MC_MemReq3 == <<2, 1, 2>>
MC_FixedMem == <<"dram", "dram", "nvram">>
MC_FullSpeed == <<0, 0, 0>>
MC_FixedFreq == <<0, 1, 0>>
=============================================================================
