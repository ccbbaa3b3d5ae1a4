---------------------------- MODULE MC_LoopQueue ----------------------------
(* A heap of three levels, and two periods, so that periods are equal. *)
EXTENDS LoopQueue, TLC

CONSTANTS b1, b2, b3, b4, b5

MC_Blocks == {b1, b2, b3, b4, b5}
MC_IRGs   == {1, 2}
Symmetric == Permutations(MC_Blocks)
=============================================================================
