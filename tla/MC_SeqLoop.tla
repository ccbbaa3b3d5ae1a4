----------------------------- MODULE MC_SeqLoop -----------------------------
(* Four files of four blocks, a table of three units. *)
EXTENDS SeqLoop, TLC

CONSTANTS f1, f2, f3, f4

MC_Vnodes == {f1, f2, f3, f4}
MC_IRGs   == {2}
Files     == Permutations(MC_Vnodes)
=============================================================================
