------------------------------ MODULE SegSizes ------------------------------
(***************************************************************************)
(* How main of the UBM simulator divides the buffers that the options -r   *)
(* (sequential references) and -m (free buffers) leave to the other        *)
(* references between their five LRU segments: ALLsegInitSize[].           *)
(*                                                                         *)
(* Everything is unsigned: W wraps at UMod.                                *)
(***************************************************************************)
EXTENDS Integers, Sequences

CONSTANTS
    UMod,         \* 2^32 in the code
    FirstSize,    \* 30: the first segment of a small cache
    LargeSegment  \* 50: a cache is large if its first segment would be larger

ASSUME SizingAssumption ==
    UMod \in Nat \ {0} /\ FirstSize \in Nat \ {0} /\ LargeSegment \in Nat \ {0}

W(x) == x % UMod

(* How many buffers there are for the other references. *)
ForOthers(cachesize, r, m) == W(cachesize - r - m)

(* (int)((double)n * LRUsegRatio[i] + 0.5), the ratio given in tenths.     *)
Rounded(n, tenths) == (n * tenths + 5) \div 10

(* n * 0.1 + 0.5 > 50 *)
IsLarge(n) == n + 5 > 10 * LargeSegment

(* 10, 10, 20 and 20%, and the rest. *)
LargeSizes(n) ==
    LET s == Rounded(n, 1)
        t == Rounded(n, 2)
    IN  <<s, s, t, t, W(n - 2 * s - 2 * t)>>

(* Each twice the one before, as long as that fits besides the "used" ones *)
(* of -r and -m; the last of them takes the rest, or gives what lacks.     *)
SmallSizes(cachesize, used) ==
    LET two   == W(used + 3 * FirstSize)
        three == W(two + 4 * FirstSize)
        four  == W(three + 8 * FirstSize)
    IN  IF three > cachesize
        THEN <<FirstSize, W(2 * FirstSize + cachesize - two), 0, 0, 0>>
        ELSE IF four > cachesize
        THEN <<FirstSize, 2 * FirstSize, W(4 * FirstSize + cachesize - three), 0, 0>>
        ELSE <<FirstSize, 2 * FirstSize, 4 * FirstSize, 8 * FirstSize, W(cachesize - four)>>

(* The sizes of OTHLRU0 to OTHLRU4. *)
Segments(cachesize, r, m) ==
    LET n == ForOthers(cachesize, r, m)
    IN  IF IsLarge(n) THEN LargeSizes(n) ELSE SmallSizes(cachesize, W(r + m))

(* ALLsegInitSize[] from SEQMRU to OTHLRU4. *)
SegInitSize(cachesize, r, m) ==
    [i \in 0..6 |-> CASE i = 0 -> r
                      [] i = 1 -> m
                      [] OTHER -> Segments(cachesize, r, m)[i - 1]]

----------------------------------------------------------------------------
SumOf(s) == s[1] + s[2] + s[3] + s[4] + s[5]

(* The message "the sum of LRU segments is different" of main is never     *)
(* printed, whatever the options: with wrap-round the sizes always add up. *)
SumAgrees(cachesize, r, m) ==
    W(SumOf(Segments(cachesize, r, m))) = ForOthers(cachesize, r, m)

(* The segments really make up the cache: no size has wrapped round, the   *)
(* two that pgref and checkAvgMarginalGain rely on are not empty, and only *)
(* the last ones are.                                                      *)
SizesFit(cachesize, r, m) ==
    LET s == Segments(cachesize, r, m)
    IN  /\ r + m + SumOf(s) = cachesize
        /\ \A i \in 1..5 : s[i] \in 0..cachesize
        /\ s[1] > 0 /\ s[2] > 0
        /\ \A i \in 1..4 : s[i] = 0 => s[i + 1] = 0
=============================================================================
