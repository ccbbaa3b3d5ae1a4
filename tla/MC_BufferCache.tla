--------------------------- MODULE MC_BufferCache ---------------------------
EXTENDS BufferCache

(* Sizes of SEQMRU, FREEMRU and the segments: all segments in use, and    *)
(* the last one without a size of its own.                                 *)
SizesOf(s) == [i \in 0..LastSeg |-> s[i + 1]]
SizesOf5 == {SizesOf(<<1, 0, 1, 1, 2>>), SizesOf(<<1, 1, 1, 2, 0>>)}
SizesOf4 == {SizesOf(<<1, 0, 1, 1, 1>>), SizesOf(<<1, 1, 1, 1, 0>>)}

(* The states up to a renaming of the blocks. *)
Place(b) == IF b \in loopQ THEN LOOPQUEUE ELSE -1
MCView ==
    <<ALLsegInitSize,
      [t \in Lists |-> [k \in 1..Len(lrulist[t]) |-> Place(lrulist[t][k])]],
      ALLsegUsedSize, Cardinality(loopQ), Cardinality(Real \cup Ghost),
      rLRUsegLoopQUsedSum, allocBufInCache, allocBufInGhost, fault>>
=============================================================================
