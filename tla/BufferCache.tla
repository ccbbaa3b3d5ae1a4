---------------------------- MODULE BufferCache ----------------------------
(***************************************************************************)
(* The buffer cache of the UBM simulator: pgref with its LRU lists, the    *)
(* ghost buffers, and the choice of the partition a victim is taken from.  *)
(*                                                                         *)
(* A buffer is known by the block it holds, and its `where' is the list it *)
(* is in.  The detector's answer is any of its three, the block loopQout   *)
(* takes is any of the queue's, and comparisons of marginal gains and      *)
(* periods come out either way: the detector is modelled in SeqLoop, the   *)
(* queue in LoopQueue.                                                     *)
(***************************************************************************)
EXTENDS Integers, Sequences, FiniteSets, SequencesExt

CONSTANTS
    Blocks,         \* disk blocks
    cachesize,      \* option -s
    NUMofLRUSEGs,   \* 5 in the code
    MINIMUMLRUSIZE, \* 10 in the code
    InitSizes       \* the sizes main may give the partitions and segments

SEQMRU    == 0
FREEMRU   == 1
OTHLRU0   == 2
OTHLRU1   == 3
REALLRU   == 2 + NUMofLRUSEGs
FREEGHOST == 2 + NUMofLRUSEGs
GHOSTLRU0 == 3 + NUMofLRUSEGs
MAXLRU    == REALLRU + NUMofLRUSEGs + 1
LOOPQUEUE == MAXLRU

Lists     == 0..(MAXLRU - 1)
Segments  == OTHLRU0..(REALLRU - 1)
GhostSegs == GHOSTLRU0..(MAXLRU - 1)
LastSeg   == REALLRU - 1
LastGhost == MAXLRU - 1
GhostOf(i)   == i + NUMofLRUSEGs + 1
SegmentOf(j) == j - NUMofLRUSEGs - 1
Patterns == {"SEQ", "LOOP", "OTHERS"}
NoBuf == "none"

rLRUsegInitSizeSum(size) == SumFunctionOnSet(size, Segments)

(* What main sees to unless the cache is very small (main's table begins   *)
(* with 30 buffers) or the sequential partition is set to 0.               *)
ASSUME CacheAssumption ==
    /\ NUMofLRUSEGs \in Nat /\ NUMofLRUSEGs >= 2
    /\ cachesize \in Nat /\ MINIMUMLRUSIZE \in Nat
    /\ NoBuf \notin Blocks
    /\ \A size \in InitSizes :
          /\ size \in [0..LastSeg -> Nat]
          /\ size[SEQMRU] > 0 /\ size[OTHLRU0] > 0 /\ size[OTHLRU1] > 0
          /\ size[SEQMRU] + size[FREEMRU] + rLRUsegInitSizeSum(size) = cachesize
          /\ rLRUsegInitSizeSum(size) \in (MINIMUMLRUSIZE + 1)..cachesize

VARIABLES
    ALLsegInitSize,
    lrulist,        \* the blocks of each list, the most recently used first
    ALLsegUsedSize, \* how many they are
    loopQ,          \* the blocks of the partition for looping references
    rLRUsegLoopQUsedSum,
    allocBufInCache, allocBufInGhost,
    fault           \* a buffer was asked of an empty list or queue: the process died

vars == <<ALLsegInitSize, lrulist, ALLsegUsedSize, loopQ, rLRUsegLoopQUsedSum,
          allocBufInCache, allocBufInGhost, fault>>

BlocksIn(S) == UNION {ToSet(lrulist[t]) : t \in S}

Init ==
    /\ ALLsegInitSize \in InitSizes
    /\ lrulist = [t \in Lists |-> <<>>]
    /\ ALLsegUsedSize = [t \in Lists |-> 0]
    /\ loopQ = {}
    /\ rLRUsegLoopQUsedSum = 0
    /\ allocBufInCache = 0 /\ allocBufInGhost = 0
    /\ fault = FALSE

----------------------------------------------------------------------------
(* The lists.  The operations of pgref are functions of the buffers, of    *)
(* which none has been asked for in vain as long as the process runs.      *)
Bufs == [list |-> lrulist, used |-> ALLsegUsedSize, loop |-> loopQ,
         sum |-> rLRUsegLoopQUsedSum, fault |-> FALSE]

Faulty(s) == [s EXCEPT !.fault = TRUE]
Counted(t) == IF t \in Segments THEN 1 ELSE 0

ListOf(s, b) == CHOOSE t \in Lists : Contains(s.list[t], b)
Unlinked(q, b) == RemoveAt(q, CHOOSE i \in 1..Len(q) : q[i] = b)

(* A buffer leaves its list, by lruout, mruout or rmfromlrulist.           *)
Leaves(s, b) ==
    IF b = NoBuf THEN Faulty(s)
    ELSE IF b \in s.loop THEN [s EXCEPT !.loop = @ \ {b}, !.sum = @ - 1]
    ELSE LET t == ListOf(s, b)
         IN  [s EXCEPT !.list[t] = Unlinked(@, b), !.used[t] = @ - 1, !.sum = @ - Counted(t)]

lruin(s, t, b) ==
    [s EXCEPT !.list[t] = <<b>> \o @, !.used[t] = @ + 1, !.sum = @ + Counted(t)]

(* Mutant: the queue's buffers are not counted. *)
loopQinUncounted(s, b) == [s EXCEPT !.loop = @ \cup {b}]

loopQin(s, b) == [s EXCEPT !.loop = @ \cup {b}, !.sum = @ + 1]

MruOf(s, t) == IF s.list[t] = <<>> THEN NoBuf ELSE Head(s.list[t])
LruOf(s, t) == IF s.list[t] = <<>> THEN NoBuf ELSE Last(s.list[t])

(* lruin and lruout in turn: b comes into list i, and the last buffer of   *)
(* each list goes on to the next one as far as list k.                     *)
PushedAlong(s, i, k, b) ==
    LET before(t) == {u \in i..(t - 1) : s.list[u] # <<>>}
        in(t)     == IF before(t) = {} THEN b ELSE Last(s.list[Max(before(t))])
    IN  [s EXCEPT !.list = [t \in Lists |->
                              IF t = k THEN <<in(t)>> \o s.list[t]
                              ELSE IF t \in i..k /\ s.list[t] # <<>>
                              THEN <<in(t)>> \o Front(s.list[t])
                              ELSE s.list[t]],
                  !.used[k] = @ + 1, !.sum = @ + Counted(k)]

(* mruout and insertLRU in turn: the first buffer of each list moves to    *)
(* the end of the one before, from list k down to list i.                  *)
PulledUp(s, i, k) ==
    IF i = k THEN s
    ELSE [s EXCEPT !.list = [t \in Lists |->
                               (IF t \in (i + 1)..k THEN Tail(s.list[t]) ELSE s.list[t])
                               \o (IF t \in i..(k - 1) THEN <<Head(s.list[t + 1])>> ELSE <<>>)],
                   !.used[i] = @ + 1, !.used[k] = @ - 1]

----------------------------------------------------------------------------
(* Mutant: the buffer coming in is not counted. *)
OverflowsLate(s, i) ==
    i < LastSeg /\ s.used[i] > ALLsegInitSize[i] /\ ALLsegInitSize[i] > 0

(* A segment that one more buffer makes too long. *)
Overflows(s, i) ==
    i < LastSeg /\ s.used[i] + 1 > ALLsegInitSize[i] /\ ALLsegInitSize[i] > 0

(* The segment where a buffer that comes in stops pushing others along. *)
StopSeg(s) == Min({i \in Segments : ~Overflows(s, i)})
PushOth(s, b) == PushedAlong(s, OTHLRU0, StopSeg(s), b)

(* A segment and its ghosts take the place of so many buffers of a cache.  *)
GhostOverflows(s, j) ==
    /\ j < LastGhost
    /\ s.used[j] + 1 + s.used[SegmentOf(j)] > ALLsegInitSize[SegmentOf(j)]
    /\ ALLsegInitSize[SegmentOf(j)] > 0

PushGhost(s, j, b) ==
    PushedAlong(s, j, Min({k \in j..LastGhost : ~GhostOverflows(s, k)}), b)

(* Other segments move up when a buffer left segment i. *)
PullEnd(s, i) == Max({k \in i..LastSeg : \A t \in (i + 1)..k : s.used[t] > 0})

(* The ghosts then, as far as there are segments for them. *)
PullGhosts(s, i) ==
    LET j == GhostOf(i)
    IN  PulledUp(s, j, Max({k \in j..LastGhost : \A t \in (j + 1)..k :
                               s.used[t] > 0 /\ ALLsegInitSize[SegmentOf(t - 1)] > 0}))

(* And when a ghost was hit. *)
PullFromGhost(s, j) ==
    PulledUp(s, j, Max({k \in j..LastGhost : \A t \in (j + 1)..k : s.used[t] > 0}))

(* The partition for sequential references hands its last buffer over to   *)
(* the free ones.                                                          *)
InsertSeq(s, b) ==
    IF s.used[SEQMRU] < ALLsegInitSize[SEQMRU] THEN lruin(s, SEQMRU, b)
    ELSE IF s.list[SEQMRU] = <<>> THEN Faulty(s)
    ELSE lruin(lruin(Leaves(s, Last(s.list[SEQMRU])), FREEMRU, Last(s.list[SEQMRU])), SEQMRU, b)

----------------------------------------------------------------------------
(* The choice of a victim. *)

(* Mutant: the last list is taken to be in use. *)
BottomUnchecked(s, last) == last

(* The lowest list in use, from the last segment downwards. *)
BottomOf(s, last) == Max({t \in 0..last : s.used[t] > 0} \cup {0})

OthersUsed(s) == s.sum - Cardinality(s.loop)

(* Of the looping partition's least valuable block and the one referenced, *)
(* the one with the longer period; "or ALLsegUsedSize[SEQMRU] == 0".       *)
LoopOrSeq(s) == IF s.used[SEQMRU] = 0 THEN {LOOPQUEUE} ELSE {LOOPQUEUE, SEQMRU}

(* Mutant: the minimum is forgotten. *)
LoopLimitWithoutMinimum == rLRUsegInitSizeSum(ALLsegInitSize)

(* The size of the looping partition from which on it gives up a block.    *)
LoopLimit == rLRUsegInitSizeSum(ALLsegInitSize) - MINIMUMLRUSIZE

(* The answer when the gain of the other references is neither above nor   *)
(* below that of the looping ones: they are equal, or the estimate is NaN. *)
NeitherGain(s) ==
    IF s.loop # {} \/ s.used[SEQMRU] = 0 THEN LOOPQUEUE ELSE SEQMRU

(* The partitions deallocator may return.  When the gain decides, of the   *)
(* other references and of the looping blocks or the one referenced, it is *)
(* above, below or neither.                                                *)
deallocator(s, detectResult) ==
    IF Cardinality(s.loop) >= LoopLimit
    THEN IF detectResult = "LOOP" THEN LoopOrSeq(s) ELSE {LOOPQUEUE}
    ELSE IF detectResult = "LOOP" /\ s.loop # {}
    THEN LoopOrSeq(s) \cup (IF s.used[OTHLRU1] > 0 THEN {OTHLRU0} ELSE {})
    ELSE IF s.used[OTHLRU1] = 0 THEN {OTHLRU0}
    ELSE IF detectResult = "LOOP" THEN {OTHLRU0, SEQMRU, NeitherGain(s)}
    ELSE IF s.loop # {} THEN {OTHLRU0, LOOPQUEUE} ELSE {OTHLRU0}

(* A victim: the buffer, the list it is in, and the pattern its successor  *)
(* is now taken for.                                                       *)
Victim(b, t, p) == [bufp |-> b, where |-> t, pattern |-> p]
FromList(s, t, p) == {Victim(LruOf(s, t), t, p)}
FromLoop(s, p) ==
    IF s.loop = {} THEN {Victim(NoBuf, LOOPQUEUE, p)} ELSE {Victim(b, LOOPQUEUE, p) : b \in s.loop}

SeqVictims(s) ==
    IF s.used[SEQMRU] >= ALLsegInitSize[SEQMRU] THEN FromList(s, SEQMRU, "SEQ")
    ELSE IF OthersUsed(s) <= MINIMUMLRUSIZE THEN FromLoop(s, "SEQ")
    ELSE FromList(s, BottomOf(s, LastSeg), "SEQ")
         \cup (IF s.loop = {} THEN {} ELSE FromLoop(s, "SEQ"))

DeallocVictims(s, p, where) ==
    IF where = OTHLRU0 THEN FromList(s, BottomOf(s, LastSeg), p)
    ELSE IF where = LOOPQUEUE THEN FromLoop(s, p)
    ELSE IF s.used[SEQMRU] = 0 THEN FromList(s, BottomOf(s, LastSeg), "SEQ")
    ELSE FromList(s, SEQMRU, "SEQ")

Victims(s, p) ==
    IF s.used[SEQMRU] + s.used[FREEMRU] > ALLsegInitSize[SEQMRU] + ALLsegInitSize[FREEMRU]
    THEN {Victim(MruOf(s, FREEMRU), FREEMRU, p)}
    ELSE IF p = "SEQ" THEN SeqVictims(s)
    ELSE UNION {DeallocVictims(s, p, where) : where \in deallocator(s, p)}

(* The victim, taken out, becomes a ghost. *)
Ghosted(s, v) ==
    IF v.where \in Segments THEN PushGhost(s, GhostOf(v.where), v.bufp)
    ELSE lruin(s, FREEGHOST, v.bufp)

(* Mutant: a buffer is allocated for a block that has a ghost's, too. *)
TakesNewBuffer(b) == allocBufInGhost < cachesize

GetsNewBuffer(b) ==
    b \notin BlocksIn(FREEGHOST..LastGhost) /\ allocBufInGhost < cachesize

(* The ghost whose buffer is reused for a block without one.               *)
LastGhostBlock ==
    LruOf(Bufs, IF ALLsegUsedSize[FREEGHOST] > 0 THEN FREEGHOST ELSE BottomOf(Bufs, LastGhost))

(* The buffer taken from the ghosts for the block: its own, a new one, or  *)
(* the last of the free ghosts or of the lowest ghost list.                *)
GhostTaken(b) ==
    IF b \in BlocksIn({FREEGHOST}) THEN Leaves(Bufs, b)
    ELSE IF b \in BlocksIn(GhostSegs)
    THEN PullFromGhost(Leaves(Bufs, b), ListOf(Bufs, b))
    ELSE IF GetsNewBuffer(b) THEN Bufs
    ELSE Leaves(Bufs, LastGhostBlock)

----------------------------------------------------------------------------
(* The actions go from buffers to buffers, with \E s \in {...} : for "let s *)
(* be the buffers after ...".                                              *)
Become(t) == \E s \in {t} :
    /\ lrulist' = s.list /\ ALLsegUsedSize' = s.used
    /\ loopQ' = s.loop /\ rLRUsegLoopQUsedSum' = s.sum
    /\ fault' = s.fault
    /\ UNCHANGED ALLsegInitSize

(* A hit in a list, whose block moves to the partition of its pattern. *)
HitSeq(b) ==
    /\ ~fault /\ b \in BlocksIn(0..LastSeg)
    /\ \E s \in {Leaves(Bufs, b)} : Become(InsertSeq(s, b))
    /\ UNCHANGED <<allocBufInCache, allocBufInGhost>>

HitOthers(b) ==
    /\ ~fault /\ b \in BlocksIn(0..LastSeg)
    /\ \E s \in {Leaves(Bufs, b)} : Become(PushOth(s, b))
    /\ UNCHANGED <<allocBufInCache, allocBufInGhost>>

(* The segments below move up, and the ghosts.                             *)
HitTurnsLoop(b) ==
    /\ ~fault /\ b \in BlocksIn(0..LastSeg)
    /\ \E t \in {ListOf(Bufs, b)} : \E s \in {Leaves(Bufs, b)} :
          IF t \notin Segments THEN Become(loopQin(s, b))
          ELSE \E k \in {PullEnd(s, t)} : \E u \in {PulledUp(s, t, k)} :
               \E g \in {PullGhosts(u, k)} : Become(loopQin(g, b))
    /\ UNCHANGED <<allocBufInCache, allocBufInGhost>>

(* The block, in the hand of pgref, goes to the stack of other references; *)
(* "adjust ghost buffers": segment i has become longer.                    *)
PlaceOthers(s, b) ==
    \E i \in {StopSeg(s)} : \E t \in {PushOth(s, b)} : \E j \in {GhostOf(i)} :
        IF /\ j < LastGhost /\ ALLsegInitSize[i] > 0
           /\ t.used[j] + t.used[i] > ALLsegInitSize[i]
        THEN \E g \in {LruOf(t, j)} : \E u \in {Leaves(t, g)} :
                Become(IF g = NoBuf THEN u ELSE PushGhost(u, j + 1, g))
        ELSE Become(t)

(* A hit in the queue: the block stays unless it is no loop any more. *)
HitLoop(b, detectResult) ==
    /\ ~fault /\ b \in loopQ
    /\ \E s \in {Leaves(Bufs, b)} :
          IF detectResult = "LOOP" THEN Become(loopQin(s, b)) ELSE PlaceOthers(s, b)
    /\ UNCHANGED <<allocBufInCache, allocBufInGhost>>

(* Mutant: one buffer too many is allocated. *)
WarmTooLong == allocBufInCache <= cachesize

Warm == allocBufInCache < cachesize
Missed(b) == ~fault /\ b \notin loopQ /\ b \notin BlocksIn(0..LastSeg)

(* A miss while buffers are left.  What the detector calls a loop is put   *)
(* with the sequential references ("Unknown error!!").                     *)
MissWarm(b, detectResult) ==
    /\ Warm /\ Missed(b)
    /\ allocBufInCache' = allocBufInCache + 1
    /\ Become(IF detectResult = "OTHERS" THEN PushOth(Bufs, b) ELSE InsertSeq(Bufs, b))
    /\ UNCHANGED allocBufInGhost

(* The block gets a ghost's buffer, a victim becomes a ghost instead.      *)
Replaces(b, s, v) ==
    /\ v.bufp # NoBuf
    /\ \E u \in {Leaves(s, v.bufp)} : \E g \in {IF u.fault THEN u ELSE Ghosted(u, v)} :
          CASE v.pattern = "LOOP"   -> Become(loopQin(g, b))
            [] v.pattern = "SEQ"    -> Become(InsertSeq(g, b))
            [] v.pattern = "OTHERS" -> PlaceOthers(g, b)
    /\ allocBufInGhost' = IF GetsNewBuffer(b) THEN allocBufInGhost + 1 ELSE allocBufInGhost
    /\ UNCHANGED allocBufInCache

MissFull(b, detectResult) ==
    /\ ~Warm /\ Missed(b)
    /\ \E s \in {GhostTaken(b)} : \E v \in Victims(s, detectResult) : Replaces(b, s, v)

(* The victim is asked of an empty list or queue, and the process dies of  *)
(* the pointer it gets; what it has changed of the ghosts goes with it.    *)
MissDies(b, detectResult) ==
    /\ ~Warm /\ Missed(b)
    /\ \E v \in Victims(GhostTaken(b), detectResult) : v.bufp = NoBuf
    /\ Become(Faulty(Bufs))
    /\ UNCHANGED <<allocBufInCache, allocBufInGhost>>

Dead == fault /\ UNCHANGED vars

Next ==
    \/ \E b \in Blocks :
          \/ HitSeq(b) \/ HitOthers(b) \/ HitTurnsLoop(b)
          \/ \E p \in Patterns :
                HitLoop(b, p) \/ MissWarm(b, p) \/ MissFull(b, p) \/ MissDies(b, p)
    \/ Dead

Spec == Init /\ [][Next]_vars

----------------------------------------------------------------------------
Real  == BlocksIn(0..LastSeg) \cup loopQ
Ghost == BlocksIn(FREEGHOST..LastGhost)
OthersCached == rLRUsegLoopQUsedSum - Cardinality(loopQ)

(* Types; never more than cachesize buffers of either kind.                *)
TypeOK ==
    /\ ALLsegInitSize \in InitSizes
    /\ lrulist \in [Lists -> Seq(Blocks)]
    /\ ALLsegUsedSize \in [Lists -> Nat]
    /\ loopQ \in SUBSET Blocks
    /\ rLRUsegLoopQUsedSum \in Nat
    /\ allocBufInCache \in 0..cachesize /\ allocBufInGhost \in 0..cachesize
    /\ fault \in BOOLEAN

(* A block is in one place only, of one list or the queue, and the sizes   *)
(* pgref counts by hand beside the lists are theirs.                       *)
BuffersOnce ==
    /\ \A t, u \in Lists : \A i \in 1..Len(lrulist[t]), j \in 1..Len(lrulist[u]) :
          lrulist[t][i] = lrulist[u][j] => t = u /\ i = j
    /\ loopQ \cap BlocksIn(Lists) = {}
    /\ \A t \in Lists : ALLsegUsedSize[t] = Len(lrulist[t])
    /\ rLRUsegLoopQUsedSum = Cardinality(BlocksIn(Segments) \cup loopQ)

(* No buffer gets lost: those allocated hold a block each, and real ones   *)
(* do not turn into ghosts nor ghosts into real ones but in exchange.      *)
BuffersKept ==
    /\ Cardinality(Real) = allocBufInCache
    /\ Cardinality(Ghost) = allocBufInGhost
    /\ Ghost # {} => allocBufInCache = cachesize

(* The cache is full of other blocks, in two segments or more, and perhaps *)
(* some that were sequential.                                              *)
NoneToPrefer ==
    /\ ~Warm /\ loopQ = {}
    /\ ALLsegUsedSize[SEQMRU] = 0 /\ ALLsegUsedSize[OTHLRU1] > 0

(* Every search for a victim (the while(1) loops of lines 700, 758 and     *)
(* others, lruout, mruout, loopQout) finds a buffer, except where the      *)
(* answer of line 1526 can be given without a looping block.               *)
FaultsOnlyAtEqualGains == fault => NoneToPrefer

(* The partition for sequential references and the segments but the last   *)
(* keep within their sizes.                                                *)
SegmentsBounded ==
    /\ ALLsegUsedSize[SEQMRU] <= ALLsegInitSize[SEQMRU]
    /\ \A i \in Segments \ {LastSeg} :
          ALLsegInitSize[i] > 0 => ALLsegUsedSize[i] <= ALLsegInitSize[i]

(* A miss does not take a block of the other references when that leaves   *)
(* fewer than MINIMUMLRUSIZE.                                              *)
MissKeepsMinimum ==
    [][Real' # Real /\ OthersCached' < OthersCached => OthersCached' >= MINIMUMLRUSIZE]_vars

(* "We keep the minimum number of buffers for other references" (line 67), *)
(* once the cache is full.                                                 *)
OthersKeepMinimum ==
    [][~Warm /\ OthersCached' < OthersCached => OthersCached' >= MINIMUMLRUSIZE]_vars

(* The pairs of blocks of the other references of which the first is       *)
(* nearer to the front of the segments.                                    *)
InFront ==
    {pr \in BlocksIn(Segments) \X BlocksIn(Segments) :
        \E t \in Segments : \E u \in t..LastSeg :
            \E i \in 1..Len(lrulist[t]), j \in 1..Len(lrulist[u]) :
            /\ pr = <<lrulist[t][i], lrulist[u][j]>>
            /\ t < u \/ (t = u /\ i < j)}

(* The lists, segments and moves make up a cache of three partitions, in   *)
(* which the other references are in LRU order.                            *)
Abstract == INSTANCE PartitionedCache WITH
    seq    <- BlocksIn({SEQMRU, FREEMRU}),
    oth    <- BlocksIn(Segments),
    newer  <- InFront,
    loop   <- loopQ,
    ghosts <- Ghost

IsPartitionedCache == Abstract!Spec
=============================================================================
