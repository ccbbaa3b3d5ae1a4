------------------------------- MODULE UbmRun -------------------------------
(***************************************************************************)
(* A run of the UBM simulator over a trace: main's loop, pgref and the end *)
(* of the trace.  It puts the parts together: the detector (SeqLoop) says  *)
(* which pattern a reference is of, the buffers (BufferCache) move, and    *)
(* the stamps pgref keeps in each buffer are what the partition for        *)
(* looping references (PriorityQueue) chooses its victim by.               *)
(*                                                                         *)
(* One step is one turn of main's loop.                                    *)
(***************************************************************************)
EXTENDS SegSizes, FiniteSets, SequencesExt

CONSTANTS
    Blocks,           \* disk blocks
    Vnodes, MaxBlk,   \* files, and blocks of a file
    Traces,           \* the traces main may be given
    MaxTime,          \* bound on the length of a trace
    cachesize,        \* option -s
    SeqSize,          \* option -r
    FreeSizes,        \* option -m: the values it is tried with
    MINIMUMLRUSIZE, MAXSEQLOOPs, thresholdSeQSize, expo_alpha,
    AgeEvery,         \* 1000: references between two ageings of the queue
    HalveEvery        \* 50000: references between two halvings of the hits

Reference == [blkno : Blocks, vnode : Vnodes, pblkno : 0..MaxBlk]

(* What main sees to: the sizes fit, and leave the other references more   *)
(* than the minimum; 0 is no file, and the table has two units or more.    *)
ASSUME RunAssumption ==
    /\ "none" \notin Blocks /\ 0 \notin Vnodes /\ MaxBlk \in Nat /\ MaxTime \in Nat
    /\ \A t \in Traces : t \in Seq(Reference) /\ Len(t) <= MaxTime
    /\ MAXSEQLOOPs \in Nat /\ MAXSEQLOOPs >= 2
    /\ thresholdSeQSize \in Nat /\ expo_alpha \in 0..100
    /\ cachesize \in Nat /\ MINIMUMLRUSIZE \in Nat /\ SeqSize \in Nat \ {0}
    /\ \A m \in FreeSizes :
          /\ m \in Nat /\ SizesFit(cachesize, SeqSize, m)
          /\ ForOthers(cachesize, SeqSize, m) > MINIMUMLRUSIZE
    /\ AgeEvery \in Nat \ {0} /\ HalveEvery \in Nat \ {0}

VARIABLES
    trace, done,                       \* what is left of the input; main has ended
    curVtime, unit, hashed, seen, ref, \* of SeqLoop
    ALLsegInitSize, lrulist, ALLsegUsedSize, loopQ, rLRUsegLoopQUsedSum,
    allocBufInCache, allocBufInGhost, fault, \* of BufferCache
    buf,                               \* the stamps of the blocks in the hash table blkhash[]
    taken,                             \* the block loopQout returned, if any
    hit, miss, loopQhit,
    rLRUsegHits, rLRUsegHitRatios,     \* hits by list; and by segment, ghosts too, halved
    agedVtime

detectVars == <<curVtime, unit, hashed, seen, ref>>
cacheVars  == <<ALLsegInitSize, lrulist, ALLsegUsedSize, loopQ, rLRUsegLoopQUsedSum,
                allocBufInCache, allocBufInGhost, fault>>
counters   == <<hit, miss, loopQhit, rLRUsegHits, agedVtime>>
vars == <<trace, done, detectVars, cacheVars, buf, taken, counters, rLRUsegHitRatios>>

Detector == INSTANCE SeqLoop WITH IRGs <- 1..MaxTime
Cache    == INSTANCE BufferCache WITH
                NUMofLRUSEGs <- 5,
                InitSizes    <- {SegInitSize(cachesize, SeqSize, m) : m \in FreeSizes}

NoBlock  == "none"
Now      == curVtime + 1
Segs     == 0..4

(* The queue, as the stamps of its buffers. *)
Entry(b) == [blkno |-> b, lastIRG |-> buf[b].lastIRG, lastRefTime |-> buf[b].lastRefTime]
queue    == {Entry(b) : b \in loopQ}
Queue    == INSTANCE PriorityQueue WITH IRGs <- 1..MaxTime, Correlated <- SeqSize

Init ==
    /\ trace \in Traces /\ done = FALSE
    /\ Detector!Init /\ Cache!Init
    /\ buf = <<>> /\ taken = NoBlock
    /\ hit = 0 /\ miss = 0 /\ loopQhit = 0
    /\ rLRUsegHits = [t \in 0..(Cache!REALLRU - 1) |-> 0]
    /\ rLRUsegHitRatios = [i \in Segs |-> 0]
    /\ agedVtime = 0

----------------------------------------------------------------------------
(* The stamps. *)

(* What pgref knows of a block when it asks the detector: the time since   *)
(* the last reference, of a block that has a buffer or a ghost's.          *)
KnownIRG(b) == IF b \in DOMAIN buf THEN Now - buf[b].lastRefTime ELSE 0

(* Mutant: the time since the last reference is stored, not the period. *)
NewStampMeasured(b) == [lastRefTime |-> Now, lastIRG |-> KnownIRG(b)]

(* Mutant: the reference is not noted in a buffer that the block has. *)
NewStampOfFirst(b) ==
    [lastRefTime |-> IF b \in DOMAIN buf THEN buf[b].lastRefTime ELSE Now, lastIRG |-> ref'.irg]

(* The period of a block called a loop is the detector's. *)
NewStamp(b) == [lastRefTime |-> Now, lastIRG |-> ref'.irg]

(* The ageing of main, after the reference. *)
AgedStamp(s, b) ==
    IF Now % AgeEvery = 0 /\ b \in loopQ' /\ Queue!Expired(s)
    THEN [s EXCEPT !.lastIRG = Now - s.lastRefTime] ELSE s

(* Block b is referenced and has a buffer in the hash table; those of the  *)
(* blocks in S are hashed out.                                             *)
Stamps(b, S) ==
    buf' = [x \in (DOMAIN buf \ S) \cup {b} |-> AgedStamp(IF x = b THEN NewStamp(b) ELSE buf[x], x)]

----------------------------------------------------------------------------
(* The counters. *)

Halved(n) == IF Now % HalveEvery = 0 THEN n \div 2 ELSE n

(* The segment a reference is a hit in, or would be if the segments were   *)
(* as much longer as their ghosts are.                                     *)
SegmentHit(b) ==
    {i \in Segs : \E t \in {Cache!OTHLRU0 + i, Cache!GHOSTLRU0 + i} : Contains(lrulist[t], b)}

(* Mutant: the references are halved, but not the hits. *)
CountSegmentUnhalved(b) ==
    /\ rLRUsegHitRatios' =
          [i \in Segs |-> rLRUsegHitRatios[i] + IF i \in SegmentHit(b) THEN 1 ELSE 0]
    /\ agedVtime' = Halved(agedVtime + 1)

CountSegment(b) ==
    /\ rLRUsegHitRatios' =
          [i \in Segs |-> Halved(rLRUsegHitRatios[i] + IF i \in SegmentHit(b) THEN 1 ELSE 0)]
    /\ agedVtime' = Halved(agedVtime + 1)

----------------------------------------------------------------------------
(* pgref, for a block b that the detector calls p. *)

HitList(b, p) ==
    /\ b \in Cache!BlocksIn(0..Cache!LastSeg)
    /\ \/ p = "SEQ"    /\ Cache!HitSeq(b)
       \/ p = "OTHERS" /\ Cache!HitOthers(b)
       \/ p = "LOOP"   /\ Cache!HitTurnsLoop(b)
    /\ Stamps(b, {})
    /\ taken' = NoBlock
    /\ hit' = hit + 1
    /\ rLRUsegHits' = [rLRUsegHits EXCEPT ![Cache!ListOf(Cache!Bufs, b)] = @ + 1]
    /\ UNCHANGED <<miss, loopQhit>>

HitQueue(b, p) ==
    /\ Cache!HitLoop(b, p)
    /\ Stamps(b, {})
    /\ taken' = b
    /\ hit' = hit + 1 /\ loopQhit' = loopQhit + 1
    /\ UNCHANGED <<miss, rLRUsegHits>>

MissWarm(b, p) ==
    /\ Cache!MissWarm(b, p)
    /\ Stamps(b, {})
    /\ taken' = NoBlock
    /\ miss' = miss + 1
    /\ UNCHANGED <<hit, loopQhit, rLRUsegHits>>

(* Of the victims BufferCache leaves open: the one loopQout takes, and     *)
(* between the queue and the sequential references the one with the longer *)
(* period.  Comparisons with marginal gains stay open, that they are equal *)
(* (when the queue or the sequential references are preferred) included.   *)
LongerInQueue(irg) == loopQ # {} /\ Queue!LeastValuable(queue).lastIRG > irg
GainDecides == Cardinality(loopQ) < Cache!LoopLimit /\ ALLsegUsedSize[Cache!OTHLRU1] > 0

(* Mutant: the most valuable block is taken. *)
MayTakeBest(v, p, irg) ==
    v.where = Cache!LOOPQUEUE => \A e \in queue : e.blkno # v.bufp => ~Queue!SoonerThan(e, Entry(v.bufp))

MayTake(v, p, irg) ==
    /\ v.where = Cache!LOOPQUEUE => v.bufp = Queue!Victim(queue).blkno
    /\ p = "LOOP" /\ v.where = Cache!SEQMRU => ~LongerInQueue(irg)
    /\ p = "LOOP" /\ v.where = Cache!LOOPQUEUE =>
          LongerInQueue(irg) \/ ALLsegUsedSize[Cache!SEQMRU] = 0 \/ GainDecides

(* Mutant: the ghost stays in the hash table. *)
HashedOutNever(b) == {}

(* The ghost that loses its buffer to the block. *)
HashedOut(b) ==
    IF b \in Cache!Ghost \/ Cache!GetsNewBuffer(b) THEN {} ELSE {Cache!LastGhostBlock}

MissFull(b, p) ==
    /\ ~Cache!Warm /\ Cache!Missed(b)
    /\ \E s \in {Cache!GhostTaken(b)} : \E v \in Cache!Victims(s, p) :
          /\ v.bufp # Cache!NoBuf /\ MayTake(v, p, ref'.irg)
          /\ Cache!Replaces(b, s, v)
          /\ taken' = IF v.where = Cache!LOOPQUEUE THEN v.bufp ELSE NoBlock
    /\ Stamps(b, HashedOut(b))
    /\ miss' = miss + 1
    /\ UNCHANGED <<hit, loopQhit, rLRUsegHits>>

----------------------------------------------------------------------------
(* A turn of main's loop. *)
Refer ==
    /\ trace # <<>>
    /\ trace' = Tail(trace)
    /\ \E r \in {Head(trace)} :
          /\ Detector!Detect(r.vnode, r.pblkno, KnownIRG(r.blkno))
          /\ \E p \in {ref'.verdict} :
                HitList(r.blkno, p) \/ HitQueue(r.blkno, p)
                \/ MissWarm(r.blkno, p) \/ MissFull(r.blkno, p)
          /\ CountSegment(r.blkno)
    /\ UNCHANGED done

(* The last turn, when pgref asks an empty queue or list for a victim: the *)
(* reference has been counted, the stamps and the rest of main are not     *)
(* reached.                                                                *)
Dies ==
    /\ trace # <<>>
    /\ trace' = Tail(trace)
    /\ \E r \in {Head(trace)} :
          /\ Detector!Detect(r.vnode, r.pblkno, KnownIRG(r.blkno))
          /\ Cache!MissDies(r.blkno, ref'.verdict)
          /\ rLRUsegHitRatios' =
                [i \in Segs |-> rLRUsegHitRatios[i] + IF i \in SegmentHit(r.blkno) THEN 1 ELSE 0]
    /\ agedVtime' = agedVtime + 1 /\ miss' = miss + 1
    /\ taken' = NoBlock
    /\ UNCHANGED <<done, buf, hit, loopQhit, rLRUsegHits>>

(* Mutant: the end of the input is not noticed. *)
EndOfTraceUnnoticed == trace = <<>> /\ UNCHANGED vars

(* scanf returns EOF: printstat adds the segments' hits up. *)
EndOfTrace ==
    /\ trace = <<>> /\ ~done /\ ~fault
    /\ done' = TRUE
    /\ rLRUsegHitRatios' = [i \in Segs |-> SumFunctionOnSet(rLRUsegHitRatios, 0..i)]
    /\ UNCHANGED <<trace, detectVars, cacheVars, buf, taken, counters>>

Ended == (done \/ fault) /\ UNCHANGED vars

Next == Refer \/ Dies \/ EndOfTrace \/ Ended

(* main is one thread and never waits: it goes on as long as it can. *)
Spec == Init /\ [][Next]_vars /\ WF_vars(Next)

----------------------------------------------------------------------------
(* Types; the hash table blkhash[] has the blocks that have a buffer, and  *)
(* of the ghosts those that were not reused.                               *)
TypeOK ==
    /\ trace \in Seq(Reference) /\ done \in BOOLEAN
    /\ Detector!TypeOK /\ Cache!TypeOK
    /\ DOMAIN buf = Cache!Real \cup Cache!Ghost
    /\ \A b \in DOMAIN buf : buf[b] \in [lastRefTime : 1..MaxTime, lastIRG : 0..MaxTime]
    /\ taken \in Blocks \cup {NoBlock}
    /\ hit \in Nat /\ miss \in Nat /\ loopQhit \in Nat /\ agedVtime \in Nat
    /\ rLRUsegHits \in [0..(Cache!REALLRU - 1) -> Nat]
    /\ rLRUsegHitRatios \in [Segs -> Nat]

(* Two lists one after the other, and the five segments, are in the order  *)
(* of the last references, through all the pushing along and moving up: a  *)
(* buffer lruout takes is the least recently used of its partition.        *)
InRecencyOrder(S) ==
    \A t, u \in S : \A i \in 1..Len(lrulist[t]), j \in 1..Len(lrulist[u]) :
        t < u \/ (t = u /\ i < j) =>
            buf[lrulist[t][i]].lastRefTime > buf[lrulist[u][j]].lastRefTime

LruIsRecency == InRecencyOrder({Cache!SEQMRU, Cache!FREEMRU}) /\ InRecencyOrder(Cache!Segments)

(* A block in the queue has a period that was measured in this run, by     *)
(* which 1/lastIRG is a gain: the detector's, for a file and not a block,  *)
(* or the ageing's.                                                        *)
PeriodsMeasured == \A b \in loopQ : buf[b].lastIRG \in 1..curVtime

(* The hits printed by list add up, and a hit ratio that checkAvgMarginal- *)
(* Gain takes the logarithm of 1 minus never exceeds 1, although hits and  *)
(* references are halved and rounded one by one.                           *)
HitRatioAtMostOne ==
    /\ hit + miss = curVtime
    /\ hit = SumFunction(rLRUsegHits) + loopQhit
    /\ IF done THEN rLRUsegHitRatios[4] <= agedVtime
       ELSE SumFunction(rLRUsegHitRatios) <= agedVtime

(* pgref uses the stamps and the queue as LoopQueue has it: it never puts  *)
(* in a block that is queued, and what it takes is the queue's victim or   *)
(* the block hit.                                                          *)
UsesQueue == Queue!Spec

(* The whole trace is read, and main ends, unless a victim is asked of an  *)
(* empty queue: no path of pgref goes on for ever or has nowhere to go.    *)
Termination == <>(done \/ fault)

(* "When the marginal gain value of the OTHER partition is equal to that   *)
(* of the LOOP partition, we select the LOOP partition or the SEQ          *)
(* partition first" (line 1404): the one selected has a block to give up.  *)
NoFault == ~fault

(* "Unknown error!!" (line 565) is not printed: while the cache is warming *)
(* up a looping reference is a hit.                                        *)
NoUnknownError ==
    [][miss' # miss /\ Cache!Warm => ref'.verdict # "LOOP"]_vars
=============================================================================
