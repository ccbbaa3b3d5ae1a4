----------------------------- MODULE LoopQueue -----------------------------
(***************************************************************************)
(* The priority queue of the UBM simulator: loopQ[], a binary heap of      *)
(* buffers, with the place of each buffer kept in its loopQindex.          *)
(*                                                                         *)
(* One step is one turn of main's loop: what pgref does to the queue for   *)
(* the reference, and the ageing every 1000 references.                    *)
(***************************************************************************)
EXTENDS Integers, Sequences, FiniteSets

CONSTANTS Blocks, IRGs, Correlated, AgeEvery, MaxTime,
          INFINITY   \* above every period

ASSUME LoopQueueAssumption ==
    /\ INFINITY \in Nat /\ IRGs \subseteq 1..(INFINITY - 1)
    /\ MaxTime \in Nat /\ MaxTime < INFINITY
    /\ Correlated \in Nat /\ AgeEvery \in Nat \ {0}

VARIABLES
    curVtime,
    loopQ,       \* loopQ[1..loopQused]: block, period and last reference of each buffer
    loopQindex,  \* place of each block in loopQ, 0 when it is not queued
    taken        \* what loopQout returned last

vars == <<curVtime, loopQ, loopQindex, taken>>

NoBlock == "none"
Now == curVtime + 1

(* Mutant: the buffer keeps the period that took it out. *)
NewEntryForever(b, irg) == [blkno |-> b, lastIRG |-> INFINITY, lastRefTime |-> Now]

NewEntry(b, irg) == [blkno |-> b, lastIRG |-> irg, lastRefTime |-> Now]
Buffer == [blkno : Blocks, lastIRG : 1..INFINITY, lastRefTime : 0..MaxTime]
Heap == [q : Seq(Buffer), at : [Blocks -> Nat]]

----------------------------------------------------------------------------
(* The heap is handled as a record of loopQ and loopQindex. *)

(* "k1 is more valuable" *)
MoreValuable(k1, k2) ==
    \/ k1.lastIRG < k2.lastIRG
    \/ k1.lastIRG = k2.lastIRG /\ k1.lastRefTime < k2.lastRefTime

(* Mutant: the places are not swapped. *)
SwapBuffers(h, i, j) == [h EXCEPT !.q = [@ EXCEPT ![i] = h.q[j], ![j] = h.q[i]]]

Swap(h, i, j) ==
    [q  |-> [h.q EXCEPT ![i] = h.q[j], ![j] = h.q[i]],
     at |-> [h.at EXCEPT ![h.q[i].blkno] = j, ![h.q[j].blkno] = i]]

(* The loops of upheap and downheap, on pairs of a heap and an index. *)
Rises(h, index) ==
    index \in 2..Len(h.q) /\ MoreValuable(h.q[index \div 2], h.q[index])

up[c \in Heap \X Nat] ==
    IF Rises(c[1], c[2]) THEN up[<<Swap(c[1], c[2], c[2] \div 2), c[2] \div 2>>] ELSE c[1]

upheap(h, index) == up[<<h, index>>]

(* The child downheap compares with: the less valuable one. *)
LeastChild(h, index) ==
    IF 2 * index < Len(h.q) /\ MoreValuable(h.q[2 * index], h.q[2 * index + 1])
    THEN 2 * index + 1 ELSE 2 * index

Sinks(h, index) ==
    index \in 1..(Len(h.q) \div 2) /\ MoreValuable(h.q[index], h.q[LeastChild(h, index)])

down[c \in Heap \X Nat] ==
    IF Sinks(c[1], c[2])
    THEN down[<<Swap(c[1], c[2], LeastChild(c[1], c[2])), LeastChild(c[1], c[2])>>] ELSE c[1]

downheap(h, index) == down[<<h, index>>]

loopQin(h, e) ==
    upheap([q |-> Append(h.q, e), at |-> [h.at EXCEPT ![e.blkno] = Len(h.q) + 1]], Len(h.q) + 1)

(* Mutant: a reference in this very step counts as correlated, too. *)
OutPlaceCorrelated(h) ==
    LET n == Len(h.q)
    IN  IF n > 1 /\ Now - h.q[1].lastRefTime <= Correlated
        THEN IF n > 2 /\ MoreValuable(h.q[2], h.q[3]) THEN 3 ELSE 2
        ELSE 1

(* Mutant: the children are not compared. *)
OutPlaceSecond(h) ==
    IF Len(h.q) > 1 /\ Now - h.q[1].lastRefTime \in 1..Correlated THEN 2 ELSE 1

(* The place loopQout takes: the root, or the less valuable of its         *)
(* children when the root was referenced just now.                         *)
OutPlace(h) ==
    IF Len(h.q) > 1 /\ Now > h.q[1].lastRefTime /\ Now - h.q[1].lastRefTime <= Correlated
    THEN IF Len(h.q) > 2 /\ MoreValuable(h.q[2], h.q[3]) THEN 3 ELSE 2
    ELSE 1

(* loopQout: the root takes the place that is taken, the last buffer takes *)
(* the root's.                                                             *)
loopQout(h) ==
    LET n    == Len(h.q)
        k    == OutPlace(h)
        out  == h.q[k]
        q    == [h.q EXCEPT ![k] = h.q[1]]
        last == IF k = n THEN h.q[1] ELSE h.q[n]
    IN  IF n = 1
        THEN [bp |-> out, heap |-> [q |-> <<>>, at |-> [h.at EXCEPT ![out.blkno] = 0]]]
        ELSE [bp   |-> out,
              heap |-> downheap([q  |-> [i \in 1..(n - 1) |-> IF i = 1 THEN last ELSE q[i]],
                                 at |-> [h.at EXCEPT ![h.q[1].blkno] = k,
                                                     ![out.blkno] = 0,
                                                     ![last.blkno] = 1]], 1)]

(* The ageing loop of main: a block that was not referenced for three      *)
(* periods has a longer one.                                               *)
Expired(e) == e.lastRefTime + 3 * e.lastIRG < Now

AgeBuffer(h, i) ==
    IF Expired(h.q[i])
    THEN upheap([h EXCEPT !.q[i].lastIRG = Now - h.q[i].lastRefTime], h.at[h.q[i].blkno])
    ELSE h

age[c \in Heap \X Nat] ==
    IF c[2] \in 1..Len(c[1].q) THEN age[<<AgeBuffer(c[1], c[2]), c[2] + 1>>] ELSE c[1]

Aged(h) == IF Now % AgeEvery = 0 THEN age[<<h, 1>>] ELSE h

----------------------------------------------------------------------------
loopQs == [q |-> loopQ, at |-> loopQindex]

Init ==
    /\ curVtime = 0
    /\ loopQ = <<>>
    /\ loopQindex = [b \in Blocks |-> 0]
    /\ taken = NoBlock

Becomes(h, b) ==
    \E g \in {Aged(h)} :
        /\ curVtime' = Now
        /\ loopQ' = g.q
        /\ loopQindex' = g.at
        /\ taken' = b

Queued(b) == loopQindex[b] # 0

Pass == curVtime < MaxTime /\ Becomes(loopQs, NoBlock)

(* A looping block that missed, while there is room and when a victim is   *)
(* taken from the queue first.                                             *)
Insert(b, irg) ==
    curVtime < MaxTime /\ ~Queued(b) /\ Becomes(loopQin(loopQs, NewEntry(b, irg)), NoBlock)

Replace(b, irg) ==
    /\ curVtime < MaxTime /\ ~Queued(b) /\ loopQ # <<>>
    /\ \E r \in {loopQout(loopQs)} :
           Becomes(loopQin(r.heap, NewEntry(b, irg)), r.bp.blkno)

(* The victim makes room for a block of another partition. *)
Evict ==
    /\ curVtime < MaxTime /\ loopQ # <<>>
    /\ \E r \in {loopQout(loopQs)} : Becomes(r.heap, r.bp.blkno)

(* A hit makes the block the least valuable of all, so that loopQout takes *)
(* it.                                                                     *)
Worst(b) ==
    upheap([q  |-> [loopQ EXCEPT ![loopQindex[b]].lastIRG = INFINITY,
                                 ![loopQindex[b]].lastRefTime = Now],
            at |-> loopQindex], loopQindex[b])

HitStays(b, irg) ==
    /\ curVtime < MaxTime /\ Queued(b)
    /\ \E r \in {loopQout(Worst(b))} :
           Becomes(loopQin(r.heap, NewEntry(r.bp.blkno, irg)), r.bp.blkno)

HitLeaves(b) ==
    /\ curVtime < MaxTime /\ Queued(b)
    /\ \E r \in {loopQout(Worst(b))} : Becomes(r.heap, r.bp.blkno)

Next ==
    \/ Pass
    \/ Evict
    \/ \E b \in Blocks, irg \in IRGs : Insert(b, irg) \/ Replace(b, irg) \/ HitStays(b, irg)
    \/ \E b \in Blocks : HitLeaves(b)

Spec == Init /\ [][Next]_vars

----------------------------------------------------------------------------
(* Types; the INFINITY that takes a block out never stays in the queue. *)
TypeOK ==
    /\ curVtime \in 0..MaxTime
    /\ loopQs \in Heap
    /\ \A i \in 1..Len(loopQ) : loopQ[i].lastIRG < INFINITY
    /\ taken \in Blocks \cup {NoBlock}

(* loopQindex says where a block is, through all the swaps. *)
IndexExact ==
    \A b \in Blocks :
        IF loopQindex[b] = 0 THEN \A i \in 1..Len(loopQ) : loopQ[i].blkno # b
        ELSE loopQindex[b] \in 1..Len(loopQ) /\ loopQ[loopQindex[b]].blkno = b

(* pgref's "Critical Error!: block numbers are different" (line 597): a    *)
(* hit takes the block that was hit out of the queue, and no other.        *)
HitTakesItself ==
    [][\A b \in Blocks : (HitLeaves(b) \/ \E irg \in IRGs : HitStays(b, irg)) => taken' = b]_vars

(* The heap is a queue by value. *)
Abstract == INSTANCE PriorityQueue WITH
    queue <- {loopQ[i] : i \in 1..Len(loopQ)}

IsPriorityQueue == Abstract!Spec
=============================================================================
