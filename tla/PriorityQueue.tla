--------------------------- MODULE PriorityQueue ---------------------------
(***************************************************************************)
(* What the cache partition for looping references promises: a set of      *)
(* blocks from which the least valuable one is taken, the one that will be *)
(* referenced again last.  A block just referenced is spared once (the     *)
(* second least valuable goes instead), a block that is hit leaves by      *)
(* itself, and blocks whose period has run out are aged.                   *)
(***************************************************************************)
EXTENDS Integers, FiniteSets

CONSTANTS
    Blocks,       \* disk blocks
    IRGs,         \* periods the detector gives
    Correlated,   \* ALLsegInitSize[SEQMRU]: references this close are one
    AgeEvery,     \* references between two ageings: 1000 in main
    MaxTime       \* bound on curVtime

VARIABLES
    curVtime,
    queue,   \* the blocks queued: records of block, period and last reference
    taken    \* the block that left the queue last

vars == <<curVtime, queue, taken>>

NoBlock == "none"
Now == curVtime + 1

Queued == {e.blkno : e \in queue}
NewEntry(b, irg) == [blkno |-> b, lastIRG |-> irg, lastRefTime |-> Now]

(* e will be referenced again before f. *)
SoonerThan(e, f) ==
    e.lastIRG < f.lastIRG \/ (e.lastIRG = f.lastIRG /\ e.lastRefTime < f.lastRefTime)

LeastValuable(S) == CHOOSE e \in S : \A f \in S \ {e} : SoonerThan(f, e)

Victim(S) ==
    LET worst == LeastValuable(S)
    IN  IF Cardinality(S) > 1 /\ Now - worst.lastRefTime \in 1..Correlated
        THEN LeastValuable(S \ {worst}) ELSE worst

(* Ageing: a block not referenced for three periods has a longer period.   *)
Expired(e) == e.lastRefTime + 3 * e.lastIRG < Now
Aged(S) ==
    IF Now % AgeEvery # 0 THEN S
    ELSE {IF Expired(e) THEN [e EXCEPT !.lastIRG = Now - e.lastRefTime] ELSE e : e \in S}

Init == curVtime = 0 /\ queue = {} /\ taken = NoBlock

Becomes(S, b) ==
    /\ curVtime < MaxTime
    /\ curVtime' = Now
    /\ queue' = Aged(S)
    /\ taken' = b

(* A reference that leaves the queue alone. *)
Pass == Becomes(queue, NoBlock)

(* A looping block comes in; if `full', a victim leaves first. *)
Insert(b, irg) == b \notin Queued /\ Becomes(queue \cup {NewEntry(b, irg)}, NoBlock)

Replace(b, irg) ==
    /\ queue # {} /\ b \notin Queued
    /\ Becomes((queue \ {Victim(queue)}) \cup {NewEntry(b, irg)}, Victim(queue).blkno)

(* The victim makes room for a block that is not looping. *)
Evict == queue # {} /\ Becomes(queue \ {Victim(queue)}, Victim(queue).blkno)

(* A queued block is hit: it stays with its new period, or leaves. *)
Rest(b) == {e \in queue : e.blkno # b}
HitStays(b, irg)  == b \in Queued /\ Becomes(Rest(b) \cup {NewEntry(b, irg)}, b)
HitLeaves(b) == b \in Queued /\ Becomes(Rest(b), b)

Next ==
    \/ Pass
    \/ Evict
    \/ \E b \in Blocks, irg \in IRGs : Insert(b, irg) \/ Replace(b, irg) \/ HitStays(b, irg)
    \/ \E b \in Blocks : HitLeaves(b)

Spec == Init /\ [][Next]_vars
=============================================================================
