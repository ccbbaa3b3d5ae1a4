-------------------------- MODULE PartitionedCache --------------------------
(***************************************************************************)
(* What the UBM buffer cache promises: a cache of three partitions that    *)
(* gives up one block at a time, and only when it is full.  The blocks     *)
(* that are neither sequential nor looping are given up in LRU order; the  *)
(* blocks given up last are remembered as ghosts.                          *)
(***************************************************************************)
EXTENDS Naturals, FiniteSets

CONSTANTS Blocks, cachesize

VARIABLES
    seq,     \* the blocks of the partition for sequential references
    oth,     \* the other blocks
    newer,   \* the pairs of other blocks whose first was referenced after the second
    loop,    \* the blocks of the partition for looping references
    ghosts   \* blocks that were given up and are remembered

vars == <<seq, oth, newer, loop, ghosts>>

Cached == seq \cup oth \cup loop
LeastRecent == {b \in oth : \A c \in oth \ {b} : <<c, b>> \in newer}

(* The blocks that may be given up. *)
Victims == seq \cup loop \cup LeastRecent

Init == seq = {} /\ oth = {} /\ newer = {} /\ loop = {} /\ ghosts = {}

NewerWithout(v) == {pr \in newer : v \notin {pr[1], pr[2]}}

(* The reference takes b out of its partition, or v out of the cache, and  *)
(* b goes into the partition that is chosen for it.                        *)
Referenced(b, v) ==
    \/ /\ seq' = (seq \ {v}) \cup {b} /\ loop' = loop \ {v}
       /\ oth' = oth \ {v} /\ newer' = NewerWithout(v)
    \/ /\ seq' = seq \ {v} /\ loop' = loop \ {v}
       /\ oth' = (oth \ {v}) \cup {b}
       /\ newer' = NewerWithout(v) \cup ({b} \X (oth \ {v}))
    \/ /\ seq' = seq \ {v} /\ loop' = (loop \ {v}) \cup {b}
       /\ oth' = oth \ {v} /\ newer' = NewerWithout(v)

Hit(b) == b \in Cached /\ Referenced(b, b) /\ UNCHANGED ghosts

Fill(b) ==
    /\ b \notin Cached \cup ghosts /\ Cardinality(Cached) < cachesize
    /\ Referenced(b, b)
    /\ UNCHANGED ghosts

Replace(b) ==
    /\ b \notin Cached /\ Cardinality(Cached) = cachesize
    /\ \E v \in Cached :
          /\ Referenced(b, v)
          /\ v \in Victims
          /\ IF b \in ghosts THEN ghosts' = (ghosts \ {b}) \cup {v}
             ELSE IF Cardinality(ghosts) < cachesize THEN ghosts' = ghosts \cup {v}
             ELSE \E g \in ghosts : ghosts' = (ghosts \ {g}) \cup {v}

Next == \E b \in Blocks : Hit(b) \/ Fill(b) \/ Replace(b)

Spec == Init /\ [][Next]_vars
=============================================================================
