-------------------------- MODULE LoopQueueProofs --------------------------
(***************************************************************************)
(* The loop queue, for any blocks, periods and intervals: the heap keeps   *)
(* its order and its index through every operation, and is the priority    *)
(* queue PriorityQueue describes.                                          *)
(*                                                                         *)
(* upheap, downheap and the ageing are loops.  For each, what a turn keeps *)
(* is proved first (a relation between the heap at the start, the heap     *)
(* now and the index), then LoopResult gives it for the end of the loop.   *)
(***************************************************************************)
EXTENDS LoopQueue, NaturalSets

(* Halving: the parents and children of the heap's places.                 *)
LEMMA Halves ==
    \A i \in Nat :
        /\ i \div 2 \in Nat /\ 2 * (i \div 2) <= i /\ i <= 2 * (i \div 2) + 1
        /\ i >= 2 => i \div 2 >= 1 /\ i \div 2 < i
        /\ \A k \in Nat : i \div 2 = k <=> i = 2 * k \/ i = 2 * k + 1
  OBVIOUS

(* What a buffer is made of.                                               *)
LEMMA BufferType ==
    ASSUME NEW e \in Buffer
    PROVE  /\ e.blkno \in Blocks /\ e.lastIRG \in Nat /\ e.lastIRG >= 1 /\ e.lastIRG <= INFINITY
           /\ e.lastRefTime \in Nat /\ e.lastRefTime <= MaxTime
  BY LoopQueueAssumption DEF Buffer

(* MoreValuable is a strict order, and so is its absence but for ties.     *)
LEMMA ValueOrder ==
    /\ \A e \in Buffer : ~MoreValuable(e, e)
    /\ \A e, f \in Buffer : MoreValuable(e, f) => ~MoreValuable(f, e)
    /\ \A e, f, g \in Buffer :
          ~MoreValuable(e, f) /\ ~MoreValuable(f, g) => ~MoreValuable(e, g)
    /\ \A e, f \in Buffer :
          ~MoreValuable(e, f) /\ ~MoreValuable(f, e) => e.lastRefTime = f.lastRefTime
  BY BufferType DEF MoreValuable

----------------------------------------------------------------------------
(* Heaps.                                                                  *)
Places(h) == 1..Len(h.q)

(* What a heap is made of: buffers in its places, a place for each block.  *)
LEMMA HeapType ==
    ASSUME NEW h \in Heap
    PROVE  /\ h.q \in Seq(Buffer) /\ Len(h.q) \in Nat /\ h.at \in [Blocks -> Nat]
           /\ DOMAIN h.q = Places(h) /\ h = [q |-> h.q, at |-> h.at]
           /\ \A i \in Places(h) : i \in Nat /\ i >= 1 /\ h.q[i] \in Buffer /\ h.q[i].blkno \in Blocks
  <1>1. h.q \in Seq(Buffer) /\ h.at \in [Blocks -> Nat] /\ h = [q |-> h.q, at |-> h.at]
    BY DEF Heap
  <1>2. \A i \in Places(h) : h.q[i] \in Buffer
    BY <1>1 DEF Places
  <1>. QED
    BY <1>1, <1>2, BufferType DEF Places

(* A heap from its parts.                                                  *)
LEMMA HeapIntro ==
    ASSUME NEW h, NEW n \in Nat, h = [q |-> h.q, at |-> h.at],
           h.q \in [1..n -> Buffer], h.at \in [Blocks -> Nat]
    PROVE  h \in Heap /\ Len(h.q) = n
  BY DEF Heap

(* The index is exact, in both directions.                                 *)
Exact(h) ==
    /\ \A i \in Places(h) : h.at[h.q[i].blkno] = i
    /\ \A b \in Blocks : h.at[b] # 0 => h.at[b] \in Places(h) /\ h.q[h.at[b]].blkno = b

(* The buffers in the first n places, and in all.                          *)
Front(h, n) == {h.q[i] : i \in 1..n}
Queue(h) == Front(h, Len(h.q))

(* Two buffers change places.                                              *)
LEMMA SwapKeeps ==
    ASSUME NEW h \in Heap, NEW i \in Places(h), NEW j \in Places(h), i # j,
           NEW g, g = Swap(h, i, j)
    PROVE  /\ g \in Heap /\ Len(g.q) = Len(h.q) /\ Places(g) = Places(h)
           /\ g.q[i] = h.q[j] /\ g.q[j] = h.q[i]
           /\ \A k \in Places(h) \ {i, j} : g.q[k] = h.q[k]
           /\ Exact(h) => Exact(g)
           /\ \A n \in Places(h) : i <= n /\ j <= n => Front(g, n) = Front(h, n)
  <1>1. /\ h.q \in Seq(Buffer) /\ Len(h.q) \in Nat /\ h.at \in [Blocks -> Nat]
        /\ \A k \in Places(h) : k \in Nat /\ h.q[k] \in Buffer /\ h.q[k].blkno \in Blocks
    BY HeapType
  <1>2. /\ g.q = [h.q EXCEPT ![i] = h.q[j], ![j] = h.q[i]]
        /\ g.at = [h.at EXCEPT ![h.q[i].blkno] = j, ![h.q[j].blkno] = i]
        /\ g = [q |-> g.q, at |-> g.at]
    BY DEF Swap
  <1>3. h.q \in [Places(h) -> Buffer]
    BY <1>1 DEF Places
  <1>4. g.q \in [Places(h) -> Buffer]
    BY <1>2, <1>3
  <1>5. g.at \in [Blocks -> Nat]
    <2>1. PICK a, b : a = h.q[i].blkno /\ b = h.q[j].blkno
      OBVIOUS
    <2>2. i \in Nat /\ j \in Nat /\ g.at = [h.at EXCEPT ![a] = j, ![b] = i]
      BY <1>1, <1>2, <2>1
    <2>3. h.at \in [Blocks -> Nat]
      BY <1>1
    <2>. QED
      BY <2>2, <2>3
  <1>6. g \in Heap /\ Len(g.q) = Len(h.q)
    BY <1>1, <1>2, <1>4, <1>5, HeapIntro DEF Places
  <1>7. Places(g) = Places(h)
    BY <1>6 DEF Places
  <1>8. /\ g.q[i] = h.q[j] /\ g.q[j] = h.q[i]
        /\ \A k \in Places(h) \ {i, j} : g.q[k] = h.q[k]
    BY <1>2, <1>3
  <1>9. ASSUME Exact(h) PROVE Exact(g)
    <2>1. h.q[i].blkno # h.q[j].blkno /\ h.q[i].blkno \in Blocks /\ h.q[j].blkno \in Blocks
      BY <1>1, <1>9 DEF Exact
    <2>2. /\ g.at[h.q[i].blkno] = j /\ g.at[h.q[j].blkno] = i
          /\ \A b \in Blocks \ {h.q[i].blkno, h.q[j].blkno} : g.at[b] = h.at[b]
      BY <1>1, <1>2, <2>1
    <2>3. ASSUME NEW k \in Places(g) PROVE g.at[g.q[k].blkno] = k
      <3>1. CASE k \in {i, j}
        BY <1>8, <2>2, <3>1
      <3>2. CASE k \notin {i, j}
        <4>1. h.at[h.q[k].blkno] = k /\ h.at[h.q[i].blkno] = i /\ h.at[h.q[j].blkno] = j
          BY <1>7, <1>9 DEF Exact
        <4>2. h.q[k].blkno \in Blocks \ {h.q[i].blkno, h.q[j].blkno}
          BY <1>1, <1>7, <3>2, <4>1
        <4>. QED
          BY <1>7, <1>8, <2>2, <3>2, <4>1, <4>2
      <3>. QED
        BY <3>1, <3>2
    <2>4. ASSUME NEW b \in Blocks, g.at[b] # 0
          PROVE  g.at[b] \in Places(g) /\ g.q[g.at[b]].blkno = b
      <3>1. CASE b \in {h.q[i].blkno, h.q[j].blkno}
        BY <1>7, <1>8, <2>2, <3>1
      <3>2. CASE b \notin {h.q[i].blkno, h.q[j].blkno}
        <4>1. g.at[b] = h.at[b] /\ h.at[b] \in Places(h) /\ h.q[h.at[b]].blkno = b
          BY <1>9, <2>2, <2>4, <3>2 DEF Exact
        <4>2. h.at[b] \notin {i, j}
          BY <3>2, <4>1
        <4>. QED
          BY <1>7, <1>8, <4>1, <4>2
      <3>. QED
        BY <3>1, <3>2
    <2>. QED
      BY <2>3, <2>4 DEF Exact
  <1>10. ASSUME NEW n \in Places(h), i <= n, j <= n PROVE Front(g, n) = Front(h, n)
    <2>1. i \in 1..n /\ j \in 1..n /\ 1..n \subseteq Places(h)
      BY <1>1, <1>10 DEF Places
    <2>2. ASSUME NEW k \in 1..n PROVE g.q[k] \in Front(h, n) /\ h.q[k] \in Front(g, n)
      <3>1. CASE k = i
        BY <1>8, <2>1, <3>1 DEF Front
      <3>2. CASE k = j
        BY <1>8, <2>1, <3>2 DEF Front
      <3>3. CASE k \notin {i, j}
        <4>1. g.q[k] = h.q[k]
          BY <1>8, <2>1, <3>3
        <4>. QED
          BY <4>1 DEF Front
      <3>. QED
        BY <3>1, <3>2, <3>3
    <2>3. Front(g, n) \subseteq Front(h, n) /\ Front(h, n) \subseteq Front(g, n)
      BY <2>2 DEF Front
    <2>. QED
      BY <2>3
  <1>. QED
    BY <1>6, <1>7, <1>8, <1>9, <1>10

----------------------------------------------------------------------------
(* The order of the heap, and the order with one buffer still to rise.     *)
InOrder(h) == \A i \in Places(h) \ {1} : ~MoreValuable(h.q[i \div 2], h.q[i])

InOrderBut(h, k) ==
    /\ \A i \in Places(h) \ {1, k} : ~MoreValuable(h.q[i \div 2], h.q[i])
    /\ k > 1 => \A i \in Places(h) : i \div 2 = k => ~MoreValuable(h.q[k \div 2], h.q[i])

(* What each turn of upheap's loop keeps: it began with h and k, and is at *)
(* g and i.                                                                *)
Risen(h, k, g, i) ==
    /\ g \in Heap /\ Len(g.q) = Len(h.q) /\ i \in Nat /\ i <= k
    /\ Exact(h) => Exact(g)
    /\ \A n \in Places(h) : k <= n => Front(g, n) = Front(h, n)
    /\ k \in Places(h) /\ InOrderBut(h, k) => i \in Places(h) /\ InOrderBut(g, i)

(* A buffer that changes places with its parent.                           *)
LEMMA RiseOrders ==
    ASSUME NEW g \in Heap, NEW i \in Nat, Rises(g, i), InOrderBut(g, i),
           NEW p, p = i \div 2, NEW x, x = Swap(g, i, p)
    PROVE  InOrderBut(x, p)
  <1>n. /\ p \in Nat /\ i \in Nat /\ p >= 1 /\ p < i /\ i \in Places(g) /\ p \in Places(g)
        /\ MoreValuable(g.q[p], g.q[i])
    <2>1. i \in 2..Len(g.q) /\ Len(g.q) \in Nat /\ MoreValuable(g.q[p], g.q[i])
      BY HeapType DEF Rises
    <2>2. p \in Nat /\ p >= 1 /\ p < i
      BY <2>1, Halves
    <2>. QED
      BY <2>1, <2>2 DEF Places
  <1>1. /\ x \in Heap /\ Places(x) = Places(g) /\ x.q[i] = g.q[p] /\ x.q[p] = g.q[i]
        /\ \A k \in Places(g) \ {i, p} : x.q[k] = g.q[k]
    BY <1>n, SwapKeeps
  <1>2. \A j \in Places(g) : g.q[j] \in Buffer /\ j \in Nat /\ j >= 1
    BY HeapType
  <1>3. \A j \in Places(g) \ {1} : j \div 2 \in Places(g) /\ j \div 2 < j
    <2>. SUFFICES ASSUME NEW j \in Places(g) \ {1} PROVE j \div 2 \in Places(g) /\ j \div 2 < j
      OBVIOUS
    <2>1. j \in Nat /\ j >= 2 /\ j <= Len(g.q) /\ Len(g.q) \in Nat
      BY HeapType DEF Places
    <2>2. j \div 2 \in Nat /\ j \div 2 >= 1 /\ j \div 2 < j
      BY <2>1, Halves
    <2>. QED
      BY <2>1, <2>2 DEF Places
  <1>4. /\ \A j \in Places(g) \ {1, i} : ~MoreValuable(g.q[j \div 2], g.q[j])
        /\ \A j \in Places(g) : j \div 2 = i => ~MoreValuable(g.q[p], g.q[j])
    BY <1>n DEF InOrderBut
  <1>5. ~MoreValuable(g.q[i], g.q[p])
    BY <1>n, <1>2, ValueOrder
  <1>6. ASSUME NEW j \in Places(g) \ {1, p} PROVE ~MoreValuable(x.q[j \div 2], x.q[j])
    <2>1. CASE j = i
      BY <1>1, <1>5, <2>1
    <2>2. CASE j # i /\ j \div 2 = i
      BY <1>1, <1>4, <1>6, <2>2
    <2>3. CASE j # i /\ j \div 2 = p
      <3>1. ~MoreValuable(g.q[p], g.q[j])
        BY <1>4, <1>6, <2>3
      <3>2. ~MoreValuable(g.q[i], g.q[j])
        BY <1>n, <1>2, <1>5, <1>6, <3>1, ValueOrder
      <3>. QED
        BY <1>1, <1>6, <2>3, <3>2
    <2>4. CASE j # i /\ j \div 2 \notin {i, p}
      <3>1. x.q[j] = g.q[j] /\ x.q[j \div 2] = g.q[j \div 2]
        BY <1>1, <1>3, <1>6, <2>4
      <3>. QED
        BY <1>4, <1>6, <2>4, <3>1
    <2>. QED
      BY <2>1, <2>2, <2>3, <2>4
  <1>7. ASSUME p > 1, NEW j \in Places(g), j \div 2 = p PROVE ~MoreValuable(x.q[p \div 2], x.q[j])
    <2>1. p \div 2 \in Places(g) /\ p \div 2 < p /\ p \div 2 \in Nat
      BY <1>n, <1>2, <1>3, <1>7
    <2>2. x.q[p \div 2] = g.q[p \div 2]
      BY <1>n, <1>1, <2>1
    <2>3. ~MoreValuable(g.q[p \div 2], g.q[p])
      BY <1>n, <1>4, <1>7
    <2>4. CASE j = i
      BY <1>1, <2>2, <2>3, <2>4
    <2>5. CASE j # i
      <3>1. j # 1 /\ j # p
        BY <1>n, <1>7, Halves
      <3>2. ~MoreValuable(g.q[p], g.q[j]) /\ x.q[j] = g.q[j]
        BY <1>1, <1>4, <1>7, <2>5, <3>1
      <3>3. ~MoreValuable(g.q[p \div 2], g.q[j])
        BY <1>n, <1>2, <2>1, <2>3, <3>2, ValueOrder
      <3>. QED
        BY <2>2, <3>2, <3>3
    <2>. QED
      BY <2>4, <2>5
  <1>. QED
    BY <1>1, <1>6, <1>7 DEF InOrderBut

(* One turn of upheap's loop.                                              *)
LEMMA RiseKeeps ==
    ASSUME NEW h \in Heap, NEW k \in Nat, NEW g, NEW i, Risen(h, k, g, i), Rises(g, i)
    PROVE  Risen(h, k, Swap(g, i, i \div 2), i \div 2)
  <1> DEFINE p == i \div 2
             x == Swap(g, i, p)
  <1>1. g \in Heap /\ Len(g.q) = Len(h.q) /\ i \in Nat /\ i <= k /\ Places(g) = Places(h)
    BY DEF Risen, Places
  <1>2. i \in 2..Len(g.q) /\ Len(g.q) \in Nat
    BY <1>1, HeapType DEF Rises
  <1>3. p \in Nat /\ p >= 1 /\ p < i
    BY <1>2, Halves
  <1>4. i \in Places(g) /\ p \in Places(g) /\ i # p
    BY <1>2, <1>3 DEF Places
  <1>o. InOrderBut(g, i) => InOrderBut(x, p)
    BY <1>1, RiseOrders
  <1>. HIDE DEF p
  <1>5. /\ x \in Heap /\ Len(x.q) = Len(g.q) /\ (Exact(g) => Exact(x))
        /\ \A n \in Places(g) : i <= n /\ p <= n => Front(x, n) = Front(g, n)
    BY <1>1, <1>4, SwapKeeps
  <1>. HIDE DEF x
  <1>6. ASSUME NEW n \in Places(h), k <= n PROVE Front(x, n) = Front(h, n)
    <2>1. n \in Nat /\ i <= n /\ p <= n
      BY <1>1, <1>3, <1>6 DEF Places
    <2>2. Front(x, n) = Front(g, n)
      BY <1>1, <1>5, <2>1
    <2>3. Front(g, n) = Front(h, n)
      BY <1>6 DEF Risen
    <2>. QED
      BY <2>2, <2>3
  <1>7. p <= k
    BY <1>1, <1>3
  <1>8. Risen(h, k, x, p)
    BY <1>1, <1>3, <1>4, <1>5, <1>6, <1>7, <1>o DEF Risen
  <1>. QED
    BY <1>8 DEF x, p

(* upheap's loop, in the terms of LoopComputes.                            *)
UpGo   == {c \in Heap \X Nat : Rises(c[1], c[2])}
UpStep == [c \in UpGo |-> <<Swap(c[1], c[2], c[2] \div 2), c[2] \div 2>>]
UpBase == [c \in Heap \X Nat |-> c[1]]
UpRank == [c \in Heap \X Nat |-> c[2]]

(* The index halves with each turn, so the loop ends.                      *)
LEMMA UpTerminates == Terminates(Heap \X Nat, UpGo, UpStep, UpRank)
  <1>1. ASSUME NEW c \in UpGo
        PROVE  /\ UpStep[c] \in Heap \X Nat /\ UpRank[UpStep[c]] < UpRank[c]
    <2>1. c \in Heap \X Nat /\ c[1] \in Heap /\ c[2] \in Nat /\ Rises(c[1], c[2])
      BY DEF UpGo
    <2>2. c[2] \in 2..Len(c[1].q) /\ Len(c[1].q) \in Nat
      BY <2>1, HeapType DEF Rises
    <2>3. c[2] \div 2 \in Nat /\ c[2] \div 2 >= 1 /\ c[2] \div 2 < c[2]
      BY <2>2, Halves
    <2>4. c[2] \in Places(c[1]) /\ c[2] \div 2 \in Places(c[1])
      BY <2>2, <2>3 DEF Places
    <2>5. Swap(c[1], c[2], c[2] \div 2) \in Heap
      BY <2>1, <2>3, <2>4, SwapKeeps
    <2>6. UpStep[c] = <<Swap(c[1], c[2], c[2] \div 2), c[2] \div 2>>
      BY DEF UpStep
    <2>. QED
      BY <2>1, <2>3, <2>5, <2>6 DEF UpRank
  <1>2. UpStep \in [UpGo -> Heap \X Nat]
    BY <1>1 DEF UpStep
  <1>3. UpRank \in [Heap \X Nat -> Nat]
    BY DEF UpRank
  <1>. QED
    BY <1>1, <1>2, <1>3 DEF Terminates

(* up is what the loop computes.                                           *)
LEMMA UpComputes == Computes(up, Heap \X Nat, UpGo, UpStep, UpBase)
  <1>1. UpGo \in SUBSET (Heap \X Nat)
    BY DEF UpGo
  <1>2. \E f : Computes(f, Heap \X Nat, UpGo, UpStep, UpBase)
    BY <1>1, UpTerminates, LoopComputes
  <1>3. ASSUME NEW f
        PROVE  Computes(f, Heap \X Nat, UpGo, UpStep, UpBase) <=>
                  f = [c \in Heap \X Nat |->
                         IF Rises(c[1], c[2])
                         THEN f[<<Swap(c[1], c[2], c[2] \div 2), c[2] \div 2>>] ELSE c[1]]
    BY DEF Computes, UpGo, UpStep, UpBase
  <1>4. up = [c \in Heap \X Nat |->
                 IF Rises(c[1], c[2])
                 THEN up[<<Swap(c[1], c[2], c[2] \div 2), c[2] \div 2>>] ELSE c[1]]
    BY <1>2, <1>3, Zenon DEF up
  <1>. QED
    BY <1>3, <1>4

(* An invariant of its turns holds of its result.                          *)
LEMMA UpResult ==
    ASSUME NEW P \in SUBSET (Heap \X Nat), NEW Q, TurnsKeep(P, Q, UpGo, UpStep, UpBase)
    PROVE  \A c \in P : up[c] \in Q
  <1>1. UpGo \in SUBSET (Heap \X Nat)
    BY DEF UpGo
  <1>2. PICK D : D = Heap \X Nat
    OBVIOUS
  <1>3. PICK f : f = up
    OBVIOUS
  <1>4. /\ UpGo \in SUBSET D /\ Terminates(D, UpGo, UpStep, UpRank)
        /\ Computes(f, D, UpGo, UpStep, UpBase) /\ P \in SUBSET D
    BY <1>1, <1>2, <1>3, UpTerminates, UpComputes
  <1>5. \A d \in P : f[d] \in Q
    BY <1>4, LoopResult, ZenonT(40)
  <1>. QED
    BY <1>3, <1>5

(* upheap: the heap stays one, with its buffers and an exact index, and if *)
(* only the buffer at k was out of order, it is in order.                  *)
LEMMA upheapKeeps ==
    ASSUME NEW h \in Heap, NEW k \in Nat, NEW g, g = upheap(h, k)
    PROVE  /\ g \in Heap /\ Len(g.q) = Len(h.q)
           /\ Exact(h) => Exact(g)
           /\ \A n \in Places(h) : k <= n => Front(g, n) = Front(h, n)
           /\ k \in Places(h) /\ InOrderBut(h, k) => InOrder(g)
  <1> DEFINE P == {c \in Heap \X Nat : Risen(h, k, c[1], c[2])}
             Q == {x \in Heap : \E i \in Nat : Risen(h, k, x, i) /\ ~Rises(x, i)}
  <1>1. UpGo \in SUBSET (Heap \X Nat) /\ P \in SUBSET (Heap \X Nat)
    BY DEF UpGo
  <1>2. ASSUME NEW c \in P \cap UpGo PROVE UpStep[c] \in P
    <2>1. c[1] \in Heap /\ c[2] \in Nat /\ Risen(h, k, c[1], c[2]) /\ Rises(c[1], c[2])
      BY DEF UpGo
    <2>2. Risen(h, k, Swap(c[1], c[2], c[2] \div 2), c[2] \div 2)
      BY <2>1, RiseKeeps
    <2>3. UpStep[c] = <<Swap(c[1], c[2], c[2] \div 2), c[2] \div 2>>
      BY DEF UpStep
    <2>. QED
      BY <2>2, <2>3 DEF Risen
  <1>3. ASSUME NEW c \in P \ UpGo PROVE UpBase[c] \in Q
    <2>1. c[1] \in Heap /\ c[2] \in Nat /\ Risen(h, k, c[1], c[2]) /\ ~Rises(c[1], c[2])
      BY DEF UpGo
    <2>2. UpBase[c] = c[1]
      BY DEF UpBase
    <2>. QED
      BY <2>1, <2>2
  <1>4. Risen(h, k, h, k)
    BY DEF Risen
  <1>5. <<h, k>> \in P
    BY <1>4
  <1>6. g = up[<<h, k>>]
    BY DEF upheap
  <1>7. \A c \in P : up[c] \in Q
    <2>1. TurnsKeep(P, Q, UpGo, UpStep, UpBase)
      BY <1>2, <1>3 DEF TurnsKeep
    <2>. HIDE DEF P, Q
    <2>. QED
      BY <1>1, <2>1, UpResult
  <1>8. g \in Q
    BY <1>5, <1>6, <1>7
  <1>9. PICK i \in Nat : Risen(h, k, g, i) /\ ~Rises(g, i)
    BY <1>8
  <1>10. ASSUME k \in Places(h), InOrderBut(h, k) PROVE InOrder(g)
    <2>1. i \in Places(g) /\ InOrderBut(g, i)
      BY <1>9, <1>10 DEF Risen, Places
    <2>2. i = 1 \/ ~MoreValuable(g.q[i \div 2], g.q[i])
      BY <1>9, <2>1 DEF Rises, Places
    <2>. QED
      BY <2>1, <2>2 DEF InOrder, InOrderBut
  <1>. QED
    BY <1>9, <1>10 DEF Risen

----------------------------------------------------------------------------
(* The order with one buffer still to sink.                                *)
InOrderUnder(h, k) ==
    /\ \A i \in Places(h) \ {1} : i \div 2 # k => ~MoreValuable(h.q[i \div 2], h.q[i])
    /\ k > 1 => \A i \in Places(h) : i \div 2 = k => ~MoreValuable(h.q[k \div 2], h.q[i])

(* What each turn of downheap's loop keeps.                                *)
Sunk(h, k, g, i) ==
    /\ g \in Heap /\ Len(g.q) = Len(h.q) /\ i \in Nat
    /\ Exact(h) => Exact(g)
    /\ Queue(g) = Queue(h)
    /\ k >= 1 /\ InOrderUnder(h, k) => i >= 1 /\ InOrderUnder(g, i)

(* The place of a parent.                                                  *)
LEMMA Parent ==
    ASSUME NEW h \in Heap, NEW j \in Places(h), j # 1
    PROVE  j \div 2 \in Places(h) /\ j \div 2 < j /\ j \in Nat /\ j \div 2 \in Nat
  <1>1. j \in Nat /\ j >= 2 /\ j <= Len(h.q) /\ Len(h.q) \in Nat
    BY HeapType DEF Places
  <1>2. j \div 2 \in Nat /\ j \div 2 >= 1 /\ j \div 2 < j
    BY <1>1, Halves
  <1>. QED
    BY <1>1, <1>2 DEF Places

(* The child that downheap looks at is the least valuable one.             *)
LEMMA LeastChildIs ==
    ASSUME NEW g \in Heap, NEW i \in 1..(Len(g.q) \div 2), NEW c, c = LeastChild(g, i)
    PROVE  /\ c \in Places(g) /\ c \in Nat /\ c \div 2 = i /\ c > i /\ i \in Places(g) /\ i \in Nat
           /\ \A j \in Places(g) : j \div 2 = i => ~MoreValuable(g.q[c], g.q[j])
  <1>1. Len(g.q) \in Nat /\ \A j \in Places(g) : j \in Nat /\ g.q[j] \in Buffer
    BY HeapType
  <1>2. PICK n : n = Len(g.q) \div 2
    OBVIOUS
  <1>a. n \in Nat /\ 2 * n <= Len(g.q) /\ i \in 1..n
    BY <1>1, <1>2, Halves
  <1>3. i \in Nat /\ i >= 1 /\ 2 * i <= Len(g.q) /\ 2 * i \in Nat /\ 2 * i + 1 \in Nat
    BY <1>1, <1>a
  <1>4. (2 * i) \div 2 = i /\ (2 * i + 1) \div 2 = i
    BY <1>3, Halves
  <1>5. 2 * i \in Places(g) /\ i \in Places(g)
    BY <1>1, <1>3 DEF Places
  <1>6. \A j \in Places(g) : j \div 2 = i => j = 2 * i \/ j = 2 * i + 1
    BY <1>1, <1>3, Halves
  <1>7. CASE 2 * i < Len(g.q) /\ MoreValuable(g.q[2 * i], g.q[2 * i + 1])
    <2>1. c = 2 * i + 1
      BY <1>7 DEF LeastChild
    <2>2. 2 * i + 1 \in Places(g)
      BY <1>1, <1>3, <1>7 DEF Places
    <2>3. ~MoreValuable(g.q[2 * i + 1], g.q[2 * i]) /\ ~MoreValuable(g.q[2 * i + 1], g.q[2 * i + 1])
      BY <1>1, <1>5, <1>7, <2>2, ValueOrder
    <2>4. \A j \in Places(g) : j \div 2 = i => ~MoreValuable(g.q[c], g.q[j])
      BY <1>6, <2>1, <2>3
    <2>5. c > i
      BY <1>3, <2>1
    <2>. QED
      BY <1>3, <1>4, <1>5, <2>1, <2>2, <2>4, <2>5
  <1>8. CASE ~(2 * i < Len(g.q) /\ MoreValuable(g.q[2 * i], g.q[2 * i + 1]))
    <2>1. c = 2 * i
      BY <1>8 DEF LeastChild
    <2>2. ~MoreValuable(g.q[2 * i], g.q[2 * i])
      BY <1>1, <1>5, ValueOrder
    <2>3. 2 * i + 1 \in Places(g) => 2 * i < Len(g.q)
      BY <1>1, <1>3 DEF Places
    <2>4. \A j \in Places(g) : j \div 2 = i => ~MoreValuable(g.q[c], g.q[j])
      BY <1>6, <1>8, <2>1, <2>2, <2>3
    <2>5. c > i
      BY <1>3, <2>1
    <2>. QED
      BY <1>3, <1>4, <1>5, <2>1, <2>4, <2>5
  <1>. QED
    BY <1>7, <1>8

(* A buffer that changes places with its least valuable child.             *)
LEMMA SinkOrders ==
    ASSUME NEW g \in Heap, NEW i \in Nat, Sinks(g, i), InOrderUnder(g, i),
           NEW c, c = LeastChild(g, i), NEW x, x = Swap(g, i, c)
    PROVE  InOrderUnder(x, c)
  <1>n. /\ c \in Places(g) /\ c \in Nat /\ c \div 2 = i /\ c > i /\ i \in Places(g) /\ i # c
        /\ \A j \in Places(g) : j \div 2 = i => ~MoreValuable(g.q[c], g.q[j])
        /\ MoreValuable(g.q[i], g.q[c]) /\ i >= 1
    BY LeastChildIs, HeapType DEF Sinks
  <1>1. /\ x \in Heap /\ Places(x) = Places(g) /\ x.q[i] = g.q[c] /\ x.q[c] = g.q[i]
        /\ \A k \in Places(g) \ {i, c} : x.q[k] = g.q[k]
    BY <1>n, SwapKeeps
  <1>2. \A j \in Places(g) : g.q[j] \in Buffer /\ j \in Nat /\ j >= 1
    BY HeapType
  <1>3. \A j \in Places(g) \ {1} : j \div 2 \in Places(g) /\ j \div 2 < j
    BY Parent
  <1>4. /\ \A j \in Places(g) \ {1} : j \div 2 # i => ~MoreValuable(g.q[j \div 2], g.q[j])
        /\ i > 1 => ~MoreValuable(g.q[i \div 2], g.q[c])
    BY <1>n DEF InOrderUnder
  <1>5. ~MoreValuable(g.q[c], g.q[i])
    BY <1>n, <1>2, ValueOrder
  <1>6. ASSUME NEW j \in Places(g) \ {1}, j \div 2 # c PROVE ~MoreValuable(x.q[j \div 2], x.q[j])
    <2>1. CASE j = c
      BY <1>n, <1>1, <1>5, <2>1
    <2>2. CASE j # c /\ j \div 2 = i
      <3>1. j # i
        BY <1>3, <2>2
      <3>. QED
        BY <1>n, <1>1, <2>2, <3>1
    <2>3. CASE j = i
      <3>1. i > 1 /\ i \div 2 \in Places(g) \ {i, c}
        BY <1>n, <1>2, <1>3, <1>6, <2>3
      <3>. QED
        BY <1>1, <1>4, <2>3, <3>1
    <2>4. CASE j \notin {i, c} /\ j \div 2 # i
      <3>1. x.q[j] = g.q[j] /\ x.q[j \div 2] = g.q[j \div 2]
        BY <1>1, <1>3, <1>6, <2>4
      <3>. QED
        BY <1>4, <2>4, <3>1
    <2>. QED
      BY <2>1, <2>2, <2>3, <2>4
  <1>7. ASSUME NEW j \in Places(g), j \div 2 = c PROVE ~MoreValuable(x.q[c \div 2], x.q[j])
    <2>1. j # 1 /\ j # c /\ j # i
      <3>1. j # 1
        BY <1>n, <1>7, Halves
      <3>2. c < j
        BY <1>3, <1>7, <3>1
      <3>. QED
        BY <1>n, <1>2, <3>1, <3>2
    <2>2. ~MoreValuable(g.q[c], g.q[j])
      BY <1>n, <1>4, <1>7, <2>1
    <2>. QED
      BY <1>n, <1>1, <2>1, <2>2
  <1>. QED
    BY <1>1, <1>6, <1>7 DEF InOrderUnder

(* One turn of downheap's loop.                                            *)
LEMMA SinkKeeps ==
    ASSUME NEW h \in Heap, NEW k \in Nat, NEW g, NEW i, Sunk(h, k, g, i), Sinks(g, i),
           NEW c, c = LeastChild(g, i)
    PROVE  Sunk(h, k, Swap(g, i, c), c)
  <1>1. g \in Heap /\ Len(g.q) = Len(h.q) /\ i \in Nat /\ Places(g) = Places(h) /\ Len(g.q) \in Nat
    BY HeapType DEF Sunk, Places
  <1>2. c \in Places(g) /\ c \in Nat /\ i \in Places(g) /\ i # c /\ c >= 1
    BY <1>1, LeastChildIs, HeapType DEF Sinks
  <1>3. PICK x : x = Swap(g, i, c)
    OBVIOUS
  <1>4. InOrderUnder(g, i) => InOrderUnder(x, c)
    BY <1>1, <1>3, SinkOrders
  <1>5. /\ x \in Heap /\ Len(x.q) = Len(g.q) /\ (Exact(g) => Exact(x))
        /\ \A n \in Places(g) : i <= n /\ c <= n => Front(x, n) = Front(g, n)
    BY <1>1, <1>2, <1>3, SwapKeeps
  <1>6. Len(g.q) \in Places(g) /\ i <= Len(g.q) /\ c <= Len(g.q)
    BY <1>1, <1>2 DEF Places
  <1>7. Queue(x) = Queue(g)
    BY <1>5, <1>6 DEF Queue
  <1>8. Sunk(h, k, x, c)
    BY <1>1, <1>2, <1>4, <1>5, <1>7 DEF Sunk
  <1>. QED
    BY <1>3, <1>8

(* downheap's loop, in the terms of LoopComputes.                          *)
DownGo   == {c \in Heap \X Nat : Sinks(c[1], c[2])}
DownStep == [c \in DownGo |-> <<Swap(c[1], c[2], LeastChild(c[1], c[2])), LeastChild(c[1], c[2])>>]
DownBase == [c \in Heap \X Nat |-> c[1]]
DownRank == [c \in Heap \X Nat |-> IF c[2] <= Len(c[1].q) THEN Len(c[1].q) - c[2] ELSE 0]

(* The index grows with each turn, and stays in the heap.                  *)
LEMMA DownTerminates == Terminates(Heap \X Nat, DownGo, DownStep, DownRank)
  <1>1. ASSUME NEW c \in DownGo
        PROVE  /\ DownStep[c] \in Heap \X Nat /\ DownRank[DownStep[c]] < DownRank[c]
    <2>1. c \in Heap \X Nat /\ c[1] \in Heap /\ c[2] \in Nat /\ Sinks(c[1], c[2])
      BY DEF DownGo
    <2>2. PICK k : k = LeastChild(c[1], c[2])
      OBVIOUS
    <2>3. /\ k \in Places(c[1]) /\ k \in Nat /\ k > c[2] /\ c[2] \in Places(c[1]) /\ c[2] # k
          /\ Len(c[1].q) \in Nat
      <3>1. c[1] \in Heap /\ c[2] \in 1..(Len(c[1].q) \div 2) /\ Len(c[1].q) \in Nat
        BY <2>1, HeapType DEF Sinks
      <3>2. PICK h, i : h = c[1] /\ i = c[2]
        OBVIOUS
      <3>3. k \in Places(h) /\ k \in Nat /\ k > i /\ i \in Places(h) /\ i \in Nat
        <4>1. h \in Heap /\ i \in 1..(Len(h.q) \div 2) /\ k = LeastChild(h, i)
          BY <2>2, <3>1, <3>2
        <4>. QED
          BY <4>1, LeastChildIs
      <3>. QED
        BY <3>1, <3>2, <3>3
    <2>4. PICK g : g = Swap(c[1], c[2], k)
      OBVIOUS
    <2>5. g \in Heap /\ Len(g.q) = Len(c[1].q)
      BY <2>1, <2>3, <2>4, SwapKeeps
    <2>6. DownStep[c] = <<g, k>>
      BY <2>2, <2>4 DEF DownStep
    <2>7. k <= Len(c[1].q) /\ c[2] <= Len(c[1].q)
      BY <2>3 DEF Places
    <2>8. <<g, k>> \in Heap \X Nat
      BY <2>3, <2>5
    <2>9. DownRank[<<g, k>>] = Len(c[1].q) - k /\ DownRank[c] = Len(c[1].q) - c[2]
      BY <2>1, <2>5, <2>7, <2>8 DEF DownRank
    <2>. QED
      BY <2>1, <2>3, <2>6, <2>8, <2>9
  <1>2. DownStep \in [DownGo -> Heap \X Nat]
    BY <1>1 DEF DownStep
  <1>3. DownRank \in [Heap \X Nat -> Nat]
    <2>. SUFFICES ASSUME NEW c \in Heap \X Nat
                  PROVE  (IF c[2] <= Len(c[1].q) THEN Len(c[1].q) - c[2] ELSE 0) \in Nat
      BY DEF DownRank
    <2>1. Len(c[1].q) \in Nat /\ c[2] \in Nat
      BY HeapType
    <2>. QED
      BY <2>1
  <1>. QED
    BY <1>1, <1>2, <1>3 DEF Terminates

(* down is what the loop computes.                                         *)
LEMMA DownComputes == Computes(down, Heap \X Nat, DownGo, DownStep, DownBase)
  <1>1. DownGo \in SUBSET (Heap \X Nat)
    BY DEF DownGo
  <1>2. \E f : Computes(f, Heap \X Nat, DownGo, DownStep, DownBase)
    BY <1>1, DownTerminates, LoopComputes
  <1>3. ASSUME NEW f
        PROVE  Computes(f, Heap \X Nat, DownGo, DownStep, DownBase) <=>
                  f = [c \in Heap \X Nat |->
                         IF Sinks(c[1], c[2])
                         THEN f[<<Swap(c[1], c[2], LeastChild(c[1], c[2])), LeastChild(c[1], c[2])>>]
                         ELSE c[1]]
    BY DEF Computes, DownGo, DownStep, DownBase
  <1>4. down = [c \in Heap \X Nat |->
                   IF Sinks(c[1], c[2])
                   THEN down[<<Swap(c[1], c[2], LeastChild(c[1], c[2])), LeastChild(c[1], c[2])>>]
                   ELSE c[1]]
    BY <1>2, <1>3, Zenon DEF down
  <1>. QED
    BY <1>3, <1>4

(* An invariant of its turns holds of its result.                          *)
LEMMA DownResult ==
    ASSUME NEW P \in SUBSET (Heap \X Nat), NEW Q, TurnsKeep(P, Q, DownGo, DownStep, DownBase)
    PROVE  \A c \in P : down[c] \in Q
  <1>1. DownGo \in SUBSET (Heap \X Nat)
    BY DEF DownGo
  <1>2. PICK D : D = Heap \X Nat
    OBVIOUS
  <1>3. PICK f : f = down
    OBVIOUS
  <1>4. /\ DownGo \in SUBSET D /\ Terminates(D, DownGo, DownStep, DownRank)
        /\ Computes(f, D, DownGo, DownStep, DownBase) /\ P \in SUBSET D
    BY <1>1, <1>2, <1>3, DownTerminates, DownComputes
  <1>5. \A d \in P : f[d] \in Q
    BY <1>4, LoopResult, ZenonT(40)
  <1>. QED
    BY <1>3, <1>5

(* Where downheap's loop stops, the buffer has sunk far enough.            *)
LEMMA SunkIsInOrder ==
    ASSUME NEW g \in Heap, NEW i \in Nat, i >= 1, InOrderUnder(g, i), ~Sinks(g, i)
    PROVE  InOrder(g)
  <1>. SUFFICES ASSUME NEW j \in Places(g) \ {1} PROVE ~MoreValuable(g.q[j \div 2], g.q[j])
    BY DEF InOrder
  <1>1. CASE j \div 2 # i
    BY <1>1 DEF InOrderUnder
  <1>2. CASE j \div 2 = i
    <2>1. PICK n : n = Len(g.q) \div 2
      OBVIOUS
    <2>2. Len(g.q) \in Nat /\ j \in Nat /\ j <= Len(g.q) /\ (j = 2 * i \/ j = 2 * i + 1)
      BY <1>2, HeapType, Halves DEF Places
    <2>3. n \in Nat /\ Len(g.q) <= 2 * n + 1
      BY <2>1, <2>2, Halves
    <2>4. i \in 1..n
      BY <2>2, <2>3
    <2>5. PICK c : c = LeastChild(g, i)
      OBVIOUS
    <2>6. ~MoreValuable(g.q[i], g.q[c])
      BY <2>1, <2>4, <2>5 DEF Sinks
    <2>7. c \in Places(g) /\ i \in Places(g) /\ ~MoreValuable(g.q[c], g.q[j])
      BY <1>2, <2>1, <2>4, <2>5, LeastChildIs
    <2>. QED
      BY <1>2, <2>6, <2>7, HeapType, ValueOrder
  <1>. QED
    BY <1>1, <1>2

(* downheap: the heap stays one, with its buffers and an exact index, and  *)
(* if only the buffer at k was out of order, it is in order.               *)
LEMMA downheapKeeps ==
    ASSUME NEW h \in Heap, NEW k \in Nat, k >= 1, NEW g, g = downheap(h, k)
    PROVE  /\ g \in Heap /\ Len(g.q) = Len(h.q)
           /\ Exact(h) => Exact(g)
           /\ Queue(g) = Queue(h)
           /\ InOrderUnder(h, k) => InOrder(g)
  <1> DEFINE P == {c \in Heap \X Nat : Sunk(h, k, c[1], c[2])}
             Q == {x \in Heap : \E i \in Nat : Sunk(h, k, x, i) /\ ~Sinks(x, i)}
  <1>1. DownGo \in SUBSET (Heap \X Nat) /\ P \in SUBSET (Heap \X Nat)
    BY DEF DownGo
  <1>2. ASSUME NEW c \in P \cap DownGo PROVE DownStep[c] \in P
    <2>1. c[1] \in Heap /\ c[2] \in Nat /\ Sunk(h, k, c[1], c[2]) /\ Sinks(c[1], c[2])
      BY DEF DownGo
    <2>2. PICK j : j = LeastChild(c[1], c[2])
      OBVIOUS
    <2>3. Sunk(h, k, Swap(c[1], c[2], j), j)
      BY <2>1, <2>2, SinkKeeps
    <2>4. DownStep[c] = <<Swap(c[1], c[2], j), j>>
      BY <2>2 DEF DownStep
    <2>. QED
      BY <2>3, <2>4 DEF Sunk
  <1>3. ASSUME NEW c \in P \ DownGo PROVE DownBase[c] \in Q
    <2>1. c[1] \in Heap /\ c[2] \in Nat /\ Sunk(h, k, c[1], c[2]) /\ ~Sinks(c[1], c[2])
      BY DEF DownGo
    <2>2. DownBase[c] = c[1]
      BY DEF DownBase
    <2>. QED
      BY <2>1, <2>2
  <1>4. Sunk(h, k, h, k)
    BY DEF Sunk
  <1>5. <<h, k>> \in P
    BY <1>4
  <1>6. g = down[<<h, k>>]
    BY DEF downheap
  <1>7. \A c \in P : down[c] \in Q
    <2>1. TurnsKeep(P, Q, DownGo, DownStep, DownBase)
      BY <1>2, <1>3 DEF TurnsKeep
    <2>. HIDE DEF P, Q
    <2>. QED
      BY <1>1, <2>1, DownResult
  <1>8. g \in Q
    BY <1>5, <1>6, <1>7
  <1>9. PICK i \in Nat : Sunk(h, k, g, i) /\ ~Sinks(g, i)
    BY <1>8
  <1>10. ASSUME InOrderUnder(h, k) PROVE InOrder(g)
    BY <1>9, <1>10, SunkIsInOrder DEF Sunk
  <1>. QED
    BY <1>9, <1>10 DEF Sunk

----------------------------------------------------------------------------
(* The root of a heap in order is the least valuable buffer: a place whose *)
(* buffer is less valuable, and which is the first such place, has a       *)
(* parent whose buffer is no more valuable than the root's.                *)
LEMMA RootIsLeast ==
    ASSUME NEW h \in Heap, InOrder(h), NEW i \in Places(h)
    PROVE  ~MoreValuable(h.q[1], h.q[i])
  <1> DEFINE Bad == {j \in Places(h) : MoreValuable(h.q[1], h.q[j])}
  <1>1. SUFFICES ASSUME Bad # {} PROVE FALSE
    OBVIOUS
  <1>2. Bad \in SUBSET Nat
    BY DEF Places
  <1>3. PICK j \in Bad : \A k \in Bad : j <= k
    BY <1>1, <1>2, LeastExists
  <1>4. 1 \in Places(h) /\ \A k \in Places(h) : h.q[k] \in Buffer
    BY HeapType DEF Places
  <1>5. j # 1
    BY <1>3, <1>4, ValueOrder
  <1>6. j \div 2 \in Places(h) /\ j \div 2 < j /\ j \div 2 \in Nat /\ j \in Nat
    BY <1>5, Parent
  <1>7. j \div 2 \notin Bad
    BY <1>3, <1>6
  <1>8. ~MoreValuable(h.q[1], h.q[j \div 2]) /\ ~MoreValuable(h.q[j \div 2], h.q[j])
    BY <1>5, <1>6, <1>7 DEF InOrder
  <1>. QED
    BY <1>3, <1>4, <1>6, <1>8, ValueOrder

(* Behind the root, the least valuable buffer is one of its children.      *)
LEMMA SecondIsLeast ==
    ASSUME NEW h \in Heap, InOrder(h), NEW c \in {2, 3} \cap Places(h),
           \A d \in {2, 3} \cap Places(h) : ~MoreValuable(h.q[c], h.q[d]),
           NEW i \in Places(h) \ {1}
    PROVE  ~MoreValuable(h.q[c], h.q[i])
  <1> DEFINE Bad == {j \in Places(h) \ {1} : MoreValuable(h.q[c], h.q[j])}
  <1>1. SUFFICES ASSUME Bad # {} PROVE FALSE
    OBVIOUS
  <1>2. Bad \in SUBSET Nat
    BY DEF Places
  <1>3. PICK j \in Bad : \A k \in Bad : j <= k
    BY <1>1, <1>2, LeastExists
  <1>4. \A k \in Places(h) : h.q[k] \in Buffer
    BY HeapType
  <1>5. j \notin {2, 3}
    BY <1>3
  <1>6. j \div 2 \in Places(h) /\ j \div 2 < j /\ j \div 2 \in Nat /\ j \in Nat
    BY Parent
  <1>7. j \div 2 # 1
    BY <1>5, <1>6, Halves
  <1>8. j \div 2 \notin Bad
    BY <1>3, <1>6
  <1>9. ~MoreValuable(h.q[c], h.q[j \div 2]) /\ ~MoreValuable(h.q[j \div 2], h.q[j])
    BY <1>6, <1>7, <1>8 DEF InOrder
  <1>. QED
    BY <1>3, <1>4, <1>6, <1>9, ValueOrder

----------------------------------------------------------------------------
(* The operations on the heap: each keeps it sound.                        *)
Sound(h) == h \in Heap /\ Exact(h) /\ InOrder(h)

(* A buffer is in one place only, and a block in one buffer.               *)
LEMMA OncePlaced ==
    ASSUME NEW h \in Heap, Exact(h)
    PROVE  /\ \A i, j \in Places(h) : h.q[i].blkno = h.q[j].blkno => i = j
           /\ \A e \in Queue(h) : e \in Buffer /\ h.at[e.blkno] # 0
           /\ \A b \in Blocks : h.at[b] = 0 <=> \A e \in Queue(h) : e.blkno # b
  <1>1. \A i, j \in Places(h) : h.q[i].blkno = h.q[j].blkno => i = j
    BY DEF Exact
  <1>2. \A i \in Places(h) : h.q[i] \in Buffer /\ h.at[h.q[i].blkno] = i /\ i # 0
    BY HeapType DEF Exact
  <1>3. Queue(h) = {h.q[i] : i \in Places(h)}
    BY DEF Queue, Front, Places
  <1>4. ASSUME NEW b \in Blocks, h.at[b] # 0 PROVE \E e \in Queue(h) : e.blkno = b
    BY <1>3, <1>4 DEF Exact
  <1>. QED
    BY <1>1, <1>2, <1>3, <1>4

(* A buffer comes in at the end.                                           *)
Appended(h, e) ==
    [q |-> Append(h.q, e), at |-> [h.at EXCEPT ![e.blkno] = Len(h.q) + 1]]

(* Only the new buffer may be out of order.                                *)
LEMMA AppendKeeps ==
    ASSUME NEW h, Sound(h), NEW e \in Buffer, h.at[e.blkno] = 0, NEW n, n = Len(h.q) + 1,
           NEW x, x = Appended(h, e)
    PROVE  x \in Heap /\ n \in Places(x) /\ Len(x.q) = n /\ Exact(x) /\ InOrderBut(x, n)
           /\ Queue(x) = Queue(h) \cup {e}
  <1>1. /\ h \in Heap /\ h.q \in Seq(Buffer) /\ h.at \in [Blocks -> Nat] /\ Len(h.q) \in Nat
        /\ \A i \in Places(h) : i \in Nat /\ h.q[i] \in Buffer /\ h.q[i].blkno \in Blocks
    BY HeapType DEF Sound
  <1>a. x.q = Append(h.q, e) /\ x.at = [h.at EXCEPT ![e.blkno] = n] /\ x = [q |-> x.q, at |-> x.at]
    BY DEF Appended
  <1>2. e.blkno \in Blocks /\ n \in Nat /\ n >= 1
    BY <1>1, BufferType
  <1>3. /\ x.q \in Seq(Buffer) /\ Len(x.q) = n /\ x.q[n] = e
        /\ \A i \in 1..Len(h.q) : x.q[i] = h.q[i]
    BY <1>1, <1>a
  <1>4. /\ x.at \in [Blocks -> Nat] /\ x.at[e.blkno] = n
        /\ \A b \in Blocks \ {e.blkno} : x.at[b] = h.at[b]
    BY <1>1, <1>2, <1>a
  <1>5. x \in Heap
    BY <1>3, <1>4, <1>a DEF Heap
  <1>6. Places(x) = Places(h) \cup {n} /\ n \in Places(x) /\ n \notin Places(h)
    BY <1>1, <1>2, <1>3 DEF Places
  <1>7. \A i \in Places(h) : x.q[i] = h.q[i] /\ h.q[i].blkno # e.blkno
    BY <1>1, <1>3, OncePlaced DEF Places, Queue, Front, Sound
  <1>8. Exact(x)
    <2>1. ASSUME NEW i \in Places(x) PROVE x.at[x.q[i].blkno] = i
      <3>1. CASE i = n
        BY <1>3, <1>4, <3>1
      <3>2. CASE i \in Places(h)
        <4>1. h.at[h.q[i].blkno] = i
          BY <3>2 DEF Sound, Exact
        <4>2. h.q[i].blkno \in Blocks \ {e.blkno} /\ x.q[i] = h.q[i]
          BY <1>1, <1>7, <3>2
        <4>. QED
          BY <1>4, <4>1, <4>2
      <3>. QED
        BY <1>6, <3>1, <3>2
    <2>2. ASSUME NEW b \in Blocks, x.at[b] # 0 PROVE x.at[b] \in Places(x) /\ x.q[x.at[b]].blkno = b
      <3>1. CASE b = e.blkno
        BY <1>3, <1>4, <1>6, <3>1
      <3>2. CASE b # e.blkno
        <4>1. x.at[b] = h.at[b] /\ h.at[b] \in Places(h) /\ h.q[h.at[b]].blkno = b
          BY <1>4, <2>2, <3>2 DEF Sound, Exact
        <4>. QED
          BY <1>6, <1>7, <4>1
      <3>. QED
        BY <3>1, <3>2
    <2>. QED
      BY <2>1, <2>2 DEF Exact
  <1>9. InOrderBut(x, n)
    <2>1. ASSUME NEW i \in Places(x) \ {1, n} PROVE ~MoreValuable(x.q[i \div 2], x.q[i])
      <3>1. i \in Places(h) /\ i # 1
        BY <1>6
      <3>2. i \div 2 \in Places(h)
        BY <1>1, <3>1, Parent
      <3>. QED
        BY <1>7, <3>1, <3>2 DEF Sound, InOrder
    <2>2. \A i \in Places(x) : i \div 2 # n
      <3>. SUFFICES ASSUME NEW i \in Places(x), i \div 2 = n PROVE FALSE
        OBVIOUS
      <3>1. i \in Nat /\ i <= n /\ (i = 2 * n \/ i = 2 * n + 1)
        BY <1>2, <1>3, Halves DEF Places
      <3>. QED
        BY <1>2, <3>1
    <2>. QED
      BY <2>1, <2>2 DEF InOrderBut
  <1>10. Queue(x) = Queue(h) \cup {e}
    <2>1. Queue(x) = {x.q[i] : i \in Places(x)} /\ Queue(h) = {h.q[i] : i \in Places(h)}
      BY DEF Queue, Front, Places
    <2>2. x.q[n] = e /\ \A i \in Places(h) : x.q[i] = h.q[i]
      BY <1>3, <1>7
    <2>3. \A y : y \in Queue(x) <=> y \in Queue(h) \/ y = e
      BY <1>6, <2>1, <2>2
    <2>. QED
      BY <2>3
  <1>. QED
    BY <1>3, <1>5, <1>6, <1>8, <1>9, <1>10

(* loopQin *)
LEMMA loopQinKeeps ==
    ASSUME NEW h, Sound(h), NEW e \in Buffer, h.at[e.blkno] = 0, NEW g, g = loopQin(h, e)
    PROVE  Sound(g) /\ Queue(g) = Queue(h) \cup {e}
  <1>1. PICK n : n = Len(h.q) + 1
    OBVIOUS
  <1>2. PICK x : x = Appended(h, e)
    OBVIOUS
  <1>3. /\ x \in Heap /\ n \in Places(x) /\ Len(x.q) = n /\ Exact(x) /\ InOrderBut(x, n)
        /\ Queue(x) = Queue(h) \cup {e}
    BY <1>1, <1>2, AppendKeeps
  <1>4. n \in Nat /\ n <= n
    BY <1>3, HeapType
  <1>5. g = upheap(x, n)
    BY <1>1, <1>2 DEF loopQin, Appended
  <1>6. g \in Heap /\ Len(g.q) = Len(x.q) /\ Exact(g) /\ Front(g, n) = Front(x, n) /\ InOrder(g)
    BY <1>3, <1>4, <1>5, upheapKeeps
  <1>. QED
    BY <1>3, <1>6 DEF Sound, Queue

----------------------------------------------------------------------------
(* A buffer of the heap becomes less valuable.                             *)
Lowered(h, i, e) == [q |-> [h.q EXCEPT ![i] = e], at |-> h.at]

(* Only this buffer may be out of order: it may have to rise.              *)
LEMMA LowerKeeps ==
    ASSUME NEW h, Sound(h), NEW i \in Places(h), NEW e \in Buffer, e.blkno = h.q[i].blkno,
           MoreValuable(h.q[i], e), NEW x, x = Lowered(h, i, e)
    PROVE  /\ x \in Heap /\ Places(x) = Places(h) /\ Len(x.q) = Len(h.q) /\ Exact(x) /\ InOrderBut(x, i)
           /\ \A n \in Places(h) : i <= n => Front(x, n) = (Front(h, n) \ {h.q[i]}) \cup {e}
  <1>1. /\ h \in Heap /\ h.at \in [Blocks -> Nat] /\ Len(h.q) \in Nat
        /\ \A j \in Places(h) : j \in Nat /\ j >= 1 /\ h.q[j] \in Buffer /\ h.q[j].blkno \in Blocks
        /\ h.q \in [Places(h) -> Buffer]
    BY HeapType DEF Sound, Places
  <1>2. /\ x.q \in [Places(h) -> Buffer] /\ x.at = h.at /\ x = [q |-> x.q, at |-> x.at]
        /\ x.q = [h.q EXCEPT ![i] = e]
    BY <1>1 DEF Lowered
  <1>3. x \in Heap /\ Len(x.q) = Len(h.q) /\ Places(x) = Places(h)
    BY <1>1, <1>2, HeapIntro DEF Places
  <1>4. x.q[i] = e /\ \A j \in Places(h) \ {i} : x.q[j] = h.q[j]
    BY <1>1, <1>2
  <1>5. \A j \in Places(h) : x.q[j].blkno = h.q[j].blkno
    BY <1>4
  <1>6. Exact(x)
    BY <1>2, <1>3, <1>5 DEF Exact, Sound
  <1>7. InOrderBut(x, i)
    <2>o. \A j \in Places(h) \ {1} :
             /\ ~MoreValuable(h.q[j \div 2], h.q[j])
             /\ j \div 2 \in Places(h) /\ j \div 2 < j
      BY <1>1, Parent DEF Sound, InOrder
    <2>1. ASSUME NEW j \in Places(x) \ {1, i} PROVE ~MoreValuable(x.q[j \div 2], x.q[j])
      <3>1. j \in Places(h) \ {1} /\ x.q[j] = h.q[j] /\ h.q[j] \in Buffer /\ j \div 2 \in Places(h)
        BY <1>1, <1>3, <1>4, <2>o
      <3>2. CASE j \div 2 = i
        <4>1. ~MoreValuable(h.q[i], h.q[j]) /\ h.q[i] \in Buffer
          BY <1>1, <2>o, <3>1, <3>2
        <4>2. ~MoreValuable(e, h.q[i])
          BY <4>1, ValueOrder
        <4>3. ~MoreValuable(e, h.q[j])
          BY <3>1, <4>1, <4>2, ValueOrder
        <4>. QED
          BY <1>4, <3>1, <3>2, <4>3
      <3>3. CASE j \div 2 # i
        BY <1>4, <2>o, <3>1, <3>3
      <3>. QED
        BY <3>2, <3>3
    <2>2. ASSUME i > 1, NEW j \in Places(x), j \div 2 = i PROVE ~MoreValuable(x.q[i \div 2], x.q[j])
      <3>1. j # 1 /\ j \in Places(h) /\ i # 1
        BY <1>1, <1>3, <2>2, Halves
      <3>2. /\ ~MoreValuable(h.q[i], h.q[j]) /\ ~MoreValuable(h.q[i \div 2], h.q[i])
            /\ i < j /\ i \div 2 < i /\ i \div 2 \in Places(h)
        BY <2>2, <2>o, <3>1
      <3>a. i # j /\ i \div 2 # i
        BY <1>1, <3>1, <3>2
      <3>3. x.q[j] = h.q[j] /\ x.q[i \div 2] = h.q[i \div 2]
        BY <1>4, <3>1, <3>2, <3>a
      <3>. QED
        BY <1>1, <3>1, <3>2, <3>3, ValueOrder
    <2>. QED
      BY <2>1, <2>2 DEF InOrderBut
  <1>8. ASSUME NEW n \in Places(h), i <= n
        PROVE  Front(x, n) = (Front(h, n) \ {h.q[i]}) \cup {e}
    <2>1. i \in 1..n /\ 1..n \subseteq Places(h)
      BY <1>1, <1>8 DEF Places
    <2>2. \A j \in 1..n : j # i => x.q[j] = h.q[j] /\ h.q[j] # h.q[i]
      BY <1>1, <1>4, <2>1, OncePlaced DEF Sound
    <2>3. Front(x, n) = {x.q[j] : j \in 1..n} /\ Front(h, n) = {h.q[j] : j \in 1..n}
      BY DEF Front
    <2>. QED
      BY <1>4, <2>1, <2>2, <2>3
  <1>. QED
    BY <1>3, <1>6, <1>7, <1>8

(* ... and upheap takes it to its place.                                   *)
LEMMA DemoteKeeps ==
    ASSUME NEW h, Sound(h), NEW i \in Places(h), NEW e \in Buffer, e.blkno = h.q[i].blkno,
           MoreValuable(h.q[i], e), NEW g, g = upheap(Lowered(h, i, e), i)
    PROVE  /\ Sound(g) /\ Len(g.q) = Len(h.q)
           /\ \A n \in Places(h) : i <= n => Front(g, n) = (Front(h, n) \ {h.q[i]}) \cup {e}
  <1>1. PICK x : x = Lowered(h, i, e)
    OBVIOUS
  <1>2. /\ x \in Heap /\ Places(x) = Places(h) /\ Len(x.q) = Len(h.q) /\ Exact(x) /\ InOrderBut(x, i)
        /\ \A n \in Places(h) : i <= n => Front(x, n) = (Front(h, n) \ {h.q[i]}) \cup {e}
    BY <1>1, LowerKeeps
  <1>3. i \in Nat /\ g = upheap(x, i)
    BY <1>1 DEF Places
  <1>4. /\ g \in Heap /\ Len(g.q) = Len(x.q) /\ Exact(g) /\ InOrder(g)
        /\ \A n \in Places(x) : i <= n => Front(g, n) = Front(x, n)
    BY <1>2, <1>3, upheapKeeps
  <1>. QED
    BY <1>2, <1>4 DEF Sound

----------------------------------------------------------------------------
(* A buffer goes out: when all the others are still in the heap, at the    *)
(* places the index says, the index is exact again.                        *)
OthersStay(h, k, y) ==
    /\ \A i \in Places(y) :
          \E j \in Places(h) \ {k} : y.q[i] = h.q[j] /\ y.at[h.q[j].blkno] = i
    /\ \A j \in Places(h) \ {k} :
          y.at[h.q[j].blkno] \in Places(y) /\ y.q[y.at[h.q[j].blkno]] = h.q[j]
    /\ \A b \in Blocks : h.at[b] = 0 => y.at[b] = 0
    /\ y.at[h.q[k].blkno] = 0

(* The others are then all that is left.                                   *)
LEMMA Shrinks ==
    ASSUME NEW h \in Heap, Exact(h), NEW k \in Places(h), NEW y \in Heap, OthersStay(h, k, y)
    PROVE  Exact(y) /\ Queue(y) = Queue(h) \ {h.q[k]}
  <1>1. \A i \in Places(y) : y.at[y.q[i].blkno] = i
    BY DEF OthersStay
  <1>2. ASSUME NEW b \in Blocks, y.at[b] # 0 PROVE y.at[b] \in Places(y) /\ y.q[y.at[b]].blkno = b
    <2>1. h.at[b] # 0
      BY <1>2 DEF OthersStay
    <2>2. PICK j \in Places(h) : h.q[j].blkno = b
      BY <2>1 DEF Exact
    <2>3. j # k
      BY <1>2, <2>2 DEF OthersStay
    <2>. QED
      BY <2>2, <2>3 DEF OthersStay
  <1>3. Queue(y) = {y.q[i] : i \in Places(y)} /\ Queue(h) = {h.q[j] : j \in Places(h)}
    BY DEF Queue, Front, Places
  <1>4. \A j \in Places(h) : j # k => h.q[j] # h.q[k]
    BY OncePlaced
  <1>5. \A x \in Queue(y) : x \in Queue(h) /\ x # h.q[k]
    BY <1>3, <1>4 DEF OthersStay
  <1>6. ASSUME NEW x \in Queue(h), x # h.q[k] PROVE x \in Queue(y)
    <2>1. PICK j \in Places(h) \ {k} : x = h.q[j]
      BY <1>3, <1>6
    <2>2. y.at[h.q[j].blkno] \in Places(y) /\ y.q[y.at[h.q[j].blkno]] = x
      BY <2>1 DEF OthersStay
    <2>. QED
      BY <1>3, <2>2
  <1>. QED
    BY <1>1, <1>2, <1>5, <1>6 DEF Exact

(* The heap loopQout gives downheap when it takes the buffer at k.         *)
LastOf(h, k) == IF k = Len(h.q) THEN h.q[1] ELSE h.q[Len(h.q)]
Shrunk(h, k) ==
    [q  |-> [i \in 1..(Len(h.q) - 1) |->
               IF i = 1 THEN LastOf(h, k) ELSE [h.q EXCEPT ![k] = h.q[1]][i]],
     at |-> [h.at EXCEPT ![h.q[1].blkno] = k, ![h.q[k].blkno] = 0, ![LastOf(h, k).blkno] = 1]]

(* What is where in it, n the length of the old heap.                      *)
ShrinksTo(h, k, n, y) ==
    /\ y \in Heap /\ Len(y.q) = n - 1 /\ Places(y) = 1..(n - 1) /\ n \in Nat
    /\ k = n => y.q[1] = h.q[1]
    /\ k # n => y.q[1] = h.q[n]
    /\ k # 1 /\ k # n => y.q[k] = h.q[1]
    /\ \A i \in Places(y) \ {1, k} : y.q[i] = h.q[i]
    /\ \A b \in Blocks \ {h.q[1].blkno, h.q[n].blkno, h.q[k].blkno} : y.at[b] = h.at[b]
    /\ y.at[h.q[k].blkno] = 0
    /\ k = n => y.at[h.q[1].blkno] = 1
    /\ k # n => y.at[h.q[n].blkno] = 1
    /\ k # 1 /\ k # n => y.at[h.q[1].blkno] = k

(* The heap loopQout leaves, place by place.                               *)
LEMMA ShrunkType ==
    ASSUME NEW h \in Heap, Exact(h), Len(h.q) > 1, NEW k \in Places(h), NEW y, y = Shrunk(h, k),
           NEW n, n = Len(h.q)
    PROVE  ShrinksTo(h, k, n, y)
  <1>1. /\ h.at \in [Blocks -> Nat] /\ n \in Nat /\ n > 1 /\ 1 \in Places(h) /\ n \in Places(h)
        /\ k \in Nat /\ k >= 1 /\ k <= n /\ Places(h) = 1..n
        /\ \A i \in Places(h) : h.q[i] \in Buffer /\ h.q[i].blkno \in Blocks
        /\ h.q \in [Places(h) -> Buffer]
    BY HeapType DEF Places
  <1>2. PICK l : l = LastOf(h, k)
    OBVIOUS
  <1>3. (k = n => l = h.q[1]) /\ (k # n => l = h.q[n]) /\ l \in Buffer /\ l.blkno \in Blocks
    BY <1>1, <1>2 DEF LastOf
  <1>4. /\ y.q = [i \in 1..(n - 1) |-> IF i = 1 THEN l ELSE [h.q EXCEPT ![k] = h.q[1]][i]]
        /\ y.at = [h.at EXCEPT ![h.q[1].blkno] = k, ![h.q[k].blkno] = 0, ![l.blkno] = 1]
        /\ y = [q |-> y.q, at |-> y.at]
    BY <1>2 DEF Shrunk
  <1>5. \A i \in 1..(n - 1) : i \in Places(h)
    BY <1>1
  <1>6. /\ \A i \in 1..(n - 1) : i = 1 => y.q[i] = l
        /\ \A i \in 1..(n - 1) : i # 1 /\ i = k => y.q[i] = h.q[1]
        /\ \A i \in 1..(n - 1) : i # 1 /\ i # k => y.q[i] = h.q[i]
    BY <1>1, <1>4, <1>5
  <1>7. y.q \in [1..(n - 1) -> Buffer]
    <2>1. \A i \in 1..(n - 1) : y.q[i] \in Buffer
      BY <1>1, <1>3, <1>5, <1>6
    <2>. QED
      BY <1>4, <2>1
  <1>12. \A i, j \in Places(h) : h.q[i].blkno = h.q[j].blkno => i = j
    BY OncePlaced
  <1>15. PICK c1, ck, cl, cn : c1 = h.q[1].blkno /\ ck = h.q[k].blkno /\ cl = l.blkno /\ cn = h.q[n].blkno
    OBVIOUS
  <1>16. /\ c1 \in Blocks /\ ck \in Blocks /\ cl \in Blocks /\ cn \in Blocks
         /\ cl # ck /\ (k # 1 => c1 # ck) /\ (k = 1 => c1 = ck) /\ c1 # cn
         /\ (k = n => cl = c1) /\ (k # n => cl = cn)
    BY <1>1, <1>3, <1>12, <1>15
  <1>17. y.at = [h.at EXCEPT ![c1] = k, ![ck] = 0, ![cl] = 1]
    BY <1>4, <1>15
  <1>8. y.at \in [Blocks -> Nat]
    BY <1>1, <1>16, <1>17
  <1>9. n - 1 \in Nat /\ 1 \in 1..(n - 1)
    BY <1>1
  <1>10. y \in Heap /\ Len(y.q) = n - 1
    BY <1>4, <1>7, <1>8, <1>9, HeapIntro
  <1>11. Places(y) = 1..(n - 1)
    BY <1>10 DEF Places
  <1>13. k # n => k \in 1..(n - 1)
    BY <1>1
  <1>14. /\ k = n => y.q[1] = h.q[1]
         /\ k # n => y.q[1] = h.q[n]
         /\ k # 1 /\ k # n => y.q[k] = h.q[1]
         /\ \A i \in Places(y) \ {1, k} : y.q[i] = h.q[i]
    BY <1>3, <1>6, <1>9, <1>11, <1>13
  <1>18. /\ \A b \in Blocks \ {c1, cn, ck} : y.at[b] = h.at[b]
         /\ y.at[ck] = 0
         /\ k = n => y.at[c1] = 1
         /\ k # n => y.at[cn] = 1
         /\ k # 1 /\ k # n => y.at[c1] = k
    BY <1>1, <1>16, <1>17
  <1>. QED
    BY <1>1, <1>10, <1>11, <1>14, <1>15, <1>18 DEF ShrinksTo

(* Only the new root may be out of order: it may have to sink.             *)
LEMMA ShrunkKeeps ==
    ASSUME NEW h, Sound(h), Len(h.q) > 1, NEW k \in Places(h), k \in {1, 2, 3}, NEW y, y = Shrunk(h, k)
    PROVE  /\ y \in Heap /\ Exact(y) /\ InOrderUnder(y, 1)
           /\ Queue(y) = Queue(h) \ {h.q[k]} /\ y.at[h.q[k].blkno] = 0
  <1>1. PICK n : n = Len(h.q)
    OBVIOUS
  <1>2. /\ y \in Heap /\ Len(y.q) = n - 1 /\ Places(y) = 1..(n - 1) /\ n \in Nat
        /\ k = n => y.q[1] = h.q[1]
        /\ k # n => y.q[1] = h.q[n]
        /\ k # 1 /\ k # n => y.q[k] = h.q[1]
        /\ \A i \in Places(y) \ {1, k} : y.q[i] = h.q[i]
        /\ \A b \in Blocks \ {h.q[1].blkno, h.q[n].blkno, h.q[k].blkno} : y.at[b] = h.at[b]
        /\ y.at[h.q[k].blkno] = 0
        /\ k = n => y.at[h.q[1].blkno] = 1
        /\ k # n => y.at[h.q[n].blkno] = 1
        /\ k # 1 /\ k # n => y.at[h.q[1].blkno] = k
    <2>1. h \in Heap /\ Exact(h)
      BY DEF Sound
    <2>2. ShrinksTo(h, k, n, y)
      BY <1>1, <2>1, ShrunkType
    <2>. QED
      BY <2>2 DEF ShrinksTo
  <1>3. /\ Places(h) = 1..n /\ n > 1 /\ 1 \in Places(h) /\ n \in Places(h) /\ 1 # n
        /\ k \in Nat /\ k >= 1 /\ k <= n
        /\ \A i \in Places(h) : h.q[i] \in Buffer /\ h.q[i].blkno \in Blocks
    BY <1>1, <1>2, HeapType DEF Places, Sound
  <1>4. \A i, j \in Places(h) : h.q[i].blkno = h.q[j].blkno => i = j
    BY OncePlaced DEF Sound
  <1>5. /\ \A i \in Places(y) : i \in Places(h) /\ i # n
        /\ \A i \in Places(h) : i # n => i \in Places(y)
        /\ 1 \in Places(y)
    BY <1>2, <1>3
  <1>6. \A i \in Places(h) \ {1, n, k} : y.at[h.q[i].blkno] = i
    <2>. SUFFICES ASSUME NEW i \in Places(h) \ {1, n, k} PROVE y.at[h.q[i].blkno] = i
      OBVIOUS
    <2>1. h.q[i].blkno \in Blocks \ {h.q[1].blkno, h.q[n].blkno, h.q[k].blkno}
      BY <1>3, <1>4
    <2>2. h.at[h.q[i].blkno] = i
      BY DEF Sound, Exact
    <2>. QED
      BY <1>2, <2>1, <2>2
  <1>7. ASSUME NEW i \in Places(y)
        PROVE  \E j \in Places(h) \ {k} : y.q[i] = h.q[j] /\ y.at[h.q[j].blkno] = i
    <2>1. CASE i = 1 /\ k = n
      BY <1>2, <1>3, <2>1
    <2>2. CASE i = 1 /\ k # n
      BY <1>2, <1>3, <2>2
    <2>3. CASE i # 1 /\ i = k
      BY <1>2, <1>3, <1>5, <2>3
    <2>4. CASE i # 1 /\ i # k
      <3>1. i \in Places(h) \ {1, n, k}
        BY <1>5, <2>4
      <3>. QED
        BY <1>2, <1>6, <2>4, <3>1
    <2>. QED
      BY <2>1, <2>2, <2>3, <2>4
  <1>8. ASSUME NEW j \in Places(h) \ {k}
        PROVE  y.at[h.q[j].blkno] \in Places(y) /\ y.q[y.at[h.q[j].blkno]] = h.q[j]
    <2>1. CASE j = 1 /\ k = n
      BY <1>2, <1>5, <2>1
    <2>2. CASE j = 1 /\ k # n
      <3>1. k \in Places(y) /\ k # 1
        BY <1>5, <2>2
      <3>. QED
        BY <1>2, <2>2, <3>1
    <2>3. CASE j = n
      BY <1>2, <1>5, <2>3
    <2>4. CASE j \notin {1, n}
      <3>1. j \in Places(h) \ {1, n, k} /\ j \in Places(y) \ {1, k}
        BY <1>5, <2>4
      <3>2. y.at[h.q[j].blkno] = j /\ y.q[j] = h.q[j]
        BY <1>2, <1>6, <3>1
      <3>. QED
        BY <3>1, <3>2
    <2>. QED
      BY <2>1, <2>2, <2>3, <2>4
  <1>9. ASSUME NEW b \in Blocks, h.at[b] = 0 PROVE y.at[b] = 0
    <2>1. \A i \in Places(h) : h.at[h.q[i].blkno] = i /\ i # 0
      BY <1>3 DEF Sound, Exact
    <2>2. b \in Blocks \ {h.q[1].blkno, h.q[n].blkno, h.q[k].blkno}
      BY <1>3, <1>9, <2>1
    <2>. QED
      BY <1>2, <1>9, <2>2
  <1>10. Exact(y) /\ Queue(y) = Queue(h) \ {h.q[k]}
    <2>1. OthersStay(h, k, y)
      BY <1>2, <1>7, <1>8, <1>9 DEF OthersStay
    <2>2. h \in Heap /\ Exact(h) /\ y \in Heap
      BY <1>2 DEF Sound
    <2>. QED
      BY <2>1, <2>2, Shrinks
  <1>11. ASSUME NEW i \in Places(y) \ {1}, i \div 2 # 1 PROVE ~MoreValuable(y.q[i \div 2], y.q[i])
    <2>1. i \in Nat /\ i \div 2 \in Places(y) /\ i \in Places(h) /\ i \div 2 \in Places(h)
      BY <1>2, <1>5, Parent
    <2>2. i \notin {2, 3} /\ i # k
      BY <1>11, <2>1, Halves
    <2>3. y.q[i] = h.q[i] /\ ~MoreValuable(h.q[i \div 2], h.q[i])
      BY <1>2, <2>1, <2>2 DEF Sound, InOrder
    <2>4. CASE i \div 2 = k
      <3>1. y.q[k] = h.q[1]
        BY <1>2, <1>5, <1>11, <2>1, <2>4
      <3>2. ~MoreValuable(h.q[1], h.q[i])
        BY <2>1, RootIsLeast DEF Sound
      <3>. QED
        BY <2>3, <2>4, <3>1, <3>2
    <2>5. CASE i \div 2 # k
      BY <1>2, <1>11, <2>1, <2>3, <2>5
    <2>. QED
      BY <2>4, <2>5
  <1>12. InOrderUnder(y, 1)
    BY <1>11 DEF InOrderUnder
  <1>. QED
    BY <1>2, <1>10, <1>12

(* loopQout *)
LEMMA loopQoutKeeps ==
    ASSUME NEW h, Sound(h), Len(h.q) # 0, NEW r, r = loopQout(h), NEW k, k = OutPlace(h)
    PROVE  /\ k \in Places(h) /\ r.bp = h.q[k] /\ r.bp \in Queue(h) /\ r.bp \in Buffer
           /\ Sound(r.heap) /\ Queue(r.heap) = Queue(h) \ {r.bp} /\ r.heap.at[r.bp.blkno] = 0
  <1>1. h \in Heap /\ Exact(h) /\ Len(h.q) \in Nat /\ Len(h.q) >= 1
    BY HeapType DEF Sound
  <1>2. k \in {1, 2, 3} /\ k \in Places(h)
    BY <1>1 DEF OutPlace, Places
  <1>3. h.q[k] \in Queue(h) /\ h.q[k] \in Buffer /\ h.q[k].blkno \in Blocks
    BY <1>1, <1>2, HeapType DEF Queue, Front, Places
  <1>4. CASE Len(h.q) = 1
    <2>1. k = 1 /\ Places(h) = {1}
      BY <1>2, <1>4 DEF Places
    <2>2. PICK x : x = [q |-> <<>>, at |-> [h.at EXCEPT ![h.q[1].blkno] = 0]]
      OBVIOUS
    <2>3. r = [bp |-> h.q[1], heap |-> x]
      BY <1>4, <2>1, <2>2 DEF loopQout
    <2>4. x \in Heap /\ Len(x.q) = 0 /\ x.q = <<>>
      BY <1>1, <2>2, HeapType DEF Heap
    <2>5. Places(x) = {} /\ Queue(x) = {}
      BY <2>4 DEF Places, Queue, Front
    <2>6. /\ x.at[h.q[1].blkno] = 0
          /\ \A b \in Blocks : b # h.q[1].blkno => x.at[b] = h.at[b]
      BY <1>1, <1>3, <2>1, <2>2, HeapType
    <2>7. \A b \in Blocks : x.at[b] = 0
      BY <1>1, <2>1, <2>6 DEF Exact
    <2>8. Sound(x)
      BY <2>4, <2>5, <2>7 DEF Sound, Exact, InOrder
    <2>9. Queue(h) = {h.q[1]}
      BY <2>1 DEF Queue, Front, Places
    <2>. QED
      BY <1>2, <1>3, <2>1, <2>3, <2>5, <2>6, <2>8, <2>9
  <1>5. CASE Len(h.q) # 1
    <2>1. PICK y : y = Shrunk(h, k)
      OBVIOUS
    <2>2. PICK g : g = downheap(y, 1)
      OBVIOUS
    <2>3. r = [bp |-> h.q[k], heap |-> g]
      BY <1>5, <2>1, <2>2 DEF loopQout, Shrunk, LastOf
    <2>4. /\ y \in Heap /\ Exact(y) /\ InOrderUnder(y, 1)
          /\ Queue(y) = Queue(h) \ {h.q[k]} /\ y.at[h.q[k].blkno] = 0
      <3>1. PICK n : n = Len(h.q)
        OBVIOUS
      <3>2. n \in Nat /\ n # 0 /\ n # 1
        BY <1>1, <1>5, <3>1
      <3>3. n > 1
        BY <3>2
      <3>. QED
        BY <1>2, <2>1, <3>1, <3>3, ShrunkKeeps
    <2>5. g \in Heap /\ Exact(g) /\ Queue(g) = Queue(y) /\ InOrder(g)
      BY <2>2, <2>4, downheapKeeps
    <2>6. \A e \in Queue(g) : e.blkno # h.q[k].blkno
      BY <1>3, <2>4, <2>5, OncePlaced
    <2>7. g.at[h.q[k].blkno] = 0
      BY <1>3, <2>5, <2>6, OncePlaced
    <2>. QED
      BY <1>2, <1>3, <2>3, <2>4, <2>5, <2>7 DEF Sound
  <1>. QED
    BY <1>4, <1>5

----------------------------------------------------------------------------
(* The ageing.  Each turn of its loop replaces the buffer in one place by  *)
(* its aged self, and upheap may bring a buffer from a place before to     *)
(* this one, never one from a place after.                                 *)
AgedBuffer(e) == IF Expired(e) THEN [e EXCEPT !.lastIRG = Now - e.lastRefTime] ELSE e
AgedAll(S) == {AgedBuffer(e) : e \in S}

(* An aged buffer is less valuable than before, and not to be aged again.  *)
LEMMA AgedBufferType ==
    ASSUME NEW e \in Buffer, curVtime \in 0..(MaxTime - 1), Expired(e), NEW f, f = AgedBuffer(e)
    PROVE  /\ f \in Buffer /\ f.blkno = e.blkno /\ f.lastRefTime = e.lastRefTime /\ MoreValuable(e, f)
           /\ f = [e EXCEPT !.lastIRG = Now - e.lastRefTime] /\ f.lastIRG < INFINITY
           /\ ~Expired(f)
  <1>1. /\ e.blkno \in Blocks /\ e.lastIRG \in Nat /\ e.lastIRG >= 1
        /\ e.lastRefTime \in Nat /\ e.lastRefTime <= MaxTime
        /\ e = [blkno |-> e.blkno, lastIRG |-> e.lastIRG, lastRefTime |-> e.lastRefTime]
    BY BufferType DEF Buffer
  <1>2. e.lastRefTime + 3 * e.lastIRG < Now /\ Now \in Nat /\ Now <= MaxTime
    BY LoopQueueAssumption DEF Expired, Now
  <1>3. f = [e EXCEPT !.lastIRG = Now - e.lastRefTime]
    BY DEF AgedBuffer
  <1>4. f = [blkno |-> e.blkno, lastIRG |-> Now - e.lastRefTime, lastRefTime |-> e.lastRefTime]
    BY <1>1, <1>3
  <1>5. /\ Now - e.lastRefTime \in Nat /\ Now - e.lastRefTime > e.lastIRG
        /\ Now - e.lastRefTime >= 1 /\ Now - e.lastRefTime <= MaxTime
    BY <1>1, <1>2, LoopQueueAssumption
  <1>6. MaxTime < INFINITY /\ INFINITY \in Nat /\ MaxTime \in Nat
    BY LoopQueueAssumption
  <1>7. PICK v : v = Now - e.lastRefTime
    OBVIOUS
  <1>8. v \in 1..INFINITY /\ v < INFINITY /\ e.lastRefTime \in 0..MaxTime /\ v > e.lastIRG
    BY <1>1, <1>5, <1>6, <1>7
  <1>9. f \in Buffer
    BY <1>1, <1>4, <1>7, <1>8 DEF Buffer
  <1>10. ~Expired(f)
    <2>1. f.lastRefTime = e.lastRefTime /\ f.lastIRG = v /\ e.lastRefTime + v = Now /\ v >= 1
      BY <1>1, <1>2, <1>4, <1>7, <1>8
    <2>. QED
      BY <1>1, <1>2, <1>8, <2>1 DEF Expired
  <1>. QED
    BY <1>3, <1>4, <1>7, <1>8, <1>9, <1>10 DEF MoreValuable

(* One turn of the ageing, at place i.                                     *)
LEMMA AgeBufferKeeps ==
    ASSUME NEW h, Sound(h), curVtime \in 0..(MaxTime - 1), NEW i \in Places(h),
           NEW g, g = AgeBuffer(h, i)
    PROVE  /\ Sound(g) /\ Len(g.q) = Len(h.q)
           /\ \A n \in Places(h) : i <= n =>
                 Front(g, n) = (Front(h, n) \ {h.q[i]}) \cup {AgedBuffer(h.q[i])}
           /\ h.q[i] \in Buffer
  <1>1. /\ h \in Heap /\ Exact(h) /\ h.q[i] \in Buffer /\ h.at[h.q[i].blkno] = i
        /\ h = [q |-> h.q, at |-> h.at] /\ h.q \in [Places(h) -> Buffer]
    BY HeapType DEF Sound, Exact, Places
  <1>2. PICK e : e = AgedBuffer(h.q[i])
    OBVIOUS
  <1>3. CASE Expired(h.q[i])
    <2>1. /\ e \in Buffer /\ e.blkno = h.q[i].blkno /\ MoreValuable(h.q[i], e)
          /\ e = [h.q[i] EXCEPT !.lastIRG = Now - h.q[i].lastRefTime]
      BY <1>1, <1>2, <1>3, AgedBufferType
    <2>2. [h EXCEPT !.q[i].lastIRG = Now - h.q[i].lastRefTime] = Lowered(h, i, e)
      <3>1. [h EXCEPT !.q[i].lastIRG = Now - h.q[i].lastRefTime]
              = [h EXCEPT !.q = [h.q EXCEPT ![i] = [h.q[i] EXCEPT !.lastIRG = Now - h.q[i].lastRefTime]]]
        OBVIOUS
      <3>. QED
        BY <1>1, <2>1, <3>1 DEF Lowered
    <2>3. g = upheap(Lowered(h, i, e), i)
      BY <1>1, <1>3, <2>2 DEF AgeBuffer
    <2>4. /\ Sound(g) /\ Len(g.q) = Len(h.q)
          /\ \A n \in Places(h) : i <= n => Front(g, n) = (Front(h, n) \ {h.q[i]}) \cup {e}
      <3>1. e \in Buffer /\ e.blkno = h.q[i].blkno /\ MoreValuable(h.q[i], e)
        BY <2>1
      <3>. QED
        BY <2>3, <3>1, DemoteKeeps
    <2>. QED
      BY <1>1, <1>2, <2>4
  <1>4. CASE ~Expired(h.q[i])
    <2>1. g = h /\ e = h.q[i]
      BY <1>2, <1>4 DEF AgeBuffer, AgedBuffer
    <2>2. ASSUME NEW n \in Places(h), i <= n PROVE Front(h, n) = (Front(h, n) \ {e}) \cup {e}
      <3>1. i \in 1..n
        BY <2>2 DEF Places
      <3>2. e \in Front(h, n)
        BY <2>1, <3>1 DEF Front
      <3>. QED
        BY <3>2
    <2>. QED
      BY <1>1, <1>2, <2>1, <2>2
  <1>. QED
    BY <1>3, <1>4

(* Aging twice is ageing once.                                             *)
LEMMA AgedOnce ==
    ASSUME NEW S \in SUBSET Buffer, curVtime \in 0..(MaxTime - 1), NEW e \in S, NEW f, f = AgedBuffer(e)
    PROVE  f \in Buffer /\ ~Expired(f) /\ AgedAll((S \ {e}) \cup {f}) = AgedAll(S)
  <1>1. f \in Buffer /\ ~Expired(f)
    <2>1. CASE Expired(e)
      BY <2>1, AgedBufferType
    <2>2. CASE ~Expired(e)
      BY <2>2 DEF AgedBuffer
    <2>. QED
      BY <2>1, <2>2
  <1>2. AgedBuffer(f) = f /\ AgedBuffer(e) = f
    BY <1>1 DEF AgedBuffer
  <1>. HIDE DEF AgedBuffer
  <1>3. \A x : x \in AgedAll((S \ {e}) \cup {f}) <=> x \in AgedAll(S)
    BY <1>2 DEF AgedAll
  <1>. QED
    BY <1>1, <1>3

(* What each turn of the ageing keeps: it began with h.                    *)
Ageing(h, g, i) ==
    /\ Sound(g) /\ Len(g.q) = Len(h.q) /\ i \in Nat /\ i >= 1 /\ i <= Len(h.q) + 1
    /\ AgedAll(Queue(g)) = AgedAll(Queue(h))
    /\ \A e \in Front(g, i - 1) : ~Expired(e)

(* One turn of the ageing's loop.                                          *)
LEMMA AgeingKeeps ==
    ASSUME NEW h, Sound(h), curVtime \in 0..(MaxTime - 1), NEW g, NEW i, Ageing(h, g, i),
           i \in Places(g)
    PROVE  Ageing(h, AgeBuffer(g, i), i + 1)
  <1>1. PICK x : x = AgeBuffer(g, i)
    OBVIOUS
  <1>2. PICK e, f : e = g.q[i] /\ f = AgedBuffer(e)
    OBVIOUS
  <1>3. /\ Sound(x) /\ Len(x.q) = Len(g.q) /\ e \in Buffer
        /\ \A n \in Places(g) : i <= n => Front(x, n) = (Front(g, n) \ {e}) \cup {f}
    BY <1>1, <1>2, AgeBufferKeeps DEF Ageing
  <1>4. g \in Heap /\ Len(g.q) \in Nat /\ i \in Nat /\ i <= Len(g.q) /\ i >= 1
    BY HeapType DEF Ageing, Sound, Places
  <1>5. Queue(g) \in SUBSET Buffer /\ e \in Queue(g)
    BY <1>2, HeapType, <1>4 DEF Queue, Front, Places
  <1>6. ~Expired(f) /\ AgedAll((Queue(g) \ {e}) \cup {f}) = AgedAll(Queue(g))
    BY <1>2, <1>5, AgedOnce
  <1>7. Queue(x) = (Queue(g) \ {e}) \cup {f}
    <2>1. Len(g.q) \in Places(g) /\ i <= Len(g.q)
      BY <1>4 DEF Places
    <2>. QED
      BY <1>3, <2>1 DEF Queue
  <1>8. ASSUME NEW d \in Front(x, i) PROVE ~Expired(d)
    <2>1. Front(x, i) = (Front(g, i) \ {e}) \cup {f}
      BY <1>3, <1>4
    <2>2. CASE d = f
      BY <1>6, <2>2
    <2>3. CASE d \in Front(g, i) \ {e}
      <3>1. PICK j \in 1..i : d = g.q[j] /\ j # i
        BY <1>2, <2>3 DEF Front
      <3>2. j \in 1..(i - 1)
        BY <1>4, <3>1
      <3>. QED
        BY <3>1, <3>2 DEF Ageing, Front
    <2>. QED
      BY <1>8, <2>1, <2>2, <2>3
  <1>9. (i + 1) - 1 = i /\ i + 1 \in Nat /\ i + 1 >= 1
    BY <1>4
  <1>10. AgedAll(Queue(x)) = AgedAll(Queue(h)) /\ Len(x.q) = Len(h.q) /\ i + 1 <= Len(h.q) + 1
    BY <1>3, <1>4, <1>6, <1>7 DEF Ageing
  <1>11. Ageing(h, x, i + 1)
    BY <1>3, <1>8, <1>9, <1>10 DEF Ageing
  <1>. QED
    BY <1>1, <1>11

(* The ageing's loop, in the terms of LoopComputes.  AgeBuffer keeps the   *)
(* length of every heap, so the loop ends, exact index or not.             *)
AgeGo   == {c \in Heap \X Nat : c[2] \in 1..Len(c[1].q)}
AgeStep == [c \in AgeGo |-> <<AgeBuffer(c[1], c[2]), c[2] + 1>>]
AgeBase == [c \in Heap \X Nat |-> c[1]]
AgeRank == [c \in Heap \X Nat |-> IF c[2] <= Len(c[1].q) THEN Len(c[1].q) - c[2] + 1 ELSE 0]

(* A turn keeps the length of any heap.                                    *)
LEMMA AgeBufferType ==
    ASSUME curVtime \in 0..(MaxTime - 1), NEW h \in Heap, NEW i \in Places(h), NEW g, g = AgeBuffer(h, i)
    PROVE  g \in Heap /\ Len(g.q) = Len(h.q)
  <1>1. /\ h.q[i] \in Buffer /\ h.q[i].blkno \in Blocks /\ h.at \in [Blocks -> Nat] /\ Len(h.q) \in Nat
        /\ h = [q |-> h.q, at |-> h.at] /\ h.q \in [Places(h) -> Buffer]
    BY HeapType DEF Places
  <1>2. CASE Expired(h.q[i])
    <2>1. PICK e : e = AgedBuffer(h.q[i])
      OBVIOUS
    <2>2. e \in Buffer /\ e = [h.q[i] EXCEPT !.lastIRG = Now - h.q[i].lastRefTime]
      BY <1>1, <1>2, <2>1, AgedBufferType
    <2>3. PICK x : x = [q |-> [h.q EXCEPT ![i] = e], at |-> h.at]
      OBVIOUS
    <2>4. [h EXCEPT !.q[i].lastIRG = Now - h.q[i].lastRefTime] = x
      <3>1. [h EXCEPT !.q[i].lastIRG = Now - h.q[i].lastRefTime]
              = [h EXCEPT !.q = [h.q EXCEPT ![i] = [h.q[i] EXCEPT !.lastIRG = Now - h.q[i].lastRefTime]]]
        OBVIOUS
      <3>2. PICK s : s = [h.q EXCEPT ![i] = e]
        OBVIOUS
      <3>3. h = [q |-> h.q, at |-> h.at] => [h EXCEPT !.q = s] = [q |-> s, at |-> h.at]
        OBVIOUS
      <3>. QED
        BY <1>1, <2>2, <2>3, <3>1, <3>2, <3>3
    <2>5. x = [q |-> x.q, at |-> x.at] /\ x.q \in [Places(h) -> Buffer] /\ x.at \in [Blocks -> Nat]
      BY <1>1, <2>2, <2>3
    <2>6. x \in Heap /\ Len(x.q) = Len(h.q)
      BY <1>1, <2>5, HeapIntro DEF Places
    <2>7. h.at[h.q[i].blkno] \in Nat /\ g = upheap(x, h.at[h.q[i].blkno])
      BY <1>1, <1>2, <2>4 DEF AgeBuffer
    <2>8. g \in Heap /\ Len(g.q) = Len(x.q)
      BY <2>6, <2>7, upheapKeeps
    <2>. QED
      BY <2>6, <2>8
  <1>3. CASE ~Expired(h.q[i])
    BY <1>3 DEF AgeBuffer
  <1>. QED
    BY <1>2, <1>3

(* The index grows with each turn, up to the length.                       *)
LEMMA AgeTerminates ==
    ASSUME curVtime \in 0..(MaxTime - 1)
    PROVE  Terminates(Heap \X Nat, AgeGo, AgeStep, AgeRank)
  <1>1. ASSUME NEW c \in AgeGo
        PROVE  /\ AgeStep[c] \in Heap \X Nat /\ AgeRank[AgeStep[c]] < AgeRank[c]
    <2>1. PICK h, i : h = c[1] /\ i = c[2]
      OBVIOUS
    <2>2. c \in Heap \X Nat /\ h \in Heap /\ i \in Nat /\ i \in Places(h) /\ Len(h.q) \in Nat
      BY <2>1, HeapType DEF AgeGo, Places
    <2>3. PICK g : g = AgeBuffer(h, i)
      OBVIOUS
    <2>4. g \in Heap /\ Len(g.q) = Len(h.q)
      BY <2>2, <2>3, AgeBufferType
    <2>5. PICK d : d = <<g, i + 1>>
      OBVIOUS
    <2>6. AgeStep[c] = d /\ d \in Heap \X Nat /\ d[1] = g /\ d[2] = i + 1
      BY <2>1, <2>2, <2>3, <2>4, <2>5 DEF AgeStep
    <2>7. AgeRank[c] = Len(h.q) - i + 1
      BY <2>1, <2>2 DEF AgeRank, Places
    <2>8. AgeRank[d] = IF i + 1 <= Len(h.q) THEN Len(h.q) - (i + 1) + 1 ELSE 0
      BY <2>4, <2>6 DEF AgeRank
    <2>9. i <= Len(h.q)
      BY <2>2 DEF Places
    <2>. QED
      BY <2>2, <2>6, <2>7, <2>8, <2>9
  <1>2. AgeStep \in [AgeGo -> Heap \X Nat]
    BY <1>1 DEF AgeStep
  <1>3. AgeRank \in [Heap \X Nat -> Nat]
    <2>. SUFFICES ASSUME NEW c \in Heap \X Nat
                  PROVE  (IF c[2] <= Len(c[1].q) THEN Len(c[1].q) - c[2] + 1 ELSE 0) \in Nat
      BY DEF AgeRank
    <2>1. Len(c[1].q) \in Nat /\ c[2] \in Nat
      BY HeapType
    <2>. QED
      BY <2>1
  <1>. QED
    BY <1>1, <1>2, <1>3 DEF Terminates

(* age is what the loop computes.                                          *)
LEMMA AgeComputes ==
    ASSUME curVtime \in 0..(MaxTime - 1)
    PROVE  Computes(age, Heap \X Nat, AgeGo, AgeStep, AgeBase)
  <1>1. AgeGo \in SUBSET (Heap \X Nat)
    BY DEF AgeGo
  <1>2. \E f : Computes(f, Heap \X Nat, AgeGo, AgeStep, AgeBase)
    BY <1>1, AgeTerminates, LoopComputes
  <1>3. ASSUME NEW f
        PROVE  Computes(f, Heap \X Nat, AgeGo, AgeStep, AgeBase) <=>
                  f = [c \in Heap \X Nat |->
                         IF c[2] \in 1..Len(c[1].q) THEN f[<<AgeBuffer(c[1], c[2]), c[2] + 1>>]
                         ELSE c[1]]
    BY DEF Computes, AgeGo, AgeStep, AgeBase
  <1>4. age = [c \in Heap \X Nat |->
                  IF c[2] \in 1..Len(c[1].q) THEN age[<<AgeBuffer(c[1], c[2]), c[2] + 1>>]
                  ELSE c[1]]
    BY <1>2, <1>3, Zenon DEF age
  <1>. QED
    BY <1>3, <1>4

(* An invariant of its turns holds of its result.                          *)
LEMMA AgeResult ==
    ASSUME curVtime \in 0..(MaxTime - 1), NEW P \in SUBSET (Heap \X Nat), NEW Q,
           TurnsKeep(P, Q, AgeGo, AgeStep, AgeBase)
    PROVE  \A c \in P : age[c] \in Q
  <1>1. AgeGo \in SUBSET (Heap \X Nat)
    BY DEF AgeGo
  <1>2. PICK D : D = Heap \X Nat
    OBVIOUS
  <1>3. PICK f : f = age
    OBVIOUS
  <1>4. /\ AgeGo \in SUBSET D /\ Terminates(D, AgeGo, AgeStep, AgeRank)
        /\ Computes(f, D, AgeGo, AgeStep, AgeBase) /\ P \in SUBSET D
    BY <1>1, <1>2, <1>3, AgeTerminates, AgeComputes
  <1>5. \A d \in P : f[d] \in Q
    BY <1>4, LoopResult, ZenonT(40)
  <1>. QED
    BY <1>3, <1>5

(* The whole ageing: every buffer is aged, and none has to be aged again.  *)
LEMMA AgedKeeps ==
    ASSUME curVtime \in 0..(MaxTime - 1), NEW h, Sound(h), NEW g, g = Aged(h)
    PROVE  /\ Sound(g)
           /\ Now % AgeEvery = 0 => Queue(g) = AgedAll(Queue(h))
           /\ Now % AgeEvery # 0 => g = h
  <1>1. CASE Now % AgeEvery # 0
    BY <1>1 DEF Aged
  <1>2. CASE Now % AgeEvery = 0
    <2> DEFINE P == {c \in Heap \X Nat : Ageing(h, c[1], c[2])}
               Q == {x \in Heap : Ageing(h, x, Len(x.q) + 1)}
    <2>1. P \in SUBSET (Heap \X Nat)
      OBVIOUS
    <2>2. ASSUME NEW c \in P \cap AgeGo PROVE AgeStep[c] \in P
      <3>1. c[1] \in Heap /\ c[2] \in Nat /\ Ageing(h, c[1], c[2]) /\ c[2] \in Places(c[1])
        BY DEF AgeGo, Places
      <3>2. Ageing(h, AgeBuffer(c[1], c[2]), c[2] + 1)
        BY <3>1, AgeingKeeps
      <3>3. AgeStep[c] = <<AgeBuffer(c[1], c[2]), c[2] + 1>>
        BY DEF AgeStep
      <3>4. AgeBuffer(c[1], c[2]) \in Heap /\ c[2] + 1 \in Nat
        BY <3>1, <3>2 DEF Ageing, Sound
      <3>. QED
        BY <3>2, <3>3, <3>4
    <2>3. ASSUME NEW c \in P \ AgeGo PROVE AgeBase[c] \in Q
      <3>1. PICK x, i : x = c[1] /\ i = c[2]
        OBVIOUS
      <3>2. c \in Heap \X Nat /\ x \in Heap /\ i \in Nat /\ Ageing(h, x, i) /\ i \notin 1..Len(x.q)
        BY <3>1 DEF AgeGo
      <3>3. Len(x.q) \in Nat /\ Len(x.q) = Len(h.q) /\ i >= 1 /\ i <= Len(h.q) + 1
        BY <3>2, HeapType DEF Ageing
      <3>4. i = Len(x.q) + 1
        BY <3>2, <3>3
      <3>5. AgeBase[c] = x
        BY <3>1, <3>2 DEF AgeBase
      <3>. QED
        BY <3>2, <3>4, <3>5
    <2>4. Ageing(h, h, 1)
      BY HeapType DEF Ageing, Sound, Front
    <2>5. <<h, 1>> \in P
      BY <2>4 DEF Sound
    <2>6. g = age[<<h, 1>>]
      BY <1>2 DEF Aged
    <2>7. \A c \in P : age[c] \in Q
      <3>1. TurnsKeep(P, Q, AgeGo, AgeStep, AgeBase)
        BY <2>2, <2>3 DEF TurnsKeep
      <3>. HIDE DEF P, Q
      <3>. QED
        BY <2>1, <3>1, AgeResult
    <2>8. g \in Q
      BY <2>5, <2>6, <2>7
    <2>9. Ageing(h, g, Len(g.q) + 1) /\ g \in Heap /\ Len(g.q) \in Nat
      BY <2>8, HeapType
    <2>10. (Len(g.q) + 1) - 1 = Len(g.q)
      BY <2>9
    <2>11. AgedAll(Queue(g)) = AgedAll(Queue(h)) /\ \A e \in Queue(g) : ~Expired(e)
      BY <2>9, <2>10 DEF Ageing, Queue
    <2>12. \A e \in Queue(g) : AgedBuffer(e) = e
      BY <2>11 DEF AgedBuffer
    <2>13. AgedAll(Queue(g)) = Queue(g)
      BY <2>12 DEF AgedAll
    <2>. QED
      BY <1>2, <2>9, <2>11, <2>13 DEF Ageing
  <1>. QED
    BY <1>1, <1>2

----------------------------------------------------------------------------
(* The buffers of the queue at time t: their periods are real ones, and    *)
(* each was referenced at a time of its own, not after t.                  *)
Timely(S, t) ==
    /\ \A e \in S : e.lastIRG < INFINITY /\ e.lastRefTime <= t
    /\ \A e, f \in S : e.lastRefTime = f.lastRefTime => e = f

(* The inductive invariant.                                                *)
IInv ==
    /\ curVtime \in 0..MaxTime
    /\ taken \in Blocks \cup {NoBlock}
    /\ Sound(loopQs)
    /\ Timely(Queue(loopQs), curVtime)

(* Ageing keeps the times apart: it changes periods only.                  *)
LEMMA TimelyAged ==
    ASSUME curVtime \in 0..(MaxTime - 1), NEW S \in SUBSET Buffer, Timely(S, Now)
    PROVE  AgedAll(S) \in SUBSET Buffer /\ Timely(AgedAll(S), Now)
  <1>1. \A e \in S : /\ AgedBuffer(e) \in Buffer /\ AgedBuffer(e).lastRefTime = e.lastRefTime
                     /\ AgedBuffer(e).lastIRG < INFINITY
    <2>. SUFFICES ASSUME NEW e \in S
                  PROVE  /\ AgedBuffer(e) \in Buffer /\ AgedBuffer(e).lastRefTime = e.lastRefTime
                         /\ AgedBuffer(e).lastIRG < INFINITY
      OBVIOUS
    <2>1. CASE Expired(e)
      BY <2>1, AgedBufferType
    <2>2. CASE ~Expired(e)
      BY <2>2 DEF AgedBuffer, Timely
    <2>. QED
      BY <2>1, <2>2
  <1>. HIDE DEF AgedBuffer
  <1>2. \A x \in AgedAll(S) : \E e \in S : x = AgedBuffer(e)
    BY DEF AgedAll
  <1>. QED
    BY <1>1, <1>2 DEF Timely

(* The buffer of this reference is later than all the others.              *)
LEMMA TimelyAdded ==
    ASSUME curVtime \in 0..(MaxTime - 1), NEW S \in SUBSET Buffer, Timely(S, curVtime),
           NEW b \in Blocks, NEW irg \in IRGs, NEW e, e = NewEntry(b, irg), NEW R \in SUBSET S
    PROVE  /\ e \in Buffer /\ e.blkno = b /\ Timely(R, Now) /\ Timely(R \cup {e}, Now)
  <1>1. Now \in Nat /\ Now <= MaxTime /\ curVtime < Now /\ curVtime \in Nat
    BY LoopQueueAssumption DEF Now
  <1>2. irg \in 1..INFINITY /\ irg < INFINITY
    BY LoopQueueAssumption
  <1>3. e = [blkno |-> b, lastIRG |-> irg, lastRefTime |-> Now]
    BY DEF NewEntry
  <1>4. Now \in 0..MaxTime
    BY <1>1, LoopQueueAssumption
  <1>5. e \in Buffer /\ e.blkno = b /\ e.lastIRG = irg /\ e.lastRefTime = Now
    BY <1>2, <1>3, <1>4 DEF Buffer
  <1>6. \A f \in R : /\ f.lastRefTime \in Nat /\ f.lastRefTime <= curVtime
                     /\ f.lastRefTime <= Now /\ f.lastRefTime # Now
    BY <1>1, BufferType DEF Timely
  <1>7. Timely(R, Now)
    BY <1>6 DEF Timely
  <1>8. Timely(R \cup {e}, Now)
    BY <1>1, <1>2, <1>5, <1>6, <1>7 DEF Timely
  <1>. QED
    BY <1>5, <1>7, <1>8

(* The queue is a set of buffers, empty when the heap is.                  *)
LEMMA QueueType ==
    ASSUME NEW h, Sound(h)
    PROVE  Queue(h) \in SUBSET Buffer /\ (Len(h.q) # 0 <=> Queue(h) # {}) /\ (Len(h.q) # 0 <=> h.q # <<>>)
  <1>1. h \in Heap /\ Exact(h)
    BY DEF Sound
  <1>2. Queue(h) \in SUBSET Buffer
    BY <1>1, OncePlaced
  <1>3. h.q \in Seq(Buffer) /\ Len(h.q) \in Nat
    BY <1>1, HeapType
  <1>4. Len(h.q) # 0 <=> h.q # <<>>
    BY <1>3
  <1>5. Len(h.q) # 0 => h.q[1] \in Queue(h)
    BY <1>3 DEF Queue, Front
  <1>6. Len(h.q) = 0 => Queue(h) = {}
    BY <1>3 DEF Queue, Front
  <1>. QED
    BY <1>2, <1>4, <1>5, <1>6

(* A buffer that is hit becomes the root, and loopQout takes the root when *)
(* it was referenced in this very step.                                    *)
LEMMA WorstIsTaken ==
    ASSUME IInv, curVtime < MaxTime, NEW b \in Blocks, Queued(b), NEW w, w = Worst(b),
           NEW r, r = loopQout(w)
    PROVE  /\ r.bp.blkno = b /\ Sound(r.heap) /\ r.heap.at[b] = 0
           /\ Queue(r.heap) = {e \in Queue(loopQs) : e.blkno # b}
  <1>1. PICK h, i : h = loopQs /\ i = h.at[b]
    OBVIOUS
  <1>2. Sound(h) /\ h \in Heap /\ Exact(h) /\ Timely(Queue(h), curVtime)
    BY <1>1 DEF IInv, Sound
  <1>3. /\ h.q = loopQ /\ h.at = loopQindex /\ i \in Places(h) /\ h.q[i].blkno = b
        /\ h.q[i] \in Buffer /\ h.q \in [Places(h) -> Buffer] /\ Len(h.q) \in Nat
    BY <1>1, <1>2, HeapType DEF loopQs, Queued, Exact, Places
  <1>4. curVtime \in Nat /\ Now \in 0..MaxTime /\ curVtime < Now /\ Now = curVtime + 1
    BY LoopQueueAssumption DEF IInv, Now
  <1>5. PICK e : e = [blkno |-> b, lastIRG |-> INFINITY, lastRefTime |-> Now]
    OBVIOUS
  <1>6. INFINITY \in 1..INFINITY
    BY LoopQueueAssumption
  <1>7. e \in Buffer /\ e.blkno = b /\ e.lastIRG = INFINITY /\ e.lastRefTime = Now
    BY <1>4, <1>5, <1>6 DEF Buffer
  <1>8. \A j \in Places(h) : h.q[j] \in Queue(h) /\ h.q[j] \in Buffer /\ h.q[j].lastIRG < INFINITY
    BY <1>2, HeapType DEF Queue, Front, Places, Timely
  <1>9. MoreValuable(h.q[i], e)
    BY <1>3, <1>7, <1>8 DEF MoreValuable
  <1>10. [loopQ EXCEPT ![i].lastIRG = INFINITY, ![i].lastRefTime = Now] = [h.q EXCEPT ![i] = e]
    <2>1. PICK f : f = h.q[i]
      OBVIOUS
    <2>2. PICK p, t : f = [blkno |-> b, lastIRG |-> p, lastRefTime |-> t]
      BY <1>3, <2>1 DEF Buffer
    <2>3. [[f EXCEPT !.lastIRG = INFINITY] EXCEPT !.lastRefTime = Now] = e
      <3>1. PICK x : x = [f EXCEPT !.lastIRG = INFINITY]
        OBVIOUS
      <3>2. x = [blkno |-> b, lastIRG |-> INFINITY, lastRefTime |-> t]
        BY <2>2, <3>1
      <3>3. [x EXCEPT !.lastRefTime = Now] = e
        BY <1>5, <3>2
      <3>. QED
        BY <3>1, <3>3
    <2>4. PICK s : s = h.q
      OBVIOUS
    <2>5. [s EXCEPT ![i].lastIRG = INFINITY, ![i].lastRefTime = Now] = [s EXCEPT ![i] = e]
      <3>1. PICK x : x = [s EXCEPT ![i] = [s[i] EXCEPT !.lastIRG = INFINITY]]
        OBVIOUS
      <3>2. /\ DOMAIN s = Places(h) /\ DOMAIN x = Places(h)
            /\ x[i] = [f EXCEPT !.lastIRG = INFINITY]
            /\ \A j \in Places(h) : j # i => x[j] = s[j]
        BY <1>3, <2>1, <2>4, <3>1
      <3>3. [x EXCEPT ![i] = [x[i] EXCEPT !.lastRefTime = Now]] = [x EXCEPT ![i] = e]
        BY <2>3, <3>2
      <3>4. [x EXCEPT ![i] = e] = [s EXCEPT ![i] = e]
        BY <1>3, <2>4, <3>1, <3>2
      <3>5. [s EXCEPT ![i].lastIRG = INFINITY, ![i].lastRefTime = Now]
              = [x EXCEPT ![i] = [x[i] EXCEPT !.lastRefTime = Now]]
        BY <3>1
      <3>. QED
        BY <3>3, <3>4, <3>5
    <2>. QED
      BY <1>3, <2>4, <2>5
  <1>11. w = upheap(Lowered(h, i, e), i)
    BY <1>1, <1>3, <1>10 DEF Worst, Lowered
  <1>12. /\ Sound(w) /\ Len(w.q) = Len(h.q)
         /\ \A n \in Places(h) : i <= n => Front(w, n) = (Front(h, n) \ {h.q[i]}) \cup {e}
    BY <1>2, <1>3, <1>7, <1>9, <1>11, DemoteKeeps
  <1>13. Len(h.q) \in Places(h) /\ i <= Len(h.q) /\ Len(h.q) # 0
    BY <1>3 DEF Places
  <1>14. Queue(w) = (Queue(h) \ {h.q[i]}) \cup {e}
    BY <1>12, <1>13 DEF Queue
  <1>15. w.q[1] = e
    <2>1. w \in Heap /\ Places(w) = Places(h) /\ 1 \in Places(w) /\ InOrder(w)
      BY <1>12, <1>13, <1>3 DEF Places, Sound
    <2>2. w.q[1] \in Queue(w) /\ w.q[1] \in Buffer
      BY <2>1, HeapType DEF Queue, Front, Places
    <2>3. PICK j \in Places(w) : w.q[j] = e
      BY <1>14 DEF Queue, Front, Places
    <2>4. ~MoreValuable(w.q[1], e)
      BY <2>1, <2>3, RootIsLeast
    <2>5. CASE w.q[1] \in Queue(h)
      <3>1. w.q[1].lastIRG < e.lastIRG
        BY <1>2, <1>7, <2>5 DEF Timely
      <3>. QED
        BY <2>4, <3>1 DEF MoreValuable
    <2>. QED
      BY <1>14, <2>2, <2>5
  <1>16. OutPlace(w) = 1
    BY <1>4, <1>7, <1>15 DEF OutPlace
  <1>17. /\ r.bp = e /\ Sound(r.heap) /\ Queue(r.heap) = Queue(w) \ {e} /\ r.heap.at[e.blkno] = 0
    <2>1. Len(w.q) # 0
      BY <1>12, <1>13
    <2>2. PICK k : k = OutPlace(w)
      OBVIOUS
    <2>3. /\ r.bp = w.q[k] /\ Sound(r.heap) /\ Queue(r.heap) = Queue(w) \ {r.bp}
          /\ r.heap.at[r.bp.blkno] = 0
      BY <1>12, <2>1, <2>2, loopQoutKeeps
    <2>. QED
      BY <1>15, <1>16, <2>2, <2>3
  <1>18. \A f \in Queue(h) : f.blkno # b <=> f # h.q[i]
    <2>1. \A m, n \in Places(h) : h.q[m].blkno = h.q[n].blkno => m = n
      BY <1>2, OncePlaced
    <2>. QED
      BY <1>3, <2>1 DEF Queue, Front, Places
  <1>19. e \notin Queue(h)
    BY <1>2, <1>4, <1>7 DEF Timely
  <1>20. Queue(r.heap) = {f \in Queue(h) : f.blkno # b}
    BY <1>14, <1>17, <1>18, <1>19
  <1>. QED
    BY <1>1, <1>7, <1>17, <1>20

----------------------------------------------------------------------------
(* The victim is the abstract queue's.  Its choice is unique because no    *)
(* two buffers were referenced at the same time.                           *)
LEMMA LeastIs ==
    ASSUME NEW t, NEW S \in SUBSET Buffer, Timely(S, t), NEW e \in S,
           \A f \in S : ~MoreValuable(e, f)
    PROVE  Abstract!LeastValuable(S) = e
  <1>1. \A x, y : Abstract!SoonerThan(x, y) <=> MoreValuable(x, y)
    BY DEF Abstract!SoonerThan, MoreValuable
  <1>2. ASSUME NEW f \in S \ {e} PROVE MoreValuable(f, e)
    <2>1. f \in Buffer /\ e \in Buffer /\ ~MoreValuable(e, f)
      OBVIOUS
    <2>2. f.lastRefTime # e.lastRefTime
      BY DEF Timely
    <2>. QED
      BY <2>1, <2>2, ValueOrder
  <1>3. \A x \in S : (\A f \in S \ {x} : MoreValuable(f, x)) => x = e
    OBVIOUS
  <1>4. Abstract!LeastValuable(S) = CHOOSE x \in S : \A f \in S \ {x} : MoreValuable(f, x)
    BY <1>1, Zenon DEF Abstract!LeastValuable
  <1>5. \E x \in S : \A f \in S \ {x} : MoreValuable(f, x)
    BY <1>2
  <1>. QED
    BY <1>3, <1>4, <1>5

(* The instance counts as this module does.                                *)
LEMMA CountsAlike == \A S : Abstract!Cardinality(S) = Cardinality(S)
  BY Zenon DEF Abstract!Cardinality, Cardinality

(* The queue has more than one buffer when the heap has.                   *)
LEMMA QueueCount ==
    ASSUME NEW h, Sound(h), Len(h.q) # 0
    PROVE  Cardinality(Queue(h)) > 1 <=> Len(h.q) > 1
  <1>1. PICK n : n = Len(h.q)
    OBVIOUS
  <1>2. /\ h.q \in Seq(Buffer) /\ n \in Nat /\ n >= 1 /\ Places(h) = 1..n
        /\ \A i, j \in Places(h) : h.q[i].blkno = h.q[j].blkno => i = j
    BY <1>1, HeapType, OncePlaced DEF Sound, Places
  <1>3. Queue(h) = {h.q[i] : i \in 1..n}
    BY <1>1 DEF Queue, Front
  <1>4. IsFiniteSet(Queue(h))
    <2>1. h.q \in Seq(Queue(h))
      BY <1>1, <1>2, <1>3
    <2>2. \A e \in Queue(h) : \E i \in 1..Len(h.q) : h.q[i] = e
      BY <1>1, <1>3
    <2>. QED
      BY <2>1, <2>2 DEF IsFiniteSet
  <1>5. Cardinality(Queue(h)) \in Nat /\ Cardinality(Queue(h)) # 0
    <2>1. h.q[1] \in Queue(h)
      BY <1>2, <1>3
    <2>. QED
      BY <1>4, <2>1, FS_CardinalityType, FS_EmptySet
  <1>6. Cardinality(Queue(h)) = 1 <=> \E x : Queue(h) = {x}
    BY <1>4, FS_Singleton
  <1>7. CASE n = 1
    <2>1. Queue(h) = {h.q[1]}
      BY <1>3, <1>7
    <2>2. Cardinality(Queue(h)) = 1
      BY <1>6, <2>1
    <2>. QED
      BY <1>1, <1>7, <2>2
  <1>8. CASE n # 1
    <2>1. h.q[1] # h.q[2] /\ h.q[1] \in Queue(h) /\ h.q[2] \in Queue(h)
      <3>1. n >= 2
        BY <1>2, <1>8
      <3>2. 1 \in Places(h) /\ 2 \in Places(h)
        BY <1>2, <3>1
      <3>. QED
        BY <1>2, <1>3, <3>2
    <2>2. Cardinality(Queue(h)) # 1
      BY <1>6, <2>1
    <2>3. Cardinality(Queue(h)) > 1 /\ n > 1
      BY <1>2, <1>5, <1>8, <2>2
    <2>. QED
      BY <1>1, <2>3
  <1>. QED
    BY <1>7, <1>8

(* loopQout takes the victim of the abstract queue.                        *)
LEMMA VictimIs ==
    ASSUME curVtime \in 0..(MaxTime - 1), NEW h, Sound(h), Timely(Queue(h), curVtime), Len(h.q) # 0
    PROVE  Abstract!Victim(Queue(h)) = h.q[OutPlace(h)]
  <1>1. PICK n, S, k : n = Len(h.q) /\ S = Queue(h) /\ k = OutPlace(h)
    OBVIOUS
  <1>2. /\ h \in Heap /\ n \in Nat /\ n >= 1 /\ Places(h) = 1..n /\ InOrder(h)
        /\ \A i \in Places(h) : h.q[i] \in Buffer
        /\ S = {h.q[i] : i \in Places(h)} /\ S \in SUBSET Buffer
    BY <1>1, HeapType, QueueType DEF Sound, Places, Queue, Front
  <1>3. PICK w : w = h.q[1]
    OBVIOUS
  <1>4. w \in S /\ w \in Buffer /\ w.lastRefTime \in Nat /\ w.lastRefTime < Now /\ Now \in Nat
    <2>1. w \in S /\ w \in Buffer
      BY <1>2, <1>3
    <2>2. w.lastRefTime \in Nat /\ w.lastRefTime <= curVtime
      BY <1>1, <2>1, BufferType DEF Timely
    <2>. QED
      BY <2>1, <2>2, LoopQueueAssumption DEF Now
  <1>5. Abstract!LeastValuable(S) = w
    <2>1. \A f \in S : ~MoreValuable(w, f)
      BY <1>2, <1>3, RootIsLeast
    <2>. QED
      BY <1>1, <1>2, <1>4, <2>1, LeastIs
  <1>6. Abstract!Cardinality(S) > 1 <=> n > 1
    BY <1>1, QueueCount, CountsAlike
  <1>7. Abstract!Now - w.lastRefTime \in 1..Correlated
           <=> Now > w.lastRefTime /\ Now - w.lastRefTime <= Correlated
    BY <1>4, LoopQueueAssumption DEF Abstract!Now, Now
  <1>8. Abstract!Victim(S) = IF n > 1 /\ Now > w.lastRefTime /\ Now - w.lastRefTime <= Correlated
                             THEN Abstract!LeastValuable(S \ {w}) ELSE w
    BY <1>5, <1>6, <1>7 DEF Abstract!Victim
  <1>9. CASE ~(n > 1 /\ Now > w.lastRefTime /\ Now - w.lastRefTime <= Correlated)
    <2>1. k = 1
      BY <1>1, <1>3, <1>9 DEF OutPlace
    <2>. QED
      BY <1>1, <1>3, <1>8, <1>9, <2>1
  <1>10. CASE n > 1 /\ Now > w.lastRefTime /\ Now - w.lastRefTime <= Correlated
    <2>1. k = IF n > 2 /\ MoreValuable(h.q[2], h.q[3]) THEN 3 ELSE 2
      BY <1>1, <1>3, <1>10 DEF OutPlace
    <2>2. 2 \in Places(h) /\ (3 \in Places(h) <=> n > 2) /\ k \in {2, 3} \cap Places(h)
      BY <1>2, <1>10, <2>1
    <2>3. ASSUME NEW d \in {2, 3} \cap Places(h) PROVE ~MoreValuable(h.q[k], h.q[d])
      BY <1>2, <2>1, <2>2, ValueOrder
    <2>4. \A i \in Places(h) \ {1} : ~MoreValuable(h.q[k], h.q[i])
      BY <1>2, <2>2, <2>3, SecondIsLeast
    <2>5. \A i \in Places(h) : h.q[i] = w <=> i = 1
      <3>1. 1 \in Places(h) /\ Exact(h)
        BY <1>2 DEF Sound
      <3>. QED
        BY <1>2, <1>3, <3>1, OncePlaced
    <2>6. h.q[k] \in S \ {w} /\ \A f \in S \ {w} : ~MoreValuable(h.q[k], f)
      BY <1>2, <2>2, <2>4, <2>5
    <2>7. Timely(S \ {w}, curVtime) /\ S \ {w} \in SUBSET Buffer
      BY <1>1, <1>2 DEF Timely
    <2>8. Abstract!LeastValuable(S \ {w}) = h.q[k]
      BY <2>6, <2>7, LeastIs
    <2>. QED
      BY <1>1, <1>8, <1>10, <2>8
  <1>. QED
    BY <1>9, <1>10

----------------------------------------------------------------------------
(* A turn of main's loop that makes the heap g is one that makes the queue *)
(* of g: the ageing and the clock are the abstract ones.                   *)
LEMMA BecomesKeeps ==
    ASSUME curVtime \in 0..MaxTime, curVtime < MaxTime, NEW g, Sound(g), Timely(Queue(g), Now),
           NEW b \in Blocks \cup {NoBlock}, Becomes(g, b)
    PROVE  IInv' /\ Abstract!Becomes(Queue(g), b) /\ taken' = b
  <1>1. /\ curVtime \in 0..(MaxTime - 1) /\ Now \in 0..MaxTime /\ Now = curVtime + 1
    BY LoopQueueAssumption DEF Now
  <1>2. PICK x : x = Aged(g)
    OBVIOUS
  <1>3. curVtime' = Now /\ loopQ' = x.q /\ loopQindex' = x.at /\ taken' = b
    BY <1>2 DEF Becomes
  <1>4. /\ Sound(x)
        /\ Now % AgeEvery = 0 => Queue(x) = AgedAll(Queue(g))
        /\ Now % AgeEvery # 0 => x = g
    BY <1>1, <1>2, AgedKeeps
  <1>5. loopQs' = x
    BY <1>3, <1>4, HeapType DEF loopQs, Sound
  <1>6. Queue(g) \in SUBSET Buffer
    BY QueueType
  <1>7. Timely(Queue(x), Now)
    <2>1. CASE Now % AgeEvery = 0
      BY <1>1, <1>4, <1>6, <2>1, TimelyAged
    <2>2. CASE Now % AgeEvery # 0
      BY <1>4, <2>2
    <2>. QED
      BY <2>1, <2>2
  <1>8. IInv'
    <2>1. Sound(loopQs') /\ Timely(Queue(loopQs'), curVtime') /\ curVtime' \in 0..MaxTime
      BY <1>1, <1>3, <1>4, <1>5, <1>7
    <2>. QED
      BY <1>3, <2>1 DEF IInv, NoBlock
  <1>9. {loopQ'[i] : i \in 1..Len(loopQ')} = Queue(x)
    BY <1>3 DEF Queue, Front
  <1>10. Abstract!Aged(Queue(g)) = Queue(x)
    <2>1. /\ Abstract!Now = Now /\ \A e : Abstract!Expired(e) <=> Expired(e)
      BY DEF Abstract!Now, Now, Abstract!Expired, Expired
    <2>2. CASE Now % AgeEvery = 0
      BY <1>4, <2>1, <2>2 DEF Abstract!Aged, AgedAll, AgedBuffer
    <2>3. CASE Now % AgeEvery # 0
      BY <1>4, <2>1, <2>3 DEF Abstract!Aged
    <2>. QED
      BY <2>2, <2>3
  <1>11. Abstract!Becomes(Queue(g), b)
    BY <1>3, <1>9, <1>10 DEF Abstract!Becomes, Abstract!Now, Now
  <1>. QED
    BY <1>3, <1>8, <1>11

(* What the actions read of the queue.                                     *)
LEMMA QueueSeen ==
    ASSUME IInv, NEW h, h = loopQs
    PROVE  /\ Sound(h) /\ Timely(Queue(h), curVtime) /\ Queue(h) \in SUBSET Buffer
           /\ {loopQ[i] : i \in 1..Len(loopQ)} = Queue(h)
           /\ \A b \in Blocks : Queued(b) <=> b \in Abstract!Queued
           /\ \A b \in Blocks : h.at[b] = 0 <=> ~Queued(b)
           /\ loopQ # <<>> => Len(h.q) # 0 /\ Queue(h) # {}
  <1>1. Sound(h) /\ Timely(Queue(h), curVtime) /\ h.q = loopQ /\ h.at = loopQindex
    BY DEF IInv, loopQs
  <1>2. Queue(h) \in SUBSET Buffer /\ (loopQ # <<>> => Len(h.q) # 0 /\ Queue(h) # {})
    BY <1>1, QueueType
  <1>3. {loopQ[i] : i \in 1..Len(loopQ)} = Queue(h)
    BY <1>1 DEF Queue, Front
  <1>4. ASSUME NEW b \in Blocks PROVE Queued(b) <=> b \in Abstract!Queued
    <2>1. h.at[b] = 0 <=> \A e \in Queue(h) : e.blkno # b
      BY <1>1, OncePlaced DEF Sound
    <2>. QED
      BY <1>1, <1>3, <2>1 DEF Queued, Abstract!Queued
  <1>. QED
    BY <1>1, <1>2, <1>3, <1>4 DEF Queued

(* Each action keeps the invariant and is the abstract one of its name.    *)
LEMMA PassStep ==
    ASSUME IInv, Pass
    PROVE  IInv' /\ Abstract!Pass
  <1>1. PICK h : h = loopQs
    OBVIOUS
  <1>2. Sound(h) /\ Timely(Queue(h), curVtime) /\ {loopQ[i] : i \in 1..Len(loopQ)} = Queue(h)
    BY <1>1, QueueSeen
  <1>3. Timely(Queue(h), Now)
    <2>1. \A e \in Queue(h) : e.lastRefTime \in Nat
      BY <1>2, QueueType, BufferType
    <2>. QED
      BY <1>2, <2>1 DEF Timely, Now, IInv
  <1>4. IInv' /\ Abstract!Becomes(Queue(h), NoBlock)
    BY <1>1, <1>2, <1>3, BecomesKeeps DEF Pass, IInv
  <1>. QED
    BY <1>2, <1>4 DEF Abstract!Pass, Abstract!NoBlock, NoBlock

(* A block comes in.                                                       *)
LEMMA InsertStep ==
    ASSUME IInv, NEW b \in Blocks, NEW irg \in IRGs, Insert(b, irg)
    PROVE  IInv' /\ Abstract!Insert(b, irg)
  <1>1. PICK h, e, g : h = loopQs /\ e = NewEntry(b, irg) /\ g = loopQin(h, e)
    OBVIOUS
  <1>2. /\ Sound(h) /\ Timely(Queue(h), curVtime) /\ {loopQ[i] : i \in 1..Len(loopQ)} = Queue(h)
        /\ Queue(h) \in SUBSET Buffer /\ h.at[b] = 0 /\ b \notin Abstract!Queued
    BY <1>1, QueueSeen DEF Insert
  <1>3. curVtime \in 0..(MaxTime - 1) /\ curVtime \in 0..MaxTime /\ curVtime < MaxTime
    BY LoopQueueAssumption DEF Insert, IInv
  <1>4. e \in Buffer /\ e.blkno = b /\ Timely(Queue(h) \cup {e}, Now)
    BY <1>1, <1>2, <1>3, TimelyAdded
  <1>5. Sound(g) /\ Queue(g) = Queue(h) \cup {e}
    BY <1>1, <1>2, <1>4, loopQinKeeps
  <1>6. Becomes(g, NoBlock)
    BY <1>1 DEF Insert
  <1>7. IInv' /\ Abstract!Becomes(Queue(g), NoBlock)
    BY <1>3, <1>4, <1>5, <1>6, BecomesKeeps
  <1>8. e = Abstract!NewEntry(b, irg)
    BY <1>1 DEF Abstract!NewEntry, Abstract!Now, NewEntry, Now
  <1>. QED
    BY <1>2, <1>5, <1>7, <1>8 DEF Abstract!Insert, Abstract!NoBlock, NoBlock

(* What loopQout gives for the queue as it is: the abstract victim.        *)
LEMMA OutStep ==
    ASSUME IInv, curVtime < MaxTime, loopQ # <<>>, NEW h, h = loopQs, NEW r, r = loopQout(h)
    PROVE  /\ Sound(r.heap) /\ Queue(r.heap) = Queue(h) \ {r.bp} /\ r.bp \in Queue(h)
           /\ Queue(h) # {} /\ r.bp = Abstract!Victim(Queue(h)) /\ r.bp.blkno \in Blocks
           /\ \A b \in Blocks : h.at[b] = 0 => r.heap.at[b] = 0
  <1>1. curVtime \in 0..(MaxTime - 1)
    BY LoopQueueAssumption DEF IInv
  <1>2. Sound(h) /\ Timely(Queue(h), curVtime) /\ Len(h.q) # 0 /\ Queue(h) # {}
    BY QueueSeen
  <1>3. PICK k : k = OutPlace(h)
    OBVIOUS
  <1>4. /\ r.bp = h.q[k] /\ r.bp \in Queue(h) /\ r.bp \in Buffer
        /\ Sound(r.heap) /\ Queue(r.heap) = Queue(h) \ {r.bp}
    BY <1>2, <1>3, loopQoutKeeps
  <1>5. r.bp = Abstract!Victim(Queue(h))
    BY <1>1, <1>2, <1>3, <1>4, VictimIs
  <1>6. ASSUME NEW b \in Blocks, h.at[b] = 0 PROVE r.heap.at[b] = 0
    <2>1. \A e \in Queue(h) : e.blkno # b
      BY <1>2, <1>6, OncePlaced DEF Sound
    <2>2. \A e \in Queue(r.heap) : e.blkno # b
      BY <1>4, <2>1
    <2>. QED
      BY <1>4, <2>2, OncePlaced DEF Sound
  <1>. QED
    BY <1>2, <1>4, <1>5, <1>6, BufferType

(* A victim leaves first.                                                  *)
LEMMA ReplaceStep ==
    ASSUME IInv, NEW b \in Blocks, NEW irg \in IRGs, Replace(b, irg)
    PROVE  IInv' /\ Abstract!Replace(b, irg)
  <1>1. PICK h, r, e, g : /\ h = loopQs /\ r = loopQout(h) /\ e = NewEntry(b, irg)
                          /\ g = loopQin(r.heap, e)
    OBVIOUS
  <1>2. /\ Timely(Queue(h), curVtime) /\ {loopQ[i] : i \in 1..Len(loopQ)} = Queue(h)
        /\ Queue(h) \in SUBSET Buffer /\ h.at[b] = 0 /\ b \notin Abstract!Queued
    BY <1>1, QueueSeen DEF Replace
  <1>3. curVtime \in 0..(MaxTime - 1) /\ curVtime \in 0..MaxTime /\ curVtime < MaxTime
    BY LoopQueueAssumption DEF Replace, IInv
  <1>4. /\ Sound(r.heap) /\ Queue(r.heap) = Queue(h) \ {r.bp} /\ Queue(h) # {}
        /\ r.bp = Abstract!Victim(Queue(h)) /\ r.bp.blkno \in Blocks /\ r.heap.at[b] = 0
    BY <1>1, <1>2, <1>3, OutStep DEF Replace
  <1>5. e \in Buffer /\ e.blkno = b /\ Timely(Queue(r.heap) \cup {e}, Now)
    <2>1. Queue(r.heap) \in SUBSET Queue(h)
      BY <1>4
    <2>. QED
      BY <1>1, <1>2, <1>3, <2>1, TimelyAdded
  <1>6. Sound(g) /\ Queue(g) = (Queue(h) \ {r.bp}) \cup {e}
    BY <1>1, <1>4, <1>5, loopQinKeeps
  <1>7. Becomes(g, r.bp.blkno)
    BY <1>1 DEF Replace
  <1>8. IInv' /\ Abstract!Becomes(Queue(g), r.bp.blkno)
    BY <1>3, <1>4, <1>5, <1>6, <1>7, BecomesKeeps
  <1>9. e = Abstract!NewEntry(b, irg)
    BY <1>1 DEF Abstract!NewEntry, Abstract!Now, NewEntry, Now
  <1>. QED
    <2>1. (Queue(h) \ {Abstract!Victim(Queue(h))}) \cup {Abstract!NewEntry(b, irg)} = Queue(g)
      BY <1>4, <1>6, <1>9
    <2>. QED
      BY <1>2, <1>4, <1>8, <2>1 DEF Abstract!Replace, Abstract!Becomes

(* A victim leaves.                                                        *)
LEMMA EvictStep ==
    ASSUME IInv, Evict
    PROVE  IInv' /\ Abstract!Evict
  <1>1. PICK h, r : h = loopQs /\ r = loopQout(h)
    OBVIOUS
  <1>2. /\ Timely(Queue(h), curVtime) /\ {loopQ[i] : i \in 1..Len(loopQ)} = Queue(h)
        /\ Queue(h) \in SUBSET Buffer
    BY <1>1, QueueSeen
  <1>3. curVtime \in 0..(MaxTime - 1) /\ curVtime \in 0..MaxTime /\ curVtime < MaxTime
    BY LoopQueueAssumption DEF Evict, IInv
  <1>4. /\ Sound(r.heap) /\ Queue(r.heap) = Queue(h) \ {r.bp} /\ Queue(h) # {}
        /\ r.bp = Abstract!Victim(Queue(h)) /\ r.bp.blkno \in Blocks
    BY <1>1, <1>3, OutStep DEF Evict
  <1>5. Timely(Queue(r.heap), Now)
    <2>1. \A e \in Queue(h) : e.lastRefTime \in Nat /\ curVtime \in Nat /\ Now = curVtime + 1
      BY <1>2, <1>3, BufferType DEF Now
    <2>. QED
      BY <1>2, <1>4, <2>1 DEF Timely
  <1>6. Becomes(r.heap, r.bp.blkno)
    BY <1>1 DEF Evict
  <1>7. IInv' /\ Abstract!Becomes(Queue(r.heap), r.bp.blkno)
    BY <1>3, <1>4, <1>5, <1>6, BecomesKeeps
  <1>. QED
    <2>1. Queue(h) \ {Abstract!Victim(Queue(h))} = Queue(r.heap)
      BY <1>4
    <2>. QED
      BY <1>2, <1>4, <1>7, <2>1 DEF Abstract!Evict, Abstract!Becomes

(* What both kinds of hit have in common.                                  *)
LEMMA HitStep ==
    ASSUME IInv, NEW b \in Blocks, curVtime < MaxTime, Queued(b), NEW r, r = loopQout(Worst(b))
    PROVE  /\ r.bp.blkno = b /\ Sound(r.heap) /\ r.heap.at[b] = 0
           /\ Queue(r.heap) = Abstract!Rest(b) /\ b \in Abstract!Queued
           /\ Timely(Queue(r.heap), Now)
           /\ \A irg \in IRGs :
                 /\ NewEntry(b, irg) \in Buffer /\ NewEntry(b, irg).blkno = b
                 /\ Timely(Queue(r.heap) \cup {NewEntry(b, irg)}, Now)
                 /\ NewEntry(b, irg) = Abstract!NewEntry(b, irg)
  <1>1. PICK h, w : h = loopQs /\ w = Worst(b)
    OBVIOUS
  <1>2. /\ Timely(Queue(h), curVtime) /\ {loopQ[i] : i \in 1..Len(loopQ)} = Queue(h)
        /\ Queue(h) \in SUBSET Buffer /\ b \in Abstract!Queued
    BY <1>1, QueueSeen
  <1>3. curVtime \in 0..(MaxTime - 1)
    BY LoopQueueAssumption DEF IInv
  <1>4. /\ r.bp.blkno = b /\ Sound(r.heap) /\ r.heap.at[b] = 0
        /\ Queue(r.heap) = {e \in Queue(h) : e.blkno # b}
    BY <1>1, WorstIsTaken
  <1>5. Queue(r.heap) = Abstract!Rest(b)
    BY <1>2, <1>4 DEF Abstract!Rest
  <1>6. Queue(r.heap) \in SUBSET Queue(h)
    BY <1>4
  <1>7. Timely(Queue(r.heap), Now)
    <2>1. \A e \in Queue(h) : e.lastRefTime \in Nat /\ curVtime \in Nat /\ Now = curVtime + 1
      BY <1>2, <1>3, BufferType DEF Now
    <2>. QED
      BY <1>2, <1>6, <2>1 DEF Timely
  <1>8. ASSUME NEW irg \in IRGs, NEW e, e = NewEntry(b, irg)
        PROVE  /\ e \in Buffer /\ e.blkno = b /\ Timely(Queue(r.heap) \cup {e}, Now)
               /\ e = Abstract!NewEntry(b, irg)
    <2>1. e \in Buffer /\ e.blkno = b /\ Timely(Queue(r.heap) \cup {e}, Now)
      BY <1>2, <1>3, <1>6, <1>8, TimelyAdded
    <2>. QED
      BY <1>8, <2>1 DEF Abstract!NewEntry, Abstract!Now, NewEntry, Now
  <1>. QED
    BY <1>2, <1>4, <1>5, <1>7, <1>8

(* A hit block comes back with its new period.                             *)
LEMMA HitStaysStep ==
    ASSUME IInv, NEW b \in Blocks, NEW irg \in IRGs, HitStays(b, irg)
    PROVE  IInv' /\ Abstract!HitStays(b, irg) /\ taken' = b
  <1>1. PICK r, e, g : r = loopQout(Worst(b)) /\ e = NewEntry(b, irg) /\ g = loopQin(r.heap, e)
    OBVIOUS
  <1>2. curVtime \in 0..MaxTime /\ curVtime < MaxTime /\ Queued(b)
    BY DEF HitStays, IInv
  <1>3. /\ r.bp.blkno = b /\ Sound(r.heap) /\ r.heap.at[b] = 0
        /\ Queue(r.heap) = Abstract!Rest(b) /\ b \in Abstract!Queued
        /\ e \in Buffer /\ e.blkno = b /\ Timely(Queue(r.heap) \cup {e}, Now)
        /\ e = Abstract!NewEntry(b, irg)
    BY <1>1, <1>2, HitStep
  <1>4. Sound(g) /\ Queue(g) = Abstract!Rest(b) \cup {e}
    BY <1>1, <1>3, loopQinKeeps
  <1>5. Becomes(g, b)
    BY <1>1, <1>3 DEF HitStays
  <1>6. IInv' /\ Abstract!Becomes(Queue(g), b) /\ taken' = b
    BY <1>2, <1>3, <1>4, <1>5, BecomesKeeps
  <1>. QED
    BY <1>3, <1>4, <1>6 DEF Abstract!HitStays

(* A hit block leaves.                                                     *)
LEMMA HitLeavesStep ==
    ASSUME IInv, NEW b \in Blocks, HitLeaves(b)
    PROVE  IInv' /\ Abstract!HitLeaves(b) /\ taken' = b
  <1>1. PICK r : r = loopQout(Worst(b))
    OBVIOUS
  <1>2. curVtime \in 0..MaxTime /\ curVtime < MaxTime /\ Queued(b)
    BY DEF HitLeaves, IInv
  <1>3. /\ r.bp.blkno = b /\ Sound(r.heap)
        /\ Queue(r.heap) = Abstract!Rest(b) /\ b \in Abstract!Queued
        /\ Timely(Queue(r.heap), Now)
    BY <1>1, <1>2, HitStep
  <1>5. Becomes(r.heap, b)
    BY <1>1, <1>3 DEF HitLeaves
  <1>6. IInv' /\ Abstract!Becomes(Queue(r.heap), b) /\ taken' = b
    BY <1>2, <1>3, <1>5, BecomesKeeps
  <1>. QED
    BY <1>3, <1>6 DEF Abstract!HitLeaves

----------------------------------------------------------------------------
(* The empty queue.                                                        *)
LEMMA InitIInv == Init => IInv
  <1>. SUFFICES ASSUME Init PROVE IInv
    OBVIOUS
  <1>1. PICK h : h = loopQs
    OBVIOUS
  <1>2. /\ h.q = <<>> /\ h.at = [b \in Blocks |-> 0] /\ h = [q |-> h.q, at |-> h.at]
        /\ curVtime = 0 /\ taken = NoBlock
    BY <1>1 DEF Init, loopQs
  <1>3. h \in Heap /\ Len(h.q) = 0
    <2>1. h.q \in Seq(Buffer) /\ Len(h.q) = 0
      BY <1>2
    <2>2. h.at \in [Blocks -> Nat]
      BY <1>2
    <2>. QED
      BY <1>2, <2>1, <2>2 DEF Heap
  <1>4. Places(h) = {} /\ Queue(h) = {}
    BY <1>3 DEF Places, Queue, Front
  <1>5. Sound(h) /\ Timely(Queue(h), curVtime)
    BY <1>2, <1>3, <1>4 DEF Sound, Exact, InOrder, Timely
  <1>. QED
    BY <1>1, <1>2, <1>5, LoopQueueAssumption DEF IInv

(* Every step keeps the invariant and is an abstract step or none.         *)
LEMMA NextStep ==
    ASSUME IInv, [Next]_vars
    PROVE  IInv' /\ [Abstract!Next]_(Abstract!vars)
  <1>1. CASE Pass
    BY <1>1, PassStep DEF Abstract!Next
  <1>2. CASE Evict
    BY <1>2, EvictStep DEF Abstract!Next
  <1>3. ASSUME NEW b \in Blocks, NEW irg \in IRGs, Insert(b, irg)
        PROVE  IInv' /\ Abstract!Next
    BY <1>3, InsertStep DEF Abstract!Next
  <1>4. ASSUME NEW b \in Blocks, NEW irg \in IRGs, Replace(b, irg)
        PROVE  IInv' /\ Abstract!Next
    BY <1>4, ReplaceStep DEF Abstract!Next
  <1>5. ASSUME NEW b \in Blocks, NEW irg \in IRGs, HitStays(b, irg)
        PROVE  IInv' /\ Abstract!Next
    BY <1>5, HitStaysStep DEF Abstract!Next
  <1>6. ASSUME NEW b \in Blocks, HitLeaves(b)
        PROVE  IInv' /\ Abstract!Next
    BY <1>6, HitLeavesStep DEF Abstract!Next
  <1>7. CASE UNCHANGED vars
    <2>1. loopQs' = loopQs /\ curVtime' = curVtime /\ taken' = taken /\ loopQ' = loopQ
      BY <1>7 DEF vars, loopQs
    <2>2. IInv'
      BY <2>1 DEF IInv
    <2>. QED
      BY <2>1, <2>2 DEF Abstract!vars
  <1>. QED
    BY <1>1, <1>2, <1>3, <1>4, <1>5, <1>6, <1>7 DEF Next

(* The invariant holds in every reachable state.                           *)
LEMMA Invariance == Spec => []IInv
  <1>1. IInv /\ [Next]_vars => IInv'
    BY NextStep
  <1>. QED
    BY InitIInv, <1>1, PTL DEF Spec

(* Types, and no buffer keeps the INFINITY that takes it out of the queue  *)
(* (SCM.c 585-600).                                                        *)
THEOREM TypeCorrect == Spec => []TypeOK
  <1>1. IInv => TypeOK
    <2>. SUFFICES ASSUME IInv PROVE TypeOK
      OBVIOUS
    <2>1. PICK h : h = loopQs
      OBVIOUS
    <2>2. Sound(h) /\ Timely(Queue(h), curVtime) /\ h.q = loopQ
      BY <2>1 DEF IInv, loopQs
    <2>3. \A i \in 1..Len(loopQ) : loopQ[i] \in Queue(h)
      BY <2>2 DEF Queue, Front
    <2>. QED
      BY <2>1, <2>2, <2>3 DEF TypeOK, Timely, IInv, Sound
  <1>. QED
    BY Invariance, <1>1, PTL

(* Every block knows its place in the heap, through all the exchanges of   *)
(* upheap, downheap and loopQout.                                          *)
THEOREM IndexIsExact == Spec => []IndexExact
  <1>1. IInv => IndexExact
    <2>. SUFFICES ASSUME IInv PROVE IndexExact
      OBVIOUS
    <2>1. PICK h : h = loopQs
      OBVIOUS
    <2>2. h \in Heap /\ Exact(h) /\ h.q = loopQ /\ h.at = loopQindex
      BY <2>1 DEF IInv, loopQs, Sound
    <2>3. \A b \in Blocks : h.at[b] = 0 <=> \A e \in Queue(h) : e.blkno # b
      BY <2>2, OncePlaced
    <2>4. \A i \in 1..Len(loopQ) : loopQ[i] \in Queue(h)
      BY <2>2 DEF Queue, Front
    <2>. QED
      BY <2>2, <2>3, <2>4 DEF IndexExact, Exact, Places
  <1>. QED
    BY Invariance, <1>1, PTL

(* A hit takes the block that was hit out of the queue: "Critical Error!:  *)
(* block numbers are different" is never printed.                          *)
THEOREM HitsTakeThemselves == Spec => HitTakesItself
  <1>1. IInv /\ [Next]_vars =>
           [\A b \in Blocks : (HitLeaves(b) \/ \E irg \in IRGs : HitStays(b, irg)) => taken' = b]_vars
    BY HitLeavesStep, HitStaysStep
  <1>. QED
    BY Invariance, <1>1, PTL DEF Spec, HitTakesItself

(* The heap is the queue that PriorityQueue describes: it gives the least  *)
(* valuable buffer, or the second when the first was just referenced.      *)
THEOREM ImplementsQueue == Spec => IsPriorityQueue
  <1>1. Init => Abstract!Init
    <2>. SUFFICES ASSUME Init PROVE Abstract!Init
      OBVIOUS
    <2>1. loopQ = <<>> /\ curVtime = 0 /\ taken = NoBlock
      BY DEF Init
    <2>2. {loopQ[i] : i \in 1..Len(loopQ)} = {}
      BY <2>1
    <2>. QED
      BY <2>1, <2>2 DEF Abstract!Init, Abstract!NoBlock, NoBlock
  <1>2. IInv /\ [Next]_vars => [Abstract!Next]_(Abstract!vars)
    BY NextStep
  <1>. QED
    BY <1>1, <1>2, Invariance, PTL DEF Spec, IsPriorityQueue, Abstract!Spec
=============================================================================
