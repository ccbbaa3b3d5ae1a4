--------------------------- MODULE SeqLoopProofs ---------------------------
(***************************************************************************)
(* The invariants of the detection table, for any number of files, any     *)
(* table size from two units on, any threshold and any averaging weight.   *)
(***************************************************************************)
EXTENDS SeqLoop, NaturalSets

----------------------------------------------------------------------------
(* The search for a unit to reuse. *)
Table == [Indices -> UnitType]

(* The lengths of a table whose runs all begin at block 0 are naturals. *)
LEMMA LengthType ==
    ASSUME NEW tab \in Table, \A i \in Indices : tab[i].startBlknum = 0
    PROVE  \A i \in Indices : SEQ_LENGTH(tab[i]) \in Nat
  BY DetectAssumption DEF Table, UnitType, SEQ_LENGTH, Pblknos

(* The unit found is one of the shortest runs. *)
LEMMA VictimIsShortest ==
    ASSUME NEW tab \in Table, NEW theta, \A i \in Indices : tab[i].startBlknum = 0
    PROVE  minindex(tab, theta) \in ShortestOf(tab)
  <1> DEFINE L == {SEQ_LENGTH(tab[i]) : i \in Indices}
             T == ShortestOf(tab)
  <1>1. \A i \in Indices : SEQ_LENGTH(tab[i]) \in Nat
    BY LengthType
  <1>2. 0 \in Indices
    BY DetectAssumption DEF Indices
  <1>3. L \in SUBSET Nat /\ L # {}
    BY <1>1, <1>2
  <1>4. \E m \in L : \A n \in L : m <= n
    <2> HIDE DEF L
    <2>. QED
      BY <1>3, LeastExists
  <1>5. T # {}
    BY <1>4 DEF ShortestOf
  <1>6. T \in SUBSET Indices /\ Indices \in SUBSET Nat
    BY DEF ShortestOf, Indices
  <1>7. FirstOf(T) \in T
    <2> HIDE DEF T
    <2>1. \E i \in T : \A j \in T : i <= j
      BY <1>5, <1>6, LeastExists
    <2>. QED
      BY <2>1 DEF FirstOf
  <1>8. ASSUME NEW older \in SUBSET T, older # {} PROVE LastOf(older) \in older
    <2> HIDE DEF T
    <2>1. MAXSEQLOOPs - 1 \in Nat /\ older \in SUBSET (0..(MAXSEQLOOPs - 1))
      BY <1>6, DetectAssumption DEF Indices
    <2>2. \E i \in older : \A j \in older : i >= j
      BY <1>8, <2>1, GreatestExists
    <2>. QED
      BY <2>2 DEF LastOf
  <1>. QED
    BY <1>7, <1>8 DEF minindex

----------------------------------------------------------------------------
(* The search as the code runs it, in the terms of LoopComputes: c is what *)
(* has been found and the unit the for loop is at.                         *)
Spot                 == Found \X Nat
ScanGo               == {c \in Spot : c[1].minsize # 0 /\ c[2] \in Indices}
ScanStep(tab, theta) == [c \in ScanGo |-> <<ScanTurn(tab, theta, c[1], c[2]), c[2] + 1>>]
ScanBase             == [c \in Spot |-> c[1]]
ScanRank             == [c \in Spot |-> IF c[2] <= MAXSEQLOOPs THEN MAXSEQLOOPs - c[2] ELSE 0]

(* A table whose runs have a length. *)
Measured(tab) == tab \in Table /\ \A i \in Indices : SEQ_LENGTH(tab[i]) \in Nat

Age(tab, theta, len) == IF len \in Indices THEN tab[len].unitFirstRefTime ELSE theta

(* f is the first of the shortest of the units 0..i-1; of those as short   *)
(* as it that are older, k is the last, or f when there is none.           *)
FirstShortest(tab, i, f) ==
    /\ f \in Indices /\ f < i
    /\ \A n \in Indices : n < i => SEQ_LENGTH(tab[f]) <= SEQ_LENGTH(tab[n])
    /\ \A n \in Indices : n < f => SEQ_LENGTH(tab[f]) < SEQ_LENGTH(tab[n])

Older(tab, theta, i, f) ==
    {n \in Indices : /\ n < i /\ n # f
                     /\ SEQ_LENGTH(tab[n]) = SEQ_LENGTH(tab[f])
                     /\ tab[n].unitFirstRefTime < Age(tab, theta, SEQ_LENGTH(tab[f]))}

LastOlder(tab, theta, i, f, k) ==
    \/ Older(tab, theta, i, f) = {} /\ k = f
    \/ k \in Older(tab, theta, i, f) /\ \A n \in Older(tab, theta, i, f) : k >= n

(* What has been found when the loop is at unit i: what it starts from, or *)
(* the victim among the units before i.                                    *)
Searched(tab, theta, m, i) ==
    /\ m \in Found /\ i \in 0..MAXSEQLOOPs
    /\ \/ i = 0 /\ m = [minsize |-> Now + 1, minindex |-> 0]
       \/ \E f \in Indices :
             /\ FirstShortest(tab, i, f) /\ m.minsize = SEQ_LENGTH(tab[f])
             /\ IF m.minsize = 0 THEN m.minindex = f ELSE LastOlder(tab, theta, i, f, m.minindex)

(* The loop ends with the table. *)
LEMMA ScanTerminates ==
    ASSUME NEW tab, Measured(tab), NEW theta
    PROVE  ScanGo \in SUBSET Spot /\ Terminates(Spot, ScanGo, ScanStep(tab, theta), ScanRank)
  <1>m. MAXSEQLOOPs \in Nat
    BY DetectAssumption
  <1>1. ASSUME NEW c \in ScanGo
        PROVE  /\ ScanStep(tab, theta)[c] \in Spot
               /\ ScanRank[ScanStep(tab, theta)[c]] < ScanRank[c]
    <2>1. c \in Spot /\ c[1] \in Found /\ c[2] \in Nat /\ c[2] \in Indices
      BY DEF ScanGo, Spot
    <2>2. SEQ_LENGTH(tab[c[2]]) \in Nat
      BY <2>1 DEF Measured
    <2>3. ScanTurn(tab, theta, c[1], c[2]) \in Found
      BY <2>1, <2>2 DEF ScanTurn, Found
    <2>4. PICK m : m = ScanTurn(tab, theta, c[1], c[2])
      OBVIOUS
    <2>5. ScanStep(tab, theta)[c] = <<m, c[2] + 1>>
      BY <2>4 DEF ScanStep
    <2>6. <<m, c[2] + 1>> \in Spot
      BY <2>1, <2>3, <2>4 DEF Spot
    <2>7. ScanRank[<<m, c[2] + 1>>] < ScanRank[c]
      BY <1>m, <2>1, <2>6 DEF ScanRank, Indices
    <2>. QED
      BY <2>5, <2>6, <2>7
  <1>2. ScanStep(tab, theta) \in [ScanGo -> Spot]
    BY <1>1 DEF ScanStep
  <1>3. ScanRank \in [Spot -> Nat]
    BY <1>m DEF ScanRank, Spot
  <1>4. ScanGo \in SUBSET Spot
    BY DEF ScanGo
  <1>. QED
    BY <1>1, <1>2, <1>3, <1>4 DEF Terminates

(* One turn of the loop. *)
LEMMA ScanTurnSearches ==
    ASSUME NEW tab, Measured(tab), NEW theta, curVtime \in Nat,
           \A n \in Indices : SEQ_LENGTH(tab[n]) <= Now,
           NEW m, NEW i \in Indices, Searched(tab, theta, m, i), m.minsize # 0
    PROVE  Searched(tab, theta, ScanTurn(tab, theta, m, i), i + 1)
  <1>m. MAXSEQLOOPs \in Nat /\ i \in Nat /\ i + 1 \in 0..MAXSEQLOOPs
    BY DetectAssumption DEF Indices
  <1>n. \A n \in Indices : n \in Nat /\ (n < i + 1 <=> n < i \/ n = i)
    BY <1>m DEF Indices
  <1>1. PICK x : x = ScanTurn(tab, theta, m, i)
    OBVIOUS
  <1>2. PICK len : len = SEQ_LENGTH(tab[i])
    OBVIOUS
  <1>3. m \in Found /\ m.minsize \in Nat /\ len \in Nat
    BY <1>2 DEF Searched, Measured, Found
  <1>4. x = IF len < m.minsize THEN [minsize |-> len, minindex |-> i]
            ELSE IF len = m.minsize /\ tab[i].unitFirstRefTime < Age(tab, theta, m.minsize)
            THEN [m EXCEPT !.minindex = i]
            ELSE m
    BY <1>1, <1>2 DEF ScanTurn, Age
  <1>5. x \in Found
    BY <1>3, <1>4, <1>m DEF Found
  <1>6. CASE len < m.minsize
    <2>1. x.minsize = len /\ x.minindex = i
      BY <1>4, <1>6
    <2>2. \A n \in Indices : n < i => len < SEQ_LENGTH(tab[n])
      <3>1. CASE i = 0
        BY <1>n, <3>1
      <3>2. CASE i # 0
        BY <1>2, <1>3, <1>6, <3>2 DEF Searched, FirstShortest, Measured
      <3>. QED
        BY <3>1, <3>2
    <2>3. FirstShortest(tab, i + 1, i)
      BY <1>2, <1>3, <1>n, <1>m, <2>2 DEF FirstShortest, Measured
    <2>4. Older(tab, theta, i + 1, i) = {}
      BY <1>2, <1>3, <1>n, <2>2 DEF Older
    <2>5. x.minsize = SEQ_LENGTH(tab[i]) /\ LastOlder(tab, theta, i + 1, i, x.minindex)
      BY <1>2, <2>1, <2>4 DEF LastOlder
    <2>. QED
      BY <1>1, <1>5, <1>m, <2>1, <2>3, <2>5 DEF Searched
  <1>7. CASE ~(len < m.minsize)
    <2>1. i # 0
      <3>1. CASE i = 0
        <4>1. m.minsize = Now + 1
          BY <3>1, <1>n DEF Searched, FirstShortest
        <4>. QED
          BY <1>2, <1>3, <1>7, <4>1 DEF Now
      <3>. QED
        BY <3>1
    <2>2. PICK f \in Indices :
             /\ FirstShortest(tab, i, f) /\ m.minsize = SEQ_LENGTH(tab[f])
             /\ LastOlder(tab, theta, i, f, m.minindex)
      BY <2>1 DEF Searched
    <2>3. f < i /\ f # i /\ f < i + 1 /\ f \in Nat
      BY <1>n, <1>m, <2>2 DEF FirstShortest
    <2>4. FirstShortest(tab, i + 1, f)
      BY <1>2, <1>3, <1>7, <1>n, <2>2, <2>3 DEF FirstShortest
    <2>5. x.minsize = m.minsize
      BY <1>3, <1>4, <1>7 DEF Found
    <2>6. LastOlder(tab, theta, i + 1, f, x.minindex)
      <3>1. CASE len = m.minsize /\ tab[i].unitFirstRefTime < Age(tab, theta, m.minsize)
        <4>1. x.minindex = i
          BY <1>3, <1>4, <1>7, <3>1 DEF Found
        <4>2. i \in Older(tab, theta, i + 1, f)
          BY <1>2, <1>n, <2>2, <2>3, <3>1 DEF Older
        <4>3. ASSUME NEW n \in Older(tab, theta, i + 1, f) PROVE i >= n
          <5>1. n \in Indices /\ n < i + 1
            BY DEF Older
          <5>. QED
            BY <1>n, <1>m, <5>1
        <4>. QED
          BY <4>1, <4>2, <4>3 DEF LastOlder
      <3>2. CASE ~(len = m.minsize /\ tab[i].unitFirstRefTime < Age(tab, theta, m.minsize))
        <4>1. x.minindex = m.minindex
          BY <1>4, <1>7, <3>2
        <4>2. Older(tab, theta, i + 1, f) = Older(tab, theta, i, f)
          BY <1>2, <1>n, <2>2, <3>2 DEF Older
        <4>. QED
          BY <2>2, <4>1, <4>2 DEF LastOlder
      <3>. QED
        BY <3>1, <3>2
    <2>. QED
      BY <1>1, <1>5, <1>m, <2>2, <2>4, <2>5, <2>6 DEF Searched
  <1>. QED
    BY <1>6, <1>7

(* Where the loop ends, it has found the unit the actions reuse. *)
LEMMA SearchedIsVictim ==
    ASSUME NEW tab, Measured(tab), NEW theta \in AgeRead(tab),
           NEW m, NEW i, Searched(tab, theta, m, i), i = MAXSEQLOOPs \/ m.minsize = 0,
           curVtime \in Nat
    PROVE  m = [minsize |-> minsize(tab), minindex |-> minindex(tab, theta)]
  <1>m. MAXSEQLOOPs \in Nat /\ MAXSEQLOOPs >= 2 /\ i \in Nat
    BY DetectAssumption DEF Searched
  <1>n. \A n \in Indices : n \in Nat /\ n < MAXSEQLOOPs
    BY <1>m DEF Indices
  <1>1. i # 0 \/ m # [minsize |-> Now + 1, minindex |-> 0]
    BY <1>m DEF Now
  <1>2. PICK f \in Indices :
           /\ FirstShortest(tab, i, f) /\ m.minsize = SEQ_LENGTH(tab[f])
           /\ IF m.minsize = 0 THEN m.minindex = f ELSE LastOlder(tab, theta, i, f, m.minindex)
    BY <1>1 DEF Searched
  <1>3. \A n \in Indices : SEQ_LENGTH(tab[f]) <= SEQ_LENGTH(tab[n])
    BY <1>2, <1>n DEF FirstShortest, Measured
  <1>4. f \in ShortestOf(tab) /\ \A n \in ShortestOf(tab) : f <= n
    <2>1. f \in ShortestOf(tab)
      BY <1>3 DEF ShortestOf
    <2>2. ASSUME NEW n \in ShortestOf(tab) PROVE f <= n
      <3>1. n \in Indices /\ SEQ_LENGTH(tab[n]) <= SEQ_LENGTH(tab[f])
        BY DEF ShortestOf
      <3>2. SEQ_LENGTH(tab[n]) \in Nat /\ SEQ_LENGTH(tab[f]) \in Nat
        BY <3>1 DEF Measured
      <3>. QED
        BY <1>2, <1>n, <3>1, <3>2 DEF FirstShortest
    <2>. QED
      BY <2>1, <2>2
  <1>5. FirstOf(ShortestOf(tab)) = f
    <2>1. \A n \in ShortestOf(tab) : n \in Nat
      BY <1>n DEF ShortestOf
    <2>2. \A n \in ShortestOf(tab) : (\A j \in ShortestOf(tab) : n <= j) => n = f
      BY <1>4, <2>1
    <2>. QED
      BY <1>4, <2>2 DEF FirstOf
  <1>6. minsize(tab) = m.minsize
    BY <1>2, <1>5 DEF minsize
  <1>7. minindex(tab, theta) = m.minindex
    <2> DEFINE older == {n \in ShortestOf(tab) \ {f} : tab[n].unitFirstRefTime < theta}
    <2>1. minindex(tab, theta) = IF m.minsize = 0 \/ older = {} THEN f ELSE LastOf(older)
      BY <1>5, <1>6 DEF minindex
    <2>2. CASE m.minsize = 0
      BY <1>2, <2>1, <2>2
    <2>3. CASE m.minsize # 0
      <3>1. i = MAXSEQLOOPs
        BY <2>3
      <3>2. Age(tab, theta, m.minsize) = theta
        BY <1>6 DEF AgeRead, Age
      <3>3. \A n \in Indices : n \in ShortestOf(tab) <=> SEQ_LENGTH(tab[n]) = SEQ_LENGTH(tab[f])
        BY <1>3 DEF ShortestOf, Measured
      <3>4. Older(tab, theta, i, f) = older
        BY <1>2, <1>n, <3>1, <3>2, <3>3 DEF Older, ShortestOf
      <3>5. \/ older = {} /\ m.minindex = f
            \/ m.minindex \in older /\ \A n \in older : m.minindex >= n
        BY <1>2, <2>3, <3>4 DEF LastOlder
      <3>6. \A n \in older : n \in Nat
        BY <1>n DEF ShortestOf
      <3>. HIDE DEF older
      <3>7. CASE m.minindex \in older /\ \A n \in older : m.minindex >= n
        <4>1. \A n \in older : (\A j \in older : n >= j) => n = m.minindex
          BY <3>6, <3>7
        <4>2. LastOf(older) = m.minindex
          BY <3>7, <4>1 DEF LastOf
        <4>. QED
          BY <2>1, <2>3, <3>7, <4>2
      <3>. QED
        BY <2>1, <3>5, <3>7
    <2>. QED
      BY <2>2, <2>3
  <1>. QED
    BY <1>6, <1>7 DEF Searched, Found

(* So the loop computes the unit that is reused. *)
LEMMA ScanFindsIt ==
    ASSUME NEW tab, Measured(tab), NEW theta \in AgeRead(tab), curVtime \in Nat,
           \A n \in Indices : SEQ_LENGTH(tab[n]) <= Now
    PROVE  Scan(tab, theta) = [minsize |-> minsize(tab), minindex |-> minindex(tab, theta)]
  <1> DEFINE scan == CHOOSE f : f = [c \in Found \X Nat |->
                        IF c[1].minsize # 0 /\ c[2] \in Indices
                        THEN f[<<ScanTurn(tab, theta, c[1], c[2]), c[2] + 1>>] ELSE c[1]]
             start == <<[minsize |-> Now + 1, minindex |-> 0], 0>>
             step == ScanStep(tab, theta)
             victim == [minsize |-> minsize(tab), minindex |-> minindex(tab, theta)]
             P == {c \in Spot : Searched(tab, theta, c[1], c[2])}
  <1>1. Scan(tab, theta) = scan[start]
    BY Zenon DEF Scan
  <1>2. ScanGo \in SUBSET Spot /\ Terminates(Spot, ScanGo, step, ScanRank)
    BY ScanTerminates
  <1>3. \E f : Computes(f, Spot, ScanGo, step, ScanBase)
    <2>. HIDE DEF step
    <2>. QED
      BY <1>2, LoopComputes
  <1>4. ASSUME NEW f
        PROVE  Computes(f, Spot, ScanGo, step, ScanBase) <=>
                  f = [c \in Found \X Nat |->
                        IF c[1].minsize # 0 /\ c[2] \in Indices
                        THEN f[<<ScanTurn(tab, theta, c[1], c[2]), c[2] + 1>>] ELSE c[1]]
    BY DEF Computes, Spot, ScanGo, ScanStep, ScanBase
  <1>5. Computes(scan, Spot, ScanGo, step, ScanBase)
    <2>. HIDE DEF step
    <2>1. scan = [c \in Found \X Nat |->
                        IF c[1].minsize # 0 /\ c[2] \in Indices
                        THEN scan[<<ScanTurn(tab, theta, c[1], c[2]), c[2] + 1>>] ELSE c[1]]
      BY <1>3, <1>4, Zenon
    <2>. HIDE DEF scan
    <2>. QED
      BY <1>4, <2>1
  <1>6. TurnsKeep(P, {victim}, ScanGo, step, ScanBase)
    <2>1. ASSUME NEW c \in P \cap ScanGo PROVE step[c] \in P
      <3>1. /\ Searched(tab, theta, c[1], c[2]) /\ c[1].minsize # 0 /\ c[2] \in Indices
            /\ c \in ScanGo
        BY DEF ScanGo
      <3>2. Searched(tab, theta, ScanTurn(tab, theta, c[1], c[2]), c[2] + 1)
        BY <3>1, ScanTurnSearches
      <3>3. step[c] = <<ScanTurn(tab, theta, c[1], c[2]), c[2] + 1>>
        BY <3>1 DEF ScanStep
      <3>4. step[c] \in Spot
        BY <1>2, <3>1 DEF Terminates
      <3>. QED
        BY <3>2, <3>3, <3>4
    <2>2. ASSUME NEW c \in P \ ScanGo PROVE ScanBase[c] \in {victim}
      <3>1. c \in Spot /\ Searched(tab, theta, c[1], c[2]) /\ c[2] \in 0..MAXSEQLOOPs
        BY DEF Searched
      <3>2. c[1].minsize = 0 \/ c[2] \notin Indices
        BY <3>1 DEF ScanGo
      <3>3. c[2] = MAXSEQLOOPs \/ c[1].minsize = 0
        BY <3>1, <3>2, DetectAssumption DEF Indices
      <3>4. c[1] = victim
        BY <3>1, <3>3, SearchedIsVictim
      <3>. QED
        BY <3>1, <3>4 DEF ScanBase
    <2>. QED
      BY <2>1, <2>2 DEF TurnsKeep
  <1>7. start \in P
    BY DetectAssumption DEF Searched, Spot, Found, Now
  <1>8. P \in SUBSET Spot
    OBVIOUS
  <1>9. \A c \in P : scan[c] \in {victim}
    <2>. HIDE DEF P, step, scan, victim
    <2>. QED
      BY <1>2, <1>5, <1>6, <1>8, LoopResult, ZenonT(40)
  <1>. QED
    BY <1>1, <1>7, <1>9

----------------------------------------------------------------------------
(* The inductive invariant: what holds of one unit at time c, when the     *)
(* blocks in sn were referenced since it took its file up, and of the      *)
(* table as a whole.                                                       *)
UnitInv(s, c, sn) ==
    /\ s.startBlknum = 0
    /\ s.unitFirstRefTime <= c
    /\ SEQ_LENGTH(s) <= c + 1
    /\ IF s.detectionState = "LOOP" THEN s.period > 0 ELSE s.period = -1
    /\ IF s.vnode = 0 THEN s = FreeUnit
       ELSE /\ s.endBlknum \in Pblknos
            /\ s.unitFirstRefTime >= 1
            /\ IF s.detectionState = "LOOP" THEN s.curBlknum <= s.endBlknum
               ELSE s.curBlknum = s.endBlknum
            /\ \A b \in 1..s.endBlknum : b \in sn
            /\ s.detectionState # "OTHERS" => SEQ_LENGTH(s) >= thresholdSeQSize

(* What EvictsShortest says of a step. *)
Takeover ==
    \A i \in Indices :
        unit[i].vnode # 0 /\ unit'[i].vnode \notin {unit[i].vnode, 0} =>
           \A j \in Indices : /\ unit[j].vnode # 0
                             /\ SEQ_LENGTH(unit[i]) <= SEQ_LENGTH(unit[j])

PairsShort ==
    \A i, j \in Indices : i # j => SEQ_LENGTH(unit[i]) + SEQ_LENGTH(unit[j]) <= curVtime + 2

IInv ==
    /\ TypeOK
    /\ OneUnitPerFile
    /\ \A i \in Indices : UnitInv(unit[i], curVtime, seen[i])
    /\ PairsShort
    /\ ref.verdict = "LOOP" => ref.irg > 0

(* The inductive invariant implies the properties the model is checked for. *)
LEMMA IInvImplies ==
    IInv => /\ TypeOK /\ OneUnitPerFile /\ PeriodOfLoops /\ PositionInRun
            /\ RunWasRead /\ RunsAreShort
  <1>. SUFFICES ASSUME IInv
                PROVE  PeriodOfLoops /\ PositionInRun /\ RunWasRead /\ RunsAreShort
    BY DEF IInv
  <1>1. hashed \subseteq Indices /\ \A i \in hashed : unit[i].vnode # 0
    BY DEF IInv, OneUnitPerFile
  <1>2. PeriodOfLoops
    BY DEF IInv, PeriodOfLoops, UnitInv
  <1>3. PositionInRun
    BY <1>1 DEF IInv, TypeOK, PositionInRun, UnitInv, UnitType, Pblknos
  <1>4. RunWasRead
    BY <1>1 DEF IInv, RunWasRead, UnitInv
  <1>5. \E i \in Indices : SEQ_LENGTH(unit[i]) < Now
    <2>1. 0 \in Indices /\ 1 \in Indices
      BY DetectAssumption DEF Indices
    <2>2. curVtime \in Nat /\ \A i \in Indices : unit[i] \in UnitType
      BY DEF IInv, TypeOK
    <2>3. \A i \in Indices : SEQ_LENGTH(unit[i]) \in Int
      BY <2>2, DetectAssumption DEF UnitType, Pblknos, SEQ_LENGTH
    <2>4. CASE curVtime = 0
      <3>1. unit[0] = FreeUnit
        BY <2>1, <2>2, <2>4 DEF IInv, UnitInv, UnitType
      <3>. QED
        BY <2>1, <2>4, <3>1 DEF FreeUnit, SEQ_LENGTH, Now
    <2>5. CASE curVtime > 0
      <3>1. SEQ_LENGTH(unit[0]) + SEQ_LENGTH(unit[1]) <= curVtime + 2
        BY <2>1 DEF IInv, PairsShort
      <3>2. SEQ_LENGTH(unit[0]) < curVtime + 1 \/ SEQ_LENGTH(unit[1]) < curVtime + 1
        BY <2>1, <2>2, <2>3, <2>5, <3>1
      <3>. QED
        BY <2>1, <3>2 DEF Now
    <2>. QED
      BY <2>2, <2>4, <2>5
  <1>. QED
    BY <1>2, <1>3, <1>4, <1>5 DEF IInv, RunsAreShort, PairsShort, UnitInv

LEMMA InitIInv == Init => IInv
  <1>. SUFFICES ASSUME Init PROVE IInv
    OBVIOUS
  <1>1. FreeUnit \in UnitType
    BY DetectAssumption DEF FreeUnit, UnitType, Pblknos, Patterns
  <1>2. TypeOK
    BY <1>1 DEF Init, TypeOK, Patterns
  <1>3. OneUnitPerFile
    BY DEF Init, OneUnitPerFile, FreeUnit
  <1>4. \A i \in Indices : UnitInv(unit[i], curVtime, seen[i])
    BY DEF Init, UnitInv, FreeUnit, SEQ_LENGTH
  <1>5. PairsShort
    BY DEF Init, PairsShort, FreeUnit, SEQ_LENGTH
  <1>. QED
    BY <1>2, <1>3, <1>4, <1>5 DEF IInv, Init

----------------------------------------------------------------------------
(* The period of a loop is measured and averaged, and stays positive. *)
LEMMA AveragePositive ==
    ASSUME NEW a \in 0..100, NEW p \in Nat, NEW t \in Nat, p > 0, t > 0
    PROVE  /\ ((100 - a) * p + a * t) \div 100 \in Nat
           /\ ((100 - a) * p + a * t) \div 100 > 0
  <1>1. (100 - a) * p \in Nat /\ (100 - a) * p >= 100 - a
    OBVIOUS
  <1>2. a * t \in Nat /\ a * t >= a
    OBVIOUS
  <1>. DEFINE x == (100 - a) * p
              y == a * t
  <1>3. x \in Nat /\ y \in Nat /\ x + y >= 100
    BY <1>1, <1>2
  <1>. HIDE DEF x, y
  <1>4. (x + y) \div 100 \in Nat /\ (x + y) \div 100 > 0
    BY <1>3
  <1>. QED
    BY <1>4 DEF x, y

LEMMA FirstPeriodPositive ==
    ASSUME NEW s \in UnitType, NEW irg \in Nat, curVtime \in Nat,
           s.unitFirstRefTime <= curVtime
    PROVE  FirstPeriod(s, irg) \in Nat /\ FirstPeriod(s, irg) > 0
  BY DEF FirstPeriod, Now, UnitType

LEMMA NewPeriodPositive ==
    ASSUME NEW s \in UnitType, NEW irg \in Nat, curVtime \in Nat,
           s.unitFirstRefTime <= curVtime
    PROVE  NewPeriod(s, irg) \in Nat /\ NewPeriod(s, irg) > 0
  <1> DEFINE turn == Now - s.unitFirstRefTime
  <1>1. FirstPeriod(s, irg) \in Nat /\ FirstPeriod(s, irg) > 0
    BY FirstPeriodPositive
  <1>2. s.period \in Nat \cup {-1} /\ turn \in Nat /\ turn > 0
    BY DEF UnitType, Now
  <1>3. s.period \notin {-1, 0} => s.period \in Nat /\ s.period > 0
    BY <1>2
  <1>4. s.period \notin {-1, 0} =>
           /\ ((100 - expo_alpha) * s.period + expo_alpha * turn) \div 100 \in Nat
           /\ ((100 - expo_alpha) * s.period + expo_alpha * turn) \div 100 > 0
    <2> HIDE DEF turn
    <2>. QED
      BY <1>2, <1>3, AveragePositive, DetectAssumption
  <1>. QED
    BY <1>1, <1>3, <1>4 DEF NewPeriod

(* A step that changes one unit in use, which keeps its file and grows by  *)
(* at most a block, and leaves it in order, keeps the table in order.      *)
LEMMA OneUnitStep ==
    ASSUME IInv, NEW i \in hashed, NEW p \in Pblknos, NEW s \in UnitType,
           NEW verdict \in Patterns, NEW irg \in Nat,
           unit' = [unit EXCEPT ![i] = s], hashed' = hashed, Saw(i, p), Refer(verdict, irg),
           s.vnode = unit[i].vnode,
           SEQ_LENGTH(s) <= SEQ_LENGTH(unit[i]) + 1,
           UnitInv(s, Now, seen[i] \cup {p}),
           verdict = "LOOP" => irg > 0
    PROVE  IInv' /\ Takeover
  <1>1. i \in Indices /\ TypeOK
    BY DEF IInv, TypeOK
  <1>2. curVtime' = Now /\ curVtime \in Nat /\ Now = curVtime + 1 /\ Now \in Nat
    BY <1>1 DEF Refer, TypeOK, Now
  <1>3. TypeOK'
    BY <1>1, <1>2 DEF TypeOK, Saw, Refer
  <1>4. \A j \in Indices : unit'[j] = IF j = i THEN s ELSE unit[j]
    BY <1>1 DEF TypeOK
  <1>5. \A j \in Indices : seen'[j] = IF j = i THEN seen[i] \cup {p} ELSE seen[j]
    BY <1>1 DEF TypeOK, Saw
  <1>6. OneUnitPerFile'
    <2>1. \A j \in Indices : unit'[j].vnode = unit[j].vnode
      BY <1>4
    <2>2. hashed \subseteq Indices
      BY <1>1 DEF TypeOK
    <2>. QED
      BY <2>1, <2>2 DEF IInv, OneUnitPerFile
  <1>7. \A j \in Indices : SEQ_LENGTH(unit[j]) \in Int /\ SEQ_LENGTH(s) \in Int
    BY <1>1, DetectAssumption DEF TypeOK, UnitType, Pblknos, SEQ_LENGTH
  <1>8. ASSUME NEW j \in Indices PROVE UnitInv(unit'[j], curVtime', seen'[j])
    <2>1. CASE j = i
      BY <1>2, <1>4, <1>5, <2>1
    <2>2. CASE j # i
      <3>1. UnitInv(unit[j], curVtime, seen[j])
        BY DEF IInv
      <3>2. unit[j].unitFirstRefTime \in Nat
        BY <1>1 DEF TypeOK, UnitType
      <3>3. UnitInv(unit[j], Now, seen[j])
        BY <1>2, <1>7, <3>1, <3>2 DEF UnitInv
      <3>. QED
        BY <1>2, <1>4, <1>5, <2>2, <3>3
    <2>. QED
      BY <2>1, <2>2
  <1>9. PairsShort'
    <2>. SUFFICES ASSUME NEW j \in Indices, NEW k \in Indices, j # k
                  PROVE  SEQ_LENGTH(unit'[j]) + SEQ_LENGTH(unit'[k]) <= curVtime' + 2
      BY DEF PairsShort, SEQ_LENGTH
    <2>1. SEQ_LENGTH(unit[j]) + SEQ_LENGTH(unit[k]) <= curVtime + 2
      BY DEF IInv, PairsShort
    <2>2. SEQ_LENGTH(unit'[j]) <= SEQ_LENGTH(unit[j]) + (IF j = i THEN 1 ELSE 0)
      BY <1>4, <1>7
    <2>3. SEQ_LENGTH(unit'[k]) <= SEQ_LENGTH(unit[k]) + (IF k = i THEN 1 ELSE 0)
      BY <1>4, <1>7
    <2>4. SEQ_LENGTH(unit'[j]) \in Int /\ SEQ_LENGTH(unit'[k]) \in Int
      BY <1>4, <1>7
    <2>. QED
      BY <1>2, <1>7, <2>1, <2>2, <2>3, <2>4
  <1>10. (ref.verdict = "LOOP" => ref.irg > 0)'
    BY DEF Refer
  <1>11. (\A j \in Indices : UnitInv(unit[j], curVtime, seen[j]))'
    BY <1>8 DEF Indices
  <1>12. Takeover
    BY <1>4 DEF Takeover
  <1>. QED
    BY <1>3, <1>6, <1>9, <1>10, <1>11, <1>12 DEF IInv

----------------------------------------------------------------------------
(* The actions *)

(* What the invariant says of a unit in use. *)
LEMMA UnitInUse ==
    ASSUME IInv, NEW v \in Vnodes, NEW i \in Lfindblk(v)
    PROVE  /\ i \in hashed /\ i \in Indices /\ unit[i] \in UnitType
           /\ unit[i].vnode = v /\ v # 0
           /\ UnitInv(unit[i], curVtime, seen[i])
           /\ curVtime \in Nat /\ seen[i] \in SUBSET Pblknos
  BY DetectAssumption DEF Lfindblk, IInv, TypeOK

(* A run that is extended stays in order. *)
LEMMA ExtendedInOrder ==
    ASSUME IInv, NEW v \in Vnodes, NEW i \in Lfindblk(v), NEW p \in Pblknos,
           unit[i].detectionState \in {"OTHERS", "SEQ"}
    PROVE  /\ Extended(unit[i], p) \in UnitType
           /\ Extended(unit[i], p).vnode = unit[i].vnode
           /\ Extended(unit[i], p).detectionState = unit[i].detectionState
           /\ SEQ_LENGTH(unit[i]) <= SEQ_LENGTH(Extended(unit[i], p))
           /\ SEQ_LENGTH(Extended(unit[i], p)) <= SEQ_LENGTH(unit[i]) + 1
           /\ UnitInv(Extended(unit[i], p), Now, seen[i] \cup {p})
  <1>1. /\ unit[i] \in UnitType /\ unit[i].vnode = v /\ v # 0
        /\ UnitInv(unit[i], curVtime, seen[i]) /\ curVtime \in Nat
    BY UnitInUse
  <1>2. CASE p # unit[i].endBlknum + 1
    <2>1. Extended(unit[i], p) = unit[i]
      BY <1>2 DEF Extended
    <2>2. UnitInv(unit[i], Now, seen[i] \cup {p})
      BY <1>1, DetectAssumption DEF UnitInv, Now, UnitType, Pblknos, SEQ_LENGTH
    <2>. QED
      BY <1>1, <2>1, <2>2, DetectAssumption DEF UnitType, Pblknos, SEQ_LENGTH
  <1>3. CASE p = unit[i].endBlknum + 1
    <2> DEFINE s == [unit[i] EXCEPT !.endBlknum = p, !.curBlknum = p]
    <2>1. Extended(unit[i], p) = s
      BY <1>3 DEF Extended
    <2>2. /\ s \in UnitType /\ s.vnode = v /\ s.endBlknum = p /\ s.curBlknum = p
          /\ s.startBlknum = unit[i].startBlknum /\ s.period = unit[i].period
          /\ s.unitFirstRefTime = unit[i].unitFirstRefTime
          /\ s.detectionState = unit[i].detectionState
      BY <1>1 DEF UnitType
    <2>3. SEQ_LENGTH(s) = SEQ_LENGTH(unit[i]) + 1 /\ SEQ_LENGTH(unit[i]) \in Int
      BY <1>1, <1>3, <2>2, DetectAssumption DEF SEQ_LENGTH, UnitType, Pblknos
    <2>4. \A b \in 1..p : b \in seen[i] \cup {p}
      <3>1. \A b \in 1..unit[i].endBlknum : b \in seen[i]
        BY <1>1 DEF UnitInv
      <3>2. \A b \in 1..p : b = p \/ b \in 1..unit[i].endBlknum
        BY <1>1, <1>3 DEF UnitType, Pblknos
      <3>. QED
        BY <3>1, <3>2
    <2>5. UnitInv(s, Now, seen[i] \cup {p})
      <3> HIDE DEF s
      <3>. QED
        BY <1>1, <2>2, <2>3, <2>4, DetectAssumption DEF UnitInv, Now, UnitType
    <2>. QED
      BY <1>1, <2>1, <2>2, <2>3, <2>5
  <1>. QED
    BY <1>2, <1>3

LEMMA GrowOthersStep ==
    ASSUME IInv, NEW v \in Vnodes, NEW p \in Pblknos, NEW irg \in Nat, GrowOthers(v, p, irg)
    PROVE  IInv' /\ Takeover
  <1>1. PICK i \in Lfindblk(v) :
            /\ unit[i].detectionState = "OTHERS"
            /\ unit' = [unit EXCEPT ![i] = Extended(@, p)]
            /\ hashed' = hashed /\ Saw(i, p) /\ Refer("OTHERS", irg)
    BY DEF GrowOthers
  <1>2. i \in hashed /\ i \in Indices /\ unit' = [unit EXCEPT ![i] = Extended(unit[i], p)]
    BY <1>1, UnitInUse DEF IInv, TypeOK
  <1>. QED
    BY <1>1, <1>2, ExtendedInOrder, OneUnitStep DEF Patterns

LEMMA TurnSeqStep ==
    ASSUME IInv, NEW v \in Vnodes, NEW p \in Pblknos, NEW irg \in Nat, TurnSeq(v, p, irg)
    PROVE  IInv' /\ Takeover
  <1>1. PICK i \in Lfindblk(v) :
            /\ unit[i].detectionState = "OTHERS"
            /\ SEQ_LENGTH(Extended(unit[i], p)) >= thresholdSeQSize
            /\ unit' = [unit EXCEPT ![i] = [Extended(@, p) EXCEPT !.detectionState = "SEQ"]]
            /\ hashed' = hashed /\ Saw(i, p) /\ Refer("SEQ", irg)
    BY DEF TurnSeq
  <1> DEFINE e == Extended(unit[i], p)
             s == [e EXCEPT !.detectionState = "SEQ"]
  <1>2. i \in hashed /\ i \in Indices /\ unit' = [unit EXCEPT ![i] = s] /\ v # 0
    BY <1>1, UnitInUse DEF IInv, TypeOK
  <1>3. /\ e \in UnitType /\ e.vnode = unit[i].vnode /\ e.detectionState = "OTHERS"
        /\ SEQ_LENGTH(e) <= SEQ_LENGTH(unit[i]) + 1
        /\ UnitInv(e, Now, seen[i] \cup {p})
    BY <1>1, ExtendedInOrder
  <1> HIDE DEF e
  <1>4. /\ s \in UnitType /\ s.vnode = e.vnode /\ s.startBlknum = e.startBlknum
        /\ s.endBlknum = e.endBlknum /\ s.curBlknum = e.curBlknum /\ s.period = e.period
        /\ s.unitFirstRefTime = e.unitFirstRefTime /\ s.detectionState = "SEQ"
    BY <1>3 DEF UnitType, Patterns
  <1>5. SEQ_LENGTH(s) = SEQ_LENGTH(e) /\ SEQ_LENGTH(e) >= thresholdSeQSize
    BY <1>1, <1>4 DEF SEQ_LENGTH, e
  <1> HIDE DEF s
  <1>6. e.vnode # 0
    BY <1>1, <1>3, UnitInUse
  <1>7. UnitInv(s, Now, seen[i] \cup {p})
    BY <1>3, <1>4, <1>5, <1>6 DEF UnitInv
  <1>. QED
    BY <1>1, <1>2, <1>3, <1>4, <1>5, <1>7, OneUnitStep DEF Patterns

LEMMA GrowSeqStep ==
    ASSUME IInv, NEW v \in Vnodes, NEW p \in Pblknos, NEW irg \in Nat, GrowSeq(v, p, irg)
    PROVE  IInv' /\ Takeover
  <1>1. PICK i \in Lfindblk(v) :
            /\ unit[i].detectionState = "SEQ"
            /\ unit' = [unit EXCEPT ![i] = Extended(@, p)]
            /\ hashed' = hashed /\ Saw(i, p) /\ Refer("SEQ", irg)
    BY DEF GrowSeq
  <1>2. i \in hashed /\ i \in Indices /\ unit' = [unit EXCEPT ![i] = Extended(unit[i], p)]
    BY <1>1, UnitInUse DEF IInv, TypeOK
  <1>. QED
    BY <1>1, <1>2, ExtendedInOrder, OneUnitStep DEF Patterns

LEMMA StartLoopStep ==
    ASSUME IInv, NEW v \in Vnodes, NEW p \in Pblknos, NEW irg \in Nat, StartLoop(v, p, irg)
    PROVE  IInv' /\ Takeover
  <1>1. PICK i \in Lfindblk(v) :
            /\ Repeats(unit[i], p)
            /\ unit' = [unit EXCEPT ![i] = LoopStarted(@, p, NewPeriod(@, irg))]
            /\ hashed' = hashed /\ Saw(i, p) /\ Refer("LOOP", NewPeriod(unit[i], irg))
    BY DEF StartLoop
  <1> DEFINE u == unit[i]
             q == NewPeriod(u, irg)
             s == LoopStarted(u, p, q)
  <1>2. /\ i \in hashed /\ i \in Indices /\ u \in UnitType /\ u.vnode = v /\ v # 0
        /\ UnitInv(u, curVtime, seen[i]) /\ curVtime \in Nat
    BY UnitInUse
  <1>3. q \in Nat /\ q > 0
    BY <1>2, NewPeriodPositive DEF UnitInv
  <1>4. unit' = [unit EXCEPT ![i] = s]
    BY <1>1, <1>2 DEF IInv, TypeOK
  <1>5. p = u.startBlknum /\ u.detectionState # "OTHERS"
    BY <1>1 DEF Repeats
  <1> HIDE DEF u, q
  <1>6. /\ s \in UnitType /\ s.vnode = u.vnode /\ s.startBlknum = u.startBlknum
        /\ s.endBlknum = u.endBlknum /\ s.curBlknum = p /\ s.period = q
        /\ s.unitFirstRefTime = Now /\ s.detectionState = "LOOP"
    <2>1. Now \in Nat
      BY <1>2 DEF Now
    <2>. QED
      BY <1>2, <1>3, <2>1 DEF UnitType, Patterns, LoopStarted
  <1>7. SEQ_LENGTH(s) = SEQ_LENGTH(u) /\ SEQ_LENGTH(u) \in Int
    BY <1>2, <1>6, DetectAssumption DEF SEQ_LENGTH, UnitType, Pblknos
  <1> HIDE DEF s
  <1>8. UnitInv(s, Now, seen[i] \cup {p})
    BY <1>2, <1>3, <1>5, <1>6, <1>7, DetectAssumption DEF UnitInv, Now, Pblknos
  <1>9. Refer("LOOP", q) /\ SEQ_LENGTH(s) <= SEQ_LENGTH(unit[i]) + 1
    BY <1>1, <1>7 DEF u, q
  <1>10. s.vnode = unit[i].vnode
    BY <1>6 DEF u
  <1>. QED
    BY <1>1, <1>2, <1>3, <1>4, <1>6, <1>8, <1>9, <1>10, OneUnitStep DEF Patterns

LEMMA FollowLoopStep ==
    ASSUME IInv, NEW v \in Vnodes, NEW p \in Pblknos, NEW irg \in Nat, FollowLoop(v, p, irg)
    PROVE  IInv' /\ Takeover
  <1>1. PICK i \in Lfindblk(v) :
            /\ Follows(unit[i], p)
            /\ unit' = [unit EXCEPT ![i] = LoopFollowed(@, p, KnownPeriod(@, irg))]
            /\ hashed' = hashed /\ Saw(i, p) /\ Refer("LOOP", KnownPeriod(unit[i], irg))
    BY DEF FollowLoop
  <1> DEFINE u == unit[i]
             c == IF p = u.curBlknum + 1 THEN p ELSE u.curBlknum
             q == KnownPeriod(u, irg)
             s == LoopFollowed(u, p, q)
  <1>2. /\ i \in hashed /\ i \in Indices /\ u \in UnitType /\ u.vnode = v /\ v # 0
        /\ UnitInv(u, curVtime, seen[i]) /\ curVtime \in Nat
    BY UnitInUse
  <1>3. q \in Nat /\ q > 0 /\ q = u.period
    BY <1>1, <1>2 DEF UnitInv, Follows, UnitType, KnownPeriod
  <1>4. unit' = [unit EXCEPT ![i] = s]
    BY <1>1, <1>2 DEF IInv, TypeOK
  <1>5. p <= u.endBlknum /\ u.detectionState = "LOOP"
    BY <1>1 DEF Follows
  <1>6. c \in Pblknos /\ c <= u.endBlknum
    BY <1>2, <1>5 DEF UnitType, UnitInv
  <1>7. Refer("LOOP", q)
    BY <1>1
  <1> HIDE DEF u, c, q
  <1>8. /\ s \in UnitType /\ s.vnode = u.vnode /\ s.startBlknum = u.startBlknum
        /\ s.endBlknum = u.endBlknum /\ s.curBlknum = c /\ s.period = q
        /\ s.unitFirstRefTime = u.unitFirstRefTime /\ s.detectionState = "LOOP"
    BY <1>2, <1>3, <1>5, <1>6 DEF UnitType, LoopFollowed, c
  <1>9. SEQ_LENGTH(s) = SEQ_LENGTH(u) /\ SEQ_LENGTH(u) \in Int
    BY <1>2, <1>8, DetectAssumption DEF SEQ_LENGTH, UnitType, Pblknos
  <1> HIDE DEF s
  <1>10. u.unitFirstRefTime \in Nat
    BY <1>2 DEF UnitType
  <1>11. UnitInv(s, Now, seen[i] \cup {p})
    BY <1>2, <1>3, <1>5, <1>6, <1>8, <1>9, <1>10 DEF UnitInv, Now
  <1>12. SEQ_LENGTH(s) <= SEQ_LENGTH(unit[i]) + 1 /\ s.vnode = unit[i].vnode
    BY <1>8, <1>9 DEF u
  <1>. QED
    BY <1>1, <1>2, <1>3, <1>4, <1>7, <1>8, <1>11, <1>12, OneUnitStep DEF Patterns

(* A free unit is in order at any time. *)
LEMMA FreeInOrder ==
    ASSUME NEW c \in Nat, NEW sn
    PROVE  FreeUnit \in UnitType /\ UnitInv(FreeUnit, c, sn) /\ SEQ_LENGTH(FreeUnit) = 0
  BY DetectAssumption DEF FreeUnit, UnitType, Pblknos, Patterns, UnitInv, SEQ_LENGTH

(* The table with the unit of one file dropped: the others keep their      *)
(* order as the time goes on, and none of them is the file's.              *)
LEMMA DroppedInOrder ==
    ASSUME IInv, NEW v \in Vnodes, NEW tab, tab = Dropped(Lfindblk(v))
    PROVE  /\ tab \in Table
           /\ \A i \in Indices : tab[i] = IF i \in Lfindblk(v) THEN FreeUnit ELSE unit[i]
           /\ \A i \in Indices :
                 UnitInv(tab[i], Now, IF i \in Lfindblk(v) THEN {} ELSE seen[i])
           /\ \A i \in Indices : SEQ_LENGTH(tab[i]) \in Nat /\ SEQ_LENGTH(tab[i]) <= curVtime + 1
           /\ \A i, j \in Indices :
                 i # j => SEQ_LENGTH(tab[i]) + SEQ_LENGTH(tab[j]) <= curVtime + 2
           /\ \A i \in Indices : tab[i].vnode # v
           /\ hashed \ Lfindblk(v) = {i \in Indices : tab[i].vnode # 0}
           /\ curVtime \in Nat
  <1>1. /\ curVtime \in Nat /\ hashed \subseteq Indices
        /\ \A i \in Indices : unit[i] \in UnitType
    BY DEF IInv, TypeOK
  <1>2. \A i \in Indices : tab[i] = IF i \in Lfindblk(v) THEN FreeUnit ELSE unit[i]
    BY DEF Dropped
  <1>3. tab \in Table
    BY <1>1, FreeInOrder DEF Dropped, Table
  <1>4. ASSUME NEW i \in Indices
        PROVE  /\ UnitInv(tab[i], curVtime, IF i \in Lfindblk(v) THEN {} ELSE seen[i])
               /\ SEQ_LENGTH(tab[i]) \in Nat
               /\ SEQ_LENGTH(tab[i]) <= SEQ_LENGTH(unit[i])
               /\ SEQ_LENGTH(unit[i]) \in Nat
    <2>1. UnitInv(unit[i], curVtime, seen[i])
      BY DEF IInv
    <2>2. SEQ_LENGTH(unit[i]) \in Nat
      BY <1>1, <2>1, DetectAssumption DEF UnitInv, SEQ_LENGTH, UnitType, Pblknos
    <2>. QED
      BY <1>1, <1>2, <2>1, <2>2, FreeInOrder
  <1>5. \A i \in Indices : UnitInv(tab[i], Now, IF i \in Lfindblk(v) THEN {} ELSE seen[i])
    BY <1>1, <1>3, <1>4 DEF UnitInv, Now, Table, UnitType
  <1>6. \A i \in Indices : SEQ_LENGTH(tab[i]) <= curVtime + 1
    BY <1>4 DEF UnitInv
  <1>7. ASSUME NEW i \in Indices, NEW j \in Indices, i # j
        PROVE  SEQ_LENGTH(tab[i]) + SEQ_LENGTH(tab[j]) <= curVtime + 2
    <2>1. SEQ_LENGTH(unit[i]) + SEQ_LENGTH(unit[j]) <= curVtime + 2
      BY <1>7 DEF IInv, PairsShort
    <2>. QED
      BY <1>1, <1>4, <2>1
  <1>8. hashed = {i \in Indices : unit[i].vnode # 0}
    BY DEF IInv, OneUnitPerFile
  <1>9. FreeUnit.vnode = 0 /\ v # 0
    BY DetectAssumption DEF FreeUnit
  <1>10. \A i \in Indices : tab[i].vnode # v
    BY <1>2, <1>8, <1>9 DEF Lfindblk
  <1>11. hashed \ Lfindblk(v) = {i \in Indices : tab[i].vnode # 0}
    BY <1>1, <1>2, <1>8, <1>9
  <1>. QED
    BY <1>1, <1>2, <1>3, <1>4, <1>5, <1>6, <1>7, <1>10, <1>11

LEMMA ForgetStep ==
    ASSUME IInv, NEW v \in Vnodes, NEW p \in Pblknos, NEW irg \in Nat, Forget(v, p, irg)
    PROVE  IInv' /\ Takeover
  <1> DEFINE L == Lfindblk(v)
  <1>1. /\ unit' = Dropped(L) /\ hashed' = hashed \ L /\ curVtime' = Now
        /\ seen' = [i \in Indices |-> IF i \in L THEN {} ELSE seen[i]]
        /\ ref' = [verdict |-> "OTHERS", irg |-> irg]
    BY DEF Forget, Refer
  <1>2. /\ unit' \in Table
        /\ \A i \in Indices : unit'[i] = IF i \in L THEN FreeUnit ELSE unit[i]
        /\ \A i \in Indices : UnitInv(unit'[i], Now, IF i \in L THEN {} ELSE seen[i])
        /\ \A i \in Indices : SEQ_LENGTH(unit'[i]) \in Nat
        /\ \A i, j \in Indices :
              i # j => SEQ_LENGTH(unit'[i]) + SEQ_LENGTH(unit'[j]) <= curVtime + 2
        /\ hashed' = {i \in Indices : unit'[i].vnode # 0}
        /\ curVtime \in Nat
    BY <1>1, DroppedInOrder
  <1>3. L \subseteq hashed /\ TypeOK
    BY DEF Lfindblk, IInv
  <1> HIDE DEF L
  <1>4. TypeOK'
    BY <1>1, <1>2, <1>3 DEF TypeOK, Table, Now, Patterns
  <1>5. OneUnitPerFile'
    BY <1>1, <1>2, <1>3 DEF IInv, OneUnitPerFile, TypeOK
  <1>6. (\A i \in Indices : UnitInv(unit[i], curVtime, seen[i]))'
    BY <1>1, <1>2 DEF Indices
  <1>7. PairsShort'
    <2>. SUFFICES ASSUME NEW i \in Indices, NEW j \in Indices, i # j
                  PROVE  SEQ_LENGTH(unit'[i]) + SEQ_LENGTH(unit'[j]) <= curVtime' + 2
      BY DEF PairsShort, SEQ_LENGTH
    <2>1. SEQ_LENGTH(unit'[i]) + SEQ_LENGTH(unit'[j]) <= curVtime + 2
      BY <1>2
    <2>. QED
      BY <1>1, <1>2, <2>1 DEF Now
  <1>8. Takeover
    BY <1>2 DEF Takeover, FreeUnit
  <1>. QED
    BY <1>1, <1>4, <1>5, <1>6, <1>7, <1>8 DEF IInv

(* The unit reused, and the new run in it. *)
LEMMA NewUnitInOrder ==
    ASSUME NEW v \in Vnodes, NEW p \in Pblknos, p \in {0, 1}, curVtime \in Nat
    PROVE  /\ NewUnit(v, p) \in UnitType /\ NewUnit(v, p).vnode = v
           /\ SEQ_LENGTH(NewUnit(v, p)) \in Nat /\ SEQ_LENGTH(NewUnit(v, p)) <= 2
           /\ UnitInv(NewUnit(v, p), Now, {p})
  <1>1. Now \in Nat /\ Now >= 1 /\ v # 0
    BY DetectAssumption DEF Now
  <1>2. NewUnit(v, p) \in UnitType /\ NewUnit(v, p).vnode = v
    BY <1>1, DetectAssumption DEF NewUnit, UnitType, Pblknos, Patterns
  <1>3. SEQ_LENGTH(NewUnit(v, p)) = p + 1
    BY DEF NewUnit, SEQ_LENGTH, Pblknos
  <1>4. \A b \in 1..p : b \in {p}
    OBVIOUS
  <1>5. UnitInv(NewUnit(v, p), Now, {p})
    BY <1>1, <1>3, <1>4 DEF UnitInv, NewUnit, Pblknos
  <1>. QED
    BY <1>2, <1>3, <1>5

LEMMA BeginStep ==
    ASSUME IInv, NEW v \in Vnodes, NEW p \in Pblknos, NEW irg \in Nat, Begin(v, p, irg)
    PROVE  IInv' /\ Takeover
  <1> DEFINE L == Lfindblk(v)
             n == NewUnit(v, p)
  <1>0. PICK tab \in {Dropped(L)} : \E theta \in AgeRead(tab) : \E k \in {minindex(tab, theta)} :
          /\ p \in {0, 1}
          /\ unit' = [tab EXCEPT ![k] = n] /\ hashed' = (hashed \ L) \cup {k}
          /\ seen' = [i \in Indices |-> IF i = k THEN {p} ELSE IF i \in L THEN {} ELSE seen[i]]
    BY DEF Begin
  <1>01. PICK theta \in AgeRead(tab) : \E k \in {minindex(tab, theta)} :
          /\ p \in {0, 1}
          /\ unit' = [tab EXCEPT ![k] = n] /\ hashed' = (hashed \ L) \cup {k}
          /\ seen' = [i \in Indices |-> IF i = k THEN {p} ELSE IF i \in L THEN {} ELSE seen[i]]
    BY <1>0
  <1>1. PICK k \in {minindex(tab, theta)} :
          /\ p \in {0, 1}
          /\ unit' = [tab EXCEPT ![k] = n] /\ hashed' = (hashed \ L) \cup {k}
          /\ seen' = [i \in Indices |-> IF i = k THEN {p} ELSE IF i \in L THEN {} ELSE seen[i]]
    BY <1>01
  <1>2. curVtime' = Now /\ ref' = [verdict |-> "OTHERS", irg |-> irg]
    BY DEF Begin, Refer
  <1>3. /\ tab \in Table
        /\ \A i \in Indices : UnitInv(tab[i], Now, IF i \in L THEN {} ELSE seen[i])
        /\ \A i \in Indices : SEQ_LENGTH(tab[i]) \in Nat /\ SEQ_LENGTH(tab[i]) <= curVtime + 1
        /\ \A i, j \in Indices :
              i # j => SEQ_LENGTH(tab[i]) + SEQ_LENGTH(tab[j]) <= curVtime + 2
        /\ \A i \in Indices : tab[i].vnode # v
        /\ hashed \ L = {i \in Indices : tab[i].vnode # 0}
        /\ curVtime \in Nat
    BY <1>0, DroppedInOrder
  <1>4. \A i \in Indices : tab[i] = IF i \in L THEN FreeUnit ELSE unit[i]
    BY <1>0, DroppedInOrder
  <1>5. k \in Indices
    BY <1>1, <1>3, VictimIsShortest DEF UnitInv, ShortestOf
  <1>6. /\ n \in UnitType /\ n.vnode = v /\ SEQ_LENGTH(n) \in Nat /\ SEQ_LENGTH(n) <= 2
        /\ UnitInv(n, Now, {p}) /\ v # 0
    BY <1>1, <1>3, NewUnitInOrder, DetectAssumption
  <1>7. L \subseteq hashed /\ TypeOK
    BY DEF Lfindblk, IInv
  <1> HIDE DEF n, L
  <1>8. \A i \in Indices : unit'[i] = IF i = k THEN n ELSE tab[i]
    BY <1>1, <1>3 DEF Table
  <1>9. TypeOK'
    BY <1>1, <1>2, <1>3, <1>5, <1>6, <1>7 DEF TypeOK, Table, Now, Patterns
  <1>10. OneUnitPerFile'
    <2>1. hashed' = {i \in Indices : unit'[i].vnode # 0}
      BY <1>1, <1>3, <1>5, <1>6, <1>8
    <2>2. ASSUME NEW i \in hashed', NEW j \in hashed', unit'[i].vnode = unit'[j].vnode
          PROVE  i = j
      <3>1. i \in Indices /\ j \in Indices
        BY <2>1
      <3>2. CASE i = k \/ j = k
        BY <1>3, <1>6, <1>8, <2>2, <3>1, <3>2
      <3>3. CASE i # k /\ j # k
        <4>1. unit'[i] = tab[i] /\ unit'[j] = tab[j]
          BY <1>8, <3>1, <3>3
        <4>2. i \in hashed \ L /\ j \in hashed \ L
          BY <1>1, <2>2, <3>3
        <4>3. unit[i].vnode = unit[j].vnode
          BY <1>4, <2>2, <3>1, <4>1, <4>2
        <4>. QED
          BY <4>2, <4>3 DEF IInv, OneUnitPerFile
      <3>. QED
        BY <3>2, <3>3
    <2>. QED
      BY <2>1, <2>2 DEF OneUnitPerFile, Indices
  <1>11. (\A i \in Indices : UnitInv(unit[i], curVtime, seen[i]))'
    <2>. SUFFICES ASSUME NEW i \in Indices PROVE UnitInv(unit'[i], Now, seen'[i])
      BY <1>2 DEF Indices
    <2>. QED
      BY <1>1, <1>3, <1>6, <1>8
  <1>12. PairsShort'
    <2>. SUFFICES ASSUME NEW i \in Indices, NEW j \in Indices, i # j
                  PROVE  SEQ_LENGTH(unit'[i]) + SEQ_LENGTH(unit'[j]) <= curVtime' + 2
      BY DEF PairsShort, SEQ_LENGTH
    <2>1. /\ SEQ_LENGTH(tab[i]) + SEQ_LENGTH(tab[j]) <= curVtime + 2
          /\ SEQ_LENGTH(tab[i]) <= curVtime + 1 /\ SEQ_LENGTH(tab[j]) <= curVtime + 1
          /\ SEQ_LENGTH(tab[i]) \in Nat /\ SEQ_LENGTH(tab[j]) \in Nat
      BY <1>3
    <2>2. /\ SEQ_LENGTH(unit'[i]) = IF i = k THEN SEQ_LENGTH(n) ELSE SEQ_LENGTH(tab[i])
          /\ SEQ_LENGTH(unit'[j]) = IF j = k THEN SEQ_LENGTH(n) ELSE SEQ_LENGTH(tab[j])
      BY <1>8
    <2>. QED
      BY <1>2, <1>3, <1>6, <2>1, <2>2 DEF Now
  <1>13. Takeover
    <2>. SUFFICES ASSUME NEW i \in Indices, NEW j \in Indices, unit[i].vnode # 0,
                         unit'[i].vnode \notin {unit[i].vnode, 0}
                  PROVE  unit[j].vnode # 0 /\ SEQ_LENGTH(unit[i]) <= SEQ_LENGTH(unit[j])
      BY DEF Takeover
    <2>1. i = k /\ i \notin L /\ tab[i] = unit[i]
      <3>1. i = k
        BY <1>4, <1>8 DEF FreeUnit
      <3>2. unit'[i].vnode = v
        BY <1>6, <1>8, <3>1
      <3>3. i \notin L
        BY <3>2 DEF L, Lfindblk
      <3>. QED
        BY <1>4, <3>1, <3>3
    <2>2. \A m \in Indices : SEQ_LENGTH(tab[i]) <= SEQ_LENGTH(tab[m])
      BY <1>1, <1>3, <2>1, VictimIsShortest DEF UnitInv, ShortestOf
    <2>3. SEQ_LENGTH(tab[i]) > 0
      BY <1>3, <2>1 DEF UnitInv, SEQ_LENGTH, Pblknos
    <2>4. tab[j] = unit[j] /\ j \notin L
      <3>1. SEQ_LENGTH(tab[j]) > 0
        BY <1>3, <2>2, <2>3
      <3>. QED
        BY <1>4, <3>1 DEF FreeUnit, SEQ_LENGTH
    <2>5. unit[j].vnode # 0
      <3>1. CASE unit[j].vnode = 0
        <4>1. unit[j] = FreeUnit
          BY <1>3, <2>4, <3>1 DEF UnitInv
        <4>. QED
          BY <1>3, <2>2, <2>3, <2>4, <4>1 DEF FreeUnit, SEQ_LENGTH
      <3>. QED
        BY <3>1
    <2>. QED
      BY <2>1, <2>2, <2>4, <2>5
  <1>. QED
    BY <1>2, <1>9, <1>10, <1>11, <1>12, <1>13 DEF IInv

LEMMA NextIInv == IInv /\ [Next]_vars => IInv' /\ [Takeover]_vars
  <1>. SUFFICES ASSUME IInv, [Next]_vars PROVE IInv' /\ [Takeover]_vars
    OBVIOUS
  <1>1. CASE UNCHANGED vars
    BY <1>1 DEF vars, IInv, TypeOK, OneUnitPerFile, UnitInv, SEQ_LENGTH, PairsShort, Indices
  <1>2. CASE Next
    <2>1. PICK v \in Vnodes, p \in Pblknos, irg \in IRGs \cup {0} :
              \/ GrowOthers(v, p, irg) \/ TurnSeq(v, p, irg) \/ GrowSeq(v, p, irg)
              \/ StartLoop(v, p, irg) \/ FollowLoop(v, p, irg)
              \/ Forget(v, p, irg) \/ Begin(v, p, irg)
      BY <1>2 DEF Next, Detect
    <2>2. irg \in Nat
      BY <2>1, DetectAssumption
    <2>. QED
      BY <2>1, <2>2, GrowOthersStep, TurnSeqStep, GrowSeqStep, StartLoopStep,
         FollowLoopStep, ForgetStep, BeginStep
  <1>. QED
    BY <1>1, <1>2

LEMMA Invariance == Spec => []IInv
  BY InitIInv, NextIInv, PTL DEF Spec

(* Types. *)
THEOREM TypeCorrect == Spec => []TypeOK
  BY Invariance, IInvImplies, PTL

(* A file is followed by one unit at most, and the hash table finds it. *)
THEOREM TableIsIndexed == Spec => []OneUnitPerFile
  BY Invariance, IInvImplies, PTL

(* Loops, and only loops, have a period, and it is positive: "What is      *)
(* that?" is not printed and no marginal gain divides by zero.             *)
THEOREM PeriodsArePositive == Spec => []PeriodOfLoops
  BY Invariance, IInvImplies, PTL

(* Sequences are read at their end, loops inside the run. *)
THEOREM PositionStaysInRun == Spec => []PositionInRun
  BY Invariance, IInvImplies, PTL

(* A sequence or a loop was read block by block. *)
THEOREM SequencesWereRead == Spec => []RunWasRead
  BY Invariance, IInvImplies, PTL

(* The search for a unit to reuse finds one; no "Critical Error!". *)
THEOREM SearchSucceeds == Spec => []RunsAreShort
  BY Invariance, IInvImplies, PTL

(* A file loses its run to another only when the table is full and no run  *)
(* is shorter.                                                             *)
THEOREM ShortestIsEvicted == Spec => EvictsShortest
  <1>1. IInv /\ [Next]_vars => [\A i \in Indices :
            unit[i].vnode # 0 /\ unit'[i].vnode \notin {unit[i].vnode, 0} =>
               \A j \in Indices : /\ unit[j].vnode # 0
                                 /\ SEQ_LENGTH(unit[i]) <= SEQ_LENGTH(unit[j])]_vars
    BY NextIInv DEF Takeover
  <1>. QED
    BY <1>1, Invariance, PTL DEF Spec, EvictsShortest

(* The search of the code, with its break and the age it reads at the unit *)
(* whose index is a length, ends at the unit the actions reuse.            *)
THEOREM ScanFindsVictim == Spec => []ScanPicksVictim
  <1>1. IInv => ScanPicksVictim
    <2>. SUFFICES ASSUME IInv PROVE ScanPicksVictim
      OBVIOUS
    <2>1. unit \in Table /\ curVtime \in Nat
      BY DEF IInv, TypeOK, Table
    <2>2. \A i \in Indices : unit[i].startBlknum = 0 /\ SEQ_LENGTH(unit[i]) <= curVtime + 1
      BY DEF IInv, UnitInv
    <2>3. \A i \in Indices : SEQ_LENGTH(unit[i]) <= Now
      BY <2>2 DEF Now
    <2>4. Measured(unit)
      BY <2>1, <2>2, LengthType DEF Measured
    <2>. QED
      BY <2>1, <2>3, <2>4, ScanFindsIt DEF ScanPicksVictim
  <1>. QED
    BY <1>1, Invariance, PTL

----------------------------------------------------------------------------
(* A period is a time that has passed: no longer than the run of the       *)
(* simulator so far.                                                       *)
PeriodsPast ==
    /\ \A i \in Indices : unit[i].period <= curVtime
    /\ ref.irg <= curVtime

(* An average lies between what it is taken of. *)
LEMMA AverageBelow ==
    ASSUME NEW a \in 0..100, NEW p \in Nat, NEW t \in Nat, NEW n \in Nat, p <= n, t <= n
    PROVE  ((100 - a) * p + a * t) \div 100 <= n
  <1>1. (100 - a) * p \in Nat /\ (100 - a) * p <= (100 - a) * n
    OBVIOUS
  <1>2. a * t \in Nat /\ a * t <= a * n
    OBVIOUS
  <1>3. (100 - a) * n + a * n = 100 * n /\ (100 - a) * n \in Nat /\ a * n \in Nat
    OBVIOUS
  <1>. DEFINE x == (100 - a) * p
              y == a * t
              u == (100 - a) * n
              w == a * n
  <1>4. x \in Nat /\ y \in Nat /\ u \in Nat /\ w \in Nat /\ x <= u /\ y <= w /\ u + w = 100 * n
    BY <1>1, <1>2, <1>3
  <1>. HIDE DEF x, y, u, w
  <1>5. (x + y) \div 100 <= n
    BY <1>4
  <1>. QED
    BY <1>5 DEF x, y

(* The periods a unit may be given. *)
LEMMA NewPeriodPast ==
    ASSUME NEW s \in UnitType, NEW irg \in Nat, curVtime \in Nat, irg <= curVtime,
           s.unitFirstRefTime <= curVtime, s.period <= curVtime
    PROVE  NewPeriod(s, irg) <= Now /\ KnownPeriod(s, irg) <= Now
  <1> DEFINE turn == Now - s.unitFirstRefTime
  <1>1. FirstPeriod(s, irg) <= Now
    BY DEF FirstPeriod, Now, UnitType
  <1>2. s.period \in Nat \cup {-1} /\ turn \in Nat /\ turn <= Now /\ s.period <= Now /\ Now \in Nat
    BY DEF UnitType, Now
  <1>3. s.period \notin {-1, 0} =>
           ((100 - expo_alpha) * s.period + expo_alpha * turn) \div 100 <= Now
    <2> HIDE DEF turn, Now
    <2>. QED
      BY <1>2, AverageBelow, DetectAssumption
  <1>. QED
    BY <1>1, <1>2, <1>3 DEF NewPeriod, KnownPeriod

(* Every reference keeps them. *)
LEMMA PeriodsPastStep ==
    ASSUME IInv, PeriodsPast, [Next]_vars
    PROVE  PeriodsPast'
  <1>1. /\ curVtime \in Nat /\ unit \in [Indices -> UnitType] /\ hashed \subseteq Indices
        /\ \A i \in Indices : unit[i].period \in Nat \cup {-1}
        /\ \A i \in Indices : unit[i].unitFirstRefTime <= curVtime
        /\ \A i \in Indices : unit[i].period <= curVtime
    BY DEF IInv, TypeOK, UnitInv, PeriodsPast, UnitType
  <1>2. CASE UNCHANGED vars
    BY <1>2 DEF vars, PeriodsPast, Indices
  <1>3. CASE Next
    <2>1. PICK v \in Vnodes, p \in Pblknos, irg \in IRGs \cup {0} : Detect(v, p, irg)
      BY <1>3 DEF Next
    <2>2. irg \in Nat /\ irg <= curVtime
      <3>1. irg \in Nat
        BY DetectAssumption
      <3>2. irg < Now
        BY <2>1 DEF Detect, GrowOthers, TurnSeq, GrowSeq, StartLoop, FollowLoop, Forget, Begin,
                    Referable
      <3>. QED
        BY <1>1, <3>1, <3>2 DEF Now
    <2>3. Lfindblk(v) \subseteq Indices
      BY <1>1 DEF Lfindblk
    <2>4. ASSUME NEW i \in Indices, NEW s, s.period <= Now, unit' = [unit EXCEPT ![i] = s],
                 NEW verdict, NEW n, n <= Now, Refer(verdict, n)
          PROVE  PeriodsPast'
      <3>1. curVtime' = Now /\ ref'.irg = n
        BY <2>4 DEF Refer
      <3>2. ASSUME NEW j \in Indices PROVE unit'[j].period <= Now
        BY <1>1, <2>4 DEF Now
      <3>. QED
        BY <2>4, <3>1, <3>2 DEF PeriodsPast, Indices
    <2>5. irg <= Now /\ \A i \in Indices : Extended(unit[i], p).period <= Now
      BY <1>1, <2>2 DEF Extended, Now, UnitType
    <2>6. \A i \in Indices : NewPeriod(unit[i], irg) <= Now /\ KnownPeriod(unit[i], irg) <= Now
      BY <1>1, <2>2, NewPeriodPast
    <2>7. CASE GrowOthers(v, p, irg)
      <3>1. PICK i \in Lfindblk(v) :
               unit' = [unit EXCEPT ![i] = Extended(@, p)] /\ Refer("OTHERS", irg)
        BY <2>7 DEF GrowOthers
      <3>. QED
        BY <1>1, <2>3, <2>4, <2>5, <3>1
    <2>8. CASE TurnSeq(v, p, irg)
      <3>1. PICK i \in Lfindblk(v) :
               /\ unit' = [unit EXCEPT ![i] = [Extended(@, p) EXCEPT !.detectionState = "SEQ"]]
               /\ Refer("SEQ", irg)
        BY <2>8 DEF TurnSeq
      <3>2. [Extended(unit[i], p) EXCEPT !.detectionState = "SEQ"].period <= Now
        BY <1>1, <2>3, <2>5 DEF Extended, UnitType
      <3>. QED
        BY <1>1, <2>3, <2>4, <2>5, <3>1, <3>2
    <2>9. CASE GrowSeq(v, p, irg)
      <3>1. PICK i \in Lfindblk(v) :
               unit' = [unit EXCEPT ![i] = Extended(@, p)] /\ Refer("SEQ", irg)
        BY <2>9 DEF GrowSeq
      <3>. QED
        BY <1>1, <2>3, <2>4, <2>5, <3>1
    <2>10. CASE StartLoop(v, p, irg)
      <3>1. PICK i \in Lfindblk(v) :
               /\ unit' = [unit EXCEPT ![i] = LoopStarted(@, p, NewPeriod(@, irg))]
               /\ Refer("LOOP", NewPeriod(unit[i], irg))
        BY <2>10 DEF StartLoop
      <3>2. LoopStarted(unit[i], p, NewPeriod(unit[i], irg)).period = NewPeriod(unit[i], irg)
        BY <1>1, <2>3 DEF LoopStarted, UnitType
      <3>. QED
        BY <1>1, <2>3, <2>4, <2>6, <3>1, <3>2
    <2>11. CASE FollowLoop(v, p, irg)
      <3>1. PICK i \in Lfindblk(v) :
               /\ unit' = [unit EXCEPT ![i] = LoopFollowed(@, p, KnownPeriod(@, irg))]
               /\ Refer("LOOP", KnownPeriod(unit[i], irg))
        BY <2>11 DEF FollowLoop
      <3>2. LoopFollowed(unit[i], p, KnownPeriod(unit[i], irg)).period = KnownPeriod(unit[i], irg)
        BY <1>1, <2>3 DEF LoopFollowed, UnitType
      <3>. QED
        BY <1>1, <2>3, <2>4, <2>6, <3>1, <3>2
    <2>12. \A i \in Indices : Dropped(Lfindblk(v))[i].period <= Now
      BY <1>1 DEF Dropped, FreeUnit, Now
    <2>13. CASE Forget(v, p, irg)
      <3>1. unit' = Dropped(Lfindblk(v)) /\ curVtime' = Now /\ ref'.irg = irg
        BY <2>13 DEF Forget, Refer
      <3>. QED
        BY <2>5, <2>12, <3>1 DEF PeriodsPast, Indices
    <2>14. CASE Begin(v, p, irg)
      <3>1. PICK k : unit' = [Dropped(Lfindblk(v)) EXCEPT ![k] = NewUnit(v, p)]
        BY <2>14 DEF Begin
      <3>2. curVtime' = Now /\ ref'.irg = irg
        BY <2>14 DEF Begin, Refer
      <3>3. NewUnit(v, p).period <= Now
        BY <1>1 DEF NewUnit, Now
      <3>4. ASSUME NEW j \in Indices PROVE unit'[j].period <= Now
        <4>1. unit'[j] = IF j = k THEN NewUnit(v, p) ELSE Dropped(Lfindblk(v))[j]
          BY <3>1 DEF Dropped
        <4>. QED
          BY <2>12, <3>3, <4>1
      <3>. QED
        BY <2>5, <3>2, <3>4 DEF PeriodsPast, Indices
    <2>. QED
      BY <2>1, <2>7, <2>8, <2>9, <2>10, <2>11, <2>13, <2>14 DEF Detect
  <1>. QED
    BY <1>2, <1>3

(* No period is longer than the references so far, neither of a unit nor   *)
(* the one pgref is told.                                                  *)
THEOREM PeriodsArePast == Spec => []PeriodsPast
  <1>1. Init => PeriodsPast
    BY DEF Init, PeriodsPast, FreeUnit
  <1>2. IInv /\ PeriodsPast /\ [Next]_vars => PeriodsPast'
    BY PeriodsPastStep
  <1>. QED
    BY <1>1, <1>2, Invariance, PTL DEF Spec

=============================================================================
