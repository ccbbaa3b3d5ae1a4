------------------------------ MODULE SeqLoop ------------------------------
(***************************************************************************)
(* The reference pattern detector of the UBM buffer cache simulator:       *)
(* putInSeqLoopDetect and its detection table.  A file (vnode) has at most *)
(* one unit of the table, which follows the run of consecutive blocks the  *)
(* file is read in and calls it OTHERS, SEQ or LOOP.                       *)
(*                                                                         *)
(* One step is one reference: main counts curVtime up and pgref asks the   *)
(* detector.  The caller's argument *retIRG is the time since the block    *)
(* was last referenced when the cache still knows the block, else 0.       *)
(***************************************************************************)
EXTENDS Integers, FiniteSets

CONSTANTS
    Vnodes,            \* the files; 0 marks a unit that is not in use
    MaxBlk,            \* pblkno of a reference is in 0..MaxBlk
    MAXSEQLOOPs,       \* size of the detection table
    thresholdSeQSize,  \* option -t
    expo_alpha,        \* option -a, in percent
    IRGs,              \* non-zero values *retIRG is tried with
    MaxTime            \* bound on curVtime

ASSUME DetectAssumption ==
    /\ 0 \notin Vnodes
    /\ MaxBlk \in Nat /\ MaxTime \in Nat /\ thresholdSeQSize \in Nat
    /\ MAXSEQLOOPs \in Nat /\ MAXSEQLOOPs >= 2
    /\ expo_alpha \in 0..100
    /\ IRGs \subseteq Nat \ {0}

VARIABLES
    curVtime,
    unit,     \* seQLoopDetectUnit[]
    hashed,   \* the indices of the units in the hash table seQLoopHash[]
    seen,     \* seen[i]: blocks referenced since unit i took its file up (history)
    ref       \* the last reference and what the detector answered

vars == <<curVtime, unit, hashed, seen, ref>>

Pblknos  == 0..MaxBlk
Indices  == 0..(MAXSEQLOOPs - 1)
Patterns == {"SEQ", "LOOP", "OTHERS"}

(* endBlknum and period are unsigned with ~0 for none; here it is -1.      *)
UnitType == [vnode : Vnodes \cup {0}, startBlknum : Pblknos, endBlknum : Pblknos \cup {-1},
             curBlknum : Pblknos, period : Nat \cup {-1}, unitFirstRefTime : Nat,
             detectionState : Patterns]

FreeUnit == [vnode |-> 0, startBlknum |-> 0, endBlknum |-> -1, curBlknum |-> 0,
             period |-> -1, unitFirstRefTime |-> 0, detectionState |-> "OTHERS"]

SEQ_LENGTH(s) == s.endBlknum - s.startBlknum + 1
Now == curVtime + 1

Init ==
    /\ curVtime = 0
    /\ unit = [i \in Indices |-> FreeUnit]
    /\ hashed = {}
    /\ seen = [i \in Indices |-> {}]
    /\ ref = [verdict |-> "OTHERS", irg |-> 0]

----------------------------------------------------------------------------
(* Lfindblk: the units the hash table has for a file. *)
Lfindblk(v) == {i \in hashed : unit[i].vnode = v}

Near(b, p) == p \in {b - 1, b, b + 1}

(* Mutant: the run is taken to end after the block read. *)
ExtendedAhead(s, p) == [s EXCEPT !.endBlknum = p + 1, !.curBlknum = p + 1]

(* A run that is extended when the block after its end is referenced. *)
Extended(s, p) ==
    IF p = s.endBlknum + 1 THEN [s EXCEPT !.endBlknum = p, !.curBlknum = p] ELSE s

(* Mutant: the argument is stored although nothing was known. *)
FirstPeriodUnmeasured(s, irg) == irg

FirstPeriod(s, irg) == IF irg > 0 THEN irg ELSE Now - s.unitFirstRefTime

KnownPeriod(s, irg) == IF s.period \in {-1, 0} THEN FirstPeriod(s, irg) ELSE s.period

Distance(a, b) == IF a > b THEN a - b ELSE b - a

(* The period when a loop starts over: measured the first time, and then   *)
(* averaged with turns that are longer than the run and differ by more     *)
(* than 30%.                                                               *)
NewPeriod(s, irg) ==
    LET turn == Now - s.unitFirstRefTime
    IN  IF s.period \in {-1, 0} THEN FirstPeriod(s, irg)
        ELSE IF turn > SEQ_LENGTH(s) /\ 10 * Distance(s.period, turn) > 3 * s.period
        THEN ((100 - expo_alpha) * s.period + expo_alpha * turn) \div 100
        ELSE s.period

(* A unit at the start of a turn of its loop, and further on in the turn.  *)
LoopStarted(s, p, period) ==
    [s EXCEPT !.curBlknum = p, !.period = period,
              !.unitFirstRefTime = Now, !.detectionState = "LOOP"]

LoopFollowed(s, p, period) ==
    [s EXCEPT !.period = period, !.curBlknum = IF p = s.curBlknum + 1 THEN p ELSE s.curBlknum]

(* Mutant: a loop is read on beyond its end. *)
FollowsBeyond(s, p) ==
    s.detectionState = "LOOP" /\ p # s.startBlknum /\ Near(s.curBlknum, p)

(* How a unit takes a reference to block p of its file. *)
Grows(s, p)   == s.detectionState \in {"OTHERS", "SEQ"} /\ Near(s.endBlknum, p)
Repeats(s, p) ==
    /\ s.startBlknum = p
    /\ \/ s.detectionState = "SEQ" /\ ~Near(s.endBlknum, p) /\ s.curBlknum = s.endBlknum
       \/ s.detectionState = "LOOP"
Follows(s, p) ==
    s.detectionState = "LOOP" /\ p # s.startBlknum /\ p <= s.endBlknum /\ Near(s.curBlknum, p)
Takes(s, p) == Grows(s, p) \/ Repeats(s, p) \/ Follows(s, p)

----------------------------------------------------------------------------
(* The search for a unit to reuse: the first free one, or the shortest     *)
(* run; of equally short ones the last that is older than unit[minsize],   *)
(* the unit whose INDEX is the length.  Beyond the table that read returns *)
(* whatever is there (theta).                                              *)
ShortestOf(tab) == {i \in Indices : \A j \in Indices : SEQ_LENGTH(tab[i]) <= SEQ_LENGTH(tab[j])}
FirstOf(S) == CHOOSE i \in S : \A j \in S : i <= j
LastOf(S)  == CHOOSE i \in S : \A j \in S : i >= j

minsize(tab) == SEQ_LENGTH(tab[FirstOf(ShortestOf(tab))])
AgeRead(tab) == IF minsize(tab) \in Indices THEN {tab[minsize(tab)].unitFirstRefTime}
                ELSE 0..(MaxTime + 1)

(* Mutant: the longest run is given up. *)
minindexLongest(tab, theta) ==
    LastOf({i \in Indices : \A j \in Indices : SEQ_LENGTH(tab[i]) >= SEQ_LENGTH(tab[j])})

(* Mutant: the last of the shortest runs. *)
minindexLast(tab, theta) == LastOf(ShortestOf(tab))

minindex(tab, theta) ==
    LET first == FirstOf(ShortestOf(tab))
        older == {i \in ShortestOf(tab) \ {first} : tab[i].unitFirstRefTime < theta}
    IN  IF minsize(tab) = 0 \/ older = {} THEN first ELSE LastOf(older)

(* The search as the code runs it.  m is minsize and minindex, i the unit  *)
(* the for loop is at; it breaks when the run it has found is empty.       *)
Found == [minsize : Nat, minindex : Nat]

ScanTurn(tab, theta, m, i) ==
    LET len == SEQ_LENGTH(tab[i])
        age == IF m.minsize \in Indices THEN tab[m.minsize].unitFirstRefTime ELSE theta
    IN  IF len < m.minsize THEN [minsize |-> len, minindex |-> i]
        ELSE IF len = m.minsize /\ tab[i].unitFirstRefTime < age THEN [m EXCEPT !.minindex = i]
        ELSE m

Scan(tab, theta) ==
    LET scan[c \in Found \X Nat] ==
            IF c[1].minsize # 0 /\ c[2] \in Indices
            THEN scan[<<ScanTurn(tab, theta, c[1], c[2]), c[2] + 1>>] ELSE c[1]
    IN  scan[<<[minsize |-> Now + 1, minindex |-> 0], 0>>]

(* Mutant: the units keep their file. *)
DroppedKeepsFile(S) ==
    [i \in Indices |-> IF i \in S THEN [FreeUnit EXCEPT !.vnode = unit[i].vnode] ELSE unit[i]]

(* The table after Lhashout and the reset of the units in S. *)
Dropped(S) == [i \in Indices |-> IF i \in S THEN FreeUnit ELSE unit[i]]

(* Mutant: the run is taken to reach two blocks further than it was read. *)
NewUnitAhead(v, p) == [vnode |-> v, startBlknum |-> 0, endBlknum |-> p + 2, curBlknum |-> p + 2,
                       period |-> -1, unitFirstRefTime |-> Now, detectionState |-> "OTHERS"]

(* startBlknum is 0 whether the run begins at block 0 or at block 1. *)
NewUnit(v, p) == [vnode |-> v, startBlknum |-> 0, endBlknum |-> p, curBlknum |-> p,
                  period |-> -1, unitFirstRefTime |-> Now, detectionState |-> "OTHERS"]

----------------------------------------------------------------------------
(* *retIRG is the time since an earlier reference, or 0. *)
Referable(irg) == curVtime < MaxTime /\ irg < Now

(* What every reference does besides: the clock and the answer. *)
Refer(verdict, irg) ==
    /\ curVtime' = Now
    /\ ref' = [verdict |-> verdict, irg |-> irg]

Saw(i, p) == seen' = [seen EXCEPT ![i] = @ \cup {p}]

(* The run is read on, and is not (yet) a sequence.  The test of period is *)
(* the code's: with a period it would print "What is that?".               *)
GrowOthers(v, p, irg) ==
    Referable(irg) /\ \E i \in Lfindblk(v) :
        /\ unit[i].detectionState = "OTHERS" /\ Grows(unit[i], p)
        /\ \/ SEQ_LENGTH(Extended(unit[i], p)) < thresholdSeQSize
           \/ unit[i].period # -1
        /\ unit' = [unit EXCEPT ![i] = Extended(@, p)]
        /\ UNCHANGED hashed
        /\ Saw(i, p)
        /\ Refer("OTHERS", irg)

(* The run has reached thresholdSeQSize. *)
TurnSeq(v, p, irg) ==
    Referable(irg) /\ \E i \in Lfindblk(v) :
        /\ unit[i].detectionState = "OTHERS" /\ Grows(unit[i], p)
        /\ SEQ_LENGTH(Extended(unit[i], p)) >= thresholdSeQSize
        /\ unit[i].period = -1
        /\ unit' = [unit EXCEPT ![i] = [Extended(@, p) EXCEPT !.detectionState = "SEQ"]]
        /\ UNCHANGED hashed
        /\ Saw(i, p)
        /\ Refer("SEQ", irg)

GrowSeq(v, p, irg) ==
    Referable(irg) /\ \E i \in Lfindblk(v) :
        /\ unit[i].detectionState = "SEQ" /\ Grows(unit[i], p)
        /\ unit' = [unit EXCEPT ![i] = Extended(@, p)]
        /\ UNCHANGED hashed
        /\ Saw(i, p)
        /\ Refer("SEQ", irg)

(* The first block again: a sequence becomes a loop, a loop starts over. *)
StartLoop(v, p, irg) ==
    Referable(irg) /\ \E i \in Lfindblk(v) :
        /\ Repeats(unit[i], p)
        /\ unit' = [unit EXCEPT ![i] = LoopStarted(@, p, NewPeriod(@, irg))]
        /\ UNCHANGED hashed
        /\ Saw(i, p)
        /\ Refer("LOOP", NewPeriod(unit[i], irg))

(* The loop is read on.  Its end does not move: p <= endBlknum. *)
FollowLoop(v, p, irg) ==
    Referable(irg) /\ \E i \in Lfindblk(v) :
        /\ Follows(unit[i], p)
        /\ unit' = [unit EXCEPT ![i] = LoopFollowed(@, p, KnownPeriod(@, irg))]
        /\ UNCHANGED hashed
        /\ Saw(i, p)
        /\ Refer("LOOP", KnownPeriod(unit[i], irg))

(* The reference does not fit the file's run, which is given up; a run may *)
(* begin only at block 0 or 1.                                             *)
Forget(v, p, irg) ==
    /\ Referable(irg)
    /\ \A i \in Lfindblk(v) : ~Takes(unit[i], p)
    /\ p \notin {0, 1}
    /\ unit' = Dropped(Lfindblk(v))
    /\ hashed' = hashed \ Lfindblk(v)
    /\ seen' = [i \in Indices |-> IF i \in Lfindblk(v) THEN {} ELSE seen[i]]
    /\ Refer("OTHERS", irg)

Begin(v, p, irg) ==
    /\ Referable(irg)
    /\ \A i \in Lfindblk(v) : ~Takes(unit[i], p)
    /\ p \in {0, 1}
    /\ \E tab \in {Dropped(Lfindblk(v))} : \E theta \in AgeRead(tab) :
       \E k \in {minindex(tab, theta)} :
           /\ unit' = [tab EXCEPT ![k] = NewUnit(v, p)]
           /\ hashed' = (hashed \ Lfindblk(v)) \cup {k}
           /\ seen' = [i \in Indices |-> IF i = k THEN {p}
                                         ELSE IF i \in Lfindblk(v) THEN {} ELSE seen[i]]
    /\ Refer("OTHERS", irg)

Detect(v, p, irg) ==
    \/ GrowOthers(v, p, irg) \/ TurnSeq(v, p, irg) \/ GrowSeq(v, p, irg)
    \/ StartLoop(v, p, irg) \/ FollowLoop(v, p, irg)
    \/ Forget(v, p, irg) \/ Begin(v, p, irg)

Next == \E v \in Vnodes, p \in Pblknos, irg \in IRGs \cup {0} : Detect(v, p, irg)

Spec == Init /\ [][Next]_vars

----------------------------------------------------------------------------
(* Types, and the answer is one of the three patterns. *)
TypeOK ==
    /\ curVtime \in Nat
    /\ unit \in [Indices -> UnitType]
    /\ hashed \in SUBSET Indices
    /\ seen \in [Indices -> SUBSET Pblknos]
    /\ ref \in [verdict : Patterns, irg : Nat]

(* The hash table has exactly the units in use, and never two of one file: *)
(* a search for a file finds the one run that is followed.                 *)
OneUnitPerFile ==
    /\ hashed = {i \in Indices : unit[i].vnode # 0}
    /\ \A i, j \in hashed : unit[i].vnode = unit[j].vnode => i = j

(* A unit has a period exactly when it is a loop, and a positive one: the  *)
(* "What is that?" of line 1235 is not printed, and the lastIRG pgref      *)
(* stores for a looping block, a divisor in deallocator, is not zero.      *)
PeriodOfLoops ==
    /\ \A i \in Indices : IF unit[i].detectionState = "LOOP" THEN unit[i].period > 0
                          ELSE unit[i].period = -1
    /\ ref.verdict = "LOOP" => ref.irg > 0

(* A run that is not looping is read at its end (the test that a sequence  *)
(* was read to its end before it starts over cannot fail); a loop is read  *)
(* inside its run.                                                         *)
PositionInRun ==
    \A i \in hashed :
        IF unit[i].detectionState = "LOOP"
        THEN unit[i].startBlknum <= unit[i].curBlknum /\ unit[i].curBlknum <= unit[i].endBlknum
        ELSE unit[i].curBlknum = unit[i].endBlknum

(* What is called a sequence or a loop is no accident: the file was read   *)
(* through thresholdSeQSize blocks, each of them (block 0 apart, which a   *)
(* run is counted from even when it begins at block 1) referenced since    *)
(* the run began.                                                          *)
RunWasRead ==
    \A i \in hashed :
        /\ \A b \in 1..unit[i].endBlknum : b \in seen[i]
        /\ unit[i].detectionState # "OTHERS" => SEQ_LENGTH(unit[i]) >= thresholdSeQSize

(* Runs grow by at most one block per reference, and two runs by one       *)
(* together, so the search for a unit to reuse never ends with the         *)
(* "Critical Error! In putInSeqLoopDetect()" of line 1380, and never       *)
(* without a unit shorter than the initial minsize of curVtime+1.          *)
RunsAreShort ==
    /\ \A i \in Indices : SEQ_LENGTH(unit[i]) <= curVtime + 1
    /\ \A i, j \in Indices : i # j => SEQ_LENGTH(unit[i]) + SEQ_LENGTH(unit[j]) <= curVtime + 2
    /\ \E i \in Indices : SEQ_LENGTH(unit[i]) < Now

(* A file loses its run to another file only when every unit is in use and *)
(* no run is shorter.                                                      *)
EvictsShortest ==
    [][\A i \in Indices :
          unit[i].vnode # 0 /\ unit'[i].vnode \notin {unit[i].vnode, 0} =>
             \A j \in Indices : /\ unit[j].vnode # 0
                               /\ SEQ_LENGTH(unit[i]) <= SEQ_LENGTH(unit[j])]_vars

(* The search of the code, turn by turn and with the unit it compares ages *)
(* with, ends at the unit the actions reuse, and having found a run.       *)
ScanPicksVictim ==
    \A theta \in AgeRead(unit) :
        Scan(unit, theta) = [minsize |-> minsize(unit), minindex |-> minindex(unit, theta)]

=============================================================================
