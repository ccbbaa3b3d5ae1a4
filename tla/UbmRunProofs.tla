---------------------------- MODULE UbmRunProofs ----------------------------
(***************************************************************************)
(* A run of the simulator, for all traces, cache sizes and options: the    *)
(* sizes main computes, and the invariants of the run.                     *)
(*                                                                         *)
(* What is proved of the parts is used here: the detector's answers        *)
(* (SeqLoopProofs) and the moves of the buffers (BufferCacheProofs).  CP   *)
(* and DP are the parts of UbmRun, Cache and Detector, with the theorems   *)
(* about them.                                                             *)
(***************************************************************************)
EXTENDS UbmRun, NaturalSets

CP == INSTANCE BufferCacheProofs WITH
          NUMofLRUSEGs <- 5,
          InitSizes    <- {SegInitSize(cachesize, SeqSize, m) : m \in FreeSizes}
DP == INSTANCE SeqLoopProofs WITH IRGs <- 1..MaxTime

Word == 0..(UMod - 1)

----------------------------------------------------------------------------
(* Unsigned arithmetic. *)

(* A word does not wrap. *)
LEMMA WordIsItself == \A x \in Word : W(x) = x
  BY SizingAssumption DEF W, Word

(* The result of wrapping is a word, a multiple of UMod away. *)
LEMMA WrapIsWord ==
    \A x \in Int : W(x) \in Word /\ \E k \in Int : x = W(x) + UMod * k
  <1> SUFFICES ASSUME NEW x \in Int
               PROVE  W(x) \in Word /\ x = W(x) + UMod * (x \div UMod)
    BY SizingAssumption
  <1>. QED
    BY SizingAssumption DEF W, Word

LEMMA WrapIsInt == \A x \in Int : W(x) \in Int
  BY WrapIsWord, SizingAssumption DEF Word

(* Numbers that are a multiple of UMod apart wrap to the same word. *)
LEMMA WrapOfMultiple == \A x \in Int, k \in Int : W(x + UMod * k) = W(x)
  <1> SUFFICES ASSUME NEW x \in Int, NEW k \in Int
               PROVE  W(x + UMod * k) = W(x)
    OBVIOUS
  <1> DEFINE y == x + UMod * k
  <1>1. PICK a \in Int : x = W(x) + UMod * a
    BY WrapIsWord
  <1>2. UMod * k \in Int /\ y \in Int
    BY SizingAssumption
  <1>3. PICK b \in Int : y = W(y) + UMod * b
    BY <1>2, WrapIsWord
  <1>4. W(x) \in Word /\ W(y) \in Word
    BY <1>2, WrapIsWord
  <1>5. W(y) - W(x) = UMod * (a + k - b)
    <2>1. UMod * a \in Int /\ UMod * b \in Int /\ W(x) \in Int /\ W(y) \in Int
      BY <1>4, SizingAssumption DEF Word
    <2>2. UMod * (a + k - b) = UMod * a + UMod * k - UMod * b
      BY SizingAssumption
    <2>. QED
      BY <2>1, <2>2, <1>1, <1>2, <1>3
  <1>6. CASE a + k - b >= 1
    <2>1. UMod * (a + k - b) >= UMod
      BY <1>6, SizingAssumption
    <2>. QED
      BY <2>1, <1>4, <1>5, SizingAssumption DEF Word
  <1>7. CASE a + k - b <= -1
    <2>1. UMod * (a + k - b) <= -UMod
      BY <1>7, SizingAssumption
    <2>. QED
      BY <2>1, <1>4, <1>5, SizingAssumption DEF Word
  <1>8. CASE a + k - b = 0
    BY <1>8, <1>4, <1>5, SizingAssumption DEF Word
  <1>. QED
    BY <1>6, <1>7, <1>8

(* A summand may be wrapped before. *)
LEMMA WrapInSum ==
    \A x \in Int, y \in Int : W(x + W(y)) = W(x + y) /\ W(x - W(y)) = W(x - y)
  <1> SUFFICES ASSUME NEW x \in Int, NEW y \in Int
               PROVE  W(x + W(y)) = W(x + y) /\ W(x - W(y)) = W(x - y)
    OBVIOUS
  <1>1. W(y) \in Int
    BY WrapIsWord, SizingAssumption DEF Word
  <1>2. PICK k \in Int : y = W(y) + UMod * k
    BY WrapIsWord
  <1>3. UMod * k \in Int /\ UMod * (-k) = -(UMod * k)
    BY SizingAssumption
  <1>4. x + y = (x + W(y)) + UMod * k /\ x - y = (x - W(y)) + UMod * (-k)
    BY <1>1, <1>2, <1>3
  <1>5. W((x + W(y)) + UMod * k) = W(x + W(y))
    BY <1>1, WrapOfMultiple
  <1>6. W((x - W(y)) + UMod * (-k)) = W(x - W(y))
    BY <1>1, WrapOfMultiple
  <1>. QED
    BY <1>4, <1>5, <1>6

----------------------------------------------------------------------------
(* main's comparison of the sum of the segments with what they were to     *)
(* share ("Critical Error !") cannot fail, for any options.                *)
THEOREM SumNeverDiffers ==
    ASSUME NEW size \in Word, NEW r \in Word, NEW m \in Word
    PROVE  SumAgrees(size, r, m)
  <1> DEFINE n == ForOthers(size, r, m)
             F == FirstSize
             used == W(r + m)
             two == W(used + 3 * F)
             three == W(two + 4 * F)
             four == W(three + 8 * F)
  <1>1. /\ size \in Int /\ r \in Int /\ m \in Int /\ F \in Int
        /\ n \in Word /\ used \in Int /\ two \in Int /\ three \in Int /\ four \in Int
    <2>1. size \in Int /\ r \in Int /\ m \in Int /\ F \in Int
      BY SizingAssumption DEF Word
    <2>2. size - r - m \in Int /\ r + m \in Int
      BY <2>1
    <2>3. n \in Word
      BY <2>2, WrapIsWord DEF ForOthers
    <2>4. used \in Int
      BY <2>2, WrapIsInt
    <2>5. two \in Int
      <3>. HIDE DEF used
      <3>. QED
        BY <2>1, <2>4, WrapIsInt
    <2>6. three \in Int
      <3>. HIDE DEF two
      <3>. QED
        BY <2>1, <2>5, WrapIsInt
    <2>7. four \in Int
      <3>. HIDE DEF three
      <3>. QED
        BY <2>1, <2>6, WrapIsInt
    <2>. QED
      BY <2>1, <2>3, <2>4, <2>5, <2>6, <2>7
  <1>2. n \in Int /\ n = W(n) /\ n = W(size - r - m)
    BY <1>1, WordIsItself, SizingAssumption DEF Word, ForOthers
  <1>3. used = W(r + m) /\ two = W(used + 3 * F) /\ three = W(two + 4 * F) /\ four = W(three + 8 * F)
    OBVIOUS
  <1>4. SmallSizes(size, used)
          = IF three > size THEN <<F, W(2 * F + size - two), 0, 0, 0>>
            ELSE IF four > size THEN <<F, 2 * F, W(4 * F + size - three), 0, 0>>
            ELSE <<F, 2 * F, 4 * F, 8 * F, W(size - four)>>
    BY DEF SmallSizes
  <1>5. Segments(size, r, m)
          = IF IsLarge(n) THEN LargeSizes(n) ELSE SmallSizes(size, used)
    BY DEF Segments
  <1>6. SumAgrees(size, r, m) <=> W(SumOf(Segments(size, r, m))) = n
    BY DEF SumAgrees
  <1> HIDE DEF n, used, two, three, four, F
  <1>7. CASE IsLarge(n)
    <2> DEFINE s == Rounded(n, 1)
               t == Rounded(n, 2)
    <2>1. s \in Int /\ t \in Int
      BY <1>2 DEF Rounded
    <2>2. LargeSizes(n) = <<s, s, t, t, W(n - 2 * s - 2 * t)>>
      BY DEF LargeSizes
    <2> HIDE DEF s, t
    <2>3. n - 2 * s - 2 * t \in Int /\ 2 * s + 2 * t \in Int
      BY <1>2, <2>1
    <2>4. SumOf(Segments(size, r, m)) = 2 * s + 2 * t + W(n - 2 * s - 2 * t)
      <3>1. W(n - 2 * s - 2 * t) \in Int
        BY <2>3, WrapIsInt
      <3>. QED
        BY <1>7, <1>5, <2>2, <2>1, <3>1 DEF SumOf
    <2>5. W((2 * s + 2 * t) + W(n - 2 * s - 2 * t))
            = W((2 * s + 2 * t) + (n - 2 * s - 2 * t))
      BY <2>3, WrapInSum
    <2>6. (2 * s + 2 * t) + (n - 2 * s - 2 * t) = n
      BY <1>2, <2>1
    <2>. QED
      BY <1>2, <1>6, <2>4, <2>5, <2>6
  <1>8. CASE ~IsLarge(n)
    <2>1. /\ W(size - used) = n
          /\ W((size + 3 * F) - two) = W(size - used)
          /\ W((size + 7 * F) - three) = W((size + 3 * F) - two)
          /\ W((size + 15 * F) - four) = W((size + 7 * F) - three)
      <3>1. /\ \A x \in Int : W(x - used) = W(x - (r + m))
            /\ \A x \in Int : W(x - two) = W(x - (used + 3 * F))
            /\ \A x \in Int : W(x - three) = W(x - (two + 4 * F))
            /\ \A x \in Int : W(x - four) = W(x - (three + 8 * F))
        <4>1. r + m \in Int /\ used + 3 * F \in Int /\ two + 4 * F \in Int /\ three + 8 * F \in Int
          BY <1>1
        <4>. QED
          BY <4>1, <1>3, WrapInSum, ZenonT(30)
      <3>2. size + 3 * F \in Int /\ size + 7 * F \in Int /\ size + 15 * F \in Int
        BY <1>1
      <3>3. W(size - used) = W(size - (r + m))
        BY <1>1, <3>1
      <3>4. W((size + 3 * F) - two) = W((size + 3 * F) - (used + 3 * F))
        BY <3>2, <3>1
      <3>5. W((size + 7 * F) - three) = W((size + 7 * F) - (two + 4 * F))
        BY <3>2, <3>1
      <3>6. W((size + 15 * F) - four) = W((size + 15 * F) - (three + 8 * F))
        BY <3>2, <3>1
      <3>7. /\ size - (r + m) = size - r - m
            /\ (size + 3 * F) - (used + 3 * F) = size - used
            /\ (size + 7 * F) - (two + 4 * F) = (size + 3 * F) - two
            /\ (size + 15 * F) - (three + 8 * F) = (size + 7 * F) - three
        BY <1>1
      <3>. QED
        BY <3>3, <3>4, <3>5, <3>6, <3>7, <1>2
    <2>2. CASE three > size
      <3>1. W(2 * F + size - two) \in Int
        BY <1>1, WrapIsInt
      <3>2. SumOf(Segments(size, r, m)) = F + W(2 * F + size - two)
        BY <1>1, <1>8, <1>5, <1>4, <2>2, <3>1 DEF SumOf
      <3>3. W(F + W(2 * F + size - two)) = W(F + (2 * F + size - two))
        <4>1. F \in Int /\ 2 * F + size - two \in Int
          BY <1>1
        <4>. QED
          BY <4>1, WrapInSum, Zenon
      <3>4. F + (2 * F + size - two) = (size + 3 * F) - two
        BY <1>1
      <3>. QED
        BY <1>6, <2>1, <3>2, <3>3, <3>4
    <2>3. CASE three <= size /\ four > size
      <3>1. W(4 * F + size - three) \in Int
        BY <1>1, WrapIsInt
      <3>2. SumOf(Segments(size, r, m)) = 3 * F + W(4 * F + size - three)
        BY <1>1, <1>8, <1>5, <1>4, <2>3, <3>1 DEF SumOf
      <3>3. W(3 * F + W(4 * F + size - three)) = W(3 * F + (4 * F + size - three))
        <4>1. 3 * F \in Int /\ 4 * F + size - three \in Int
          BY <1>1
        <4>. QED
          BY <4>1, WrapInSum, Zenon
      <3>4. 3 * F + (4 * F + size - three) = (size + 7 * F) - three
        BY <1>1
      <3>. QED
        BY <1>6, <2>1, <3>2, <3>3, <3>4
    <2>4. CASE three <= size /\ four <= size
      <3>1. W(size - four) \in Int
        BY <1>1, WrapIsInt
      <3>2. SumOf(Segments(size, r, m)) = 15 * F + W(size - four)
        BY <1>1, <1>8, <1>5, <1>4, <2>4, <3>1 DEF SumOf
      <3>3. W(15 * F + W(size - four)) = W(15 * F + (size - four))
        <4>1. 15 * F \in Int /\ size - four \in Int
          BY <1>1
        <4>. QED
          BY <4>1, WrapInSum, Zenon
      <3>4. 15 * F + (size - four) = (size + 15 * F) - four
        BY <1>1
      <3>. QED
        BY <1>6, <2>1, <3>2, <3>3, <3>4
    <2>. QED
      BY <1>1, <2>2, <2>3, <2>4
  <1>. QED
    BY <1>7, <1>8

(* When -r and -m leave more than FirstSize buffers, no size wraps and the *)
(* cache is what the replacement takes it to be (CacheAssumption of        *)
(* BufferCache).  30 buffers left give an empty second segment, and fewer  *)
(* a size near 2^32.                                                       *)
THEOREM SizesAreSound ==
    ASSUME NEW size \in Nat, NEW r \in Nat, NEW m \in Nat,
           r + m + FirstSize < size,
           size + 15 * FirstSize < UMod
    PROVE  SizesFit(size, r, m)
  <1> DEFINE n == size - r - m
  <1>1. /\ n \in Nat
        /\ ForOthers(size, r, m) = n
        /\ W(r + m) = r + m
    BY WordIsItself, SizingAssumption DEF ForOthers, Word
  <1>2. CASE IsLarge(n)
    <2> DEFINE s == Rounded(n, 1)
               t == Rounded(n, 2)
    <2>1. n >= 6
      BY <1>1, <1>2, SizingAssumption DEF IsLarge
    <2>2. s \in Nat /\ s > 0 /\ t \in Nat /\ t > 0 /\ n - 2 * s - 2 * t \in 0..n
      BY <1>1, <2>1 DEF Rounded
    <2>3. W(n - 2 * s - 2 * t) = n - 2 * s - 2 * t
      BY <1>1, <2>2, WordIsItself, SizingAssumption DEF Word
    <2>4. Segments(size, r, m) = <<s, s, t, t, n - 2 * s - 2 * t>>
      BY <1>1, <1>2, <2>3 DEF Segments, LargeSizes
    <2>. HIDE DEF s, t
    <2>. QED
      BY <1>1, <2>2, <2>4 DEF SizesFit, SumOf
  <1>3. CASE ~IsLarge(n)
    <2> DEFINE F == FirstSize
               used == r + m
    <2>1. /\ W(used + 3 * F) = used + 3 * F
          /\ W(used + 3 * F + 4 * F) = used + 7 * F
          /\ W(used + 7 * F + 8 * F) = used + 15 * F
      BY WordIsItself, SizingAssumption DEF Word
    <2>2. Segments(size, r, m) = SmallSizes(size, used)
      BY <1>1, <1>3 DEF Segments
    <2>3. CASE used + 7 * F > size
      <3>1. W(2 * F + size - (used + 3 * F)) = n - F
        BY <1>1, WordIsItself, SizingAssumption DEF Word
      <3>2. Segments(size, r, m) = <<F, n - F, 0, 0, 0>>
        BY <2>1, <2>2, <2>3, <3>1, SizingAssumption DEF SmallSizes
      <3>. QED
        BY <1>1, <3>2, SizingAssumption DEF SizesFit, SumOf
    <2>4. CASE used + 7 * F <= size /\ used + 15 * F > size
      <3>1. W(4 * F + size - (used + 7 * F)) = n - 3 * F
        BY <1>1, <2>4, WordIsItself, SizingAssumption DEF Word
      <3>2. Segments(size, r, m) = <<F, 2 * F, n - 3 * F, 0, 0>>
        BY <2>1, <2>2, <2>4, <3>1, SizingAssumption DEF SmallSizes
      <3>. QED
        BY <1>1, <2>4, <3>2, SizingAssumption DEF SizesFit, SumOf
    <2>5. CASE used + 7 * F <= size /\ used + 15 * F <= size
      <3>1. W(size - (used + 15 * F)) = n - 15 * F
        BY <1>1, <2>5, WordIsItself, SizingAssumption DEF Word
      <3>2. Segments(size, r, m) = <<F, 2 * F, 4 * F, 8 * F, n - 15 * F>>
        BY <2>1, <2>2, <2>5, <3>1, SizingAssumption DEF SmallSizes
      <3>. QED
        BY <1>1, <2>5, <3>2, SizingAssumption DEF SizesFit, SumOf
    <2>. QED
      BY <2>3, <2>4, <2>5, SizingAssumption
  <1>. QED
    BY <1>2, <1>3

----------------------------------------------------------------------------
(* The parts and their theorems speak of the same operations.              *)
LEMMA SameCardinality == \A S : Cache!Cardinality(S) = CP!Cardinality(S)
  BY DEF Cache!Cardinality, CP!Cardinality

LEMMA SameBlocksIn == \A S : Cache!BlocksIn(S) = CP!BlocksIn(S)
  BY DEF Cache!BlocksIn, CP!BlocksIn, Cache!ToSet, CP!ToSet

LEMMA SameBufs == Cache!Bufs = CP!Bufs
  BY DEF Cache!Bufs, CP!Bufs

LEMMA SameListOf == \A s, b : Cache!ListOf(s, b) = CP!ListOf(s, b)
  BY DEF Cache!ListOf, CP!ListOf, Cache!Lists, CP!Lists, Cache!MAXLRU,
     CP!MAXLRU, Cache!REALLRU, CP!REALLRU, Cache!Contains, CP!Contains

LEMMA SameBecome == \A t : Cache!Become(t) <=> CP!Become(t)
  BY DEF Cache!Become, CP!Become

LEMMA SameUnlinked == \A q, b : Cache!Unlinked(q, b) = CP!Unlinked(q, b)
  BY DEF Cache!Unlinked, CP!Unlinked, Cache!RemoveAt, CP!RemoveAt

LEMMA SameCounted == \A t : Cache!Counted(t) = CP!Counted(t)
  BY DEF Cache!Counted, CP!Counted, Cache!Segments, CP!Segments, Cache!OTHLRU0,
     CP!OTHLRU0, Cache!REALLRU, CP!REALLRU

LEMMA SameLeaves == \A s, b : Cache!Leaves(s, b) = CP!Leaves(s, b)
  <1> SUFFICES ASSUME NEW s, NEW b
               PROVE  Cache!Leaves(s, b) = CP!Leaves(s, b)
    OBVIOUS
  <1>1. CASE b = NoBlock
    BY <1>1 DEF Cache!Leaves, CP!Leaves, Cache!NoBuf, CP!NoBuf, Cache!Faulty, CP!Faulty, NoBlock
  <1>2. CASE b # NoBlock /\ b \in s.loop
    BY <1>2 DEF Cache!Leaves, CP!Leaves, Cache!NoBuf, CP!NoBuf, NoBlock
  <1>3. CASE b # NoBlock /\ b \notin s.loop
    <2> DEFINE t == Cache!ListOf(s, b)
               without(q, c) == [s EXCEPT !.list[t] = q, !.used[t] = @ - 1, !.sum = @ - c]
    <2>1. t = CP!ListOf(s, b)
      BY SameListOf
    <2>2. Cache!Leaves(s, b) = without(Cache!Unlinked(s.list[t], b), Cache!Counted(t))
      BY <1>3, Zenon DEF Cache!Leaves, Cache!NoBuf, NoBlock
    <2>3. CP!Leaves(s, b) = without(CP!Unlinked(s.list[t], b), CP!Counted(t))
      BY <1>3, <2>1, Zenon DEF CP!Leaves, CP!NoBuf, NoBlock
    <2>4. Cache!Counted(t) = CP!Counted(t) /\ Cache!Unlinked(s.list[t], b) = CP!Unlinked(s.list[t], b)
      BY SameCounted, SameUnlinked
    <2>. HIDE DEF t
    <2>. QED
      BY <2>2, <2>3, <2>4, Zenon
  <1>. QED
    BY <1>1, <1>2, <1>3

LEMMA Samelruin == \A s, t, b : Cache!lruin(s, t, b) = CP!lruin(s, t, b)
  BY DEF Cache!lruin, CP!lruin, Cache!Counted, CP!Counted, Cache!Segments,
     CP!Segments, Cache!OTHLRU0, CP!OTHLRU0, Cache!REALLRU, CP!REALLRU

LEMMA SameloopQin == \A s, b : Cache!loopQin(s, b) = CP!loopQin(s, b)
  BY DEF Cache!loopQin, CP!loopQin

LEMMA SameLruOf == \A s, t : Cache!LruOf(s, t) = CP!LruOf(s, t)
  BY DEF Cache!LruOf, CP!LruOf, Cache!NoBuf, CP!NoBuf, Cache!Last, CP!Last

LEMMA SamePushedAlong == \A s, i, k, b : Cache!PushedAlong(s, i, k, b) = CP!PushedAlong(s, i, k, b)
  BY DEF Cache!PushedAlong, CP!PushedAlong, Cache!Last, CP!Last, Cache!Max,
     CP!Max, Cache!Lists, CP!Lists, Cache!MAXLRU, CP!MAXLRU, Cache!REALLRU,
     CP!REALLRU, Cache!Front, CP!Front, Cache!Counted, CP!Counted,
     Cache!Segments, CP!Segments, Cache!OTHLRU0, CP!OTHLRU0

LEMMA SameStopSeg == \A s : Cache!StopSeg(s) = CP!StopSeg(s)
  BY DEF Cache!StopSeg, CP!StopSeg, Cache!Min, CP!Min, Cache!Segments,
     CP!Segments, Cache!OTHLRU0, CP!OTHLRU0, Cache!REALLRU, CP!REALLRU,
     Cache!Overflows, CP!Overflows, Cache!LastSeg, CP!LastSeg

LEMMA SameInsertSeq == \A s, b : Cache!InsertSeq(s, b) = CP!InsertSeq(s, b)
  BY Samelruin, SameLeaves DEF Cache!InsertSeq, CP!InsertSeq, Cache!SEQMRU,
     CP!SEQMRU, Cache!Faulty, CP!Faulty, Cache!Last, CP!Last, Cache!FREEMRU,
     CP!FREEMRU

LEMMA SamePushOth == \A s, b : Cache!PushOth(s, b) = CP!PushOth(s, b)
  BY SamePushedAlong, SameStopSeg DEF Cache!PushOth, CP!PushOth, Cache!OTHLRU0,
     CP!OTHLRU0

LEMMA SamePushGhost == \A s, j, b : Cache!PushGhost(s, j, b) = CP!PushGhost(s, j, b)
  BY SamePushedAlong DEF Cache!PushGhost, CP!PushGhost, Cache!Min, CP!Min,
     Cache!LastGhost, CP!LastGhost, Cache!MAXLRU, CP!MAXLRU, Cache!REALLRU,
     CP!REALLRU, Cache!GhostOverflows, CP!GhostOverflows, Cache!SegmentOf,
     CP!SegmentOf

LEMMA SameGhosted == \A s, v : Cache!Ghosted(s, v) = CP!Ghosted(s, v)
  BY SamePushGhost, Samelruin DEF Cache!Ghosted, CP!Ghosted, Cache!Segments,
     CP!Segments, Cache!OTHLRU0, CP!OTHLRU0, Cache!REALLRU, CP!REALLRU,
     Cache!GhostOf, CP!GhostOf, Cache!FREEGHOST, CP!FREEGHOST

LEMMA SamePlaceOthers == \A s, b : Cache!PlaceOthers(s, b) <=> CP!PlaceOthers(s, b)
  BY SameStopSeg, SamePushOth, SameLruOf, SameLeaves, SamePushGhost, SameBecome
     DEF Cache!PlaceOthers, CP!PlaceOthers, Cache!GhostOf, CP!GhostOf,
     Cache!LastGhost, CP!LastGhost, Cache!MAXLRU, CP!MAXLRU, Cache!REALLRU,
     CP!REALLRU, Cache!NoBuf, CP!NoBuf

LEMMA SameHitSeq == \A b : Cache!HitSeq(b) <=> CP!HitSeq(b)
  BY SameBufs, SameBlocksIn, SameLeaves, SameBecome, SameInsertSeq DEF
     Cache!HitSeq, CP!HitSeq, Cache!LastSeg, CP!LastSeg, Cache!REALLRU,
     CP!REALLRU

LEMMA SameHitOthers == \A b : Cache!HitOthers(b) <=> CP!HitOthers(b)
  BY SameBufs, SameBlocksIn, SameLeaves, SameBecome, SamePushOth DEF
     Cache!HitOthers, CP!HitOthers, Cache!LastSeg, CP!LastSeg, Cache!REALLRU,
     CP!REALLRU

LEMMA SameHitTurnsLoop == \A b : Cache!HitTurnsLoop(b) <=> CP!HitTurnsLoop(b)
  BY DEF Cache!HitTurnsLoop, CP!HitTurnsLoop, Cache!BlocksIn, CP!BlocksIn,
     Cache!ToSet, CP!ToSet, Cache!LastSeg, CP!LastSeg, Cache!REALLRU,
     CP!REALLRU, Cache!ListOf, CP!ListOf, Cache!Lists, CP!Lists, Cache!MAXLRU,
     CP!MAXLRU, Cache!Contains, CP!Contains, Cache!Bufs, CP!Bufs, Cache!Leaves,
     CP!Leaves, Cache!NoBuf, CP!NoBuf, Cache!Faulty, CP!Faulty, Cache!Unlinked,
     CP!Unlinked, Cache!RemoveAt, CP!RemoveAt, Cache!Counted, CP!Counted,
     Cache!Segments, CP!Segments, Cache!OTHLRU0, CP!OTHLRU0, Cache!Become,
     CP!Become, Cache!loopQin, CP!loopQin, Cache!PullEnd, CP!PullEnd, Cache!Max,
     CP!Max, Cache!PulledUp, CP!PulledUp, Cache!PullGhosts, CP!PullGhosts,
     Cache!GhostOf, CP!GhostOf, Cache!LastGhost, CP!LastGhost, Cache!SegmentOf,
     CP!SegmentOf

LEMMA SameHitLoop == \A b, p : Cache!HitLoop(b, p) <=> CP!HitLoop(b, p)
  BY SameBufs, SameLeaves, SameloopQin, SameBecome, SamePlaceOthers DEF
     Cache!HitLoop, CP!HitLoop

LEMMA SameWarm == Cache!Warm <=> CP!Warm
  BY DEF Cache!Warm, CP!Warm

LEMMA SameMissed == \A b : Cache!Missed(b) <=> CP!Missed(b)
  BY SameBlocksIn DEF Cache!Missed, CP!Missed, Cache!LastSeg, CP!LastSeg,
     Cache!REALLRU, CP!REALLRU

LEMMA SameMissWarm == \A b, p : Cache!MissWarm(b, p) <=> CP!MissWarm(b, p)
  BY SameWarm, SameMissed, SameBufs, SameBecome, SamePushOth, SameInsertSeq DEF
     Cache!MissWarm, CP!MissWarm

LEMMA SameBottomOf == \A s, last : Cache!BottomOf(s, last) = CP!BottomOf(s, last)
  BY DEF Cache!BottomOf, CP!BottomOf, Cache!Max, CP!Max

LEMMA SameGetsNewBuffer == \A b : Cache!GetsNewBuffer(b) <=> CP!GetsNewBuffer(b)
  BY SameBlocksIn DEF Cache!GetsNewBuffer, CP!GetsNewBuffer, Cache!FREEGHOST,
     CP!FREEGHOST, Cache!LastGhost, CP!LastGhost, Cache!MAXLRU, CP!MAXLRU,
     Cache!REALLRU, CP!REALLRU

LEMMA SameLastGhostBlock == Cache!LastGhostBlock = CP!LastGhostBlock
  BY SameBufs, SameBottomOf, SameLruOf DEF Cache!LastGhostBlock,
     CP!LastGhostBlock, Cache!FREEGHOST, CP!FREEGHOST, Cache!LastGhost,
     CP!LastGhost, Cache!MAXLRU, CP!MAXLRU, Cache!REALLRU, CP!REALLRU

LEMMA SamePullFromGhost == \A s, j : Cache!PullFromGhost(s, j) = CP!PullFromGhost(s, j)
  BY DEF Cache!PullFromGhost, CP!PullFromGhost, Cache!PulledUp, CP!PulledUp,
     Cache!Lists, CP!Lists, Cache!MAXLRU, CP!MAXLRU, Cache!REALLRU, CP!REALLRU,
     Cache!Max, CP!Max, Cache!LastGhost, CP!LastGhost

LEMMA SameGhostTaken == \A b : Cache!GhostTaken(b) = CP!GhostTaken(b)
  BY SameBufs, SameBlocksIn, SameLeaves, SameListOf, SamePullFromGhost,
     SameGetsNewBuffer, SameLastGhostBlock DEF Cache!GhostTaken, CP!GhostTaken,
     Cache!FREEGHOST, CP!FREEGHOST, Cache!GhostSegs, CP!GhostSegs,
     Cache!GHOSTLRU0, CP!GHOSTLRU0, Cache!MAXLRU, CP!MAXLRU, Cache!REALLRU,
     CP!REALLRU

LEMMA SameFromList == \A s, t, p : Cache!FromList(s, t, p) = CP!FromList(s, t, p)
  BY SameLruOf DEF Cache!FromList, CP!FromList, Cache!Victim, CP!Victim

LEMMA SameFromLoop == \A s, p : Cache!FromLoop(s, p) = CP!FromLoop(s, p)
  BY DEF Cache!FromLoop, CP!FromLoop, Cache!Victim, CP!Victim, Cache!NoBuf,
     CP!NoBuf, Cache!LOOPQUEUE, CP!LOOPQUEUE, Cache!MAXLRU, CP!MAXLRU,
     Cache!REALLRU, CP!REALLRU

LEMMA SameLoopLimit == Cache!LoopLimit = CP!LoopLimit
  BY DEF Cache!LoopLimit, CP!LoopLimit, Cache!rLRUsegInitSizeSum,
     CP!rLRUsegInitSizeSum, Cache!SumFunctionOnSet, CP!SumFunctionOnSet,
     Cache!FoldFunctionOnSet, CP!FoldFunctionOnSet, Cache!MapThenFoldSet,
     CP!MapThenFoldSet, Cache!Segments, CP!Segments, Cache!OTHLRU0, CP!OTHLRU0,
     Cache!REALLRU, CP!REALLRU

LEMMA SameLoopOrSeq == \A s : Cache!LoopOrSeq(s) = CP!LoopOrSeq(s)
  BY DEF Cache!LoopOrSeq, CP!LoopOrSeq, Cache!SEQMRU, CP!SEQMRU,
     Cache!LOOPQUEUE, CP!LOOPQUEUE, Cache!MAXLRU, CP!MAXLRU, Cache!REALLRU,
     CP!REALLRU

LEMMA SameNeitherGain == \A s : Cache!NeitherGain(s) = CP!NeitherGain(s)
  BY DEF Cache!NeitherGain, CP!NeitherGain, Cache!SEQMRU, CP!SEQMRU,
     Cache!LOOPQUEUE, CP!LOOPQUEUE, Cache!MAXLRU, CP!MAXLRU, Cache!REALLRU,
     CP!REALLRU

LEMMA Samedeallocator == \A s, p : Cache!deallocator(s, p) = CP!deallocator(s, p)
  BY SameCardinality, SameLoopLimit, SameLoopOrSeq, SameNeitherGain DEF Cache!deallocator,
     CP!deallocator, Cache!LOOPQUEUE, CP!LOOPQUEUE, Cache!MAXLRU, CP!MAXLRU,
     Cache!REALLRU, CP!REALLRU, Cache!OTHLRU1, CP!OTHLRU1, Cache!OTHLRU0,
     CP!OTHLRU0, Cache!SEQMRU, CP!SEQMRU

LEMMA SameOthersUsed == \A s : Cache!OthersUsed(s) = CP!OthersUsed(s)
  BY SameCardinality DEF Cache!OthersUsed, CP!OthersUsed

LEMMA SameSeqVictims == \A s : Cache!SeqVictims(s) = CP!SeqVictims(s)
  BY SameOthersUsed, SameFromList, SameFromLoop, SameBottomOf DEF
     Cache!SeqVictims, CP!SeqVictims, Cache!SEQMRU, CP!SEQMRU, Cache!LastSeg,
     CP!LastSeg, Cache!REALLRU, CP!REALLRU

LEMMA SameDeallocVictims == \A s, p, t : Cache!DeallocVictims(s, p, t) = CP!DeallocVictims(s, p, t)
  BY SameFromList, SameFromLoop, SameBottomOf DEF Cache!DeallocVictims,
     CP!DeallocVictims, Cache!OTHLRU0, CP!OTHLRU0, Cache!LastSeg, CP!LastSeg,
     Cache!REALLRU, CP!REALLRU, Cache!LOOPQUEUE, CP!LOOPQUEUE, Cache!MAXLRU,
     CP!MAXLRU, Cache!SEQMRU, CP!SEQMRU

LEMMA SameVictims == \A s, p : Cache!Victims(s, p) = CP!Victims(s, p)
  BY SameSeqVictims, SameDeallocVictims, Samedeallocator DEF Cache!Victims,
     CP!Victims, Cache!SEQMRU, CP!SEQMRU, Cache!FREEMRU, CP!FREEMRU,
     Cache!Victim, CP!Victim, Cache!MruOf, CP!MruOf, Cache!NoBuf, CP!NoBuf

LEMMA SameReplaces ==
    \A b, s, v : v.pattern \in CP!Patterns => (Cache!Replaces(b, s, v) <=> CP!Replaces(b, s, v))
  <1> SUFFICES ASSUME NEW b, NEW s, NEW v, v.pattern \in CP!Patterns
               PROVE  Cache!Replaces(b, s, v) <=> CP!Replaces(b, s, v)
    OBVIOUS
  <1> DEFINE u == CP!Leaves(s, v.bufp)
             g == IF u.fault THEN u ELSE CP!Ghosted(u, v)
             Counts == /\ allocBufInGhost' = IF CP!GetsNewBuffer(b) THEN allocBufInGhost + 1
                                             ELSE allocBufInGhost
                       /\ UNCHANGED allocBufInCache
  <1>1. CP!Replaces(b, s, v) <=>
          /\ v.bufp # CP!NoBuf
          /\ CASE v.pattern = "LOOP"   -> CP!Become(CP!loopQin(g, b))
               [] v.pattern = "SEQ"    -> CP!Become(CP!InsertSeq(g, b))
               [] v.pattern = "OTHERS" -> CP!PlaceOthers(g, b)
          /\ Counts
    BY Zenon DEF CP!Replaces
  <1>2. u = Cache!Leaves(s, v.bufp) /\ g = IF u.fault THEN u ELSE Cache!Ghosted(u, v)
    BY SameLeaves, SameGhosted
  <1>3. Cache!Replaces(b, s, v) <=>
          /\ v.bufp # Cache!NoBuf
          /\ CASE v.pattern = "LOOP"   -> Cache!Become(Cache!loopQin(g, b))
               [] v.pattern = "SEQ"    -> Cache!Become(Cache!InsertSeq(g, b))
               [] v.pattern = "OTHERS" -> Cache!PlaceOthers(g, b)
          /\ Counts
    <2>. HIDE DEF u, g
    <2>. QED
      BY <1>2, SameGetsNewBuffer, Zenon DEF Cache!Replaces
  <1>4. /\ Cache!Become(Cache!loopQin(g, b)) <=> CP!Become(CP!loopQin(g, b))
        /\ Cache!Become(Cache!InsertSeq(g, b)) <=> CP!Become(CP!InsertSeq(g, b))
        /\ Cache!PlaceOthers(g, b) <=> CP!PlaceOthers(g, b)
    <2>. HIDE DEF g
    <2>. QED
      BY SameBecome, SameloopQin, SameInsertSeq, SamePlaceOthers
  <1>5. CP!NoBuf = Cache!NoBuf
    BY DEF CP!NoBuf, Cache!NoBuf
  <1>. HIDE DEF g, u
  <1>. QED
    BY <1>1, <1>3, <1>4, <1>5 DEF CP!Patterns

LEMMA SameMissDies == \A b, p : Cache!MissDies(b, p) <=> CP!MissDies(b, p)
  BY SameWarm, SameMissed, SameGhostTaken, SameVictims, SameBufs, SameBecome DEF
     Cache!MissDies, CP!MissDies, Cache!Faulty, CP!Faulty, Cache!NoBuf, CP!NoBuf

LEMMA SameInit == Cache!Init <=> CP!Init
  BY DEF Cache!Init, CP!Init, Cache!Lists, CP!Lists, Cache!MAXLRU, CP!MAXLRU,
     Cache!REALLRU, CP!REALLRU

LEMMA SameTypeOK == Cache!TypeOK <=> CP!TypeOK
  BY DEF Cache!TypeOK, CP!TypeOK, Cache!Lists, CP!Lists, Cache!MAXLRU,
     CP!MAXLRU, Cache!REALLRU, CP!REALLRU

LEMMA SameReal == Cache!Real = CP!Real
  BY SameBlocksIn DEF Cache!Real, CP!Real, Cache!LastSeg, CP!LastSeg,
     Cache!REALLRU, CP!REALLRU

LEMMA SameGhost == Cache!Ghost = CP!Ghost
  BY SameBlocksIn DEF Cache!Ghost, CP!Ghost, Cache!FREEGHOST, CP!FREEGHOST,
     Cache!LastGhost, CP!LastGhost, Cache!MAXLRU, CP!MAXLRU, Cache!REALLRU,
     CP!REALLRU

LEMMA SameLfindblk == \A v : Detector!Lfindblk(v) = DP!Lfindblk(v)
  BY DEF Detector!Lfindblk, DP!Lfindblk

LEMMA SameGrows == \A s, p : Detector!Grows(s, p) <=> DP!Grows(s, p)
  BY DEF Detector!Grows, DP!Grows, Detector!Near, DP!Near

LEMMA SameRepeats == \A s, p : Detector!Repeats(s, p) <=> DP!Repeats(s, p)
  BY DEF Detector!Repeats, DP!Repeats, Detector!Near, DP!Near

LEMMA SameFollows == \A s, p : Detector!Follows(s, p) <=> DP!Follows(s, p)
  BY DEF Detector!Follows, DP!Follows, Detector!Near, DP!Near

LEMMA SameTakes == \A s, p : Detector!Takes(s, p) <=> DP!Takes(s, p)
  BY SameGrows, SameRepeats, SameFollows DEF Detector!Takes, DP!Takes

LEMMA SameExtended == \A s, p : Detector!Extended(s, p) = DP!Extended(s, p)
  BY DEF Detector!Extended, DP!Extended

LEMMA SameSEQ_LENGTH == \A s : Detector!SEQ_LENGTH(s) = DP!SEQ_LENGTH(s)
  BY DEF Detector!SEQ_LENGTH, DP!SEQ_LENGTH

LEMMA SameRefer == \A a, irg : Detector!Refer(a, irg) <=> DP!Refer(a, irg)
  BY DEF Detector!Refer, DP!Refer, Detector!Now, DP!Now

LEMMA SameSaw == \A i, p : Detector!Saw(i, p) <=> DP!Saw(i, p)
  BY DEF Detector!Saw, DP!Saw

LEMMA SameReferable == \A irg : Detector!Referable(irg) <=> DP!Referable(irg)
  BY DEF Detector!Referable, DP!Referable, Detector!Now, DP!Now

LEMMA SameFirstPeriod == \A s, irg : Detector!FirstPeriod(s, irg) = DP!FirstPeriod(s, irg)
  BY DEF Detector!FirstPeriod, DP!FirstPeriod, Detector!Now, DP!Now

LEMMA SameNewPeriod == \A s, irg : Detector!NewPeriod(s, irg) = DP!NewPeriod(s, irg)
  BY SameFirstPeriod, SameSEQ_LENGTH DEF Detector!NewPeriod, DP!NewPeriod,
     Detector!Now, DP!Now, Detector!Distance, DP!Distance

LEMMA SameKnownPeriod == \A s, irg : Detector!KnownPeriod(s, irg) = DP!KnownPeriod(s, irg)
  BY SameFirstPeriod DEF Detector!KnownPeriod, DP!KnownPeriod

LEMMA SameLoopStarted == \A s, p, period : Detector!LoopStarted(s, p, period) = DP!LoopStarted(s, p, period)
  BY DEF Detector!LoopStarted, DP!LoopStarted, Detector!Now, DP!Now

LEMMA SameLoopFollowed == \A s, p, period : Detector!LoopFollowed(s, p, period) = DP!LoopFollowed(s, p, period)
  BY DEF Detector!LoopFollowed, DP!LoopFollowed

LEMMA SameShortestOf == \A tab : Detector!ShortestOf(tab) = DP!ShortestOf(tab)
  BY DEF Detector!ShortestOf, DP!ShortestOf, Detector!Indices, DP!Indices,
     Detector!SEQ_LENGTH, DP!SEQ_LENGTH

LEMMA Sameminsize == \A tab : Detector!minsize(tab) = DP!minsize(tab)
  BY SameShortestOf, SameSEQ_LENGTH DEF Detector!minsize, DP!minsize,
     Detector!FirstOf, DP!FirstOf

LEMMA SameAgeRead == \A tab : Detector!AgeRead(tab) = DP!AgeRead(tab)
  BY Sameminsize DEF Detector!AgeRead, DP!AgeRead, Detector!Indices, DP!Indices

LEMMA SameFirstOf == \A S : Detector!FirstOf(S) = DP!FirstOf(S)
  BY DEF Detector!FirstOf, DP!FirstOf

LEMMA SameLastOf == \A S : Detector!LastOf(S) = DP!LastOf(S)
  BY DEF Detector!LastOf, DP!LastOf

LEMMA Sameminindex == \A tab, theta : Detector!minindex(tab, theta) = DP!minindex(tab, theta)
  BY SameShortestOf, Sameminsize, SameFirstOf, SameLastOf DEF Detector!minindex,
     DP!minindex

LEMMA SameDropped == \A S : Detector!Dropped(S) = DP!Dropped(S)
  BY DEF Detector!Dropped, DP!Dropped, Detector!Indices, DP!Indices,
     Detector!FreeUnit, DP!FreeUnit

LEMMA SameNewUnit == \A v, p : Detector!NewUnit(v, p) = DP!NewUnit(v, p)
  BY DEF Detector!NewUnit, DP!NewUnit, Detector!Now, DP!Now

LEMMA SameGrowOthers == \A v, p, irg : Detector!GrowOthers(v, p, irg) <=> DP!GrowOthers(v, p, irg)
  BY SameLfindblk, SameGrows, SameExtended, SameSEQ_LENGTH, SameRefer, SameSaw,
     SameReferable DEF Detector!GrowOthers, DP!GrowOthers

LEMMA SameTurnSeq == \A v, p, irg : Detector!TurnSeq(v, p, irg) <=> DP!TurnSeq(v, p, irg)
  BY SameLfindblk, SameGrows, SameExtended, SameSEQ_LENGTH, SameRefer, SameSaw,
     SameReferable DEF Detector!TurnSeq, DP!TurnSeq

LEMMA SameGrowSeq == \A v, p, irg : Detector!GrowSeq(v, p, irg) <=> DP!GrowSeq(v, p, irg)
  BY SameLfindblk, SameGrows, SameExtended, SameSEQ_LENGTH, SameRefer, SameSaw,
     SameReferable DEF Detector!GrowSeq, DP!GrowSeq

LEMMA SameStartLoop == \A v, p, irg : Detector!StartLoop(v, p, irg) <=> DP!StartLoop(v, p, irg)
  BY SameLfindblk, SameRepeats, SameLoopStarted, SameNewPeriod, SameRefer,
     SameSaw, SameReferable DEF Detector!StartLoop, DP!StartLoop

LEMMA SameFollowLoop == \A v, p, irg : Detector!FollowLoop(v, p, irg) <=> DP!FollowLoop(v, p, irg)
  BY SameLfindblk, SameFollows, SameLoopFollowed, SameKnownPeriod, SameRefer,
     SameSaw, SameReferable DEF Detector!FollowLoop, DP!FollowLoop

LEMMA SameForget == \A v, p, irg : Detector!Forget(v, p, irg) <=> DP!Forget(v, p, irg)
  BY SameLfindblk, SameTakes, SameDropped, SameRefer, SameReferable DEF
     Detector!Forget, DP!Forget, Detector!Indices, DP!Indices

LEMMA SameBegin == \A v, p, irg : Detector!Begin(v, p, irg) <=> DP!Begin(v, p, irg)
  BY SameLfindblk, SameTakes, SameDropped, SameAgeRead, Sameminindex,
     SameNewUnit, SameRefer, SameReferable DEF Detector!Begin, DP!Begin,
     Detector!Indices, DP!Indices

LEMMA SameDetect == \A v, p, irg : Detector!Detect(v, p, irg) <=> DP!Detect(v, p, irg)
  BY SameGrowOthers, SameTurnSeq, SameGrowSeq, SameStartLoop, SameFollowLoop,
     SameForget, SameBegin DEF Detector!Detect, DP!Detect

LEMMA SameDetectorInit == Detector!Init <=> DP!Init
  BY DEF Detector!Init, DP!Init, Detector!Indices, DP!Indices,
     Detector!FreeUnit, DP!FreeUnit

LEMMA SameDetectorTypeOK == Detector!TypeOK <=> DP!TypeOK
  BY DEF Detector!TypeOK, DP!TypeOK, Detector!Indices, DP!Indices,
     Detector!UnitType, DP!UnitType, Detector!Pblknos, DP!Pblknos,
     Detector!Patterns, DP!Patterns

----------------------------------------------------------------------------
LEMMA CountsBelow == \A x \in Nat : W(x) <= x
  BY SizingAssumption DEF W

LEMMA SumOfSizes ==
    ASSUME NEW size, \A i \in 2..6 : size[i] \in Nat
    PROVE  SumFunctionOnSet(size, 2..6) = size[2] + size[3] + size[4] + size[5] + size[6]
  <1> DEFINE S(n) == SumFunctionOnSet(size, 2..n)
  <1>1. \A n \in 1..6 : \A i \in 2..n : size[i] \in Nat
    OBVIOUS
  <1>2. S(1) = 0
    BY <1>1, SumUpTo
  <1>3. \A n \in 2..6 : S(n) = S(n - 1) + size[n]
    BY <1>1, SumUpTo
  <1>. HIDE DEF S
  <1>4. S(6) = size[2] + size[3] + size[4] + size[5] + size[6]
    <2>1. S(2) = S(1) + size[2] /\ S(3) = S(2) + size[3] /\ S(4) = S(3) + size[4]
          /\ S(5) = S(4) + size[5] /\ S(6) = S(5) + size[6]
      BY <1>3
    <2>. QED
      BY <1>2, <2>1
  <1>. QED
    BY <1>4 DEF S

LEMMA SameSum == \A f, S : CP!SumFunctionOnSet(f, S) = SumFunctionOnSet(f, S)
  BY DEF SumFunctionOnSet, CP!SumFunctionOnSet, FoldFunctionOnSet, CP!FoldFunctionOnSet, MapThenFoldSet, CP!MapThenFoldSet
   
LEMMA CacheAssumed == CP!CacheAssumption
  <1>1. CP!LastSeg = 6 /\ CP!SEQMRU = 0 /\ CP!FREEMRU = 1 /\ CP!OTHLRU0 = 2 /\ CP!OTHLRU1 = 3
        /\ CP!Segments = 2..6 /\ CP!NoBuf = "none"
    BY DEF CP!LastSeg, CP!SEQMRU, CP!FREEMRU, CP!OTHLRU0, CP!OTHLRU1, CP!Segments, CP!REALLRU, CP!NoBuf
  <1>2. ASSUME NEW m \in FreeSizes
        PROVE  \E size \in {SegInitSize(cachesize, SeqSize, m)} :
                 /\ size \in [0..6 -> Nat]
                 /\ size[0] > 0 /\ size[2] > 0 /\ size[3] > 0
                 /\ size[0] + size[1] + CP!rLRUsegInitSizeSum(size) = cachesize
                 /\ CP!rLRUsegInitSizeSum(size) \in (MINIMUMLRUSIZE + 1)..cachesize
    <2> DEFINE size == SegInitSize(cachesize, SeqSize, m)
               s == Segments(cachesize, SeqSize, m)
    <2>1. /\ m \in Nat /\ SeqSize \in Nat /\ SeqSize > 0 /\ cachesize \in Nat /\ MINIMUMLRUSIZE \in Nat
          /\ SizesFit(cachesize, SeqSize, m) /\ ForOthers(cachesize, SeqSize, m) > MINIMUMLRUSIZE
      BY RunAssumption
    <2>2. /\ SeqSize + m + SumOf(s) = cachesize
          /\ \A i \in 1..5 : s[i] \in 0..cachesize
          /\ s[1] > 0 /\ s[2] > 0
      BY <2>1 DEF SizesFit
    <2>3. /\ size = [i \in 0..6 |-> CASE i = 0 -> SeqSize [] i = 1 -> m [] OTHER -> s[i - 1]]
      BY DEF SegInitSize
    <2>. HIDE DEF size, s
    <2>4. /\ size[0] = SeqSize /\ size[1] = m
          /\ \A i \in 2..6 : size[i] = s[i - 1]
          /\ \A i \in 0..6 : size[i] \in Nat
      BY <2>1, <2>2, <2>3
    <2>5. size \in [0..6 -> Nat]
      BY <2>3, <2>4
    <2>6. size[2] = s[1] /\ size[3] = s[2] /\ size[4] = s[3] /\ size[5] = s[4] /\ size[6] = s[5]
      BY <2>4
    <2>7. SumFunctionOnSet(size, 2..6) = size[2] + size[3] + size[4] + size[5] + size[6]
      BY <2>4, SumOfSizes
    <2>8. CP!rLRUsegInitSizeSum(size) = SumFunctionOnSet(size, 2..6)
      BY <1>1, SameSum DEF CP!rLRUsegInitSizeSum
    <2>9. SumOf(s) \in Nat /\ CP!rLRUsegInitSizeSum(size) = SumOf(s)
      BY <2>2, <2>6, <2>7, <2>8 DEF SumOf
    <2>10. SumOf(s) = cachesize - SeqSize - m
      BY <2>1, <2>2, <2>9
    <2>11. W(cachesize - SeqSize - m) <= SumOf(s)
      BY <2>9, <2>10, CountsBelow
    <2>12. W(cachesize - SeqSize - m) > MINIMUMLRUSIZE
      BY <2>1 DEF ForOthers
    <2>13. W(cachesize - SeqSize - m) \in Int
      BY <2>9, <2>10, SizingAssumption DEF W
    <2>14. SumOf(s) \in (MINIMUMLRUSIZE + 1)..cachesize
      BY <2>1, <2>9, <2>10, <2>11, <2>12, <2>13
    <2>15. size[0] > 0 /\ size[2] > 0 /\ size[3] > 0 /\ size[0] + size[1] + SumOf(s) = cachesize
      BY <2>1, <2>2, <2>4, <2>6, <2>9
    <2>. QED
      BY <2>5, <2>9, <2>14, <2>15, Zenon DEF size
  <1>3. 5 \in Nat /\ 5 >= 2 /\ cachesize \in Nat /\ MINIMUMLRUSIZE \in Nat /\ CP!NoBuf \notin Blocks
    BY RunAssumption, <1>1
  <1>. QED
    BY <1>1, <1>2, <1>3 DEF CP!CacheAssumption

LEMMA DetectorAssumed == DP!DetectAssumption
  BY RunAssumption DEF DP!DetectAssumption

----------------------------------------------------------------------------
(* A turn's reference to the buffers: block b comes into the partition     *)
(* called q, v leaves its place for it (b itself, or a victim), and the    *)
(* blocks in G, no more than a ghost, are hashed out.                      *)
Moves(b, q, v, G) ==
    /\ CP!Referred(CP!Bufs, CP!Bufs', q, b, v)
    /\ v = b \/ (v \in CP!RealPart(CP!Bufs) /\ b \notin CP!RealPart(CP!Bufs))
    /\ G \subseteq CP!GhostPart(CP!Bufs) /\ b \notin G
    /\ CP!RealPart(CP!Bufs)' \cup CP!GhostPart(CP!Bufs)'
          = ((CP!RealPart(CP!Bufs) \cup CP!GhostPart(CP!Bufs)) \ G) \cup {b}
    /\ Stamps(b, G)

(* A hit. *)
LEMMA HitMoves ==
    ASSUME NEW b, NEW q \in CP!Patterns, CP!HitAs(b, q) \/ CP!FillAs(b, q), Stamps(b, {})
    PROVE  Moves(b, q, b, {})
  <1>1. PICK x : x = CP!Bufs
    OBVIOUS
  <1>2. PICK y : CP!Become(y) /\ CP!Referred(x, y, q, b, b) /\ CP!GhostPart(y) = CP!GhostPart(x)
    BY <1>1 DEF CP!HitAs, CP!FillAs
  <1>3. CP!Fine(y)
    BY <1>2 DEF CP!Referred
  <1>4. /\ CP!Bufs' = y /\ CP!RealPart(CP!Bufs)' = CP!RealPart(y)
        /\ CP!GhostPart(CP!Bufs)' = CP!GhostPart(y)
    BY <1>2, <1>3, CacheAssumed, CP!BecomeBufs
  <1>5. CP!RealPart(y) = CP!RealPart(x) \cup {b}
    BY <1>2, CacheAssumed, CP!ReferredKeeps
  <1>6. CP!Referred(CP!Bufs, CP!Bufs', q, b, b)
    BY <1>1, <1>2, <1>4
  <1>7. CP!RealPart(CP!Bufs)' \cup CP!GhostPart(CP!Bufs)'
          = ((CP!RealPart(CP!Bufs) \cup CP!GhostPart(CP!Bufs)) \ {}) \cup {b}
    BY <1>1, <1>2, <1>4, <1>5
  <1>. QED
    BY <1>6, <1>7 DEF Moves

(* The cached blocks and the ghosts are different ones. *)
LEMMA RealOrGhost ==
    ASSUME CP!IInv
    PROVE  /\ CP!RealPart(CP!Bufs) \cap CP!GhostPart(CP!Bufs) = {}
           /\ CP!Good(CP!Bufs)
           /\ CP!RealPart(CP!Bufs) \subseteq Blocks /\ CP!GhostPart(CP!Bufs) \subseteq Blocks
           /\ CP!Real = CP!RealPart(CP!Bufs) /\ CP!Ghost = CP!GhostPart(CP!Bufs)
  <1>1. PICK x : x = CP!Bufs
    OBVIOUS
  <1>2. CP!Good(x)
    BY <1>1 DEF CP!IInv, CP!Fine
  <1>3. /\ CP!SeqPart(x) \cap CP!GhostPart(x) = {} /\ CP!OthPart(x) \cap CP!GhostPart(x) = {}
        /\ x.loop \cap (CP!SeqPart(x) \cup CP!OthPart(x) \cup CP!GhostPart(x)) = {}
        /\ CP!All(x) = CP!SeqPart(x) \cup CP!OthPart(x) \cup CP!GhostPart(x) \cup x.loop
    BY <1>2, CacheAssumed, CP!Partitions
  <1>4. CP!All(x) \subseteq Blocks
    BY <1>2, CacheAssumed, CP!GoodType
  <1>5. CP!Real = CP!RealPart(x) /\ CP!Ghost = CP!GhostPart(x)
    BY <1>1, <1>2, CacheAssumed, CP!Views
  <1>. QED
    BY <1>1, <1>2, <1>3, <1>4, <1>5 DEF CP!RealPart

(* A miss in a full cache. *)
LEMMA ReplaceMoves ==
    ASSUME CP!IInv, NEW b, NEW q \in CP!Patterns, NEW v, NEW H,
           CP!ReplaceAs(b, q, v, H), Stamps(b, HashedOut(b))
    PROVE  Moves(b, q, v, HashedOut(b))
  <1>1. PICK x : x = CP!Bufs
    OBVIOUS
  <1>2. PICK y : CP!Become(y) /\ CP!Replaced(y, q, b, v, H)
    BY DEF CP!ReplaceAs
  <1>3. /\ v \in CP!RealPart(x) /\ CP!Referred(x, y, q, b, v)
        /\ CP!GhostGone(x, b, H) /\ CP!GhostPart(y) = H \cup {v}
        /\ b \notin CP!RealPart(x)
    BY <1>1, <1>2 DEF CP!Replaced, CP!ReplaceAs
  <1>4. CP!Fine(y)
    BY <1>3 DEF CP!Referred
  <1>5. /\ CP!Bufs' = y /\ CP!RealPart(CP!Bufs)' = CP!RealPart(y)
        /\ CP!GhostPart(CP!Bufs)' = CP!GhostPart(y)
    BY <1>2, <1>4, CacheAssumed, CP!BecomeBufs
  <1>6. CP!RealPart(y) = (CP!RealPart(x) \ {v}) \cup {b}
    BY <1>3, CacheAssumed, CP!ReferredReal
  <1>7. CP!RealPart(x) \cap CP!GhostPart(x) = {} /\ CP!Ghost = CP!GhostPart(x)
    BY <1>1, RealOrGhost
  <1>8. /\ CP!GetsNewBuffer(b) <=> b \notin CP!Ghost /\ allocBufInGhost < cachesize
        /\ HashedOut(b) = IF b \in CP!Ghost \/ CP!GetsNewBuffer(b) THEN {} ELSE {CP!LastGhostBlock}
    BY SameGhost, SameGetsNewBuffer, SameLastGhostBlock DEF HashedOut, CP!GetsNewBuffer, CP!Ghost
  <1>9. /\ HashedOut(b) \subseteq CP!GhostPart(x) /\ b \notin HashedOut(b)
        /\ CP!RealPart(y) \cup CP!GhostPart(y)
              = ((CP!RealPart(x) \cup CP!GhostPart(x)) \ HashedOut(b)) \cup {b}
    <2>1. CASE b \in CP!GhostPart(x) /\ H = CP!GhostPart(x) \ {b}
      BY <2>1, <1>3, <1>6, <1>7, <1>8
    <2>2. CASE /\ b \notin CP!GhostPart(x) /\ allocBufInGhost < cachesize
               /\ H = CP!GhostPart(x)
      BY <2>2, <1>3, <1>6, <1>7, <1>8
    <2>3. CASE /\ b \notin CP!GhostPart(x) /\ ~(allocBufInGhost < cachesize)
               /\ CP!LastGhostBlock \in CP!GhostPart(x)
               /\ H = CP!GhostPart(x) \ {CP!LastGhostBlock}
      BY <2>3, <1>3, <1>6, <1>7, <1>8
    <2>. QED
      BY <1>3, <2>1, <2>2, <2>3 DEF CP!GhostGone
  <1>10. CP!Referred(CP!Bufs, CP!Bufs', q, b, v)
    BY <1>1, <1>3, <1>5
  <1>. QED
    BY <1>1, <1>3, <1>5, <1>9, <1>10 DEF Moves


(* Each of pgref's four cases is one of the moves; q is "LOOP" only when   *)
(* the detector says so.                                                   *)
LEMMA HitListMoves ==
    ASSUME CP!IInv, NEW b \in Blocks, NEW p \in CP!Patterns, HitList(b, p)
    PROVE  Moves(b, p, b, {}) /\ CP!Next /\ b \in CP!BlocksIn(0..CP!LastSeg)
  <1>1. b \in Cache!BlocksIn(0..Cache!LastSeg) /\ Stamps(b, {})
    BY DEF HitList
  <1>2. b \in CP!BlocksIn(0..CP!LastSeg)
    <2>1. Cache!LastSeg = CP!LastSeg
      BY DEF Cache!LastSeg, CP!LastSeg, Cache!REALLRU, CP!REALLRU
    <2>. QED
      BY <1>1, <2>1, SameBlocksIn
  <1>3. \/ p = "SEQ" /\ CP!HitSeq(b)
        \/ p = "OTHERS" /\ CP!HitOthers(b)
        \/ p = "LOOP" /\ CP!HitTurnsLoop(b)
    BY SameHitSeq, SameHitOthers, SameHitTurnsLoop DEF HitList
  <1>4. CP!HitAs(b, p)
    <2>1. /\ CP!HitSeq(b) => CP!HitAs(b, "SEQ")
          /\ CP!HitOthers(b) => CP!HitAs(b, "OTHERS")
          /\ CP!HitTurnsLoop(b) => CP!HitAs(b, "LOOP")
      BY <1>3, CacheAssumed, CP!HitsKeep
    <2>. QED
      BY <1>3, <2>1
  <1>5. CP!Next
    BY <1>3 DEF CP!Next
  <1>6. Moves(b, p, b, {})
    BY <1>1, <1>4, HitMoves
  <1>. QED
    BY <1>2, <1>5, <1>6

LEMMA HitQueueMoves ==
    ASSUME CP!IInv, NEW b \in Blocks, NEW p \in CP!Patterns, HitQueue(b, p)
    PROVE  Moves(b, IF p = "LOOP" THEN "LOOP" ELSE "OTHERS", b, {}) /\ CP!Next
  <1>1. CP!HitLoop(b, p) /\ Stamps(b, {})
    BY SameHitLoop DEF HitQueue
  <1>2. CP!HitAs(b, IF p = "LOOP" THEN "LOOP" ELSE "OTHERS")
    BY <1>1, CacheAssumed, CP!HitsKeep
  <1>3. CP!Next
    BY <1>1 DEF CP!Next
  <1>4. (IF p = "LOOP" THEN "LOOP" ELSE "OTHERS") \in CP!Patterns
    BY DEF CP!Patterns
  <1>. QED
    BY <1>1, <1>2, <1>3, <1>4, HitMoves

LEMMA MissWarmMoves ==
    ASSUME CP!IInv, NEW b \in Blocks, NEW p \in CP!Patterns, MissWarm(b, p)
    PROVE  Moves(b, IF p = "OTHERS" THEN "OTHERS" ELSE "SEQ", b, {}) /\ CP!Next
  <1>1. CP!MissWarm(b, p) /\ Stamps(b, {})
    BY SameMissWarm DEF MissWarm
  <1>2. CP!FillAs(b, IF p = "OTHERS" THEN "OTHERS" ELSE "SEQ")
    BY <1>1, CacheAssumed, CP!FillsKeep
  <1>3. CP!Next
    BY <1>1 DEF CP!Next
  <1>4. (IF p = "OTHERS" THEN "OTHERS" ELSE "SEQ") \in CP!Patterns
    BY DEF CP!Patterns
  <1>. QED
    BY <1>1, <1>2, <1>3, <1>4, HitMoves

(* The victim v taken by a miss in a full cache. *)
Takes(b, p, v) ==
    /\ MayTake(v, p, ref'.irg)
    /\ v.where = Cache!LOOPQUEUE <=> v.bufp \in loopQ
    /\ v.pattern \in CP!Patterns /\ v.pattern \in {p, "SEQ"}
    /\ taken' = IF v.where = Cache!LOOPQUEUE THEN v.bufp ELSE NoBlock
    /\ v.bufp \in CP!RealPart(CP!Bufs) /\ b \notin CP!RealPart(CP!Bufs)
    /\ Moves(b, v.pattern, v.bufp, HashedOut(b))

LEMMA MissFullMoves ==
    ASSUME CP!IInv, NEW b \in Blocks, NEW p \in CP!Patterns, MissFull(b, p)
    PROVE  CP!Next /\ \E v : Takes(b, p, v)
  <1>1. PICK v \in Cache!Victims(Cache!GhostTaken(b), p) :
           /\ v.bufp # Cache!NoBuf /\ MayTake(v, p, ref'.irg)
           /\ Cache!Replaces(b, Cache!GhostTaken(b), v)
           /\ taken' = IF v.where = Cache!LOOPQUEUE THEN v.bufp ELSE NoBlock
    BY DEF MissFull
  <1>2. ~CP!Warm /\ CP!Missed(b) /\ Stamps(b, HashedOut(b))
    BY SameWarm, SameMissed DEF MissFull
  <1>3. PICK s : s = CP!GhostTaken(b)
    OBVIOUS
  <1>4. s = Cache!GhostTaken(b) /\ v \in CP!Victims(s, p) /\ Cache!Replaces(b, s, v)
    BY <1>1, <1>3, SameGhostTaken, SameVictims
  <1>5. CP!Good(s) /\ b \notin CP!RealPart(CP!Bufs)
    <2>1. PICK x : x = CP!Bufs
      OBVIOUS
    <2>2. CP!Good(x)
      BY <2>1, RealOrGhost
    <2>3. b \notin CP!RealPart(x)
      <3>1. b \notin CP!BlocksIn(0..CP!LastSeg) /\ b \notin loopQ
        BY <1>2 DEF CP!Missed
      <3>2. CP!Real = CP!RealPart(x)
        BY <2>1, RealOrGhost
      <3>. QED
        BY <3>1, <3>2 DEF CP!Real
    <2>4. CP!Fine(s)
      BY <1>3, <2>1, <2>3, CacheAssumed, CP!GhostTakenLeaves
    <2>. QED
      BY <2>1, <2>3, <2>4 DEF CP!Fine
  <1>6. v.pattern \in {p, "SEQ"} /\ v.pattern \in CP!Patterns
    <2>1. v.pattern \in {p, "SEQ"}
      BY <1>4, <1>5, CacheAssumed, CP!VictimsWhere
    <2>. QED
      BY <2>1 DEF CP!Patterns
  <1>7. CP!Replaces(b, s, v)
    BY <1>4, <1>6, SameReplaces
  <1>8. /\ CP!ReplaceAs(b, v.pattern, v.bufp, CP!GhostPart(s))
        /\ v.where = CP!LOOPQUEUE <=> v.bufp \in loopQ
    BY <1>2, <1>3, <1>4, <1>7, CacheAssumed, CP!ReplacesKeep
  <1>9. CP!LOOPQUEUE = Cache!LOOPQUEUE
    BY DEF CP!LOOPQUEUE, Cache!LOOPQUEUE, CP!MAXLRU, Cache!MAXLRU, CP!REALLRU, Cache!REALLRU
  <1>10. v.bufp \in CP!RealPart(CP!Bufs)
    BY <1>8 DEF CP!ReplaceAs, CP!Replaced
  <1>11. Moves(b, v.pattern, v.bufp, HashedOut(b))
    BY <1>2, <1>6, <1>8, ReplaceMoves
  <1>12. CP!Next
    BY <1>2, <1>3, <1>4, <1>7 DEF CP!Next, CP!MissFull
  <1>. QED
    BY <1>1, <1>5, <1>6, <1>8, <1>9, <1>10, <1>11, <1>12 DEF Takes

----------------------------------------------------------------------------
(* The inductive invariant.  The stamps are of the past, and no two blocks *)
(* were referenced at the same time, so that the order of the lists can be *)
(* the order of the stamps and the queue has one least valuable block.     *)
Stamp == [lastRefTime : 1..curVtime, lastIRG : 0..curVtime]

Stamped ==
    /\ DOMAIN buf = CP!RealPart(CP!Bufs) \cup CP!GhostPart(CP!Bufs)
    /\ \A b \in DOMAIN buf : buf[b] \in Stamp
    /\ \A b, c \in DOMAIN buf : buf[b].lastRefTime = buf[c].lastRefTime => b = c

(* LruIsRecency, of the pairs of blocks. *)
RecentFirst ==
    \A pr \in CP!Order(lrulist) \cup CP!SeqOrder(lrulist) :
        buf[pr[1]].lastRefTime > buf[pr[2]].lastRefTime

Read ==
    /\ trace \in Seq(Reference) /\ done \in BOOLEAN /\ (done => trace = <<>>)
    /\ curVtime \in 0..MaxTime

Parts == CP!IInv /\ DP!IInv /\ DP!PeriodsPast

RunInv == Parts /\ Read /\ Stamped /\ RecentFirst /\ PeriodsMeasured

(* A turn of main's loop, with what is known of its parts before and       *)
(* after.                                                                  *)
Turn(b, p) ==
    /\ b \in Blocks /\ p \in CP!Patterns /\ p = ref'.verdict
    /\ HitList(b, p) \/ HitQueue(b, p) \/ MissWarm(b, p) \/ MissFull(b, p)
    /\ CountSegment(b)
    /\ curVtime' = Now /\ Now \in 0..MaxTime
    /\ CP!Next /\ Parts'

(* What the detector is asked is within its model: the time since a        *)
(* reference of the past.                                                  *)
LEMMA DetectorAnswers ==
    ASSUME DP!IInv, DP!PeriodsPast, NEW r \in Reference, NEW irg \in 0..MaxTime,
           DP!Detect(r.vnode, r.pblkno, irg)
    PROVE  /\ DP!IInv' /\ DP!PeriodsPast'
           /\ curVtime' = Now /\ curVtime < MaxTime
           /\ ref'.verdict \in CP!Patterns
  <1>1. r.vnode \in Vnodes /\ r.pblkno \in DP!Pblknos /\ irg \in 1..MaxTime \cup {0}
    BY DEF Reference, DP!Pblknos
  <1>2. DP!Next
    BY <1>1, Zenon DEF DP!Next
  <1>3. DP!IInv' /\ DP!PeriodsPast'
    BY <1>2, DetectorAssumed, DP!NextIInv, DP!PeriodsPastStep
  <1>4. curVtime' = Now /\ curVtime < MaxTime
    BY DEF DP!Detect, DP!GrowOthers, DP!TurnSeq, DP!GrowSeq, DP!StartLoop, DP!FollowLoop,
           DP!Forget, DP!Begin, DP!Referable, DP!Refer, DP!Now, Now
  <1>5. DP!TypeOK'
    BY <1>3, DetectorAssumed, DP!IInvImplies, PTL
  <1>6. ref'.verdict \in CP!Patterns
    BY <1>5 DEF DP!TypeOK, DP!Patterns, CP!Patterns
  <1>. QED
    BY <1>3, <1>4, <1>6

LEMMA ReferIsTurn ==
    ASSUME RunInv, Refer
    PROVE  /\ trace # <<>> /\ trace' = Tail(trace) /\ UNCHANGED done
           /\ \E b, p : Turn(b, p)
  <1>1. /\ trace \in Seq(Reference) /\ curVtime \in 0..MaxTime /\ MaxTime \in Nat
        /\ CP!IInv /\ DP!IInv /\ DP!PeriodsPast /\ Stamped
    BY RunAssumption DEF RunInv, Read, Parts
  <1>2. /\ trace # <<>> /\ trace' = Tail(trace) /\ UNCHANGED done
        /\ \E r \in {Head(trace)} :
              /\ Detector!Detect(r.vnode, r.pblkno, KnownIRG(r.blkno))
              /\ \E p \in {ref'.verdict} :
                    HitList(r.blkno, p) \/ HitQueue(r.blkno, p)
                    \/ MissWarm(r.blkno, p) \/ MissFull(r.blkno, p)
              /\ CountSegment(r.blkno)
    BY DEF Refer
  <1>3. PICK r \in Reference :
           /\ Detector!Detect(r.vnode, r.pblkno, KnownIRG(r.blkno))
           /\ \E p \in {ref'.verdict} :
                 HitList(r.blkno, p) \/ HitQueue(r.blkno, p)
                 \/ MissWarm(r.blkno, p) \/ MissFull(r.blkno, p)
           /\ CountSegment(r.blkno)
    BY <1>1, <1>2
  <1>4. PICK b \in Blocks : b = r.blkno
    BY DEF Reference
  <1>5. PICK p : p = ref'.verdict
    OBVIOUS
  <1>6. /\ HitList(b, p) \/ HitQueue(b, p) \/ MissWarm(b, p) \/ MissFull(b, p)
        /\ CountSegment(b)
    BY <1>3, <1>4, <1>5
  <1>7. PICK irg : irg = KnownIRG(b)
    OBVIOUS
  <1>8. irg \in 0..MaxTime
    BY <1>1, <1>7 DEF KnownIRG, Stamped, Stamp, Now
  <1>9. DP!Detect(r.vnode, r.pblkno, irg)
    BY <1>3, <1>4, <1>7, SameDetect
  <1>10. /\ DP!IInv' /\ DP!PeriodsPast' /\ curVtime' = Now /\ curVtime < MaxTime
         /\ ref'.verdict \in CP!Patterns
    BY <1>1, <1>8, <1>9, DetectorAnswers
  <1>11. CP!Next
    <2>1. \E v : MissFull(b, p) => CP!Next
      BY <1>1, <1>5, <1>10, MissFullMoves
    <2>. QED
      BY <1>1, <1>5, <1>6, <1>10, <2>1, HitListMoves, HitQueueMoves, MissWarmMoves
  <1>12. CP!IInv'
    BY <1>1, <1>11, CacheAssumed, CP!IInvStep
  <1>13. Now \in 0..MaxTime
    BY <1>1, <1>10 DEF Now
  <1>14. Turn(b, p)
    BY <1>5, <1>6, <1>10, <1>11, <1>12, <1>13 DEF Turn, Parts
  <1>. QED
    BY <1>2, <1>14

(* What a turn does to the buffers.                                        *)
LEMMA TurnMoves ==
    ASSUME RunInv, NEW b, NEW p, Turn(b, p)
    PROVE  \E q \in CP!Patterns : \E v, G : Moves(b, q, v, G) /\ (q = "LOOP" => p = "LOOP")
  <1>1. CP!IInv /\ b \in Blocks /\ p \in CP!Patterns
    BY DEF RunInv, Parts, Turn
  <1>2. CASE HitList(b, p)
    BY <1>1, <1>2, HitListMoves
  <1>3. CASE HitQueue(b, p)
    <2>1. Moves(b, IF p = "LOOP" THEN "LOOP" ELSE "OTHERS", b, {})
      BY <1>1, <1>3, HitQueueMoves
    <2>. QED
      BY <2>1 DEF CP!Patterns
  <1>4. CASE MissWarm(b, p)
    <2>1. Moves(b, IF p = "OTHERS" THEN "OTHERS" ELSE "SEQ", b, {})
      BY <1>1, <1>4, MissWarmMoves
    <2>. QED
      BY <2>1 DEF CP!Patterns
  <1>5. CASE MissFull(b, p)
    <2>1. PICK v : Takes(b, p, v)
      BY <1>1, <1>5, MissFullMoves
    <2>2. /\ Moves(b, v.pattern, v.bufp, HashedOut(b))
          /\ v.pattern \in CP!Patterns /\ v.pattern \in {p, "SEQ"}
      BY <2>1 DEF Takes
    <2>. QED
      BY <2>2
  <1>. QED
    BY <1>2, <1>3, <1>4, <1>5 DEF Turn

(* What a turn does to the stamps: the block referenced has the present    *)
(* one, the others keep theirs, but for the periods the queue ages.        *)
LEMMA StampsAfter ==
    ASSUME RunInv, NEW b, NEW p, Turn(b, p), NEW q, NEW v, NEW G, Moves(b, q, v, G)
    PROVE  /\ DOMAIN buf' = (DOMAIN buf \ G) \cup {b}
           /\ DOMAIN buf' = CP!RealPart(CP!Bufs)' \cup CP!GhostPart(CP!Bufs)'
           /\ buf'[b] = NewStamp(b) /\ ref'.irg \in 0..Now
           /\ \A x \in DOMAIN buf' \ {b} :
                 /\ x \in DOMAIN buf /\ buf'[x].lastRefTime = buf[x].lastRefTime
                 /\ buf'[x].lastIRG \in {buf[x].lastIRG, Now - buf[x].lastRefTime}
           /\ \A x \in DOMAIN buf' : buf'[x] \in [lastRefTime : 1..Now, lastIRG : 0..Now]
  <1>1. /\ curVtime \in Nat /\ Now \in Nat /\ Now = curVtime + 1
        /\ \A x \in DOMAIN buf : buf[x] \in [lastRefTime : 1..curVtime, lastIRG : 0..curVtime]
        /\ DOMAIN buf = CP!RealPart(CP!Bufs) \cup CP!GhostPart(CP!Bufs)
    BY DEF RunInv, Read, Stamped, Stamp, Now
  <1>2. ref'.irg \in 0..Now
    <2>1. DP!TypeOK' /\ DP!PeriodsPast' /\ curVtime' = Now
      BY DEF Turn, Parts, DP!IInv
    <2>2. ref'.irg \in Nat
      BY <2>1 DEF DP!TypeOK
    <2>3. ref'.irg <= Now
      BY <2>1 DEF DP!PeriodsPast
    <2>. QED
      BY <1>1, <2>2, <2>3
  <1>3. buf' = [x \in (DOMAIN buf \ G) \cup {b} |->
                   AgedStamp(IF x = b THEN NewStamp(b) ELSE buf[x], x)]
    BY DEF Moves, Stamps
  <1>4. \A s, x : AgedStamp(s, x) \in {s, [s EXCEPT !.lastIRG = Now - s.lastRefTime]}
    BY Zenon DEF AgedStamp
  <1>5. NewStamp(b) \in [lastRefTime : 1..Now, lastIRG : 0..Now]
    BY <1>1, <1>2 DEF NewStamp
  <1>6. AgedStamp(NewStamp(b), b) = NewStamp(b)
    <2>1. Now + 3 * ref'.irg >= Now
      BY <1>1, <1>2
    <2>2. ~Queue!Expired(NewStamp(b))
      BY <1>1, <1>2, <2>1 DEF Queue!Expired, Queue!Now, NewStamp, Now
    <2>. QED
      BY <2>2, Zenon DEF AgedStamp
  <1>7. b \in DOMAIN buf' /\ DOMAIN buf' = (DOMAIN buf \ G) \cup {b}
    BY <1>3
  <1>8. buf'[b] = NewStamp(b)
    BY <1>3, <1>6
  <1>9. ASSUME NEW x \in DOMAIN buf', x # b
        PROVE  /\ x \in DOMAIN buf /\ buf'[x].lastRefTime = buf[x].lastRefTime
               /\ buf'[x].lastIRG \in {buf[x].lastIRG, Now - buf[x].lastRefTime}
               /\ buf'[x] \in [lastRefTime : 1..Now, lastIRG : 0..Now]
    <2>1. x \in DOMAIN buf /\ buf'[x] = AgedStamp(buf[x], x)
      BY <1>3, <1>7, <1>9
    <2>2. buf[x] \in [lastRefTime : 1..curVtime, lastIRG : 0..curVtime]
      BY <1>1, <2>1
    <2>3. buf'[x] \in {buf[x], [buf[x] EXCEPT !.lastIRG = Now - buf[x].lastRefTime]}
      BY <1>4, <2>1
    <2>. QED
      BY <1>1, <2>1, <2>2, <2>3
  <1>10. DOMAIN buf' = CP!RealPart(CP!Bufs)' \cup CP!GhostPart(CP!Bufs)'
    BY <1>1, <1>7 DEF Moves
  <1>. QED
    BY <1>2, <1>5, <1>7, <1>8, <1>9, <1>10

LEMMA StampedStep ==
    ASSUME RunInv, NEW b, NEW p, Turn(b, p)
    PROVE  Stamped'
  <1>1. PICK q \in CP!Patterns : \E v, G : Moves(b, q, v, G)
    BY TurnMoves
  <1>2. PICK v, G : Moves(b, q, v, G)
    BY <1>1
  <1>3. /\ DOMAIN buf' = (DOMAIN buf \ G) \cup {b}
        /\ DOMAIN buf' = CP!RealPart(CP!Bufs)' \cup CP!GhostPart(CP!Bufs)'
        /\ buf'[b] = NewStamp(b)
        /\ \A x \in DOMAIN buf' \ {b} :
              x \in DOMAIN buf /\ buf'[x].lastRefTime = buf[x].lastRefTime
        /\ \A x \in DOMAIN buf' : buf'[x] \in [lastRefTime : 1..Now, lastIRG : 0..Now]
    BY <1>2, StampsAfter
  <1>4. curVtime' = Now /\ curVtime \in Nat /\ Now = curVtime + 1
    BY DEF Turn, RunInv, Read, Now
  <1>5. \A x \in DOMAIN buf' \ {b} : buf'[x].lastRefTime <= curVtime /\ buf'[x].lastRefTime \in Nat
    BY <1>3, <1>4 DEF RunInv, Stamped, Stamp
  <1>6. buf'[b].lastRefTime = Now
    BY <1>3 DEF NewStamp
  <1>7. \A x, y \in DOMAIN buf' : buf'[x].lastRefTime = buf'[y].lastRefTime => x = y
    <2>. SUFFICES ASSUME NEW x \in DOMAIN buf', NEW y \in DOMAIN buf',
                         buf'[x].lastRefTime = buf'[y].lastRefTime, x # y
                  PROVE  FALSE
      OBVIOUS
    <2>1. x # b /\ y # b
      BY <1>4, <1>5, <1>6
    <2>2. /\ x \in DOMAIN buf /\ y \in DOMAIN buf
          /\ buf[x].lastRefTime = buf[y].lastRefTime
      BY <1>3, <2>1
    <2>. QED
      BY <2>2 DEF RunInv, Stamped
  <1>. QED
    BY <1>3, <1>4, <1>7 DEF Stamped, Stamp

(* The order of the lists is that of the stamps: a pair of the order is    *)
(* one there was, or has the block referenced in front.                    *)
LEMMA RecentStep ==
    ASSUME RunInv, NEW b, NEW p, Turn(b, p)
    PROVE  RecentFirst'
  <1>1. PICK q \in CP!Patterns : \E v, G : Moves(b, q, v, G)
    BY TurnMoves
  <1>2. PICK v, G : Moves(b, q, v, G)
    BY <1>1
  <1>3. PICK x : x = CP!Bufs
    OBVIOUS
  <1>4. /\ CP!Order(lrulist)' = CP!Order(CP!Bufs'.list) /\ CP!SeqOrder(lrulist)' = CP!SeqOrder(CP!Bufs'.list)
        /\ CP!Order(lrulist) = CP!Order(x.list) /\ CP!SeqOrder(lrulist) = CP!SeqOrder(x.list)
    <2>1. x.list = lrulist /\ CP!Bufs'.list = lrulist'
      BY <1>3 DEF CP!Bufs
    <2>. QED
      BY <2>1, Zenon
  <1>5. /\ CP!Order(CP!Bufs'.list) \subseteq
             CP!Without(CP!Order(x.list), {v}) \cup ({b} \X (CP!OthPart(x) \ {v}))
        /\ CP!SeqOrder(CP!Bufs'.list) \subseteq
             CP!Without(CP!SeqOrder(x.list), {v}) \cup ({b} \X (CP!SeqPart(x) \ {v}))
    <2>1. CP!Referred(x, CP!Bufs', q, b, v)
      BY <1>2, <1>3 DEF Moves
    <2>. QED
      BY <2>1 DEF CP!Referred
  <1>6. /\ CP!Order(x.list) \subseteq CP!OthPart(x) \X CP!OthPart(x)
        /\ CP!SeqOrder(x.list) \subseteq CP!SeqPart(x) \X CP!SeqPart(x)
    <2>1. CP!Good(x)
      BY <1>3, RealOrGhost DEF RunInv, Parts
    <2>2. CP!Order(x.list) \subseteq CP!OthPart(x) \X CP!OthPart(x)
      BY <2>1, CacheAssumed, CP!Partitions
    <2>. QED
      BY <2>2 DEF CP!SeqOrder, CP!Ranked, CP!SeqPart
  <1>7. /\ CP!OthPart(x) \subseteq CP!RealPart(x) /\ CP!SeqPart(x) \subseteq CP!RealPart(x)
        /\ v = b \/ b \notin CP!RealPart(x)
        /\ CP!RealPart(x) \cap G = {} /\ CP!RealPart(x) \subseteq DOMAIN buf
    <2>1. /\ v = b \/ b \notin CP!RealPart(x)
          /\ G \subseteq CP!GhostPart(x)
      BY <1>2, <1>3 DEF Moves
    <2>2. CP!RealPart(x) \cap CP!GhostPart(x) = {}
      BY <1>3, RealOrGhost DEF RunInv, Parts
    <2>3. DOMAIN buf = CP!RealPart(x) \cup CP!GhostPart(x)
      BY <1>3 DEF RunInv, Stamped
    <2>. QED
      BY <2>1, <2>2, <2>3 DEF CP!RealPart
  <1>8. /\ DOMAIN buf' = (DOMAIN buf \ G) \cup {b}
        /\ buf'[b].lastRefTime = Now
        /\ \A y \in DOMAIN buf' \ {b} : buf'[y].lastRefTime = buf[y].lastRefTime
    <2>1. buf'[b] = NewStamp(b)
      BY <1>2, StampsAfter
    <2>2. buf'[b].lastRefTime = Now
      BY <2>1 DEF NewStamp
    <2>. QED
      BY <1>2, <2>2, StampsAfter
  <1>9. \A y \in CP!RealPart(x) \ {v} : buf'[y].lastRefTime = buf[y].lastRefTime /\ y # b
    BY <1>7, <1>8
  <1>10. \A y \in CP!RealPart(x) \ {v} : buf'[b].lastRefTime > buf'[y].lastRefTime
    <2>1. \A y \in CP!RealPart(x) : buf[y].lastRefTime \in 1..curVtime
      BY <1>7 DEF RunInv, Stamped, Stamp
    <2>2. curVtime \in Nat /\ Now = curVtime + 1
      BY DEF RunInv, Read, Now
    <2>. QED
      BY <1>8, <1>9, <2>1, <2>2
  <1>11. ASSUME NEW pr \in CP!Order(lrulist)' \cup CP!SeqOrder(lrulist)'
         PROVE  buf'[pr[1]].lastRefTime > buf'[pr[2]].lastRefTime
    <2>1. \/ /\ pr \in CP!Order(x.list) \cup CP!SeqOrder(x.list) /\ pr[1] # v /\ pr[2] # v
             /\ pr[1] \in CP!RealPart(x) /\ pr[2] \in CP!RealPart(x)
          \/ pr[1] = b /\ pr[2] \in CP!RealPart(x) \ {v}
      BY <1>4, <1>5, <1>6, <1>7, <1>11 DEF CP!Without
    <2>2. CASE pr[1] = b /\ pr[2] \in CP!RealPart(x) \ {v}
      BY <2>2, <1>10
    <2>3. CASE /\ pr \in CP!Order(x.list) \cup CP!SeqOrder(x.list) /\ pr[1] # v /\ pr[2] # v
               /\ pr[1] \in CP!RealPart(x) /\ pr[2] \in CP!RealPart(x)
      <3>1. buf[pr[1]].lastRefTime > buf[pr[2]].lastRefTime
        BY <2>3, <1>4 DEF RunInv, RecentFirst
      <3>. QED
        BY <2>3, <3>1, <1>9
    <2>. QED
      BY <2>1, <2>2, <2>3
  <1>. QED
    BY <1>11 DEF RecentFirst

(* A block comes into the queue with the detector's period, which is not   *)
(* 0, or was there.                                                        *)
LEMMA PeriodsStep ==
    ASSUME RunInv, NEW b, NEW p, Turn(b, p)
    PROVE  PeriodsMeasured'
  <1>1. PICK q \in CP!Patterns : \E v, G : Moves(b, q, v, G) /\ (q = "LOOP" => p = "LOOP")
    BY TurnMoves
  <1>2. PICK v, G : Moves(b, q, v, G) /\ (q = "LOOP" => p = "LOOP")
    BY <1>1
  <1>3. PICK x : x = CP!Bufs
    OBVIOUS
  <1>4. loopQ' \subseteq (loopQ \ {v}) \cup {b} /\ (b \in loopQ' => q = "LOOP")
    <2>1. CP!Referred(x, CP!Bufs', q, b, v)
      BY <1>2, <1>3 DEF Moves
    <2>2. CP!Bufs'.loop = CP!With(x.loop \ {v}, q = "LOOP", b)
      BY <2>1 DEF CP!Referred
    <2>3. CP!Bufs'.loop = loopQ' /\ x.loop = loopQ
      BY <1>3 DEF CP!Bufs
    <2>4. v = b \/ b \notin x.loop
      BY <1>2, <1>3 DEF Moves, CP!RealPart
    <2>. QED
      BY <2>2, <2>3, <2>4 DEF CP!With
  <1>5. curVtime' = Now /\ curVtime \in Nat /\ Now = curVtime + 1
    BY DEF Turn, RunInv, Read, Now
  <1>6. ASSUME b \in loopQ' PROVE buf'[b].lastIRG \in 1..Now
    <2>1. ref'.verdict = "LOOP"
      BY <1>2, <1>4, <1>6 DEF Turn
    <2>2. ref'.irg > 0
      BY <2>1 DEF Turn, Parts, DP!IInv
    <2>3. buf'[b] = NewStamp(b) /\ ref'.irg \in 0..Now
      BY <1>2, StampsAfter
    <2>. QED
      BY <1>5, <2>2, <2>3 DEF NewStamp
  <1>7. ASSUME NEW y \in loopQ', y # b PROVE buf'[y].lastIRG \in 1..Now
    <2>1. y \in loopQ
      BY <1>4, <1>7
    <2>2. y \in CP!RealPart(CP!Bufs)'
      BY DEF CP!RealPart, CP!Bufs
    <2>3. /\ y \in DOMAIN buf' /\ y \in DOMAIN buf
          /\ buf'[y].lastIRG \in {buf[y].lastIRG, Now - buf[y].lastRefTime}
      <3>1. DOMAIN buf' = CP!RealPart(CP!Bufs)' \cup CP!GhostPart(CP!Bufs)'
        BY <1>2, StampsAfter
      <3>2. y \in DOMAIN buf' \ {b}
        BY <1>7, <2>2, <3>1
      <3>. QED
        BY <1>2, <3>2, StampsAfter
    <2>4. buf[y].lastIRG \in 1..curVtime /\ buf[y].lastRefTime \in 1..curVtime
      BY <2>1, <2>3 DEF RunInv, PeriodsMeasured, Stamped, Stamp
    <2>. QED
      BY <1>5, <2>3, <2>4
  <1>. QED
    BY <1>5, <1>6, <1>7 DEF PeriodsMeasured

LEMMA RunInit == Init => RunInv
  <1> SUFFICES ASSUME Init PROVE RunInv
    OBVIOUS
  <1>1. CP!Init /\ DP!Init
    BY SameInit, SameDetectorInit DEF Init
  <1>2. CP!IInv /\ DP!IInv
    BY <1>1, CacheAssumed, DetectorAssumed, CP!IInvInit, DP!InitIInv
  <1>3. DP!PeriodsPast
    BY <1>1 DEF DP!Init, DP!PeriodsPast, DP!FreeUnit
  <1>4. Read
    <2>1. trace \in Traces /\ done = FALSE /\ curVtime = 0
      BY <1>1 DEF Init, DP!Init
    <2>2. trace \in Seq(Reference) /\ 0 \in 0..MaxTime
      BY <2>1, RunAssumption
    <2>. QED
      BY <2>1, <2>2 DEF Read
  <1>5. /\ CP!RealPart(CP!Bufs) = {} /\ CP!GhostPart(CP!Bufs) = {}
        /\ CP!SeqPart(CP!Bufs) = {} /\ CP!OthPart(CP!Bufs) = {} /\ CP!Bufs.loop = {}
    BY <1>1, CacheAssumed, CP!EmptyLists
  <1>6. DOMAIN buf = {}
    BY DEF Init
  <1>7. Stamped
    BY <1>5, <1>6 DEF Stamped
  <1>8. loopQ = {} /\ CP!Bufs.list = lrulist
    BY <1>1 DEF CP!Init, CP!Bufs
  <1>9. CP!Order(lrulist) = {} /\ CP!SeqOrder(lrulist) = {}
    BY <1>5, <1>8 DEF CP!Order, CP!SeqOrder, CP!Ranked, CP!SeqPart, CP!OthPart
  <1>. QED
    BY <1>2, <1>3, <1>4, <1>7, <1>8, <1>9 DEF RunInv, Parts, RecentFirst, PeriodsMeasured

(* Time passes, and the buffers stand as they are. *)
LEMMA BuffersStand ==
    ASSUME RunInv, CP!Bufs' = CP!Bufs, UNCHANGED <<lrulist, loopQ, buf>>,
           curVtime' \in {curVtime, Now}
    PROVE  Stamped' /\ RecentFirst' /\ PeriodsMeasured'
  <1>1. curVtime \in Nat /\ curVtime' \in Nat /\ curVtime' >= curVtime
    BY DEF RunInv, Read, Now
  <1>2. Stamped'
    <2>1. CP!RealPart(CP!Bufs)' = CP!RealPart(CP!Bufs) /\ CP!GhostPart(CP!Bufs)' = CP!GhostPart(CP!Bufs)
      OBVIOUS
    <2>2. \A x \in Stamp : x \in Stamp'
      BY <1>1 DEF Stamp
    <2>. QED
      BY <2>1, <2>2 DEF RunInv, Stamped
  <1>3. RecentFirst'
    <2>1. CP!Order(lrulist)' = CP!Order(lrulist) /\ CP!SeqOrder(lrulist)' = CP!SeqOrder(lrulist)
      OBVIOUS
    <2>. QED
      BY <2>1 DEF RunInv, RecentFirst
  <1>4. PeriodsMeasured'
    BY <1>1 DEF RunInv, PeriodsMeasured
  <1>. QED
    BY <1>2, <1>3, <1>4

(* A step that leaves the parts alone. *)
LEMMA RunStutters ==
    ASSUME RunInv, UNCHANGED <<trace, detectVars, cacheVars, buf>>,
           done' \in BOOLEAN, done' => trace = <<>>
    PROVE  RunInv'
  <1>1. UNCHANGED CP!vars /\ UNCHANGED DP!vars
    BY DEF cacheVars, detectVars, CP!vars, DP!vars
  <1>2. CP!IInv' /\ DP!IInv' /\ DP!PeriodsPast'
    BY <1>1, CacheAssumed, DetectorAssumed, CP!IInvStep, DP!NextIInv, DP!PeriodsPastStep
       DEF RunInv, Parts
  <1>3. CP!Bufs' = CP!Bufs /\ UNCHANGED <<lrulist, loopQ, curVtime, buf, trace>>
    BY DEF cacheVars, detectVars, CP!Bufs
  <1>4. Stamped' /\ RecentFirst' /\ PeriodsMeasured'
    BY <1>3, BuffersStand
  <1>5. Read'
    BY <1>3 DEF RunInv, Read
  <1>. QED
    BY <1>2, <1>4, <1>5 DEF RunInv, Parts

(* The turn the process dies in changes no buffer, and was of a block that *)
(* came to an empty queue.                                                 *)
LEMMA DiesStays ==
    ASSUME RunInv, Dies
    PROVE  /\ CP!Stays /\ loopQ = {} /\ UNCHANGED buf
           /\ Parts' /\ curVtime' = Now /\ curVtime < MaxTime
           /\ trace # <<>> /\ trace' = Tail(trace) /\ UNCHANGED done
           /\ \E b : rLRUsegHitRatios' =
                       [i \in Segs |-> rLRUsegHitRatios[i] + IF i \in SegmentHit(b) THEN 1 ELSE 0]
  <1>1. /\ trace \in Seq(Reference) /\ curVtime \in 0..MaxTime /\ MaxTime \in Nat
        /\ CP!IInv /\ DP!IInv /\ DP!PeriodsPast /\ Stamped
    BY RunAssumption DEF RunInv, Read, Parts
  <1>2. /\ trace # <<>> /\ trace' = Tail(trace) /\ UNCHANGED <<done, buf>>
        /\ \E r \in {Head(trace)} :
              /\ Detector!Detect(r.vnode, r.pblkno, KnownIRG(r.blkno))
              /\ Cache!MissDies(r.blkno, ref'.verdict)
              /\ rLRUsegHitRatios' =
                    [i \in Segs |-> rLRUsegHitRatios[i] + IF i \in SegmentHit(r.blkno) THEN 1 ELSE 0]
    BY DEF Dies
  <1>3. PICK r \in Reference :
           /\ Detector!Detect(r.vnode, r.pblkno, KnownIRG(r.blkno))
           /\ Cache!MissDies(r.blkno, ref'.verdict)
           /\ rLRUsegHitRatios' =
                 [i \in Segs |-> rLRUsegHitRatios[i] + IF i \in SegmentHit(r.blkno) THEN 1 ELSE 0]
    BY <1>1, <1>2
  <1>4. PICK b \in Blocks : b = r.blkno
    BY DEF Reference
  <1>5. PICK irg : irg = KnownIRG(b)
    OBVIOUS
  <1>6. irg \in 0..MaxTime
    BY <1>1, <1>5 DEF KnownIRG, Stamped, Stamp, Now
  <1>7. DP!Detect(r.vnode, r.pblkno, irg)
    BY <1>3, <1>4, <1>5, SameDetect
  <1>8. /\ DP!IInv' /\ DP!PeriodsPast' /\ curVtime' = Now /\ curVtime < MaxTime
        /\ ref'.verdict \in CP!Patterns
    BY <1>1, <1>6, <1>7, DetectorAnswers
  <1>9. CP!MissDies(b, ref'.verdict)
    BY <1>3, <1>4, SameMissDies
  <1>10. CP!Stays /\ CP!NoneToPrefer
    BY <1>1, <1>8, <1>9, CacheAssumed, CP!MissDiesStays
  <1>11. CP!IInv'
    <2>1. CP!Next
      BY <1>4, <1>8, <1>9, Zenon DEF CP!Next
    <2>. QED
      BY <1>1, <2>1, CacheAssumed, CP!IInvStep
  <1>12. loopQ = {}
    BY <1>10 DEF CP!NoneToPrefer
  <1>. QED
    BY <1>2, <1>3, <1>8, <1>10, <1>11, <1>12 DEF Parts

LEMMA DiesKeeps ==
    ASSUME RunInv, Dies
    PROVE  RunInv'
  <1>1. /\ CP!Stays /\ UNCHANGED <<buf, done>> /\ Parts' /\ curVtime' = Now
        /\ curVtime < MaxTime /\ trace # <<>> /\ trace' = Tail(trace)
    BY DiesStays
  <1>2. CP!Bufs' = CP!Bufs /\ UNCHANGED <<lrulist, loopQ>>
    BY <1>1 DEF CP!Stays, CP!Bufs
  <1>3. Stamped' /\ RecentFirst' /\ PeriodsMeasured'
    BY <1>1, <1>2, BuffersStand
  <1>4. Read'
    <2>1. trace' \in Seq(Reference) /\ done' = FALSE
      BY <1>1 DEF RunInv, Read
    <2>2. curVtime' \in 0..MaxTime
      BY <1>1, RunAssumption DEF RunInv, Read, Now
    <2>. QED
      BY <2>1, <2>2 DEF Read
  <1>. QED
    BY <1>1, <1>3, <1>4 DEF RunInv

LEMMA RunStep == RunInv /\ [Next]_vars => RunInv'
  <1> SUFFICES ASSUME RunInv, [Next]_vars PROVE RunInv'
    OBVIOUS
  <1>1. CASE Refer
    <2>1. /\ trace # <<>> /\ trace' = Tail(trace) /\ UNCHANGED done
          /\ \E b, p : Turn(b, p)
      BY <1>1, ReferIsTurn
    <2>2. PICK b, p : Turn(b, p)
      BY <2>1
    <2>3. Stamped' /\ RecentFirst' /\ PeriodsMeasured' /\ Parts'
      BY <2>2, StampedStep, RecentStep, PeriodsStep DEF Turn
    <2>4. Read'
      <3>1. trace' \in Seq(Reference) /\ ~done
        BY <2>1 DEF RunInv, Read
      <3>. QED
        BY <2>1, <2>2, <3>1 DEF RunInv, Read, Turn
    <2>. QED
      BY <2>3, <2>4 DEF RunInv
  <1>2. CASE EndOfTrace
    BY <1>2, RunStutters DEF EndOfTrace
  <1>3. CASE UNCHANGED vars
    BY <1>3, RunStutters DEF vars, RunInv, Read
  <1>4. CASE Dies
    BY <1>4, DiesKeeps
  <1>. QED
    BY <1>1, <1>2, <1>3, <1>4 DEF Next, Ended

LEMMA RunInvariance == Spec => []RunInv
  BY RunInit, RunStep, PTL DEF Spec

(* A block in the queue has a period that was measured in this run: what   *)
(* deallocator divides by is not 0, and no longer than the run.            *)
THEOREM QueuedPeriods == Spec => []PeriodsMeasured
  <1>1. RunInv => PeriodsMeasured
    BY DEF RunInv
  <1>. QED
    BY <1>1, RunInvariance, PTL

(* The lists are in the order of the last references. *)
LEMMA RecentIsOrdered ==
    ASSUME RunInv
    PROVE  LruIsRecency
  <1>1. lrulist \in CP!ListsType
    <2>1. PICK x : x = CP!Bufs
      OBVIOUS
    <2>2. CP!Good(x) /\ x.list = lrulist
      BY <2>1, RealOrGhost DEF RunInv, Parts, CP!Bufs
    <2>. QED
      BY <2>2, CacheAssumed, CP!GoodType
  <1>2. ASSUME NEW S \in SUBSET CP!Lists, \A pr \in CP!Ranked(lrulist, S) :
                  buf[pr[1]].lastRefTime > buf[pr[2]].lastRefTime
        PROVE  InRecencyOrder(S)
    <2>. SUFFICES ASSUME NEW t \in S, NEW u \in S,
                         NEW i \in 1..Len(lrulist[t]), NEW j \in 1..Len(lrulist[u]),
                         t < u \/ (t = u /\ i < j)
                  PROVE  buf[lrulist[t][i]].lastRefTime > buf[lrulist[u][j]].lastRefTime
      BY DEF InRecencyOrder
    <2>1. /\ <<t, i>> \in CP!Places(lrulist) /\ CP!At(lrulist, <<t, i>>) = lrulist[t][i]
          /\ <<u, j>> \in CP!Places(lrulist) /\ CP!At(lrulist, <<u, j>>) = lrulist[u][j]
      BY <1>1, CacheAssumed, CP!PlaceIntro
    <2>2. CP!Lex(<<t, i>>, <<u, j>>)
      BY DEF CP!Lex
    <2>3. <<lrulist[t][i], lrulist[u][j]>> \in CP!Ranked(lrulist, S)
      <3>1. lrulist[t][i] \in CP!Held(lrulist, S) /\ lrulist[u][j] \in CP!Held(lrulist, S)
        BY <2>1 DEF CP!Held
      <3>. QED
        BY <2>1, <2>2, <3>1 DEF CP!Ranked
    <2>. QED
      BY <1>2, <2>3
  <1>3. InRecencyOrder({Cache!SEQMRU, Cache!FREEMRU})
    <2>1. {Cache!SEQMRU, Cache!FREEMRU} = CP!SeqLists /\ CP!SeqLists \subseteq CP!Lists
      BY DEF CP!SeqLists, CP!Lists, CP!SEQMRU, CP!FREEMRU, Cache!SEQMRU, Cache!FREEMRU,
             CP!MAXLRU, CP!REALLRU
    <2>. QED
      BY <1>2, <2>1 DEF RunInv, RecentFirst, CP!SeqOrder
  <1>4. InRecencyOrder(Cache!Segments)
    <2>1. Cache!Segments = CP!Segments /\ CP!Segments \subseteq CP!Lists
      BY DEF Cache!Segments, CP!Segments, CP!Lists, Cache!OTHLRU0, CP!OTHLRU0,
             CP!MAXLRU, CP!REALLRU, Cache!REALLRU
    <2>. QED
      BY <1>2, <2>1 DEF RunInv, RecentFirst, CP!Order
  <1>. QED
    BY <1>3, <1>4 DEF LruIsRecency

(* However buffers are pushed along and moved up between lists, those of   *)
(* the sequential partition and those of the segments are in the order of  *)
(* their last references: lruout takes the least recently used one.        *)
THEOREM LeastRecentlyUsed == Spec => []LruIsRecency
  BY RunInvariance, RecentIsOrdered, PTL

----------------------------------------------------------------------------
(* The counters.                                                           *)
Hits == 0..(Cache!REALLRU - 1)

CountersType ==
    /\ hit \in Nat /\ miss \in Nat /\ loopQhit \in Nat /\ agedVtime \in Nat
    /\ rLRUsegHits \in [Hits -> Nat] /\ rLRUsegHitRatios \in [Segs -> Nat]

CountsInv == CountersType /\ HitRatioAtMostOne

LEMMA SumOfSegments ==
    ASSUME NEW f, f \in [Segs -> Nat]
    PROVE  /\ SumFunction(f) = f[0] + f[1] + f[2] + f[3] + f[4]
           /\ SumFunctionOnSet(f, 0..4) = SumFunction(f)
  <1>1. DOMAIN f = 0..4 /\ \A i \in 0..4 : f[i] \in Nat
    BY DEF Segs
  <1> DEFINE S(n) == SumFunctionOnSet(f, 0..n)
  <1>2. ASSUME NEW n \in 0..4 PROVE S(n) = S(n - 1) + f[n] /\ S(n) \in Nat
    BY <1>1, SumUpTo
  <1>3. S(0 - 1) = 0
    <2>1. 0..(0 - 1) = {} /\ IsFiniteSet({})
      BY FS_EmptySet
    <2>2. SumFunctionOnSet(f, {}) = 0
      BY <2>1, SumTakes
    <2>. QED
      BY <2>1, <2>2, Zenon
  <1>4. SumFunction(f) = S(4)
    BY <1>1, Zenon DEF SumFunction
  <1>. HIDE DEF S
  <1>5. S(0) = f[0] /\ S(1) = S(0) + f[1] /\ S(2) = S(1) + f[2] /\ S(3) = S(2) + f[3]
        /\ S(4) = S(3) + f[4]
    BY <1>1, <1>2, <1>3
  <1>6. S(4) = f[0] + f[1] + f[2] + f[3] + f[4]
    BY <1>1, <1>5
  <1>. QED
    BY <1>4, <1>6 DEF S

(* A hit is counted once: in the queue, or in the list that has the block. *)
LEMMA HitsStep ==
    ASSUME RunInv, CountsInv, NEW b, NEW p, Turn(b, p)
    PROVE  /\ hit' \in Nat /\ miss' \in Nat /\ loopQhit' \in Nat /\ rLRUsegHits' \in [Hits -> Nat]
           /\ hit' + miss' = Now /\ hit' = SumFunction(rLRUsegHits') + loopQhit'
  <1>1. /\ hit \in Nat /\ miss \in Nat /\ loopQhit \in Nat /\ rLRUsegHits \in [Hits -> Nat]
        /\ hit + miss = curVtime /\ hit = SumFunction(rLRUsegHits) + loopQhit
        /\ curVtime \in Nat /\ Now = curVtime + 1
    BY DEF CountsInv, CountersType, HitRatioAtMostOne, RunInv, Read, Now
  <1>2. CP!IInv /\ b \in Blocks /\ p \in CP!Patterns
    BY DEF RunInv, Parts, Turn
  <1>3. Cache!REALLRU = 7 /\ CP!LastSeg = 6 /\ Hits = 0..6
    BY DEF Cache!REALLRU, CP!LastSeg, CP!REALLRU, Hits
  <1>f. IsFiniteSet(Hits)
    <2>1. 0 \in Int /\ 6 \in Int
      OBVIOUS
    <2>2. IsFiniteSet(0..6)
      BY <2>1, FS_Interval, Zenon
    <2>. QED
      BY <2>2, <1>3, Zenon
  <1>4. SumFunction(rLRUsegHits) \in Nat
    <2>1. DOMAIN rLRUsegHits = Hits /\ \A t \in Hits : rLRUsegHits[t] \in Nat
      BY <1>1
    <2>2. SumFunctionOnSet(rLRUsegHits, Hits) \in Nat
      BY <1>f, <2>1, SumTakes
    <2>. QED
      BY <2>1, <2>2, Zenon DEF SumFunction
  <1>5. CASE HitList(b, p)
    <2>1. PICK t : t = Cache!ListOf(Cache!Bufs, b)
      OBVIOUS
    <2>2. t \in Hits
      <3>1. PICK x : x = CP!Bufs
        OBVIOUS
      <3>2. CP!Good(x) /\ x.list = lrulist
        BY <1>2, <3>1, RealOrGhost DEF CP!Bufs
      <3>3. b \in CP!Held(x.list, 0..CP!LastSeg)
        <4>1. b \in CP!BlocksIn(0..CP!LastSeg)
          BY <1>2, <1>5, HitListMoves
        <4>2. 0..CP!LastSeg \subseteq CP!Lists
          BY <3>2, CacheAssumed, CP!GoodType
        <4>. QED
          BY <4>1, <4>2, <3>1, <3>2, CacheAssumed, CP!Views
      <3>4. 0..CP!LastSeg \in SUBSET CP!Lists
        BY <3>2, CacheAssumed, CP!GoodType
      <3>5. CP!ListOf(x, b) \in 0..CP!LastSeg
        BY <3>2, <3>3, <3>4, CacheAssumed, CP!ListOfHolds
      <3>. QED
        BY <1>3, <2>1, <3>1, <3>5, SameListOf, SameBufs
    <2>3. /\ rLRUsegHits' = [rLRUsegHits EXCEPT ![t] = @ + 1]
          /\ hit' = hit + 1 /\ miss' = miss /\ loopQhit' = loopQhit
      BY <1>5, <2>1, Zenon DEF HitList
    <2>4. PICK g : g = rLRUsegHits'
      OBVIOUS
    <2>5. g \in [Hits -> Nat] /\ SumFunction(g) = SumFunction(rLRUsegHits) + 1
      <3>1. rLRUsegHits \in [Hits -> Nat] /\ g = [rLRUsegHits EXCEPT ![t] = @ + 1]
        BY <1>1, <2>3, <2>4, Zenon
      <3>2. /\ g \in [Hits -> Nat] /\ g[t] = rLRUsegHits[t] + 1
            /\ \A x \in Hits \ {t} : g[x] = rLRUsegHits[x]
        BY <2>2, <3>1
      <3>3. SumFunction(g) = SumFunction(rLRUsegHits) + 1
        BY <1>f, <2>2, <3>1, <3>2, SumOneMore
      <3>. QED
        BY <3>2, <3>3
    <2>. QED
      BY <1>1, <1>4, <2>3, <2>4, <2>5
  <1>6. CASE HitQueue(b, p)
    BY <1>1, <1>4, <1>6 DEF HitQueue
  <1>7. CASE MissWarm(b, p)
    BY <1>1, <1>4, <1>7 DEF MissWarm
  <1>8. CASE MissFull(b, p)
    BY <1>1, <1>4, <1>8 DEF MissFull
  <1>. QED
    BY <1>5, <1>6, <1>7, <1>8 DEF Turn

(* A block is in one list only: a reference counts in one segment at most. *)
LEMMA OneSegmentHit ==
    ASSUME RunInv, NEW b
    PROVE  \A i, j \in SegmentHit(b) : i = j
  <1>1. PICK x : x = CP!Bufs
    OBVIOUS
  <1>2. CP!Good(x) /\ x.list = lrulist
    BY <1>1, RealOrGhost DEF RunInv, Parts, CP!Bufs
  <1>3. lrulist \in CP!ListsType /\ CP!Distinct(lrulist)
    BY <1>2, CacheAssumed, CP!GoodType
  <1>4. /\ Cache!OTHLRU0 = 2 /\ Cache!GHOSTLRU0 = 8 /\ CP!Lists = 0..12 /\ Segs = 0..4
    BY DEF Cache!OTHLRU0, Cache!GHOSTLRU0, CP!Lists, CP!MAXLRU, CP!REALLRU, Segs
  <1>5. ASSUME NEW t \in CP!Lists, NEW u \in CP!Lists, Contains(lrulist[t], b), Contains(lrulist[u], b)
        PROVE  t = u
    <2>1. PICK k \in 1..Len(lrulist[t]) : lrulist[t][k] = b
      BY <1>5 DEF Contains
    <2>2. PICK l \in 1..Len(lrulist[u]) : lrulist[u][l] = b
      BY <1>5 DEF Contains
    <2>3. /\ <<t, k>> \in CP!Places(lrulist) /\ CP!At(lrulist, <<t, k>>) = b
          /\ <<u, l>> \in CP!Places(lrulist) /\ CP!At(lrulist, <<u, l>>) = b
      BY <1>3, <2>1, <2>2, CacheAssumed, CP!PlaceIntro
    <2>4. <<t, k>> = <<u, l>>
      BY <1>3, <2>3 DEF CP!Distinct
    <2>. QED
      BY <2>4
  <1>6. ASSUME NEW i \in SegmentHit(b), NEW j \in SegmentHit(b)
        PROVE  i = j
    <2>1. /\ i \in 0..4 /\ \E t \in {2 + i, 8 + i} : Contains(lrulist[t], b)
          /\ j \in 0..4 /\ \E u \in {2 + j, 8 + j} : Contains(lrulist[u], b)
      BY <1>4 DEF SegmentHit
    <2>2. PICK t \in {2 + i, 8 + i} : Contains(lrulist[t], b)
      BY <2>1
    <2>3. PICK u \in {2 + j, 8 + j} : Contains(lrulist[u], b)
      BY <2>1
    <2>4. t \in CP!Lists /\ u \in CP!Lists
      BY <1>4, <2>1
    <2>5. t = u
      BY <1>5, <2>2, <2>3, <2>4
    <2>. QED
      BY <2>1, <2>5
  <1>. QED
    BY <1>6

(* Halves, rounded down one by one, do not add up to more than the half of *)
(* a sum that was no less.                                                 *)
LEMMA HalvesAddUp ==
    ASSUME NEW a \in Nat, NEW u \in Nat, NEW v \in Nat, NEW w \in Nat, NEW x \in Nat, NEW y \in Nat,
           u + v + w + x + y <= a
    PROVE  Halved(u) + Halved(v) + Halved(w) + Halved(x) + Halved(y) <= Halved(a)
  <1>1. \A n \in Nat : n \div 2 \in Nat /\ 2 * (n \div 2) <= n /\ n < 2 * (n \div 2) + 2
    OBVIOUS
  <1>2. (u \div 2) + (v \div 2) + (w \div 2) + (x \div 2) + (y \div 2) <= a \div 2
    BY <1>1
  <1>. QED
    BY <1>2 DEF Halved

(* One more reference, and at most one more hit of a segment. *)
Credit(b, i) == rLRUsegHitRatios[i] + IF i \in SegmentHit(b) THEN 1 ELSE 0

LEMMA CreditsAddUp ==
    ASSUME RunInv, CountsInv, ~done, NEW b
    PROVE  /\ agedVtime \in Nat /\ \A i \in 0..4 : Credit(b, i) \in Nat
           /\ Credit(b, 0) + Credit(b, 1) + Credit(b, 2) + Credit(b, 3) + Credit(b, 4)
                 <= agedVtime + 1
  <1> DEFINE d(i) == IF i \in SegmentHit(b) THEN 1 ELSE 0
             f == rLRUsegHitRatios
  <1>1. f \in [0..4 -> Nat] /\ agedVtime \in Nat
    BY DEF CountsInv, CountersType, Segs
  <1>2. f[0] + f[1] + f[2] + f[3] + f[4] <= agedVtime
    <2>1. SumFunction(f) <= agedVtime
      BY DEF CountsInv, HitRatioAtMostOne
    <2>2. SumFunction(f) = f[0] + f[1] + f[2] + f[3] + f[4]
      BY <1>1, SumOfSegments DEF Segs
    <2>. QED
      BY <2>1, <2>2
  <1>3. d(0) + d(1) + d(2) + d(3) + d(4) <= 1
    BY OneSegmentHit
  <1>4. \A i \in 0..4 : d(i) \in Nat
    OBVIOUS
  <1>5. \A i : Credit(b, i) = f[i] + d(i)
    BY DEF Credit
  <1>. HIDE DEF d, f
  <1>. QED
    BY <1>1, <1>2, <1>3, <1>4, <1>5

LEMMA SegmentsStep ==
    ASSUME RunInv, CountsInv, ~done, NEW b, CountSegment(b)
    PROVE  /\ agedVtime' \in Nat /\ rLRUsegHitRatios' \in [Segs -> Nat]
           /\ SumFunction(rLRUsegHitRatios') <= agedVtime'
  <1>1. /\ agedVtime \in Nat /\ \A i \in 0..4 : Credit(b, i) \in Nat
        /\ Credit(b, 0) + Credit(b, 1) + Credit(b, 2) + Credit(b, 3) + Credit(b, 4)
              <= agedVtime + 1
    BY CreditsAddUp
  <1>2. /\ rLRUsegHitRatios' = [i \in 0..4 |-> Halved(Credit(b, i))]
        /\ agedVtime' = Halved(agedVtime + 1)
    BY DEF CountSegment, Credit, Segs
  <1>3. \A n \in Nat : Halved(n) \in Nat
    BY DEF Halved
  <1>4. Halved(Credit(b, 0)) + Halved(Credit(b, 1)) + Halved(Credit(b, 2)) + Halved(Credit(b, 3))
           + Halved(Credit(b, 4)) <= Halved(agedVtime + 1)
    <2>1. PICK u, v, w, x, y : /\ u = Credit(b, 0) /\ v = Credit(b, 1) /\ w = Credit(b, 2)
                               /\ x = Credit(b, 3) /\ y = Credit(b, 4)
      OBVIOUS
    <2>2. /\ u \in Nat /\ v \in Nat /\ w \in Nat /\ x \in Nat /\ y \in Nat
          /\ agedVtime + 1 \in Nat /\ u + v + w + x + y <= agedVtime + 1
      BY <1>1, <2>1
    <2>3. Halved(u) + Halved(v) + Halved(w) + Halved(x) + Halved(y) <= Halved(agedVtime + 1)
      BY <2>2, HalvesAddUp
    <2>. QED
      BY <2>1, <2>3, Zenon
  <1>5. PICK g : g = rLRUsegHitRatios'
    OBVIOUS
  <1>6. g \in [Segs -> Nat] /\ \A i \in 0..4 : g[i] = Halved(Credit(b, i))
    BY <1>1, <1>2, <1>3, <1>5 DEF Segs
  <1>7. SumFunction(g) = g[0] + g[1] + g[2] + g[3] + g[4]
    BY <1>6, SumOfSegments
  <1>8. SumFunction(g) <= agedVtime'
    BY <1>2, <1>4, <1>6, <1>7
  <1>9. agedVtime' \in Nat
    BY <1>1, <1>2, <1>3
  <1>. QED
    BY <1>5, <1>6, <1>8, <1>9

(* The turn the process dies in is counted, and nothing is halved. *)
LEMMA DiesCounts ==
    ASSUME RunInv, CountsInv, Dies
    PROVE  CountsInv'
  <1>1. /\ hit' = hit /\ miss' = miss + 1 /\ loopQhit' = loopQhit /\ rLRUsegHits' = rLRUsegHits
        /\ agedVtime' = agedVtime + 1
    BY DEF Dies
  <1>2. curVtime' = Now /\ ~done /\ ~done' /\ curVtime \in Nat
    BY DiesStays DEF RunInv, Read
  <1>3. PICK b : rLRUsegHitRatios' = [i \in 0..4 |-> Credit(b, i)]
    BY DiesStays DEF Credit, Segs
  <1>4. /\ agedVtime \in Nat /\ \A i \in 0..4 : Credit(b, i) \in Nat
        /\ Credit(b, 0) + Credit(b, 1) + Credit(b, 2) + Credit(b, 3) + Credit(b, 4)
              <= agedVtime + 1
    BY <1>2, CreditsAddUp
  <1>5. PICK g : g = rLRUsegHitRatios'
    OBVIOUS
  <1>6. g \in [Segs -> Nat] /\ \A i \in 0..4 : g[i] = Credit(b, i)
    BY <1>3, <1>4, <1>5 DEF Segs
  <1>7. SumFunction(g) = g[0] + g[1] + g[2] + g[3] + g[4]
    BY <1>6, SumOfSegments
  <1>8. SumFunction(g) <= agedVtime'
    BY <1>1, <1>4, <1>6, <1>7
  <1>9. CountersType'
    BY <1>1, <1>4, <1>5, <1>6 DEF CountsInv, CountersType, Hits, Cache!REALLRU, Segs
  <1>10. /\ hit \in Nat /\ miss \in Nat /\ hit + miss = curVtime
         /\ hit = SumFunction(rLRUsegHits) + loopQhit
    BY DEF CountsInv, CountersType, HitRatioAtMostOne
  <1>11. hit' + miss' = curVtime'
    BY <1>1, <1>2, <1>10 DEF Now
  <1>12. HitRatioAtMostOne'
    BY <1>1, <1>2, <1>5, <1>8, <1>10, <1>11 DEF HitRatioAtMostOne
  <1>. QED
    BY <1>9, <1>12 DEF CountsInv

LEMMA CountsStep == RunInv /\ CountsInv /\ [Next]_vars => CountsInv'
  <1> SUFFICES ASSUME RunInv, CountsInv, [Next]_vars PROVE CountsInv'
    OBVIOUS
  <1>1. CASE Refer
    <2>1. /\ ~done /\ UNCHANGED done /\ \E b, p : Turn(b, p)
      BY <1>1, ReferIsTurn DEF RunInv, Read
    <2>2. PICK b, p : Turn(b, p)
      BY <2>1
    <2>3. /\ hit' \in Nat /\ miss' \in Nat /\ loopQhit' \in Nat /\ rLRUsegHits' \in [Hits -> Nat]
          /\ hit' + miss' = Now /\ hit' = SumFunction(rLRUsegHits') + loopQhit'
      BY <2>2, HitsStep
    <2>4. curVtime' = Now /\ CountSegment(b)
      BY <2>2 DEF Turn
    <2>5. /\ agedVtime' \in Nat /\ rLRUsegHitRatios' \in [Segs -> Nat]
          /\ SumFunction(rLRUsegHitRatios') <= agedVtime'
      BY <2>1, <2>4, SegmentsStep
    <2>6. CountersType'
      BY <2>3, <2>5 DEF CountersType, Hits, Cache!REALLRU, Segs
    <2>7. HitRatioAtMostOne'
      BY <2>1, <2>3, <2>4, <2>5 DEF HitRatioAtMostOne
    <2>. QED
      BY <2>6, <2>7 DEF CountsInv
  <1>2. CASE EndOfTrace
    <2>1. PICK f : f = rLRUsegHitRatios
      OBVIOUS
    <2>2. /\ f \in [0..4 -> Nat] /\ agedVtime \in Nat /\ SumFunction(f) <= agedVtime
      BY <1>2, <2>1 DEF EndOfTrace, CountsInv, CountersType, HitRatioAtMostOne, Segs
    <2>3. /\ done' = TRUE /\ rLRUsegHitRatios' = [i \in 0..4 |-> SumFunctionOnSet(f, 0..i)]
          /\ UNCHANGED <<curVtime, hit, miss, loopQhit, rLRUsegHits, agedVtime>>
      BY <1>2, <2>1 DEF EndOfTrace, detectVars, counters, Segs
    <2>4. \A i \in 0..4 : SumFunctionOnSet(f, 0..i) \in Nat
      BY <2>2, SumUpTo
    <2>5. rLRUsegHitRatios' \in [0..4 -> Nat]
      BY <2>3, <2>4
    <2>6. rLRUsegHitRatios'[4] = SumFunction(f)
      <3>1. SumFunctionOnSet(f, 0..4) = SumFunction(f)
        BY <2>2, SumOfSegments DEF Segs
      <3>. QED
        BY <2>3, <3>1
    <2>7. CountersType'
      BY <2>3, <2>5 DEF CountsInv, CountersType, Hits, Cache!REALLRU, Segs
    <2>8. HitRatioAtMostOne'
      BY <2>2, <2>3, <2>6 DEF CountsInv, HitRatioAtMostOne
    <2>. QED
      BY <2>7, <2>8 DEF CountsInv
  <1>3. CASE UNCHANGED vars
    <2>1. UNCHANGED <<done, curVtime, hit, miss, loopQhit, rLRUsegHits, rLRUsegHitRatios, agedVtime>>
      BY <1>3 DEF vars, detectVars, counters
    <2>. QED
      BY <2>1 DEF CountsInv, CountersType, HitRatioAtMostOne, Hits, Cache!REALLRU, Segs
  <1>4. CASE Dies
    BY <1>4, DiesCounts
  <1>. QED
    BY <1>1, <1>2, <1>3, <1>4 DEF Next, Ended

LEMMA CountsInit == Init => CountsInv
  <1> SUFFICES ASSUME Init PROVE CountsInv
    OBVIOUS
  <1>1. /\ hit = 0 /\ miss = 0 /\ loopQhit = 0 /\ agedVtime = 0 /\ done = FALSE
        /\ rLRUsegHits = [t \in Hits |-> 0] /\ rLRUsegHitRatios = [i \in Segs |-> 0]
    BY DEF Init, Hits
  <1>2. curVtime = 0
    BY SameDetectorInit DEF Init, DP!Init
  <1>3. SumFunction(rLRUsegHitRatios) = 0
    <2>1. PICK f : f = rLRUsegHitRatios
      OBVIOUS
    <2>2. f \in [Segs -> Nat] /\ f[0] = 0 /\ f[1] = 0 /\ f[2] = 0 /\ f[3] = 0 /\ f[4] = 0
      BY <1>1, <2>1 DEF Segs
    <2>3. SumFunction(f) = f[0] + f[1] + f[2] + f[3] + f[4]
      BY <2>2, SumOfSegments
    <2>. QED
      BY <2>1, <2>2, <2>3
  <1>4. SumFunction(rLRUsegHits) = 0
    <2>1. PICK f : f = rLRUsegHits
      OBVIOUS
    <2>2. /\ Hits = 0..6 /\ DOMAIN f = Hits /\ \A t \in 0..6 : f[t] = 0 /\ f[t] \in Nat
      BY <1>1, <2>1 DEF Hits, Cache!REALLRU
    <2> DEFINE S(n) == SumFunctionOnSet(f, 0..n)
    <2>3. ASSUME NEW n \in 0..6 PROVE S(n) = S(n - 1) + f[n] /\ S(n) \in Nat
      BY <2>2, SumUpTo
    <2>4. S(0 - 1) = 0
      <3>1. 0..(0 - 1) = {} /\ IsFiniteSet({})
        BY FS_EmptySet
      <3>2. SumFunctionOnSet(f, {}) = 0
        BY <3>1, SumTakes
      <3>. QED
        BY <3>1, <3>2, Zenon
    <2>5. SumFunction(f) = S(6)
      BY <2>2, Zenon DEF SumFunction
    <2>. HIDE DEF S
    <2>6. /\ S(0) = S(0 - 1) + 0 /\ S(1) = S(0) + 0 /\ S(2) = S(1) + 0 /\ S(3) = S(2) + 0
          /\ S(4) = S(3) + 0 /\ S(5) = S(4) + 0 /\ S(6) = S(5) + 0
      BY <2>2, <2>3
    <2>7. S(6) = 0
      BY <2>4, <2>6
    <2>. QED
      BY <2>1, <2>5, <2>7
  <1>5. CountersType
    BY <1>1 DEF CountersType
  <1>. QED
    BY <1>1, <1>2, <1>3, <1>4, <1>5 DEF CountsInv, HitRatioAtMostOne

(* Every reference is a hit in one place or a miss, and a hit ratio that   *)
(* checkAvgMarginalGain takes the logarithm of 1 minus never exceeds 1,    *)
(* although hits and references are halved and rounded one by one.         *)
THEOREM HitRatios == Spec => []HitRatioAtMostOne
  <1>1. CountsInv => HitRatioAtMostOne
    BY DEF CountsInv
  <1>. QED
    BY <1>1, RunInvariance, CountsInit, CountsStep, PTL DEF Spec

----------------------------------------------------------------------------
(* Types.                                                                  *)
TakenType == taken \in Blocks \cup {NoBlock}

LEMMA TakenStep ==
    ASSUME RunInv, NEW b, NEW p, Turn(b, p)
    PROVE  TakenType'
  <1>1. CP!IInv /\ b \in Blocks /\ p \in CP!Patterns
    BY DEF RunInv, Parts, Turn
  <1>2. CASE HitList(b, p)
    BY <1>2 DEF HitList, TakenType
  <1>3. CASE HitQueue(b, p)
    BY <1>1, <1>3 DEF HitQueue, TakenType
  <1>4. CASE MissWarm(b, p)
    BY <1>4 DEF MissWarm, TakenType
  <1>5. CASE MissFull(b, p)
    <2>1. PICK v : Takes(b, p, v)
      BY <1>1, <1>5, MissFullMoves
    <2>2. v.bufp \in Blocks
      BY <1>1, <2>1, RealOrGhost DEF Takes
    <2>. QED
      BY <2>1, <2>2 DEF Takes, TakenType
  <1>. QED
    BY <1>2, <1>3, <1>4, <1>5 DEF Turn

LEMMA RunInvTypes == RunInv /\ CountsInv /\ TakenType => TypeOK
  <1> SUFFICES ASSUME RunInv, CountsInv, TakenType PROVE TypeOK
    OBVIOUS
  <1>1. CP!IInv /\ DP!IInv
    BY DEF RunInv, Parts
  <1>2. Cache!TypeOK
    BY <1>1, CacheAssumed, CP!IInvTypes, SameTypeOK
  <1>3. Detector!TypeOK
    BY <1>1, DetectorAssumed, DP!IInvImplies, SameDetectorTypeOK
  <1>4. DOMAIN buf = Cache!Real \cup Cache!Ghost
    BY <1>1, RealOrGhost, SameReal, SameGhost DEF RunInv, Stamped
  <1>5. \A b \in DOMAIN buf : buf[b] \in [lastRefTime : 1..MaxTime, lastIRG : 0..MaxTime]
    <2>1. curVtime \in 0..MaxTime /\ MaxTime \in Nat
      BY RunAssumption DEF RunInv, Read
    <2>2. \A b \in DOMAIN buf : buf[b] \in [lastRefTime : 1..curVtime, lastIRG : 0..curVtime]
      BY DEF RunInv, Stamped, Stamp
    <2>. QED
      BY <2>1, <2>2
  <1>6. trace \in Seq(Reference) /\ done \in BOOLEAN
    BY DEF RunInv, Read
  <1>7. /\ hit \in Nat /\ miss \in Nat /\ loopQhit \in Nat /\ agedVtime \in Nat
        /\ rLRUsegHits \in [0..(Cache!REALLRU - 1) -> Nat] /\ rLRUsegHitRatios \in [Segs -> Nat]
    BY DEF CountsInv, CountersType, Hits
  <1>. QED
    BY <1>2, <1>3, <1>4, <1>5, <1>6, <1>7 DEF TypeOK, TakenType

(* The hash table has a stamp, of this run, of each block that has a       *)
(* buffer and of each ghost, and of no other block.                        *)
THEOREM TypeCorrect == Spec => []TypeOK
  <1>1. Init => TakenType
    BY DEF Init, TakenType
  <1>2. RunInv /\ TakenType /\ [Next]_vars => TakenType'
    <2> SUFFICES ASSUME RunInv, TakenType, [Next]_vars PROVE TakenType'
      OBVIOUS
    <2>1. CASE Refer
      <3>1. \E b, p : Turn(b, p)
        BY <2>1, ReferIsTurn
      <3>. QED
        BY <3>1, TakenStep
    <2>2. CASE EndOfTrace
      BY <2>2 DEF EndOfTrace, TakenType
    <2>3. CASE UNCHANGED vars
      BY <2>3 DEF vars, TakenType
    <2>4. CASE Dies
      BY <2>4 DEF Dies, TakenType
    <2>. QED
      BY <2>1, <2>2, <2>3, <2>4 DEF Next, Ended
  <1>. QED
    BY <1>1, <1>2, RunInvTypes, RunInvariance, CountsInit, CountsStep, PTL DEF Spec

----------------------------------------------------------------------------
(* The queue.  Its blocks were referenced at different times, so that one  *)
(* of any of them is the least valuable.                                   *)
LEMMA EntriesDiffer ==
    ASSUME RunInv
    PROVE  /\ \A e \in queue : e.lastRefTime \in 0..MaxTime /\ e.lastIRG \in 0..MaxTime
           /\ \A e, f \in queue : e.lastRefTime = f.lastRefTime => e = f
           /\ \A x, y \in loopQ : Entry(x) = Entry(y) => x = y
           /\ loopQ \subseteq DOMAIN buf
  <1>1. loopQ \subseteq DOMAIN buf
    BY DEF RunInv, Stamped, CP!RealPart, CP!Bufs
  <1>2. /\ \A x \in DOMAIN buf : buf[x].lastRefTime \in 1..curVtime /\ buf[x].lastIRG \in 0..curVtime
        /\ \A x, y \in DOMAIN buf : buf[x].lastRefTime = buf[y].lastRefTime => x = y
        /\ curVtime \in 0..MaxTime /\ MaxTime \in Nat
    BY RunAssumption DEF RunInv, Stamped, Stamp, Read
  <1>3. ASSUME NEW e \in queue PROVE e.lastRefTime \in 0..MaxTime /\ e.lastIRG \in 0..MaxTime
    <2>1. PICK x \in loopQ : e = Entry(x)
      BY DEF queue
    <2>. QED
      BY <1>1, <1>2, <2>1 DEF Entry
  <1>4. ASSUME NEW e \in queue, NEW f \in queue, e.lastRefTime = f.lastRefTime PROVE e = f
    <2>1. PICK x \in loopQ : e = Entry(x)
      BY DEF queue
    <2>2. PICK y \in loopQ : f = Entry(y)
      BY DEF queue
    <2>3. x = y
      BY <1>1, <1>2, <1>4, <2>1, <2>2 DEF Entry
    <2>. QED
      BY <2>1, <2>2, <2>3
  <1>5. \A x, y \in loopQ : Entry(x) = Entry(y) => x = y
    BY DEF Entry
  <1>. QED
    BY <1>1, <1>3, <1>4, <1>5

LEMMA LeastOfQueue ==
    ASSUME RunInv, NEW S \in SUBSET queue, S # {}
    PROVE  Queue!LeastValuable(S) \in S
  <1>1. /\ MaxTime \in Nat
        /\ \A e \in S : e.lastRefTime \in 0..MaxTime /\ e.lastIRG \in 0..MaxTime
        /\ \A e, f \in S : e.lastRefTime = f.lastRefTime => e = f
    BY EntriesDiffer, RunAssumption
  <1> DEFINE P == {e.lastIRG : e \in S}
  <1>2. PICK m \in P : \A n \in P : m >= n
    <2>1. P \in SUBSET (0..MaxTime) /\ P # {}
      BY <1>1
    <2>. HIDE DEF P
    <2>. QED
      BY <1>1, <2>1, GreatestExists
  <1> DEFINE L == {e \in S : e.lastIRG = m}
             T == {e.lastRefTime : e \in L}
  <1>3. PICK r \in T : \A n \in T : r >= n
    <2>1. T \in SUBSET (0..MaxTime) /\ T # {}
      BY <1>1, <1>2
    <2>. HIDE DEF T
    <2>. QED
      BY <1>1, <2>1, GreatestExists
  <1>4. PICK e \in S : e.lastIRG = m /\ e.lastRefTime = r
    BY <1>3
  <1>5. ASSUME NEW f \in S \ {e} PROVE Queue!SoonerThan(f, e)
    <2>1. f.lastIRG \in P /\ f.lastIRG \in Int /\ m \in Int /\ f.lastIRG <= m
      BY <1>1, <1>2, <1>4
    <2>2. CASE f.lastIRG = m
      <3>1. f.lastRefTime \in T /\ f.lastRefTime # r
        BY <1>1, <1>4, <2>2
      <3>2. f.lastRefTime \in Int /\ r \in Int
        BY <1>1, <1>4
      <3>3. r >= f.lastRefTime
        BY <1>3, <3>1, Zenon
      <3>4. f.lastRefTime < r
        BY <3>1, <3>2, <3>3
      <3>. QED
        BY <1>4, <2>2, <3>4 DEF Queue!SoonerThan
    <2>3. CASE f.lastIRG # m
      BY <1>4, <2>1, <2>3 DEF Queue!SoonerThan
    <2>. QED
      BY <2>2, <2>3
  <1>6. \E g \in S : \A f \in S \ {g} : Queue!SoonerThan(f, g)
    BY <1>5
  <1>. QED
    BY <1>6, Zenon DEF Queue!LeastValuable

LEMMA VictimIsQueued ==
    ASSUME RunInv, loopQ # {}
    PROVE  queue # {} /\ Queue!Victim(queue) \in queue
  <1>1. queue # {}
    BY DEF queue
  <1>2. PICK w : w = Queue!LeastValuable(queue)
    OBVIOUS
  <1>3. w \in queue
    BY <1>1, <1>2, LeastOfQueue
  <1>4. ASSUME Cardinality(queue) > 1 PROVE Queue!LeastValuable(queue \ {w}) \in queue
    <2>1. queue \ {w} # {}
      <3>1. SUFFICES ASSUME queue \ {w} = {} PROVE FALSE
        OBVIOUS
      <3>2. queue = {w}
        BY <1>3, <3>1
      <3>3. Cardinality({w}) = 1
        BY FS_Singleton
      <3>. QED
        BY <1>4, <3>2, <3>3
    <2>2. queue \ {w} \in SUBSET queue
      OBVIOUS
    <2>. QED
      BY <2>1, <2>2, LeastOfQueue
  <1>5. Queue!Victim(queue) = IF Queue!Cardinality(queue) > 1 /\ Queue!Now - w.lastRefTime \in 1..SeqSize
                              THEN Queue!LeastValuable(queue \ {w}) ELSE w
    BY <1>2 DEF Queue!Victim
  <1>6. Queue!Cardinality(queue) = Cardinality(queue)
    BY DEF Queue!Cardinality, Cardinality
  <1>. QED
    BY <1>1, <1>3, <1>4, <1>5, <1>6

(* The stamps of the queue after a turn: those there were, less the block  *)
(* v that leaves, with that of the block referenced if it comes in; then   *)
(* they are aged.                                                          *)
Comes(q, b) == IF q = "LOOP" THEN {Queue!NewEntry(b, ref'.irg)} ELSE {}

LEMMA QueueAfter ==
    ASSUME RunInv, NEW b, NEW p, Turn(b, p), NEW q, NEW v, NEW G, Moves(b, q, v, G)
    PROVE  queue' = Queue!Aged({Entry(x) : x \in loopQ \ {v}} \cup Comes(q, b))
  <1>1. PICK x : x = CP!Bufs
    OBVIOUS
  <1>2. /\ loopQ' = (loopQ \ {v}) \cup (IF q = "LOOP" THEN {b} ELSE {})
        /\ b \notin loopQ \ {v}
    <2>1. CP!Referred(x, CP!Bufs', q, b, v)
      BY <1>1 DEF Moves
    <2>2. CP!Bufs'.loop = CP!With(x.loop \ {v}, q = "LOOP", b)
      BY <2>1 DEF CP!Referred
    <2>3. CP!Bufs'.loop = loopQ' /\ x.loop = loopQ
      BY <1>1 DEF CP!Bufs
    <2>4. v = b \/ b \notin x.loop
      BY <1>1 DEF Moves, CP!RealPart
    <2>. QED
      BY <2>2, <2>3, <2>4 DEF CP!With
  <1>3. buf' = [y \in (DOMAIN buf \ G) \cup {b} |->
                   AgedStamp(IF y = b THEN NewStamp(b) ELSE buf[y], y)]
    BY DEF Moves, Stamps
  <1>4. loopQ' \subseteq DOMAIN buf'
    <2>1. DOMAIN buf' = CP!RealPart(CP!Bufs)' \cup CP!GhostPart(CP!Bufs)'
      BY StampsAfter
    <2>. QED
      BY <2>1 DEF CP!RealPart, CP!Bufs
  <1> DEFINE Base(y) == IF y = b THEN Queue!NewEntry(b, ref'.irg) ELSE Entry(y)
             S == {Entry(y) : y \in loopQ \ {v}} \cup Comes(q, b)
             Older(e) == IF Queue!Expired(e) THEN [e EXCEPT !.lastIRG = Queue!Now - e.lastRefTime] ELSE e
  <1>5. S = {Base(y) : y \in loopQ'}
    BY <1>2 DEF Comes
  <1>6. ASSUME NEW y \in loopQ'
        PROVE  Entry(y)' = IF Now % AgeEvery # 0 THEN Base(y) ELSE Older(Base(y))
    <2>1. PICK s : s = IF y = b THEN NewStamp(b) ELSE buf[y]
      OBVIOUS
    <2>2. buf'[y] = AgedStamp(s, y)
      BY <1>3, <1>4, <2>1
    <2>3. \E t, g : s = [lastRefTime |-> t, lastIRG |-> g]
      <3>1. CASE y = b
        BY <2>1, <3>1 DEF NewStamp
      <3>2. CASE y # b
        <4>1. y \in DOMAIN buf
          BY <1>2, <3>2, EntriesDiffer
        <4>2. buf[y] \in [lastRefTime : 1..curVtime, lastIRG : 0..curVtime]
          BY <4>1 DEF RunInv, Stamped, Stamp
        <4>. QED
          BY <2>1, <3>2, <4>2
      <3>. QED
        BY <3>1, <3>2
    <2>4. PICK t, g : s = [lastRefTime |-> t, lastIRG |-> g]
      BY <2>3
    <2>5. Base(y) = [blkno |-> y, lastIRG |-> g, lastRefTime |-> t]
      BY <2>1, <2>4 DEF Entry, NewStamp, Queue!NewEntry, Queue!Now, Now
    <2>6. Queue!Expired(Base(y)) <=> Queue!Expired(s)
      BY <2>4, <2>5 DEF Queue!Expired
    <2>7. Queue!Now = Now
      BY DEF Queue!Now, Now
    <2>8. Entry(y)' = [blkno |-> y, lastIRG |-> buf'[y].lastIRG, lastRefTime |-> buf'[y].lastRefTime]
      BY DEF Entry
    <2>9. CASE Now % AgeEvery # 0 \/ ~Queue!Expired(s)
      <3>1. buf'[y] = s
        BY <2>2, <2>9, Zenon DEF AgedStamp
      <3>2. Entry(y)' = Base(y)
        BY <2>4, <2>5, <2>8, <3>1
      <3>. QED
        BY <2>6, <2>9, <3>2
    <2>10. CASE ~(Now % AgeEvery # 0) /\ Queue!Expired(s)
      <3>1. buf'[y] = [s EXCEPT !.lastIRG = Now - s.lastRefTime]
        BY <1>6, <2>2, <2>10, Zenon DEF AgedStamp
      <3>2. PICK a : a = Now - t
        OBVIOUS
      <3>3. s.lastRefTime = t /\ Base(y).lastRefTime = t
        BY <2>4, <2>5
      <3>4. buf'[y] = [s EXCEPT !.lastIRG = a]
        BY <3>1, <3>2, <3>3, Zenon
      <3>5. Entry(y)' = [blkno |-> y, lastIRG |-> a, lastRefTime |-> t]
        BY <2>4, <2>8, <3>4
      <3>6. Older(Base(y)) = [Base(y) EXCEPT !.lastIRG = a]
        BY <2>6, <2>7, <2>10, <3>2, <3>3, Zenon
      <3>7. Older(Base(y)) = [blkno |-> y, lastIRG |-> a, lastRefTime |-> t]
        <4>. HIDE DEF Older, Base
        <4>. QED
          BY <2>5, <3>6
      <3>. QED
        BY <2>10, <3>5, <3>7, Zenon
    <2>. QED
      BY <2>9, <2>10
  <1>7. Queue!Aged(S) = IF Now % AgeEvery # 0 THEN S ELSE {Older(e) : e \in S}
    BY Zenon DEF Queue!Aged, Queue!Now, Now
  <1>8. queue' = {IF Now % AgeEvery # 0 THEN Base(y) ELSE Older(Base(y)) : y \in loopQ'}
    <2>1. queue' = {Entry(y)' : y \in loopQ'}
      BY DEF queue
    <2>. HIDE DEF Base, Older
    <2>. QED
      BY <1>6, <2>1
  <1>. HIDE DEF Base, Older, S
  <1>9. queue' = Queue!Aged(S)
    BY <1>5, <1>7, <1>8
  <1>. QED
    BY <1>9 DEF S

(* Each turn is one of the queue's steps. *)
LEMMA TurnUsesQueue ==
    ASSUME RunInv, NEW b, NEW p, Turn(b, p)
    PROVE  Queue!Next
  <1>1. CP!IInv /\ b \in Blocks /\ p \in CP!Patterns
    BY DEF RunInv, Parts, Turn
  <1>2. curVtime' = Queue!Now /\ curVtime < MaxTime
    BY RunAssumption DEF Turn, RunInv, Read, Now, Queue!Now
  <1>3. PICK irg : irg = ref'.irg
    OBVIOUS
  <1>4. p = "LOOP" => irg \in 1..MaxTime
    <2>1. PICK q \in CP!Patterns : \E v, G : Moves(b, q, v, G)
      BY TurnMoves
    <2>2. irg \in 0..Now
      BY <1>3, <2>1, StampsAfter
    <2>3. p = "LOOP" => irg > 0
      BY <1>3 DEF Turn, Parts, DP!IInv
    <2>. QED
      BY <2>2, <2>3, RunAssumption DEF Turn
  <1>5. Queue!Queued = loopQ
    <2>1. \A x \in loopQ : Entry(x).blkno = x
      BY DEF Entry
    <2>2. {e.blkno : e \in queue} = {Entry(x).blkno : x \in loopQ}
      BY DEF queue
    <2>. QED
      BY <2>1, <2>2 DEF Queue!Queued
  <1>6. ASSUME NEW c PROVE {Entry(x) : x \in loopQ \ {c}} = Queue!Rest(c)
    <2>1. \A x \in loopQ : Entry(x).blkno = x
      BY DEF Entry
    <2>. QED
      BY <2>1 DEF Queue!Rest, queue
  <1>7. ASSUME NEW q, NEW v, NEW G, Moves(b, q, v, G)
        PROVE  queue' = Queue!Aged(Queue!Rest(v) \cup (IF q = "LOOP" THEN {Queue!NewEntry(b, irg)} ELSE {}))
    <2>1. queue' = Queue!Aged({Entry(x) : x \in loopQ \ {v}} \cup Comes(q, b))
      BY <1>7, QueueAfter
    <2>. QED
      BY <1>3, <1>6, <2>1 DEF Comes
  <1>8. \A c : c \notin loopQ => Queue!Rest(c) = queue
    <2>1. \A c : c \notin loopQ => loopQ \ {c} = loopQ
      OBVIOUS
    <2>2. queue = {Entry(x) : x \in loopQ}
      BY DEF queue
    <2>. QED
      BY <1>6, <2>1, <2>2
  <1>9. CASE HitList(b, p)
    <2>1. Moves(b, p, b, {}) /\ b \in CP!BlocksIn(0..CP!LastSeg) /\ taken' = Queue!NoBlock
      BY <1>1, <1>9, HitListMoves DEF HitList, NoBlock, Queue!NoBlock
    <2>2. b \notin loopQ
      <3>1. PICK x : x = CP!Bufs
        OBVIOUS
      <3>2. CP!Good(x) /\ x.loop = loopQ
        BY <1>1, <3>1, RealOrGhost DEF CP!Bufs
      <3>3. CP!BlocksIn(0..CP!LastSeg) = CP!SeqPart(x) \cup CP!OthPart(x)
        BY <3>1, <3>2, CacheAssumed, CP!Views
      <3>4. x.loop \cap (CP!SeqPart(x) \cup CP!OthPart(x) \cup CP!GhostPart(x)) = {}
        BY <3>2, CacheAssumed, CP!Partitions
      <3>. QED
        BY <2>1, <3>2, <3>3, <3>4
    <2>3. queue' = Queue!Aged(queue \cup (IF p = "LOOP" THEN {Queue!NewEntry(b, irg)} ELSE {}))
      BY <1>7, <1>8, <2>1, <2>2
    <2>4. CASE p = "LOOP"
      <3>1. Queue!Insert(b, irg)
        BY <1>2, <1>5, <2>1, <2>2, <2>3, <2>4 DEF Queue!Insert, Queue!Becomes
      <3>. QED
        BY <1>1, <1>4, <2>4, <3>1 DEF Queue!Next
    <2>5. CASE p # "LOOP"
      <3>1. Queue!Pass
        BY <1>2, <2>1, <2>3, <2>5 DEF Queue!Pass, Queue!Becomes
      <3>. QED
        BY <3>1 DEF Queue!Next
    <2>. QED
      BY <2>4, <2>5
  <1>10. CASE HitQueue(b, p)
    <2>1. Moves(b, IF p = "LOOP" THEN "LOOP" ELSE "OTHERS", b, {}) /\ taken' = b
      BY <1>1, <1>10, HitQueueMoves DEF HitQueue
    <2>2. b \in Queue!Queued
      BY <1>5, <1>10, SameHitLoop DEF HitQueue, CP!HitLoop
    <2>3. CASE p = "LOOP"
      <3>1. Queue!HitStays(b, irg)
        BY <1>2, <1>7, <2>1, <2>2, <2>3 DEF Queue!HitStays, Queue!Becomes
      <3>. QED
        BY <1>1, <1>4, <2>3, <3>1 DEF Queue!Next
    <2>4. CASE p # "LOOP"
      <3>1. Queue!HitLeaves(b)
        BY <1>2, <1>7, <2>1, <2>2, <2>4 DEF Queue!HitLeaves, Queue!Becomes
      <3>. QED
        BY <1>1, <3>1 DEF Queue!Next
    <2>. QED
      BY <2>3, <2>4
  <1>11. CASE MissWarm(b, p)
    <2>1. Moves(b, IF p = "OTHERS" THEN "OTHERS" ELSE "SEQ", b, {}) /\ taken' = Queue!NoBlock
      BY <1>1, <1>11, MissWarmMoves DEF MissWarm, NoBlock, Queue!NoBlock
    <2>2. b \notin loopQ
      BY <1>11, SameMissWarm DEF MissWarm, CP!MissWarm, CP!Missed
    <2>3. queue' = Queue!Aged(queue)
      BY <1>7, <1>8, <2>1, <2>2
    <2>4. Queue!Pass
      BY <1>2, <2>1, <2>3 DEF Queue!Pass, Queue!Becomes
    <2>. QED
      BY <2>4 DEF Queue!Next
  <1>12. CASE MissFull(b, p)
    <2>1. PICK v : Takes(b, p, v)
      BY <1>1, <1>12, MissFullMoves
    <2>2. PICK q, c : q = v.pattern /\ c = v.bufp
      OBVIOUS
    <2>3. /\ q \in {p, "SEQ"} /\ b \notin loopQ
          /\ taken' = IF v.where = Cache!LOOPQUEUE THEN c ELSE Queue!NoBlock
          /\ v.where = Cache!LOOPQUEUE <=> c \in loopQ
          /\ MayTake(v, p, ref'.irg)
      BY <2>1, <2>2 DEF Takes, NoBlock, Queue!NoBlock, CP!RealPart, CP!Bufs
    <2>4. queue' = Queue!Aged(Queue!Rest(c) \cup (IF q = "LOOP" THEN {Queue!NewEntry(b, irg)} ELSE {}))
      BY <1>7, <2>1, <2>2 DEF Takes
    <2>5. b \notin Queue!Queued /\ (q = "LOOP" => irg \in 1..MaxTime)
      BY <1>4, <1>5, <2>3
    <2>6. CASE c \notin loopQ
      <3>1. Queue!Rest(c) = queue /\ taken' = Queue!NoBlock
        BY <1>8, <2>3, <2>6
      <3>2. CASE q = "LOOP"
        <4>1. Queue!Insert(b, irg)
          BY <1>2, <2>4, <2>5, <3>1, <3>2 DEF Queue!Insert, Queue!Becomes
        <4>. QED
          BY <1>1, <2>5, <3>2, <4>1 DEF Queue!Next
      <3>3. CASE q # "LOOP"
        <4>1. Queue!Pass
          BY <1>2, <2>4, <3>1, <3>3 DEF Queue!Pass, Queue!Becomes
        <4>. QED
          BY <4>1 DEF Queue!Next
      <3>. QED
        BY <3>2, <3>3
    <2>7. CASE c \in loopQ
      <3>1. PICK w : w = Queue!Victim(queue)
        OBVIOUS
      <3>2. queue # {} /\ w \in queue /\ c = w.blkno /\ taken' = w.blkno
        BY <2>2, <2>3, <2>7, <3>1, VictimIsQueued DEF MayTake
      <3>3. Queue!Rest(c) = queue \ {w}
        <4>1. PICK x \in loopQ : w = Entry(x)
          BY <3>2 DEF queue
        <4>2. x = c
          BY <3>2, <4>1 DEF Entry
        <4>3. \A y \in loopQ : Entry(y).blkno = y
          BY DEF Entry
        <4>. QED
          BY <4>1, <4>2, <4>3 DEF Queue!Rest, queue
      <3>4. CASE q = "LOOP"
        <4>1. Queue!Replace(b, irg)
          BY <1>2, <2>4, <2>5, <3>1, <3>2, <3>3, <3>4 DEF Queue!Replace, Queue!Becomes
        <4>. QED
          BY <1>1, <2>5, <3>4, <4>1 DEF Queue!Next
      <3>5. CASE q # "LOOP"
        <4>1. Queue!Evict
          BY <1>2, <2>4, <3>1, <3>2, <3>3, <3>5 DEF Queue!Evict, Queue!Becomes
        <4>. QED
          BY <4>1 DEF Queue!Next
      <3>. QED
        BY <3>4, <3>5
    <2>. QED
      BY <2>6, <2>7
  <1>. QED
    BY <1>9, <1>10, <1>11, <1>12 DEF Turn

(* The turn the process dies in: there is no queue. *)
LEMMA DiesPasses ==
    ASSUME RunInv, Dies
    PROVE  Queue!Pass
  <1>1. CP!Stays /\ loopQ = {} /\ curVtime' = Now /\ curVtime < MaxTime
    BY DiesStays
  <1>2. loopQ' = {}
    BY <1>1 DEF CP!Stays
  <1>3. queue = {} /\ queue' = {}
    BY <1>1, <1>2 DEF queue
  <1>4. Queue!Aged({}) = {}
    BY DEF Queue!Aged
  <1>5. taken' = Queue!NoBlock /\ curVtime' = Queue!Now
    BY <1>1 DEF Dies, NoBlock, Queue!NoBlock, Now, Queue!Now
  <1>. QED
    BY <1>1, <1>3, <1>4, <1>5 DEF Queue!Pass, Queue!Becomes

(* pgref uses the queue as it may be used: it never puts in a block that   *)
(* is queued, and what leaves is the least valuable block (or the second   *)
(* least, for one referenced together with the present one) or the block   *)
(* hit.  With LoopQueueProofs' heap, that is what loopQout gives.          *)
THEOREM QueueUsed == Spec => UsesQueue
  <1>1. Init => Queue!Init
    <2> SUFFICES ASSUME Init PROVE Queue!Init
      OBVIOUS
    <2>1. curVtime = 0
      BY SameDetectorInit DEF Init, DP!Init
    <2>2. loopQ = {}
      BY SameInit DEF Init, CP!Init
    <2>. QED
      BY <2>1, <2>2 DEF Init, Queue!Init, queue, NoBlock, Queue!NoBlock
  <1>2. RunInv /\ [Next]_vars => [Queue!Next]_(Queue!vars)
    <2> SUFFICES ASSUME RunInv, [Next]_vars PROVE [Queue!Next]_(Queue!vars)
      OBVIOUS
    <2>1. CASE Refer
      <3>1. \E b, p : Turn(b, p)
        BY <2>1, ReferIsTurn
      <3>. QED
        BY <3>1, TurnUsesQueue
    <2>2. ASSUME UNCHANGED <<curVtime, loopQ, buf, taken>> PROVE UNCHANGED Queue!vars
      <3>1. queue' = queue
        BY <2>2 DEF queue, Entry
      <3>. QED
        BY <2>2, <3>1 DEF Queue!vars
    <2>3. CASE EndOfTrace
      BY <2>2, <2>3 DEF EndOfTrace, detectVars, cacheVars
    <2>4. CASE UNCHANGED vars
      BY <2>2, <2>4 DEF vars, detectVars, cacheVars
    <2>5. CASE Dies
      <3>1. Queue!Pass
        BY <2>5, DiesPasses
      <3>. QED
        BY <3>1 DEF Queue!Next
    <2>. QED
      BY <2>1, <2>3, <2>4, <2>5 DEF Next, Ended
  <1>. QED
    BY <1>1, <1>2, RunInvariance, PTL DEF Spec, UsesQueue, Queue!Spec
=============================================================================
