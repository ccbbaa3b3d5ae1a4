--------------------------- MODULE MemworkProofs ---------------------------
(***************************************************************************)
(* The driver and the queue of memwork, for any number of tasks, any       *)
(* memories and frequencies and any timing: no task is lost, every tick is *)
(* charged, and the ledger is kept as MemPolicy says.                      *)
(***************************************************************************)
EXTENDS Memwork, NaturalSets, SequenceTheorems

----------------------------------------------------------------------------
(* Lists without repetitions. *)
Lists == {l \in Seq(Tasks) : IsInjective(l)}

(* The tasks of a list from its k-th on. *)
From(l, k) == {l[j] : j \in k..Len(l)}

(* m has the tasks of l, those before the k-th at the same places. *)
SameFrom(l, m, k) ==
    /\ Len(m) = Len(l)
    /\ \A j \in 1..Len(l) : j < k => m[j] = l[j]
    /\ From(m, k) = From(l, k)

LEMMA ListType ==
    ASSUME NEW l \in Lists
    PROVE  /\ l \in Seq(Tasks) /\ Len(l) \in Nat /\ DOMAIN l = 1..Len(l)
           /\ \A i \in 1..Len(l) : l[i] \in Tasks /\ i \in Nat
           /\ \A i, j \in 1..Len(l) : l[i] = l[j] => i = j
  BY DEF Lists, IsInjective

(* A task is found at its place. *)
LEMMA PlaceIs ==
    ASSUME NEW l \in Lists, NEW k \in 1..Len(l)
    PROVE  Place(l, l[k]) = k
  <1> DEFINE I == {i \in 1..Len(l) : l[i] = l[k]}
  <1>1. I = {k}
    BY ListType
  <1>2. Place(l, l[k]) = IF I # {} THEN Min(I) ELSE 0
    BY DEF Place, SelectInSeq
  <1>3. k \in Nat
    BY ListType
  <1>4. Min({k}) = k
    BY <1>3 DEF Min
  <1>. QED
    BY <1>1, <1>2, <1>4

LEMMA FromSplit ==
    ASSUME NEW l \in Lists, NEW k \in 1..Len(l)
    PROVE  From(l, k) = {l[k]} \cup From(l, k + 1)
  <1>1. Len(l) \in Nat /\ k \in Nat
    BY ListType
  <1>. QED
    BY <1>1 DEF From

LEMMA SameFromTrans ==
    ASSUME NEW l \in Lists, NEW m \in Lists, NEW n \in Lists,
           NEW k \in Nat, SameFrom(l, m, k), SameFrom(m, n, k)
    PROVE  SameFrom(l, n, k)
  BY ListType DEF SameFrom

(* A list changed behind its k-th is changed from the k-th on. *)
LEMMA SameFromEarlier ==
    ASSUME NEW l \in Lists, NEW m \in Lists, NEW k \in 1..Len(l), SameFrom(l, m, k + 1)
    PROVE  SameFrom(l, m, k) /\ m[k] = l[k]
  <1>1. Len(l) \in Nat /\ k \in Nat /\ Len(m) = Len(l) /\ k \in 1..Len(m)
    BY ListType DEF SameFrom
  <1>2. m[k] = l[k]
    BY <1>1 DEF SameFrom
  <1>3. From(l, k) = {l[k]} \cup From(l, k + 1) /\ From(m, k) = {m[k]} \cup From(m, k + 1)
    BY <1>1, FromSplit
  <1>4. \A j \in 1..Len(l) : j < k => m[j] = l[j]
    BY <1>1 DEF SameFrom
  <1>. QED
    BY <1>1, <1>2, <1>3, <1>4 DEF SameFrom

(* Two neighbours change places. *)
LEMMA SwapKeeps ==
    ASSUME NEW l \in Lists, NEW k \in 1..Len(l), k < Len(l)
    PROVE  LET m == [l EXCEPT ![k] = l[k + 1], ![k + 1] = l[k]]
           IN  m \in Lists /\ SameFrom(l, m, k) /\ m[k] = l[k + 1] /\ m[k + 1] = l[k]
  <1> DEFINE m == [l EXCEPT ![k] = l[k + 1], ![k + 1] = l[k]]
  <1>1. Len(l) \in Nat /\ k \in Nat /\ k + 1 \in 1..Len(l) /\ k + 1 # k
    BY ListType
  <1>2. m \in Seq(Tasks) /\ Len(m) = Len(l) /\ DOMAIN m = 1..Len(l)
    BY <1>1, ListType
  <1>3. \A j \in 1..Len(l) : m[j] = IF j = k THEN l[k + 1] ELSE IF j = k + 1 THEN l[k] ELSE l[j]
    BY <1>1, ListType
  <1>. HIDE DEF m
  <1>4. \A i, j \in 1..Len(l) : m[i] = m[j] => i = j
    BY <1>1, <1>3, ListType
  <1>5. m \in Lists
    BY <1>2, <1>4 DEF Lists, IsInjective
  <1>6. From(m, k) = From(l, k)
    <2>1. \A j \in k..Len(l) : j \in 1..Len(l)
      BY <1>1
    <2>2. \A j \in k..Len(l) : \E i \in k..Len(l) : m[j] = l[i]
      BY <1>1, <1>3, <2>1
    <2>3. \A j \in k..Len(l) : \E i \in k..Len(l) : l[j] = m[i]
      <3>. SUFFICES ASSUME NEW j \in k..Len(l) PROVE \E i \in k..Len(l) : l[j] = m[i]
        OBVIOUS
      <3>1. k \in k..Len(l) /\ k + 1 \in k..Len(l) /\ m[k] = l[k + 1] /\ m[k + 1] = l[k]
        BY <1>1, <1>3
      <3>2. j # k /\ j # k + 1 => m[j] = l[j]
        BY <1>3, <2>1
      <3>. QED
        BY <3>1, <3>2
    <2>4. From(m, k) = {m[j] : j \in k..Len(l)} /\ From(l, k) = {l[j] : j \in k..Len(l)}
      BY <1>2 DEF From
    <2>. QED
      BY <2>2, <2>3, <2>4, Zenon
  <1>7. \A j \in 1..Len(l) : j < k => m[j] = l[j]
    BY <1>1, <1>3
  <1>8. m[k] = l[k + 1] /\ m[k + 1] = l[k]
    BY <1>1, <1>3
  <1>. QED
    BY <1>2, <1>5, <1>6, <1>7, <1>8 DEF SameFrom, m

----------------------------------------------------------------------------
(* The tick counts of a task_t change, and nothing else of it. *)
SameTask(T, S) ==
    /\ T.wcet = S.wcet /\ T.period = S.period /\ T.idx_cpufreq = S.idx_cpufreq
    /\ T.mem_type = S.mem_type /\ T.det = S.det

(* The tick counts of the tasks in H change, and nothing else of a queue.  *)
Retimed(x, y, H) ==
    /\ \A u \in Tasks : SameTask(y.tk[u], x.tk[u])
    /\ \A u \in Tasks \ H : y.tk[u] = x.tk[u]

LEMMA QueueType ==
    ASSUME NEW x \in Queue, NEW u \in Tasks
    PROVE  /\ x.list \in Seq(Tasks) /\ x.tk \in [Tasks -> TaskType] /\ x.tk[u] \in TaskType
           /\ x.bad \in Asserts \cup {"none"}
           /\ x.tk[u].det \in Ticks /\ x.tk[u].det_remain \in Ticks /\ x.tk[u].gap_head \in Ticks
           /\ x.tk[u].gap \in Ticks /\ x.tk[u].deadline \in Ticks
  BY DEF Queue, TaskType

LEMMA WrapsToTicks ==
    ASSUME NEW n \in Int
    PROVE  U(n) \in Ticks /\ (n \in Ticks => U(n) = n)
  <1>1. UMod \in Nat /\ UMod > 0
    BY ConfAssumption
  <1>2. n % UMod \in 0..(UMod - 1) /\ (n \in 0..(UMod - 1) => n % UMod = n)
    BY <1>1
  <1>. QED
    BY <1>2 DEF U, Ticks

LEMMA RetimedTrans ==
    ASSUME NEW x, NEW y, NEW z, NEW H, Retimed(x, y, H), Retimed(y, z, H)
    PROVE  Retimed(x, z, H)
  BY DEF Retimed, SameTask

LEMMA RetimedMore ==
    ASSUME NEW x, NEW y, NEW H, NEW K, H \subseteq K, Retimed(x, y, H)
    PROVE  Retimed(x, y, K)
  BY DEF Retimed

(* y is x but for the tick counts of t, which are those of T.              *)
Reset(x, y, t, T) ==
    /\ y \in Queue /\ y.list = x.list /\ y.bad = x.bad
    /\ y.tk[t] = T /\ Retimed(x, y, {t})

(* Each assignment to a tick count of a task. *)
LEMMA TickSet ==
    ASSUME NEW x \in Queue, NEW t \in Tasks, NEW n \in Ticks
    PROVE  /\ Reset(x, [x EXCEPT !.tk[t].det_remain = n], t, [x.tk[t] EXCEPT !.det_remain = n])
           /\ Reset(x, [x EXCEPT !.tk[t].gap_head = n], t, [x.tk[t] EXCEPT !.gap_head = n])
           /\ Reset(x, [x EXCEPT !.tk[t].gap = n], t, [x.tk[t] EXCEPT !.gap = n])
           /\ Reset(x, [x EXCEPT !.tk[t].deadline = n], t, [x.tk[t] EXCEPT !.deadline = n])
  <1>1. x.tk \in [Tasks -> TaskType] /\ x.tk[t] \in TaskType
    BY DEF Queue
  <1>2. Reset(x, [x EXCEPT !.tk[t].det_remain = n], t, [x.tk[t] EXCEPT !.det_remain = n])
    <2> DEFINE y == [x EXCEPT !.tk[t].det_remain = n]
    <2>1. y \in Queue /\ y.list = x.list /\ y.bad = x.bad /\ y.tk[t] = [x.tk[t] EXCEPT !.det_remain = n]
      BY <1>1 DEF Queue, TaskType
    <2>2. Retimed(x, y, {t})
      BY <1>1 DEF Queue, TaskType, Retimed, SameTask
    <2>. QED
      BY <2>1, <2>2 DEF Reset
  <1>3. Reset(x, [x EXCEPT !.tk[t].gap_head = n], t, [x.tk[t] EXCEPT !.gap_head = n])
    <2> DEFINE y == [x EXCEPT !.tk[t].gap_head = n]
    <2>1. y \in Queue /\ y.list = x.list /\ y.bad = x.bad /\ y.tk[t] = [x.tk[t] EXCEPT !.gap_head = n]
      BY <1>1 DEF Queue, TaskType
    <2>2. Retimed(x, y, {t})
      BY <1>1 DEF Queue, TaskType, Retimed, SameTask
    <2>. QED
      BY <2>1, <2>2 DEF Reset
  <1>4. Reset(x, [x EXCEPT !.tk[t].gap = n], t, [x.tk[t] EXCEPT !.gap = n])
    <2> DEFINE y == [x EXCEPT !.tk[t].gap = n]
    <2>1. y \in Queue /\ y.list = x.list /\ y.bad = x.bad /\ y.tk[t] = [x.tk[t] EXCEPT !.gap = n]
      BY <1>1 DEF Queue, TaskType
    <2>2. Retimed(x, y, {t})
      BY <1>1 DEF Queue, TaskType, Retimed, SameTask
    <2>. QED
      BY <2>1, <2>2 DEF Reset
  <1>5. Reset(x, [x EXCEPT !.tk[t].deadline = n], t, [x.tk[t] EXCEPT !.deadline = n])
    <2> DEFINE y == [x EXCEPT !.tk[t].deadline = n]
    <2>1. y \in Queue /\ y.list = x.list /\ y.bad = x.bad /\ y.tk[t] = [x.tk[t] EXCEPT !.deadline = n]
      BY <1>1 DEF Queue, TaskType
    <2>2. Retimed(x, y, {t})
      BY <1>1 DEF Queue, TaskType, Retimed, SameTask
    <2>. QED
      BY <2>1, <2>2 DEF Reset
  <1>. QED
    BY <1>2, <1>3, <1>4, <1>5

(* An assertion that fails leaves its message. *)
LEMMA CheckKeeps ==
    ASSUME NEW x \in Queue, NEW c \in BOOLEAN, NEW what \in Asserts
    PROVE  LET y == Check(x, c, what)
           IN  /\ y \in Queue /\ y.list = x.list /\ y.tk = x.tk
               /\ y.bad = "none" => x.bad = "none"
               /\ y.bad = "none" => c
  <1>1. [x EXCEPT !.bad = what] \in Queue
    BY DEF Queue
  <1>. QED
    BY <1>1 DEF Check, Fail, Queue, Asserts

----------------------------------------------------------------------------
(* delay_tasks. *)
Spot(s) == Place(s.q.list, s.target)

Follower(x, k) == IF k < Len(x.list) THEN x.list[k + 1] ELSE None

(* A state of delay_tasks' loop is its five fields. *)
LEMMA DelaySet ==
    ASSUME NEW s \in Delays, NEW z, NEW g, NEW n
    PROVE  [s EXCEPT !.q = z, !.target = g, !.next = n]
           = [q |-> z, t |-> s.t, target |-> g, next |-> n, i |-> s.i]
  <1>1. s = [q |-> s.q, t |-> s.t, target |-> s.target, next |-> s.next, i |-> s.i]
    BY DEF Delays
  <1>2. PICK u : u = [s EXCEPT !.q = z]
    OBVIOUS
  <1>3. u = [q |-> z, t |-> s.t, target |-> s.target, next |-> s.next, i |-> s.i]
    BY <1>1, <1>2
  <1>4. PICK v : v = [u EXCEPT !.target = g]
    OBVIOUS
  <1>5. v = [q |-> u.q, t |-> u.t, target |-> g, next |-> u.next, i |-> u.i]
    BY <1>3, <1>4
  <1>6. v = [q |-> z, t |-> s.t, target |-> g, next |-> s.next, i |-> s.i]
    BY <1>3, <1>5
  <1>7. [v EXCEPT !.next = n] = [q |-> v.q, t |-> v.t, target |-> v.target, next |-> n, i |-> v.i]
    BY <1>6
  <1>. QED
    BY <1>2, <1>4, <1>6, <1>7

LEMMA DelaySetNext ==
    ASSUME NEW s \in Delays, NEW z, NEW n
    PROVE  [s EXCEPT !.q = z, !.next = n]
           = [q |-> z, t |-> s.t, target |-> s.target, next |-> n, i |-> s.i]
  <1>1. s = [q |-> s.q, t |-> s.t, target |-> s.target, next |-> s.next, i |-> s.i]
    BY DEF Delays
  <1>2. PICK u : u = [s EXCEPT !.q = z]
    OBVIOUS
  <1>3. u = [q |-> z, t |-> s.t, target |-> s.target, next |-> s.next, i |-> s.i]
    BY <1>1, <1>2
  <1>4. [u EXCEPT !.next = n] = [q |-> u.q, t |-> u.t, target |-> u.target, next |-> n, i |-> u.i]
    BY <1>3
  <1>. QED
    BY <1>2, <1>3, <1>4

(* What is always so in delay_tasks' loop, by the target's place. *)
LEMMA DelayType ==
    ASSUME NEW s \in Delays
    PROVE  /\ s.q \in Queue /\ s.q.list \in Lists /\ s.t \in Tasks /\ s.target \in Tasks
           /\ s.i \in Ticks
           /\ Spot(s) \in 1..Len(s.q.list) /\ s.q.list[Spot(s)] = s.target
           /\ s.t \notin From(s.q.list, Spot(s))
           /\ s.next = Follower(s.q, Spot(s))
  <1>1. /\ s.q \in Queue /\ s.t \in Tasks /\ s.target \in Tasks /\ s.i \in Ticks
        /\ IsInjective(s.q.list) /\ s.target \in ToSet(s.q.list)
        /\ \A k \in DOMAIN s.q.list : s.q.list[k] = s.t => k < Place(s.q.list, s.target)
        /\ s.next = Succ(s.q, s.target)
    BY DEF Delays
  <1>2. s.q.list \in Lists
    BY <1>1 DEF Lists, Queue
  <1>3. PICK k \in 1..Len(s.q.list) : s.q.list[k] = s.target
    BY <1>1, <1>2, ListType DEF ToSet
  <1>4. Spot(s) = k
    BY <1>2, <1>3, PlaceIs DEF Spot
  <1>5. s.t \notin From(s.q.list, k)
    <2>1. \A j \in k..Len(s.q.list) : j \in DOMAIN s.q.list /\ ~(j < k)
      BY <1>2, ListType
    <2>. QED
      BY <1>1, <1>4, <2>1 DEF From, Spot
  <1>6. s.next = Follower(s.q, k)
    BY <1>1, <1>4 DEF Succ, Follower, Spot
  <1>. QED
    BY <1>1, <1>2, <1>3, <1>4, <1>5, <1>6

LEMMA DelayIntro ==
    ASSUME NEW x \in Queue, x.list \in Lists, NEW t \in Tasks, NEW i \in Ticks,
           NEW k \in 1..Len(x.list), t \notin From(x.list, k)
    PROVE  LET s == [q |-> x, t |-> t, target |-> x.list[k], next |-> Follower(x, k), i |-> i]
           IN  s \in Delays /\ Spot(s) = k /\ Succ(x, x.list[k]) = Follower(x, k)
  <1> DEFINE s == [q |-> x, t |-> t, target |-> x.list[k], next |-> Follower(x, k), i |-> i]
  <1>1. Place(x.list, x.list[k]) = k
    BY PlaceIs
  <1>2. Succ(x, x.list[k]) = Follower(x, k)
    BY <1>1 DEF Succ, Follower
  <1>3. x.list \in Seq(Tasks) /\ DOMAIN x.list = 1..Len(x.list) /\ Len(x.list) \in Nat /\ k \in Nat
    BY ListType
  <1>4. x.list[k] \in Tasks /\ Follower(x, k) \in Tasks \cup {None}
    BY <1>3, ListType DEF Follower
  <1>5. x.list[k] \in ToSet(x.list) /\ IsInjective(x.list)
    BY <1>3 DEF ToSet, Lists
  <1>6. \A j \in DOMAIN x.list : x.list[j] = t => j < k
    BY <1>3 DEF From
  <1>7. s \in Delays
    BY <1>1, <1>2, <1>4, <1>5, <1>6 DEF Delays
  <1>. QED
    BY <1>1, <1>2, <1>7 DEF Spot

(* What a result v of the loop entered with s is like: the same task, the  *)
(* target's place, the tasks behind it in some order, and only their tick  *)
(* counts and the task's changed.                                          *)
Affected(s) == From(s.q.list, Spot(s)) \cup {s.t}

Delayed(s, v) ==
    /\ v.t = s.t
    /\ Spot(v) = Spot(s)
    /\ SameFrom(s.q.list, v.q.list, Spot(s))
    /\ Retimed(s.q, v.q, Affected(s))

DelayRank ==
    [s \in Delays |-> (Len(s.q.list) - Spot(s)) * UMod
                      + (IF s.i < s.q.tk[s.t].det_remain THEN s.q.tk[s.t].det_remain - s.i ELSE 0)]

LEMMA DelayedRefl ==
    ASSUME NEW s \in Delays
    PROVE  Delayed(s, s)
  BY DEF Delayed, SameFrom, Retimed, SameTask

LEMMA DelayedTrans ==
    ASSUME NEW s \in Delays, NEW v \in Delays, NEW w \in Delays, Delayed(s, v), Delayed(v, w)
    PROVE  Delayed(s, w)
  <1>1. /\ s.q.list \in Lists /\ v.q.list \in Lists /\ w.q.list \in Lists
        /\ Spot(s) \in 1..Len(s.q.list) /\ Spot(v) = Spot(s) /\ v.t = s.t
    BY DelayType DEF Delayed
  <1>2. SameFrom(s.q.list, w.q.list, Spot(s))
    <2>1. Spot(s) \in Nat /\ SameFrom(s.q.list, v.q.list, Spot(s)) /\ SameFrom(v.q.list, w.q.list, Spot(s))
      BY <1>1 DEF Delayed
    <2>. QED
      BY <1>1, <2>1, SameFromTrans
  <1>3. Affected(v) = Affected(s)
    BY <1>1 DEF Affected, Delayed, SameFrom
  <1>4. Retimed(s.q, w.q, Affected(s))
    <2>1. Retimed(s.q, v.q, Affected(s)) /\ Retimed(v.q, w.q, Affected(s))
      BY <1>3 DEF Delayed
    <2>. QED
      BY <2>1, RetimedTrans
  <1>. QED
    BY <1>1, <1>2, <1>4 DEF Delayed

(* The rank is a natural; it is lower when the target is further back, or  *)
(* when the ticks left and the ticks granted have come closer.             *)
LEMMA RankType ==
    /\ DelayRank \in [Delays -> Nat]
    /\ \A s, v \in Delays :
          Len(v.q.list) = Len(s.q.list) /\ Spot(s) < Spot(v) => DelayRank[v] < DelayRank[s]
    /\ \A s, v \in Delays :
          /\ Len(v.q.list) = Len(s.q.list) /\ Spot(s) = Spot(v)
          /\ s.i < s.q.tk[s.t].det_remain
          /\ v.i = s.i + 1 /\ v.q.tk[v.t].det_remain = s.q.tk[s.t].det_remain - 1
          => DelayRank[v] < DelayRank[s]
  <1> DEFINE back(s) == Len(s.q.list) - Spot(s)
             left(s) == IF s.i < s.q.tk[s.t].det_remain THEN s.q.tk[s.t].det_remain - s.i ELSE 0
  <1>1. UMod \in Nat /\ UMod > 0
    BY ConfAssumption
  <1>2. \A s \in Delays : DelayRank[s] = back(s) * UMod + left(s)
    BY DEF DelayRank
  <1>3. ASSUME NEW s \in Delays PROVE back(s) \in Nat /\ left(s) \in 0..(UMod - 1)
    <2>1. s.q.tk[s.t].det_remain \in 0..(UMod - 1) /\ s.i \in 0..(UMod - 1)
      BY DelayType, QueueType DEF Ticks
    <2>2. PICK n \in Nat, k \in Nat : n = Len(s.q.list) /\ k = Spot(s) /\ k \in 1..n
      BY DelayType, ListType
    <2>3. PICK r \in 0..(UMod - 1), i \in 0..(UMod - 1) : r = s.q.tk[s.t].det_remain /\ i = s.i
      BY <2>1
    <2>4. back(s) = n - k /\ left(s) = IF i < r THEN r - i ELSE 0
      BY <2>2, <2>3
    <2>5. n - k \in Nat
      BY <2>2
    <2>6. (IF i < r THEN r - i ELSE 0) \in 0..(UMod - 1)
      BY <1>1
    <2>. HIDE DEF back, left
    <2>. QED
      BY <2>4, <2>5, <2>6
  <1>4. \A a, b \in Nat : a * UMod \in Nat /\ (b < a => b * UMod + UMod <= a * UMod)
    BY <1>1
  <1>5. DelayRank \in [Delays -> Nat]
    <2>1. \A s \in Delays : back(s) * UMod + left(s) \in Nat
      <3>. HIDE DEF back, left
      <3>. QED
        BY <1>1, <1>3, <1>4
    <2>. QED
      BY <2>1 DEF DelayRank
  <1>6. ASSUME NEW s \in Delays, NEW v \in Delays, Len(v.q.list) = Len(s.q.list), Spot(s) < Spot(v)
        PROVE  DelayRank[v] < DelayRank[s]
    <2>1. back(v) < back(s)
      BY <1>6, DelayType, ListType
    <2>2. back(v) * UMod + UMod <= back(s) * UMod /\ back(s) * UMod \in Nat /\ back(v) * UMod \in Nat
      <3>. HIDE DEF back
      <3>. QED
        BY <1>3, <1>4, <2>1
    <2>3. left(v) \in 0..(UMod - 1) /\ left(s) \in Nat
      BY <1>3
    <2>4. DelayRank[v] = back(v) * UMod + left(v) /\ DelayRank[s] = back(s) * UMod + left(s)
      BY <1>2
    <2>. HIDE DEF back, left
    <2>. QED
      BY <1>1, <2>2, <2>3, <2>4
  <1>7. ASSUME NEW s \in Delays, NEW v \in Delays,
               Len(v.q.list) = Len(s.q.list), Spot(s) = Spot(v), s.i < s.q.tk[s.t].det_remain,
               v.i = s.i + 1, v.q.tk[v.t].det_remain = s.q.tk[s.t].det_remain - 1
        PROVE  DelayRank[v] < DelayRank[s]
    <2>1. back(v) = back(s)
      BY <1>7
    <2>2. s.q.tk[s.t].det_remain \in Nat /\ s.i \in Nat
      BY DelayType, QueueType DEF Ticks
    <2>3. left(v) < left(s)
      BY <1>7, <2>2
    <2>4. back(s) * UMod \in Nat /\ left(v) \in Nat /\ left(s) \in Nat
      <3>. HIDE DEF back, left
      <3>. QED
        BY <1>3, <1>4
    <2>5. DelayRank[v] = back(v) * UMod + left(v) /\ DelayRank[s] = back(s) * UMod + left(s)
      BY <1>2
    <2>. HIDE DEF back, left
    <2>. QED
      BY <2>1, <2>3, <2>4, <2>5
  <1>. QED
    BY <1>5, <1>6, <1>7

(* A tick granted. *)
LEMMA GrantedKeeps ==
    ASSUME NEW s \in Delays, ~Stops(s)
    PROVE  /\ Granted(s) \in Delays /\ Delayed(s, Granted(s))
           /\ DelayRank[Granted(s)] < DelayRank[s]
           /\ Granted(s).i = s.i + 1 /\ Granted(s).next = s.next
           /\ s.i < s.q.tk[s.t].det_remain
           /\ Granted(s).q.tk[s.t].det_remain = s.q.tk[s.t].det_remain - 1
  <1> DEFINE T == s.target
             t == s.t
             a == [s.q EXCEPT !.tk[T].deadline = U(s.q.tk[T].deadline - 1)]
             b == [a EXCEPT !.tk[t].det_remain = U(s.q.tk[t].det_remain - 1)]
             c == [b EXCEPT !.tk[t].deadline = U(s.q.tk[t].deadline - 1)]
             d == [c EXCEPT !.tk[T].gap = U(c.tk[T].gap - 1)]
             e == IF s.next = None THEN c ELSE d
             k == Spot(s)
  <1>1. /\ s.q \in Queue /\ s.q.list \in Lists /\ t \in Tasks /\ T \in Tasks /\ s.i \in Ticks
        /\ k \in 1..Len(s.q.list) /\ s.q.list[k] = T
        /\ t \notin From(s.q.list, k)
        /\ s.next = Follower(s.q, k)
    BY DelayType
  <1>2. T \in Affected(s) /\ t \in Affected(s) /\ t # T
    <2>1. k \in k..Len(s.q.list)
      BY <1>1, ListType
    <2>. QED
      BY <1>1, <2>1 DEF Affected, From
  <1>3. Granted(s) = [s EXCEPT !.q = e, !.i = s.i + 1]
    <2> DEFINE q1 == [s.q EXCEPT !.tk[T].deadline = U(@ - 1), !.tk[t].det_remain = U(@ - 1),
                                 !.tk[t].deadline = U(@ - 1)]
    <2>1. c = q1
      BY <1>1, <1>2 DEF Queue, TaskType
    <2>. HIDE DEF c
    <2>2. d = [c EXCEPT !.tk[T].gap = U(@ - 1)]
      OBVIOUS
    <2>3. Granted(s) = [s EXCEPT !.q = IF s.next = None THEN q1
                                       ELSE [q1 EXCEPT !.tk[T].gap = U(@ - 1)],
                                 !.i = @ + 1]
      BY DEF Granted
    <2>. HIDE DEF q1, d
    <2>. QED
      BY <2>1, <2>2, <2>3
  <1>4. PICK r \in Ticks : r = s.q.tk[t].det_remain /\ s.i < r /\ r - 1 \in Ticks /\ s.i + 1 \in Ticks
    <2>1. PICK r \in Ticks : r = s.q.tk[t].det_remain
      BY <1>1, QueueType
    <2>2. PICK i \in Ticks : i = s.i
      BY <1>1
    <2>3. i < r
      BY <2>1, <2>2 DEF Stops, Ticks
    <2>4. r - 1 \in Ticks /\ i + 1 \in Ticks
      BY <2>3, ConfAssumption DEF Ticks
    <2>. QED
      BY <2>1, <2>2, <2>3, <2>4
  <1>5. \A n \in Ticks : U(n - 1) \in Ticks
    BY WrapsToTicks DEF Ticks
  <1>6. Reset(s.q, a, T, [s.q.tk[T] EXCEPT !.deadline = U(s.q.tk[T].deadline - 1)])
    <2>1. PICK n \in Ticks : n = U(s.q.tk[T].deadline - 1)
      BY <1>1, <1>5, QueueType
    <2>. QED
      BY <1>1, <2>1, TickSet
  <1>. HIDE DEF a
  <1>7. a \in Queue
    BY <1>6 DEF Reset
  <1>8. Reset(a, b, t, [a.tk[t] EXCEPT !.det_remain = U(s.q.tk[t].det_remain - 1)])
    <2>1. PICK n \in Ticks : n = U(s.q.tk[t].det_remain - 1)
      BY <1>1, <1>5, <1>7, QueueType
    <2>. QED
      BY <1>1, <1>7, <2>1, TickSet
  <1>. HIDE DEF b
  <1>9. b \in Queue
    BY <1>8 DEF Reset
  <1>10. Reset(b, c, t, [b.tk[t] EXCEPT !.deadline = U(s.q.tk[t].deadline - 1)])
    <2>1. PICK n \in Ticks : n = U(s.q.tk[t].deadline - 1)
      BY <1>1, <1>5, <1>9, QueueType
    <2>. QED
      BY <1>1, <1>9, <2>1, TickSet
  <1>. HIDE DEF c
  <1>11. c \in Queue
    BY <1>10 DEF Reset
  <1>12. Reset(c, d, T, [c.tk[T] EXCEPT !.gap = U(c.tk[T].gap - 1)])
    <2>1. PICK n \in Ticks : n = U(c.tk[T].gap - 1)
      BY <1>1, <1>5, <1>11, QueueType
    <2>. QED
      BY <1>1, <1>11, <2>1, TickSet
  <1>. HIDE DEF d
  <1>13. e \in Queue /\ Retimed(s.q, e, Affected(s)) /\ e.list = s.q.list
    <2>1. Retimed(s.q, a, Affected(s)) /\ Retimed(a, b, Affected(s))
      BY <1>2, <1>6, <1>8, RetimedMore DEF Reset
    <2>2. Retimed(b, c, Affected(s)) /\ Retimed(c, d, Affected(s))
      BY <1>2, <1>10, <1>12, RetimedMore DEF Reset
    <2>3. Retimed(s.q, c, Affected(s))
      BY <2>1, <2>2, RetimedTrans
    <2>4. Retimed(s.q, d, Affected(s))
      BY <2>2, <2>3, RetimedTrans
    <2>5. c.list = s.q.list /\ d.list = s.q.list /\ d \in Queue
      BY <1>6, <1>8, <1>10, <1>12 DEF Reset
    <2>. QED
      BY <1>11, <2>3, <2>4, <2>5
  <1>14. e.tk[t].det_remain = r - 1
    <2>1. b.tk[t].det_remain = r - 1
      <3>1. U(s.q.tk[t].det_remain - 1) = r - 1
        BY <1>4, WrapsToTicks DEF Ticks
      <3>2. a.tk[t] \in TaskType
        BY <1>1, <1>7, QueueType
      <3>. QED
        BY <1>8, <3>1, <3>2 DEF Reset, TaskType
    <2>2. c.tk[t].det_remain = b.tk[t].det_remain
      <3>1. b.tk[t] \in TaskType
        BY <1>1, <1>9, QueueType
      <3>. QED
        BY <1>10, <3>1 DEF Reset, TaskType
    <2>3. d.tk[t] = c.tk[t]
      BY <1>1, <1>2, <1>12 DEF Reset, Retimed
    <2>. QED
      BY <2>1, <2>2, <2>3
  <1>. HIDE DEF e
  <1>15. PICK g : g = [q |-> e, t |-> t, target |-> e.list[k], next |-> Follower(e, k), i |-> s.i + 1]
    OBVIOUS
  <1>16. g \in Delays /\ Spot(g) = k
    BY <1>1, <1>4, <1>13, <1>15, DelayIntro
  <1>17. Granted(s) = g
    <2>1. s = [q |-> s.q, t |-> t, target |-> T, next |-> s.next, i |-> s.i]
      BY DEF Delays
    <2>2. e.list[k] = T /\ Follower(e, k) = s.next
      BY <1>1, <1>13 DEF Follower
    <2>. QED
      BY <1>3, <1>15, <2>1, <2>2
  <1>18. g.q = e /\ g.t = t /\ g.i = s.i + 1 /\ g.next = s.next
    BY <1>1, <1>13, <1>15 DEF Follower
  <1>19. Delayed(s, g)
    BY <1>13, <1>16, <1>18 DEF Delayed, SameFrom
  <1>20. DelayRank[g] < DelayRank[s]
    BY <1>4, <1>13, <1>14, <1>16, <1>18, RankType
  <1>. QED
    BY <1>4, <1>14, <1>16, <1>17, <1>18, <1>19, <1>20

(* The target and its follower face each other. *)
LEMMA FacedKeeps ==
    ASSUME NEW s \in Delays, s.next # None
    PROVE  /\ Faced(s) \in Delays /\ Delayed(s, Faced(s))
           /\ Faced(s).next # None /\ Faced(s).i = s.i
           /\ Faced(s).q.tk[s.t] = s.q.tk[s.t]
  <1> DEFINE l == s.q.list
             k == Spot(s)
             m == [l EXCEPT ![k] = l[k + 1], ![k + 1] = l[k]]
             n == s.q.tk[s.next].gap
             y == [s.q EXCEPT !.list = m]
             z == [y EXCEPT !.tk[s.target].gap = n]
  <1>1. /\ s.q \in Queue /\ l \in Lists /\ s.t \in Tasks /\ s.target \in Tasks /\ s.i \in Ticks
        /\ k \in 1..Len(l) /\ l[k] = s.target /\ s.t \notin From(l, k)
        /\ s.next = Follower(s.q, k)
    BY DelayType
  <1>2. k < Len(l) /\ s.next = l[k + 1] /\ k \in k..Len(l) /\ k + 1 \in 1..Len(l)
    BY <1>1, ListType DEF Follower
  <1>3. /\ m \in Lists /\ SameFrom(l, m, k) /\ m[k] = s.next /\ m[k + 1] = s.target
    BY <1>1, <1>2, SwapKeeps
  <1>4. s.next \in Tasks /\ n \in Ticks
    BY <1>1, <1>2, ListType, QueueType
  <1>5. y \in Queue /\ y.list = m /\ y.tk = s.q.tk
    <2>1. m \in Seq(Tasks)
      BY <1>3 DEF Lists
    <2>. HIDE DEF m
    <2>. QED
      BY <1>1, <2>1 DEF Queue
  <1>6. Reset(y, z, s.target, [y.tk[s.target] EXCEPT !.gap = n])
    <2>. HIDE DEF y, n
    <2>. QED
      BY <1>1, <1>4, <1>5, TickSet
  <1>7. s.target \in Affected(s) /\ s.t # s.target
    BY <1>1, <1>2 DEF Affected, From
  <1>8. z \in Queue /\ z.list = m /\ Retimed(s.q, z, Affected(s)) /\ z.tk[s.t] = s.q.tk[s.t]
    <2>. HIDE DEF y, z, m, n
    <2>1. Retimed(y, z, {s.target}) /\ z \in Queue /\ z.list = m
      BY <1>5, <1>6 DEF Reset
    <2>2. Retimed(s.q, z, {s.target})
      BY <1>5, <2>1 DEF Retimed
    <2>. QED
      BY <1>1, <1>7, <2>1, <2>2, RetimedMore DEF Retimed
  <1>9. PICK x : x = [q |-> z, t |-> s.t, target |-> z.list[k], next |-> Follower(z, k), i |-> s.i]
    OBVIOUS
  <1>10. /\ Len(m) = Len(l) /\ k \in 1..Len(m) /\ From(m, k) = From(l, k)
         /\ Follower(z, k) = s.target
    BY <1>1, <1>2, <1>3, <1>8 DEF SameFrom, Follower
  <1>11. x \in Delays /\ Spot(x) = k
    <2>. HIDE DEF z, m
    <2>. QED
      BY <1>1, <1>3, <1>8, <1>9, <1>10, DelayIntro
  <1>12. Faced(s) = IF is_preceding_task(s.q.tk, s.target, s.next) THEN s ELSE x
    <2>1. z = [s.q EXCEPT !.list = [@ EXCEPT ![k] = s.next, ![k + 1] = s.target],
                          !.tk[s.target].gap = n]
      BY <1>1, <1>2
    <2>2. x = [s EXCEPT !.q = z, !.target = s.next, !.next = s.target]
      <3>1. z.list[k] = s.next
        BY <1>3, <1>8
      <3>2. x = [q |-> z, t |-> s.t, target |-> s.next, next |-> s.target, i |-> s.i]
        BY <1>9, <1>10, <3>1
      <3>. HIDE DEF z
      <3>. QED
        BY <3>2, DelaySet
    <2>. HIDE DEF z
    <2>. QED
      BY <2>1, <2>2 DEF Faced, Spot
  <1>13. x.q = z /\ x.t = s.t /\ x.i = s.i /\ x.next = s.target
    BY <1>9, <1>10
  <1>14. Delayed(s, x)
    <2>. HIDE DEF z, m
    <2>. QED
      BY <1>3, <1>8, <1>11, <1>13 DEF Delayed
  <1>15. x.next # None
    BY <1>1, <1>13, ConfAssumption DEF None
  <1>. HIDE DEF z
  <1>. QED
    BY <1>8, <1>11, <1>12, <1>13, <1>14, <1>15, DelayedRefl

(* The one in front delays the one behind it. *)
LEMMA InnerDelay ==
    ASSUME NEW x \in Delays, x.next # None
    PROVE  LET n == StartDelay(x.q, x.target, x.next)
           IN  /\ n \in Delays /\ n.q = x.q /\ n.t = x.target /\ Spot(n) = Spot(x) + 1
               /\ Affected(n) = From(x.q.list, Spot(x))
  <1> DEFINE n == StartDelay(x.q, x.target, x.next)
             l == x.q.list
             k == Spot(x)
  <1>1. /\ x.q \in Queue /\ l \in Lists /\ x.target \in Tasks
        /\ k \in 1..Len(l) /\ l[k] = x.target /\ x.next = Follower(x.q, k)
    BY DelayType
  <1>2. Len(l) \in Nat /\ k + 1 \in 1..Len(l) /\ x.next = l[k + 1]
    BY <1>1, ListType DEF Follower
  <1>3. x.target \notin From(l, k + 1)
    BY <1>1, <1>2, ListType DEF From
  <1>4. 0 \in Ticks
    BY ConfAssumption DEF Ticks
  <1>5. PICK w : w = [q |-> x.q, t |-> x.target, target |-> l[k + 1],
                      next |-> Follower(x.q, k + 1), i |-> 0]
    OBVIOUS
  <1>6. w \in Delays /\ Spot(w) = k + 1 /\ Succ(x.q, l[k + 1]) = Follower(x.q, k + 1)
    <2>. HIDE DEF k
    <2>. QED
      BY <1>1, <1>2, <1>3, <1>4, <1>5, DelayIntro
  <1>7. n = w
    BY <1>2, <1>5, <1>6 DEF StartDelay
  <1>8. n.q = x.q /\ n.t = x.target
    BY DEF StartDelay
  <1>9. Affected(n) = From(l, k)
    BY <1>1, <1>6, <1>7, <1>8, FromSplit DEF Affected
  <1>. QED
    BY <1>6, <1>7, <1>8, <1>9

(* Behind the loop. *)
LEMMA EndDelayKeeps ==
    ASSUME NEW n \in Delays, NEW v \in Delays, Delayed(n, v)
    PROVE  LET r == EndDelay(n.q, v)
           IN  /\ r.q \in Queue /\ r.q.list = v.q.list /\ r.i = v.i /\ r.target = v.target
               /\ r.q.tk[n.t].det_remain = n.q.tk[n.t].det_remain
               /\ Retimed(n.q, r.q, Affected(n))
  <1> DEFINE T == n.q.tk[n.t]
             y == [v.q EXCEPT !.tk[n.t].det_remain = T.det_remain]
             z == [y EXCEPT !.tk[n.t].deadline = T.deadline]
             w == Check(z, v.i # 0, "no delay")
             r == EndDelay(n.q, v)
  <1>1. /\ n.q \in Queue /\ v.q \in Queue /\ n.t \in Tasks /\ v.t = n.t
        /\ T.det_remain \in Ticks /\ T.deadline \in Ticks
    BY DelayType, QueueType DEF Delayed
  <1>2. Reset(v.q, y, n.t, [v.q.tk[n.t] EXCEPT !.det_remain = T.det_remain])
    <2>. HIDE DEF T
    <2>. QED
      BY <1>1, TickSet
  <1>3. Reset(y, z, n.t, [y.tk[n.t] EXCEPT !.deadline = T.deadline])
    <2>1. y \in Queue
      BY <1>2 DEF Reset
    <2>. HIDE DEF T, y
    <2>. QED
      BY <1>1, <2>1, TickSet
  <1>4. r = [v EXCEPT !.q = w]
    <2>1. z = [v.q EXCEPT !.tk[n.t].det_remain = T.det_remain, !.tk[n.t].deadline = T.deadline]
      BY <1>1 DEF Queue, TaskType
    <2>2. r = [v EXCEPT !.q = Check([v.q EXCEPT !.tk[n.t].det_remain = T.det_remain,
                                                !.tk[n.t].deadline = T.deadline],
                                    v.i # 0, "no delay")]
      BY <1>1 DEF EndDelay
    <2>. HIDE DEF z, r, T
    <2>. QED
      BY <2>1, <2>2
  <1>5. z \in Queue /\ z.list = v.q.list /\ Retimed(n.q, z, Affected(n))
        /\ z.tk[n.t].det_remain = T.det_remain
    <2>. HIDE DEF y, z, T
    <2>1. Retimed(v.q, z, Affected(n))
      <3>1. n.t \in Affected(n)
        BY DEF Affected
      <3>. QED
        BY <1>2, <1>3, <3>1, RetimedMore, RetimedTrans DEF Reset
    <2>2. Retimed(n.q, z, Affected(n))
      BY <2>1, RetimedTrans DEF Delayed
    <2>3. v.q.tk[n.t] \in TaskType
      BY <1>1, QueueType
    <2>. QED
      BY <1>2, <1>3, <2>2, <2>3 DEF Reset, TaskType
  <1>6. w \in Queue /\ w.list = z.list /\ w.tk = z.tk
    <2>1. "no delay" \in Asserts
      BY DEF Asserts
    <2>2. PICK c \in BOOLEAN : c = (v.i # 0)
      OBVIOUS
    <2>3. w = Check(z, c, "no delay")
      BY <2>2
    <2>. HIDE DEF z, w
    <2>. QED
      BY <1>5, <2>1, <2>3, CheckKeeps
  <1>7. r.q = w /\ r.i = v.i /\ r.target = v.target
    BY <1>4 DEF Delays
  <1>8. Retimed(n.q, w, Affected(n))
    <2>. HIDE DEF z, w
    <2>. QED
      BY <1>5, <1>6 DEF Retimed
  <1>. HIDE DEF z, w
  <1>. QED
    BY <1>5, <1>6, <1>7, <1>8

(* The one behind has been delayed. *)
LEMMA PushedKeeps ==
    ASSUME NEW x \in Delays, x.next # None,
           NEW v \in Delays, Delayed(StartDelay(x.q, x.target, x.next), v)
    PROVE  LET p == Pushed(x, EndDelay(x.q, v))
           IN  p \in Delays /\ Delayed(x, p) /\ p.i = x.i
               /\ p.q.tk[x.t] = x.q.tk[x.t]
  <1> DEFINE n == StartDelay(x.q, x.target, x.next)
             r == EndDelay(x.q, v)
             l == x.q.list
             k == Spot(x)
             z == [r.q EXCEPT !.tk[x.target].gap = r.i]
             p == Pushed(x, r)
  <1>1. /\ x.q \in Queue /\ l \in Lists /\ x.t \in Tasks /\ x.target \in Tasks /\ x.i \in Ticks
        /\ k \in 1..Len(l) /\ l[k] = x.target /\ x.t \notin From(l, k)
        /\ x.next = Follower(x.q, k)
    BY DelayType
  <1>2. /\ n \in Delays /\ n.q = x.q /\ n.t = x.target /\ Spot(n) = k + 1
        /\ Affected(n) = From(l, k)
    BY InnerDelay
  <1>3. /\ r.q \in Queue /\ r.q.list = v.q.list /\ r.i = v.i /\ r.target = v.target
        /\ Retimed(x.q, r.q, From(l, k))
    BY <1>2, EndDelayKeeps
  <1>4. /\ v.q.list \in Lists /\ Spot(v) = k + 1 /\ v.target = v.q.list[k + 1]
        /\ v.i \in Ticks /\ SameFrom(l, v.q.list, k + 1)
    BY <1>2, DelayType DEF Delayed
  <1>5. SameFrom(l, v.q.list, k) /\ v.q.list[k] = x.target
    BY <1>1, <1>4, SameFromEarlier
  <1>. HIDE DEF r, k, n
  <1>6. Reset(r.q, z, x.target, [r.q.tk[x.target] EXCEPT !.gap = r.i])
    BY <1>1, <1>3, <1>4, TickSet
  <1>7. k \in k..Len(l) /\ x.target \in From(l, k) /\ x.t # x.target
    BY <1>1, ListType DEF From
  <1>8. /\ z \in Queue /\ z.list = v.q.list /\ Retimed(x.q, z, From(l, k))
        /\ z.tk[x.t] = x.q.tk[x.t]
    <2>. HIDE DEF z
    <2>1. Retimed(r.q, z, From(l, k)) /\ z \in Queue /\ z.list = v.q.list
      BY <1>3, <1>6, <1>7, RetimedMore DEF Reset
    <2>2. Retimed(x.q, z, From(l, k))
      BY <1>3, <2>1, RetimedTrans
    <2>. QED
      BY <1>1, <2>1, <2>2 DEF Retimed
  <1>. HIDE DEF z
  <1>9. PICK w : w = [q |-> z, t |-> x.t, target |-> z.list[k], next |-> Follower(z, k), i |-> x.i]
    OBVIOUS
  <1>10. /\ k \in 1..Len(z.list) /\ x.t \notin From(z.list, k) /\ z.list \in Lists
         /\ Len(z.list) = Len(l)
    BY <1>1, <1>4, <1>5, <1>8 DEF SameFrom
  <1>11. w \in Delays /\ Spot(w) = k
    BY <1>1, <1>8, <1>9, <1>10, DelayIntro
  <1>12. Follower(z, k) = r.target
    <2>1. k < Len(l)
      BY <1>1 DEF Follower
    <2>. QED
      BY <1>3, <1>4, <1>8, <1>10, <2>1 DEF Follower
  <1>13. w = p
    <2>1. z.list[k] = x.target
      BY <1>5, <1>8
    <2>2. w = [q |-> z, t |-> x.t, target |-> x.target, next |-> r.target, i |-> x.i]
      BY <1>9, <1>12, <2>1
    <2>3. w = [x EXCEPT !.q = z, !.next = r.target]
      BY <2>2, DelaySetNext
    <2>. QED
      BY <2>3 DEF Pushed, z
  <1>14. w.q = z /\ w.t = x.t /\ w.i = x.i
    BY <1>9
  <1>15. Delayed(x, w)
    <2>1. Retimed(x.q, z, Affected(x))
      BY <1>8, RetimedMore DEF Affected, k
    <2>2. SameFrom(l, w.q.list, k)
      BY <1>5, <1>8, <1>14
    <2>. QED
      BY <1>11, <1>14, <2>1, <2>2 DEF Delayed, k
  <1>. QED
    BY <1>8, <1>11, <1>13, <1>14, <1>15 DEF r

(* The delayed one behind the target, and what comes of it. *)
Inner(g) == StartDelay(Faced(g).q, Faced(g).target, Faced(g).next)
After(g, v) == Pushed(Faced(g), EndDelay(Faced(g).q, v))

LEMMA InnerAndAfter ==
    ASSUME NEW s \in Delays, ~Stops(s), RunsInto(Granted(s))
    PROVE  LET g == Granted(s)
           IN  /\ Inner(g) \in Delays /\ DelayRank[Inner(g)] < DelayRank[s]
               /\ \A v \in Delays : Delayed(Inner(g), v) =>
                     /\ After(g, v) \in Delays /\ Delayed(s, After(g, v))
                     /\ DelayRank[After(g, v)] < DelayRank[s]
  <1> DEFINE g == Granted(s)
             x == Faced(g)
  <1>1. /\ g \in Delays /\ Delayed(s, g) /\ g.i = s.i + 1 /\ s.i < s.q.tk[s.t].det_remain
        /\ g.q.tk[s.t].det_remain = s.q.tk[s.t].det_remain - 1
    BY GrantedKeeps
  <1>2. g.next # None
    BY DEF RunsInto
  <1>3. x \in Delays /\ Delayed(g, x) /\ x.next # None /\ x.i = g.i /\ x.q.tk[g.t] = g.q.tk[g.t]
    <2>. HIDE DEF g
    <2>. QED
      BY <1>1, <1>2, FacedKeeps
  <1>4. Delayed(s, x)
    <2>. HIDE DEF g, x
    <2>. QED
      BY <1>1, <1>3, DelayedTrans
  <1>5. Len(x.q.list) = Len(s.q.list) /\ Spot(x) = Spot(s) /\ x.t = s.t /\ g.t = s.t
    BY <1>1, <1>4 DEF Delayed, SameFrom
  <1>. HIDE DEF g, x
  <1>6. Inner(g) \in Delays /\ Inner(g).q = x.q /\ Spot(Inner(g)) = Spot(x) + 1
    BY <1>3, InnerDelay DEF Inner, x
  <1>7. DelayRank[Inner(g)] < DelayRank[s]
    <2>1. Spot(s) < Spot(Inner(g))
      BY <1>5, <1>6, DelayType, ListType
    <2>. QED
      BY <1>5, <1>6, <2>1, RankType
  <1>8. ASSUME NEW v \in Delays, Delayed(Inner(g), v)
        PROVE  /\ After(g, v) \in Delays /\ Delayed(s, After(g, v))
               /\ DelayRank[After(g, v)] < DelayRank[s]
    <2>1. PICK p : p = After(g, v)
      OBVIOUS
    <2>2. p \in Delays /\ Delayed(x, p) /\ p.i = x.i /\ p.q.tk[x.t] = x.q.tk[x.t]
      BY <1>3, <1>8, <2>1, PushedKeeps DEF After, Inner, x
    <2>3. Delayed(s, p)
      BY <1>3, <1>4, <2>2, DelayedTrans
    <2>4. Len(p.q.list) = Len(s.q.list) /\ Spot(s) = Spot(p) /\ p.t = s.t
      BY <2>3 DEF Delayed, SameFrom
    <2>5. p.i = s.i + 1 /\ p.q.tk[p.t].det_remain = s.q.tk[s.t].det_remain - 1
      BY <1>1, <1>3, <1>5, <2>2, <2>4
    <2>6. DelayRank[p] < DelayRank[s]
      BY <1>1, <2>2, <2>4, <2>5, RankType
    <2>. QED
      BY <2>1, <2>2, <2>3, <2>6
  <1>. QED
    BY <1>6, <1>7, <1>8 DEF g

(* One turn of the loop, with f for its later turns. *)
DelayBody(f, s) ==
    IF Stops(s) THEN s
    ELSE IF ~RunsInto(Granted(s)) THEN f[Granted(s)]
    ELSE f[After(Granted(s), f[Inner(Granted(s))])]

(* If the later turns do what they should, so does this one. *)
LEMMA DelayBodyKeeps ==
    ASSUME NEW s \in Delays, NEW f,
           \A e \in Delays : DelayRank[e] < DelayRank[s] => f[e] \in Delays /\ Delayed(e, f[e])
    PROVE  DelayBody(f, s) \in Delays /\ Delayed(s, DelayBody(f, s))
  <1> DEFINE g == Granted(s)
             v == f[Inner(g)]
             a == After(g, v)
  <1>1. CASE Stops(s)
    BY <1>1, DelayedRefl DEF DelayBody
  <1>2. CASE ~Stops(s) /\ ~RunsInto(g)
    <2>1. g \in Delays /\ Delayed(s, g) /\ DelayRank[g] < DelayRank[s]
      BY <1>2, GrantedKeeps
    <2>2. DelayBody(f, s) = f[g]
      BY <1>2 DEF DelayBody
    <2>. HIDE DEF g
    <2>3. f[g] \in Delays /\ Delayed(g, f[g])
      BY <2>1
    <2>. QED
      BY <2>1, <2>2, <2>3, DelayedTrans
  <1>3. CASE ~Stops(s) /\ RunsInto(g)
    <2>1. /\ Inner(g) \in Delays /\ DelayRank[Inner(g)] < DelayRank[s]
          /\ \A w \in Delays : Delayed(Inner(g), w) =>
                /\ After(g, w) \in Delays /\ Delayed(s, After(g, w))
                /\ DelayRank[After(g, w)] < DelayRank[s]
      BY <1>3, InnerAndAfter
    <2>2. DelayBody(f, s) = f[a]
      BY <1>3 DEF DelayBody
    <2>. HIDE DEF g
    <2>3. v \in Delays /\ Delayed(Inner(g), v)
      BY <2>1
    <2>. HIDE DEF v
    <2>4. a \in Delays /\ Delayed(s, a) /\ DelayRank[a] < DelayRank[s]
      BY <2>1, <2>3
    <2>. HIDE DEF a
    <2>5. f[a] \in Delays /\ Delayed(a, f[a])
      BY <2>4
    <2>. QED
      BY <2>2, <2>4, <2>5, DelayedTrans
  <1>. QED
    BY <1>1, <1>2, <1>3

DelayGood == {p \in Delays \X Delays : Delayed(p[1], p[2])}
DelayResults == Results(Delays, DelayGood)
DelayTurn == [f \in DelayResults |-> [s \in Delays |-> DelayBody(f, s)]]

LEMMA DelayResultsAre ==
    \A f : f \in DelayResults <=> /\ f \in [Delays -> Delays]
                                  /\ \A s \in Delays : Delayed(s, f[s])
  BY DEF DelayResults, Results, DelayGood

(* The recursion has a solution. *)
LEMMA DelayExists == \E f : f = [s \in Delays |-> DelayBody(f, s)]
  <1>1. DelayResults # {}
    <2> DEFINE f == [s \in Delays |-> s]
    <2>1. f \in [Delays -> Delays] /\ \A s \in Delays : Delayed(s, f[s])
      BY DelayedRefl
    <2>. HIDE DEF f
    <2>2. f \in DelayResults
      BY <2>1, DelayResultsAre
    <2>. QED
      BY <2>2
  <1>2. DelayTurn \in [DelayResults -> DelayResults]
    <2>1. ASSUME NEW f \in DelayResults PROVE [s \in Delays |-> DelayBody(f, s)] \in DelayResults
      <3> DEFINE g == [s \in Delays |-> DelayBody(f, s)]
      <3>1. \A e \in Delays : f[e] \in Delays /\ Delayed(e, f[e])
        BY DelayResultsAre
      <3>2. \A s \in Delays : DelayBody(f, s) \in Delays /\ Delayed(s, DelayBody(f, s))
        BY <3>1, DelayBodyKeeps
      <3>3. g \in [Delays -> Delays] /\ \A s \in Delays : Delayed(s, g[s])
        BY <3>2
      <3>. HIDE DEF g
      <3>4. g \in DelayResults
        BY <3>3, DelayResultsAre
      <3>. QED
        BY <3>4 DEF g
    <2>. QED
      BY <2>1 DEF DelayTurn
  <1>3. LooksDown(Delays, DelayResults, DelayRank, DelayTurn)
    <2>. SUFFICES ASSUME NEW f \in DelayResults, NEW h \in DelayResults, NEW s \in Delays,
                         \A e \in Delays : DelayRank[e] < DelayRank[s] => f[e] = h[e]
                  PROVE  DelayBody(f, s) = DelayBody(h, s)
      BY DEF LooksDown, DelayTurn
    <2> DEFINE g == Granted(s)
               v == f[Inner(g)]
    <2>1. CASE Stops(s)
      BY <2>1 DEF DelayBody
    <2>2. CASE ~Stops(s) /\ ~RunsInto(g)
      <3>1. g \in Delays /\ DelayRank[g] < DelayRank[s]
        BY <2>2, GrantedKeeps
      <3>2. DelayBody(f, s) = f[g] /\ DelayBody(h, s) = h[g]
        BY <2>2 DEF DelayBody
      <3>. HIDE DEF g
      <3>. QED
        BY <3>1, <3>2
    <2>3. CASE ~Stops(s) /\ RunsInto(g)
      <3>1. /\ Inner(g) \in Delays /\ DelayRank[Inner(g)] < DelayRank[s]
            /\ \A w \in Delays : Delayed(Inner(g), w) =>
                  After(g, w) \in Delays /\ DelayRank[After(g, w)] < DelayRank[s]
        BY <2>3, InnerAndAfter
      <3>2. DelayBody(f, s) = f[After(g, f[Inner(g)])] /\ DelayBody(h, s) = h[After(g, h[Inner(g)])]
        BY <2>3 DEF DelayBody
      <3>. HIDE DEF g
      <3>3. f[Inner(g)] = h[Inner(g)] /\ f[Inner(g)] \in Delays /\ Delayed(Inner(g), f[Inner(g)])
        BY <3>1, DelayResultsAre
      <3>4. PICK a : a = After(g, f[Inner(g)])
        OBVIOUS
      <3>5. f[a] = h[a]
        BY <3>1, <3>3, <3>4
      <3>. QED
        BY <3>2, <3>3, <3>4, <3>5
    <2>. QED
      BY <2>1, <2>2, <2>3
  <1>4. DelayRank \in [Delays -> Nat]
    BY RankType
  <1>5. \E f \in DelayResults : f = DelayTurn[f]
    BY <1>1, <1>2, <1>3, <1>4, NestedExists DEF DelayResults
  <1>. QED
    BY <1>5 DEF DelayTurn

(* delay is what its definition says. *)
LEMMA DelayIs == delay = [s \in Delays |-> DelayBody(delay, s)]
  <1>1. \E f : f = [s \in Delays |->
                      LET g == Granted(s)
                          x == Faced(g)
                          r == EndDelay(x.q, f[StartDelay(x.q, x.target, x.next)])
                      IN  IF Stops(s) THEN s
                          ELSE IF ~RunsInto(g) THEN f[g]
                          ELSE f[Pushed(x, r)]]
    BY DelayExists DEF DelayBody, After, Inner
  <1>2. delay = [s \in Delays |->
                      LET g == Granted(s)
                          x == Faced(g)
                          r == EndDelay(x.q, delay[StartDelay(x.q, x.target, x.next)])
                      IN  IF Stops(s) THEN s
                          ELSE IF ~RunsInto(g) THEN delay[g]
                          ELSE delay[Pushed(x, r)]]
    BY <1>1, Zenon DEF delay
  <1>. QED
    BY <1>2, Zenon DEF DelayBody, After, Inner

(* It does what it should. *)
THEOREM DelayPermutes == \A s \in Delays : delay[s] \in Delays /\ Delayed(s, delay[s])
  <1>1. delay = [s \in Delays |-> DelayBody(delay, s)]
    BY DelayIs
  <1> DEFINE Fine(s) == delay[s] \in Delays /\ Delayed(s, delay[s])
             R == {DelayRank[s] : s \in {e \in Delays : ~Fine(e)}}
  <1>2. SUFFICES ASSUME R # {} PROVE FALSE
    OBVIOUS
  <1>3. R \in SUBSET Nat
    BY RankType
  <1>4. PICK r \in R : \A x \in R : r <= x
    BY <1>2, <1>3, LeastExists
  <1>5. PICK s \in Delays : ~Fine(s) /\ r = DelayRank[s]
    BY <1>4
  <1>6. ASSUME NEW e \in Delays, DelayRank[e] < DelayRank[s] PROVE Fine(e)
    <2>1. DelayRank[e] \in Nat /\ DelayRank[s] \in Nat
      BY RankType
    <2>2. ASSUME ~Fine(e) PROVE FALSE
      <3>1. DelayRank[e] \in R
        BY <2>2
      <3>2. r <= DelayRank[e]
        BY <1>4, <3>1
      <3>. QED
        BY <1>5, <1>6, <2>1, <3>2
    <2>. QED
      BY <2>2
  <1>7. DelayBody(delay, s) \in Delays /\ Delayed(s, DelayBody(delay, s))
    BY <1>6, DelayBodyKeeps
  <1>. QED
    BY <1>1, <1>5, <1>7

(* delay_tasks as a whole. *)
LEMMA delay_tasksKeeps ==
    ASSUME NEW x \in Queue, x.list \in Lists, NEW t \in Tasks,
           NEW k \in 1..Len(x.list), t \notin From(x.list, k)
    PROVE  LET r == delay_tasks(x, t, x.list[k])
           IN  /\ r.q \in Queue /\ r.q.list \in Lists /\ SameFrom(x.list, r.q.list, k)
               /\ r.target = r.q.list[k] /\ r.i \in Ticks
               /\ Retimed(x, r.q, From(x.list, k) \cup {t})
  <1> DEFINE n == StartDelay(x, t, x.list[k])
             v == delay[n]
             r == EndDelay(x, v)
  <1>1. 0 \in Ticks
    BY ConfAssumption DEF Ticks
  <1>2. PICK w : w = [q |-> x, t |-> t, target |-> x.list[k], next |-> Follower(x, k), i |-> 0]
    OBVIOUS
  <1>3. w \in Delays /\ Spot(w) = k /\ Succ(x, x.list[k]) = Follower(x, k)
    BY <1>1, <1>2, DelayIntro
  <1>4. n = w
    BY <1>2, <1>3 DEF StartDelay
  <1>5. n.q = x /\ n.t = t
    BY DEF StartDelay
  <1>6. Affected(n) = From(x.list, k) \cup {t}
    BY <1>3, <1>4, <1>5 DEF Affected
  <1>7. n \in Delays /\ Spot(n) = k
    BY <1>3, <1>4
  <1>. HIDE DEF n
  <1>8. v \in Delays /\ Delayed(n, v)
    BY <1>7, DelayPermutes
  <1>. HIDE DEF v
  <1>9. /\ r.q \in Queue /\ r.q.list = v.q.list /\ r.i = v.i /\ r.target = v.target
        /\ Retimed(x, r.q, Affected(n))
    BY <1>5, <1>7, <1>8, EndDelayKeeps
  <1>. HIDE DEF r
  <1>10. /\ v.q.list \in Lists /\ v.target = v.q.list[k] /\ v.i \in Ticks
         /\ SameFrom(x.list, v.q.list, k)
    BY <1>5, <1>7, <1>8, DelayType DEF Delayed
  <1>11. delay_tasks(x, t, x.list[k]) = r
    BY DEF delay_tasks, r, v, n
  <1>. QED
    BY <1>6, <1>9, <1>10, <1>11

----------------------------------------------------------------------------
(* requeue_task. *)
LEMMA InsertIs ==
    ASSUME NEW l \in Lists, NEW k \in 1..Len(l), NEW t \in Tasks
    PROVE  LET m == InsertAt(l, k, t)
           IN  /\ m \in Seq(Tasks) /\ Len(m) = Len(l) + 1
               /\ \A j \in 1..(Len(l) + 1) :
                     m[j] = IF j < k THEN l[j] ELSE IF j = k THEN t ELSE l[j - 1]
  <1> DEFINE a == SubSeq(l, 1, k - 1)
             b == SubSeq(l, k, Len(l))
             m == (a \o <<t>>) \o b
  <1>1. l \in Seq(Tasks) /\ Len(l) \in Nat /\ k \in Nat /\ k >= 1 /\ k <= Len(l)
    BY ListType
  <1>2. a \in Seq(Tasks) /\ Len(a) = k - 1 /\ \A j \in 1..(k - 1) : a[j] = l[j]
    BY <1>1
  <1>3. b \in Seq(Tasks) /\ Len(b) = Len(l) - k + 1
        /\ \A j \in 1..(Len(l) - k + 1) : b[j] = l[j + k - 1]
    BY <1>1
  <1>. HIDE DEF a, b, m
  <1>4. a \o <<t>> \in Seq(Tasks) /\ Len(a \o <<t>>) = k
        /\ \A j \in 1..k : (a \o <<t>>)[j] = IF j < k THEN l[j] ELSE t
    <2>1. <<t>> \in Seq(Tasks) /\ Len(<<t>>) = 1 /\ <<t>>[1] = t
      OBVIOUS
    <2>2. PICK e \in Seq(Tasks) : e = <<t>>
      BY <2>1
    <2>3. /\ a \o e \in Seq(Tasks) /\ Len(a \o e) = Len(a) + Len(e)
          /\ \A j \in 1..(Len(a) + Len(e)) :
                (a \o e)[j] = IF j <= Len(a) THEN a[j] ELSE e[j - Len(a)]
      BY <1>2
    <2>4. Len(e) = 1 /\ e[1] = t
      BY <2>1, <2>2
    <2>5. ASSUME NEW j \in 1..k PROVE (a \o e)[j] = IF j < k THEN l[j] ELSE t
      <3>1. CASE j < k
        BY <1>1, <1>2, <2>3, <2>4, <3>1
      <3>2. CASE j = k
        <4>1. j - Len(a) = 1 /\ ~(j <= Len(a)) /\ j \in 1..(Len(a) + Len(e))
          BY <1>1, <1>2, <2>4, <3>2
        <4>2. (a \o e)[j] = e[j - Len(a)]
          BY <2>3, <4>1
        <4>3. e[j - Len(a)] = t
          BY <2>4, <4>1
        <4>4. ~(j < k)
          BY <1>1, <3>2
        <4>. QED
          BY <4>2, <4>3, <4>4
      <3>3. j < k \/ j = k
        BY <1>1
      <3>. QED
        BY <3>1, <3>2, <3>3, Zenon
    <2>6. Len(a) + 1 = k
      BY <1>1, <1>2
    <2>7. a \o <<t>> = a \o e
      BY <2>2
    <2>8. Len(a \o e) = k
      BY <2>3, <2>4, <2>6
    <2>. QED
      BY <2>3, <2>5, <2>7, <2>8, Zenon
  <1>5. m \in Seq(Tasks) /\ Len(m) = Len(l) + 1
    <2>1. a \o <<t>> \in Seq(Tasks) /\ Len(a \o <<t>>) = k /\ b \in Seq(Tasks)
      BY <1>3, <1>4, Zenon
    <2>2. PICK c \in Seq(Tasks) : c = a \o <<t>> /\ Len(c) = k
      BY <2>1, Zenon
    <2>3. c \o b \in Seq(Tasks) /\ Len(c \o b) = Len(c) + Len(b)
      BY <2>1
    <2>4. Len(c) = k /\ Len(b) = Len(l) - k + 1
      BY <1>3, <2>2, Zenon
    <2>5. Len(c) + Len(b) = Len(l) + 1
      BY <1>1, <2>4
    <2>. QED
      BY <2>2, <2>3, <2>5, Zenon DEF m
  <1>6. \A j \in 1..(Len(l) + 1) :
           m[j] = IF j < k THEN l[j] ELSE IF j = k THEN t ELSE l[j - 1]
    <2>. SUFFICES ASSUME NEW j \in 1..(Len(l) + 1)
                  PROVE  m[j] = IF j < k THEN l[j] ELSE IF j = k THEN t ELSE l[j - 1]
      OBVIOUS
    <2>1. m[j] = IF j <= k THEN (a \o <<t>>)[j] ELSE b[j - k]
      BY <1>1, <1>3, <1>4 DEF m
    <2>2. CASE j <= k
      BY <1>1, <1>4, <2>1, <2>2
    <2>3. CASE j > k
      <3>1. PICK i \in 1..(Len(l) - k + 1) : i = j - k /\ i + k - 1 = j - 1
        BY <1>1, <2>3
      <3>2. b[i] = l[j - 1]
        BY <1>1, <1>3, <3>1
      <3>3. ~(j <= k)
        BY <1>1, <2>3
      <3>4. m[j] = b[i]
        BY <2>1, <3>1, <3>3
      <3>5. ~(j < k) /\ j # k
        BY <1>1, <2>3
      <3>. QED
        BY <3>2, <3>4, <3>5
    <2>4. j <= k \/ j > k
      BY <1>1
    <2>. QED
      BY <2>2, <2>3, <2>4
  <1>7. InsertAt(l, k, t) = m
    BY DEF InsertAt, a, b, m
  <1>. QED
    BY <1>5, <1>6, <1>7

LEMMA InsertKeeps ==
    ASSUME NEW l \in Lists, NEW k \in 1..Len(l), NEW t \in Tasks, t \notin ToSet(l)
    PROVE  InsertAt(l, k, t) \in Lists /\ ToSet(InsertAt(l, k, t)) = ToSet(l) \cup {t}
  <1> DEFINE m == InsertAt(l, k, t)
  <1>1. l \in Seq(Tasks) /\ Len(l) \in Nat /\ k \in Nat /\ k >= 1 /\ k <= Len(l)
    BY ListType
  <1>2. m \in Seq(Tasks) /\ Len(m) = Len(l) + 1
    BY InsertIs
  <1>3. \A j \in 1..(Len(l) + 1) :
           m[j] = IF j < k THEN l[j] ELSE IF j = k THEN t ELSE l[j - 1]
    BY InsertIs
  <1>. HIDE DEF m
  <1>4. \A i \in 1..Len(l) : l[i] # t
    BY <1>1 DEF ToSet
  <1>5. \A i, j \in 1..(Len(l) + 1) : m[i] = m[j] => i = j
    <2>. SUFFICES ASSUME NEW i \in 1..(Len(l) + 1), NEW j \in 1..(Len(l) + 1), m[i] = m[j]
                  PROVE  i = j
      OBVIOUS
    <2>1. PICK x, y : x = (IF i < k THEN i ELSE i - 1) /\ y = (IF j < k THEN j ELSE j - 1)
      OBVIOUS
    <2>2. i # k => x \in 1..Len(l) /\ m[i] = l[x]
      BY <1>1, <1>3, <2>1
    <2>3. j # k => y \in 1..Len(l) /\ m[j] = l[y]
      BY <1>1, <1>3, <2>1
    <2>4. i = k => m[i] = t
      BY <1>1, <1>3
    <2>5. j = k => m[j] = t
      BY <1>1, <1>3
    <2>6. i # k /\ j # k => x = y
      BY <2>2, <2>3, ListType
    <2>. QED
      BY <1>1, <1>4, <2>1, <2>2, <2>3, <2>4, <2>5, <2>6
  <1>6. m \in Lists
    BY <1>2, <1>5 DEF Lists, IsInjective
  <1>7. ToSet(m) = ToSet(l) \cup {t}
    <2>1. \A j \in 1..(Len(l) + 1) : m[j] = t \/ \E i \in 1..Len(l) : m[j] = l[i]
      <3>. SUFFICES ASSUME NEW j \in 1..(Len(l) + 1), j # k
                    PROVE  \E i \in 1..Len(l) : m[j] = l[i]
        BY <1>3
      <3>1. CASE j < k
        BY <1>1, <1>3, <3>1
      <3>2. CASE j > k
        <4>1. j - 1 \in 1..Len(l)
          BY <1>1, <3>2
        <4>. QED
          BY <1>1, <1>3, <3>2, <4>1
      <3>. QED
        BY <1>1, <3>1, <3>2
    <2>2. \A i \in 1..Len(l) : \E j \in 1..(Len(l) + 1) : m[j] = l[i]
      <3>. SUFFICES ASSUME NEW i \in 1..Len(l) PROVE \E j \in 1..(Len(l) + 1) : m[j] = l[i]
        OBVIOUS
      <3>1. CASE i < k
        BY <1>1, <1>3, <3>1
      <3>2. CASE i >= k
        <4>1. i + 1 \in 1..(Len(l) + 1) /\ ~(i + 1 < k) /\ i + 1 # k /\ (i + 1) - 1 = i
          BY <1>1, <3>2
        <4>. QED
          BY <1>3, <4>1
      <3>. QED
        BY <1>1, <3>1, <3>2
    <2>3. k \in 1..(Len(l) + 1) /\ m[k] = t
      BY <1>1, <1>3
    <2>4. ToSet(m) = {m[j] : j \in 1..(Len(l) + 1)} /\ ToSet(l) = {l[j] : j \in 1..Len(l)}
      BY <1>1, <1>2 DEF ToSet
    <2>. QED
      BY <2>1, <2>2, <2>3, <2>4, Zenon
  <1>. QED
    BY <1>6, <1>7 DEF m

LEMMA AppendKeeps ==
    ASSUME NEW l \in Lists, NEW t \in Tasks, t \notin ToSet(l)
    PROVE  Append(l, t) \in Lists /\ ToSet(Append(l, t)) = ToSet(l) \cup {t}
  <1> DEFINE m == Append(l, t)
  <1>1. l \in Seq(Tasks) /\ Len(l) \in Nat /\ \A i \in 1..Len(l) : l[i] # t
    BY ListType DEF ToSet
  <1>2. /\ m \in Seq(Tasks) /\ Len(m) = Len(l) + 1
        /\ \A j \in 1..Len(l) : m[j] = l[j]
        /\ m[Len(l) + 1] = t
    BY <1>1
  <1>. HIDE DEF m
  <1>3. \A i, j \in 1..(Len(l) + 1) : m[i] = m[j] => i = j
    <2>. SUFFICES ASSUME NEW i \in 1..(Len(l) + 1), NEW j \in 1..(Len(l) + 1), m[i] = m[j]
                  PROVE  i = j
      OBVIOUS
    <2>1. i = Len(l) + 1 \/ i \in 1..Len(l)
      BY <1>1
    <2>2. j = Len(l) + 1 \/ j \in 1..Len(l)
      BY <1>1
    <2>. QED
      BY <1>1, <1>2, <2>1, <2>2, ListType
  <1>4. m \in Lists
    BY <1>2, <1>3 DEF Lists, IsInjective
  <1>5. ToSet(m) = ToSet(l) \cup {t}
    <2>1. \A j \in 1..(Len(l) + 1) : m[j] = t \/ \E i \in 1..Len(l) : m[j] = l[i]
      BY <1>1, <1>2
    <2>2. \A i \in 1..Len(l) : i \in 1..(Len(l) + 1) /\ m[i] = l[i]
      BY <1>1, <1>2
    <2>3. Len(l) + 1 \in 1..(Len(l) + 1)
      BY <1>1
    <2>4. ToSet(m) = {m[j] : j \in 1..(Len(l) + 1)} /\ ToSet(l) = {l[j] : j \in 1..Len(l)}
      BY <1>1, <1>2 DEF ToSet
    <2>5. ASSUME NEW u \in ToSet(m) PROVE u \in ToSet(l) \cup {t}
      <3>1. PICK j \in 1..(Len(l) + 1) : u = m[j]
        BY <2>4
      <3>2. m[j] = t \/ \E i \in 1..Len(l) : m[j] = l[i]
        BY <2>1
      <3>. QED
        BY <2>4, <3>1, <3>2
    <2>6. ASSUME NEW u \in ToSet(l) PROVE u \in ToSet(m)
      <3>1. PICK i \in 1..Len(l) : u = l[i]
        BY <2>4
      <3>. QED
        BY <2>2, <2>4, <3>1
    <2>7. t \in ToSet(m)
      BY <1>2, <2>3, <2>4
    <2>. QED
      BY <2>5, <2>6, <2>7
  <1>. QED
    BY <1>4, <1>5 DEF m

(* A task ahead of its run can be let run on for some number of ticks. *)
LEMMA NewStartType ==
    ASSUME NEW x \in Queue, NEW t \in Tasks, NEW p \in Tasks
    PROVE  NewStart(x.tk, t, p) \in Ticks
  <1> DEFINE r == x.tk[p].det_remain
             P(i) == [x.tk[p] EXCEPT !.det_remain = U(@ - i), !.deadline = U(@ - i)]
             T(i) == [x.tk[t] EXCEPT !.deadline = U(@ - i)]
             stop(i) == \/ i >= task_ret(P(i))
                        \/ TakesOver([x.tk EXCEPT ![p] = P(i), ![t] = T(i)], t, p)
             S == {i \in 0..r : stop(i)}
  <1>1. x.tk[p] \in TaskType /\ r \in Ticks /\ r \in Nat /\ 0..r \subseteq Ticks
    BY QueueType, ConfAssumption DEF Ticks
  <1>2. task_ret(P(r)) = 0
    <2>1. PICK g \in Ticks : g = x.tk[p].gap
      BY QueueType
    <2>2. P(r).det_remain = 0 /\ P(r).gap = g
      <3>1. r - r = 0 /\ 0 \in Int /\ 0 \in 0..(UMod - 1)
        BY <1>1, ConfAssumption
      <3>2. U(0) = 0
        BY <3>1, WrapsToTicks DEF Ticks
      <3>. QED
        BY <1>1, <2>1, <3>1, <3>2 DEF TaskType
    <2>3. g \in Nat /\ 0 <= g
      BY <2>1, ConfAssumption DEF Ticks
    <2>4. Min({0, g}) = 0
      BY <2>3 DEF Min
    <2>. HIDE DEF P
    <2>. QED
      BY <2>2, <2>4 DEF task_ret
  <1>. HIDE DEF P, T
  <1>3. r \in S
    BY <1>1, <1>2
  <1>4. S \in SUBSET Nat /\ S # {}
    BY <1>1, <1>3
  <1>. HIDE DEF S
  <1>5. \E n \in S : \A i \in S : n <= i
    BY <1>4, LeastExists
  <1>6. Min(S) \in S
    BY <1>5 DEF Min
  <1>7. NewStart(x.tk, t, p) = Min(S)
    BY DEF NewStart, S, P, T
  <1>. QED
    BY <1>1, <1>6, <1>7 DEF S

LEMMA SameFromSet ==
    ASSUME NEW l \in Lists, NEW m \in Lists, NEW k \in 1..Len(l), SameFrom(l, m, k)
    PROVE  ToSet(m) = ToSet(l)
  <1>1. Len(l) \in Nat /\ k \in Nat /\ Len(m) = Len(l)
    BY ListType DEF SameFrom
  <1>2. \A j \in 1..Len(l) : j >= k => (\E i \in k..Len(l) : m[j] = l[i]) /\ (\E i \in k..Len(l) : l[j] = m[i])
    <2>. SUFFICES ASSUME NEW j \in 1..Len(l), j >= k
                  PROVE  (\E i \in k..Len(l) : m[j] = l[i]) /\ (\E i \in k..Len(l) : l[j] = m[i])
      OBVIOUS
    <2>1. j \in k..Len(l)
      BY <1>1
    <2>2. m[j] \in From(m, k) /\ l[j] \in From(l, k)
      BY <1>1, <2>1 DEF From
    <2>. QED
      BY <1>1, <2>2 DEF SameFrom, From
  <1>3. \A i \in k..Len(l) : i \in 1..Len(l)
    BY <1>1
  <1>4. \A j \in 1..Len(l) : j < k \/ j >= k
    BY <1>1
  <1>5. \A j \in 1..Len(l) : j < k => m[j] = l[j]
    BY DEF SameFrom
  <1>6. ToSet(m) = {m[j] : j \in 1..Len(l)} /\ ToSet(l) = {l[j] : j \in 1..Len(l)}
    BY <1>1, ListType DEF ToSet
  <1>7. \A j \in 1..Len(l) : (\E i \in 1..Len(l) : m[j] = l[i]) /\ (\E i \in 1..Len(l) : l[j] = m[i])
    BY <1>2, <1>3, <1>4, <1>5, Zenon
  <1>8. ASSUME NEW u \in ToSet(m) PROVE u \in ToSet(l)
    BY <1>6, <1>7
  <1>9. ASSUME NEW u \in ToSet(l) PROVE u \in ToSet(m)
    BY <1>6, <1>7
  <1>. QED
    BY <1>8, <1>9

(* What a requeue of t leaves of the queue x: if no assertion failed, t    *)
(* and what was listed is listed, once.                                    *)
Requeued(x, t, y) ==
    /\ y \in Queue
    /\ y.bad = "none" => /\ y.list \in Lists /\ ToSet(y.list) = ToSet(x.list) \cup {t}
                         /\ Retimed(x, y, ToSet(x.list) \cup {t})

LEMMA InsertBeforeKeeps ==
    ASSUME NEW x \in Queue, x.list \in Lists, NEW k \in 1..Len(x.list),
           NEW t \in Tasks, t \notin ToSet(x.list)
    PROVE  LET y == InsertBefore(x, t, x.list[k])
           IN  /\ y \in Queue /\ y.list \in Lists /\ ToSet(y.list) = ToSet(x.list) \cup {t}
               /\ y.tk = x.tk /\ y.bad = x.bad
  <1>1. PICK m : m = InsertAt(x.list, k, t)
    OBVIOUS
  <1>2. m \in Lists /\ ToSet(m) = ToSet(x.list) \cup {t}
    BY <1>1, InsertKeeps
  <1>3. InsertBefore(x, t, x.list[k]) = [x EXCEPT !.list = m]
    BY <1>1, PlaceIs DEF InsertBefore
  <1>4. m \in Seq(Tasks)
    BY <1>2 DEF Lists
  <1>. QED
    BY <1>2, <1>3, <1>4 DEF Queue

LEMMA apply_gap_headKeeps ==
    ASSUME NEW x \in Queue, NEW n \in Ticks
    PROVE  LET y == apply_gap_head(x, n)
           IN  /\ y \in Queue /\ y.list = x.list
               /\ y.bad = "none" => x.bad = "none"
               /\ Retimed(x, y, ToSet(x.list))
  <1> DEFINE behind == {k \in 2..Len(x.list) :
                          \A j \in 2..(k - 1) : x.tk[x.list[j]].gap = 0}
             moved  == {x.list[k] : k \in behind}
             tk == [t \in DOMAIN x.tk |->
                       IF t \in moved THEN [x.tk[t] EXCEPT !.deadline = U(@ - n)]
                                      ELSE x.tk[t]]
             z == [x EXCEPT !.tk = tk]
  <1>1. moved \subseteq ToSet(x.list)
    <2>1. Len(x.list) \in Nat /\ DOMAIN x.list = 1..Len(x.list)
      BY QueueType
    <2>2. \A k \in behind : k \in 1..Len(x.list)
      BY <2>1
    <2>. HIDE DEF behind
    <2>. QED
      BY <2>1, <2>2 DEF ToSet
  <1>2. DOMAIN x.tk = Tasks /\ \A u \in Tasks : x.tk[u] \in TaskType
    BY DEF Queue
  <1>. HIDE DEF moved
  <1>3. \A u \in Tasks : tk[u] \in TaskType /\ SameTask(tk[u], x.tk[u])
    <2>. SUFFICES ASSUME NEW u \in Tasks PROVE tk[u] \in TaskType /\ SameTask(tk[u], x.tk[u])
      OBVIOUS
    <2>1. PICK d \in Ticks : d = U(x.tk[u].deadline - n)
      BY <1>2, QueueType, WrapsToTicks DEF Ticks
    <2>2. tk[u] = IF u \in moved THEN [x.tk[u] EXCEPT !.deadline = d] ELSE x.tk[u]
      BY <1>2, <2>1
    <2>. HIDE DEF tk
    <2>. QED
      BY <1>2, <2>2 DEF TaskType, SameTask
  <1>4. \A u \in Tasks : u \notin moved => tk[u] = x.tk[u]
    BY <1>2
  <1>5. tk \in [Tasks -> TaskType]
    <2>1. tk = [u \in Tasks |-> tk[u]]
      BY <1>2
    <2>. HIDE DEF tk
    <2>. QED
      BY <1>3, <2>1
  <1>. HIDE DEF tk
  <1>6. z \in Queue /\ z.list = x.list /\ z.tk = tk /\ z.bad = x.bad
    BY <1>5 DEF Queue
  <1>7. Retimed(x, z, ToSet(x.list))
    BY <1>1, <1>3, <1>4, <1>6 DEF Retimed
  <1>. HIDE DEF z
  <1>8. PICK c \in BOOLEAN : c = (\A t \in moved : x.tk[t].deadline > n)
    OBVIOUS
  <1>9. apply_gap_head(x, n) = Check(z, c, "gap past deadline")
    BY <1>8 DEF apply_gap_head, z, tk, moved
  <1>10. PICK y : y = Check(z, c, "gap past deadline")
    OBVIOUS
  <1>11. y \in Queue /\ y.list = z.list /\ y.tk = z.tk /\ (y.bad = "none" => z.bad = "none")
    BY <1>6, <1>10, CheckKeeps DEF Asserts
  <1>12. Retimed(x, y, ToSet(x.list))
    BY <1>7, <1>11 DEF Retimed
  <1>. QED
    BY <1>6, <1>9, <1>10, <1>11, <1>12

LEMMA PutBeforeKeeps ==
    ASSUME NEW x \in Queue, x.list \in Lists, NEW t \in Tasks, t \notin ToSet(x.list),
           NEW k \in 1..Len(x.list), NEW start \in Ticks, NEW ticks \in Ticks
    PROVE  Requeued(x, t, PutBefore(x, t, k, start, ticks))
  <1> DEFINE til == x.list[k]
             left == U(x.tk[x.list[k - 1]].gap - (ticks - start))
             H == ToSet(x.list) \cup {t}
             y1 == IF k = 1 THEN x
                   ELSE Check([x EXCEPT !.tk[x.list[k - 1]].gap = left], left > 0, "no gap left")
             r == delay_tasks(y1, t, til)
             a == [r.q EXCEPT !.tk[t].gap = r.i]
             b == [y1 EXCEPT !.tk[t].gap = ticks - start]
             y2 == IF y1.bad # "none" THEN y1
                   ELSE IF ticks <= start THEN InsertBefore(a, t, r.target)
                   ELSE InsertBefore(b, t, til)
  <1>1. k \in Nat /\ Len(x.list) \in Nat /\ \A i \in 1..Len(x.list) : x.list[i] \in ToSet(x.list)
    BY ListType, SMTT(30) DEF ToSet
  <1>2. y1 \in Queue /\ y1.list = x.list /\ Retimed(x, y1, H)
    <2>1. CASE k = 1
      BY <2>1 DEF Retimed, SameTask
    <2>2. CASE k # 1
      <3>1. k - 1 \in 1..Len(x.list)
        BY <1>1, <2>2
      <3>2. PICK p \in Tasks : p = x.list[k - 1] /\ p \in H
        BY <1>1, <3>1, ListType
      <3>3. PICK n \in Ticks : n = left
        <4>1. PICK g \in Ticks : g = x.tk[x.list[k - 1]].gap
          BY <3>2, QueueType
        <4>2. g - (ticks - start) \in Int
          BY DEF Ticks
        <4>. QED
          BY <4>1, <4>2, WrapsToTicks
      <3> DEFINE z == [x EXCEPT !.tk[p].gap = n]
      <3>4. Reset(x, z, p, [x.tk[p] EXCEPT !.gap = n])
        BY TickSet
      <3>5. PICK c \in BOOLEAN : c <=> n > 0
        OBVIOUS
      <3>6. y1 = Check(z, c, "no gap left")
        BY <2>2, <3>2, <3>3, <3>5 DEF Check
      <3>. HIDE DEF z, y1
      <3>7. z \in Queue /\ z.list = x.list /\ Retimed(x, z, H)
        BY <3>2, <3>4, RetimedMore DEF Reset
      <3>8. y1 \in Queue /\ y1.list = z.list /\ y1.tk = z.tk
        BY <3>6, <3>7, CheckKeeps DEF Asserts
      <3>. QED
        BY <3>7, <3>8 DEF Retimed
    <2>. QED
      BY <2>1, <2>2
  <1>. HIDE DEF y1
  <1>3. t \notin From(x.list, k)
    <2>1. \A j \in k..Len(x.list) : j \in 1..Len(x.list)
      BY <1>1
    <2>. QED
      BY <1>1, <2>1 DEF From
  <1>4. /\ r.q \in Queue /\ r.q.list \in Lists /\ SameFrom(x.list, r.q.list, k)
        /\ r.target = r.q.list[k] /\ r.i \in Ticks
        /\ Retimed(y1, r.q, From(x.list, k) \cup {t})
    <2>1. PICK l : l = y1.list
      OBVIOUS
    <2>2. l \in Lists /\ k \in 1..Len(l) /\ t \notin From(l, k) /\ l = x.list
      BY <1>2, <1>3, <2>1
    <2>3. r = delay_tasks(y1, t, y1.list[k])
      BY <1>2
    <2>. HIDE DEF r
    <2>. QED
      BY <1>2, <2>1, <2>2, <2>3, delay_tasksKeeps
  <1>5. From(x.list, k) \cup {t} \subseteq H
    <2>1. \A j \in k..Len(x.list) : j \in 1..Len(x.list)
      BY <1>1
    <2>. QED
      BY <1>1, <2>1 DEF From
  <1>. HIDE DEF r, H
  <1>6. Retimed(x, r.q, H)
    BY <1>2, <1>4, <1>5, RetimedMore, RetimedTrans
  <1>7. t \in H /\ {t} \subseteq H /\ H = ToSet(x.list) \cup {t}
    BY DEF H
  <1>8. y1.bad = "none" /\ ticks <= start =>
           y2 \in Queue /\ y2.list \in Lists /\ ToSet(y2.list) = H /\ Retimed(x, y2, H)
    <2>. SUFFICES ASSUME y1.bad = "none", ticks <= start
                  PROVE  y2 \in Queue /\ y2.list \in Lists /\ ToSet(y2.list) = H /\ Retimed(x, y2, H)
      OBVIOUS
    <2>1. Reset(r.q, a, t, [r.q.tk[t] EXCEPT !.gap = r.i])
      BY <1>4, TickSet
    <2>. HIDE DEF a
    <2>8. Retimed(r.q, a, H)
      BY <1>7, <2>1, RetimedMore DEF Reset
    <2>2. a \in Queue /\ a.list = r.q.list /\ Retimed(x, a, H)
      BY <1>6, <2>1, <2>8, RetimedTrans DEF Reset
    <2>3. ToSet(a.list) = ToSet(x.list) /\ k \in 1..Len(a.list) /\ a.list \in Lists
      BY <1>4, <2>2, SameFromSet DEF SameFrom
    <2>4. PICK y : y = InsertBefore(a, t, a.list[k])
      OBVIOUS
    <2>5. y \in Queue /\ y.list \in Lists /\ ToSet(y.list) = ToSet(a.list) \cup {t} /\ y.tk = a.tk
      BY <2>2, <2>3, <2>4, InsertBeforeKeeps
    <2>6. y2 = y
      BY <1>4, <2>2, <2>4
    <2>7. Retimed(x, y, H)
      BY <2>2, <2>5 DEF Retimed
    <2>. HIDE DEF y2
    <2>. QED
      BY <1>7, <2>3, <2>5, <2>6, <2>7
  <1>9. y1.bad = "none" /\ ~(ticks <= start) =>
           y2 \in Queue /\ y2.list \in Lists /\ ToSet(y2.list) = H /\ Retimed(x, y2, H)
    <2>. SUFFICES ASSUME y1.bad = "none", ~(ticks <= start)
                  PROVE  y2 \in Queue /\ y2.list \in Lists /\ ToSet(y2.list) = H /\ Retimed(x, y2, H)
      OBVIOUS
    <2>1. PICK n \in Ticks : n = ticks - start
      BY ConfAssumption DEF Ticks
    <2>2. Reset(y1, b, t, [y1.tk[t] EXCEPT !.gap = n])
      BY <1>2, <2>1, TickSet
    <2>. HIDE DEF b
    <2>8. Retimed(y1, b, H)
      BY <1>7, <2>2, RetimedMore DEF Reset
    <2>3. b \in Queue /\ b.list = x.list /\ Retimed(x, b, H)
      BY <1>2, <2>2, <2>8, RetimedTrans DEF Reset
    <2>4. PICK y : y = InsertBefore(b, t, b.list[k])
      OBVIOUS
    <2>5. y \in Queue /\ y.list \in Lists /\ ToSet(y.list) = ToSet(b.list) \cup {t} /\ y.tk = b.tk
      <3>1. b.list \in Lists /\ k \in 1..Len(b.list) /\ t \notin ToSet(b.list)
        BY <2>3
      <3>2. /\ y \in Queue /\ y.tk = b.tk /\ y.list \in Lists
            /\ ToSet(y.list) = ToSet(b.list) \cup {t}
        BY <2>3, <2>4, <3>1, InsertBeforeKeeps, ZenonT(40)
      <3>. QED
        BY <3>2
    <2>6. y2 = y
      BY <2>3, <2>4
    <2>7. Retimed(x, y, H)
      BY <2>3, <2>5 DEF Retimed
    <2>. HIDE DEF y2
    <2>. QED
      BY <1>7, <2>3, <2>5, <2>6, <2>7
  <1>10. y1.bad # "none" => y2 = y1
    OBVIOUS
  <1>11. /\ y2 \in Queue /\ Retimed(x, y2, H)
         /\ y2.bad = "none" => y2.list \in Lists /\ ToSet(y2.list) = H
    <2>. HIDE DEF y2
    <2>. QED
      BY <1>2, <1>8, <1>9, <1>10
  <1>12. PutBefore(x, t, k, start, ticks) =
            IF y2.list[1] = t
            THEN apply_gap_head([y2 EXCEPT !.tk[t].gap_head = start], start)
            ELSE [y2 EXCEPT !.tk[t].gap_head = 0]
    BY DEF PutBefore, y1, r
  <1>. HIDE DEF y2
  <1>13. \A n \in Ticks :
            LET z == [y2 EXCEPT !.tk[t].gap_head = n]
            IN  z \in Queue /\ z.list = y2.list /\ z.bad = y2.bad /\ Retimed(x, z, H)
    <2>. SUFFICES ASSUME NEW n \in Ticks
                  PROVE  LET z == [y2 EXCEPT !.tk[t].gap_head = n]
                         IN  z \in Queue /\ z.list = y2.list /\ z.bad = y2.bad /\ Retimed(x, z, H)
      OBVIOUS
    <2> DEFINE z == [y2 EXCEPT !.tk[t].gap_head = n]
    <2>1. Reset(y2, z, t, [y2.tk[t] EXCEPT !.gap_head = n])
      BY <1>11, TickSet
    <2>. HIDE DEF z
    <2>2. Retimed(y2, z, H)
      BY <1>7, <2>1, RetimedMore DEF Reset
    <2>3. Retimed(x, z, H)
      BY <1>11, <2>2, RetimedTrans
    <2>. QED
      BY <2>1, <2>3 DEF Reset, z
  <1>14. PICK z0, z1 : z0 = [y2 EXCEPT !.tk[t].gap_head = 0] /\ z1 = [y2 EXCEPT !.tk[t].gap_head = start]
    OBVIOUS
  <1>15. /\ z0 \in Queue /\ z0.list = y2.list /\ z0.bad = y2.bad /\ Retimed(x, z0, H)
         /\ z1 \in Queue /\ z1.list = y2.list /\ z1.bad = y2.bad /\ Retimed(x, z1, H)
    <2>1. 0 \in Ticks
      BY ConfAssumption DEF Ticks
    <2>. QED
      BY <1>13, <1>14, <2>1
  <1>16. PICK y : y = apply_gap_head(z1, start)
    OBVIOUS
  <1>17. y \in Queue /\ y.list = z1.list /\ (y.bad = "none" => z1.bad = "none")
         /\ Retimed(z1, y, ToSet(z1.list))
    BY <1>15, <1>16, apply_gap_headKeeps
  <1>18. Requeued(x, t, y)
    <2>1. ASSUME y.bad = "none"
          PROVE  y.list \in Lists /\ ToSet(y.list) = H /\ Retimed(x, y, H)
      <3>1. y.list \in Lists /\ ToSet(y.list) = H
        BY <1>11, <1>15, <1>17, <2>1
      <3>2. Retimed(z1, y, H)
        BY <1>17, <3>1
      <3>. QED
        BY <1>15, <3>1, <3>2, RetimedTrans
    <2>. QED
      BY <1>7, <1>17, <2>1 DEF Requeued
  <1>19. Requeued(x, t, z0)
    BY <1>7, <1>11, <1>15 DEF Requeued
  <1>20. PutBefore(x, t, k, start, ticks) = IF y2.list[1] = t THEN y ELSE z0
    BY <1>12, <1>14, <1>16
  <1>. QED
    BY <1>18, <1>19, <1>20

LEMMA PutLastKeeps ==
    ASSUME NEW x \in Queue, x.list \in Lists, NEW t \in Tasks, t \notin ToSet(x.list),
           NEW start \in Ticks, NEW ticks \in Ticks
    PROVE  Requeued(x, t, PutLast(x, t, start, ticks))
  <1> DEFINE H == ToSet(x.list) \cup {t}
             q1 == IF x.list = <<>>
                   THEN [x EXCEPT !.tk[t].gap_head = start]
                   ELSE [x EXCEPT !.tk[t].gap_head = 0,
                                  !.tk[Last(x.list)].gap = U(@ - (ticks - start))]
  <1>1. q1 \in Queue /\ q1.list = x.list /\ Retimed(x, q1, H)
    <2>1. CASE x.list = <<>>
      <3> DEFINE z == [x EXCEPT !.tk[t].gap_head = start]
      <3>1. Reset(x, z, t, [x.tk[t] EXCEPT !.gap_head = start])
        BY TickSet
      <3>2. q1 = z
        BY <2>1
      <3>. HIDE DEF z, q1
      <3>3. {t} \subseteq H
        OBVIOUS
      <3>. QED
        BY <3>1, <3>2, <3>3, RetimedMore DEF Reset
    <2>2. CASE x.list # <<>>
      <3>1. PICK p \in Tasks : p = Last(x.list) /\ p \in ToSet(x.list)
        <4>1. Len(x.list) \in 1..Len(x.list)
          BY <2>2, ListType
        <4>. QED
          BY <4>1, ListType DEF Last, ToSet
      <3>2. PICK n \in Ticks : n = U(x.tk[p].gap - (ticks - start))
        <4>1. PICK g \in Ticks : g = x.tk[p].gap
          BY QueueType
        <4>2. g - (ticks - start) \in Int
          BY DEF Ticks
        <4>. QED
          BY <4>1, <4>2, WrapsToTicks
      <3> DEFINE y == [x EXCEPT !.tk[t].gap_head = 0]
                 z == [y EXCEPT !.tk[p].gap = n]
      <3>3. 0 \in Ticks /\ p # t
        BY <3>1, ConfAssumption DEF Ticks
      <3>4. Reset(x, y, t, [x.tk[t] EXCEPT !.gap_head = 0])
        BY <3>3, TickSet
      <3>5. q1 = z
        <4>1. q1 = [x EXCEPT !.tk[t].gap_head = 0, !.tk[p].gap = U(@ - (ticks - start))]
          BY <2>2, <3>1
        <4>. HIDE DEF q1
        <4>. QED
          BY <3>2, <4>1
      <3>6. y \in Queue
        BY <3>4 DEF Reset
      <3>. HIDE DEF y, q1
      <3>7. Reset(y, z, p, [y.tk[p] EXCEPT !.gap = n])
        BY <3>6, TickSet
      <3>. HIDE DEF z
      <3>8. {t} \subseteq H /\ {p} \subseteq H
        BY <3>1
      <3>9. Retimed(x, y, H) /\ Retimed(y, z, H)
        BY <3>4, <3>7, <3>8, RetimedMore DEF Reset
      <3>. QED
        BY <3>4, <3>5, <3>7, <3>9, RetimedTrans DEF Reset
    <2>. QED
      BY <2>1, <2>2
  <1>. HIDE DEF q1
  <1>2. PICK d \in Ticks : d = x.tk[t].det_remain
    BY QueueType
  <1>3. PICK m : m = Append(x.list, t)
    OBVIOUS
  <1>4. m \in Lists /\ ToSet(m) = H /\ m \in Seq(Tasks)
    BY <1>3, AppendKeeps DEF Lists
  <1> DEFINE y == [q1 EXCEPT !.tk[t].gap = d]
             z == [y EXCEPT !.list = m]
  <1>5. Reset(q1, y, t, [q1.tk[t] EXCEPT !.gap = d])
    BY <1>1, TickSet
  <1>6. PutLast(x, t, start, ticks) = z
    <2>1. PutLast(x, t, start, ticks)
            = [q1 EXCEPT !.tk[t].gap = x.tk[t].det_remain, !.list = Append(@, t)]
      BY DEF PutLast, q1
    <2>2. Append(q1.list, t) = m
      BY <1>1, <1>3
    <2>. QED
      BY <1>2, <2>1, <2>2
  <1>. HIDE DEF y
  <1>7. z \in Queue /\ z.list = m /\ z.tk = y.tk
    BY <1>4, <1>5 DEF Reset, Queue
  <1>. HIDE DEF z
  <1>8. Retimed(q1, y, H)
    BY <1>5, RetimedMore DEF Reset
  <1>9. Retimed(x, y, H)
    BY <1>1, <1>8, RetimedTrans
  <1>10. Retimed(x, z, H)
    BY <1>7, <1>9 DEF Retimed
  <1>. QED
    BY <1>4, <1>6, <1>7, <1>10 DEF Requeued

(* The loop of requeue_task, in the terms of LoopComputes. *)
RequeueStates == [q : Queue, t : Tasks, k : Nat \ {0}, start : Ticks, ticks : Ticks]

RunsBefore(s) ==
    \/ s.start < s.ticks
    \/ s.start = s.ticks /\ is_preceding_task(s.q.tk, s.t, s.q.list[s.k])

NextPlace(s) ==
    LET til == s.q.list[s.k]
        n   == NewStart(s.q.tk, s.t, til)
    IN  [s EXCEPT !.q.tk[s.t].deadline = U(@ - n),
                  !.k = @ + 1,
                  !.start = U(@ + n),
                  !.ticks = U(@ + s.q.tk[til].gap_head + s.q.tk[til].gap)]

RequeueGo   == {s \in RequeueStates : ~(s.k > Len(s.q.list)) /\ ~RunsBefore(s)}
RequeueStep == [s \in RequeueGo |-> NextPlace(s)]
RequeueBase == [s \in RequeueStates |->
                   IF s.k > Len(s.q.list) THEN PutLast(s.q, s.t, s.start, s.ticks)
                   ELSE PutBefore(s.q, s.t, s.k, s.start, s.ticks)]
RequeueRank == [s \in RequeueStates |->
                   IF s.k > Len(s.q.list) THEN 0 ELSE Len(s.q.list) + 1 - s.k]

LEMMA NextPlaceKeeps ==
    ASSUME NEW s \in RequeueGo
    PROVE  /\ NextPlace(s) \in RequeueStates
           /\ NextPlace(s).t = s.t /\ NextPlace(s).k = s.k + 1
           /\ NextPlace(s).q.list = s.q.list
           /\ Retimed(s.q, NextPlace(s).q, {s.t})
  <1>1. /\ s.q \in Queue /\ s.t \in Tasks /\ s.k \in Nat \ {0} /\ s.start \in Ticks /\ s.ticks \in Ticks
        /\ ~(s.k > Len(s.q.list))
    BY DEF RequeueGo, RequeueStates
  <1>2. PICK til \in Tasks : til = s.q.list[s.k]
    <2>1. s.k \in 1..Len(s.q.list) /\ s.q.list \in Seq(Tasks)
      BY <1>1, QueueType
    <2>. QED
      BY <2>1
  <1>3. PICK n \in Ticks : n = NewStart(s.q.tk, s.t, til)
    BY <1>1, NewStartType
  <1>4. PICK d \in Ticks : d = U(s.q.tk[s.t].deadline - n)
    <2>1. PICK e \in Ticks : e = s.q.tk[s.t].deadline
      BY <1>1, QueueType
    <2>. QED
      BY <2>1, WrapsToTicks DEF Ticks
  <1>5. PICK b \in Ticks : b = U(s.start + n)
    BY <1>1, WrapsToTicks DEF Ticks
  <1>6. PICK c \in Ticks : c = U(s.ticks + s.q.tk[til].gap_head + s.q.tk[til].gap)
    <2>1. PICK e \in Ticks, f \in Ticks : e = s.q.tk[til].gap_head /\ f = s.q.tk[til].gap
      BY <1>1, QueueType
    <2>2. s.ticks + e + f \in Int
      BY <1>1 DEF Ticks
    <2>3. U(s.ticks + e + f) \in Ticks
      BY <2>2, WrapsToTicks
    <2>. QED
      BY <2>1, <2>3
  <1> DEFINE y == [s.q EXCEPT !.tk[s.t].deadline = d]
             v == NextPlace(s)
  <1>7. Reset(s.q, y, s.t, [s.q.tk[s.t] EXCEPT !.deadline = d])
    BY <1>1, TickSet, Zenon
  <1>8. v = [s EXCEPT !.q = y, !.k = s.k + 1, !.start = b, !.ticks = c]
    BY <1>2, <1>3, <1>4, <1>5, <1>6, Zenon DEF NextPlace
  <1>. HIDE DEF y
  <1>9. s = [q |-> s.q, t |-> s.t, k |-> s.k, start |-> s.start, ticks |-> s.ticks]
    BY DEF RequeueGo, RequeueStates
  <1>. HIDE DEF v
  <1>10. /\ v.q = y /\ v.t = s.t /\ v.k = s.k + 1 /\ v.start = b /\ v.ticks = c
         /\ v = [f \in {"q", "t", "k", "start", "ticks"} |-> v[f]]
    BY <1>8, <1>9
  <1>11. v \in RequeueStates
    <2>1. y \in Queue /\ s.k + 1 \in Nat \ {0}
      BY <1>1, <1>7 DEF Reset
    <2>. QED
      BY <1>1, <1>10, <2>1 DEF RequeueStates
  <1>. QED
    BY <1>7, <1>10, <1>11 DEF Reset, v

LEMMA RequeueTerminates == Terminates(RequeueStates, RequeueGo, RequeueStep, RequeueRank)
  <1>1. \A s \in RequeueStates : Len(s.q.list) \in Nat /\ s.k \in Nat \ {0}
    BY QueueType DEF RequeueStates
  <1>2. RequeueRank \in [RequeueStates -> Nat]
    BY <1>1 DEF RequeueRank
  <1>3. RequeueStep \in [RequeueGo -> RequeueStates]
    BY NextPlaceKeeps DEF RequeueStep
  <1>4. ASSUME NEW s \in RequeueGo PROVE RequeueRank[RequeueStep[s]] < RequeueRank[s]
    <2>1. PICK v : v = NextPlace(s)
      OBVIOUS
    <2>2. v \in RequeueStates /\ v.k = s.k + 1 /\ v.q.list = s.q.list
      BY <2>1, NextPlaceKeeps
    <2>3. s \in RequeueStates /\ ~(s.k > Len(s.q.list))
      BY DEF RequeueGo
    <2>4. RequeueRank[s] = Len(s.q.list) + 1 - s.k
      BY <2>3 DEF RequeueRank
    <2>5. RequeueRank[v] = IF s.k + 1 > Len(s.q.list) THEN 0 ELSE Len(s.q.list) + 1 - (s.k + 1)
      BY <2>2 DEF RequeueRank
    <2>6. RequeueStep[s] = v
      BY <2>1 DEF RequeueStep
    <2>. QED
      BY <1>1, <2>3, <2>4, <2>5, <2>6
  <1>. QED
    BY <1>2, <1>3, <1>4 DEF Terminates

LEMMA RequeueComputes == Computes(requeue, RequeueStates, RequeueGo, RequeueStep, RequeueBase)
  <1>1. RequeueGo \in SUBSET RequeueStates
    BY DEF RequeueGo
  <1>2. \E f : Computes(f, RequeueStates, RequeueGo, RequeueStep, RequeueBase)
    BY <1>1, RequeueTerminates, LoopComputes
  <1>3. ASSUME NEW f
        PROVE  Computes(f, RequeueStates, RequeueGo, RequeueStep, RequeueBase) <=>
                  f = [s \in [q : Queue, t : Tasks, k : Nat \ {0}, start : Ticks, ticks : Ticks] |->
                        IF s.k > Len(s.q.list) THEN PutLast(s.q, s.t, s.start, s.ticks)
                        ELSE IF RunsBefore(s) THEN PutBefore(s.q, s.t, s.k, s.start, s.ticks)
                        ELSE f[NextPlace(s)]]
    <2>1. ASSUME NEW s \in RequeueStates
          PROVE  (IF s \in RequeueGo THEN f[RequeueStep[s]] ELSE RequeueBase[s])
                  = IF s.k > Len(s.q.list) THEN PutLast(s.q, s.t, s.start, s.ticks)
                    ELSE IF RunsBefore(s) THEN PutBefore(s.q, s.t, s.k, s.start, s.ticks)
                    ELSE f[NextPlace(s)]
      BY DEF RequeueGo, RequeueStep, RequeueBase
    <2>. QED
      BY <2>1 DEF Computes, RequeueStates
  <1>4. requeue = [s \in [q : Queue, t : Tasks, k : Nat \ {0}, start : Ticks, ticks : Ticks] |->
                        IF s.k > Len(s.q.list) THEN PutLast(s.q, s.t, s.start, s.ticks)
                        ELSE IF RunsBefore(s) THEN PutBefore(s.q, s.t, s.k, s.start, s.ticks)
                        ELSE requeue[NextPlace(s)]]
    BY <1>2, <1>3, ZenonT(40) DEF requeue, RunsBefore, NextPlace
  <1>. QED
    BY <1>3, <1>4

(* requeue_task's loop puts t on the list, once. *)
LEMMA requeueKeeps ==
    ASSUME NEW x \in Queue, x.list \in Lists, NEW t \in Tasks, t \notin ToSet(x.list),
           NEW start \in Ticks, NEW ticks \in Ticks
    PROVE  Requeued(x, t, requeue_from(x, t, start, ticks))
  <1> DEFINE P == {s \in RequeueStates :
                     s.t = t /\ s.q.list = x.list /\ Retimed(x, s.q, {t})}
             Q == {y \in Queue : Requeued(x, t, y)}
             s0 == [q |-> x, t |-> t, k |-> 1, start |-> start, ticks |-> ticks]
  <1>1. ASSUME NEW s \in P \cap RequeueGo PROVE RequeueStep[s] \in P
    <2>1. /\ NextPlace(s) \in RequeueStates /\ NextPlace(s).t = s.t
          /\ NextPlace(s).q.list = s.q.list /\ Retimed(s.q, NextPlace(s).q, {s.t})
      BY NextPlaceKeeps
    <2>2. Retimed(x, NextPlace(s).q, {t})
      BY <2>1, RetimedTrans
    <2>. QED
      BY <2>1, <2>2 DEF RequeueStep
  <1>2. ASSUME NEW s \in P \ RequeueGo PROVE RequeueBase[s] \in Q
    <2>1. /\ s.q \in Queue /\ s.q.list = x.list /\ s.q.list \in Lists /\ s.t = t
          /\ t \notin ToSet(s.q.list)
          /\ s.k \in Nat \ {0} /\ s.start \in Ticks /\ s.ticks \in Ticks /\ Retimed(x, s.q, {t})
      BY DEF RequeueStates
    <2>2. PICK y : y = RequeueBase[s]
      OBVIOUS
    <2>3. Requeued(s.q, t, y)
      <3>1. CASE s.k > Len(s.q.list)
        <4>1. y = PutLast(s.q, t, s.start, s.ticks)
          BY <2>1, <2>2, <3>1 DEF RequeueBase
        <4>. QED
          BY <2>1, <4>1, PutLastKeeps
      <3>2. CASE ~(s.k > Len(s.q.list))
        <4>1. y = PutBefore(s.q, t, s.k, s.start, s.ticks)
          BY <2>1, <2>2, <3>2 DEF RequeueBase
        <4>2. s.k \in 1..Len(s.q.list)
          BY <2>1, <3>2, ListType
        <4>. QED
          BY <2>1, <4>1, <4>2, PutBeforeKeeps
      <3>. QED
        BY <3>1, <3>2
    <2>4. Requeued(x, t, y)
      <3>1. PICK H : H = ToSet(x.list) \cup {t} /\ {t} \subseteq H
        OBVIOUS
      <3>2. Retimed(x, s.q, H)
        BY <2>1, <3>1, RetimedMore
      <3>3. y.bad = "none" => Retimed(x, y, H)
        BY <2>1, <2>3, <3>1, <3>2, RetimedTrans DEF Requeued
      <3>. QED
        BY <2>1, <2>3, <3>1, <3>3 DEF Requeued
    <2>. QED
      BY <2>2, <2>4 DEF Requeued
  <1>3. s0 \in P
    <2>1. Retimed(x, x, {t})
      BY DEF Retimed, SameTask
    <2>2. s0 \in RequeueStates
      BY DEF RequeueStates
    <2>. QED
      BY <2>1, <2>2
  <1>4. P \in SUBSET RequeueStates /\ RequeueGo \in SUBSET RequeueStates
    BY DEF RequeueGo
  <1>. HIDE DEF P, Q
  <1>5. TurnsKeep(P, Q, RequeueGo, RequeueStep, RequeueBase)
    BY <1>1, <1>2 DEF TurnsKeep
  <1>6. PICK D, f : D = RequeueStates /\ f = requeue
    OBVIOUS
  <1>7. /\ RequeueGo \in SUBSET D /\ Terminates(D, RequeueGo, RequeueStep, RequeueRank)
        /\ Computes(f, D, RequeueGo, RequeueStep, RequeueBase) /\ P \in SUBSET D
    BY <1>4, <1>6, RequeueTerminates, RequeueComputes
  <1>8. \A s \in P : f[s] \in Q
    BY <1>5, <1>7, LoopResult, ZenonT(40)
  <1>9. requeue[s0] \in Q
    BY <1>3, <1>6, <1>8
  <1>. QED
    BY <1>9 DEF requeue_from, Q

(* requeue_task puts a task that is off the list back on it, once, and     *)
(* changes nothing of any task but its tick counts: no job is lost.        *)
THEOREM RequeueKeepsTasks ==
    ASSUME NEW x \in Queue, x.list \in Lists, NEW t \in Tasks, t \notin ToSet(x.list),
           NEW ticks \in Ticks
    PROVE  Requeued(x, t, requeue_task(x, t, ticks))
  <1> DEFINE T    == x.tk[t]
             now  == U(T.gap_head + T.deadline)
             next == U(T.deadline + T.period)
             y0   == [x EXCEPT !.tk[t].deadline = U(next - now), !.tk[t].det_remain = T.det]
             y1   == Check(y0, next >= now, "next deadline passed")
  <1>1. PICK d \in Ticks, e \in Ticks, r \in Ticks : d = T.deadline /\ e = T.gap_head /\ r = T.det
    BY QueueType
  <1>2. PICK n \in Ticks : n = now
    <2>1. e + d \in Int
      BY DEF Ticks
    <2>. QED
      BY <1>1, <2>1, WrapsToTicks
  <1>3. PICK m \in Ticks : m = next
    <2>1. T.period \in Nat
      BY QueueType DEF TaskType
    <2>2. d + T.period \in Int
      BY <2>1 DEF Ticks
    <2>. QED
      BY <1>1, <2>2, WrapsToTicks
  <1>4. PICK v \in Ticks : v = U(m - n)
    BY WrapsToTicks DEF Ticks
  <1> DEFINE a == [x EXCEPT !.tk[t].deadline = v]
             b == [a EXCEPT !.tk[t].det_remain = r]
  <1>5. Reset(x, a, t, [T EXCEPT !.deadline = v])
    BY TickSet
  <1>6. y0 = b
    BY <1>1, <1>2, <1>3, <1>4
  <1>7. a \in Queue
    BY <1>5 DEF Reset
  <1>. HIDE DEF a, y0
  <1>8. Reset(a, b, t, [a.tk[t] EXCEPT !.det_remain = r])
    BY <1>7, TickSet
  <1>. HIDE DEF b
  <1>9. b \in Queue /\ b.list = x.list /\ Retimed(x, b, {t})
    BY <1>5, <1>8, RetimedTrans DEF Reset
  <1>10. PICK c \in BOOLEAN : c <=> next >= now
    OBVIOUS
  <1>11. y1 = Check(b, c, "next deadline passed")
    BY <1>6, <1>10 DEF Check
  <1>. HIDE DEF y1
  <1>12. PICK y : y = y1
    OBVIOUS
  <1>13. y \in Queue /\ y.list = x.list /\ y.tk = b.tk
    BY <1>9, <1>11, <1>12, CheckKeeps DEF Asserts
  <1>14. Retimed(x, y, {t})
    BY <1>9, <1>13 DEF Retimed
  <1>15. requeue_task(x, t, ticks) = IF T.det_remain # 0 THEN requeue_from(x, t, 0, ticks)
                                     ELSE IF y.bad = "none" THEN requeue_from(y, t, n, ticks)
                                     ELSE y
    <2>1. requeue_task(x, t, ticks) = IF T.det_remain # 0 THEN requeue_from(x, t, 0, ticks)
                                      ELSE IF y1.bad = "none" THEN requeue_from(y1, t, now, ticks)
                                      ELSE y1
      BY DEF requeue_task, y0, y1
    <2>. QED
      BY <1>2, <1>12, <2>1
  <1>16. 0 \in Ticks
    BY ConfAssumption DEF Ticks
  <1>17. Requeued(x, t, requeue_from(x, t, 0, ticks))
    BY <1>16, requeueKeeps
  <1>18. Requeued(x, t, requeue_from(y, t, n, ticks))
    <2>1. y.list \in Lists /\ t \notin ToSet(y.list)
      BY <1>13
    <2>2. PICK z : z = requeue_from(y, t, n, ticks)
      OBVIOUS
    <2>3. Requeued(y, t, z)
      BY <1>13, <2>1, <2>2, requeueKeeps
    <2>4. PICK H : H = ToSet(x.list) \cup {t} /\ {t} \subseteq H
      OBVIOUS
    <2>5. Retimed(x, y, H)
      BY <1>14, <2>4, RetimedMore
    <2>6. z.bad = "none" => Retimed(x, z, H)
      BY <1>13, <2>3, <2>4, <2>5, RetimedTrans DEF Requeued
    <2>. QED
      BY <1>13, <2>2, <2>3, <2>4, <2>6 DEF Requeued
  <1>19. y.bad # "none" => Requeued(x, t, y)
    BY <1>13 DEF Requeued
  <1>. QED
    BY <1>15, <1>17, <1>18, <1>19

----------------------------------------------------------------------------
(* The frequencies and memories of the configuration. *)
LEMMA Constants ==
    /\ UMod \in Nat /\ UMod > 0 /\ 0 \in Ticks /\ Ticks \subseteq Nat
    /\ n_cpufreqs \in Nat /\ 1 \in 1..n_cpufreqs /\ n_cpufreqs \in 1..n_cpufreqs
    /\ \A f \in 1..n_cpufreqs : FreqScale[f] \in Nat \ {0} /\ IdlePower[f] \in Nat
    /\ \A i \in {1, 2} : MemScale[MemTypeOrder[i]] \in Nat \ {0}
  <1>1. UMod \in Nat /\ UMod > 0
    BY ConfAssumption
  <1>2. n_cpufreqs \in Nat /\ n_cpufreqs >= 1
    BY ConfAssumption DEF n_cpufreqs
  <1>3. \A f \in 1..n_cpufreqs : FreqScale[f] \in Nat \ {0} /\ IdlePower[f] \in Nat
    <2>1. PICK S, s : S = Nat \ {0} /\ s = FreqScale
      OBVIOUS
    <2>4. s \in Seq(S)
      BY <2>1, ConfAssumption
    <2>2. \A f \in 1..Len(s) : s[f] \in S
      BY <2>4
    <2>3. \A f \in 1..n_cpufreqs : IdlePower[f] \in Nat
      BY ConfAssumption
    <2>. QED
      BY <2>1, <2>2, <2>3 DEF n_cpufreqs
  <1>4. PICK o \in Seq(MemTypes) : o = MemTypeOrder /\ ToSet(o) = MemTypes
    BY ConfAssumption
  <1>5. Len(o) \in Nat /\ DOMAIN o = 1..Len(o) /\ \A i \in 1..Len(o) : o[i] \in MemTypes
    OBVIOUS
  <1>6. PICK i \in 1..Len(o), j \in 1..Len(o) : o[i] = "dram" /\ o[j] = "nvram"
    BY <1>4, <1>5 DEF ToSet, MemTypes
  <1>7. i # j
    BY <1>6
  <1>8. Len(o) >= 2
    BY <1>5, <1>7
  <1>9. \A k \in {1, 2} : o[k] \in MemTypes
    BY <1>5, <1>8
  <1>10. \A k \in {1, 2} : MemScale[MemTypeOrder[k]] \in Nat \ {0}
    BY <1>4, <1>9, ConfAssumption
  <1>. QED
    BY <1>1, <1>2, <1>3, <1>10 DEF Ticks

LEMMA Products ==
    /\ \A a, b \in Nat : a * b \in Nat
    /\ \A a, b \in Nat \ {0} : a * b \in Nat \ {0}
  <1>1. ASSUME NEW a \in Nat, NEW b \in Nat PROVE a * b \in Nat
    OBVIOUS
  <1>2. ASSUME NEW a \in Nat \ {0}, NEW b \in Nat \ {0} PROVE a * b \in Nat \ {0}
    OBVIOUS
  <1>. QED
    BY <1>1, <1>2

LEMMA Quotients ==
    \A a \in Nat, b \in Nat \ {0} : a \div b \in Nat
  <1>. SUFFICES ASSUME NEW a \in Nat, NEW b \in Nat \ {0} PROVE a \div b \in Nat
    OBVIOUS
  <1>1. a \div b \in Int
    OBVIOUS
  <1>2. a = b * (a \div b) + (a % b) /\ a % b < b /\ a % b \in Nat
    OBVIOUS
  <1>3. PICK d \in Int : d = a \div b
    BY <1>1
  <1>4. d < 0 => b * d <= -b
    <2>1. d < 0 => d <= -1
      OBVIOUS
    <2>. QED
      BY <2>1
  <1>. QED
    BY <1>2, <1>3, <1>4

(* A set-up task has a frequency, a memory and an execution time; the      *)
(* execution time of a task is an unsigned at every speed.                 *)
IsSetUp(T) ==
    /\ T.idx_cpufreq \in 1..n_cpufreqs /\ T.mem_type \in MemTypes
    /\ T.det \in Ticks \ {0}

Timeable(T) == \A f \in 1..n_cpufreqs, m \in MemTypes : Det(T.wcet, f, m) \in Ticks

LEMMA RoundDivType ==
    \A n \in Nat, d \in Nat \ {0} : RoundDiv(n, d) \in Nat
  <1>. SUFFICES ASSUME NEW n \in Nat, NEW d \in Nat \ {0} PROVE RoundDiv(n, d) \in Nat
    OBVIOUS
  <1>1. 2 * n + d \in Nat /\ 2 * d \in Nat \ {0}
    OBVIOUS
  <1>. QED
    BY <1>1, Quotients DEF RoundDiv

LEMMA ScaleType ==
    \A f \in 1..n_cpufreqs, m \in MemTypes : Scale(f, m) \in Nat \ {0}
  <1>. SUFFICES ASSUME NEW f \in 1..n_cpufreqs, NEW m \in MemTypes PROVE Scale(f, m) \in Nat \ {0}
    OBVIOUS
  <1>1. PICK i \in {1, 2} : i = IF m = "dram" THEN 1 ELSE 2
    OBVIOUS
  <1>2. PICK a \in Nat \ {0}, b \in Nat \ {0} : a = FreqScale[f] /\ b = MemScale[MemTypeOrder[i]]
    BY Constants
  <1>3. a * b \in Nat \ {0}
    BY Products
  <1>4. Scale(f, m) = a * b
    BY <1>1, <1>2 DEF Scale
  <1>. QED
    BY <1>3, <1>4

(* A task runs for at least a tick. *)
LEMMA DetPositive ==
    \A w \in Nat, f \in 1..n_cpufreqs, m \in MemTypes : Det(w, f, m) \in Nat \ {0}
  <1>. SUFFICES ASSUME NEW w \in Nat, NEW f \in 1..n_cpufreqs, NEW m \in MemTypes
                PROVE  Det(w, f, m) \in Nat \ {0}
    OBVIOUS
  <1>1. PICK d \in Nat \ {0} : d = Scale(f, m)
    BY ScaleType
  <1>2. PICK r \in Nat : r = RoundDiv(w * 10000, d)
    BY RoundDivType
  <1>3. Max({1, r}) \in {1, r} /\ Max({1, r}) >= 1
    BY DEF Max
  <1>4. Det(w, f, m) = Max({1, r})
    BY <1>1, <1>2 DEF Det
  <1>. QED
    BY <1>3, <1>4

(* Whatever it computes, calc_task_det leaves the frequency and the memory it  *)
(* was asked for in the task.                                                  *)
LEMMA calc_task_detPlaces ==
    ASSUME NEW T \in TaskType, NEW f, NEW m
    PROVE  calc_task_det(T, f, m).mem_type = m /\ calc_task_det(T, f, m).idx_cpufreq = f
  <1>1. \A d, r : LET x == [T EXCEPT !.idx_cpufreq = f, !.mem_type = m, !.det = d, !.det_remain = r]
                 IN  x.mem_type = m /\ x.idx_cpufreq = f
    BY DEF TaskType
  <1>2. PICK d : d = Det(T.wcet, f, m)
    BY Zenon
  <1>. QED
    BY <1>1, <1>2 DEF calc_task_det

(* calc_task_det of a task that is set up, or not yet started: only its    *)
(* frequency, its memory and its times change, and they are unsigned.      *)
LEMMA calc_task_detKeeps ==
    ASSUME NEW T \in TaskType, Timeable(T), T.det_remain > 0 => T.det # 0,
           NEW f \in 1..n_cpufreqs, NEW m \in MemTypes,
           NEW new, new = calc_task_det(T, f, m), det_asserts(T, new)
    PROVE  /\ new \in TaskType /\ IsSetUp(new) /\ Timeable(new)
           /\ new.idx_cpufreq = f /\ new.mem_type = m
           /\ new.wcet = T.wcet /\ new.period = T.period /\ new.gap_head = T.gap_head
           /\ new.gap = T.gap /\ new.deadline = T.deadline
           /\ T.det_remain = 0 => new.det_remain = 0
  <1> DEFINE det == Det(T.wcet, f, m)
             left == IF T.det_remain > 0 /\ det # T.det
                     THEN RoundDiv(T.det_remain * T.wcet * 10000, Scale(f, m) * T.det)
                     ELSE T.det_remain
  <1>1. /\ T.wcet \in Nat /\ T.det \in Ticks /\ T.det_remain \in Ticks
        /\ T.gap_head \in Ticks /\ T.gap \in Ticks /\ T.deadline \in Ticks
        /\ T.period \in Nat
    BY DEF TaskType
  <1>2. PICK d \in Ticks \ {0} : d = det
    <2>1. det \in Nat \ {0}
      BY <1>1, DetPositive
    <2>2. det \in Ticks
      BY DEF Timeable
    <2>. QED
      BY <2>1, <2>2
  <1>3. PICK r : r = left
    OBVIOUS
  <1>4. new = [T EXCEPT !.idx_cpufreq = f, !.mem_type = m, !.det = d, !.det_remain = r]
    BY <1>2, <1>3 DEF calc_task_det
  <1>5. /\ new.idx_cpufreq = f /\ new.mem_type = m /\ new.det = d /\ new.det_remain = r
        /\ new.wcet = T.wcet /\ new.period = T.period /\ new.gap_head = T.gap_head
        /\ new.gap = T.gap /\ new.deadline = T.deadline
    BY <1>4 DEF TaskType
  <1>6. r \in Ticks /\ (T.det_remain = 0 => r = 0)
    <2>1. CASE T.det_remain > 0 /\ d # T.det
      <3>1. PICK a \in Nat, b \in Nat \ {0}, w \in Nat, s \in Nat \ {0} :
               a = T.det_remain /\ b = T.det /\ w = T.wcet /\ s = Scale(f, m)
        BY <1>1, <2>1, ScaleType, Constants
      <3>2. a * w \in Nat /\ s * b \in Nat \ {0}
        BY Products
      <3>3. a * w * 10000 \in Nat
        BY <3>2
      <3>4. RoundDiv(a * w * 10000, s * b) \in Nat
        <4>1. PICK u \in Nat, v \in Nat \ {0} : u = a * w * 10000 /\ v = s * b
          BY <3>2, <3>3
        <4>2. RoundDiv(u, v) \in Nat
          BY RoundDivType
        <4>. QED
          BY <4>1, <4>2
      <3>5. r = RoundDiv(a * w * 10000, s * b)
        BY <1>2, <1>3, <2>1, <3>1
      <3>6. r \in Nat /\ r <= d
        BY <1>5, <2>1, <3>4, <3>5 DEF det_asserts
      <3>7. T.det_remain # 0
        BY <2>1
      <3>. QED
        BY <3>6, <3>7, Constants DEF Ticks
    <2>2. CASE ~(T.det_remain > 0 /\ d # T.det)
      BY <1>1, <1>2, <1>3, <2>2
    <2>. QED
      BY <2>1, <2>2
  <1>7. f \in Nat /\ d \in Ticks
    BY Constants
  <1>8. new \in TaskType
    BY <1>1, <1>4, <1>6, <1>7 DEF TaskType
  <1>9. IsSetUp(new)
    BY <1>5 DEF IsSetUp
  <1>10. Timeable(new)
    BY <1>5 DEF Timeable
  <1>. QED
    BY <1>5, <1>6, <1>8, <1>9, <1>10

LEMMA PolicyType ==
    ASSUME NEW p \in DOMAIN AllPolicies
    PROVE  AllPolicies[p] \in Policies /\ (AllPolicies[p] = "dram" => p = 4)
  <1>1. DOMAIN AllPolicies = 1..6
    BY DEF AllPolicies
  <1>2. p \in {1, 2, 3, 4, 5, 6}
    BY <1>1
  <1>. QED
    BY <1>2 DEF AllPolicies, Policies

(* Set-up puts a task where there is room. *)
LEMMA AssignedMemType ==
    ASSUME NEW p \in Policies, NEW ledger, NEW t \in Tasks, Assignable(p, ledger, t)
    PROVE  AssignedMem(p, ledger, t) \in MemTypes
  <1>1. PICK ord : ord = AssignOrder(p, t)
    OBVIOUS
  <1>2. DOMAIN ord \in SUBSET Nat /\ \A i \in DOMAIN ord : ord[i] \in MemTypes
    <2>1. FixedMem[t] \in MemTypes /\ "dram" \in MemTypes /\ "nvram" \in MemTypes
      BY PolicyAssumption DEF MemTypes
    <2>2. ord = <<"dram", "nvram">> \/ ord = <<"dram">> \/ ord = <<FixedMem[t]>>
      BY <1>1 DEF AssignOrder, Policies
    <2>. QED
      BY <2>1, <2>2
  <1> DEFINE fits(i) == Fits(p, ledger, t, ord[i])
             Room == {i \in DOMAIN ord : fits(i)}
  <1>3. Room # {} /\ Room \in SUBSET Nat
    BY <1>1, <1>2 DEF Assignable
  <1>4. PICK i \in Room : \A j \in Room : i <= j
    BY <1>3, LeastExists
  <1>5. \A j \in 1..(i - 1) : ~fits(j)
    <2>1. DOMAIN ord = 1..2 \/ DOMAIN ord = 1..1
      BY <1>1 DEF AssignOrder, Policies
    <2>2. i \in DOMAIN ord /\ \A j \in 1..(i - 1) : j \in DOMAIN ord /\ ~(i <= j)
      BY <2>1
    <2>. QED
      BY <1>4, <2>2
  <1>6. \E k \in DOMAIN ord : fits(k) /\ \A j \in 1..(k - 1) : ~fits(j)
    BY <1>4, <1>5
  <1>7. PICK n : n = CHOOSE k \in DOMAIN ord : fits(k) /\ \A j \in 1..(k - 1) : ~fits(j)
    OBVIOUS
  <1>8. n \in DOMAIN ord
    BY <1>6, <1>7, Zenon
  <1>9. AssignedMem(p, ledger, t) = ord[n]
    BY <1>1, <1>7 DEF AssignedMem
  <1>. QED
    BY <1>2, <1>8, <1>9

LEMMA AssignedFreqType ==
    ASSUME NEW p \in Policies, NEW t \in Tasks, p = "dram" => n_cpufreqs >= 2
    PROVE  AssignedFreq(p, t) \in 1..n_cpufreqs
  <1>1. FixedFreq[t] \in 0..(n_cpufreqs - 1) /\ n_cpufreqs \in Nat /\ 1 \in 1..n_cpufreqs
    BY PolicyAssumption, Constants
  <1>2. FixedFreq[t] + 1 \in 1..n_cpufreqs
    BY <1>1
  <1>3. p = "dram" => 2 \in 1..n_cpufreqs
    BY <1>1
  <1>. QED
    BY <1>1, <1>2, <1>3 DEF AssignedFreq

(* The ledger of unsigned counts. *)
Ledgers == [MemTypes -> 0..(UMod - 1)]

LEMMA LedgerType ==
    ASSUME NEW ledger \in Ledgers, NEW t \in Tasks
    PROVE  /\ \A m \in MemTypes : Charge(ledger, t, m) \in Ledgers /\ Release(ledger, t, m) \in Ledgers
           /\ \A p, S : MovedAmount(p, ledger, t, S) \in Ledgers
  <1>1. MemReq[t] \in Nat /\ \A m \in MemTypes : ledger[m] \in Nat
    BY ConfAssumption, Constants DEF Ledgers, Ticks
  <1>2. \A m \in MemTypes : (ledger[m] + MemReq[t]) % UMod \in 0..(UMod - 1)
                            /\ (ledger[m] - MemReq[t]) % UMod \in 0..(UMod - 1)
    <2>. SUFFICES ASSUME NEW a \in Nat, NEW b \in Nat
                  PROVE  (a + b) % UMod \in 0..(UMod - 1) /\ (a - b) % UMod \in 0..(UMod - 1)
      BY <1>1
    <2>1. a + b \in Int /\ a - b \in Int
      OBVIOUS
    <2>. QED
      BY <2>1, WrapsToTicks DEF U, Ticks
  <1>3. ASSUME NEW m \in MemTypes
        PROVE  Charge(ledger, t, m) \in Ledgers /\ Release(ledger, t, m) \in Ledgers
    BY <1>2 DEF Charge, Release, Ledgers
  <1>4. ASSUME NEW p, NEW S PROVE MovedAmount(p, ledger, t, S) \in Ledgers
    BY <1>2 DEF MovedAmount, Ledgers
  <1>. QED
    BY <1>3, <1>4

(* Of the tries that end reassign_task's search one is the first.          *)
LEMMA FirstTry ==
    ASSUME NEW S, S # {},
           \A x \in S : x.mem_type \in MemTypes /\ x.idx_cpufreq \in 1..n_cpufreqs,
           \A x, y \in S : x.mem_type = y.mem_type /\ x.idx_cpufreq = y.idx_cpufreq => x = y
    PROVE  \E x \in S : \A y \in S \ {x} : TriedBefore(x, y)
  <1>1. ASSUME NEW m \in MemTypes, \E x \in S : x.mem_type = m
        PROVE  \E x \in S : /\ x.mem_type = m
                            /\ \A y \in S \ {x} : y.mem_type = m => TriedBefore(x, y)
    <2> DEFINE N == {x.idx_cpufreq : x \in {z \in S : z.mem_type = m}}
    <2>1. n_cpufreqs \in Nat /\ N # {} /\ N \in SUBSET (0..n_cpufreqs)
      BY <1>1, Constants
    <2>2. PICK i \in N : \A j \in N : i >= j
      BY <2>1, GreatestExists
    <2>3. PICK x \in S : x.mem_type = m /\ x.idx_cpufreq = i
      OBVIOUS
    <2>4. ASSUME NEW y \in S \ {x}, y.mem_type = m PROVE TriedBefore(x, y)
      <3>1. y.idx_cpufreq \in N /\ y.idx_cpufreq # i
        BY <2>3, <2>4
      <3>2. i >= y.idx_cpufreq /\ i \in Nat /\ y.idx_cpufreq \in Nat
        BY <2>1, <2>2, <3>1
      <3>. QED
        BY <2>3, <2>4, <3>1, <3>2 DEF TriedBefore
    <2>. QED
      BY <2>3, <2>4
  <1>2. \A x \in S : x.mem_type = "dram" \/ x.mem_type = "nvram"
    BY DEF MemTypes
  <1>3. "dram" \in MemTypes /\ "nvram" \in MemTypes
    BY DEF MemTypes
  <1>4. CASE \E x \in S : x.mem_type = "nvram"
    <2>1. PICK x \in S : /\ x.mem_type = "nvram"
                         /\ \A y \in S \ {x} : y.mem_type = "nvram" => TriedBefore(x, y)
      BY <1>1, <1>3, <1>4
    <2>2. \A y \in S : y.mem_type = "dram" => TriedBefore(x, y)
      BY <2>1 DEF TriedBefore, ReassignOrder
    <2>. QED
      BY <1>2, <2>1, <2>2
  <1>5. CASE ~ \E x \in S : x.mem_type = "nvram"
    <2>1. \E x \in S : x.mem_type = "dram"
      BY <1>2, <1>5
    <2>2. PICK x \in S : /\ x.mem_type = "dram"
                         /\ \A y \in S \ {x} : y.mem_type = "dram" => TriedBefore(x, y)
      BY <1>1, <1>3, <2>1
    <2>. QED
      BY <1>2, <1>5, <2>2
  <1>. QED
    BY <1>4, <1>5

LEMMA TriesType ==
    ASSUME NEW p \in Policies \ {"dram", "fixed"}, NEW t \in Tasks, IsSetUp(q.tk[t]),
           NEW freed, NEW x \in Tries(p, t, freed)
    PROVE  /\ x[1] \in MemTypes /\ x[2] \in 1..n_cpufreqs
           /\ p = "dvsdram" => x[1] = q.tk[t].mem_type
           /\ MovesMemory(p) => x[1] \in Tried(p, freed, t)
  <1>1. q.tk[t].mem_type \in MemTypes /\ q.tk[t].idx_cpufreq \in 1..n_cpufreqs
    BY DEF IsSetUp
  <1>2. Tried(p, freed, t) \subseteq MemTypes
    BY DEF Tried
  <1>3. CASE p = "dvsdram"
    <2>1. Tries(p, t, freed) = {q.tk[t].mem_type} \X (1..n_cpufreqs)
      BY <1>3 DEF Tries
    <2>. QED
      BY <1>1, <1>3, <2>1 DEF MovesMemory
  <1>4. CASE p = "hm"
    <2>1. Tries(p, t, freed) = Tried(p, freed, t) \X {q.tk[t].idx_cpufreq}
      BY <1>4 DEF Tries
    <2>. QED
      BY <1>1, <1>2, <1>4, <2>1
  <1>5. CASE p \in {"dvshm", "dvshm_gr"}
    <2>1. Tries(p, t, freed) = Tried(p, freed, t) \X (1..n_cpufreqs)
      BY <1>5 DEF Tries
    <2>. QED
      BY <1>2, <1>5, <2>1
  <1>. QED
    BY <1>3, <1>4, <1>5 DEF Policies

(* The policies that move a task's memory now. *)
Moves(t) == MovesMemory(Policy) /\ ~(Policy = "dvshm_gr" /\ t \in reassign_done)

Freed(t) == Release(amount, t, q.tk[t].mem_type)

(* Another speed leaves where the task stands in the plan.                 *)
SamePlan(T, S) ==
    /\ T.period = S.period /\ T.gap_head = S.gap_head /\ T.gap = S.gap /\ T.deadline = S.deadline

(* reassign_task, when nothing fails, leaves a task that is set up and     *)
(* whose memory is where there was room for it, and charged.               *)
LEMMA reassign_taskKeeps ==
    ASSUME policy \in DOMAIN AllPolicies, q \in Queue, amount \in Ledgers,
           NEW t \in Tasks, IsSetUp(q.tk[t]), Timeable(q.tk[t]),
           NEW re, re = reassign_task(t), re.fault = "none"
    PROVE  /\ re.T \in TaskType /\ IsSetUp(re.T) /\ Timeable(re.T) /\ re.amount \in Ledgers
           /\ Moves(t) => /\ re.T.mem_type \in Tried(Policy, Freed(t), t)
                          /\ re.amount = MovedAmount(Policy, Freed(t), t, {re.T.mem_type})
           /\ ~Moves(t) => re.T.mem_type = q.tk[t].mem_type /\ re.amount = amount
           /\ SamePlan(re.T, q.tk[t])
  <1> DEFINE T     == q.tk[t]
             rest  == [q EXCEPT !.list = Tail(@)]
             freed == IF MovesMemory(Policy) THEN Release(amount, t, T.mem_type) ELSE amount
             tried == {calc_task_det(T, x[2], x[1]) : x \in Tries(Policy, t, freed)}
             stops == {new \in tried : ~det_asserts(T, new) \/ is_schedulable(rest, new)}
             new   == CHOOSE x \in stops : \A y \in stops \ {x} : TriedBefore(x, y)
             keeps == \/ Policy \in {"dram", "fixed"}
                      \/ Policy = "dvshm_gr" /\ t \in reassign_done
             charged0 == IF MovesMemory(Policy) THEN MovedAmount(Policy, freed, t, {new.mem_type})
                         ELSE amount
             short == MovesMemory(Policy) /\ amount[T.mem_type] < MemReq[t]
  <1>1. Policy \in Policies
    BY PolicyType DEF Policy
  <1>2. T \in TaskType
    BY QueueType
  <1>3. re = IF keeps THEN [fault |-> "none", T |-> T, amount |-> amount]
             ELSE IF short THEN [fault |-> "nothing to revoke"]
             ELSE IF stops = {} THEN [fault |-> "failed to reassign"]
             ELSE IF ~det_asserts(T, new) THEN [fault |-> "bad det"]
             ELSE [fault |-> "none", T |-> new, amount |-> charged0]
    BY DEF reassign_task
  <1>4. T.mem_type \in MemTypes
    BY DEF IsSetUp
  <1>5. CASE keeps
    <2>1. re.T = T /\ re.amount = amount
      <3>1. re = [fault |-> "none", T |-> T, amount |-> amount]
        BY <1>3, <1>5, Zenon
      <3>. QED
        BY <3>1
    <2>2. ~Moves(t)
      BY <1>5 DEF Moves, MovesMemory
    <2>3. SamePlan(T, T)
      BY DEF SamePlan
    <2>. QED
      BY <1>2, <2>1, <2>2, <2>3
  <1>6. CASE ~keeps
    <2>. HIDE DEF new, stops, charged0, short
    <2>1. stops # {} /\ det_asserts(T, new) /\ re = [fault |-> "none", T |-> new, amount |-> charged0]
      <3>. HIDE DEF tried, freed, keeps, rest, T
      <3>1. ~short
        <4>1. short => re = [fault |-> "nothing to revoke"]
          BY <1>3, <1>6, Zenon
        <4>2. ~([fault |-> "nothing to revoke"].fault = "none")
          OBVIOUS
        <4>. QED
          BY <4>1, <4>2
      <3>2. stops # {}
        <4>1. stops = {} => re = [fault |-> "failed to reassign"]
          BY <1>3, <1>6, <3>1, Zenon
        <4>2. ~([fault |-> "failed to reassign"].fault = "none")
          OBVIOUS
        <4>. QED
          BY <4>1, <4>2
      <3>3. det_asserts(T, new)
        <4>1. ~det_asserts(T, new) => re = [fault |-> "bad det"]
          BY <1>3, <1>6, <3>1, <3>2, Zenon
        <4>2. ~([fault |-> "bad det"].fault = "none")
          OBVIOUS
        <4>. QED
          BY <4>1, <4>2
      <3>. QED
        BY <1>3, <1>6, <3>1, <3>2, <3>3, Zenon
    <2>2. re.T = new /\ re.amount = charged0
      BY <2>1
    <2>3. Policy \in Policies \ {"dram", "fixed"}
      BY <1>1, <1>6
    <2>4. \A x \in tried : \E f \in 1..n_cpufreqs, m \in MemTypes :
             /\ x = calc_task_det(T, f, m) /\ x.mem_type = m /\ x.idx_cpufreq = f
             /\ Policy = "dvsdram" => m = T.mem_type
             /\ MovesMemory(Policy) => m \in Tried(Policy, freed, t)
      <3>. SUFFICES ASSUME NEW x \in tried
                    PROVE  \E f \in 1..n_cpufreqs, m \in MemTypes :
                              /\ x = calc_task_det(T, f, m) /\ x.mem_type = m /\ x.idx_cpufreq = f
                              /\ Policy = "dvsdram" => m = T.mem_type
                              /\ MovesMemory(Policy) => m \in Tried(Policy, freed, t)
        OBVIOUS
      <3>1. PICK y \in Tries(Policy, t, freed) : x = calc_task_det(T, y[2], y[1])
        OBVIOUS
      <3>. HIDE DEF freed
      <3>2. /\ y[1] \in MemTypes /\ y[2] \in 1..n_cpufreqs
            /\ Policy = "dvsdram" => y[1] = T.mem_type
            /\ MovesMemory(Policy) => y[1] \in Tried(Policy, freed, t)
        BY <2>3, TriesType
      <3>3. PICK f \in 1..n_cpufreqs, m \in MemTypes : f = y[2] /\ m = y[1]
        BY <3>2
      <3>4. x.mem_type = m /\ x.idx_cpufreq = f
        <4>1. x = calc_task_det(T, f, m)
          BY <3>1, <3>3
        <4>. QED
          BY <1>2, <4>1, calc_task_detPlaces
      <3>. QED
        BY <3>1, <3>2, <3>3, <3>4
    <2>5. \E x \in stops : \A y \in stops \ {x} : TriedBefore(x, y)
      <3>1. stops \subseteq tried
        BY DEF stops
      <3>. HIDE DEF tried
      <3>2. \A x \in stops : x.mem_type \in MemTypes /\ x.idx_cpufreq \in 1..n_cpufreqs
        BY <2>4, <3>1
      <3>3. \A x, y \in stops : x.mem_type = y.mem_type /\ x.idx_cpufreq = y.idx_cpufreq => x = y
        BY <2>4, <3>1
      <3>. QED
        BY <2>1, <3>2, <3>3, FirstTry
    <2>6. new \in stops
      BY <2>5, Zenon DEF new
    <2>7. new \in tried
      BY <2>6 DEF stops
    <2>8. PICK f \in 1..n_cpufreqs, m \in MemTypes :
             /\ new = calc_task_det(T, f, m) /\ new.mem_type = m /\ new.idx_cpufreq = f
             /\ Policy = "dvsdram" => m = T.mem_type
             /\ MovesMemory(Policy) => m \in Tried(Policy, freed, t)
      BY <2>4, <2>7
    <2>9. T.det_remain > 0 => T.det # 0
      BY DEF IsSetUp
    <2>10. new \in TaskType /\ IsSetUp(new) /\ Timeable(new) /\ SamePlan(new, T)
      <3>1. PICK n : n = calc_task_det(T, f, m)
        OBVIOUS
      <3>2. n \in TaskType /\ IsSetUp(n) /\ Timeable(n) /\ SamePlan(n, T)
        BY <1>2, <2>1, <2>8, <2>9, <3>1, calc_task_detKeeps DEF SamePlan
      <3>. QED
        BY <2>8, <3>1, <3>2
    <2>p. SamePlan(re.T, q.tk[t])
      BY <2>2, <2>10
    <2>11. CASE MovesMemory(Policy)
      <3>1. Moves(t) /\ freed = Freed(t)
        BY <1>6, <2>11 DEF Moves, Freed
      <3>2. charged0 = MovedAmount(Policy, freed, t, {new.mem_type})
        BY <2>11 DEF charged0
      <3>3. freed \in Ledgers
        BY <1>4, <2>11, LedgerType
      <3>. HIDE DEF freed, T
      <3>4. charged0 \in Ledgers
        BY <3>2, <3>3, LedgerType
      <3>. QED
        BY <2>2, <2>8, <2>10, <2>p, <2>11, <3>1, <3>2, <3>4
    <2>12. CASE ~MovesMemory(Policy)
      <3>1. ~Moves(t) /\ charged0 = amount
        BY <2>12 DEF Moves, charged0
      <3>2. Policy = "dvsdram"
        BY <2>3, <2>12 DEF MovesMemory, Policies
      <3>. QED
        BY <2>2, <2>8, <2>10, <2>p, <3>1, <3>2
    <2>. QED
      BY <2>11, <2>12
  <1>. QED
    BY <1>5, <1>6

(* A run's ticks, and the idle ones behind it, are no more than the task   *)
(* has left, so that no count wraps round.                                 *)
LEMMA RunType ==
    ASSUME NEW T \in TaskType, NEW ret, ret = task_ret(T), ~(ret > T.deadline)
    PROVE  /\ ret \in Ticks /\ IdleAfter(Ran(T, ret)) \in Ticks
           /\ Idled(Ran(T, ret)) \in TaskType /\ SameTask(Idled(Ran(T, ret)), T)
           /\ LET I == Idled(Ran(T, ret))
                  n == ret + IdleAfter(Ran(T, ret))
              IN  /\ I.det_remain = Ran(T, ret).det_remain /\ I.gap_head = T.gap_head
                  /\ I.gap = T.gap - n /\ I.deadline = T.deadline - n
                  /\ I.deadline = 0 \/ I.gap = 0
  <1>1. PICK r \in Ticks, g \in Ticks, d \in Ticks : r = T.det_remain /\ g = T.gap /\ d = T.deadline
    BY DEF TaskType
  <1>2. r \in Nat /\ g \in Nat /\ d \in Nat
    BY Constants
  <1>3. ret \in {r, g} /\ ret <= r /\ ret <= g
    <2>1. ret = Min({r, g})
      BY <1>1 DEF task_ret
    <2>. QED
      BY <1>2, <2>1, MinIsLeast
  <1>4. ret \in Nat /\ ret \in Ticks /\ ret <= d
    BY <1>1, <1>2, <1>3
  <1>5. r - ret \in Ticks /\ g - ret \in Ticks /\ d - ret \in Ticks
    BY <1>2, <1>3, <1>4, Constants DEF Ticks
  <1>6. U(r - ret) = r - ret /\ U(g - ret) = g - ret /\ U(d - ret) = d - ret
    BY <1>2, <1>4, <1>5, WrapsToTicks
  <1>7. PICK T1 : T1 = Ran(T, ret)
    OBVIOUS
  <1>8. T1 = [T EXCEPT !.det_remain = r - ret, !.deadline = d - ret, !.gap = g - ret]
    BY <1>1, <1>6, <1>7 DEF Ran
  <1>9. PICK r1 \in Ticks, g1 \in Ticks, d1 \in Ticks : r1 = r - ret /\ g1 = g - ret /\ d1 = d - ret
    BY <1>5
  <1>10. T1 = [T EXCEPT !.det_remain = r1, !.deadline = d1, !.gap = g1]
    BY <1>8, <1>9
  <1>11. T1 \in TaskType /\ SameTask(T1, T) /\ T1.gap = g1 /\ T1.deadline = d1
    BY <1>10 DEF TaskType, SameTask
  <1>12. PICK n : n = IdleAfter(T1)
    OBVIOUS
  <1>13. n \in Ticks /\ n <= g1 /\ n <= d1 /\ n \in {g1, d1}
    <2>1. g1 \in Nat /\ d1 \in Nat
      BY Constants
    <2>2. n = Min({g1, d1})
      BY <1>11, <1>12 DEF IdleAfter
    <2>3. n \in {g1, d1} /\ n <= g1 /\ n <= d1
      BY <2>1, <2>2, MinIsLeast
    <2>. QED
      BY <2>3
  <1>14. PICK g2 \in Ticks, d2 \in Ticks : g2 = g1 - n /\ d2 = d1 - n
    BY <1>13, Constants DEF Ticks
  <1>15. Idled(T1) = [T1 EXCEPT !.deadline = d2, !.gap = g2]
    BY <1>11, <1>12, <1>14 DEF Idled
  <1>16. Idled(T1) \in TaskType /\ SameTask(Idled(T1), T1)
    BY <1>11, <1>15 DEF TaskType, SameTask
  <1>17. /\ Idled(T1).det_remain = T1.det_remain /\ Idled(T1).gap_head = T1.gap_head
         /\ Idled(T1).gap = g2 /\ Idled(T1).deadline = d2 /\ T1.gap_head = T.gap_head
    BY <1>10, <1>11, <1>15 DEF TaskType
  <1>18. g2 = g - (ret + n) /\ d2 = d - (ret + n) /\ (d2 = 0 \/ g2 = 0)
    BY <1>2, <1>4, <1>9, <1>13, <1>14, Constants
  <1>. QED
    BY <1>1, <1>4, <1>7, <1>11, <1>12, <1>13, <1>16, <1>17, <1>18 DEF SameTask

(* y is x with n more for the tasks in H. *)
Added(x, H, n, y) == \A u \in Tasks : y[u] = IF u \in H THEN x[u] + n ELSE x[u]

LEMMA MemTicksAre ==
    ASSUME NEW x \in [Tasks -> Nat], NEW H \in SUBSET Tasks, NEW n \in Nat
    PROVE  MemTicks(x, H, n) \in [Tasks -> Nat] /\ Added(x, H, n, MemTicks(x, H, n))
  BY DEF MemTicks, Added

(* y has n more than c for each task in H. *)
ChargedAlike(c, H, n, y) == y \in [Tasks -> Nat] /\ \A u \in H : y[u] = c[u] + n

(* The task and the others are charged alike for every tick of the turn.   *)
LEMMA ChargeRunType ==
    ASSUME NEW c \in [Tasks -> Nat], NEW S \in SUBSET Tasks, NEW t \in Tasks, t \notin S,
           NEW a \in Nat, NEW b \in Nat, NEW d \in Nat
    PROVE  ChargedAlike(c, S \cup {t}, a + b + d, ChargeRun(c, t, S, a, b, d))
  <1> DEFINE charge == ChargeRun(c, t, S, a, b, d)
  <1>2. PICK x1 : x1 = MemTicks(c, S, a)
    OBVIOUS
  <1>3. PICK x2 : x2 = MemTicks(x1, {t}, a)
    OBVIOUS
  <1>4. PICK x3 : x3 = MemTicks(x2, {t}, b)
    OBVIOUS
  <1>5. PICK x4 : x4 = MemTicks(x3, S, b)
    OBVIOUS
  <1>6. PICK x5 : x5 = MemTicks(x4, S, d)
    OBVIOUS
  <1>7. PICK x6 : x6 = MemTicks(x5, {t}, d)
    OBVIOUS
  <1>8. charge = x6
    BY <1>2, <1>3, <1>4, <1>5, <1>6, <1>7 DEF ChargeRun
  <1>a. {t} \in SUBSET Tasks
    OBVIOUS
  <1>9. x1 \in [Tasks -> Nat] /\ Added(c, S, a, x1)
    BY <1>2, MemTicksAre
  <1>10. x2 \in [Tasks -> Nat] /\ Added(x1, {t}, a, x2)
    BY <1>3, <1>9, <1>a, MemTicksAre
  <1>11. x3 \in [Tasks -> Nat] /\ Added(x2, {t}, b, x3)
    BY <1>4, <1>10, <1>a, MemTicksAre
  <1>12. x4 \in [Tasks -> Nat] /\ Added(x3, S, b, x4)
    BY <1>5, <1>11, MemTicksAre
  <1>13. x5 \in [Tasks -> Nat] /\ Added(x4, S, d, x5)
    BY <1>6, <1>12, MemTicksAre
  <1>14. x6 \in [Tasks -> Nat] /\ Added(x5, {t}, d, x6)
    BY <1>7, <1>13, <1>a, MemTicksAre
  <1>. HIDE DEF charge
  <1>15. ASSUME NEW u \in S \cup {t} PROVE x6[u] = c[u] + (a + b + d)
    <2>1. u \in Tasks /\ c[u] \in Nat
      OBVIOUS
    <2>2. CASE u \in S
      <3>1. u # t
        BY <2>2
      <3>2. x1[u] = c[u] + a /\ x2[u] = x1[u] /\ x3[u] = x2[u]
        BY <1>9, <1>10, <1>11, <2>1, <2>2, <3>1 DEF Added
      <3>3. x4[u] = x3[u] + b /\ x5[u] = x4[u] + d /\ x6[u] = x5[u]
        BY <1>12, <1>13, <1>14, <2>1, <2>2, <3>1 DEF Added
      <3>. QED
        BY <2>1, <3>2, <3>3
    <2>3. CASE u = t
      <3>2. x1[u] = c[u] /\ x2[u] = x1[u] + a /\ x3[u] = x2[u] + b
        BY <1>9, <1>10, <1>11, <2>1, <2>3 DEF Added
      <3>3. x4[u] = x3[u] /\ x5[u] = x4[u] /\ x6[u] = x5[u] + d
        BY <1>12, <1>13, <1>14, <2>1, <2>3 DEF Added
      <3>. QED
        BY <2>1, <3>2, <3>3
    <2>. QED
      BY <2>2, <2>3
  <1>16. charge \in [Tasks -> Nat] /\ \A u \in S \cup {t} : charge[u] = c[u] + (a + b + d)
    <2>1. x6 \in [Tasks -> Nat]
      BY <1>14
    <2>. QED
      BY <1>8, <1>15, <2>1, Zenon
  <1>. QED
    BY <1>16 DEF charge, ChargedAlike

LEMMA IdleCpuType ==
    \A n, idle \in Nat : IdleCpu(n, idle) \in Nat
  <1>. SUFFICES ASSUME NEW n \in Nat, NEW idle \in Nat PROVE IdleCpu(n, idle) \in Nat
    OBVIOUS
  <1>1. PICK p \in Nat : p = IdlePower[n_cpufreqs]
    BY Constants
  <1>2. idle * p \in Nat
    BY Products
  <1>3. PICK m \in Nat : m = (n + idle * p) * 12
    BY <1>2
  <1>4. m \div 100 \in Nat
    BY Quotients
  <1>. QED
    BY <1>1, <1>3, <1>4 DEF IdleCpu

LEMMA ActiveCpuIdleType ==
    ASSUME NEW T, T.idx_cpufreq \in 1..n_cpufreqs, NEW ret \in Nat
    PROVE  ActiveCpuIdle(T, ret) \in Nat
  <1>1. PICK f \in 1..n_cpufreqs : f = T.idx_cpufreq
    OBVIOUS
  <1>2. PICK i \in {1, 2} : i = IF T.mem_type = "dram" THEN 1 ELSE 2
    OBVIOUS
  <1>3. PICK cpu \in Nat \ {0}, mem \in Nat \ {0}, p \in Nat :
           cpu = FreqScale[f] /\ mem = MemScale[MemTypeOrder[i]] /\ p = IdlePower[f]
    BY Constants
  <1>4. ret * p \in Nat
    BY Products
  <1>5. ret * p * cpu \in Nat
    BY <1>4, Products
  <1>6. PICK n \in Nat, d \in Nat \ {0} : n = ret * p * cpu /\ d = cpu + mem
    BY <1>5
  <1>7. n \div d \in Nat
    BY Quotients
  <1>8. ActiveCpuIdle(T, ret) = n \div d
    BY <1>1, <1>2, <1>3, <1>6 DEF ActiveCpuIdle
  <1>. QED
    BY <1>7, <1>8

----------------------------------------------------------------------------
(* The inductive invariant of a run. *)

(* A task is waiting for its set-up or listed, once. *)
ListsApart == temp \in Lists /\ q.list \in Lists /\ ToSet(temp) \cap Queued = {}

(* A task that is not set up has no ticks left; a listed one is set up.    *)
TasksTimed ==
    /\ q.bad = "none"
    /\ \A t \in ToSet(temp) \cup Queued : Timeable(q.tk[t])
    /\ \A t \in ToSet(temp) : q.tk[t].det_remain = 0
    /\ phase = "init" => \A t \in Queued : q.tk[t].det_remain = 0
    /\ phase \in {"setup", "sim"} => \A t \in Queued : IsSetUp(q.tk[t])

(* The accounts start at 0 with each policy. *)
AccountsStart ==
    phase \in {"init", "setup"} => charged = [t \in Tasks |-> 0] /\ simtime = StartOfRun

IInv ==
    /\ TypeOK
    /\ mode = "one" => policy \in Chosen
    /\ ListsApart /\ TasksTimed /\ AccountsStart /\ EveryTickCharged

(* What no step but a failing set-up may change of the tasks. *)
NoneLost ==
    LET all == temp \o q.list IN
       \/ phase = "setup" /\ phase' = "done"
       \/ Len(all') = Len(all) /\ ToSet(all') = ToSet(all)

LEMMA ListCounts ==
    ASSUME NEW l \in Seq(Tasks), IsInjective(l)
    PROVE  Cardinality(ToSet(l)) = Len(l)
  <1>1. Len(l) \in Nat /\ DOMAIN l = 1..Len(l) /\ l \in [1..Len(l) -> Tasks]
    OBVIOUS
  <1>2. ToSet(l) = {l[i] : i \in 1..Len(l)}
    BY <1>1 DEF ToSet
  <1>3. l \in [1..Len(l) -> ToSet(l)]
    BY <1>1, <1>2
  <1>4. l \in Bijection(1..Len(l), ToSet(l))
    BY <1>1, <1>2, <1>3 DEF Bijection, Injection, Surjection, IsInjective
  <1>5. ExistsBijection(1..Len(l), ToSet(l))
    BY <1>4 DEF ExistsBijection
  <1>. QED
    BY <1>1, <1>5, FS_CountingElements, Zenon

LEMMA TwoLists ==
    ASSUME NEW l \in Lists, NEW m \in Lists, ToSet(l) \cap ToSet(m) = {}
    PROVE  /\ ToSet(l \o m) = ToSet(l) \cup ToSet(m)
           /\ Len(l \o m) = Cardinality(ToSet(l) \cup ToSet(m))
  <1>1. /\ l \in Seq(Tasks) /\ Len(l) \in Nat /\ m \in Seq(Tasks) /\ Len(m) \in Nat
        /\ DOMAIN l = 1..Len(l) /\ DOMAIN m = 1..Len(m)
    BY ListType
  <1>a. PICK a \in Nat, b \in Nat : a = Len(l) /\ b = Len(m)
    BY <1>1, Zenon
  <1>s. PICK s : s = l \o m
    BY Zenon
  <1>2. s \in Seq(Tasks) /\ Len(s) = a + b /\ DOMAIN s = 1..(a + b)
    BY <1>1, <1>a, <1>s
  <1>3. \A i \in 1..(a + b) : s[i] = IF i <= a THEN l[i] ELSE m[i - a]
    BY <1>1, <1>a, <1>s
  <1>4. /\ \A i \in 1..(a + b) : i <= a => i \in 1..a
        /\ \A i \in 1..(a + b) : ~(i <= a) => i - a \in 1..b
        /\ \A i \in 1..a : i \in 1..(a + b) /\ i <= a
        /\ \A i \in 1..b : i + a \in 1..(a + b) /\ ~(i + a <= a) /\ i + a - a = i
        /\ \A i, j \in 1..(a + b) : i - a = j - a => i = j
    OBVIOUS
  <1>5. ToSet(s) = {s[i] : i \in 1..(a + b)}
    BY <1>2 DEF ToSet
  <1>b. /\ \A i \in 1..a : l[i] \in ToSet(l)
        /\ \A i \in 1..b : m[i] \in ToSet(m)
        /\ \A u \in ToSet(l) : \E i \in 1..a : l[i] = u
        /\ \A u \in ToSet(m) : \E i \in 1..b : m[i] = u
    BY <1>1, <1>a DEF ToSet
  <1>c. /\ \A i \in 1..(a + b) : i <= a => s[i] = l[i] /\ i \in 1..a
        /\ \A i \in 1..(a + b) : ~(i <= a) => s[i] = m[i - a] /\ i - a \in 1..b
    BY <1>3, <1>4
  <1>6. \A i \in 1..(a + b) : s[i] \in ToSet(l) \cup ToSet(m)
    BY <1>b, <1>c
  <1>7. \A u \in ToSet(l) : \E i \in 1..(a + b) : s[i] = u
    BY <1>b, <1>3, <1>4
  <1>8. \A u \in ToSet(m) : \E i \in 1..(a + b) : s[i] = u
    <2>. SUFFICES ASSUME NEW i \in 1..b PROVE \E j \in 1..(a + b) : s[j] = m[i]
      BY <1>b
    <2>1. i + a \in 1..(a + b) /\ s[i + a] = m[i]
      BY <1>3, <1>4
    <2>. QED
      BY <2>1
  <1>9. ToSet(s) = ToSet(l) \cup ToSet(m)
    BY <1>5, <1>6, <1>7, <1>8
  <1>d. /\ \A i, j \in 1..a : l[i] = l[j] => i = j
        /\ \A i, j \in 1..b : m[i] = m[j] => i = j
    BY <1>a, ListType
  <1>10. ASSUME NEW i \in 1..(a + b), NEW j \in 1..(a + b), s[i] = s[j] PROVE i = j
    <2>1. CASE i <= a /\ j <= a
      BY <1>c, <1>d, <1>10, <2>1
    <2>2. CASE ~(i <= a) /\ ~(j <= a)
      <3>1. s[i] = m[i - a] /\ s[j] = m[j - a] /\ i - a \in 1..b /\ j - a \in 1..b
        BY <1>c, <2>2
      <3>2. i - a = j - a
        BY <1>d, <1>10, <3>1
      <3>. QED
        BY <1>4, <3>2
    <2>3. CASE i <= a /\ ~(j <= a)
      <3>1. s[i] \in ToSet(l) /\ s[j] \in ToSet(m)
        BY <1>b, <1>c, <2>3
      <3>. QED
        BY <1>10, <3>1, Zenon
    <2>4. CASE ~(i <= a) /\ j <= a
      <3>1. s[j] \in ToSet(l) /\ s[i] \in ToSet(m)
        BY <1>b, <1>c, <2>4
      <3>. QED
        BY <1>10, <3>1, Zenon
    <2>. QED
      BY <2>1, <2>2, <2>3, <2>4
  <1>11. IsInjective(s)
    BY <1>2, <1>10 DEF IsInjective
  <1>12. Len(s) = Cardinality(ToSet(s))
    BY <1>2, <1>11, ListCounts
  <1>. QED
    BY <1>a, <1>s, <1>9, <1>12

(* A step that keeps the set of the tasks loses none. *)
LEMMA SameTasks ==
    ASSUME ListsApart, ListsApart', ToSet(temp') \cup ToSet(q'.list) = ToSet(temp) \cup ToSet(q.list)
    PROVE  NoneLost
  <1>1. PICK l \in Lists, m \in Lists : l = temp /\ m = q.list /\ ToSet(l) \cap ToSet(m) = {}
    BY DEF ListsApart, Queued
  <1>2. PICK a \in Lists, b \in Lists : a = temp' /\ b = q'.list /\ ToSet(a) \cap ToSet(b) = {}
    BY DEF ListsApart, Queued
  <1>3. /\ ToSet(l \o m) = ToSet(l) \cup ToSet(m)
        /\ Len(l \o m) = Cardinality(ToSet(l) \cup ToSet(m))
    BY <1>1, TwoLists
  <1>4. /\ ToSet(a \o b) = ToSet(a) \cup ToSet(b)
        /\ Len(a \o b) = Cardinality(ToSet(a) \cup ToSet(b))
    BY <1>2, TwoLists
  <1>5. ToSet(a) \cup ToSet(b) = ToSet(l) \cup ToSet(m)
    BY <1>1, <1>2
  <1>. QED
    BY <1>1, <1>2, <1>3, <1>4, <1>5 DEF NoneLost

(* The tasks of the configuration file are ready to be set up. *)
LEMMA InitInv ==
    ASSUME Init
    PROVE  IInv
  <1>1. PICK c \in Confs :
          q = [list |-> [t \in DOMAIN c |-> t],
               tk   |-> [t \in Tasks |-> IF t \in DOMAIN c
                                         THEN create_task(c[t].wcet, c[t].period) ELSE NoTask],
               bad  |-> "none"]
    BY DEF Init
  <1>2. PICK n \in Tasks : DOMAIN c = 1..n
    BY TaskAssumption
  <1>3. n \in Nat /\ DOMAIN c \subseteq Tasks
    BY <1>2, ConfAssumption
  <1>4. \A t \in DOMAIN c :
           /\ c[t].period \in Nat /\ c[t].wcet \in Nat
           /\ \A f \in 1..n_cpufreqs, m \in MemTypes : Det(c[t].wcet, f, m) \in Ticks
    BY TaskAssumption
  <1>5. PICK l : l = [t \in 1..n |-> t]
    OBVIOUS
  <1>6. l \in Seq(Tasks) /\ Len(l) = n /\ ToSet(l) = DOMAIN c
    <2>1. l \in [1..n -> Tasks]
      BY <1>2, <1>3, <1>5
    <2>2. l \in Seq(Tasks) /\ Len(l) = n
      BY <1>3, <2>1
    <2>3. ToSet(l) = {l[i] : i \in 1..n}
      BY <1>5 DEF ToSet
    <2>4. \A i \in 1..n : l[i] = i
      BY <1>5
    <2>. QED
      BY <1>2, <2>2, <2>3, <2>4
  <1>7. l \in Lists
    BY <1>5, <1>6 DEF Lists, IsInjective
  <1>8. \A w, p \in Nat : create_task(w, p) \in TaskType
    BY Constants DEF create_task, TaskType
  <1>9. /\ q.list = l /\ q.bad = "none" /\ q.tk \in [Tasks -> TaskType] /\ q \in Queue
        /\ \A t \in DOMAIN c : q.tk[t] = create_task(c[t].wcet, c[t].period)
    <2>1. PICK tk : tk = [t \in Tasks |-> IF t \in DOMAIN c
                                          THEN create_task(c[t].wcet, c[t].period) ELSE NoTask]
      OBVIOUS
    <2>2. NoTask \in TaskType
      BY <1>8 DEF NoTask
    <2>3. tk \in [Tasks -> TaskType]
      BY <1>4, <1>8, <2>1, <2>2
    <2>4. \A t \in DOMAIN c : tk[t] = create_task(c[t].wcet, c[t].period)
      BY <1>3, <2>1
    <2>5. q = [list |-> l, tk |-> tk, bad |-> "none"]
      BY <1>1, <1>2, <1>5, <2>1
    <2>. QED
      BY <1>6, <2>3, <2>4, <2>5 DEF Queue
  <1>10. temp \in Lists /\ ToSet(temp) = {}
    BY DEF Init, Lists, IsInjective, ToSet
  <1>11. ListsApart
    BY <1>7, <1>9, <1>10 DEF ListsApart
  <1>12. TasksTimed
    <2>1. \A t \in Queued : Timeable(q.tk[t]) /\ q.tk[t].det_remain = 0
      <3>1. \A w, p \in Nat : create_task(w, p).wcet = w /\ create_task(w, p).det_remain = 0
        BY DEF create_task
      <3>2. \A t \in Queued : t \in DOMAIN c
        BY <1>6, <1>9 DEF Queued
      <3>3. \A t \in Queued : q.tk[t].wcet = c[t].wcet /\ q.tk[t].det_remain = 0
        BY <1>4, <1>9, <3>1, <3>2
      <3>. QED
        BY <1>4, <3>2, <3>3 DEF Timeable
    <2>. QED
      BY <1>9, <1>10, <2>1 DEF TasksTimed, Init
  <1>13. (mode = "one" => policy \in Chosen) /\ (mode = "one" \/ policy = 1)
         /\ policy \in DOMAIN AllPolicies /\ mode \in Modes
    <2>1. Modes \subseteq {"one", "all"} /\ Chosen \subseteq DOMAIN AllPolicies
      BY PolicyAssumption
    <2>2. mode \in Modes /\ policy \in IF mode = "all" THEN {1} ELSE Chosen
      BY DEF Init
    <2>3. 1 \in DOMAIN AllPolicies
      BY DEF AllPolicies
    <2>. QED
      BY <2>1, <2>2, <2>3
  <1>14. TypeOK
    <2>1. 0 \in 0..(UMod - 1)
      BY Constants DEF Ticks
    <2>. QED
      BY <1>9, <1>10, <1>13, <2>1 DEF TypeOK, Init, Lists
  <1>15. AccountsStart
    BY <1>13 DEF AccountsStart, StartOfRun, Init
  <1>16. EveryTickCharged
    BY DEF EveryTickCharged, Init
  <1>. QED
    BY <1>11, <1>12, <1>13, <1>14, <1>15, <1>16 DEF IInv

(* The end of the process changes nothing else. *)
LEMMA ExitInv ==
    ASSUME IInv, NEW why, Exit(why)
    PROVE  IInv' /\ NoneLost
  <1>1. /\ phase' = "exited" /\ mode' = mode /\ policy' = policy /\ temp' = temp /\ q' = q
        /\ amount' = amount /\ reassign_done' = reassign_done /\ simtime' = simtime
        /\ power_consumed_cpu_idle' = power_consumed_cpu_idle /\ charged' = charged /\ jobs' = jobs
    BY DEF Exit, driver, account
  <1>2. TypeOK'
    BY <1>1 DEF IInv, TypeOK
  <1>3. ListsApart'
    BY <1>1 DEF IInv, ListsApart, Queued
  <1>4. TasksTimed'
    BY <1>1 DEF IInv, TasksTimed, Queued
  <1>5. AccountsStart' /\ EveryTickCharged'
    BY <1>1 DEF AccountsStart, EveryTickCharged
  <1>6. NoneLost
    BY <1>1, <1>3, SameTasks DEF IInv
  <1>. QED
    BY <1>1, <1>2, <1>3, <1>4, <1>5, <1>6 DEF IInv

LEMMA StutterInv ==
    ASSUME IInv, UNCHANGED vars
    PROVE  IInv' /\ NoneLost
  <1>1. ListsApart'
    BY DEF IInv, ListsApart, Queued, vars
  <1>2. NoneLost
    BY <1>1, SameTasks DEF IInv, vars
  <1>3. TypeOK' /\ TasksTimed' /\ AccountsStart' /\ EveryTickCharged'
    BY DEF IInv, TypeOK, TasksTimed, AccountsStart, EveryTickCharged, Queued, StartOfRun, vars
  <1>. QED
    BY <1>1, <1>2, <1>3 DEF IInv, vars

LEMMA InitPolicyInv ==
    ASSUME IInv, InitPolicy
    PROVE  IInv' /\ NoneLost
  <1>1. CASE Exit("failed to initialize policy")
    BY <1>1, ExitInv
  <1>2. CASE ~Exit("failed to initialize policy")
    <2>1. /\ phase = "init" /\ phase' = "setup" /\ temp' = q.list /\ q' = [q EXCEPT !.list = <<>>]
          /\ reassign_done' = IF Policy = "dvshm_gr" THEN {} ELSE reassign_done
          /\ mode' = mode /\ policy' = policy /\ amount' = amount /\ simtime' = simtime
          /\ power_consumed_cpu_idle' = power_consumed_cpu_idle /\ charged' = charged /\ jobs' = jobs
      BY <1>2 DEF InitPolicy, driver, account
    <2>2. q \in Queue /\ temp = <<>>
      BY <2>1 DEF IInv, TypeOK
    <2>4. <<>> \in Lists /\ ToSet(<<>>) = {} /\ <<>> \in Seq(Tasks)
      BY DEF Lists, IsInjective, ToSet
    <2>3. q' \in Queue /\ q'.list = <<>> /\ q'.tk = q.tk /\ q'.bad = q.bad
      BY <2>1, <2>2, <2>4 DEF Queue
    <2>5. ListsApart'
      BY <2>1, <2>3, <2>4 DEF IInv, ListsApart, Queued
    <2>6. NoneLost
      BY <2>1, <2>2, <2>3, <2>4, <2>5, SameTasks DEF IInv
    <2>7. TasksTimed'
      BY <2>1, <2>3, <2>4 DEF IInv, TasksTimed, Queued
    <2>8. TypeOK'
      BY <2>1, <2>3 DEF IInv, TypeOK, ListsApart, Lists
    <2>9. AccountsStart' /\ EveryTickCharged'
      BY <2>1 DEF IInv, AccountsStart, EveryTickCharged, StartOfRun
    <2>. QED
      BY <2>1, <2>5, <2>6, <2>7, <2>8, <2>9 DEF IInv
  <1>. QED
    BY <1>1, <1>2

LEMMA EndSetupInv ==
    ASSUME IInv, EndSetup
    PROVE  IInv' /\ NoneLost
  <1>1. /\ phase = "setup" /\ phase' = "sim" /\ temp = <<>>
        /\ mode' = mode /\ policy' = policy /\ temp' = temp /\ q' = q
        /\ amount' = amount /\ reassign_done' = reassign_done /\ simtime' = simtime
        /\ power_consumed_cpu_idle' = power_consumed_cpu_idle /\ charged' = charged /\ jobs' = jobs
    BY DEF EndSetup, driver, account
  <1>2. TypeOK'
    BY <1>1 DEF IInv, TypeOK
  <1>3. ListsApart'
    BY <1>1 DEF IInv, ListsApart, Queued
  <1>4. TasksTimed'
    BY <1>1 DEF IInv, TasksTimed, Queued
  <1>5. EveryTickCharged'
    <2>1. charged = [t \in Tasks |-> 0] /\ simtime = StartOfRun
      BY <1>1 DEF IInv, AccountsStart
    <2>2. Queued \subseteq Tasks /\ simtime \in Nat
      BY ListType DEF IInv, ListsApart, Queued, ToSet, TypeOK
    <2>3. \A t \in Queued : charged[t] = 0
      BY <2>1, <2>2
    <2>4. StartOfRun' = StartOfRun
      BY <1>1 DEF StartOfRun
    <2>5. simtime - StartOfRun = 0
      BY <2>1, <2>2
    <2>. QED
      BY <1>1, <2>3, <2>4, <2>5 DEF EveryTickCharged, Queued
  <1>6. NoneLost
    BY <1>1, <1>3, SameTasks DEF IInv
  <1>. QED
    BY <1>1, <1>2, <1>3, <1>4, <1>5, <1>6 DEF IInv, AccountsStart

LEMMA EndSimInv ==
    ASSUME IInv, EndSim
    PROVE  IInv' /\ NoneLost
  <1>1. /\ phase = "sim" /\ phase' = "done"
        /\ mode' = mode /\ policy' = policy /\ temp' = temp /\ q' = q
        /\ amount' = amount /\ reassign_done' = reassign_done /\ simtime' = simtime
        /\ power_consumed_cpu_idle' = power_consumed_cpu_idle /\ charged' = charged /\ jobs' = jobs
    BY DEF EndSim, driver, account
  <1>2. TypeOK'
    BY <1>1 DEF IInv, TypeOK
  <1>3. ListsApart'
    BY <1>1 DEF IInv, ListsApart, Queued
  <1>4. TasksTimed'
    BY <1>1 DEF IInv, TasksTimed, Queued
  <1>5. AccountsStart' /\ EveryTickCharged'
    BY <1>1 DEF AccountsStart, EveryTickCharged
  <1>6. NoneLost
    BY <1>1, <1>3, SameTasks DEF IInv
  <1>. QED
    BY <1>1, <1>2, <1>3, <1>4, <1>5, <1>6 DEF IInv

(* reinit_tasks and the clock of the next policy. *)
LEMMA NextPolicyInv ==
    ASSUME IInv, NextPolicy
    PROVE  IInv' /\ NoneLost
  <1>1. /\ phase = "done" /\ mode = "all" /\ mode' = mode /\ temp' = temp
        /\ IF policy + 1 <= Len(AllPolicies) THEN policy' = policy + 1 /\ phase' = "init"
           ELSE policy' = policy /\ phase' = "exited"
        /\ simtime' = RestartTime /\ q' = [q EXCEPT !.tk = reinit_tasks]
        /\ amount' = EmptyLedger /\ reassign_done' = reassign_done
        /\ power_consumed_cpu_idle' = 0
        /\ charged' = [t \in Tasks |-> 0] /\ jobs' = [t \in Tasks |-> 0]
    BY DEF NextPolicy, ToPolicy
  <1>2. q \in Queue /\ temp = <<>> /\ q.tk \in [Tasks -> TaskType]
    BY <1>1 DEF IInv, TypeOK, Queue
  <1>3. reinit_tasks \in [Tasks -> TaskType]
    <2>1. \A T \in TaskType : reinit_task(T) \in TaskType
      BY Constants DEF reinit_task, TaskType
    <2>. QED
      BY <1>2, <2>1 DEF reinit_tasks
  <1>4. q' \in Queue /\ q'.list = q.list /\ q'.bad = q.bad /\ q'.tk = reinit_tasks
    BY <1>1, <1>2, <1>3 DEF Queue
  <1>5. ListsApart'
    BY <1>1, <1>4 DEF IInv, ListsApart, Queued
  <1>6. NoneLost
    BY <1>1, <1>4, <1>5, SameTasks DEF IInv
  <1>7. Queued \subseteq Tasks
    BY ListType DEF IInv, ListsApart, Queued, ToSet
  <1>8. \A t \in Queued : q'.tk[t].det_remain = 0 /\ q'.tk[t].wcet = q.tk[t].wcet
    <2>1. \A T \in TaskType : reinit_task(T).det_remain = 0 /\ reinit_task(T).wcet = T.wcet
      BY DEF reinit_task, TaskType
    <2>2. \A t \in Queued : q'.tk[t] = reinit_task(q.tk[t]) /\ q.tk[t] \in TaskType
      BY <1>2, <1>4, <1>7 DEF reinit_tasks, Queued
    <2>. QED
      BY <2>1, <2>2
  <1>9. TasksTimed'
    <2>1. ToSet(temp) = {}
      BY <1>2 DEF ToSet
    <2>2. \A t \in Queued : Timeable(q.tk[t])
      BY DEF IInv, TasksTimed
    <2>3. phase' \in {"init", "exited"} /\ q'.bad = "none"
      BY <1>1, <1>4 DEF IInv, TasksTimed
    <2>. QED
      BY <1>1, <1>4, <1>8, <2>1, <2>2, <2>3 DEF TasksTimed, Timeable, Queued
  <1>10. policy \in DOMAIN AllPolicies /\ policy' \in DOMAIN AllPolicies
         /\ (phase' = "init" => policy' # 1)
    <2>1. DOMAIN AllPolicies = 1..6 /\ Len(AllPolicies) = 6
      BY DEF AllPolicies
    <2>. QED
      BY <1>1, <2>1 DEF IInv, TypeOK
  <1>11. TypeOK'
    <2>1. EmptyLedger \in [MemTypes -> 0..(UMod - 1)] /\ RestartTime \in Nat
      BY Constants DEF Ticks, EmptyLedger, RestartTime
    <2>. QED
      BY <1>1, <1>4, <1>10, <2>1 DEF IInv, TypeOK
  <1>12. AccountsStart' /\ EveryTickCharged'
    BY <1>1, <1>10 DEF AccountsStart, EveryTickCharged, StartOfRun
  <1>. QED
    BY <1>1, <1>5, <1>6, <1>9, <1>11, <1>12 DEF IInv

LEMMA HeadAndTail ==
    ASSUME NEW l \in Lists, l # <<>>
    PROVE  /\ Head(l) \in Tasks /\ Head(l) \in ToSet(l)
           /\ Tail(l) \in Lists /\ Tail(l) \in Seq(Tasks)
           /\ Head(l) \notin ToSet(Tail(l)) /\ ToSet(l) = {Head(l)} \cup ToSet(Tail(l))
  <1>1. /\ l \in Seq(Tasks) /\ DOMAIN l = 1..Len(l) /\ \A i, j \in 1..Len(l) : l[i] = l[j] => i = j
    BY ListType
  <1>2. PICK n \in Nat : n = Len(l) /\ n >= 1 /\ 1 \in 1..n
    <2>1. Len(l) \in Nat /\ Len(l) # 0
      BY <1>1, EmptySeq
    <2>. QED
      BY <2>1
  <1>3. PICK t, m : t = l[1] /\ t = Head(l) /\ m = Tail(l) /\ t \in Tasks /\ m \in Seq(Tasks)
    <2>1. Head(l) = l[1] /\ l[1] \in Tasks
      BY <1>1, <1>2
    <2>2. Tail(l) \in Seq(Tasks)
      BY <1>1
    <2>. QED
      BY <2>1, <2>2
  <1>4. Len(m) = n - 1 /\ DOMAIN m = 1..(n - 1) /\ \A i \in 1..(n - 1) : m[i] = l[i + 1]
    BY <1>1, <1>2, <1>3
  <1>5. /\ \A i \in 1..(n - 1) : i + 1 \in 1..n /\ i + 1 # 1
        /\ \A i \in 1..n : i = 1 \/ (i - 1 \in 1..(n - 1) /\ i - 1 + 1 = i)
        /\ \A i, j \in 1..(n - 1) : i + 1 = j + 1 => i = j
    BY <1>2
  <1>6. IsInjective(m)
    BY <1>1, <1>2, <1>4, <1>5 DEF IsInjective
  <1>7. \A i \in 1..(n - 1) : m[i] # t
    BY <1>1, <1>2, <1>3, <1>4, <1>5
  <1>8. ToSet(m) = {m[i] : i \in 1..(n - 1)} /\ ToSet(l) = {l[i] : i \in 1..n}
    BY <1>1, <1>2, <1>4 DEF ToSet
  <1>9. \A i \in 1..n : l[i] = t \/ \E j \in 1..(n - 1) : l[i] = m[j]
    <2>. SUFFICES ASSUME NEW i \in 1..n, i # 1 PROVE \E j \in 1..(n - 1) : l[i] = m[j]
      BY <1>3
    <2>1. i - 1 \in 1..(n - 1) /\ m[i - 1] = l[i]
      BY <1>4, <1>5
    <2>. QED
      BY <2>1
  <1>10. \A j \in 1..(n - 1) : \E i \in 1..n : m[j] = l[i]
    BY <1>4, <1>5
  <1>11. ToSet(l) = {t} \cup ToSet(m)
    BY <1>2, <1>3, <1>8, <1>9, <1>10
  <1>12. t \notin ToSet(m)
    BY <1>7, <1>8
  <1>13. t \in ToSet(l)
    BY <1>11
  <1>. QED
    BY <1>3, <1>6, <1>11, <1>12, <1>13 DEF Lists

(* A new task_t for one of the tasks. *)
LEMMA TaskSet ==
    ASSUME NEW x \in Queue, NEW t \in Tasks, NEW T \in TaskType
    PROVE  LET y == [x EXCEPT !.tk[t] = T]
           IN  /\ y \in Queue /\ y.list = x.list /\ y.bad = x.bad
               /\ y.tk[t] = T /\ \A u \in Tasks \ {t} : y.tk[u] = x.tk[u]
  <1>1. x.tk \in [Tasks -> TaskType]
    BY DEF Queue
  <1>. QED
    BY <1>1 DEF Queue

(* What the queue y has of the queue x when t was given the task_t T and   *)
(* its place anew: the tasks of x, those in off untouched.                 *)
TaskMoved(x, y, t, T, off) ==
    /\ y \in Queue /\ y.bad = "none" /\ y.list \in Lists
    /\ SameTask(y.tk[t], T)
    /\ \A u \in Tasks \ {t} : SameTask(y.tk[u], x.tk[u])
    /\ \A u \in off : y.tk[u] = x.tk[u]

LEMMA RequeuedMoves ==
    ASSUME NEW x \in Queue, NEW z \in Queue, NEW t \in Tasks, NEW T \in TaskType,
           z.list \in Lists, t \notin ToSet(z.list),
           z.tk[t] = T, \A u \in Tasks \ {t} : z.tk[u] = x.tk[u],
           NEW ticks \in Ticks, NEW y, y = requeue_task(z, t, ticks), y.bad = "none",
           NEW off \in SUBSET Tasks, t \notin off, off \cap ToSet(z.list) = {}
    PROVE  TaskMoved(x, y, t, T, off) /\ ToSet(y.list) = ToSet(z.list) \cup {t}
  <1>1. Requeued(z, t, y)
    BY RequeueKeepsTasks
  <1>2. y \in Queue /\ y.list \in Lists /\ ToSet(y.list) = ToSet(z.list) \cup {t}
        /\ Retimed(z, y, ToSet(z.list) \cup {t})
    BY <1>1 DEF Requeued
  <1>3. \A u \in Tasks : SameTask(y.tk[u], z.tk[u])
    BY <1>2 DEF Retimed
  <1>4. \A u \in off : y.tk[u] = x.tk[u]
    BY <1>2 DEF Retimed
  <1>5. SameTask(y.tk[t], T) /\ \A u \in Tasks \ {t} : SameTask(y.tk[u], x.tk[u])
    BY <1>3
  <1>. QED
    BY <1>2, <1>4, <1>5 DEF TaskMoved

(* One turn of setup_tasks' loop. *)
SetupFails ==
    /\ ~Assignable(Policy, amount, Head(temp))
    /\ phase' = "done" /\ temp' = <<>> /\ q' = q /\ amount' = amount

SetupGrants(T) ==
    LET t == Head(temp)
        m == AssignedMem(Policy, amount, t)
    IN  /\ Assignable(Policy, amount, t) /\ m \in MemTypes /\ amount' = Charge(amount, t, m)
        /\ T \in TaskType /\ IsSetUp(T) /\ Timeable(T) /\ T.mem_type = m
        /\ SamePlan(T, q.tk[t]) /\ T.det_remain = 0
        /\ TaskMoved(q, q', t, T, ToSet(Tail(temp)))
        /\ \/ /\ phase' = phase /\ temp' = Tail(temp)
              /\ q' = requeue_task([q EXCEPT !.tk[t] = T], t, 0)
              /\ ToSet(q'.list) = ToSet(q.list) \cup {t}
           \/ /\ phase' = "done" /\ temp' = <<>>
              /\ q' = [q EXCEPT !.tk[t] = T] /\ q'.list = q.list

LEMMA SetupTaskCases ==
    ASSUME IInv, SetupTask
    PROVE  /\ phase = "setup" /\ temp \in Lists /\ temp # <<>>
           /\ \/ \E why : Exit(why)
              \/ /\ SetupFails \/ \E T : SetupGrants(T)
                 /\ mode' = mode /\ policy' = policy /\ reassign_done' = reassign_done
                 /\ simtime' = simtime /\ charged' = charged /\ jobs' = jobs
                 /\ power_consumed_cpu_idle' = power_consumed_cpu_idle
  <1>1. phase = "setup" /\ temp # <<>> /\ temp \in Lists
    BY DEF SetupTask, IInv, ListsApart
  <1>2. PICK t \in Tasks : t = Head(temp) /\ t \in ToSet(temp) /\ t \notin ToSet(Tail(temp))
                           /\ Tail(temp) \in Seq(Tasks) /\ ToSet(Tail(temp)) \subseteq ToSet(temp)
    BY <1>1, HeadAndTail
  <1>3. CASE ~Assignable(Policy, amount, t)
    <2>1. phase' = "done" /\ temp' = <<>>
          /\ UNCHANGED <<driver, reason, q, amount, reassign_done, simtime, account>>
      BY <1>2, <1>3 DEF SetupTask
    <2>. QED
      BY <1>1, <1>2, <1>3, <2>1 DEF SetupFails, driver, account
  <1>4. CASE Assignable(Policy, amount, t)
    <2>1. PICK m, T, q1 :
             /\ m = AssignedMem(Policy, amount, t)
             /\ T = calc_task_det(q.tk[t], AssignedFreq(Policy, t), m)
             /\ q1 = requeue_task([q EXCEPT !.tk[t] = T], t, 0)
             /\ IF is_schedulable(q, T) /\ q1.bad # "none"
                THEN Exit(q1.bad)
                ELSE /\ amount' = Charge(amount, t, m)
                     /\ IF is_schedulable(q, T)
                        THEN q' = q1 /\ temp' = Tail(temp) /\ UNCHANGED phase
                        ELSE q' = [q EXCEPT !.tk[t] = T] /\ temp' = <<>> /\ phase' = "done"
                     /\ UNCHANGED <<driver, reason, reassign_done, simtime, account>>
      BY <1>2, <1>4 DEF SetupTask
    <2>2. PICK c \in BOOLEAN : c <=> is_schedulable(q, T)
      OBVIOUS
    <2>3. q \in Queue /\ q.list \in Lists /\ q.bad = "none" /\ t \notin ToSet(q.list)
          /\ Timeable(q.tk[t]) /\ q.tk[t].det_remain = 0 /\ ToSet(temp) \cap ToSet(q.list) = {}
      BY <1>2 DEF IInv, TypeOK, ListsApart, TasksTimed, Queued
    <2>4. Policy \in Policies /\ (Policy = "dram" => n_cpufreqs >= 2)
      <3>1. Policy \in Policies /\ (Policy = "dram" => policy = 4)
        BY PolicyType DEF IInv, TypeOK, Policy
      <3>2. policy = 4 => "all" \in Modes \/ 4 \in Chosen
        BY PolicyAssumption DEF IInv, TypeOK
      <3>. QED
        BY <3>1, <3>2, PolicyAssumption
    <2>5. m \in MemTypes
      BY <1>4, <2>1, <2>4, AssignedMemType
    <2>6. PICK f \in 1..n_cpufreqs : f = AssignedFreq(Policy, t)
      BY <2>4, AssignedFreqType
    <2>7. T \in TaskType /\ IsSetUp(T) /\ Timeable(T) /\ T.mem_type = m
          /\ SamePlan(T, q.tk[t]) /\ T.det_remain = 0
      <3>1. PICK T0 \in TaskType : T0 = q.tk[t]
        BY <2>3, QueueType
      <3>2. Timeable(T0) /\ T0.det_remain = 0 /\ T = calc_task_det(T0, f, m)
        BY <2>1, <2>3, <2>6, <3>1
      <3>3. det_asserts(T0, T) /\ (T0.det_remain > 0 => T0.det # 0)
        BY <3>2 DEF det_asserts
      <3>. QED
        BY <2>5, <3>1, <3>2, <3>3, calc_task_detKeeps DEF SamePlan
    <2>8. PICK z : z = [q EXCEPT !.tk[t] = T]
      OBVIOUS
    <2>9. z \in Queue /\ z.list = q.list /\ z.bad = "none" /\ z.tk[t] = T
          /\ \A u \in Tasks \ {t} : z.tk[u] = q.tk[u]
      BY <2>3, <2>7, <2>8, TaskSet
    <2>10. CASE c /\ q1.bad # "none"
      BY <1>1, <2>1, <2>2, <2>10
    <2>11. CASE c /\ q1.bad = "none"
      <3>1. /\ amount' = Charge(amount, t, m) /\ q' = q1 /\ temp' = Tail(temp) /\ phase' = phase
            /\ UNCHANGED <<driver, reason, reassign_done, simtime, account>>
        BY <2>1, <2>2, <2>11
      <3>2. PICK off : off = ToSet(Tail(temp))
        OBVIOUS
      <3>3. off \in SUBSET Tasks /\ t \notin off /\ off \cap ToSet(z.list) = {} /\ 0 \in Ticks
        <4>1. off \in SUBSET Tasks
          BY <1>2, <3>2 DEF ToSet
        <4>2. t \notin off /\ off \cap ToSet(q.list) = {}
          BY <1>2, <2>3, <3>2
        <4>. QED
          BY <2>9, <4>1, <4>2, Constants
      <3>4. TaskMoved(q, q1, t, T, off) /\ ToSet(q1.list) = ToSet(q.list) \cup {t}
        <4>1. q1 = requeue_task(z, t, 0) /\ z.list \in Lists /\ t \notin ToSet(z.list)
          BY <2>1, <2>3, <2>8, <2>9
        <4>2. TaskMoved(q, q1, t, T, off) /\ ToSet(q1.list) = ToSet(z.list) \cup {t}
          BY <2>3, <2>7, <2>9, <2>11, <3>3, <4>1, RequeuedMoves
        <4>. QED
          BY <2>9, <4>2
      <3>5. SetupGrants(T)
        BY <1>2, <1>4, <2>1, <2>5, <2>7, <3>1, <3>2, <3>4, Zenon DEF SetupGrants
      <3>. QED
        BY <1>1, <3>1, <3>5 DEF driver, account
    <2>12. CASE ~c
      <3>1. /\ amount' = Charge(amount, t, m) /\ q' = z /\ temp' = <<>> /\ phase' = "done"
            /\ UNCHANGED <<driver, reason, reassign_done, simtime, account>>
        BY <2>1, <2>2, <2>8, <2>12
      <3>2. TaskMoved(q, z, t, T, ToSet(Tail(temp)))
        <4>1. \A u \in ToSet(Tail(temp)) : u \in Tasks \ {t}
          BY <1>2 DEF ToSet
        <4>. QED
          BY <2>3, <2>9, <4>1 DEF TaskMoved, SameTask
      <3>3. SetupGrants(T)
        BY <1>2, <1>4, <2>1, <2>5, <2>7, <2>8, <2>9, <3>1, <3>2, Zenon DEF SetupGrants
      <3>. QED
        BY <1>1, <3>1, <3>3 DEF driver, account
    <2>. QED
      BY <2>10, <2>11, <2>12
  <1>. QED
    BY <1>3, <1>4

LEMMA ListedTasks ==
    \A l \in Lists : ToSet(l) \subseteq Tasks
  BY ListType DEF ToSet

LEMMA SameSpeeds ==
    ASSUME NEW T, NEW S, SameTask(T, S)
    PROVE  (Timeable(S) => Timeable(T)) /\ (IsSetUp(S) => IsSetUp(T))
  BY DEF SameTask, Timeable, IsSetUp

LEMMA SetupTaskInv ==
    ASSUME IInv, SetupTask
    PROVE  IInv' /\ NoneLost
  <1>1. CASE \E why : Exit(why)
    BY <1>1, ExitInv
  <1>2. CASE ~ \E why : Exit(why)
    <2>1. /\ phase = "setup" /\ temp \in Lists /\ temp # <<>>
          /\ SetupFails \/ \E T : SetupGrants(T)
          /\ mode' = mode /\ policy' = policy /\ reassign_done' = reassign_done
          /\ simtime' = simtime /\ charged' = charged /\ jobs' = jobs
          /\ power_consumed_cpu_idle' = power_consumed_cpu_idle
      BY <1>2, SetupTaskCases
    <2>a. PICK t, l : t = Head(temp) /\ l = Tail(temp)
      OBVIOUS
    <2>2. /\ t \in Tasks /\ l \in Lists /\ t \in ToSet(temp) /\ t \notin ToSet(l)
          /\ l \in Seq(Tasks) /\ ToSet(temp) = {t} \cup ToSet(l)
      BY <2>1, <2>a, HeadAndTail
    <2>3. <<>> \in Lists /\ ToSet(<<>>) = {} /\ <<>> \in Seq(Tasks)
      BY DEF Lists, IsInjective, ToSet
    <2>4. /\ q \in Queue /\ q.list \in Lists /\ q.bad = "none" /\ ToSet(temp) \cap ToSet(q.list) = {}
          /\ amount \in Ledgers /\ Queued \subseteq Tasks
      BY ListedTasks DEF IInv, TypeOK, ListsApart, TasksTimed, Queued, Ledgers
    <2>5. CASE SetupFails
      <3>1. phase' = "done" /\ temp' = <<>> /\ q' = q /\ amount' = amount
        BY <2>5 DEF SetupFails
      <3>2. ListsApart'
        BY <2>3, <2>4, <3>1 DEF ListsApart, Queued
      <3>3. TypeOK'
        BY <2>1, <2>3, <3>1 DEF IInv, TypeOK
      <3>4. TasksTimed'
        BY <2>3, <3>1 DEF IInv, TasksTimed, Queued
      <3>5. AccountsStart' /\ EveryTickCharged' /\ NoneLost
        BY <2>1, <3>1 DEF AccountsStart, EveryTickCharged, NoneLost
      <3>. QED
        BY <2>1, <3>2, <3>3, <3>4, <3>5 DEF IInv
    <2>6. ASSUME NEW T, SetupGrants(T) PROVE IInv' /\ NoneLost
      <3>1. PICK m \in MemTypes :
               /\ amount' = Charge(amount, t, m) /\ IsSetUp(T) /\ Timeable(T)
               /\ TaskMoved(q, q', t, T, ToSet(l))
               /\ \/ phase' = phase /\ temp' = l /\ ToSet(q'.list) = ToSet(q.list) \cup {t}
                  \/ phase' = "done" /\ temp' = <<>> /\ q'.list = q.list
        BY <2>2, <2>6, <2>a, Zenon DEF SetupGrants
      <3>2. /\ q' \in Queue /\ q'.bad = "none" /\ q'.list \in Lists /\ SameTask(q'.tk[t], T)
            /\ \A u \in Tasks \ {t} : SameTask(q'.tk[u], q.tk[u])
            /\ \A u \in ToSet(l) : q'.tk[u] = q.tk[u]
        <4>1. TaskMoved(q, q', t, T, ToSet(l))
          BY <3>1
        <4>. QED
          BY <4>1, Zenon DEF TaskMoved
      <3>3. amount' \in Ledgers
        <4>1. Charge(amount, t, m) \in Ledgers
          BY <2>2, <2>4, LedgerType, Zenon
        <4>. QED
          BY <3>1, <4>1
      <3>4. TypeOK'
        BY <2>1, <2>2, <2>3, <3>1, <3>2, <3>3 DEF IInv, TypeOK, Ledgers
      <3>5. ListsApart'
        BY <2>2, <2>3, <2>4, <3>1, <3>2 DEF ListsApart, Queued
      <3>6. NoneLost
        <4>1. CASE temp' = l /\ ToSet(q'.list) = ToSet(q.list) \cup {t}
          <5>1. ToSet(temp') \cup ToSet(q'.list) = ToSet(temp) \cup ToSet(q.list)
            BY <2>2, <4>1
          <5>. QED
            BY <3>5, <5>1, SameTasks DEF IInv
        <4>2. CASE phase' = "done"
          BY <2>1, <4>2 DEF NoneLost
        <4>. QED
          BY <3>1, <4>1, <4>2
      <3>7. TasksTimed'
        <4>1. /\ \A u \in ToSet(temp) \cup Queued : Timeable(q.tk[u])
              /\ \A u \in ToSet(temp) : q.tk[u].det_remain = 0
              /\ \A u \in Queued : IsSetUp(q.tk[u])
          BY <2>1 DEF IInv, TasksTimed
        <4>2. IsSetUp(q'.tk[t]) /\ Timeable(q'.tk[t])
          BY <3>1, <3>2, SameSpeeds
        <4>3. \A u \in Queued : IsSetUp(q'.tk[u]) /\ Timeable(q'.tk[u])
          BY <2>4, <3>2, <4>1, <4>2, SameSpeeds
        <4>4. \A u \in ToSet(l) : Timeable(q'.tk[u]) /\ q'.tk[u].det_remain = 0
          BY <2>2, <3>2, <4>1
        <4>5. \A u \in ToSet(q'.list) : IsSetUp(q'.tk[u]) /\ Timeable(q'.tk[u])
          BY <3>1, <4>2, <4>3 DEF Queued
        <4>6. \A u \in ToSet(temp') : Timeable(q'.tk[u]) /\ q'.tk[u].det_remain = 0
          BY <2>3, <3>1, <4>4
        <4>7. phase' # "init"
          BY <2>1, <3>1
        <4>. QED
          BY <3>2, <4>5, <4>6, <4>7 DEF TasksTimed, Queued
      <3>8. AccountsStart' /\ EveryTickCharged'
        BY <2>1, <3>1 DEF IInv, AccountsStart, EveryTickCharged, StartOfRun
      <3>. QED
        BY <2>1, <3>4, <3>5, <3>6, <3>7, <3>8 DEF IInv
    <2>. QED
      BY <2>1, <2>5, <2>6
  <1>. QED
    BY <1>1, <1>2

(* One turn of runsim's loop: the task at the head, with what its policy   *)
(* gives it, has had its turn of n ticks.                                  *)
TurnTaken(t, T, n) ==
    /\ T \in TaskType /\ IsSetUp(T) /\ Timeable(T)
    /\ Moves(t) => /\ T.mem_type \in Tried(Policy, Freed(t), t)
                   /\ amount' = MovedAmount(Policy, Freed(t), t, {T.mem_type})
    /\ ~Moves(t) => T.mem_type = q.tk[t].mem_type /\ amount' = amount
    /\ amount' \in Ledgers
    /\ reassign_done' = IF Policy = "dvshm_gr" THEN reassign_done \cup {t} ELSE reassign_done
    /\ TaskMoved(q, q', t, T, {}) /\ ToSet(q'.list) = Queued
    /\ n \in Nat /\ simtime' = simtime + n
    /\ charged' \in [Tasks -> Nat] /\ \A u \in Queued : charged'[u] = charged[u] + n
    /\ jobs' \in [Tasks -> Nat] /\ power_consumed_cpu_idle' \in Nat

(* What schedule_task runs the task at the head with. *)
Reassigned(t, R, ledger) ==
    /\ R \in TaskType /\ IsSetUp(R) /\ Timeable(R) /\ ledger \in Ledgers
    /\ Moves(t) => /\ R.mem_type \in Tried(Policy, Freed(t), t)
                   /\ ledger = MovedAmount(Policy, Freed(t), t, {R.mem_type})
    /\ ~Moves(t) => R.mem_type = q.tk[t].mem_type /\ ledger = amount

RunsFor(T, ret) == ret = task_ret(T) /\ ~(ret > T.deadline)

LEMMA RunHeadCases ==
    ASSUME IInv, NEW t \in Tasks, q.list # <<>>, t = Head(q.list),
           NEW R \in TaskType, NEW ledger, Reassigned(t, R, ledger),
           NEW T \in TaskType, SameTask(T, R),
           NEW ret, RunsFor(T, ret), RunHead(t, T, ret, ledger)
    PROVE  \/ \E why : Exit(why)
           \/ /\ \E n : TurnTaken(t, R, n)
              /\ mode' = mode /\ policy' = policy /\ phase' = phase /\ temp' = temp
  <1>1. PICK T1, q1 :
           /\ T1 = Ran(T, ret)
           /\ q1 = requeue_task([q EXCEPT !.list = Tail(@), !.tk[t] = Idled(T1)], t, Idled(T1).gap)
           /\ LET head  == q.tk[t].gap_head
                  idle  == IdleAfter(T1)
                  now   == simtime + head + ret + idle
                  cpu   == IdleCpu(power_consumed_cpu_idle, head) + ActiveCpuIdle(T, ret)
                  check == check_queued_tasks(q1, now)
              IN  IF q1.bad # "none" THEN Exit(q1.bad)
                  ELSE IF check # "none" THEN Exit(check)
                  ELSE /\ q' = q1
                       /\ simtime' = now
                       /\ amount' = ledger
                       /\ reassign_done' = IF Policy = "dvshm_gr" THEN reassign_done \cup {t}
                                           ELSE reassign_done
                       /\ jobs' = IF T1.det_remain = 0 THEN [jobs EXCEPT ![t] = @ + 1] ELSE jobs
                       /\ charged' = ChargeRun(charged, t, ToSet(Tail(q.list)), head, ret, idle)
                       /\ power_consumed_cpu_idle' = IF T1.gap > 0 THEN IdleCpu(cpu, idle) ELSE cpu
                       /\ UNCHANGED <<driver, phase, reason, temp>>
    BY Zenon DEF RunHead
  <1>2. PICK head, idle, now, check :
           /\ head = q.tk[t].gap_head /\ idle = IdleAfter(T1) /\ now = simtime + head + ret + idle
           /\ check = check_queued_tasks(q1, now)
    OBVIOUS
  <1>3. \/ \E why : Exit(why)
        \/ /\ q1.bad = "none"
           /\ q' = q1
           /\ simtime' = now
           /\ amount' = ledger
           /\ reassign_done' = IF Policy = "dvshm_gr" THEN reassign_done \cup {t}
                               ELSE reassign_done
           /\ jobs' = IF T1.det_remain = 0 THEN [jobs EXCEPT ![t] = @ + 1] ELSE jobs
           /\ charged' = ChargeRun(charged, t, ToSet(Tail(q.list)), head, ret, idle)
           /\ power_consumed_cpu_idle' = IF T1.gap > 0
                                         THEN IdleCpu(IdleCpu(power_consumed_cpu_idle, head)
                                                      + ActiveCpuIdle(T, ret), idle)
                                         ELSE IdleCpu(power_consumed_cpu_idle, head)
                                              + ActiveCpuIdle(T, ret)
           /\ UNCHANGED <<driver, phase, reason, temp>>
    <2>1. CASE q1.bad # "none"
      BY <1>1, <2>1
    <2>2. CASE q1.bad = "none" /\ check # "none"
      BY <1>1, <1>2, <2>2
    <2>3. CASE q1.bad = "none" /\ check = "none"
      BY <1>1, <1>2, <2>3, Zenon
    <2>. QED
      BY <2>1, <2>2, <2>3
  <1>4. /\ q \in Queue /\ q.list \in Lists /\ q.bad = "none" /\ simtime \in Nat
        /\ charged \in [Tasks -> Nat] /\ jobs \in [Tasks -> Nat] /\ power_consumed_cpu_idle \in Nat
    BY DEF IInv, TypeOK, ListsApart, TasksTimed
  <1>5. PICK l \in Lists : /\ l = Tail(q.list) /\ t \notin ToSet(l) /\ ToSet(q.list) = {t} \cup ToSet(l)
                           /\ l \in Seq(Tasks)
    BY <1>4, HeadAndTail
  <1>7. /\ ret \in Ticks /\ idle \in Ticks /\ Idled(T1) \in TaskType /\ SameTask(Idled(T1), T)
    BY <1>1, <1>2, RunType DEF RunsFor
  <1>8. head \in Nat /\ ret \in Nat /\ idle \in Nat
    BY <1>2, <1>4, <1>7, QueueType, Constants
  <1>9. SUFFICES ASSUME ~ \E why : Exit(why)
                 PROVE  /\ \E n : TurnTaken(t, R, n)
                        /\ mode' = mode /\ policy' = policy /\ phase' = phase /\ temp' = temp
    OBVIOUS
  <1>10. PICK I \in TaskType : I = Idled(T1) /\ SameTask(I, R) /\ I.gap \in Ticks
    BY <1>7 DEF SameTask, TaskType
  <1> DEFINE y == [q EXCEPT !.list = l]
             z == [y EXCEPT !.tk[t] = I]
  <1>11. y \in Queue /\ y.list = l /\ y.tk = q.tk /\ y.bad = "none"
    BY <1>4, <1>5 DEF Queue
  <1>12. q1 = requeue_task(z, t, I.gap)
    <2>1. z = [q EXCEPT !.list = l, !.tk[t] = I]
      BY <1>4 DEF Queue
    <2>2. z = [q EXCEPT !.list = Tail(@), !.tk[t] = Idled(T1)]
      BY <1>5, <1>10, <2>1
    <2>. HIDE DEF z
    <2>. QED
      BY <1>1, <1>10, <2>2
  <1>. HIDE DEF y
  <1>13. /\ z \in Queue /\ z.list = l /\ z.bad = "none" /\ z.tk[t] = I
         /\ \A u \in Tasks \ {t} : z.tk[u] = q.tk[u]
    BY <1>11, TaskSet
  <1>. HIDE DEF z
  <1>14. TaskMoved(q, q1, t, I, {}) /\ ToSet(q1.list) = ToSet(l) \cup {t}
    <2>1. z.list \in Lists /\ t \notin ToSet(z.list) /\ I.gap \in Ticks /\ q1.bad = "none"
      BY <1>3, <1>5, <1>9, <1>10, <1>13
    <2>2. PICK off \in SUBSET Tasks : off = {} /\ t \notin off /\ off \cap ToSet(z.list) = {}
      OBVIOUS
    <2>3. PICK n \in Ticks : n = I.gap /\ q1 = requeue_task(z, t, n)
      BY <1>10, <1>12
    <2>4. /\ q \in Queue /\ z \in Queue /\ z.tk[t] = I
          /\ \A u \in Tasks \ {t} : z.tk[u] = q.tk[u]
      BY <1>4, <1>13
    <2>5. \A u \in Tasks \ {t} : z.tk[u] = z.tk[u]
      OBVIOUS
    <2>6. TaskMoved(z, q1, t, I, off)
      BY <2>1, <2>2, <2>3, <2>4, <2>5, RequeuedMoves
    <2>7. ToSet(q1.list) = ToSet(z.list) \cup {t}
      <3>1. Requeued(z, t, q1)
        BY <1>13, <2>1, <2>3, RequeueKeepsTasks
      <3>. QED
        BY <2>1, <3>1, Zenon DEF Requeued
    <2>8. TaskMoved(q, q1, t, I, {})
      BY <2>2, <2>4, <2>6 DEF TaskMoved
    <2>. QED
      BY <1>13, <2>7, <2>8
  <1>15. TaskMoved(q, q', t, R, {}) /\ ToSet(q'.list) = Queued
    <2>1. q' = q1
      BY <1>3, <1>9
    <2>2. TaskMoved(q, q1, t, R, {})
      BY <1>10, <1>14 DEF TaskMoved, SameTask
    <2>. QED
      BY <1>5, <1>14, <2>1, <2>2 DEF Queued
  <1>16. PICK n : n = head + ret + idle /\ n \in Nat
    <2>1. head + ret + idle \in Nat
      BY <1>8
    <2>. QED
      BY <2>1
  <1>17. simtime' = simtime + n
    <2>1. simtime' = now /\ now = simtime + head + ret + idle
      BY <1>2, <1>3, <1>9
    <2>. QED
      BY <1>4, <1>8, <1>16, <2>1
  <1>18. charged' \in [Tasks -> Nat] /\ \A u \in Queued : charged'[u] = charged[u] + n
    <2>1. PICK S \in SUBSET Tasks : S = ToSet(l) /\ t \notin S /\ Queued = S \cup {t}
      BY <1>5, ListedTasks DEF Queued
    <2>2. charged' = ChargeRun(charged, t, S, head, ret, idle)
      BY <1>3, <1>5, <1>9, <2>1
    <2>3. /\ ChargeRun(charged, t, S, head, ret, idle) \in [Tasks -> Nat]
          /\ \A u \in S \cup {t} :
                ChargeRun(charged, t, S, head, ret, idle)[u] = charged[u] + (head + ret + idle)
      <3>1. charged \in [Tasks -> Nat]
        BY <1>4
      <3>2. ChargedAlike(charged, S \cup {t}, head + ret + idle,
                         ChargeRun(charged, t, S, head, ret, idle))
        BY <1>8, <2>1, <3>1, ChargeRunType
      <3>. QED
        BY <3>2, Zenon DEF ChargedAlike
    <2>4. PICK c : c = ChargeRun(charged, t, S, head, ret, idle)
      OBVIOUS
    <2>5. c \in [Tasks -> Nat] /\ \A u \in Queued : c[u] = charged[u] + (head + ret + idle)
      BY <2>1, <2>3, <2>4, Zenon
    <2>. QED
      BY <1>16, <2>2, <2>4, <2>5
  <1>19. jobs' \in [Tasks -> Nat]
    <2>1. jobs' = jobs \/ jobs' = [jobs EXCEPT ![t] = @ + 1]
      BY <1>3, <1>9
    <2>. QED
      BY <1>4, <2>1
  <1>20. power_consumed_cpu_idle' \in Nat
    <2>1. PICK a \in Nat, b \in Nat : /\ a = IdleCpu(power_consumed_cpu_idle, head)
                                      /\ b = ActiveCpuIdle(T, ret)
      <3>1. T.idx_cpufreq \in 1..n_cpufreqs
        BY DEF SameTask, IsSetUp, Reassigned
      <3>2. IdleCpu(power_consumed_cpu_idle, head) \in Nat
        BY <1>4, <1>8, IdleCpuType, Zenon
      <3>3. ActiveCpuIdle(T, ret) \in Nat
        BY <1>8, <3>1, ActiveCpuIdleType, Zenon
      <3>. QED
        BY <3>2, <3>3
    <2>2. a + b \in Nat /\ IdleCpu(a + b, idle) \in Nat
      <3>1. PICK c \in Nat : c = a + b
        OBVIOUS
      <3>2. IdleCpu(c, idle) \in Nat
        BY <1>8, IdleCpuType, Zenon
      <3>. QED
        BY <3>1, <3>2
    <2>3. power_consumed_cpu_idle' = a + b \/ power_consumed_cpu_idle' = IdleCpu(a + b, idle)
      BY <1>3, <1>9, <2>1
    <2>. QED
      BY <2>2, <2>3
  <1>21. amount' = ledger /\ UNCHANGED <<driver, phase, reason, temp>>
         /\ reassign_done' = IF Policy = "dvshm_gr" THEN reassign_done \cup {t} ELSE reassign_done
    BY <1>3, <1>9
  <1>22. TurnTaken(t, R, n)
    <2>1. Reassigned(t, R, amount')
      BY <1>21
    <2>. QED
      BY <1>15, <1>16, <1>17, <1>18, <1>19, <1>20, <1>21, <2>1, Zenon DEF TurnTaken, Reassigned
  <1>. QED
    BY <1>21, <1>22 DEF driver

LEMMA ScheduleTaskCases ==
    ASSUME IInv, ScheduleTask
    PROVE  /\ phase = "sim"
           /\ \/ \E why : Exit(why)
              \/ /\ \E t \in Queued : \E T, n : TurnTaken(t, T, n)
                 /\ mode' = mode /\ policy' = policy /\ phase' = phase /\ temp' = temp
  <1>1. PICK t, re :
           /\ t = Head(q.list) /\ re = reassign_task(t)
           /\ IF re.fault # "none" THEN Exit(re.fault)
              ELSE \E T \in {[re.T EXCEPT !.gap_head = 0]} :
                      IF task_ret(T) > T.deadline THEN Exit("deadline violated")
                      ELSE RunHead(t, T, task_ret(T), re.amount)
    BY DEF ScheduleTask
  <1>2. phase = "sim" /\ q.list # <<>> /\ q.list \in Lists
    BY DEF ScheduleTask, IInv, ListsApart
  <1>3. t \in Tasks /\ t \in Queued
    BY <1>1, <1>2, HeadAndTail DEF Queued
  <1>4. CASE re.fault # "none"
    BY <1>1, <1>2, <1>4
  <1>5. CASE re.fault = "none"
    <2>1. PICK T : /\ T = [re.T EXCEPT !.gap_head = 0]
                   /\ IF task_ret(T) > T.deadline THEN Exit("deadline violated")
                      ELSE RunHead(t, T, task_ret(T), re.amount)
      BY <1>1, <1>5
    <2>2. PICK ret : ret = task_ret(T)
      OBVIOUS
    <2>3. CASE ret > T.deadline
      BY <1>2, <2>1, <2>2, <2>3
    <2>4. CASE ~(ret > T.deadline)
      <3>1. RunHead(t, T, ret, re.amount)
        BY <2>1, <2>2, <2>4
      <3>2. policy \in DOMAIN AllPolicies /\ q \in Queue /\ amount \in Ledgers
            /\ IsSetUp(q.tk[t]) /\ Timeable(q.tk[t])
        BY <1>2, <1>3 DEF IInv, TypeOK, Ledgers, TasksTimed
      <3>3. PICK R : R = re.T
        OBVIOUS
      <3>4. Reassigned(t, R, re.amount)
        BY <1>1, <1>3, <1>5, <3>2, <3>3, reassign_taskKeeps DEF Reassigned
      <3>5. T \in TaskType /\ SameTask(T, R) /\ R \in TaskType
        BY <2>1, <3>3, <3>4, Constants DEF Reassigned, TaskType, SameTask
      <3>6. PICK ledger : ledger = re.amount
        OBVIOUS
      <3>7. RunHead(t, T, ret, ledger) /\ RunsFor(T, ret) /\ Reassigned(t, R, ledger)
        BY <2>2, <2>4, <3>1, <3>4, <3>6 DEF RunsFor
      <3>8. \/ \E why : Exit(why)
            \/ /\ \E n : TurnTaken(t, R, n)
               /\ mode' = mode /\ policy' = policy /\ phase' = phase /\ temp' = temp
        BY <1>1, <1>2, <1>3, <3>5, <3>7, RunHeadCases
      <3>. QED
        BY <1>2, <1>3, <3>8
    <2>. QED
      BY <2>3, <2>4
  <1>. QED
    BY <1>4, <1>5

LEMMA ScheduleTaskInv ==
    ASSUME IInv, ScheduleTask
    PROVE  IInv' /\ NoneLost
  <1>1. CASE \E why : Exit(why)
    BY <1>1, ExitInv
  <1>2. CASE ~ \E why : Exit(why)
    <2>a. PICK t \in Queued : \E T, n : TurnTaken(t, T, n)
      BY <1>2, ScheduleTaskCases
    <2>1. PICK T, n : TurnTaken(t, T, n)
      BY <2>a
    <2>2. /\ phase = "sim" /\ mode' = mode /\ policy' = policy /\ phase' = phase /\ temp' = temp
      BY <1>2, ScheduleTaskCases
    <2>3. /\ q \in Queue /\ q.list \in Lists /\ Queued \subseteq Tasks /\ temp = <<>>
          /\ temp \in Lists /\ simtime \in Nat /\ charged \in [Tasks -> Nat] /\ reassign_done \subseteq Tasks
      BY <2>2, ListType DEF IInv, TypeOK, ListsApart, Queued, ToSet
    <2>4. /\ IsSetUp(T) /\ Timeable(T) /\ amount' \in Ledgers
          /\ q' \in Queue /\ q'.bad = "none" /\ q'.list \in Lists /\ SameTask(q'.tk[t], T)
          /\ \A u \in Tasks \ {t} : SameTask(q'.tk[u], q.tk[u])
          /\ ToSet(q'.list) = Queued /\ n \in Nat /\ simtime' = simtime + n
          /\ charged' \in [Tasks -> Nat] /\ \A u \in Queued : charged'[u] = charged[u] + n
          /\ jobs' \in [Tasks -> Nat] /\ power_consumed_cpu_idle' \in Nat
      BY <2>1 DEF TurnTaken, TaskMoved
    <2>5. reassign_done' \subseteq Tasks
      BY <2>1, <2>3 DEF TurnTaken
    <2>6. ListsApart'
      BY <2>2, <2>3, <2>4 DEF IInv, ListsApart, Queued
    <2>7. NoneLost
      <3>1. ToSet(temp') \cup ToSet(q'.list) = ToSet(temp) \cup ToSet(q.list)
        BY <2>2, <2>4 DEF Queued
      <3>. QED
        BY <2>6, <3>1, SameTasks DEF IInv
    <2>8. TypeOK'
      BY <2>2, <2>3, <2>4, <2>5 DEF IInv, TypeOK, Ledgers
    <2>9. TasksTimed'
      <3>1. \A u \in Queued : IsSetUp(q.tk[u]) /\ Timeable(q.tk[u])
        BY <2>2 DEF IInv, TasksTimed
      <3>2. \A u \in Queued : IsSetUp(q'.tk[u]) /\ Timeable(q'.tk[u])
        BY <2>3, <2>4, <3>1, SameSpeeds
      <3>3. ToSet(temp') = {}
        BY <2>2, <2>3 DEF ToSet
      <3>. QED
        BY <2>2, <2>4, <3>2, <3>3 DEF TasksTimed, Queued
    <2>10. EveryTickCharged'
      <3>1. \A u \in Queued : charged[u] = simtime - StartOfRun
        BY <2>2 DEF IInv, EveryTickCharged
      <3>2. PICK s \in Nat : s = StartOfRun /\ s = StartOfRun'
        BY <2>2 DEF StartOfRun, RestartTime
      <3>3. \A u \in Queued : charged'[u] = simtime' - s
        BY <2>3, <2>4, <3>1, <3>2
      <3>. QED
        BY <2>4, <3>2, <3>3 DEF EveryTickCharged, Queued
    <2>11. AccountsStart'
      BY <2>2 DEF AccountsStart
    <2>. QED
      BY <2>2, <2>6, <2>7, <2>8, <2>9, <2>10, <2>11 DEF IInv
  <1>. QED
    BY <1>1, <1>2

----------------------------------------------------------------------------
(* The theorems. *)

LEMMA NextInv ==
    ASSUME IInv, [Next]_vars
    PROVE  IInv' /\ (NoneLost \/ UNCHANGED vars)
  <1>1. CASE InitPolicy
    BY <1>1, InitPolicyInv
  <1>2. CASE SetupTask
    BY <1>2, SetupTaskInv
  <1>3. CASE EndSetup
    BY <1>3, EndSetupInv
  <1>4. CASE ScheduleTask
    BY <1>4, ScheduleTaskInv
  <1>5. CASE EndSim
    BY <1>5, EndSimInv
  <1>6. CASE Return
    <2>1. Exit("ok")
      BY <1>6 DEF Return
    <2>. QED
      BY <2>1, ExitInv
  <1>7. CASE NextPolicy
    BY <1>7, NextPolicyInv
  <1>8. CASE UNCHANGED vars
    BY <1>8, StutterInv
  <1>9. Exited => UNCHANGED vars
    BY DEF Exited
  <1>. QED
    BY <1>1, <1>2, <1>3, <1>4, <1>5, <1>6, <1>7, <1>8, <1>9 DEF Next

(* The inductive invariant holds in every state of every run. *)
LEMMA Inductive == Spec => []IInv
  <1>1. Init => IInv
    BY InitInv
  <1>2. IInv /\ [Next]_vars => IInv'
    BY NextInv
  <1>. QED
    BY <1>1, <1>2, PTL DEF Spec

(* The variables of memwork have their types for every configuration the   *)
(* program accepts: no tick count leaves the range of an unsigned, the     *)
(* tasks on a list are tasks, and setup_tasks' local list is empty outside *)
(* set-up.                                                                 *)
THEOREM TypeCorrect == Spec => []TypeOK
  <1>1. IInv => TypeOK
    BY DEF IInv
  <1>. QED
    BY <1>1, Inductive, PTL

(* schedule_task charges the memory of every queued task for each tick of  *)
(* a run, once, whatever the policy moves or slows: the accounts of        *)
(* power.c and the clock simtime never drift apart.                        *)
THEOREM TicksAreCharged == Spec => []EveryTickCharged
  <1>1. IInv => EveryTickCharged
    BY DEF IInv
  <1>. QED
    BY <1>1, Inductive, PTL

(* No step of memwork but a set-up that fails takes a task out of the      *)
(* lists or puts one on twice: taking the head off, delaying tasks,        *)
(* inserting and reinit_tasks keep the set and the number of the tasks.    *)
THEOREM NoTaskIsLost == Spec => NoTaskLost
  <1>1. IInv /\ [Next]_vars => [NoneLost]_vars
    BY NextInv
  <1>. QED
    BY <1>1, Inductive, PTL DEF Spec, NoTaskLost, NoneLost

----------------------------------------------------------------------------
(* The refinement of MemPolicy.  Ledger's operators are those of Mem. *)

LEMMA LedgerDecides ==
    \A p, a, t : /\ Ledger!Assignable(p, a, t) = Assignable(p, a, t)
                 /\ Ledger!AssignedMem(p, a, t) = AssignedMem(p, a, t)
  BY DEF Ledger!Assignable, Assignable, Ledger!AssignedMem, AssignedMem, Ledger!AssignOrder,
         AssignOrder, Ledger!Fits, Fits, Ledger!Limit, Limit, Ledger!single_memtype,
         single_memtype, Ledger!total_capacity, total_capacity

LEMMA LedgerTries ==
    \A p, a, t : Ledger!Tried(p, a, t) = Tried(p, a, t)
  BY DEF Ledger!Tried, Tried, Ledger!Fits, Fits, Ledger!Limit, Limit, Ledger!single_memtype,
         single_memtype, Ledger!total_capacity, total_capacity, Ledger!MemTypes, MemTypes

LEMMA LedgerMoves ==
    \A p, a, t, S : /\ Ledger!Movable(p, a, t, S) = Movable(p, a, t, S)
                    /\ Ledger!NewMem(p, a, t, S) = NewMem(p, a, t, S)
                    /\ Ledger!MovedAmount(p, a, t, S) = MovedAmount(p, a, t, S)
  BY LedgerTries
     DEF Ledger!Movable, Movable, Ledger!NewMem, NewMem, Ledger!MovedAmount, MovedAmount,
         Ledger!Leaked, Leaked, Ledger!RevokesFailedTry, RevokesFailedTry,
         Ledger!ReassignOrder, ReassignOrder, Ledger!MemTypes, MemTypes

LEMMA LedgerCharges ==
    \A a, t, m : Ledger!Charge(a, t, m) = Charge(a, t, m) /\ Ledger!Release(a, t, m) = Release(a, t, m)
  BY DEF Ledger!Charge, Charge, Ledger!Release, Release

LEMMA LedgerPolicies ==
    /\ Ledger!Policy = Policy /\ Ledger!AllPolicies = AllPolicies /\ Ledger!MemTypes = MemTypes
    /\ Ledger!MovesMemory(Policy) = MovesMemory(Policy)
  BY DEF Ledger!Policy, Policy, Ledger!AllPolicies, AllPolicies, Ledger!MemTypes, MemTypes,
         Ledger!MovesMemory, MovesMemory

(* mem_type of the ledger. *)
MemTypeOf == [t \in Tasks |-> q.tk[t].mem_type]

LEMMA InitRefines ==
    ASSUME Init
    PROVE  Ledger!Init
  <1>1. PICK c \in Confs :
          q = [list |-> [t \in DOMAIN c |-> t],
               tk   |-> [t \in Tasks |-> IF t \in DOMAIN c
                                         THEN create_task(c[t].wcet, c[t].period) ELSE NoTask],
               bad  |-> "none"]
    BY DEF Init
  <1>2. \A t \in Tasks : q.tk[t].mem_type = "none"
    BY <1>1 DEF NoTask, create_task
  <1>3. MemTypeOf = [t \in Tasks |-> "none"]
    BY <1>2 DEF MemTypeOf
  <1>4. Queued \in SUBSET Tasks
    BY InitInv, ListedTasks DEF IInv, ListsApart, Queued
  <1>5. ToSet(temp) = {}
    BY DEF Init, ToSet
  <1>6. mode \in {"one", "all"} /\ policy \in IF mode = "all" THEN {1} ELSE DOMAIN AllPolicies
    BY PolicyAssumption DEF Init
  <1>7. phase = "init" /\ amount = [m \in MemTypes |-> 0] /\ reassign_done = {}
    BY DEF Init
  <1>. QED
    BY <1>3, <1>4, <1>5, <1>6, <1>7, LedgerPolicies DEF Ledger!Init, MemTypeOf

LEMMA AbortRefines ==
    ASSUME phase \in {"setup", "sim"}, NEW why, Exit(why)
    PROVE  Ledger!Abort
  BY DEF Exit, Ledger!Abort, driver, Queued

LEMMA InitPolicyRefines ==
    ASSUME IInv, InitPolicy
    PROVE  Ledger!InitPolicy
  <1>1. CASE Policy = "fixed" /\ Exit("failed to initialize policy")
    BY <1>1, LedgerPolicies DEF InitPolicy, Exit, Ledger!InitPolicy, driver, Queued
  <1>2. CASE ~(Policy = "fixed" /\ Exit("failed to initialize policy"))
    <2>1. /\ phase = "init" /\ phase' = "setup" /\ temp' = q.list /\ q' = [q EXCEPT !.list = <<>>]
          /\ reassign_done' = IF Policy = "dvshm_gr" THEN {} ELSE reassign_done
          /\ mode' = mode /\ policy' = policy /\ amount' = amount
      BY <1>2 DEF InitPolicy, driver
    <2>2. q'.list = <<>> /\ q'.tk = q.tk
      BY <2>1 DEF IInv, TypeOK, Queue
    <2>3. ToSet(temp') = Queued /\ Queued' = {} /\ MemTypeOf' = MemTypeOf
      BY <2>1, <2>2 DEF Queued, ToSet, MemTypeOf
    <2>. QED
      BY <2>1, <2>3, LedgerPolicies DEF Ledger!InitPolicy, MemTypeOf
  <1>. QED
    BY <1>1, <1>2

LEMMA EndSetupRefines == EndSetup => Ledger!EndSetup
  BY DEF EndSetup, Ledger!EndSetup, driver, Queued, ToSet

LEMMA EndSimRefines == EndSim => Ledger!EndSim
  BY DEF EndSim, Ledger!EndSim, driver, Queued

LEMMA ReturnRefines == Return => Ledger!NextPolicy
  BY DEF Return, Exit, Ledger!NextPolicy, driver, Queued

LEMMA NextPolicyRefines ==
    ASSUME IInv, NextPolicy
    PROVE  Ledger!NextPolicy
  <1>1. /\ phase = "done" /\ mode = "all" /\ mode' = mode /\ temp' = temp
        /\ IF policy + 1 <= Len(AllPolicies) THEN policy' = policy + 1 /\ phase' = "init"
           ELSE policy' = policy /\ phase' = "exited"
        /\ q' = [q EXCEPT !.tk = reinit_tasks] /\ amount' = [m \in MemTypes |-> 0]
        /\ reassign_done' = reassign_done
    BY DEF NextPolicy, ToPolicy, EmptyLedger
  <1>2. q'.list = q.list /\ q'.tk = reinit_tasks
    BY <1>1 DEF IInv, TypeOK, Queue
  <1>3. \A t \in Tasks : q'.tk[t].mem_type = q.tk[t].mem_type
    <2>1. \A t \in Tasks : q.tk[t] \in TaskType
      BY QueueType DEF IInv, TypeOK
    <2>2. \A t \in Tasks : reinit_task(q.tk[t]).mem_type = q.tk[t].mem_type
      BY <2>1 DEF reinit_task, TaskType
    <2>. QED
      BY <1>2, <2>2 DEF reinit_tasks
  <1>4. MemTypeOf' = MemTypeOf /\ Queued' = Queued
    BY <1>2, <1>3 DEF MemTypeOf, Queued
  <1>5. policy + 1 <= Len(AllPolicies) <=> policy < Len(AllPolicies)
    BY DEF IInv, TypeOK, AllPolicies
  <1>. QED
    BY <1>1, <1>4, <1>5, LedgerPolicies DEF Ledger!NextPolicy, MemTypeOf

LEMMA MemTypeMoves ==
    ASSUME NEW t \in Tasks, NEW T, NEW off, TaskMoved(q, q', t, T, off)
    PROVE  MemTypeOf' = [MemTypeOf EXCEPT ![t] = T.mem_type]
  <1>1. q'.tk[t].mem_type = T.mem_type /\ \A u \in Tasks \ {t} : q'.tk[u].mem_type = q.tk[u].mem_type
    BY DEF TaskMoved, SameTask
  <1>. QED
    BY <1>1 DEF MemTypeOf

LEMMA SetupTaskRefines ==
    ASSUME IInv, SetupTask
    PROVE  Ledger!Abort \/ \E t \in Tasks : Ledger!SetupTask(t)
  <1>1. CASE \E why : Exit(why)
    BY <1>1, SetupTaskCases, AbortRefines
  <1>2. CASE ~ \E why : Exit(why)
    <2>1. /\ phase = "setup" /\ temp \in Lists /\ temp # <<>>
          /\ SetupFails \/ \E T : SetupGrants(T)
          /\ mode' = mode /\ policy' = policy /\ reassign_done' = reassign_done
      BY <1>2, SetupTaskCases
    <2>a. PICK t, l : t = Head(temp) /\ l = Tail(temp)
      OBVIOUS
    <2>2. /\ t \in Tasks /\ t = Head(temp) /\ l = Tail(temp)
          /\ t \in ToSet(temp) /\ t \notin ToSet(l) /\ ToSet(temp) = {t} \cup ToSet(l)
      BY <2>1, <2>a, HeadAndTail
    <2>3. ToSet(<<>>) = {} /\ ToSet(l) = ToSet(temp) \ {t}
      <3>1. ToSet(<<>>) = {}
        BY DEF ToSet
      <3>. QED
        BY <2>2, <3>1
    <2>4. CASE SetupFails
      <3>1. ~Ledger!Assignable(Ledger!Policy, amount, t)
        BY <2>2, <2>4, LedgerDecides, LedgerPolicies DEF SetupFails
      <3>2. phase' = "done" /\ temp' = <<>> /\ q' = q /\ amount' = amount
        BY <2>4 DEF SetupFails
      <3>3. Ledger!SetupTask(t)
        BY <2>1, <2>2, <2>3, <3>1, <3>2 DEF Ledger!SetupTask, Queued
      <3>. QED
        BY <2>2, <3>3
    <2>5. ASSUME NEW T, SetupGrants(T)
          PROVE  Ledger!SetupTask(t)
      <3>1. PICK m : m = AssignedMem(Policy, amount, t) /\ m = T.mem_type
        BY <2>2, <2>5, Zenon DEF SetupGrants
      <3>2. /\ Assignable(Policy, amount, t) /\ amount' = Charge(amount, t, m)
            /\ TaskMoved(q, q', t, T, ToSet(l))
            /\ \/ phase' = phase /\ temp' = l /\ ToSet(q'.list) = ToSet(q.list) \cup {t}
               \/ phase' = "done" /\ temp' = <<>> /\ q'.list = q.list
        BY <2>2, <2>5, <3>1, Zenon DEF SetupGrants
      <3>3. /\ Ledger!Assignable(Ledger!Policy, amount, t)
            /\ Ledger!AssignedMem(Ledger!Policy, amount, t) = m
            /\ amount' = Ledger!Charge(amount, t, m)
        BY <3>1, <3>2, LedgerDecides, LedgerPolicies, LedgerCharges
      <3>4. MemTypeOf' = [MemTypeOf EXCEPT ![t] = m]
        BY <2>2, <3>1, <3>2, MemTypeMoves
      <3>5. \/ ToSet(temp') = ToSet(temp) \ {t} /\ Queued' = Queued \cup {t} /\ phase' = "setup"
            \/ ToSet(temp') = {} /\ phase' = "done" /\ Queued' = Queued
        BY <2>1, <2>3, <3>2 DEF Queued
      <3>. QED
        BY <2>1, <2>2, <3>3, <3>4, <3>5 DEF Ledger!SetupTask, MemTypeOf
    <2>. QED
      BY <2>1, <2>2, <2>4, <2>5
  <1>. QED
    BY <1>1, <1>2

LEMMA ScheduleTaskRefines ==
    ASSUME IInv, ScheduleTask
    PROVE  Ledger!Abort \/ \E t \in Tasks : Ledger!RunTask(t)
  <1>1. CASE \E why : Exit(why)
    BY <1>1, ScheduleTaskCases, AbortRefines
  <1>2. CASE ~ \E why : Exit(why)
    <2>1. PICK t \in Queued : \E T, n : TurnTaken(t, T, n)
      BY <1>2, ScheduleTaskCases
    <2>2. PICK T, n : TurnTaken(t, T, n)
      BY <2>1
    <2>3. /\ phase = "sim" /\ mode' = mode /\ policy' = policy /\ phase' = phase /\ temp' = temp
      BY <1>2, ScheduleTaskCases
    <2>4. t \in Tasks /\ policy \in DOMAIN AllPolicies /\ reassign_done \subseteq Tasks
      BY ListedTasks DEF IInv, TypeOK, ListsApart, Queued
    <2>5. Queued' = Queued
      BY <2>2 DEF TurnTaken, Queued
    <2>6. MemTypeOf' = [MemTypeOf EXCEPT ![t] = T.mem_type]
      BY <2>2, <2>4, MemTypeMoves DEF TurnTaken
    <2>7. reassign_done' = IF Policy = "dvshm_gr" THEN reassign_done \cup {t} ELSE reassign_done
      BY <2>2 DEF TurnTaken
    <2>8. MemTypeOf[t] = q.tk[t].mem_type /\ MemTypeOf = [u \in Tasks |-> MemTypeOf[u]]
      BY <2>4 DEF MemTypeOf
    <2>9. CASE Moves(t)
      <3>f. PICK freed : freed = Freed(t)
        BY Zenon
      <3>s. PICK S \in SUBSET MemTypes : S = {T.mem_type} /\ T.mem_type \in Tried(Policy, freed, t)
        BY <2>2, <2>9, <3>f DEF TurnTaken, Tried
      <3>1. S = {T.mem_type} /\ freed = Freed(t) /\ T.mem_type \in Tried(Policy, freed, t)
        BY <3>f, <3>s
      <3>2. Movable(Policy, freed, t, S) /\ NewMem(Policy, freed, t, S) = T.mem_type
        BY <3>1 DEF Movable, NewMem, Tried, MemTypes, ReassignOrder
      <3>3. amount' = MovedAmount(Policy, freed, t, S)
        BY <2>2, <2>9, <3>1 DEF TurnTaken
      <3>4. freed = Ledger!Release(amount, t, MemTypeOf[t])
        BY <2>8, <3>1, LedgerCharges DEF Freed
      <3>5. /\ Ledger!Movable(Ledger!Policy, freed, t, S)
            /\ MemTypeOf' = [MemTypeOf EXCEPT ![t] = Ledger!NewMem(Ledger!Policy, freed, t, S)]
            /\ amount' = Ledger!MovedAmount(Ledger!Policy, freed, t, S)
        BY <2>6, <3>2, <3>3, LedgerMoves, LedgerPolicies
      <3>6. Ledger!MovesMemory(Ledger!Policy) /\ ~(Ledger!Policy = "dvshm_gr" /\ t \in reassign_done)
        BY <2>9, LedgerPolicies DEF Moves
      <3>7. S \in SUBSET Ledger!MemTypes /\ Ledger!Policy = Policy
        BY LedgerPolicies
      <3>. QED
        BY <2>1, <2>3, <2>4, <2>5, <2>7, <3>4, <3>5, <3>6, <3>7 DEF Ledger!RunTask, MemTypeOf
    <2>10. CASE ~Moves(t)
      <3>1. T.mem_type = q.tk[t].mem_type /\ amount' = amount
        BY <2>2, <2>10 DEF TurnTaken
      <3>2. MemTypeOf' = MemTypeOf
        BY <2>6, <2>8, <3>1
      <3>3. reassign_done' = reassign_done
        <4>1. Policy = "dvshm_gr" => t \in reassign_done
          BY <2>10 DEF Moves, MovesMemory
        <4>. QED
          BY <2>7, <4>1
      <3>4. ~(Ledger!MovesMemory(Ledger!Policy) /\ ~(Ledger!Policy = "dvshm_gr" /\ t \in reassign_done))
        BY <2>10, LedgerPolicies DEF Moves
      <3>. QED
        BY <2>1, <2>3, <2>4, <2>5, <3>1, <3>2, <3>3, <3>4 DEF Ledger!RunTask, MemTypeOf
    <2>. QED
      BY <2>9, <2>10
  <1>. QED
    BY <1>1, <1>2

LEMMA NextRefines ==
    ASSUME IInv, [Next]_vars
    PROVE  [Ledger!Next]_(Ledger!vars)
  <1>1. CASE InitPolicy
    BY <1>1, InitPolicyRefines DEF Ledger!Next
  <1>2. CASE SetupTask
    BY <1>2, SetupTaskRefines DEF Ledger!Next
  <1>3. CASE EndSetup
    BY <1>3, EndSetupRefines DEF Ledger!Next
  <1>4. CASE ScheduleTask
    BY <1>4, ScheduleTaskRefines DEF Ledger!Next
  <1>5. CASE EndSim
    BY <1>5, EndSimRefines DEF Ledger!Next
  <1>6. CASE Return
    BY <1>6, ReturnRefines DEF Ledger!Next
  <1>7. CASE NextPolicy
    BY <1>7, NextPolicyRefines DEF Ledger!Next
  <1>8. CASE UNCHANGED vars
    BY <1>8 DEF vars, Ledger!vars, Queued
  <1>9. Exited => UNCHANGED vars
    BY DEF Exited
  <1>. QED
    BY <1>1, <1>2, <1>3, <1>4, <1>5, <1>6, <1>7, <1>8, <1>9 DEF Next

(* Whatever the task set, memwork keeps the ledger as MemPolicy lets it:   *)
(* what MemPolicyProofs proves of the ledger for every order and timing of *)
(* the tasks holds of the order and timing that task.c computes.           *)
THEOREM KeepsLedger == Spec => LedgerSpec
  <1>1. Init => Ledger!Init
    BY InitRefines
  <1>2. IInv /\ [Next]_vars => [Ledger!Next]_(Ledger!vars)
    BY NextRefines
  <1>. QED
    BY <1>1, <1>2, Inductive, PTL DEF Spec, LedgerSpec, Ledger!Spec
=============================================================================
