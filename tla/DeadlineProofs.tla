--------------------------- MODULE DeadlineProofs ---------------------------
(***************************************************************************)
(* Every queued job of memwork is due at the end of its period, for any    *)
(* number of tasks, any task set and any timing.                           *)
(*                                                                         *)
(* The queue keeps relative times: the gap behind each task and, from its  *)
(* start, its deadline.  They are a plan: B says when each task's job is   *)
(* due, so Starts is when it is to start, and a queue is Chained when each *)
(* task starts where the gap of the one before it ends.  The tick counts   *)
(* are unsigned and wrap below 0, so all of this is modulo the word: times *)
(* are compared by SameTick.                                               *)
(***************************************************************************)
EXTENDS MemworkProofs

----------------------------------------------------------------------------
(* Times on an unsigned clock. *)

(* The differences between times that are the same tick.                   *)
Turns == {k * UMod : k \in Int}

SameTick(a, b) == a - b \in Turns

LEMMA TurnsClosed ==
    /\ 0 \in Turns
    /\ \A x, y \in Turns : x \in Int /\ x + y \in Turns /\ x - y \in Turns /\ -x \in Turns
  <1>1. UMod \in Int
    BY ConfAssumption
  <1>2. 0 * UMod = 0 /\ 0 \in Int
    BY <1>1
  <1>3. ASSUME NEW x \in Turns, NEW y \in Turns
        PROVE  x \in Int /\ x + y \in Turns /\ x - y \in Turns /\ -x \in Turns
    <2>1. PICK i \in Int, j \in Int : x = i * UMod /\ y = j * UMod
      BY DEF Turns
    <2>2. i * UMod \in Int /\ j * UMod \in Int
      BY <1>1
    <2>3. x + y = (i + j) * UMod /\ x - y = (i - j) * UMod /\ -x = (-i) * UMod
      BY <1>1, <2>1
    <2>4. i + j \in Int /\ i - j \in Int /\ -i \in Int
      OBVIOUS
    <2>. QED
      BY <2>1, <2>2, <2>3, <2>4 DEF Turns
  <1>. QED
    BY <1>2, <1>3 DEF Turns

LEMMA SameTickRefl == \A a \in Int : SameTick(a, a)
  BY TurnsClosed DEF SameTick

LEMMA SameTickSym ==
    ASSUME NEW a \in Int, NEW b \in Int, SameTick(a, b)
    PROVE  SameTick(b, a)
  <1>1. b - a = -(a - b)
    OBVIOUS
  <1>. QED
    BY <1>1, TurnsClosed DEF SameTick

(* Same ticks may be added and chained. *)
LEMMA SameTickSum ==
    ASSUME NEW a \in Int, NEW b \in Int, NEW c \in Int, NEW d \in Int,
           SameTick(a, b), SameTick(c, d)
    PROVE  SameTick(a + c, b + d) /\ SameTick(a - c, b - d)
  <1>1. (a + c) - (b + d) = (a - b) + (c - d) /\ (a - c) - (b - d) = (a - b) - (c - d)
    OBVIOUS
  <1>. QED
    BY <1>1, TurnsClosed DEF SameTick

LEMMA SameTickTrans ==
    ASSUME NEW a \in Int, NEW b \in Int, NEW c \in Int, SameTick(a, b), SameTick(b, c)
    PROVE  SameTick(a, c)
  <1>1. a - c = (a - b) + (b - c)
    OBVIOUS
  <1>. QED
    BY <1>1, TurnsClosed DEF SameTick

LEMMA WrapIsSameTick == \A n \in Int : U(n) \in Int /\ SameTick(U(n), n)
  <1>. SUFFICES ASSUME NEW n \in Int PROVE U(n) \in Int /\ SameTick(U(n), n)
    OBVIOUS
  <1>1. UMod \in Nat /\ UMod > 0
    BY ConfAssumption
  <1>2. n % UMod \in Int /\ n = UMod * (n \div UMod) + (n % UMod) /\ n \div UMod \in Int
    BY <1>1
  <1>3. PICK k \in Int, m \in Int : n = UMod * k + m /\ m = n % UMod
    BY <1>2
  <1>4. m - n = (-k) * UMod /\ -k \in Int
    <2>1. UMod * k \in Int /\ (-k) * UMod = -(UMod * k)
      BY <1>1
    <2>. QED
      BY <1>3, <2>1
  <1>. QED
    BY <1>3, <1>4 DEF SameTick, Turns, U

(* Of the numbers an unsigned holds only one is a given tick. *)
LEMMA SameTickWraps ==
    ASSUME NEW a \in Int, NEW b \in Int, SameTick(a, b)
    PROVE  U(a) = U(b)
  <1>1. UMod \in Nat /\ UMod > 0
    BY ConfAssumption
  <1>2. PICK k \in Int : a - b = k * UMod
    BY DEF SameTick, Turns
  <1>3. PICK i \in Int, j \in Int : U(a) = a + i * UMod /\ U(b) = b + j * UMod
    <2>1. \A n \in Int : \E i \in Int : U(n) = n + i * UMod
      <3>. SUFFICES ASSUME NEW n \in Int PROVE \E i \in Int : U(n) = n + i * UMod
        OBVIOUS
      <3>1. U(n) \in Int /\ SameTick(U(n), n)
        BY WrapIsSameTick
      <3>2. PICK i \in Int : U(n) - n = i * UMod
        BY <3>1 DEF SameTick, Turns
      <3>3. i * UMod \in Int
        BY <1>1
      <3>. QED
        BY <3>1, <3>2, <3>3
    <2>. QED
      BY <2>1
  <1>4. U(a) \in 0..(UMod - 1) /\ U(b) \in 0..(UMod - 1)
    BY WrapsToTicks DEF Ticks
  <1>5. PICK n \in Int : n = k + i - j
    OBVIOUS
  <1>6. U(a) - U(b) = n * UMod
    <2>1. k * UMod \in Int /\ i * UMod \in Int /\ j * UMod \in Int
      BY <1>1
    <2>2. (k + i - j) * UMod = k * UMod + i * UMod - j * UMod
      BY <1>1
    <2>. QED
      BY <1>2, <1>3, <1>5, <2>1, <2>2
  <1>7. n = 0
    <2>1. n >= 1 => n * UMod >= UMod
      BY <1>1
    <2>2. n <= -1 => n * UMod <= -UMod
      BY <1>1
    <2>3. n * UMod \in Int
      BY <1>1
    <2>. QED
      BY <1>1, <1>4, <1>6, <2>1, <2>2, <2>3
  <1>8. n * UMod = 0
    BY <1>1, <1>7
  <1>. QED
    BY <1>4, <1>6, <1>8

----------------------------------------------------------------------------
(* The plan of a list l: S says when each task starts, G how long it is    *)
(* from there to its successor's start.                                    *)
Chained(l, S, G, k) ==
    \A j \in k..(Len(l) - 1) : SameTick(S[l[j + 1]], S[l[j]] + G[l[j]])

Times == [Tasks -> Int]

(* The start of the k-th moves by n, and its gap makes up for it. *)
LEMMA HeadMoves ==
    ASSUME NEW l \in Lists, NEW k \in 1..Len(l), NEW n \in Int,
           NEW S \in Times, NEW G \in Times, NEW S2 \in Times, NEW G2 \in Times,
           Chained(l, S, G, k),
           SameTick(S2[l[k]], S[l[k]] + n),
           k < Len(l) => SameTick(G2[l[k]], G[l[k]] - n),
           \A u \in From(l, k + 1) : S2[u] = S[u] /\ G2[u] = G[u]
    PROVE  Chained(l, S2, G2, k)
  <1>1. Len(l) \in Nat /\ k \in Nat /\ \A j \in (k + 1)..Len(l) : l[j] \in From(l, k + 1)
    BY ListType DEF From
  <1>2. ASSUME NEW j \in k..(Len(l) - 1)
        PROVE  SameTick(S2[l[j + 1]], S2[l[j]] + G2[l[j]])
    <2>1. j \in 1..Len(l) /\ j + 1 \in (k + 1)..Len(l) /\ l[j] \in Tasks /\ l[j + 1] \in Tasks
      BY <1>1, ListType
    <2>2. PICK a \in Int, b \in Int, c \in Int : a = S[l[j]] /\ b = G[l[j]] /\ c = S[l[j + 1]]
      BY <2>1 DEF Times
    <2>3. PICK x \in Int, y \in Int : x = S2[l[j]] /\ y = G2[l[j]]
      BY <2>1 DEF Times
    <2>4. SameTick(c, a + b)
      BY <2>2 DEF Chained
    <2>5. S2[l[j + 1]] = c
      BY <1>1, <2>1, <2>2
    <2>6. CASE j = k
      <3>1. SameTick(x, a + n) /\ SameTick(y, b - n)
        BY <1>1, <2>1, <2>2, <2>3, <2>6
      <3>2. SameTick(x + y, (a + n) + (b - n))
        BY <3>1, SameTickSum
      <3>3. (a + n) + (b - n) = a + b
        OBVIOUS
      <3>4. SameTick(a + b, x + y)
        BY <3>2, <3>3, SameTickSym
      <3>5. SameTick(c, x + y)
        BY <2>4, <3>4, SameTickTrans
      <3>. QED
        BY <2>3, <2>5, <3>5
    <2>7. CASE j # k
      <3>1. j \in (k + 1)..Len(l)
        BY <1>1, <2>1, <2>7
      <3>2. x = a /\ y = b
        BY <1>1, <2>2, <2>3, <3>1
      <3>. QED
        BY <2>3, <2>4, <2>5, <3>2
    <2>. QED
      BY <2>6, <2>7
  <1>. QED
    BY <1>2 DEF Chained

(* What the plan does not look at may change. *)
LEMMA ChainedSame ==
    ASSUME NEW l \in Lists, NEW k \in 1..(Len(l) + 1),
           NEW S \in Times, NEW G \in Times, NEW S2 \in Times, NEW G2 \in Times,
           Chained(l, S, G, k),
           \A u \in From(l, k) : S2[u] = S[u] /\ G2[u] = G[u]
    PROVE  Chained(l, S2, G2, k)
  <1>1. Len(l) \in Nat /\ k \in Nat
    BY ListType
  <1>2. \A j \in k..(Len(l) - 1) : l[j] \in From(l, k) /\ l[j + 1] \in From(l, k)
    BY <1>1 DEF From
  <1>. QED
    BY <1>2 DEF Chained

(* The k-th, at its successor's start, and this one change places, each    *)
(* with its successor's start as before.                                   *)
LEMMA SwapMeets ==
    ASSUME NEW l \in Lists, NEW k \in 1..Len(l), k < Len(l), NEW m \in Lists,
           NEW S \in Times, NEW G \in Times, NEW G2 \in Times,
           Chained(l, S, G, k), G[l[k]] = 0,
           Len(m) = Len(l), m[k] = l[k + 1], m[k + 1] = l[k],
           \A j \in (k + 2)..Len(l) : m[j] = l[j],
           G2[l[k]] = G[l[k + 1]],
           \A j \in (k + 2)..Len(l) : G2[l[j]] = G[l[j]]
    PROVE  Chained(m, S, G2, k + 1) /\ SameTick(S[m[k + 1]], S[m[k]])
  <1>1. Len(l) \in Nat /\ k \in Nat /\ k + 1 \in 1..Len(l)
    BY ListType
  <1>2. PICK a \in Int, b \in Int : a = S[l[k]] /\ b = S[l[k + 1]]
    BY <1>1, ListType DEF Times
  <1>3. SameTick(b, a)
    <2>1. k \in k..(Len(l) - 1)
      BY <1>1
    <2>2. SameTick(b, a + 0)
      BY <1>2, <2>1 DEF Chained
    <2>. QED
      BY <2>2
  <1>4. SameTick(a, b)
    BY <1>3, SameTickSym
  <1>5. ASSUME NEW j \in (k + 1)..(Len(m) - 1)
        PROVE  SameTick(S[m[j + 1]], S[m[j]] + G2[m[j]])
    <2>1. j \in k..(Len(l) - 1) /\ j \in 1..Len(l) /\ j + 1 \in (k + 2)..Len(l) /\ j + 1 \in 1..Len(l)
      BY <1>1
    <2>2. PICK x \in Int, g \in Int, c \in Int : x = S[l[j]] /\ g = G[l[j]] /\ c = S[l[j + 1]]
      BY <2>1, ListType DEF Times
    <2>3. SameTick(c, x + g)
      BY <2>1, <2>2 DEF Chained
    <2>4. S[m[j + 1]] = c
      BY <2>1, <2>2
    <2>5. CASE j = k + 1
      <3>1. x = b /\ S[m[j]] = a /\ G2[m[j]] = g
        BY <1>2, <2>2, <2>5
      <3>2. SameTick(g, g)
        BY SameTickRefl
      <3>3. SameTick(b + g, a + g)
        BY <1>3, <3>2, SameTickSum
      <3>4. SameTick(c, a + g)
        BY <2>3, <3>1, <3>3, SameTickTrans
      <3>. QED
        BY <2>4, <3>1, <3>4
    <2>6. CASE j # k + 1
      <3>1. j \in (k + 2)..Len(l)
        BY <1>1, <2>1, <2>6
      <3>2. S[m[j]] = x /\ G2[m[j]] = g
        BY <2>2, <3>1
      <3>. QED
        BY <2>3, <2>4, <3>2
    <2>. QED
      BY <2>5, <2>6
  <1>. QED
    BY <1>2, <1>4, <1>5 DEF Chained

(* The k-th has its successor n ticks behind it. *)
LEMMA HeadJoins ==
    ASSUME NEW l \in Lists, NEW k \in 1..Len(l), k < Len(l),
           NEW S \in Times, NEW G \in Times,
           Chained(l, S, G, k + 1), SameTick(S[l[k + 1]], S[l[k]] + G[l[k]])
    PROVE  Chained(l, S, G, k)
  <1>1. Len(l) \in Nat /\ k \in Nat
    BY ListType
  <1>2. \A j \in k..(Len(l) - 1) : j = k \/ j \in (k + 1)..(Len(l) - 1)
    BY <1>1
  <1>. QED
    BY <1>2 DEF Chained

LEMMA ChainedLater ==
    ASSUME NEW l \in Lists, NEW S, NEW G, NEW k \in Nat, Chained(l, S, G, k)
    PROVE  Chained(l, S, G, k + 1)
  <1>1. \A j \in (k + 1)..(Len(l) - 1) : j \in k..(Len(l) - 1)
    BY ListType
  <1>. QED
    BY <1>1 DEF Chained

----------------------------------------------------------------------------
(* The tick counts of a queue, and the starts they give the tasks if the   *)
(* deadlines are those of B.                                               *)
Deadlines(x) == [u \in Tasks |-> x.tk[u].deadline]
Gaps(x)      == [u \in Tasks |-> x.tk[u].gap]
Heads(x)     == [u \in Tasks |-> x.tk[u].gap_head]
Starts(x, B) == [u \in Tasks |-> B[u] - x.tk[u].deadline]

LEMMA TimesType ==
    ASSUME NEW x \in Queue, NEW B \in Times
    PROVE  /\ Deadlines(x) \in Times /\ Gaps(x) \in Times /\ Heads(x) \in Times
           /\ Starts(x, B) \in Times
           /\ \A u \in Tasks : /\ Deadlines(x)[u] \in Ticks /\ Gaps(x)[u] \in Ticks /\ Heads(x)[u] \in Ticks
                               /\ Starts(x, B)[u] = B[u] - Deadlines(x)[u]
  <1>1. \A n \in Ticks : n \in Int
    BY DEF Ticks
  <1>2. \A u \in Tasks : B[u] \in Int /\ x.tk[u].deadline \in Ticks /\ x.tk[u].gap \in Ticks
                         /\ x.tk[u].gap_head \in Ticks
    BY QueueType DEF Times
  <1>. QED
    BY <1>1, <1>2 DEF Deadlines, Gaps, Heads, Starts, Times

(* Each assignment to a tick count changes it and no other. *)
LEMMA TimesReset ==
    ASSUME NEW x \in Queue, NEW t \in Tasks, NEW y, NEW T, Reset(x, y, t, T)
    PROVE  /\ y \in Queue /\ y.list = x.list /\ y.bad = x.bad
           /\ Deadlines(y)[t] = T.deadline /\ Gaps(y)[t] = T.gap /\ Heads(y)[t] = T.gap_head
           /\ T.deadline = x.tk[t].deadline => Deadlines(y) = Deadlines(x)
           /\ T.gap = x.tk[t].gap => Gaps(y) = Gaps(x)
           /\ T.gap_head = x.tk[t].gap_head => Heads(y) = Heads(x)
           /\ \A u \in Tasks \ {t} : /\ Deadlines(y)[u] = Deadlines(x)[u]
                                   /\ Gaps(y)[u] = Gaps(x)[u] /\ Heads(y)[u] = Heads(x)[u]
  <1>1. y.tk[t] = T /\ \A u \in Tasks : u # t => y.tk[u] = x.tk[u]
    BY DEF Reset, Retimed
  <1>. QED
    BY <1>1 DEF Reset, Deadlines, Gaps, Heads

LEMMA RemainSet ==
    ASSUME NEW x \in Queue, NEW t \in Tasks, NEW n \in Ticks, NEW y, y = [x EXCEPT !.tk[t].det_remain = n]
    PROVE  /\ y \in Queue /\ y.list = x.list /\ y.bad = x.bad
           /\ Deadlines(y) = Deadlines(x) /\ Gaps(y) = Gaps(x) /\ Heads(y) = Heads(x)
  <1>1. PICK T : T = [x.tk[t] EXCEPT !.det_remain = n]
    OBVIOUS
  <1>2. Reset(x, y, t, T)
    BY <1>1, TickSet
  <1>3. x.tk[t] \in TaskType
    BY QueueType
  <1>4. T.deadline = x.tk[t].deadline /\ T.gap = x.tk[t].gap /\ T.gap_head = x.tk[t].gap_head
    BY <1>1, <1>3 DEF TaskType
  <1>. QED
    BY <1>2, <1>4, TimesReset

LEMMA HeadSet ==
    ASSUME NEW x \in Queue, NEW t \in Tasks, NEW n \in Ticks, NEW y, y = [x EXCEPT !.tk[t].gap_head = n]
    PROVE  /\ y \in Queue /\ y.list = x.list /\ y.bad = x.bad
           /\ Deadlines(y) = Deadlines(x) /\ Gaps(y) = Gaps(x)
           /\ Heads(y)[t] = n /\ \A u \in Tasks \ {t} : Heads(y)[u] = Heads(x)[u]
  <1>1. PICK T : T = [x.tk[t] EXCEPT !.gap_head = n]
    OBVIOUS
  <1>2. Reset(x, y, t, T)
    BY <1>1, TickSet
  <1>3. x.tk[t] \in TaskType
    BY QueueType
  <1>4. T.deadline = x.tk[t].deadline /\ T.gap = x.tk[t].gap /\ T.gap_head = n
    BY <1>1, <1>3 DEF TaskType
  <1>. QED
    BY <1>2, <1>4, TimesReset

LEMMA GapSet ==
    ASSUME NEW x \in Queue, NEW t \in Tasks, NEW n \in Ticks, NEW y, y = [x EXCEPT !.tk[t].gap = n]
    PROVE  /\ y \in Queue /\ y.list = x.list /\ y.bad = x.bad
           /\ Deadlines(y) = Deadlines(x) /\ Heads(y) = Heads(x)
           /\ Gaps(y)[t] = n /\ \A u \in Tasks \ {t} : Gaps(y)[u] = Gaps(x)[u]
  <1>1. PICK T : T = [x.tk[t] EXCEPT !.gap = n]
    OBVIOUS
  <1>2. Reset(x, y, t, T)
    BY <1>1, TickSet
  <1>3. x.tk[t] \in TaskType
    BY QueueType
  <1>4. T.deadline = x.tk[t].deadline /\ T.gap = n /\ T.gap_head = x.tk[t].gap_head
    BY <1>1, <1>3 DEF TaskType
  <1>. QED
    BY <1>2, <1>4, TimesReset

LEMMA DeadlineSet ==
    ASSUME NEW x \in Queue, NEW t \in Tasks, NEW n \in Ticks, NEW y, y = [x EXCEPT !.tk[t].deadline = n]
    PROVE  /\ y \in Queue /\ y.list = x.list /\ y.bad = x.bad
           /\ Gaps(y) = Gaps(x) /\ Heads(y) = Heads(x)
           /\ Deadlines(y)[t] = n /\ \A u \in Tasks \ {t} : Deadlines(y)[u] = Deadlines(x)[u]
  <1>1. PICK T : T = [x.tk[t] EXCEPT !.deadline = n]
    OBVIOUS
  <1>2. Reset(x, y, t, T)
    BY <1>1, TickSet
  <1>3. x.tk[t] \in TaskType
    BY QueueType
  <1>4. T.deadline = n /\ T.gap = x.tk[t].gap /\ T.gap_head = x.tk[t].gap_head
    BY <1>1, <1>3 DEF TaskType
  <1>. QED
    BY <1>2, <1>4, TimesReset

(* Where tick counts are those of before, starts are. *)
LEMMA StartsOf ==
    ASSUME NEW x \in Queue, NEW y \in Queue, NEW B \in Times
    PROVE  \A u \in Tasks : Deadlines(y)[u] = Deadlines(x)[u] => Starts(y, B)[u] = Starts(x, B)[u]
  BY TimesType

(* What delay_tasks does to the plan from the k-th task of the list on:    *)
(* whatever the deadlines, it starts n ticks later.                        *)
Shifts(x, y, k, n) ==
    \A B \in Times :
       Chained(x.list, Starts(x, B), Gaps(x), k) =>
          /\ Heads(y) = Heads(x)
          /\ Chained(y.list, Starts(y, B), Gaps(y), k)
          /\ SameTick(Starts(y, B)[y.list[k]], Starts(x, B)[x.list[k]] + n)

LEMMA StartInt ==
    ASSUME NEW x \in Queue, NEW B \in Times, NEW u \in Tasks
    PROVE  Starts(x, B)[u] \in Int /\ Gaps(x)[u] \in Int
  <1>1. Starts(x, B) \in [Tasks -> Int] /\ Gaps(x) \in [Tasks -> Int]
    BY TimesType DEF Times
  <1>. QED
    BY <1>1

LEMMA ShiftsRefl ==
    ASSUME NEW x \in Queue, x.list \in Lists, NEW k \in 1..Len(x.list)
    PROVE  Shifts(x, x, k, 0)
  <1>1. ASSUME NEW B \in Times PROVE SameTick(Starts(x, B)[x.list[k]], Starts(x, B)[x.list[k]] + 0)
    <2>1. PICK a \in Int : a = Starts(x, B)[x.list[k]]
      BY ListType, StartInt
    <2>. QED
      BY <2>1, SameTickRefl
  <1>. QED
    BY <1>1 DEF Shifts

LEMMA ShiftsTrans ==
    ASSUME NEW x \in Queue, NEW y \in Queue, NEW z \in Queue,
           x.list \in Lists, y.list \in Lists, z.list \in Lists,
           NEW k \in 1..Len(x.list), Len(y.list) = Len(x.list), Len(z.list) = Len(x.list),
           NEW m \in Int, NEW n \in Int, Shifts(x, y, k, m), Shifts(y, z, k, n)
    PROVE  Shifts(x, z, k, m + n)
  <1>1. x.list[k] \in Tasks /\ y.list[k] \in Tasks /\ z.list[k] \in Tasks
    <2>. HIDE DEF Lists
    <2>. QED
      BY ListType
  <1>2. ASSUME NEW B \in Times, Chained(x.list, Starts(x, B), Gaps(x), k)
        PROVE  /\ Heads(z) = Heads(x)
               /\ Chained(z.list, Starts(z, B), Gaps(z), k)
               /\ SameTick(Starts(z, B)[z.list[k]], Starts(x, B)[x.list[k]] + (m + n))
    <2>1. PICK a \in Int, b \in Int, c \in Int :
              a = Starts(x, B)[x.list[k]] /\ b = Starts(y, B)[y.list[k]] /\ c = Starts(z, B)[z.list[k]]
      BY <1>1, StartInt
    <2>2. /\ Heads(y) = Heads(x) /\ Chained(y.list, Starts(y, B), Gaps(y), k)
          /\ SameTick(b, a + m)
      BY <1>2, <2>1 DEF Shifts
    <2>3. /\ Heads(z) = Heads(y) /\ Chained(z.list, Starts(z, B), Gaps(z), k)
          /\ SameTick(c, b + n)
      BY <2>1, <2>2 DEF Shifts
    <2>4. SameTick(b + n, (a + m) + n)
      BY <2>2, SameTickRefl, SameTickSum
    <2>5. SameTick(c, (a + m) + n)
      BY <2>3, <2>4, SameTickTrans
    <2>6. (a + m) + n = a + (m + n)
      OBVIOUS
    <2>. QED
      BY <2>1, <2>2, <2>3, <2>5, <2>6
  <1>. QED
    BY <1>2 DEF Shifts

(* A tick granted. *)
LEMMA GrantedTimes ==
    ASSUME NEW s \in Delays, ~Stops(s)
    PROVE  LET y == Granted(s).q
               T == s.target
           IN  /\ Heads(y) = Heads(s.q) /\ y.list = s.q.list
               /\ Deadlines(y)[T] = U(Deadlines(s.q)[T] - 1)
               /\ \A u \in Tasks \ {T, s.t} : Deadlines(y)[u] = Deadlines(s.q)[u]
               /\ \A u \in Tasks \ {T} : Gaps(y)[u] = Gaps(s.q)[u]
               /\ Gaps(y)[T] = IF s.next = None THEN Gaps(s.q)[T] ELSE U(Gaps(s.q)[T] - 1)
  <1> DEFINE T == s.target
             t == s.t
             x == s.q
             a == [x EXCEPT !.tk[T].deadline = U(x.tk[T].deadline - 1)]
             b == [a EXCEPT !.tk[t].det_remain = U(x.tk[t].det_remain - 1)]
             c == [b EXCEPT !.tk[t].deadline = U(x.tk[t].deadline - 1)]
             d == [c EXCEPT !.tk[T].gap = U(c.tk[T].gap - 1)]
             e == IF s.next = None THEN c ELSE d
             k == Spot(s)
  <1>1. /\ x \in Queue /\ t \in Tasks /\ T \in Tasks /\ t # T
    <2>1. k \in k..Len(x.list)
      BY DelayType, ListType
    <2>. QED
      BY <2>1, DelayType DEF From
  <1>2. \A n \in Ticks : U(n - 1) \in Ticks
    BY WrapsToTicks DEF Ticks
  <1>3. Granted(s).q = e
    <2> DEFINE q1 == [s.q EXCEPT !.tk[T].deadline = U(@ - 1), !.tk[t].det_remain = U(@ - 1),
                                 !.tk[t].deadline = U(@ - 1)]
    <2>1. c = q1
      BY <1>1 DEF Queue, TaskType
    <2>. HIDE DEF c
    <2>2. d = [c EXCEPT !.tk[T].gap = U(@ - 1)]
      OBVIOUS
    <2>3. Granted(s) = [s EXCEPT !.q = IF s.next = None THEN q1
                                       ELSE [q1 EXCEPT !.tk[T].gap = U(@ - 1)],
                                 !.i = @ + 1]
      BY DEF Granted
    <2>4. s = [q |-> s.q, t |-> t, target |-> T, next |-> s.next, i |-> s.i]
      BY DEF Delays
    <2>5. Granted(s) = [s EXCEPT !.q = e, !.i = s.i + 1]
      <3>. HIDE DEF q1, d
      <3>. QED
        BY <2>1, <2>2, <2>3
    <2>. HIDE DEF e
    <2>. QED
      BY <2>4, <2>5
  <1>4. PICK m \in Ticks, r \in Ticks, n \in Ticks, g \in Ticks :
            /\ m = U(x.tk[T].deadline - 1) /\ r = U(x.tk[t].det_remain - 1)
            /\ n = U(x.tk[t].deadline - 1) /\ g = U(x.tk[T].gap - 1)
    BY <1>1, <1>2, QueueType
  <1>5. PICK a1 : a1 = [x EXCEPT !.tk[T].deadline = m]
    OBVIOUS
  <1>6. /\ a1 \in Queue /\ a1.list = x.list /\ Gaps(a1) = Gaps(x) /\ Heads(a1) = Heads(x)
        /\ Deadlines(a1)[T] = m /\ \A u \in Tasks \ {T} : Deadlines(a1)[u] = Deadlines(x)[u]
    <2>. HIDE DEF x, T
    <2>. QED
      BY <1>1, <1>5, DeadlineSet
  <1>7. PICK b1 : b1 = [a1 EXCEPT !.tk[t].det_remain = r]
    OBVIOUS
  <1>8. /\ b1 \in Queue /\ b1.list = x.list /\ Gaps(b1) = Gaps(x) /\ Heads(b1) = Heads(x)
        /\ Deadlines(b1) = Deadlines(a1)
    <2>. HIDE DEF x, t
    <2>. QED
      BY <1>1, <1>6, <1>7, RemainSet
  <1>9. PICK c1 : c1 = [b1 EXCEPT !.tk[t].deadline = n]
    OBVIOUS
  <1>10. /\ c1 \in Queue /\ c1.list = x.list /\ Gaps(c1) = Gaps(x) /\ Heads(c1) = Heads(x)
         /\ \A u \in Tasks \ {t} : Deadlines(c1)[u] = Deadlines(b1)[u]
    <2>. HIDE DEF x, t
    <2>. QED
      BY <1>1, <1>8, <1>9, DeadlineSet
  <1>11. c1 = c
    BY <1>4, <1>5, <1>7, <1>9
  <1>12. c1.tk[T].gap = x.tk[T].gap
    BY <1>1, <1>10 DEF Gaps
  <1>13. PICK d1 : d1 = [c1 EXCEPT !.tk[T].gap = g]
    OBVIOUS
  <1>14. /\ d1 \in Queue /\ d1.list = x.list /\ Heads(d1) = Heads(x) /\ Deadlines(d1) = Deadlines(c1)
         /\ Gaps(d1)[T] = g /\ \A u \in Tasks \ {T} : Gaps(d1)[u] = Gaps(x)[u]
    <2>. HIDE DEF x, T
    <2>. QED
      BY <1>1, <1>10, <1>13, GapSet
  <1>15. d1 = d
    <2>. HIDE DEF c
    <2>. QED
      BY <1>4, <1>11, <1>12, <1>13
  <1>. HIDE DEF c, d
  <1>16. Deadlines(x)[T] = x.tk[T].deadline /\ Gaps(x)[T] = x.tk[T].gap
    BY <1>1 DEF Deadlines, Gaps
  <1>17. Deadlines(c1)[T] = m /\ \A u \in Tasks \ {T, t} : Deadlines(c1)[u] = Deadlines(x)[u]
    <2>. HIDE DEF x, T, t
    <2>. QED
      BY <1>1, <1>6, <1>8, <1>10
  <1>. QED
    BY <1>3, <1>4, <1>10, <1>11, <1>14, <1>15, <1>16, <1>17

LEMMA GrantedShifts ==
    ASSUME NEW s \in Delays, ~Stops(s)
    PROVE  Shifts(s.q, Granted(s).q, Spot(s), 1)
  <1> DEFINE x == s.q
             l == s.q.list
             T == s.target
             k == Spot(s)
  <1>1. /\ x \in Queue /\ l \in Lists /\ s.t \in Tasks /\ T \in Tasks /\ k \in 1..Len(l)
        /\ l[k] = T /\ s.t \notin From(l, k) /\ s.next = Follower(x, k)
    BY DelayType
  <1>2. PICK y : y = Granted(s).q
    OBVIOUS
  <1>3. y \in Queue
    BY <1>2, GrantedKeeps, DelayType
  <1>4. /\ Heads(y) = Heads(x) /\ y.list = l
        /\ Deadlines(y)[T] = U(Deadlines(x)[T] - 1)
        /\ \A u \in Tasks \ {T, s.t} : Deadlines(y)[u] = Deadlines(x)[u]
        /\ \A u \in Tasks \ {T} : Gaps(y)[u] = Gaps(x)[u]
        /\ Gaps(y)[T] = IF s.next = None THEN Gaps(x)[T] ELSE U(Gaps(x)[T] - 1)
    BY <1>2, GrantedTimes
  <1>5. From(l, k + 1) \subseteq Tasks \ {T, s.t}
    <2>1. Len(l) \in Nat /\ k \in Nat /\ \A j \in (k + 1)..Len(l) : j \in 1..Len(l) /\ j \in k..Len(l) /\ j # k
      BY <1>1, ListType
    <2>2. ASSUME NEW j \in (k + 1)..Len(l) PROVE l[j] \in Tasks \ {T, s.t}
      <3>1. l[j] \in Tasks /\ l[j] # l[k]
        BY <1>1, <2>1, ListType
      <3>2. l[j] \in From(l, k)
        BY <2>1 DEF From
      <3>. QED
        BY <1>1, <3>1, <3>2
    <2>. QED
      BY <2>2 DEF From
  <1>6. k < Len(l) => s.next # None
    <2>1. Len(l) \in Nat /\ k + 1 \in 1..Len(l) => l[k + 1] \in Tasks
      BY <1>1, ListType
    <2>2. 0 \notin Tasks
      BY ConfAssumption
    <2>. QED
      BY <1>1, <2>1, <2>2 DEF Follower, None
  <1>. HIDE DEF x, l, T, k
  <1>7. ASSUME NEW B \in Times, Chained(l, Starts(x, B), Gaps(x), k)
        PROVE  /\ Chained(l, Starts(y, B), Gaps(y), k)
               /\ SameTick(Starts(y, B)[l[k]], Starts(x, B)[l[k]] + 1)
    <2>1. PICK b \in Int, d \in Int, e \in Int :
              b = B[T] /\ d = Deadlines(x)[T] /\ e = Deadlines(y)[T]
      BY <1>1, <1>3, TimesType DEF Times, Ticks
    <2>2. Starts(x, B)[T] = b - d /\ Starts(y, B)[T] = b - e
      BY <1>1, <1>3, <2>1, TimesType
    <2>3. SameTick(b - e, (b - d) + 1)
      <3>1. e = U(d - 1) /\ d - 1 \in Int
        BY <1>4, <2>1
      <3>2. SameTick(e, d - 1)
        BY <3>1, WrapIsSameTick
      <3>3. SameTick(b - e, b - (d - 1))
        BY <3>1, <3>2, SameTickRefl, SameTickSum
      <3>4. b - (d - 1) = (b - d) + 1
        OBVIOUS
      <3>. QED
        BY <3>3, <3>4
    <2>4. SameTick(Starts(y, B)[l[k]], Starts(x, B)[l[k]] + 1)
      BY <1>1, <2>2, <2>3
    <2>5. k < Len(l) => SameTick(Gaps(y)[l[k]], Gaps(x)[l[k]] - 1)
      <3>1. PICK g \in Int : g = Gaps(x)[T]
        BY <1>1, StartInt
      <3>2. SameTick(U(g - 1), g - 1)
        BY WrapIsSameTick
      <3>. QED
        BY <1>1, <1>4, <1>6, <3>1, <3>2
    <2>6. \A u \in From(l, k + 1) : Starts(y, B)[u] = Starts(x, B)[u] /\ Gaps(y)[u] = Gaps(x)[u]
      BY <1>1, <1>3, <1>4, <1>5, StartsOf
    <2>7. PICK S, G, S2, G2 : /\ S = Starts(x, B) /\ G = Gaps(x) /\ S2 = Starts(y, B) /\ G2 = Gaps(y)
                              /\ S \in Times /\ G \in Times /\ S2 \in Times /\ G2 \in Times
      <3>1. Starts(x, B) \in Times /\ Gaps(x) \in Times
        BY <1>1, TimesType
      <3>2. Starts(y, B) \in Times /\ Gaps(y) \in Times
        BY <1>3, TimesType
      <3>. QED
        BY <3>1, <3>2
    <2>8. Chained(l, S2, G2, k)
      <3>1. /\ Chained(l, S, G, k) /\ SameTick(S2[l[k]], S[l[k]] + 1)
            /\ k < Len(l) => SameTick(G2[l[k]], G[l[k]] - 1)
            /\ \A u \in From(l, k + 1) : S2[u] = S[u] /\ G2[u] = G[u]
        BY <1>7, <2>4, <2>5, <2>6, <2>7
      <3>2. 1 \in Int
        OBVIOUS
      <3>. QED
        BY <1>1, <2>7, <3>1, <3>2, HeadMoves
    <2>. QED
      BY <2>4, <2>7, <2>8
  <1>. QED
    BY <1>2, <1>4, <1>7 DEF Shifts, x, l, k


(* The target and its follower meet where the target was to start. *)
LEMMA FacedMeets ==
    ASSUME NEW s \in Delays, RunsInto(s), NEW B \in Times,
           Chained(s.q.list, Starts(s.q, B), Gaps(s.q), Spot(s))
    PROVE  LET x == Faced(s)
               k == Spot(s)
           IN  /\ Heads(x.q) = Heads(s.q)
               /\ Chained(x.q.list, Starts(x.q, B), Gaps(x.q), k + 1)
               /\ SameTick(Starts(x.q, B)[x.q.list[k]], Starts(s.q, B)[s.q.list[k]])
               /\ SameTick(Starts(x.q, B)[x.q.list[k + 1]], Starts(x.q, B)[x.q.list[k]])
  <1> DEFINE l == s.q.list
             k == Spot(s)
             m == [l EXCEPT ![k] = l[k + 1], ![k + 1] = l[k]]
             y == [s.q EXCEPT !.list = m]
             n == s.q.tk[s.next].gap
             z == [y EXCEPT !.tk[s.target].gap = n]
             S == Starts(s.q, B)
             G == Gaps(s.q)
  <1>1. /\ s.q \in Queue /\ l \in Lists /\ s.target \in Tasks
        /\ k \in 1..Len(l) /\ l[k] = s.target /\ s.next = Follower(s.q, k)
    BY DelayType
  <1>2. k < Len(l) /\ s.next = l[k + 1] /\ k + 1 \in 1..Len(l) /\ Len(l) \in Nat /\ k \in Nat
    BY <1>1, ListType DEF Follower, RunsInto
  <1>3. m \in Lists /\ SameFrom(l, m, k) /\ m[k] = s.next /\ m[k + 1] = s.target
    BY <1>1, <1>2, SwapKeeps
  <1>4. s.next \in Tasks /\ n \in Ticks /\ G[s.next] = n /\ G[s.target] = 0
    BY <1>1, <1>2, ListType, QueueType DEF Gaps, RunsInto
  <1>5. y \in Queue /\ y.list = m /\ y.tk = s.q.tk
    <2>1. m \in Seq(Tasks)
      BY <1>3 DEF Lists
    <2>. HIDE DEF m
    <2>. QED
      BY <1>1, <2>1 DEF Queue
  <1>6. Deadlines(y) = Deadlines(s.q) /\ Gaps(y) = G /\ Heads(y) = Heads(s.q)
    BY <1>5 DEF Deadlines, Gaps, Heads
  <1>. HIDE DEF y, n
  <1>7. /\ z \in Queue /\ z.list = y.list /\ Deadlines(z) = Deadlines(y) /\ Heads(z) = Heads(y)
        /\ Gaps(z)[s.target] = n /\ \A u \in Tasks \ {s.target} : Gaps(z)[u] = Gaps(y)[u]
    <2>1. PICK h : h = z
      OBVIOUS
    <2>2. h = [y EXCEPT !.tk[s.target].gap = n] /\ y \in Queue /\ s.target \in Tasks /\ n \in Ticks
      BY <1>1, <1>4, <1>5, <2>1
    <2>. HIDE DEF z
    <2>. QED
      BY <2>1, <2>2, GapSet
  <1>8. Starts(z, B) = S
    BY <1>6, <1>7 DEF Deadlines, Starts
  <1>9. S \in Times /\ G \in Times /\ Gaps(z) \in Times
    <2>. HIDE DEF z, S, G
    <2>. QED
      BY <1>1, <1>7, TimesType DEF S, G
  <1>. HIDE DEF z, m
  <1>10. PICK a \in Int, b \in Int : a = S[l[k]] /\ b = S[l[k + 1]]
    BY <1>1, <1>2, ListType, StartInt
  <1>11. SameTick(b, a)
    <2>1. k \in k..(Len(l) - 1)
      BY <1>2
    <2>2. SameTick(b, a + G[l[k]])
      BY <1>10, <2>1 DEF Chained
    <2>. QED
      BY <1>1, <1>4, <2>2
  <1>12. CASE is_preceding_task(s.q.tk, s.target, s.next)
    <2>1. Faced(s) = s
      BY <1>12 DEF Faced
    <2>2. Chained(l, S, G, k + 1)
      BY <1>1, <1>2, ChainedLater
    <2>3. SameTick(a, a)
      BY SameTickRefl
    <2>. QED
      BY <1>10, <1>11, <2>1, <2>2, <2>3
  <1>13. CASE ~is_preceding_task(s.q.tk, s.target, s.next)
    <2>1. Faced(s).q = z
      <3>1. z = [s.q EXCEPT !.list = [@ EXCEPT ![k] = s.next, ![k + 1] = s.target],
                            !.tk[s.target].gap = n]
        BY <1>1, <1>2 DEF z, y, m
      <3>2. z = [s.q EXCEPT !.list = [@ EXCEPT ![Place(s.q.list, s.target)] = s.next,
                                               ![Place(s.q.list, s.target) + 1] = s.target],
                            !.tk[s.target].gap = s.q.tk[s.next].gap]
        BY <3>1 DEF Spot, n
      <3>3. Faced(s) = [s EXCEPT !.q = z, !.target = s.next, !.next = s.target]
        BY <1>13, <3>2 DEF Faced
      <3>. QED
        BY <3>3, DelaySet
    <2>2. Len(m) = Len(l) /\ \A j \in (k + 2)..Len(l) : m[j] = l[j]
      BY <1>1, <1>2, ListType DEF m
    <2>3. \A j \in (k + 2)..Len(l) : Gaps(z)[l[j]] = G[l[j]]
      <3>1. \A j \in (k + 2)..Len(l) : j \in 1..Len(l) /\ j # k
        BY <1>2
      <3>2. \A j \in (k + 2)..Len(l) : l[j] \in Tasks \ {s.target}
        BY <1>1, <3>1, ListType
      <3>. QED
        BY <1>6, <1>7, <3>2
    <2>4. Gaps(z)[l[k]] = G[l[k + 1]] /\ m[k] = l[k + 1] /\ m[k + 1] = l[k] /\ G[l[k]] = 0
      BY <1>1, <1>2, <1>3, <1>4, <1>7
    <2>5. Chained(m, S, Gaps(z), k + 1) /\ SameTick(S[m[k + 1]], S[m[k]])
      <3>. HIDE DEF S, G, l, k
      <3>1. Chained(l, S, G, k)
        BY DEF S, G, l, k
      <3>. QED
        BY <1>1, <1>2, <1>3, <1>9, <2>2, <2>3, <2>4, <3>1, SwapMeets
    <2>6. SameTick(S[m[k]], S[l[k]])
      BY <1>10, <1>11, <2>4
    <2>. QED
      BY <1>5, <1>6, <1>7, <1>8, <2>1, <2>5, <2>6
  <1>. QED
    BY <1>12, <1>13

(* Behind the loop: the delayed task's deadline is what it was. *)
LEMMA EndTimes ==
    ASSUME NEW n \in Delays, NEW v \in Delays, Delayed(n, v)
    PROVE  LET y == EndDelay(n.q, v).q
           IN  /\ Gaps(y) = Gaps(v.q) /\ Heads(y) = Heads(v.q)
               /\ Deadlines(y)[n.t] = Deadlines(n.q)[n.t]
               /\ \A u \in Tasks \ {n.t} : Deadlines(y)[u] = Deadlines(v.q)[u]
  <1> DEFINE T == n.q.tk[n.t]
             y == [v.q EXCEPT !.tk[n.t].det_remain = T.det_remain]
             z == [y EXCEPT !.tk[n.t].deadline = T.deadline]
             w == Check(z, v.i # 0, "no delay")
             r == EndDelay(n.q, v)
  <1>1. /\ n.q \in Queue /\ v.q \in Queue /\ n.t \in Tasks /\ v.t = n.t
        /\ T.det_remain \in Ticks /\ T.deadline \in Ticks
    BY DelayType, QueueType DEF Delayed
  <1>2. r = [v EXCEPT !.q = w]
    <2>1. z = [v.q EXCEPT !.tk[n.t].det_remain = T.det_remain, !.tk[n.t].deadline = T.deadline]
      BY <1>1 DEF Queue, TaskType
    <2>2. r = [v EXCEPT !.q = Check([v.q EXCEPT !.tk[n.t].det_remain = T.det_remain,
                                                !.tk[n.t].deadline = T.deadline],
                                    v.i # 0, "no delay")]
      BY <1>1 DEF EndDelay
    <2>. HIDE DEF z, r, T
    <2>. QED
      BY <2>1, <2>2
  <1>3. r.q = w
    BY <1>2 DEF Delays
  <1>. HIDE DEF r
  <1>4. /\ y \in Queue /\ Deadlines(y) = Deadlines(v.q) /\ Gaps(y) = Gaps(v.q)
        /\ Heads(y) = Heads(v.q)
    <2>. HIDE DEF T
    <2>. QED
      BY <1>1, RemainSet
  <1>5. /\ z \in Queue /\ Gaps(z) = Gaps(y) /\ Heads(z) = Heads(y) /\ Deadlines(z)[n.t] = T.deadline
        /\ \A u \in Tasks \ {n.t} : Deadlines(z)[u] = Deadlines(y)[u]
    <2>1. PICK d \in Ticks, u \in Tasks : d = T.deadline /\ u = n.t
      BY <1>1
    <2>2. z = [y EXCEPT !.tk[u].deadline = d]
      BY <2>1
    <2>. HIDE DEF T, y, z
    <2>3. /\ z \in Queue /\ Gaps(z) = Gaps(y) /\ Heads(z) = Heads(y) /\ Deadlines(z)[u] = d
          /\ \A w1 \in Tasks \ {u} : Deadlines(z)[w1] = Deadlines(y)[w1]
      BY <1>4, <2>2, DeadlineSet
    <2>. QED
      BY <2>1, <2>3
  <1>6. w.tk = z.tk
    <2>1. "no delay" \in Asserts
      BY DEF Asserts
    <2>2. PICK c \in BOOLEAN : c = (v.i # 0)
      OBVIOUS
    <2>3. w = Check(z, c, "no delay")
      BY <2>2
    <2>. HIDE DEF z, w
    <2>. QED
      BY <1>5, <2>1, <2>3, CheckKeeps
  <1>7. Deadlines(w) = Deadlines(z) /\ Gaps(w) = Gaps(z) /\ Heads(w) = Heads(z)
    <2>. HIDE DEF w, z
    <2>. QED
      BY <1>6 DEF Deadlines, Gaps, Heads
  <1>8. Deadlines(n.q)[n.t] = T.deadline
    BY <1>1 DEF Deadlines
  <1>. HIDE DEF w, z, y
  <1>. QED
    BY <1>3, <1>4, <1>5, <1>7, <1>8 DEF r

(* The one behind starts when the target is to end, which starts as before. *)
LEMMA PushedMeets ==
    ASSUME NEW x \in Delays, x.next # None, NEW v \in Delays,
           Delayed(StartDelay(x.q, x.target, x.next), v),
           Shifts(x.q, v.q, Spot(x) + 1, v.i), NEW B \in Times,
           Chained(x.q.list, Starts(x.q, B), Gaps(x.q), Spot(x) + 1),
           SameTick(Starts(x.q, B)[x.q.list[Spot(x) + 1]], Starts(x.q, B)[x.q.list[Spot(x)]])
    PROVE  LET p == Pushed(x, EndDelay(x.q, v))
               k == Spot(x)
           IN  /\ Heads(p.q) = Heads(x.q)
               /\ Chained(p.q.list, Starts(p.q, B), Gaps(p.q), k)
               /\ SameTick(Starts(p.q, B)[p.q.list[k]], Starts(x.q, B)[x.q.list[k]])
  <1> DEFINE n == StartDelay(x.q, x.target, x.next)
             r == EndDelay(x.q, v)
             l == x.q.list
             k == Spot(x)
             m == v.q.list
             z == [r.q EXCEPT !.tk[x.target].gap = r.i]
             p == Pushed(x, r)
  <1>1. /\ x.q \in Queue /\ l \in Lists /\ x.target \in Tasks
        /\ k \in 1..Len(l) /\ l[k] = x.target /\ x.next = Follower(x.q, k)
    BY DelayType
  <1>2. n \in Delays /\ n.q = x.q /\ n.t = x.target /\ Spot(n) = k + 1
    BY InnerDelay
  <1>3. /\ r.q \in Queue /\ r.q.list = m /\ r.i = v.i
        /\ Gaps(r.q) = Gaps(v.q) /\ Heads(r.q) = Heads(v.q)
        /\ Deadlines(r.q)[x.target] = Deadlines(x.q)[x.target]
        /\ \A u \in Tasks \ {x.target} : Deadlines(r.q)[u] = Deadlines(v.q)[u]
    BY <1>2, EndDelayKeeps, EndTimes
  <1>4. /\ v.q \in Queue /\ m \in Lists /\ v.i \in Ticks /\ SameFrom(l, m, k + 1)
    BY <1>2, DelayType DEF Delayed
  <1>5. m[k] = x.target /\ Len(m) = Len(l)
    BY <1>1, <1>4, SameFromEarlier DEF SameFrom
  <1>6. k < Len(l) /\ k + 1 \in 1..Len(l) /\ k \in Nat /\ Len(l) \in Nat /\ Len(m) \in Nat
    BY <1>1, <1>4, ListType DEF Follower
  <1>7. p.q = z
    BY DEF Pushed, Delays
  <1>. HIDE DEF r, n, p
  <1>8. /\ z \in Queue /\ z.list = m /\ Deadlines(z) = Deadlines(r.q) /\ Heads(z) = Heads(r.q)
        /\ Gaps(z)[x.target] = v.i /\ \A u \in Tasks \ {x.target} : Gaps(z)[u] = Gaps(r.q)[u]
    <2>1. PICK w \in Queue, g \in Tasks, i \in Ticks : w = r.q /\ g = x.target /\ i = v.i
      BY <1>1, <1>3, <1>4
    <2>2. PICK h : h = [w EXCEPT !.tk[g].gap = i]
      OBVIOUS
    <2>3. /\ h \in Queue /\ h.list = w.list /\ Deadlines(h) = Deadlines(w) /\ Heads(h) = Heads(w)
          /\ Gaps(h)[g] = i /\ \A u \in Tasks \ {g} : Gaps(h)[u] = Gaps(w)[u]
      BY <2>2, GapSet
    <2>4. h = z
      BY <1>3, <2>1, <2>2
    <2>. HIDE DEF z
    <2>. QED
      BY <1>3, <2>1, <2>3, <2>4
  <1>. HIDE DEF z
  <1>9. Heads(z) = Heads(x.q)
    BY <1>3, <1>8 DEF Shifts
  <1>10. From(m, k + 1) \subseteq Tasks \ {x.target}
    <2>1. \A j \in (k + 1)..Len(m) : j \in 1..Len(m) /\ j # k /\ k \in 1..Len(m)
      BY <1>1, <1>5, <1>6
    <2>2. \A j \in (k + 1)..Len(m) : m[j] \in Tasks /\ m[j] # m[k]
      BY <1>4, <2>1, ListType
    <2>. QED
      BY <1>5, <2>2 DEF From
  <1>11. PICK S, G, W, H : /\ S = Starts(v.q, B) /\ G = Gaps(v.q) /\ W = Starts(z, B) /\ H = Gaps(z)
                           /\ S \in Times /\ G \in Times /\ W \in Times /\ H \in Times
    <2>1. Starts(v.q, B) \in Times /\ Gaps(v.q) \in Times
      BY <1>4, TimesType
    <2>2. Starts(z, B) \in Times /\ Gaps(z) \in Times
      BY <1>8, TimesType
    <2>. QED
      BY <2>1, <2>2
  <1>12. W[x.target] = Starts(x.q, B)[x.target]
    <2>1. Deadlines(z)[x.target] = Deadlines(x.q)[x.target]
      BY <1>3, <1>8
    <2>. QED
      BY <1>1, <1>8, <1>11, <2>1, StartsOf
  <1>13. \A u \in From(m, k + 1) : W[u] = S[u] /\ H[u] = G[u]
    <2>1. \A u \in Tasks \ {x.target} : Deadlines(z)[u] = Deadlines(v.q)[u] /\ H[u] = G[u]
      BY <1>3, <1>8, <1>11
    <2>. QED
      BY <1>4, <1>8, <1>10, <1>11, <2>1, StartsOf
  <1>14. /\ Chained(m, S, G, k + 1)
         /\ SameTick(S[m[k + 1]], Starts(x.q, B)[l[k + 1]] + v.i)
    BY <1>11 DEF Shifts
  <1>15. Chained(m, W, H, k + 1)
    <2>1. k + 1 \in 1..(Len(m) + 1)
      BY <1>5, <1>6
    <2>. HIDE DEF m, k
    <2>. QED
      BY <1>4, <1>11, <1>13, <1>14, <2>1, ChainedSame
  <1>16. SameTick(W[m[k + 1]], W[m[k]] + H[m[k]])
    <2>1. m[k + 1] \in From(m, k + 1)
      BY <1>5, <1>6 DEF From
    <2>2. PICK a \in Int, b \in Int, c \in Int, i \in Int :
              a = Starts(x.q, B)[l[k]] /\ b = Starts(x.q, B)[l[k + 1]] /\ c = W[m[k + 1]] /\ i = v.i
      <3>1. Starts(x.q, B)[l[k]] \in Int /\ Starts(x.q, B)[l[k + 1]] \in Int
        BY <1>1, <1>6, ListType, StartInt
      <3>2. W[m[k + 1]] \in Int
        BY <1>10, <1>11, <2>1 DEF Times
      <3>3. v.i \in Int
        BY <1>4 DEF Ticks
      <3>. QED
        BY <3>1, <3>2, <3>3
    <2>3. SameTick(c, b + i)
      BY <1>13, <1>14, <2>1, <2>2
    <2>4. SameTick(b, a)
      BY <2>2
    <2>5. SameTick(b + i, a + i)
      BY <2>4, SameTickRefl, SameTickSum
    <2>6. SameTick(c, a + i)
      BY <2>3, <2>5, SameTickTrans
    <2>7. W[m[k]] = a /\ H[m[k]] = i
      BY <1>1, <1>5, <1>8, <1>11, <1>12, <2>2
    <2>. QED
      BY <2>2, <2>6, <2>7
  <1>17. Chained(m, W, H, k)
    <2>1. k \in 1..Len(m) /\ k < Len(m)
      BY <1>1, <1>5, <1>6
    <2>. HIDE DEF m, k
    <2>. QED
      BY <1>4, <1>11, <1>15, <1>16, <2>1, HeadJoins
  <1>18. SameTick(W[m[k]], Starts(x.q, B)[l[k]])
    <2>1. Starts(x.q, B)[l[k]] \in Int
      BY <1>1, StartInt
    <2>. QED
      BY <1>1, <1>5, <1>12, <2>1, SameTickRefl
  <1>. QED
    BY <1>7, <1>8, <1>9, <1>11, <1>17, <1>18 DEF p, r

(* Together they leave the plan from the target on, and its start.         *)
LEMMA AfterShifts ==
    ASSUME NEW s \in Delays, RunsInto(s), NEW v \in Delays, Delayed(Inner(s), v),
           Shifts(Inner(s).q, v.q, Spot(Inner(s)), v.i)
    PROVE  Shifts(s.q, After(s, v).q, Spot(s), 0)
  <1> DEFINE x == Faced(s)
             k == Spot(s)
             p == After(s, v)
  <1>1. s.next # None
    BY DEF RunsInto
  <1>2. x \in Delays /\ Delayed(s, x) /\ x.next # None
    BY <1>1, FacedKeeps
  <1>3. Spot(x) = k /\ Len(x.q.list) = Len(s.q.list)
    BY <1>2 DEF Delayed, SameFrom
  <1>. HIDE DEF x
  <1>4. Inner(s) = StartDelay(x.q, x.target, x.next) /\ p = Pushed(x, EndDelay(x.q, v))
    BY DEF Inner, After, x
  <1>5. Inner(s).q = x.q /\ Spot(Inner(s)) = Spot(x) + 1
    BY <1>2, <1>4, InnerDelay
  <1>6. p \in Delays /\ Delayed(x, p)
    BY <1>2, <1>4, PushedKeeps
  <1>. HIDE DEF p
  <1>7. /\ s.q \in Queue /\ s.q.list[k] \in Tasks /\ x.q \in Queue /\ x.q.list[k] \in Tasks
        /\ p.q \in Queue /\ p.q.list[k] \in Tasks
    <2>1. Spot(p) = k
      BY <1>3, <1>6 DEF Delayed
    <2>. QED
      BY <1>2, <1>3, <1>6, <2>1, DelayType
  <1>8. ASSUME NEW B \in Times, Chained(s.q.list, Starts(s.q, B), Gaps(s.q), k)
        PROVE  /\ Heads(p.q) = Heads(s.q)
               /\ Chained(p.q.list, Starts(p.q, B), Gaps(p.q), k)
               /\ SameTick(Starts(p.q, B)[p.q.list[k]], Starts(s.q, B)[s.q.list[k]] + 0)
    <2>1. /\ Heads(x.q) = Heads(s.q)
          /\ Chained(x.q.list, Starts(x.q, B), Gaps(x.q), k + 1)
          /\ SameTick(Starts(x.q, B)[x.q.list[k]], Starts(s.q, B)[s.q.list[k]])
          /\ SameTick(Starts(x.q, B)[x.q.list[k + 1]], Starts(x.q, B)[x.q.list[k]])
      BY <1>8, FacedMeets DEF x
    <2>2. /\ Heads(p.q) = Heads(x.q)
          /\ Chained(p.q.list, Starts(p.q, B), Gaps(p.q), k)
          /\ SameTick(Starts(p.q, B)[p.q.list[k]], Starts(x.q, B)[x.q.list[k]])
      <3>1. Delayed(StartDelay(x.q, x.target, x.next), v) /\ Shifts(x.q, v.q, Spot(x) + 1, v.i)
        BY <1>4, <1>5
      <3>. HIDE DEF k
      <3>. QED
        BY <1>2, <1>3, <1>4, <2>1, <3>1, PushedMeets
    <2>3. PICK a \in Int, b \in Int, c \in Int :
              /\ a = Starts(s.q, B)[s.q.list[k]] /\ b = Starts(x.q, B)[x.q.list[k]]
              /\ c = Starts(p.q, B)[p.q.list[k]]
      BY <1>7, StartInt
    <2>4. SameTick(c, a)
      BY <2>1, <2>2, <2>3, SameTickTrans
    <2>. QED
      BY <2>1, <2>2, <2>3, <2>4
  <1>. QED
    BY <1>8 DEF Shifts, p, k

(* delay moves the plan from the target on by the ticks it grants. *)
LEMMA DelayShifts ==
    \A s \in Delays : Shifts(s.q, delay[s].q, Spot(s), delay[s].i - s.i)
  <1> DEFINE Fine(s) == Shifts(s.q, delay[s].q, Spot(s), delay[s].i - s.i)
             R == {DelayRank[s] : s \in {e \in Delays : ~Fine(e)}}
  <1>1. SUFFICES ASSUME R # {} PROVE FALSE
    OBVIOUS
  <1>2. R \in SUBSET Nat
    BY RankType
  <1>3. PICK r \in R : \A x \in R : r <= x
    BY <1>1, <1>2, LeastExists
  <1>4. PICK s \in Delays : ~Fine(s) /\ r = DelayRank[s]
    BY <1>3
  <1>5. ASSUME NEW e \in Delays, DelayRank[e] < DelayRank[s] PROVE Fine(e)
    <2>1. DelayRank[e] \in Nat /\ DelayRank[s] \in Nat
      BY RankType
    <2>2. ASSUME ~Fine(e) PROVE FALSE
      <3>1. DelayRank[e] \in R
        BY <2>2
      <3>2. r <= DelayRank[e]
        BY <1>3, <3>1
      <3>. QED
        BY <1>4, <1>5, <2>1, <3>2
    <2>. QED
      BY <2>2
  <1>. HIDE DEF R
  <1>6. delay[s] = DelayBody(delay, s)
    BY DelayIs
  <1>7. s.q \in Queue /\ s.q.list \in Lists /\ Spot(s) \in 1..Len(s.q.list) /\ s.i \in Int
    BY DelayType DEF Ticks
  <1>8. CASE Stops(s)
    <2>1. delay[s] = s /\ s.i - s.i = 0
      BY <1>6, <1>7, <1>8 DEF DelayBody
    <2>. QED
      BY <1>4, <1>7, <2>1, ShiftsRefl
  <1>9. ASSUME NEW g \in Delays, Delayed(s, g), DelayRank[g] < DelayRank[s], NEW m \in Int,
               g.i = s.i + 1, Shifts(s.q, g.q, Spot(s), 1), delay[s] = delay[g]
        PROVE  FALSE
    <2>1. PICK v : v = delay[g]
      OBVIOUS
    <2>2. v \in Delays /\ Delayed(g, v) /\ Shifts(g.q, v.q, Spot(g), v.i - g.i)
      BY <1>5, <1>9, <2>1, DelayPermutes
    <2>3. Delayed(s, v)
      BY <1>9, <2>2, DelayedTrans
    <2>4. /\ Spot(g) = Spot(s) /\ Len(g.q.list) = Len(s.q.list) /\ Len(v.q.list) = Len(s.q.list)
          /\ g.q \in Queue /\ v.q \in Queue /\ g.q.list \in Lists /\ v.q.list \in Lists
      BY <1>9, <2>2, <2>3, DelayType DEF Delayed, SameFrom
    <2>5. PICK i \in Int, j \in Int : i = s.i /\ j = v.i
      BY <1>7, <2>2, DelayType DEF Ticks
    <2>6. v.i - g.i = j - (i + 1) /\ 1 + (j - (i + 1)) = j - i
      BY <1>9, <2>5
    <2>7. PICK k, x, y, z : k = Spot(s) /\ x = s.q /\ y = g.q /\ z = v.q
      OBVIOUS
    <2>8. Shifts(x, y, k, 1) /\ Shifts(y, z, k, j - (i + 1))
      BY <1>9, <2>2, <2>4, <2>6, <2>7
    <2>9. Shifts(x, z, k, 1 + (j - (i + 1)))
      BY <1>7, <2>4, <2>7, <2>8, ShiftsTrans
    <2>. QED
      BY <1>4, <1>9, <2>1, <2>5, <2>6, <2>7, <2>9
  <1>10. CASE ~Stops(s) /\ ~RunsInto(Granted(s))
    <2>1. PICK g : g = Granted(s)
      OBVIOUS
    <2>2. /\ g \in Delays /\ Delayed(s, g) /\ DelayRank[g] < DelayRank[s] /\ g.i = s.i + 1
          /\ Shifts(s.q, g.q, Spot(s), 1)
      BY <1>10, <2>1, GrantedKeeps, GrantedShifts
    <2>3. delay[s] = delay[g]
      BY <1>6, <1>10, <2>1 DEF DelayBody
    <2>. QED
      BY <1>9, <2>2, <2>3
  <1>11. CASE ~Stops(s) /\ RunsInto(Granted(s))
    <2>1. PICK g : g = Granted(s)
      OBVIOUS
    <2>2. g \in Delays /\ Delayed(s, g) /\ g.i = s.i + 1 /\ Shifts(s.q, g.q, Spot(s), 1)
      BY <1>11, <2>1, GrantedKeeps, GrantedShifts
    <2>3. PICK n : n = Inner(g)
      OBVIOUS
    <2>4. PICK v : v = delay[n]
      OBVIOUS
    <2>5. PICK a : a = After(g, v)
      OBVIOUS
    <2>6. n \in Delays /\ DelayRank[n] < DelayRank[s] /\ n.i = 0
      <3>1. n.i = 0
        BY <2>3 DEF Inner, StartDelay
      <3>. QED
        BY <1>11, <2>1, <2>3, <3>1, InnerAndAfter
    <2>7. v \in Delays /\ Delayed(n, v) /\ Shifts(n.q, v.q, Spot(n), v.i)
      <3>1. v \in Delays /\ Delayed(n, v) /\ Shifts(n.q, v.q, Spot(n), v.i - n.i)
        BY <1>5, <2>4, <2>6, DelayPermutes
      <3>2. v.i \in Int
        BY <3>1, DelayType DEF Ticks
      <3>3. v.i - n.i = v.i
        BY <2>6, <3>2
      <3>. QED
        BY <3>1, <3>3
    <2>8. a \in Delays /\ Delayed(s, a) /\ DelayRank[a] < DelayRank[s]
      BY <1>11, <2>1, <2>3, <2>5, <2>7, InnerAndAfter
    <2>9. Shifts(g.q, a.q, Spot(g), 0)
      BY <1>11, <2>1, <2>2, <2>3, <2>5, <2>7, AfterShifts
    <2>10. Shifts(s.q, a.q, Spot(s), 1)
      <3>1. /\ Spot(g) = Spot(s) /\ Len(g.q.list) = Len(s.q.list) /\ Len(a.q.list) = Len(s.q.list)
            /\ g.q \in Queue /\ a.q \in Queue /\ g.q.list \in Lists /\ a.q.list \in Lists
        BY <2>2, <2>8, DelayType DEF Delayed, SameFrom
      <3>2. PICK k, x, y, z : k = Spot(s) /\ x = s.q /\ y = g.q /\ z = a.q
        OBVIOUS
      <3>3. Shifts(x, y, k, 1) /\ Shifts(y, z, k, 0)
        BY <2>2, <2>9, <3>1, <3>2
      <3>4. Shifts(x, z, k, 1 + 0)
        BY <1>7, <3>1, <3>2, <3>3, ShiftsTrans
      <3>. QED
        BY <3>2, <3>4
    <2>11. a.i = s.i + 1
      <3>1. g.next # None /\ Faced(g) \in Delays /\ Faced(g).i = g.i
        BY <1>11, <2>1, <2>2, FacedKeeps DEF RunsInto
      <3>2. a.i = Faced(g).i
        BY <2>5, <3>1 DEF After, Pushed, Delays
      <3>. QED
        BY <2>2, <3>1, <3>2
    <2>12. delay[s] = delay[a]
      BY <1>6, <1>11, <2>1, <2>3, <2>4, <2>5 DEF DelayBody
    <2>. QED
      BY <1>9, <2>8, <2>10, <2>11, <2>12
  <1>. QED
    BY <1>8, <1>10, <1>11

(* delay_tasks as a whole. *)
LEMMA delay_tasksShifts ==
    ASSUME NEW x \in Queue, x.list \in Lists, NEW t \in Tasks,
           NEW k \in 1..Len(x.list), t \notin From(x.list, k), NEW B \in Times,
           Chained(x.list, Starts(x, B), Gaps(x), k)
    PROVE  LET r == delay_tasks(x, t, x.list[k])
           IN  /\ \A u \in Tasks \ {t} : Heads(r.q)[u] = Heads(x)[u]
               /\ Starts(r.q, B)[t] = Starts(x, B)[t]
               /\ Chained(r.q.list, Starts(r.q, B), Gaps(r.q), k)
               /\ SameTick(Starts(r.q, B)[r.q.list[k]], Starts(x, B)[x.list[k]] + r.i)
  <1>1. 0 \in Ticks
    BY ConfAssumption DEF Ticks
  <1>2. PICK w : w = [q |-> x, t |-> t, target |-> x.list[k], next |-> Follower(x, k), i |-> 0]
    OBVIOUS
  <1>3. w \in Delays /\ Spot(w) = k /\ Succ(x, x.list[k]) = Follower(x, k)
    BY <1>1, <1>2, DelayIntro
  <1>4. w = StartDelay(x, t, x.list[k])
    BY <1>2, <1>3 DEF StartDelay
  <1>5. PICK v : v = delay[w]
    OBVIOUS
  <1>6. v \in Delays /\ Delayed(w, v) /\ w.q = x /\ w.t = t /\ w.i = 0
    BY <1>2, <1>3, <1>5, DelayPermutes
  <1>7. PICK r : r = EndDelay(x, v)
    OBVIOUS
  <1>8. delay_tasks(x, t, x.list[k]) = r
    BY <1>4, <1>5, <1>7 DEF delay_tasks
  <1>9. /\ r.q \in Queue /\ r.q.list = v.q.list /\ r.i = v.i
        /\ Gaps(r.q) = Gaps(v.q) /\ Heads(r.q) = Heads(v.q)
        /\ Deadlines(r.q)[t] = Deadlines(x)[t]
        /\ \A u \in Tasks \ {t} : Deadlines(r.q)[u] = Deadlines(v.q)[u]
    BY <1>3, <1>6, <1>7, EndDelayKeeps, EndTimes
  <1>10. v.q \in Queue /\ v.q.list \in Lists /\ v.i \in Int /\ From(v.q.list, k) = From(x.list, k)
         /\ Len(v.q.list) = Len(x.list)
    BY <1>3, <1>6, DelayType DEF Delayed, SameFrom, Ticks
  <1>11. /\ Heads(v.q) = Heads(x)
         /\ Chained(v.q.list, Starts(v.q, B), Gaps(v.q), k)
         /\ SameTick(Starts(v.q, B)[v.q.list[k]], Starts(x, B)[x.list[k]] + v.i)
    <2>1. Shifts(w.q, v.q, Spot(w), v.i - w.i) /\ v.i - w.i = v.i
      BY <1>3, <1>5, <1>6, <1>10, DelayShifts
    <2>2. Shifts(x, v.q, k, v.i)
      BY <1>3, <1>6, <2>1
    <2>. QED
      BY <2>2 DEF Shifts
  <1>12. Starts(r.q, B)[t] = Starts(x, B)[t]
    BY <1>9, StartsOf
  <1>13. \A u \in From(v.q.list, k) : Starts(r.q, B)[u] = Starts(v.q, B)[u]
    <2>1. \A j \in k..Len(v.q.list) : j \in 1..Len(v.q.list)
      BY <1>10, ListType
    <2>2. From(v.q.list, k) \subseteq Tasks \ {t}
      <3>1. From(v.q.list, k) \subseteq Tasks
        BY <1>10, <2>1, ListType DEF From
      <3>. QED
        BY <1>10, <3>1
    <2>. QED
      BY <1>9, <1>10, <2>2, StartsOf
  <1>14. v.q.list[k] \in From(v.q.list, k) /\ k \in 1..(Len(v.q.list) + 1)
    BY <1>10, ListType DEF From
  <1>15. PICK S, G, W, H : /\ S = Starts(v.q, B) /\ G = Gaps(v.q) /\ W = Starts(r.q, B) /\ H = Gaps(r.q)
                           /\ S \in Times /\ G \in Times /\ W \in Times /\ H \in Times
    <2>1. Starts(v.q, B) \in Times /\ Gaps(v.q) \in Times
      BY <1>10, TimesType
    <2>2. Starts(r.q, B) \in Times /\ Gaps(r.q) \in Times
      BY <1>9, TimesType
    <2>. QED
      BY <2>1, <2>2
  <1>16. Chained(v.q.list, W, H, k)
    <2>1. Chained(v.q.list, S, G, k) /\ \A u \in From(v.q.list, k) : W[u] = S[u] /\ H[u] = G[u]
      BY <1>9, <1>11, <1>13, <1>15
    <2>2. PICK m \in Lists : m = v.q.list
      BY <1>10
    <2>3. k \in 1..(Len(m) + 1) /\ Chained(m, S, G, k) /\ \A u \in From(m, k) : W[u] = S[u] /\ H[u] = G[u]
      BY <1>14, <2>1, <2>2
    <2>4. Chained(m, W, H, k)
      BY <1>15, <2>3, ChainedSame
    <2>. QED
      BY <2>2, <2>4
  <1>. QED
    BY <1>8, <1>9, <1>11, <1>12, <1>13, <1>14, <1>15, <1>16

----------------------------------------------------------------------------
(* requeue_task: the plan that results. *)

(* t is put in front of the k-th, when its predecessor is to end, and the  *)
(* k-th when t is to end.                                                  *)
LEMMA InsertedMeets ==
    ASSUME NEW l \in Lists, NEW k \in 1..Len(l), NEW t \in Tasks, NEW S \in Times, NEW G \in Times,
           \A j \in 1..(k - 2) : SameTick(S[l[j + 1]], S[l[j]] + G[l[j]]),
           k > 1 => SameTick(S[t], S[l[k - 1]] + G[l[k - 1]]),
           SameTick(S[l[k]], S[t] + G[t]), Chained(l, S, G, k)
    PROVE  Chained(InsertAt(l, k, t), S, G, 1)
  <1> DEFINE m == InsertAt(l, k, t)
  <1>1. Len(m) = Len(l) + 1
    BY InsertIs
  <1>2. \A j \in 1..(Len(l) + 1) : m[j] = IF j < k THEN l[j] ELSE IF j = k THEN t ELSE l[j - 1]
    BY InsertIs
  <1>. HIDE DEF m
  <1>3. Len(l) \in Nat /\ k \in Nat /\ k >= 1 /\ k <= Len(l)
    BY ListType
  <1>4. ASSUME NEW j \in 1..(Len(m) - 1)
        PROVE  SameTick(S[m[j + 1]], S[m[j]] + G[m[j]])
    <2>1. j \in 1..(Len(l) + 1) /\ j + 1 \in 1..(Len(l) + 1) /\ j \in Nat
      BY <1>1, <1>3
    <2>2. CASE j + 1 < k
      <3>1. m[j] = l[j] /\ m[j + 1] = l[j + 1] /\ j \in 1..(k - 2)
        <4>1. j < k /\ j \in 1..(k - 2)
          BY <1>3, <2>1, <2>2
        <4>. QED
          BY <1>2, <2>1, <2>2, <4>1
      <3>. QED
        BY <3>1
    <2>3. CASE j + 1 = k
      <3>1. m[j] = l[k - 1] /\ m[j + 1] = t /\ k > 1
        <4>1. j = k - 1 /\ j < k /\ k > 1 /\ ~(j + 1 < k)
          BY <1>3, <2>1, <2>3
        <4>. QED
          BY <1>2, <2>1, <2>3, <4>1
      <3>. QED
        BY <3>1
    <2>4. CASE j = k
      <3>1. m[j] = t /\ m[j + 1] = l[k]
        <4>1. ~(j < k) /\ ~(j + 1 < k) /\ j + 1 # k /\ (j + 1) - 1 = k
          BY <1>3, <2>1, <2>4
        <4>. QED
          BY <1>2, <2>1, <2>4, <4>1
      <3>. QED
        BY <3>1
    <2>5. CASE j > k
      <3>1. PICK i \in k..(Len(l) - 1) : i = j - 1 /\ (j + 1) - 1 = i + 1
        BY <1>1, <1>3, <2>1, <2>5
      <3>2. ~(j < k) /\ j # k /\ ~(j + 1 < k) /\ j + 1 # k
        BY <1>3, <2>1, <2>5
      <3>3. m[j] = l[i] /\ m[j + 1] = l[i + 1]
        BY <1>2, <2>1, <3>1, <3>2
      <3>. QED
        BY <3>3 DEF Chained
    <2>6. j + 1 < k \/ j + 1 = k \/ j = k \/ j > k
      BY <1>3, <2>1
    <2>. QED
      BY <2>2, <2>3, <2>4, <2>5, <2>6
  <1>. QED
    BY <1>4 DEF Chained, m

(* The predecessor of t is to end when t is to start. *)
Room(x, k, start, ticks) ==
    LET p    == x.list[k - 1]
        left == U(x.tk[p].gap - (ticks - start))
    IN  IF k = 1 THEN x ELSE Check([x EXCEPT !.tk[p].gap = left], left > 0, "no gap left")

LEMMA RoomTimes ==
    ASSUME NEW x \in Queue, x.list \in Lists, NEW k \in 1..Len(x.list),
           NEW start \in Ticks, NEW ticks \in Ticks, NEW B \in Times
    PROVE  LET y == Room(x, k, start, ticks)
           IN  /\ y \in Queue /\ y.list = x.list /\ Heads(y) = Heads(x)
               /\ \A u \in Tasks : Starts(y, B)[u] = Starts(x, B)[u]
               /\ \A u \in Tasks : k = 1 \/ u # x.list[k - 1] => Gaps(y)[u] = Gaps(x)[u]
               /\ k > 1 => SameTick(Gaps(y)[x.list[k - 1]], Gaps(x)[x.list[k - 1]] - (ticks - start))
  <1>1. k \in Nat /\ Len(x.list) \in Nat /\ k >= 1 /\ k <= Len(x.list)
    BY ListType
  <1>2. CASE k = 1
    <2>1. Room(x, k, start, ticks) = x
      BY <1>2 DEF Room
    <2>2. ~(k > 1)
      BY <1>2
    <2>. QED
      BY <1>2, <2>1, <2>2
  <1>3. CASE k # 1
    <2>1. k - 1 \in 1..Len(x.list)
      BY <1>1, <1>3
    <2>2. PICK p \in Tasks : p = x.list[k - 1]
      BY <2>1, ListType
    <2>3. PICK g \in Ticks : g = x.tk[p].gap /\ g = Gaps(x)[p]
      BY QueueType DEF Gaps
    <2>4. g \in Int /\ start \in Int /\ ticks \in Int
      BY DEF Ticks
    <2>5. PICK n \in Ticks : n = U(g - (ticks - start)) /\ SameTick(n, g - (ticks - start))
      <3>1. g - (ticks - start) \in Int
        BY <2>4
      <3>. QED
        BY <3>1, WrapsToTicks, WrapIsSameTick
    <2>6. PICK z : z = [x EXCEPT !.tk[p].gap = n]
      OBVIOUS
    <2>7. /\ z \in Queue /\ z.list = x.list /\ Deadlines(z) = Deadlines(x) /\ Heads(z) = Heads(x)
          /\ Gaps(z)[p] = n /\ \A u \in Tasks \ {p} : Gaps(z)[u] = Gaps(x)[u]
      BY <2>6, GapSet
    <2>8. PICK c \in BOOLEAN : c <=> n > 0
      OBVIOUS
    <2>9. PICK y : y = Check(z, c, "no gap left")
      OBVIOUS
    <2>10. Room(x, k, start, ticks) = y
      BY <1>3, <2>2, <2>3, <2>5, <2>6, <2>8, <2>9 DEF Room, Check
    <2>11. y \in Queue /\ y.list = z.list /\ y.tk = z.tk
      BY <2>7, <2>9, CheckKeeps DEF Asserts
    <2>12. Deadlines(y) = Deadlines(z) /\ Gaps(y) = Gaps(z) /\ Heads(y) = Heads(z)
      BY <2>11 DEF Deadlines, Gaps, Heads
    <2>13. \A u \in Tasks : Starts(y, B)[u] = Starts(x, B)[u]
      BY <2>7, <2>11, <2>12, StartsOf
    <2>. QED
      BY <1>3, <2>2, <2>3, <2>5, <2>7, <2>10, <2>11, <2>12, <2>13
  <1>. QED
    BY <1>2, <1>3

(* t before the k-th: it fits in, or the k-th and those behind are delayed. *)
Placed(y, t, k, start, ticks) ==
    LET r == delay_tasks(y, t, y.list[k])
    IN  IF ticks <= start THEN InsertBefore([r.q EXCEPT !.tk[t].gap = r.i], t, r.target)
        ELSE InsertBefore([y EXCEPT !.tk[t].gap = ticks - start], t, y.list[k])

LEMMA InsertBeforeIs ==
    ASSUME NEW x \in Queue, x.list \in Lists, NEW k \in 1..Len(x.list),
           NEW t \in Tasks, t \notin ToSet(x.list)
    PROVE  LET y == InsertBefore(x, t, x.list[k])
           IN  y.list = InsertAt(x.list, k, t) /\ y.tk = x.tk /\ y.bad = x.bad
  <1>1. PICK m : m = InsertAt(x.list, k, t)
    OBVIOUS
  <1>2. InsertBefore(x, t, x.list[k]) = [x EXCEPT !.list = m]
    BY <1>1, PlaceIs DEF InsertBefore
  <1>. QED
    BY <1>1, <1>2 DEF Queue

(* What t in front of the k-th of y leaves. *)
Plans(y, z, t, k, B) ==
    /\ z \in Queue /\ z.list \in Lists /\ ToSet(z.list) = ToSet(y.list) \cup {t}
    /\ Len(z.list) = Len(y.list) + 1
    /\ z.list[k] = t /\ \A j \in 1..(k - 1) : z.list[j] = y.list[j]
    /\ Chained(z.list, Starts(z, B), Gaps(z), 1)
    /\ \A u \in Tasks \ {t} : Heads(z)[u] = Heads(y)[u]
    /\ Starts(z, B)[t] = Starts(y, B)[t]
    /\ \A j \in 1..(k - 1) : Starts(z, B)[y.list[j]] = Starts(y, B)[y.list[j]]

(* w is what stands before the insertion. *)
LEMMA InsertPlans ==
    ASSUME NEW y \in Queue, y.list \in Lists, NEW k \in 1..Len(y.list),
           NEW t \in Tasks, t \notin ToSet(y.list), NEW B \in Times,
           NEW w \in Queue, w.list \in Lists, SameFrom(y.list, w.list, k),
           \A u \in Tasks \ {t} : Heads(w)[u] = Heads(y)[u],
           Starts(w, B)[t] = Starts(y, B)[t],
           \A j \in 1..(k - 1) : /\ Starts(w, B)[y.list[j]] = Starts(y, B)[y.list[j]]
                                 /\ Gaps(w)[y.list[j]] = Gaps(y)[y.list[j]],
           \A j \in 1..(k - 2) : SameTick(Starts(y, B)[y.list[j + 1]],
                                          Starts(y, B)[y.list[j]] + Gaps(y)[y.list[j]]),
           k > 1 => SameTick(Starts(y, B)[t], Starts(y, B)[y.list[k - 1]] + Gaps(y)[y.list[k - 1]]),
           SameTick(Starts(w, B)[w.list[k]], Starts(w, B)[t] + Gaps(w)[t]),
           Chained(w.list, Starts(w, B), Gaps(w), k)
    PROVE  Plans(y, InsertBefore(w, t, w.list[k]), t, k, B)
  <1>1. /\ Len(w.list) = Len(y.list) /\ k \in 1..Len(w.list) /\ k \in Nat /\ Len(y.list) \in Nat
        /\ \A j \in 1..(k - 1) : w.list[j] = y.list[j]
    <2>1. Len(y.list) \in Nat /\ k \in Nat /\ \A j \in 1..(k - 1) : j \in 1..Len(y.list) /\ j < k
      BY ListType
    <2>. QED
      BY <2>1 DEF SameFrom
  <1>2. ToSet(w.list) = ToSet(y.list)
    BY SameFromSet
  <1>3. PICK z : z = InsertBefore(w, t, w.list[k])
    OBVIOUS
  <1>4. /\ z \in Queue /\ z.list \in Lists /\ ToSet(z.list) = ToSet(y.list) \cup {t} /\ z.tk = w.tk
    <2>1. t \notin ToSet(w.list)
      BY <1>2
    <2>2. z \in Queue /\ z.list \in Lists /\ ToSet(z.list) = ToSet(w.list) \cup {t} /\ z.tk = w.tk
      BY <1>1, <1>3, <2>1, InsertBeforeKeeps
    <2>. QED
      BY <1>2, <2>2
  <1>5. z.list = InsertAt(w.list, k, t)
    <2>1. t \notin ToSet(w.list)
      BY <1>2
    <2>. QED
      BY <1>1, <1>3, <2>1, InsertBeforeIs
  <1>6. Deadlines(z) = Deadlines(w) /\ Gaps(z) = Gaps(w) /\ Heads(z) = Heads(w)
    BY <1>4 DEF Deadlines, Gaps, Heads
  <1>7. \A u \in Tasks : Starts(z, B)[u] = Starts(w, B)[u]
    BY <1>4, <1>6, StartsOf
  <1>8. PICK l, S, G : /\ l = w.list /\ S = Starts(w, B) /\ G = Gaps(w)
                       /\ l \in Lists /\ S \in Times /\ G \in Times
    BY TimesType
  <1>9. S = Starts(z, B)
    <2>1. Starts(z, B) \in Times
      BY <1>4, TimesType
    <2>2. \A u \in Tasks : S[u] = Starts(z, B)[u]
      BY <1>7, <1>8
    <2>. QED
      BY <1>8, <2>1, <2>2 DEF Times
  <1>10. \A j \in 1..(k - 2) : SameTick(S[l[j + 1]], S[l[j]] + G[l[j]])
    <2>1. \A j \in 1..(k - 2) : j \in 1..(k - 1) /\ j + 1 \in 1..(k - 1)
      BY <1>1
    <2>2. \A j \in 1..(k - 1) : S[l[j]] = Starts(y, B)[y.list[j]] /\ G[l[j]] = Gaps(y)[y.list[j]]
      BY <1>1, <1>8
    <2>. QED
      BY <2>1, <2>2
  <1>11. k > 1 => SameTick(S[t], S[l[k - 1]] + G[l[k - 1]])
    <2>1. k > 1 => k - 1 \in 1..(k - 1)
      BY <1>1
    <2>2. k > 1 => l[k - 1] = y.list[k - 1]
      BY <1>1, <1>8, <2>1
    <2>. QED
      BY <1>8, <2>1, <2>2
  <1>12. Chained(InsertAt(l, k, t), S, G, 1)
    <2>1. SameTick(S[l[k]], S[t] + G[t]) /\ Chained(l, S, G, k) /\ k \in 1..Len(l)
      BY <1>1, <1>8
    <2>. QED
      BY <1>8, <1>10, <1>11, <2>1, InsertedMeets
  <1>13. /\ Len(z.list) = Len(y.list) + 1
         /\ z.list[k] = t /\ \A j \in 1..(k - 1) : z.list[j] = y.list[j]
    <2> DEFINE m == InsertAt(l, k, t)
    <2>0. l \in Lists /\ k \in 1..Len(l)
      BY <1>1, <1>8
    <2>1. Len(m) = Len(l) + 1
      BY <2>0, InsertIs
    <2>2. \A j \in 1..(Len(l) + 1) : m[j] = IF j < k THEN l[j] ELSE IF j = k THEN t ELSE l[j - 1]
      BY <2>0, InsertIs
    <2>3. k \in 1..(Len(l) + 1) /\ \A j \in 1..(k - 1) : j \in 1..(Len(l) + 1) /\ j < k
      BY <1>1, <1>8
    <2>4. z.list = m
      BY <1>5, <1>8
    <2>. HIDE DEF m
    <2>. QED
      BY <1>1, <1>8, <2>1, <2>2, <2>3, <2>4
  <1>14. Chained(z.list, Starts(z, B), Gaps(z), 1)
    BY <1>5, <1>6, <1>8, <1>9, <1>12
  <1>15. \A j \in 1..(k - 1) : Starts(z, B)[y.list[j]] = Starts(y, B)[y.list[j]]
    BY <1>8, <1>9
  <1>. QED
    BY <1>3, <1>4, <1>6, <1>7, <1>13, <1>14, <1>15 DEF Plans

LEMMA PlacedPlans ==
    ASSUME NEW y \in Queue, y.list \in Lists, NEW k \in 1..Len(y.list),
           NEW t \in Tasks, t \notin ToSet(y.list), NEW B \in Times, NEW X \in Int,
           NEW start \in Ticks, NEW ticks \in Ticks, start <= ticks,
           Chained(y.list, Starts(y, B), Gaps(y), k),
           \A j \in 1..(k - 2) : SameTick(Starts(y, B)[y.list[j + 1]],
                                          Starts(y, B)[y.list[j]] + Gaps(y)[y.list[j]]),
           k > 1 => SameTick(Starts(y, B)[t], Starts(y, B)[y.list[k - 1]] + Gaps(y)[y.list[k - 1]]),
           SameTick(Starts(y, B)[t], X + start),
           SameTick(Starts(y, B)[y.list[k]], X + ticks)
    PROVE  Plans(y, Placed(y, t, k, start, ticks), t, k, B)
  <1> DEFINE l == y.list
             r == delay_tasks(y, t, y.list[k])
  <1>1. k \in Nat /\ Len(l) \in Nat /\ k >= 1 /\ k <= Len(l) /\ start \in Int /\ ticks \in Int
    BY ListType DEF Ticks
  <1>2. \A j \in 1..Len(l) : l[j] \in ToSet(l) /\ l[j] \in Tasks /\ l[j] # t
    BY ListType DEF ToSet
  <1>3. t \notin From(l, k)
    <2>1. \A j \in k..Len(l) : j \in 1..Len(l)
      BY <1>1
    <2>. QED
      BY <1>2, <2>1 DEF From
  <1>4. PICK a \in Int, c \in Int : a = Starts(y, B)[t] /\ c = Starts(y, B)[l[k]]
    BY <1>2, StartInt
  <1>5. SameTick(a, X + start) /\ SameTick(c, X + ticks) /\ X + start \in Int /\ X + ticks \in Int
    BY <1>1, <1>4
  <1>6. CASE ticks <= start
    <2>1. /\ r.q \in Queue /\ r.q.list \in Lists /\ SameFrom(l, r.q.list, k)
          /\ r.target = r.q.list[k] /\ r.i \in Ticks
          /\ Retimed(y, r.q, From(l, k) \cup {t})
      BY <1>3, delay_tasksKeeps
    <2>2. /\ \A u \in Tasks \ {t} : Heads(r.q)[u] = Heads(y)[u]
          /\ Starts(r.q, B)[t] = Starts(y, B)[t]
          /\ Chained(r.q.list, Starts(r.q, B), Gaps(r.q), k)
          /\ SameTick(Starts(r.q, B)[r.q.list[k]], Starts(y, B)[l[k]] + r.i)
      BY <1>3, delay_tasksShifts
    <2>. HIDE DEF r
    <2>3. PICK v \in Queue, i \in Ticks : v = r.q /\ i = r.i
      BY <2>1
    <2>4. PICK w : w = [v EXCEPT !.tk[t].gap = i]
      OBVIOUS
    <2>5. /\ w \in Queue /\ w.list = v.list /\ Deadlines(w) = Deadlines(v) /\ Heads(w) = Heads(v)
          /\ Gaps(w)[t] = i /\ \A u \in Tasks \ {t} : Gaps(w)[u] = Gaps(v)[u]
      BY <2>4, GapSet
    <2>6. Placed(y, t, k, start, ticks) = InsertBefore(w, t, w.list[k])
      BY <1>6, <2>1, <2>3, <2>4, <2>5 DEF Placed, r
    <2>7. \A u \in Tasks : Starts(w, B)[u] = Starts(v, B)[u]
      BY <2>5, StartsOf
    <2>8. PICK m \in Lists : m = w.list /\ m = r.q.list
      BY <2>1, <2>3, <2>5
    <2>9. Len(m) = Len(l) /\ k \in 1..Len(m) /\ From(m, k) = From(l, k)
      BY <1>1, <2>1, <2>8 DEF SameFrom
    <2>10. From(m, k) \subseteq Tasks \ {t}
      <3>1. From(m, k) \subseteq Tasks
        <4>1. \A j \in k..Len(m) : j \in 1..Len(m)
          BY <1>1, <2>9
        <4>. QED
          BY <4>1, ListType DEF From
      <3>. QED
        BY <1>3, <2>9, <3>1
    <2>11. PICK S, G, W, H : /\ S = Starts(v, B) /\ G = Gaps(v) /\ W = Starts(w, B) /\ H = Gaps(w)
                             /\ S \in Times /\ G \in Times /\ W \in Times /\ H \in Times
      <3>1. Starts(v, B) \in Times /\ Gaps(v) \in Times
        BY TimesType
      <3>2. Starts(w, B) \in Times /\ Gaps(w) \in Times
        BY <2>5, TimesType
      <3>. QED
        BY <3>1, <3>2
    <2>12. Chained(m, W, H, k)
      <3>1. Chained(m, S, G, k) /\ k \in 1..(Len(m) + 1)
        BY <1>1, <2>2, <2>3, <2>8, <2>9, <2>11
      <3>2. \A u \in From(m, k) : W[u] = S[u] /\ H[u] = G[u]
        BY <2>5, <2>7, <2>10, <2>11
      <3>. QED
        BY <2>11, <3>1, <3>2, ChainedSame
    <2>13. SameTick(W[m[k]], W[t] + H[t])
      <3>1. m[k] \in Tasks
        BY <2>9, ListType
      <3>2. PICK d \in Int : d = W[m[k]] /\ d = S[m[k]]
        BY <2>7, <2>11, <3>1 DEF Times
      <3>3. i \in Int /\ W[t] = a /\ H[t] = i
        BY <1>4, <2>2, <2>3, <2>5, <2>7, <2>11 DEF Ticks
      <3>4. SameTick(d, c + i)
        BY <1>4, <2>2, <2>3, <2>8, <2>11, <3>2
      <3>5. SameTick(c, a)
        <4>1. ticks = start
          BY <1>1, <1>6
        <4>2. SameTick(X + start, a)
          BY <1>4, <1>5, SameTickSym
        <4>. QED
          BY <1>5, <4>1, <4>2, SameTickTrans
      <3>6. SameTick(c + i, a + i)
        BY <3>3, <3>5, SameTickRefl, SameTickSum
      <3>7. SameTick(d, a + i)
        BY <3>3, <3>4, <3>6, SameTickTrans
      <3>. QED
        BY <3>2, <3>3, <3>7
    <2>14. \A j \in 1..(k - 1) : /\ Starts(w, B)[l[j]] = Starts(y, B)[l[j]]
                                 /\ Gaps(w)[l[j]] = Gaps(y)[l[j]]
      <3>. SUFFICES ASSUME NEW j \in 1..(k - 1)
                    PROVE  /\ Starts(w, B)[l[j]] = Starts(y, B)[l[j]]
                           /\ Gaps(w)[l[j]] = Gaps(y)[l[j]]
        OBVIOUS
      <3>1. j \in 1..Len(l) /\ \A h \in k..Len(l) : h \in 1..Len(l) /\ h # j
        BY <1>1
      <3>2. PICK u \in Tasks : u = l[j] /\ u # t
        BY <1>2, <3>1
      <3>3. u \notin From(l, k)
        BY <3>1, <3>2, ListType DEF From
      <3>4. v.tk[u] = y.tk[u]
        BY <2>1, <2>3, <3>2, <3>3 DEF Retimed
      <3>5. Deadlines(v)[u] = Deadlines(y)[u] /\ Gaps(v)[u] = Gaps(y)[u]
        BY <3>4 DEF Deadlines, Gaps
      <3>6. Starts(v, B)[u] = Starts(y, B)[u]
        BY <3>5, StartsOf
      <3>. QED
        BY <2>5, <2>7, <3>2, <3>5, <3>6
    <2>15. /\ SameFrom(l, w.list, k) /\ \A u \in Tasks \ {t} : Heads(w)[u] = Heads(y)[u]
           /\ Starts(w, B)[t] = Starts(y, B)[t]
      BY <2>1, <2>2, <2>3, <2>5, <2>7
    <2>16. /\ SameTick(Starts(w, B)[w.list[k]], Starts(w, B)[t] + Gaps(w)[t])
           /\ Chained(w.list, Starts(w, B), Gaps(w), k) /\ w.list \in Lists
      BY <2>8, <2>11, <2>12, <2>13
    <2>. QED
      BY <2>5, <2>6, <2>14, <2>15, <2>16, InsertPlans
  <1>7. CASE ~(ticks <= start)
    <2>1. PICK i \in Ticks : i = ticks - start
      BY <1>7, ConfAssumption DEF Ticks
    <2>2. PICK w : w = [y EXCEPT !.tk[t].gap = i]
      OBVIOUS
    <2>3. /\ w \in Queue /\ w.list = l /\ Deadlines(w) = Deadlines(y) /\ Heads(w) = Heads(y)
          /\ Gaps(w)[t] = i /\ \A u \in Tasks \ {t} : Gaps(w)[u] = Gaps(y)[u]
      BY <2>2, GapSet
    <2>4. Placed(y, t, k, start, ticks) = InsertBefore(w, t, w.list[k])
      BY <1>7, <2>1, <2>2, <2>3 DEF Placed
    <2>5. \A u \in Tasks : Starts(w, B)[u] = Starts(y, B)[u]
      BY <2>3, StartsOf
    <2>6. \A j \in 1..Len(l) : Gaps(w)[l[j]] = Gaps(y)[l[j]] /\ Starts(w, B)[l[j]] = Starts(y, B)[l[j]]
      BY <1>2, <2>3, <2>5
    <2>7. PICK S, G, W, H : /\ S = Starts(y, B) /\ G = Gaps(y) /\ W = Starts(w, B) /\ H = Gaps(w)
                            /\ S \in Times /\ G \in Times /\ W \in Times /\ H \in Times
      <3>1. Starts(y, B) \in Times /\ Gaps(y) \in Times
        BY TimesType
      <3>2. Starts(w, B) \in Times /\ Gaps(w) \in Times
        BY <2>3, TimesType
      <3>. QED
        BY <3>1, <3>2
    <2>8. PICK m \in Lists : m = l
      OBVIOUS
    <2>9. Chained(m, W, H, k)
      <3>1. Chained(m, S, G, k) /\ k \in 1..(Len(m) + 1)
        BY <1>1, <2>7, <2>8
      <3>2. \A u \in From(m, k) : W[u] = S[u] /\ H[u] = G[u]
        <4>1. \A j \in k..Len(m) : j \in 1..Len(l) /\ m[j] = l[j]
          BY <1>1, <2>8
        <4>. QED
          BY <2>6, <2>7, <4>1 DEF From
      <3>. QED
        BY <2>7, <3>1, <3>2, ChainedSame
    <2>10. SameTick(W[l[k]], W[t] + H[t])
      <3>1. W[l[k]] = c /\ W[t] = a /\ H[t] = i /\ i \in Int
        BY <1>2, <1>4, <2>3, <2>5, <2>7 DEF Ticks
      <3>2. SameTick(a + i, (X + start) + i)
        BY <1>5, <3>1, SameTickRefl, SameTickSum
      <3>3. (X + start) + i = X + ticks
        BY <1>1, <2>1
      <3>4. SameTick(X + ticks, a + i)
        BY <1>5, <3>1, <3>2, <3>3, SameTickSym
      <3>5. SameTick(c, a + i)
        BY <1>5, <3>1, <3>4, SameTickTrans
      <3>. QED
        BY <3>1, <3>5
    <2>11. /\ SameFrom(l, w.list, k) /\ \A u \in Tasks \ {t} : Heads(w)[u] = Heads(y)[u]
           /\ Starts(w, B)[t] = Starts(y, B)[t]
      BY <2>3, <2>5 DEF SameFrom
    <2>12. /\ SameTick(Starts(w, B)[w.list[k]], Starts(w, B)[t] + Gaps(w)[t])
           /\ Chained(w.list, Starts(w, B), Gaps(w), k) /\ w.list \in Lists
      BY <2>3, <2>7, <2>8, <2>9, <2>10
    <2>13. \A j \in 1..(k - 1) : /\ Starts(w, B)[l[j]] = Starts(y, B)[l[j]]
                                 /\ Gaps(w)[l[j]] = Gaps(y)[l[j]]
      <3>1. \A j \in 1..(k - 1) : j \in 1..Len(l)
        BY <1>1
      <3>. QED
        BY <2>6, <3>1
    <2>. QED
      BY <2>3, <2>4, <2>11, <2>12, <2>13, InsertPlans
  <1>. QED
    BY <1>6, <1>7

(* Nothing is moved when the head starts now. *)
LEMMA NoGapHead ==
    ASSUME NEW x \in Queue
    PROVE  apply_gap_head(x, 0).tk = x.tk
  <1> DEFINE moved == {x.list[k] : k \in {k \in 2..Len(x.list) :
                                           \A j \in 2..(k - 1) : x.tk[x.list[j]].gap = 0}}
             tk == [u \in DOMAIN x.tk |->
                       IF u \in moved THEN [x.tk[u] EXCEPT !.deadline = U(@ - 0)] ELSE x.tk[u]]
             z == [x EXCEPT !.tk = tk]
  <1>. HIDE DEF moved
  <1>1. DOMAIN x.tk = Tasks /\ x.tk = [u \in Tasks |-> x.tk[u]]
    BY DEF Queue
  <1>2. ASSUME NEW u \in Tasks PROVE tk[u] = x.tk[u]
    <2>1. x.tk[u] \in TaskType /\ x.tk[u].deadline \in Ticks
      BY QueueType
    <2>2. PICK d \in Ticks : d = x.tk[u].deadline
      BY <2>1
    <2>3. d \in Int /\ d - 0 = d
      BY DEF Ticks
    <2>4. U(x.tk[u].deadline - 0) = d
      BY <2>2, <2>3, WrapsToTicks
    <2>5. [x.tk[u] EXCEPT !.deadline = d] = x.tk[u]
      BY <2>1, <2>2 DEF TaskType
    <2>. QED
      BY <1>1, <2>4, <2>5
  <1>3. tk = x.tk
    BY <1>1, <1>2
  <1>. HIDE DEF tk
  <1>4. z = x
    BY <1>3 DEF Queue
  <1>5. 0 \in Ticks
    BY ConfAssumption DEF Ticks
  <1>6. PICK c \in BOOLEAN : c = (\A t \in moved : x.tk[t].deadline > 0)
    OBVIOUS
  <1>7. apply_gap_head(x, 0) = Check(z, c, "gap past deadline")
    BY <1>6 DEF apply_gap_head, z, tk, moved
  <1>. HIDE DEF z
  <1>8. PICK y : y = Check(x, c, "gap past deadline")
    OBVIOUS
  <1>9. y.tk = x.tk
    BY <1>8, CheckKeeps DEF Asserts
  <1>. QED
    BY <1>4, <1>7, <1>8, <1>9

(* The plan of a queue whose tasks have the deadlines B at the tick X: the *)
(* head starts its gap_head from now, and every other task when the gap of *)
(* the one before it is over.  Only a task on its own waits, for h ticks.  *)
Planned(x, B, X, h) ==
    /\ Chained(x.list, Starts(x, B), Gaps(x), 1)
    /\ x.list # <<>> => SameTick(Starts(x, B)[x.list[1]], X + Heads(x)[x.list[1]])
    /\ \A u \in ToSet(x.list) : Heads(x)[u] = IF Len(x.list) = 1 THEN h ELSE 0

LEMMA RoomPlans ==
    ASSUME NEW x \in Queue, x.list \in Lists, NEW t \in Tasks, t \notin ToSet(x.list),
           NEW k \in 1..Len(x.list), NEW start \in Ticks, NEW ticks \in Ticks, start <= ticks,
           NEW B \in Times, NEW X \in Int,
           Chained(x.list, Starts(x, B), Gaps(x), 1),
           SameTick(Starts(x, B)[t], X + start),
           SameTick(Starts(x, B)[x.list[k]], X + ticks)
    PROVE  LET y == Room(x, k, start, ticks)
           IN  Plans(y, Placed(y, t, k, start, ticks), t, k, B)
  <1>1. PICK y : y = Room(x, k, start, ticks)
    OBVIOUS
  <1>2. /\ y \in Queue /\ y.list = x.list
        /\ \A u \in Tasks : Starts(y, B)[u] = Starts(x, B)[u]
        /\ \A u \in Tasks : k = 1 \/ u # x.list[k - 1] => Gaps(y)[u] = Gaps(x)[u]
        /\ k > 1 => SameTick(Gaps(y)[x.list[k - 1]], Gaps(x)[x.list[k - 1]] - (ticks - start))
    BY <1>1, RoomTimes
  <1>3. PICK l \in Lists : l = x.list
    OBVIOUS
  <1>4. /\ k \in Nat /\ Len(l) \in Nat /\ k >= 1 /\ k <= Len(l) /\ start \in Int /\ ticks \in Int
        /\ \A j \in 1..Len(l) : l[j] \in Tasks
    BY <1>3, ListType DEF Ticks
  <1>5. PICK S, G, W, H : /\ S = Starts(x, B) /\ G = Gaps(x) /\ W = Starts(y, B) /\ H = Gaps(y)
                          /\ S \in Times /\ G \in Times /\ W \in Times /\ H \in Times
    <2>1. Starts(x, B) \in Times /\ Gaps(x) \in Times
      BY TimesType
    <2>2. Starts(y, B) \in Times /\ Gaps(y) \in Times
      BY <1>2, TimesType
    <2>. QED
      BY <2>1, <2>2
  <1>6. \A u \in Tasks : W[u] = S[u]
    BY <1>2, <1>5
  <1>7. \A j \in 1..Len(l) : k = 1 \/ j # k - 1 => H[l[j]] = G[l[j]]
    <2>1. k # 1 => k - 1 \in 1..Len(l)
      BY <1>4
    <2>2. \A j \in 1..Len(l) : k = 1 \/ j # k - 1 => k = 1 \/ l[j] # l[k - 1]
      BY <2>1, ListType
    <2>. QED
      BY <1>2, <1>3, <1>4, <1>5, <2>2
  <1>8. \A j \in 1..(Len(l) - 1) : SameTick(S[l[j + 1]], S[l[j]] + G[l[j]])
    BY <1>3, <1>5 DEF Chained
  <1>9. Chained(l, W, H, k)
    <2>1. Chained(l, S, G, k)
      <3>1. \A j \in k..(Len(l) - 1) : j \in 1..(Len(l) - 1)
        BY <1>4
      <3>. QED
        BY <1>8, <3>1 DEF Chained
    <2>2. \A u \in From(l, k) : W[u] = S[u] /\ H[u] = G[u]
      <3>1. \A j \in k..Len(l) : j \in 1..Len(l) /\ j # k - 1
        BY <1>4
      <3>. QED
        BY <1>4, <1>6, <1>7, <3>1 DEF From
    <2>3. k \in 1..(Len(l) + 1)
      BY <1>4
    <2>. QED
      BY <1>5, <2>1, <2>2, <2>3, ChainedSame
  <1>10. \A j \in 1..(k - 2) : SameTick(W[l[j + 1]], W[l[j]] + H[l[j]])
    <2>1. \A j \in 1..(k - 2) : j \in 1..Len(l) /\ j + 1 \in 1..Len(l) /\ j # k - 1 /\ j \in 1..(Len(l) - 1)
      BY <1>4
    <2>. QED
      BY <1>4, <1>6, <1>7, <1>8, <2>1
  <1>11. k > 1 => SameTick(W[t], W[l[k - 1]] + H[l[k - 1]])
    <2>. SUFFICES ASSUME k > 1 PROVE SameTick(W[t], W[l[k - 1]] + H[l[k - 1]])
      OBVIOUS
    <2>1. k - 1 \in 1..(Len(l) - 1) /\ k - 1 \in 1..Len(l) /\ (k - 1) + 1 = k /\ k \in 1..Len(l)
      BY <1>4
    <2>2. PICK p \in Tasks, b \in Int, g \in Int, c \in Int, a \in Int, e \in Int :
              p = l[k - 1] /\ b = S[p] /\ g = G[p] /\ c = S[l[k]] /\ a = S[t] /\ e = H[p]
      BY <1>4, <1>5, <2>1 DEF Times
    <2>3. SameTick(c, b + g)
      <3>1. PICK m \in 1..(Len(l) - 1) : m = k - 1 /\ m + 1 = k
        BY <2>1
      <3>2. SameTick(S[l[m + 1]], S[l[m]] + G[l[m]])
        BY <1>8
      <3>3. S[l[m + 1]] = c /\ S[l[m]] = b /\ G[l[m]] = g
        BY <2>2, <3>1
      <3>. QED
        BY <3>2, <3>3
    <2>4. PICK o \in Int, f \in Int, h \in Int : o = ticks - start /\ f = X + start /\ h = X + ticks
      <3>1. ticks - start \in Int /\ X + start \in Int /\ X + ticks \in Int
        BY <1>4
      <3>. QED
        BY <3>1, Zenon
    <2>5. SameTick(e, g - o) /\ SameTick(a, f) /\ SameTick(c, h)
      <3>1. SameTick(H[p], G[p] - (ticks - start))
        BY <1>2, <1>3, <1>5, <2>2
      <3>2. SameTick(S[t], X + start) /\ SameTick(S[l[k]], X + ticks)
        BY <1>3, <1>5
      <3>3. H[p] = e /\ G[p] = g /\ S[t] = a /\ S[l[k]] = c
        BY <2>2
      <3>4. ticks - start = o /\ X + start = f /\ X + ticks = h
        BY <2>4
      <3>5. SameTick(e, g - o)
        BY <3>1, <3>3, <3>4
      <3>6. SameTick(a, f) /\ SameTick(c, h)
        BY <3>2, <3>3, <3>4
      <3>. QED
        BY <3>5, <3>6
    <2>6. SameTick(b + e, b + (g - o))
      <3>1. PICK m \in Int : m = g - o
        BY <2>4
      <3>2. SameTick(e, m) /\ SameTick(b, b)
        BY <2>5, <3>1, SameTickRefl
      <3>3. SameTick(b + e, b + m)
        BY <3>2, SameTickSum
      <3>. QED
        BY <3>1, <3>3
    <2>7. SameTick(c - o, (b + g) - o)
      BY <2>3, SameTickRefl, SameTickSum
    <2>8. SameTick(c - o, h - o)
      BY <2>5, SameTickRefl, SameTickSum
    <2>9. b + (g - o) = (b + g) - o /\ h - o = f
      BY <1>4, <2>4
    <2>10. PICK u \in Int, v \in Int, w \in Int, z \in Int :
               u = b + e /\ v = (b + g) - o /\ w = c - o /\ z = f
      OBVIOUS
    <2>11. SameTick(u, v) /\ SameTick(w, v) /\ SameTick(w, z) /\ SameTick(a, z)
      BY <2>5, <2>6, <2>7, <2>8, <2>9, <2>10
    <2>12. SameTick(v, w) /\ SameTick(z, a)
      BY <2>11, SameTickSym
    <2>13. SameTick(u, w)
      BY <2>11, <2>12, SameTickTrans
    <2>14. SameTick(u, z)
      BY <2>11, <2>13, SameTickTrans
    <2>15. SameTick(z, u)
      BY <2>14, SameTickSym
    <2>16. SameTick(a, u)
      BY <2>11, <2>15, SameTickTrans
    <2>. QED
      BY <1>6, <2>2, <2>10, <2>16
  <1>12. SameTick(W[t], X + start) /\ SameTick(W[l[k]], X + ticks)
    BY <1>3, <1>4, <1>5, <1>6
  <1>13. t \notin ToSet(y.list) /\ k \in 1..Len(y.list) /\ y.list \in Lists /\ y.list = l
    BY <1>2, <1>3
  <1>14. Plans(y, Placed(y, t, k, start, ticks), t, k, B)
    BY <1>2, <1>5, <1>9, <1>10, <1>11, <1>12, <1>13, PlacedPlans
  <1>. QED
    BY <1>1, <1>14

LEMMA PutBeforePlans ==
    ASSUME NEW x \in Queue, x.list \in Lists, NEW t \in Tasks, t \notin ToSet(x.list),
           NEW k \in 1..Len(x.list), NEW start \in Ticks, NEW ticks \in Ticks, start <= ticks,
           NEW B \in Times, NEW X \in Int, NEW h,
           Chained(x.list, Starts(x, B), Gaps(x), 1),
           \A u \in ToSet(x.list) : Heads(x)[u] = 0,
           SameTick(Starts(x, B)[t], X + start),
           SameTick(Starts(x, B)[x.list[k]], X + ticks),
           k = 1 => start = 0,
           k > 1 => SameTick(Starts(x, B)[x.list[1]], X),
           PutBefore(x, t, k, start, ticks).bad = "none"
    PROVE  Planned(PutBefore(x, t, k, start, ticks), B, X, h)
  <1>1. PICK y1 : y1 = Room(x, k, start, ticks)
    OBVIOUS
  <1>2. /\ y1 \in Queue /\ y1.list = x.list /\ Heads(y1) = Heads(x)
        /\ \A u \in Tasks : Starts(y1, B)[u] = Starts(x, B)[u]
    BY <1>1, RoomTimes
  <1>3. PICK p : p = Placed(y1, t, k, start, ticks)
    OBVIOUS
  <1>4. Plans(y1, p, t, k, B)
    BY <1>1, <1>3, RoomPlans
  <1>5. PICK y2 : y2 = IF y1.bad # "none" THEN y1 ELSE p
    OBVIOUS
  <1>6. PutBefore(x, t, k, start, ticks) =
            IF y2.list[1] = t
            THEN apply_gap_head([y2 EXCEPT !.tk[t].gap_head = start], start)
            ELSE [y2 EXCEPT !.tk[t].gap_head = 0]
    <2> DEFINE left == U(x.tk[x.list[k - 1]].gap - (ticks - start))
               Y == IF k = 1 THEN x
                    ELSE Check([x EXCEPT !.tk[x.list[k - 1]].gap = left], left > 0, "no gap left")
               r == delay_tasks(Y, t, x.list[k])
               Z == IF Y.bad # "none" THEN Y
                    ELSE IF ticks <= start
                    THEN InsertBefore([r.q EXCEPT !.tk[t].gap = r.i], t, r.target)
                    ELSE InsertBefore([Y EXCEPT !.tk[t].gap = ticks - start], t, x.list[k])
    <2>1. PutBefore(x, t, k, start, ticks) =
              IF Z.list[1] = t
              THEN apply_gap_head([Z EXCEPT !.tk[t].gap_head = start], start)
              ELSE [Z EXCEPT !.tk[t].gap_head = 0]
      BY DEF PutBefore
    <2>2. Y = y1
      BY <1>1 DEF Room
    <2>. HIDE DEF Y
    <2>3. Z = y2
      BY <1>2, <1>3, <1>5, <2>2 DEF Placed
    <2>. HIDE DEF Z
    <2>. QED
      BY <2>1, <2>3
  <1>7. PICK z0, z1 : z0 = [y2 EXCEPT !.tk[t].gap_head = 0] /\ z1 = [y2 EXCEPT !.tk[t].gap_head = start]
    OBVIOUS
  <1>8. y2 \in Queue /\ 0 \in Ticks
    BY <1>2, <1>4, <1>5, ConfAssumption DEF Plans, Ticks
  <1>9. /\ z0 \in Queue /\ z0.list = y2.list /\ z0.bad = y2.bad
        /\ Deadlines(z0) = Deadlines(y2) /\ Gaps(z0) = Gaps(y2)
        /\ Heads(z0)[t] = 0 /\ \A u \in Tasks \ {t} : Heads(z0)[u] = Heads(y2)[u]
    BY <1>7, <1>8, HeadSet
  <1>10. z1 \in Queue /\ z1.list = y2.list /\ z1.bad = y2.bad
    BY <1>7, <1>8, HeadSet
  <1>11. PICK y : y = apply_gap_head(z1, start)
    OBVIOUS
  <1>12. y \in Queue /\ y.list = z1.list /\ (y.bad = "none" => z1.bad = "none")
    BY <1>10, <1>11, apply_gap_headKeeps
  <1>13. PICK f : f = PutBefore(x, t, k, start, ticks) /\ f = IF y2.list[1] = t THEN y ELSE z0
    BY <1>6, <1>7, <1>11
  <1>14. y2 = p
    BY <1>5, <1>9, <1>10, <1>12, <1>13
  <1>15. /\ k \in Nat /\ Len(x.list) \in Nat /\ k >= 1 /\ k <= Len(x.list) /\ start \in Int
         /\ \A j \in 1..Len(x.list) : x.list[j] \in Tasks /\ x.list[j] # t /\ x.list[j] \in ToSet(x.list)
    BY ListType DEF Ticks, ToSet
  <1>16. f \in Queue /\ f.list = p.list /\ f.tk = z0.tk
    <2>1. CASE k = 1
      <3>1. y2.list[1] = t /\ start = 0
        BY <1>4, <1>14, <2>1 DEF Plans
      <3>2. z1 = z0
        BY <1>7, <3>1
      <3>3. y.tk = z1.tk
        BY <1>10, <1>11, <3>1, NoGapHead
      <3>. QED
        BY <1>10, <1>12, <1>13, <1>14, <3>1, <3>2, <3>3
    <2>2. CASE k # 1
      <3>1. 1 \in 1..(k - 1) /\ 1 \in 1..Len(x.list)
        BY <1>15, <2>2
      <3>2. y2.list[1] # t
        BY <1>2, <1>4, <1>14, <1>15, <3>1 DEF Plans
      <3>. QED
        BY <1>9, <1>13, <1>14, <3>2
    <2>. QED
      BY <2>1, <2>2
  <1>17. Deadlines(f) = Deadlines(p) /\ Gaps(f) = Gaps(p) /\ Heads(f) = Heads(z0)
    BY <1>9, <1>14, <1>16 DEF Deadlines, Gaps, Heads
  <1>18. /\ p \in Queue /\ p.list \in Lists /\ ToSet(p.list) = ToSet(x.list) \cup {t}
         /\ Len(p.list) = Len(x.list) + 1
         /\ p.list[k] = t /\ \A j \in 1..(k - 1) : p.list[j] = x.list[j]
         /\ Chained(p.list, Starts(p, B), Gaps(p), 1)
         /\ \A u \in Tasks \ {t} : Heads(p)[u] = Heads(x)[u]
         /\ Starts(p, B)[t] = Starts(x, B)[t]
         /\ \A j \in 1..(k - 1) : Starts(p, B)[x.list[j]] = Starts(y1, B)[x.list[j]]
    BY <1>2, <1>4 DEF Plans
  <1>19. Starts(f, B) = Starts(p, B)
    <2>1. Starts(f, B) \in Times /\ Starts(p, B) \in Times
      BY <1>16, <1>18, TimesType
    <2>2. \A u \in Tasks : Starts(f, B)[u] = Starts(p, B)[u]
      BY <1>16, <1>17, <1>18, StartsOf
    <2>. QED
      BY <2>1, <2>2 DEF Times
  <1>20. \A u \in ToSet(f.list) : Heads(f)[u] = 0
    <2>1. ASSUME NEW u \in ToSet(x.list), u # t PROVE Heads(f)[u] = 0
      <3>1. u \in Tasks
        BY <1>15, ListType DEF ToSet
      <3>. QED
        BY <1>9, <1>14, <1>17, <1>18, <2>1, <3>1
    <2>. QED
      BY <1>9, <1>16, <1>17, <1>18, <2>1
  <1>21. SameTick(Starts(f, B)[f.list[1]], X + Heads(f)[f.list[1]])
    <2>1. CASE k = 1
      <3>1. f.list[1] = t /\ X + start = X /\ Heads(f)[t] = 0 /\ X + 0 = X
        BY <1>9, <1>16, <1>17, <1>18, <2>1
      <3>. QED
        BY <1>18, <1>19, <3>1
    <2>2. CASE k # 1
      <3>1. 1 \in 1..(k - 1) /\ 1 \in 1..Len(x.list) /\ k > 1
        BY <1>15, <2>2
      <3>2. PICK u \in Tasks : u = x.list[1] /\ u \in ToSet(x.list)
        BY <1>15, <3>1
      <3>6. p.list[1] = x.list[1]
        BY <1>18, <3>1
      <3>7. ToSet(f.list) = ToSet(x.list) \cup {t} /\ f.list[1] = p.list[1]
        BY <1>16, <1>18
      <3>3. u = f.list[1] /\ u \in ToSet(f.list)
        BY <3>2, <3>6, <3>7
      <3>4. Starts(p, B)[u] = Starts(y1, B)[u]
        BY <1>18, <3>1, <3>2
      <3>5. Starts(f, B)[u] = Starts(x, B)[u] /\ Heads(f)[u] = 0 /\ X + 0 = X
        BY <1>2, <1>19, <1>20, <3>3, <3>4
      <3>. QED
        BY <3>1, <3>2, <3>3, <3>5
    <2>. QED
      BY <2>1, <2>2
  <1>22. Len(f.list) # 1
    BY <1>15, <1>16, <1>18
  <1>. QED
    BY <1>13, <1>16, <1>17, <1>18, <1>19, <1>20, <1>21, <1>22 DEF Planned

(* t is put behind the list, when its last is to end. *)
LEMMA AppendedMeets ==
    ASSUME NEW l \in Lists, l # <<>>, NEW t \in Tasks, NEW S \in Times, NEW G \in Times, NEW H \in Times,
           Chained(l, S, G, 1), \A j \in 1..(Len(l) - 1) : H[l[j]] = G[l[j]],
           SameTick(S[t], S[l[Len(l)]] + H[l[Len(l)]])
    PROVE  Chained(Append(l, t), S, H, 1)
  <1>1. PICK m : m = Append(l, t)
    OBVIOUS
  <1>2. /\ Len(l) \in Nat /\ Len(l) >= 1 /\ Len(m) = Len(l) + 1
        /\ \A j \in 1..Len(l) : m[j] = l[j]
        /\ m[Len(l) + 1] = t
    BY <1>1, ListType
  <1>3. ASSUME NEW j \in 1..(Len(m) - 1) PROVE SameTick(S[m[j + 1]], S[m[j]] + H[m[j]])
    <2>1. CASE j = Len(l)
      <3>1. m[j] = l[Len(l)] /\ m[j + 1] = t
        BY <1>2, <2>1
      <3>. QED
        BY <3>1
    <2>2. CASE j # Len(l)
      <3>1. j \in 1..(Len(l) - 1) /\ j \in 1..Len(l) /\ j + 1 \in 1..Len(l)
        BY <1>2, <2>2
      <3>2. m[j] = l[j] /\ m[j + 1] = l[j + 1] /\ H[l[j]] = G[l[j]]
        BY <1>2, <3>1
      <3>3. SameTick(S[l[j + 1]], S[l[j]] + G[l[j]])
        BY <3>1 DEF Chained
      <3>. QED
        BY <3>2, <3>3
    <2>. QED
      BY <2>1, <2>2
  <1>. QED
    BY <1>1, <1>3 DEF Chained

LEMMA PutLastPlans ==
    ASSUME NEW x \in Queue, x.list \in Lists, NEW t \in Tasks, t \notin ToSet(x.list),
           NEW start \in Ticks, NEW ticks \in Ticks, NEW B \in Times, NEW X \in Int, NEW h,
           Chained(x.list, Starts(x, B), Gaps(x), 1),
           \A u \in ToSet(x.list) : Heads(x)[u] = 0,
           SameTick(Starts(x, B)[t], X + start),
           x.list = <<>> => h = start,
           x.list # <<>> =>
               /\ SameTick(Starts(x, B)[x.list[1]], X)
               /\ SameTick(X + ticks, Starts(x, B)[x.list[Len(x.list)]] + Gaps(x)[x.list[Len(x.list)]])
    PROVE  Planned(PutLast(x, t, start, ticks), B, X, h)
  <1>1. PICK l \in Lists : l = x.list
    OBVIOUS
  <1>2. PICK d \in Ticks : d = x.tk[t].det_remain
    BY QueueType
  <1>3. PICK m : m = Append(l, t)
    OBVIOUS
  <1>4. /\ Len(l) \in Nat /\ m \in Lists /\ ToSet(m) = ToSet(l) \cup {t} /\ m \in Seq(Tasks)
        /\ Len(m) = Len(l) + 1 /\ m[Len(l) + 1] = t /\ \A j \in 1..Len(l) : m[j] = l[j]
    <2>1. m \in Lists /\ ToSet(m) = ToSet(l) \cup {t}
      BY <1>1, <1>3, AppendKeeps
    <2>. QED
      BY <1>3, <2>1, ListType
  <1>5. CASE l = <<>>
    <2>1. PICK a : a = [x EXCEPT !.tk[t].gap_head = start]
      OBVIOUS
    <2>2. PICK b : b = [a EXCEPT !.tk[t].gap = d]
      OBVIOUS
    <2>3. PICK z : z = [b EXCEPT !.list = m]
      OBVIOUS
    <2>4. PutLast(x, t, start, ticks) = z
      BY <1>1, <1>2, <1>3, <1>5, <2>1, <2>2, <2>3 DEF PutLast, Queue
    <2>5. a \in Queue /\ Deadlines(a) = Deadlines(x) /\ Heads(a)[t] = start
      BY <2>1, HeadSet
    <2>6. b \in Queue /\ Deadlines(b) = Deadlines(a) /\ Heads(b) = Heads(a)
      BY <2>2, <2>5, GapSet
    <2>7. z \in Queue /\ z.list = m /\ z.tk = b.tk
      BY <1>4, <2>3, <2>6 DEF Queue
    <2>8. Deadlines(z) = Deadlines(x) /\ Heads(z)[t] = start
      BY <2>5, <2>6, <2>7 DEF Deadlines, Heads
    <2>9. Starts(z, B)[t] = Starts(x, B)[t]
      BY <2>7, <2>8, StartsOf
    <2>10. Len(m) = 1 /\ m[1] = t /\ ToSet(m) = {t}
      BY <1>4, <1>5 DEF ToSet
    <2>11. Chained(m, Starts(z, B), Gaps(z), 1)
      BY <2>10 DEF Chained
    <2>. QED
      BY <1>1, <1>5, <2>4, <2>7, <2>8, <2>9, <2>10, <2>11 DEF Planned
  <1>6. CASE l # <<>>
    <2>1. PICK p \in Tasks : p = l[Len(l)] /\ p \in ToSet(l) /\ p # t
      <3>1. Len(l) \in 1..Len(l)
        BY <1>6, ListType
      <3>. QED
        BY <1>1, <3>1, ListType DEF ToSet
    <2>2. PICK g \in Ticks : g = x.tk[p].gap /\ g = Gaps(x)[p]
      BY QueueType DEF Gaps
    <2>3. PICK o \in Int : o = ticks - start
      BY DEF Ticks
    <2>4. PICK n \in Ticks : n = U(g - o) /\ SameTick(n, g - o) /\ g \in Int /\ g - o \in Int
      <3>1. g \in Int /\ g - o \in Int
        BY <2>3 DEF Ticks
      <3>. QED
        BY <3>1, WrapsToTicks, WrapIsSameTick
    <2>5. PICK a : a = [x EXCEPT !.tk[t].gap_head = 0]
      OBVIOUS
    <2>6. PICK b : b = [a EXCEPT !.tk[p].gap = n]
      OBVIOUS
    <2>7. PICK c : c = [b EXCEPT !.tk[t].gap = d]
      OBVIOUS
    <2>8. PICK z : z = [c EXCEPT !.list = m]
      OBVIOUS
    <2>9. PutLast(x, t, start, ticks) = z
      <3>1. b = [x EXCEPT !.tk[t].gap_head = 0, !.tk[p].gap = U(@ - (ticks - start))]
        BY <2>1, <2>2, <2>3, <2>4, <2>5, <2>6 DEF Queue
      <3>2. Last(x.list) = p
        BY <1>1, <2>1 DEF Last
      <3>3. x.list # <<>> /\ b.list = l
        BY <1>1, <1>6, <2>5, <2>6 DEF Queue
      <3>4. PutLast(x, t, start, ticks) = [b EXCEPT !.tk[t].gap = d, !.list = Append(@, t)]
        BY <1>2, <3>1, <3>2, <3>3 DEF PutLast
      <3>. QED
        BY <1>3, <2>7, <2>8, <3>3, <3>4
    <2>10. /\ a \in Queue /\ a.list = l /\ Deadlines(a) = Deadlines(x) /\ Gaps(a) = Gaps(x)
           /\ Heads(a)[t] = 0 /\ \A u \in Tasks \ {t} : Heads(a)[u] = Heads(x)[u]
      <3>1. 0 \in Ticks
        BY ConfAssumption DEF Ticks
      <3>. QED
        BY <1>1, <2>5, <3>1, HeadSet
    <2>11. /\ b \in Queue /\ b.list = l /\ Deadlines(b) = Deadlines(a) /\ Heads(b) = Heads(a)
           /\ Gaps(b)[p] = n /\ \A u \in Tasks \ {p} : Gaps(b)[u] = Gaps(a)[u]
      BY <2>6, <2>10, GapSet
    <2>12. /\ c \in Queue /\ c.list = l /\ Deadlines(c) = Deadlines(b) /\ Heads(c) = Heads(b)
           /\ \A u \in Tasks \ {t} : Gaps(c)[u] = Gaps(b)[u]
      BY <2>7, <2>11, GapSet
    <2>13. z \in Queue /\ z.list = m /\ z.tk = c.tk
      BY <1>4, <2>8, <2>12 DEF Queue
    <2>14. Deadlines(z) = Deadlines(x) /\ Gaps(z) = Gaps(c) /\ Heads(z) = Heads(c)
      BY <2>10, <2>11, <2>12, <2>13 DEF Deadlines, Gaps, Heads
    <2>15. PICK S, G, H : /\ S = Starts(x, B) /\ G = Gaps(x) /\ H = Gaps(z)
                          /\ S \in Times /\ G \in Times /\ H \in Times
      BY <2>13, TimesType
    <2>16. Starts(z, B) = S
      <3>1. Starts(z, B) \in Times /\ \A u \in Tasks : Starts(z, B)[u] = S[u]
        BY <2>13, <2>14, <2>15, TimesType, StartsOf
      <3>. QED
        BY <2>15, <3>1 DEF Times
    <2>17. H[p] = n /\ \A j \in 1..(Len(l) - 1) : H[l[j]] = G[l[j]]
      <3>1. H[p] = n
        BY <2>1, <2>11, <2>12, <2>14, <2>15
      <3>2. ASSUME NEW j \in 1..(Len(l) - 1) PROVE H[l[j]] = G[l[j]]
        <4>1. j \in 1..Len(l) /\ Len(l) \in 1..Len(l) /\ j # Len(l)
          BY <1>4
        <4>2. l[j] # p /\ l[j] \in Tasks /\ l[j] \in ToSet(l)
          BY <2>1, <4>1, ListType DEF ToSet
        <4>3. l[j] # t
          BY <1>1, <4>2
        <4>. QED
          BY <2>10, <2>11, <2>12, <2>14, <2>15, <4>2, <4>3
      <3>. QED
        BY <3>1, <3>2
    <2>18. SameTick(S[t], S[p] + H[p])
      <3>1. PICK e \in Int, s \in Int, k \in Int, f \in Int :
                e = S[t] /\ s = S[p] /\ k = X + start /\ f = X + ticks
        <4>1. X + start \in Int /\ X + ticks \in Int
          BY DEF Ticks
        <4>2. S[t] \in Int /\ S[p] \in Int
          BY <2>15 DEF Times
        <4>. QED
          BY <4>1, <4>2, Zenon
      <3>2. SameTick(e, k) /\ SameTick(f, s + g) /\ SameTick(n, g - o)
        <4>1. SameTick(S[t], X + start) /\ SameTick(X + ticks, S[p] + G[p]) /\ G[p] = g
          BY <1>1, <1>6, <2>1, <2>2, <2>15
        <4>2. SameTick(e, k)
          BY <3>1, <4>1
        <4>3. SameTick(f, s + g)
          BY <3>1, <4>1
        <4>. QED
          BY <2>4, <4>2, <4>3
      <3>3. k = f - o /\ n \in Int
        BY <2>3, <3>1 DEF Ticks
      <3>4. PICK w \in Int, y \in Int, i \in Int : w = s + g /\ y = g - o /\ i = s + n
        <4>1. s + g \in Int /\ g - o \in Int /\ s + n \in Int
          BY <2>4, <3>3
        <4>. QED
          BY <4>1, Zenon
      <3>5. SameTick(f - o, w - o) /\ SameTick(i, s + y)
        <4>1. SameTick(f, w) /\ SameTick(o, o) /\ SameTick(s, s) /\ SameTick(n, y)
          BY <3>2, <3>4, SameTickRefl
        <4>2. SameTick(f - o, w - o)
          BY <4>1, SameTickSum
        <4>3. SameTick(s + n, s + y)
          BY <3>3, <4>1, SameTickSum
        <4>. QED
          BY <3>4, <4>2, <4>3
      <3>6. PICK v \in Int : v = w - o /\ v = s + y
        BY <2>4, <3>4
      <3>7. SameTick(e, k) /\ SameTick(k, v) /\ SameTick(i, v)
        BY <3>2, <3>3, <3>5, <3>6
      <3>8. SameTick(e, v) /\ SameTick(v, i)
        BY <3>7, SameTickTrans, SameTickSym
      <3>9. SameTick(e, i)
        BY <3>8, SameTickTrans
      <3>. QED
        BY <2>17, <3>1, <3>4, <3>9
    <2>19. Chained(m, S, H, 1)
      <3>1. Chained(l, S, G, 1) /\ SameTick(S[t], S[l[Len(l)]] + H[l[Len(l)]])
        BY <1>1, <2>1, <2>15, <2>18
      <3>. QED
        BY <1>3, <1>6, <2>15, <2>17, <3>1, AppendedMeets
    <2>20. Len(m) # 1 /\ m[1] = l[1] /\ l[1] \in ToSet(m)
      <3>1. 1 \in 1..Len(l) /\ Len(l) + 1 # 1
        BY <1>4, <1>6
      <3>2. l[1] \in ToSet(l)
        BY <3>1, ListType DEF ToSet
      <3>. QED
        BY <1>4, <3>1, <3>2
    <2>21. \A u \in ToSet(m) : Heads(z)[u] = 0
      <3>1. ASSUME NEW u \in ToSet(l) PROVE Heads(z)[u] = 0 /\ u \in Tasks
        <4>1. u \in Tasks /\ u # t
          BY <1>1, ListType DEF ToSet
        <4>. QED
          BY <1>1, <2>10, <2>11, <2>12, <2>14, <4>1
      <3>2. Heads(z)[t] = 0
        BY <2>10, <2>11, <2>12, <2>14
      <3>. QED
        BY <1>4, <3>1, <3>2
    <2>22. SameTick(S[m[1]], X + Heads(z)[m[1]])
      <3>1. Heads(z)[m[1]] = 0 /\ X + 0 = X
        BY <2>20, <2>21
      <3>2. SameTick(S[l[1]], X)
        BY <1>1, <1>6, <2>15
      <3>. QED
        BY <2>20, <3>1, <3>2
    <2>. QED
      BY <2>9, <2>13, <2>15, <2>16, <2>19, <2>20, <2>21, <2>22 DEF Planned
  <1>. QED
    BY <1>5, <1>6

(* The loop of requeue_task has passed the tasks before the k-th: t could  *)
(* start `start' ticks from X, the k-th of x is to start `ticks' from X.   *)
Passing(x, t, B, X, h, s) ==
    /\ s.t = t /\ s.q.list = x.list /\ Heads(s.q) = Heads(x) /\ Gaps(s.q) = Gaps(x)
    /\ \A u \in Tasks \ {t} : Deadlines(s.q)[u] = Deadlines(x)[u]
    /\ SameTick(Starts(s.q, B)[t], X + s.start)
    /\ s.k <= Len(x.list) + 1
    /\ s.k = 1 => /\ s.start = h
                  /\ x.list # <<>> => /\ s.start = 0 \/ s.ticks = 0
                                      /\ SameTick(Starts(x, B)[x.list[1]], X + s.ticks)
    /\ s.k > 1 => /\ SameTick(Starts(x, B)[x.list[1]], X)
                  /\ SameTick(X + s.ticks, Starts(x, B)[x.list[s.k - 1]] + Gaps(x)[x.list[s.k - 1]])

(* A queue that t is off, with a plan of its own. *)
Waits(x, t, B) ==
    /\ x.list \in Lists /\ t \notin ToSet(x.list)
    /\ Chained(x.list, Starts(x, B), Gaps(x), 1)
    /\ \A u \in ToSet(x.list) : Heads(x)[u] = 0

LEMMA PassingReaches ==
    ASSUME NEW x \in Queue, NEW t \in Tasks, NEW B \in Times, NEW X \in Int, NEW h,
           Waits(x, t, B), NEW s \in RequeueStates, Passing(x, t, B, X, h, s), s.k <= Len(x.list)
    PROVE  SameTick(Starts(x, B)[x.list[s.k]], X + s.ticks)
  <1>1. PICK k \in Nat \ {0}, n \in Ticks, l \in Lists : k = s.k /\ n = s.ticks /\ l = x.list
    BY DEF RequeueStates, Waits
  <1>2. PICK S, G : S = Starts(x, B) /\ G = Gaps(x) /\ S \in Times /\ G \in Times
    BY TimesType
  <1>3. PICK r, y : r = S[l[k]] /\ y = X + n
    OBVIOUS
  <1>4. Starts(x, B)[x.list[s.k]] = r /\ X + s.ticks = y
    BY <1>1, <1>2, <1>3
  <1>5. CASE k = 1
    <2>1. l # <<>> /\ s.k = 1
      BY <1>1, <1>5
    <2>2. SameTick(Starts(x, B)[x.list[1]], X + s.ticks)
      BY <1>1, <2>1 DEF Passing
    <2>3. Starts(x, B)[x.list[1]] = r /\ X + s.ticks = y
      BY <1>4, <2>1
    <2>. QED
      BY <1>4, <2>2, <2>3, Zenon
  <1>6. CASE k # 1
    <2>1. PICK j \in 1..(Len(l) - 1) : j = k - 1 /\ j + 1 = k /\ j \in 1..Len(l) /\ k \in 1..Len(l) /\ k > 1
      <3>1. k <= Len(l) /\ Len(l) \in Nat /\ k > 1
        BY <1>1, <1>6, ListType
      <3>2. /\ k - 1 \in 1..(Len(l) - 1) /\ (k - 1) + 1 = k /\ k - 1 \in 1..Len(l)
            /\ k \in 1..Len(l) /\ k > 1
        BY <3>1
      <3>. QED
        BY <3>2
    <2>2. SameTick(S[l[j + 1]], S[l[j]] + G[l[j]])
      BY <1>1, <1>2, <2>1 DEF Waits, Chained
    <2>3. SameTick(X + n, S[l[j]] + G[l[j]])
      BY <1>1, <1>2, <2>1 DEF Passing
    <2>4. PICK a \in Int, b \in Int, c \in Int : a = X + n /\ b = S[l[j]] + G[l[j]] /\ c = S[l[j + 1]]
      <3>1. l[j] \in Tasks /\ l[j + 1] \in Tasks
        BY <2>1, ListType
      <3>2. S[l[j]] \in Int /\ G[l[j]] \in Int /\ S[l[j + 1]] \in Int /\ n \in Int
        BY <1>2, <3>1 DEF Times, Ticks
      <3>3. X + n \in Int /\ S[l[j]] + G[l[j]] \in Int
        BY <3>2
      <3>. QED
        BY <3>2, <3>3, Zenon
    <2>5. SameTick(c, b) /\ SameTick(a, b)
      BY <2>2, <2>3, <2>4
    <2>6. SameTick(b, a)
      BY <2>5, SameTickSym
    <2>7. SameTick(c, a)
      BY <2>5, <2>6, SameTickTrans
    <2>8. c = r /\ a = y
      BY <1>3, <2>1, <2>4
    <2>. QED
      BY <1>4, <2>7, <2>8, Zenon
  <1>. QED
    BY <1>5, <1>6

(* One task passed. *)
LEMMA NextPlaceTimes ==
    ASSUME NEW s \in RequeueGo
    PROVE  LET v   == NextPlace(s)
               til == s.q.list[s.k]
           IN  /\ Heads(v.q) = Heads(s.q) /\ Gaps(v.q) = Gaps(s.q)
               /\ \A u \in Tasks \ {s.t} : Deadlines(v.q)[u] = Deadlines(s.q)[u]
               /\ \E n \in Int : /\ SameTick(v.start, s.start + n)
                                 /\ SameTick(Deadlines(v.q)[s.t], Deadlines(s.q)[s.t] - n)
               /\ SameTick(v.ticks, s.ticks + Heads(s.q)[til] + Gaps(s.q)[til])
  <1>1. PICK x \in Queue, t \in Tasks, k \in Nat \ {0}, start \in Ticks, ticks \in Ticks :
            /\ x = s.q /\ t = s.t /\ k = s.k /\ start = s.start /\ ticks = s.ticks
            /\ ~(k > Len(x.list))
    BY DEF RequeueGo, RequeueStates
  <1>2. PICK til \in Tasks : til = x.list[k]
    <2>1. k \in 1..Len(x.list) /\ x.list \in Seq(Tasks)
      BY <1>1, QueueType
    <2>. QED
      BY <2>1
  <1>3. PICK n \in Ticks : n = NewStart(x.tk, t, til)
    BY NewStartType
  <1>4. PICK e \in Ticks, d \in Ticks : e = x.tk[t].deadline /\ d = U(e - n) /\ SameTick(d, e - n)
    <2>1. PICK e \in Ticks : e = x.tk[t].deadline
      BY QueueType
    <2>2. e - n \in Int
      BY DEF Ticks
    <2>3. U(e - n) \in Ticks /\ SameTick(U(e - n), e - n)
      BY <2>2, WrapsToTicks, WrapIsSameTick
    <2>. QED
      BY <2>1, <2>3
  <1>5. PICK b \in Ticks : b = U(start + n) /\ SameTick(b, start + n)
    <2>1. start + n \in Int
      BY DEF Ticks
    <2>. QED
      BY <2>1, WrapsToTicks, WrapIsSameTick
  <1>6. PICK f \in Ticks, g \in Ticks : f = x.tk[til].gap_head /\ g = x.tk[til].gap
    BY QueueType
  <1>7. PICK c \in Ticks : c = U(ticks + f + g) /\ SameTick(c, ticks + f + g)
    <2>1. ticks + f + g \in Int
      BY DEF Ticks
    <2>. QED
      BY <2>1, WrapsToTicks, WrapIsSameTick
  <1>8. PICK y : y = [x EXCEPT !.tk[t].deadline = d]
    OBVIOUS
  <1>9. PICK v : v = NextPlace(s)
    OBVIOUS
  <1>10. v = [s EXCEPT !.q = y, !.k = k + 1, !.start = b, !.ticks = c]
    <2>1. s.q.list[s.k] = til /\ NewStart(s.q.tk, s.t, til) = n
      BY <1>1, <1>2, <1>3
    <2>2. v = [s EXCEPT !.q.tk[s.t].deadline = U(@ - n), !.k = @ + 1, !.start = U(@ + n),
                        !.ticks = U(@ + s.q.tk[til].gap_head + s.q.tk[til].gap)]
      BY <1>9, <2>1 DEF NextPlace
    <2>3. [s.q EXCEPT !.tk[s.t].deadline = U(@ - n)] = y
      BY <1>1, <1>4, <1>8
    <2>. QED
      BY <1>1, <1>5, <1>6, <1>7, <2>2, <2>3
  <1>11. s = [q |-> s.q, t |-> s.t, k |-> s.k, start |-> s.start, ticks |-> s.ticks]
    BY DEF RequeueGo, RequeueStates
  <1>12. v.q = y /\ v.start = b /\ v.ticks = c
    BY <1>10, <1>11
  <1>13. /\ Gaps(y) = Gaps(x) /\ Heads(y) = Heads(x)
         /\ Deadlines(y)[t] = d /\ \A u \in Tasks \ {t} : Deadlines(y)[u] = Deadlines(x)[u]
    BY <1>8, DeadlineSet
  <1>14. Deadlines(x)[t] = e /\ Heads(x)[til] = f /\ Gaps(x)[til] = g
    BY <1>4, <1>6 DEF Deadlines, Heads, Gaps
  <1>15. n \in Int
    BY DEF Ticks
  <1>. QED
    BY <1>1, <1>2, <1>4, <1>5, <1>7, <1>9, <1>12, <1>13, <1>14, <1>15

LEMMA PassingNext ==
    ASSUME NEW x \in Queue, NEW t \in Tasks, NEW B \in Times, NEW X \in Int, NEW h,
           Waits(x, t, B), NEW s \in RequeueGo, Passing(x, t, B, X, h, s)
    PROVE  Passing(x, t, B, X, h, NextPlace(s))
  <1>1. PICK v : v = NextPlace(s)
    OBVIOUS
  <1>2. v \in RequeueStates /\ v.t = s.t /\ v.k = s.k + 1 /\ v.q.list = s.q.list
    BY <1>1, NextPlaceKeeps
  <1>3. PICK l \in Lists : l = x.list /\ l = s.q.list
    BY DEF Waits, Passing
  <1>4. PICK k \in Nat \ {0}, start \in Ticks, ticks \in Ticks :
            k = s.k /\ start = s.start /\ ticks = s.ticks /\ k <= Len(l) /\ ~(start < ticks)
    BY <1>3 DEF RequeueGo, RequeueStates, RunsBefore
  <1>5. /\ s \in RequeueStates /\ s.q \in Queue /\ s.t = t
        /\ Heads(s.q) = Heads(x) /\ Gaps(s.q) = Gaps(x)
        /\ \A u \in Tasks \ {t} : Deadlines(s.q)[u] = Deadlines(x)[u]
    BY DEF RequeueGo, RequeueStates, Passing
  <1>6. PICK til \in Tasks : til = l[k] /\ til \in ToSet(l) /\ k \in 1..Len(l)
    <2>1. k \in 1..Len(l)
      BY <1>4, ListType
    <2>. QED
      BY <2>1, ListType DEF ToSet
  <1>7. PICK n \in Int : /\ SameTick(v.start, start + n)
                         /\ SameTick(Deadlines(v.q)[t], Deadlines(s.q)[t] - n)
    BY <1>1, <1>4, <1>5, NextPlaceTimes
  <1>8. /\ Heads(v.q) = Heads(x) /\ Gaps(v.q) = Gaps(x)
        /\ \A u \in Tasks \ {t} : Deadlines(v.q)[u] = Deadlines(x)[u]
        /\ SameTick(v.ticks, ticks + Heads(x)[til] + Gaps(x)[til])
    BY <1>1, <1>3, <1>4, <1>5, <1>6, NextPlaceTimes
  <1>9. PICK b \in Int, c \in Int : b = v.start /\ c = v.ticks /\ v.q \in Queue
    BY <1>2 DEF RequeueStates, Ticks
  <1>10. PICK i \in Int, m \in Int : i = start /\ m = ticks
    BY DEF Ticks
  <1>11. SameTick(Starts(v.q, B)[t], X + v.start)
    <2>1. PICK a \in Int, d \in Int, e \in Int :
              /\ a = B[t] /\ d = Deadlines(s.q)[t] /\ e = Deadlines(v.q)[t]
              /\ Starts(s.q, B)[t] = a - d /\ Starts(v.q, B)[t] = a - e
      <3>1. B[t] \in Int
        BY DEF Times
      <3>2. Deadlines(s.q)[t] \in Int /\ Starts(s.q, B)[t] = B[t] - Deadlines(s.q)[t]
        BY <1>5, TimesType DEF Ticks
      <3>3. Deadlines(v.q)[t] \in Int /\ Starts(v.q, B)[t] = B[t] - Deadlines(v.q)[t]
        BY <1>9, TimesType DEF Ticks
      <3>. QED
        BY <3>1, <3>2, <3>3
    <2>2. PICK p \in Int, o \in Int, w \in Int, y \in Int, z \in Int :
              p = a - d /\ o = X + i /\ w = d - n /\ y = i + n /\ z = X + b
      <3>1. a - d \in Int /\ X + i \in Int /\ d - n \in Int /\ i + n \in Int /\ X + b \in Int
        BY <1>9, <1>10
      <3>. QED
        BY <3>1, Zenon
    <2>3. SameTick(p, o)
      <3>1. SameTick(Starts(s.q, B)[t], X + s.start)
        BY DEF Passing
      <3>. QED
        BY <1>4, <1>10, <2>1, <2>2, <3>1
    <2>4. SameTick(e, w) /\ SameTick(b, y)
      <3>1. SameTick(e, d - n) /\ SameTick(b, i + n)
        BY <1>7, <1>9, <1>10, <2>1
      <3>. QED
        BY <2>2, <3>1
    <2>5. SameTick(a - e, a - w) /\ SameTick(p + n, o + n) /\ SameTick(X + b, X + y)
      <3>1. SameTick(a, a) /\ SameTick(n, n) /\ SameTick(X, X)
        BY SameTickRefl
      <3>. QED
        BY <2>3, <2>4, <3>1, SameTickSum
    <2>6. PICK f \in Int, g \in Int, j \in Int : f = a - e /\ g = p + n /\ j = o + n
      <3>1. a - e \in Int /\ p + n \in Int /\ o + n \in Int
        OBVIOUS
      <3>. QED
        BY <3>1, Zenon
    <2>7. a - w = g /\ X + y = j
      BY <2>2, <2>6
    <2>8. SameTick(f, g) /\ SameTick(g, j) /\ SameTick(z, j)
      BY <2>2, <2>5, <2>6, <2>7
    <2>9. SameTick(f, j) /\ SameTick(j, z)
      BY <2>8, SameTickTrans, SameTickSym
    <2>10. SameTick(f, z)
      BY <2>9, SameTickTrans
    <2>. QED
      BY <1>9, <2>1, <2>2, <2>6, <2>10
  <1>12. PICK r \in Int, g \in Int :
             /\ r = Starts(x, B)[til] /\ g = Gaps(x)[til] /\ SameTick(r, X + m)
             /\ SameTick(c, m + g)
    <2>1. SameTick(Starts(x, B)[x.list[s.k]], X + s.ticks)
      <3>1. s \in RequeueStates /\ s.k <= Len(x.list)
        BY <1>3, <1>4, <1>5
      <3>. QED
        BY <3>1, PassingReaches
    <2>2. SameTick(Starts(x, B)[til], X + m)
      BY <1>3, <1>4, <1>6, <1>10, <2>1
    <2>3. Heads(x)[til] = 0
      BY <1>3, <1>6 DEF Waits
    <2>4. PICK r \in Int, g \in Int : r = Starts(x, B)[til] /\ g = Gaps(x)[til]
      BY StartInt
    <2>5. SameTick(c, m + 0 + g)
      BY <1>8, <1>9, <1>10, <2>3, <2>4
    <2>6. m + 0 + g = m + g
      BY <2>4
    <2>. QED
      BY <2>2, <2>4, <2>5, <2>6
  <1>13. SameTick(X + c, r + g)
    <2>1. PICK f \in Int, p \in Int, w \in Int : f = X + m /\ p = m + g /\ w = X + p /\ w = f + g
      <3>1. X + m \in Int /\ m + g \in Int
        BY <1>10, <1>12
      <3>2. PICK f \in Int, p \in Int : f = X + m /\ p = m + g
        BY <3>1, Zenon
      <3>3. X + p \in Int /\ X + p = f + g
        BY <1>10, <1>12, <3>2
      <3>. QED
        BY <3>2, <3>3
    <2>2. SameTick(r, f) /\ SameTick(c, p) /\ SameTick(X, X) /\ SameTick(g, g)
      BY <1>12, <2>1, SameTickRefl
    <2>3. SameTick(X + c, X + p) /\ SameTick(r + g, f + g)
      BY <2>2, SameTickSum
    <2>4. PICK a \in Int, d \in Int : a = X + c /\ d = r + g
      <3>1. X + c \in Int /\ r + g \in Int
        BY <1>9, <1>12
      <3>. QED
        BY <3>1, Zenon
    <2>5. SameTick(a, w) /\ SameTick(d, w)
      BY <2>1, <2>3, <2>4
    <2>6. SameTick(w, d)
      BY <2>5, SameTickSym
    <2>7. SameTick(a, d)
      BY <2>5, <2>6, SameTickTrans
    <2>. QED
      BY <2>4, <2>7
  <1>14. SameTick(Starts(x, B)[l[1]], X)
    <2>1. CASE k = 1
      <3>1. l # <<>>
        BY <1>6
      <3>2. start = 0 \/ ticks = 0
        BY <1>3, <1>4, <2>1, <3>1 DEF Passing
      <3>3. m = 0 /\ X + m = X
        <4>1. start \in Nat /\ ticks \in Nat
          BY ConfAssumption DEF Ticks
        <4>. QED
          BY <1>4, <1>10, <3>2, <4>1
      <3>4. l[1] = til
        BY <1>6, <2>1
      <3>. QED
        BY <1>12, <3>3, <3>4
    <2>2. CASE k # 1
      BY <1>3, <1>4, <2>2 DEF Passing
    <2>. QED
      BY <2>1, <2>2
  <1>15. v.k = k + 1 /\ v.k - 1 = k /\ k + 1 <= Len(l) + 1 /\ v.k # 1
    BY <1>2, <1>4, ListType
  <1>16. SameTick(X + v.ticks, Starts(x, B)[x.list[v.k - 1]] + Gaps(x)[x.list[v.k - 1]])
    BY <1>3, <1>6, <1>9, <1>12, <1>13, <1>15
  <1>17. v.q.list = x.list /\ v.t = t /\ v.k <= Len(x.list) + 1 /\ SameTick(Starts(x, B)[x.list[1]], X)
    BY <1>2, <1>3, <1>5, <1>14, <1>15
  <1>. QED
    BY <1>1, <1>8, <1>11, <1>15, <1>16, <1>17 DEF Passing

LEMMA PassingEnds ==
    ASSUME NEW x \in Queue, NEW t \in Tasks, NEW B \in Times, NEW X \in Int, NEW h,
           Waits(x, t, B), NEW s \in RequeueStates \ RequeueGo, Passing(x, t, B, X, h, s),
           RequeueBase[s].bad = "none"
    PROVE  Planned(RequeueBase[s], B, X, h)
  <1>1. PICK k \in Nat \ {0}, start \in Ticks, ticks \in Ticks, v \in Queue, l \in Lists :
            k = s.k /\ start = s.start /\ ticks = s.ticks /\ v = s.q /\ l = x.list /\ l = v.list
    BY DEF RequeueStates, Waits, Passing
  <1>2. s.t = t /\ Heads(v) = Heads(x) /\ Gaps(v) = Gaps(x)
    BY <1>1 DEF Passing
  <1>3. \A u \in ToSet(l) : u \in Tasks /\ u # t
    BY <1>1, ListType DEF ToSet, Waits
  <1>4. PICK S, G, W : /\ S = Starts(x, B) /\ G = Gaps(x) /\ W = Starts(v, B) /\ G = Gaps(v)
                       /\ S \in Times /\ G \in Times /\ W \in Times
    BY <1>2, TimesType
  <1>5. \A u \in ToSet(l) : W[u] = S[u]
    <2>1. \A u \in ToSet(l) : Deadlines(v)[u] = Deadlines(x)[u]
      BY <1>1, <1>3 DEF Passing
    <2>. QED
      BY <1>3, <1>4, <2>1, StartsOf
  <1>6. \A j \in 1..Len(l) : l[j] \in ToSet(l) /\ W[l[j]] = S[l[j]] /\ j \in Nat
    <2>1. \A j \in 1..Len(l) : l[j] \in ToSet(l) /\ j \in Nat
      BY ListType DEF ToSet
    <2>. QED
      BY <1>5, <2>1
  <1>7. Chained(l, W, G, 1)
    <2>1. Len(l) \in Nat
      BY ListType
    <2>2. \A j \in 1..(Len(l) - 1) : j \in 1..Len(l) /\ j + 1 \in 1..Len(l)
      BY <2>1
    <2>3. Chained(l, S, G, 1)
      BY <1>1, <1>4 DEF Waits
    <2>. QED
      BY <1>6, <2>2, <2>3 DEF Chained
  <1>8. SameTick(W[t], X + start) /\ \A u \in ToSet(l) : Heads(v)[u] = 0
    BY <1>1, <1>2, <1>4 DEF Waits, Passing
  <1>9. t \notin ToSet(l) /\ Len(l) \in Nat /\ k <= Len(l) + 1 /\ k \in Nat
    BY <1>1, ListType DEF Waits, Passing
  <1>10. k > 1 => /\ SameTick(S[l[1]], X)
                  /\ SameTick(X + ticks, S[l[k - 1]] + G[l[k - 1]])
    BY <1>1, <1>4 DEF Passing
  <1>11. CASE k > Len(l)
    <2>1. RequeueBase[s] = PutLast(v, t, start, ticks)
      BY <1>1, <1>2, <1>11 DEF RequeueBase
    <2>2. k = Len(l) + 1 /\ k - 1 = Len(l)
      BY <1>9, <1>11
    <2>3. l = <<>> => h = start
      <3>1. l = <<>> => k = 1
        BY <2>2
      <3>. QED
        BY <1>1, <3>1 DEF Passing
    <2>4. l # <<>> => /\ SameTick(W[l[1]], X)
                      /\ SameTick(X + ticks, W[l[Len(l)]] + G[l[Len(l)]])
      <3>. SUFFICES ASSUME l # <<>>
                    PROVE  /\ SameTick(W[l[1]], X)
                           /\ SameTick(X + ticks, W[l[Len(l)]] + G[l[Len(l)]])
        OBVIOUS
      <3>1. k > 1 /\ 1 \in 1..Len(l) /\ Len(l) \in 1..Len(l)
        BY <1>9, <2>2, ListType
      <3>2. W[l[1]] = S[l[1]] /\ W[l[Len(l)]] = S[l[Len(l)]]
        BY <1>6, <3>1
      <3>3. SameTick(S[l[1]], X) /\ SameTick(X + ticks, S[l[Len(l)]] + G[l[Len(l)]])
        BY <1>10, <2>2, <3>1
      <3>. QED
        BY <3>2, <3>3
    <2>5. /\ v.list \in Lists /\ t \notin ToSet(v.list)
          /\ Chained(v.list, Starts(v, B), Gaps(v), 1)
          /\ \A u \in ToSet(v.list) : Heads(v)[u] = 0
          /\ SameTick(Starts(v, B)[t], X + start)
          /\ v.list = <<>> => h = start
          /\ v.list # <<>> =>
               /\ SameTick(Starts(v, B)[v.list[1]], X)
               /\ SameTick(X + ticks, Starts(v, B)[v.list[Len(v.list)]] + Gaps(v)[v.list[Len(v.list)]])
      BY <1>1, <1>4, <1>7, <1>8, <1>9, <2>3, <2>4
    <2>6. Planned(PutLast(v, t, start, ticks), B, X, h)
      BY <2>5, PutLastPlans
    <2>. QED
      BY <2>1, <2>6
  <1>12. CASE ~(k > Len(l))
    <2>1. RequeueBase[s] = PutBefore(v, t, k, start, ticks)
      BY <1>1, <1>2, <1>12 DEF RequeueBase
    <2>2. k \in 1..Len(l) /\ l # <<>>
      BY <1>9, <1>12
    <2>3. start <= ticks
      <3>1. start < ticks \/ start = ticks
        BY <1>1, <1>12 DEF RequeueGo, RunsBefore
      <3>. QED
        BY <3>1 DEF Ticks
    <2>4. SameTick(W[l[k]], X + ticks)
      <3>1. s \in RequeueStates /\ s.k <= Len(x.list)
        BY <1>1, <1>9, <1>12
      <3>2. SameTick(Starts(x, B)[x.list[s.k]], X + s.ticks)
        BY <3>1, PassingReaches
      <3>3. SameTick(S[l[k]], X + ticks)
        BY <1>1, <1>4, <3>2
      <3>4. W[l[k]] = S[l[k]]
        BY <1>6, <2>2
      <3>. QED
        BY <3>3, <3>4
    <2>5. k = 1 => start = 0
      <3>1. k = 1 => start = 0 \/ ticks = 0
        BY <1>1, <2>2 DEF Passing
      <3>2. start \in Nat /\ ticks \in Nat
        BY ConfAssumption DEF Ticks
      <3>. QED
        BY <2>3, <3>1, <3>2
    <2>6. k > 1 => SameTick(W[l[1]], X)
      <3>1. 1 \in 1..Len(l)
        BY <2>2
      <3>2. W[l[1]] = S[l[1]]
        BY <1>6, <3>1
      <3>. QED
        BY <1>10, <3>2
    <2>7. /\ v.list \in Lists /\ t \notin ToSet(v.list) /\ k \in 1..Len(v.list)
          /\ Chained(v.list, Starts(v, B), Gaps(v), 1)
          /\ \A u \in ToSet(v.list) : Heads(v)[u] = 0
          /\ SameTick(Starts(v, B)[t], X + start)
          /\ SameTick(Starts(v, B)[v.list[k]], X + ticks)
          /\ k > 1 => SameTick(Starts(v, B)[v.list[1]], X)
          /\ PutBefore(v, t, k, start, ticks).bad = "none"
      BY <1>1, <1>4, <1>7, <1>8, <1>9, <2>1, <2>2, <2>4, <2>6
    <2>8. Planned(PutBefore(v, t, k, start, ticks), B, X, h)
      BY <2>3, <2>5, <2>7, PutBeforePlans
    <2>. QED
      BY <2>1, <2>8
  <1>. QED
    BY <1>11, <1>12

(* The loop of requeue_task gives t its place in the plan. *)
LEMMA requeuePlans ==
    ASSUME NEW x \in Queue, NEW t \in Tasks, NEW B \in Times, NEW X \in Int, Waits(x, t, B),
           NEW start \in Ticks, NEW ticks \in Ticks,
           SameTick(Starts(x, B)[t], X + start),
           x.list # <<>> => /\ start = 0 \/ ticks = 0
                            /\ SameTick(Starts(x, B)[x.list[1]], X + ticks),
           requeue_from(x, t, start, ticks).bad = "none"
    PROVE  Planned(requeue_from(x, t, start, ticks), B, X, start)
  <1> DEFINE P == {s \in RequeueStates : Passing(x, t, B, X, start, s)}
             Q == {y \in Queue : y.bad = "none" => Planned(y, B, X, start)}
             s0 == [q |-> x, t |-> t, k |-> 1, start |-> start, ticks |-> ticks]
  <1>1. ASSUME NEW s \in P \cap RequeueGo PROVE RequeueStep[s] \in P
    <2>1. NextPlace(s) \in RequeueStates /\ Passing(x, t, B, X, start, NextPlace(s))
      BY NextPlaceKeeps, PassingNext
    <2>. QED
      BY <2>1 DEF RequeueStep
  <1>2. ASSUME NEW s \in P \ RequeueGo PROVE RequeueBase[s] \in Q
    <2>1. /\ s \in RequeueStates \ RequeueGo /\ s.q \in Queue /\ s.t = t /\ s.q.list = x.list
          /\ x.list \in Lists /\ t \notin ToSet(x.list)
          /\ s.k \in Nat \ {0} /\ s.start \in Ticks /\ s.ticks \in Ticks
          /\ Passing(x, t, B, X, start, s)
      BY DEF RequeueStates, Passing, Waits
    <2>2. PICK y : y = RequeueBase[s]
      OBVIOUS
    <2>3. y \in Queue
      <3>1. CASE s.k > Len(s.q.list)
        <4>1. y = PutLast(s.q, t, s.start, s.ticks)
          BY <2>1, <2>2, <3>1 DEF RequeueBase
        <4>. QED
          BY <2>1, <4>1, PutLastKeeps DEF Requeued
      <3>2. CASE ~(s.k > Len(s.q.list))
        <4>1. y = PutBefore(s.q, t, s.k, s.start, s.ticks)
          BY <2>1, <2>2, <3>2 DEF RequeueBase
        <4>2. s.k \in 1..Len(s.q.list)
          BY <2>1, <3>2, ListType
        <4>. QED
          BY <2>1, <4>1, <4>2, PutBeforeKeeps DEF Requeued
      <3>. QED
        BY <3>1, <3>2
    <2>4. y.bad = "none" => Planned(y, B, X, start)
      BY <2>1, <2>2, PassingEnds
    <2>. QED
      BY <2>2, <2>3, <2>4
  <1>3. s0 \in P
    <2>1. PICK s : s = s0
      OBVIOUS
    <2>2. s \in RequeueStates /\ s.q = x /\ s.t = t /\ s.k = 1 /\ s.start = start /\ s.ticks = ticks
      BY <2>1 DEF RequeueStates
    <2>3. Len(x.list) \in Nat /\ 1 <= Len(x.list) + 1
      BY ListType DEF Waits
    <2>4. Passing(x, t, B, X, start, s)
      BY <2>2, <2>3 DEF Passing
    <2>. QED
      BY <2>1, <2>2, <2>4
  <1>4. P \in SUBSET RequeueStates /\ RequeueGo \in SUBSET RequeueStates
    BY DEF RequeueGo
  <1>. HIDE DEF P, Q
  <1>5. TurnsKeep(P, Q, RequeueGo, RequeueStep, RequeueBase)
    BY <1>1, <1>2 DEF TurnsKeep
  <1>6. PICK D, f : D = RequeueStates /\ f = requeue
    OBVIOUS
  <1>7. /\ RequeueGo \in SUBSET D /\ Terminates(D, RequeueGo, RequeueStep, RequeueRank)
        /\ Computes(f, D, RequeueGo, RequeueStep, RequeueBase) /\ P \in SUBSET D
    BY <1>4, <1>6, RequeueTerminates, RequeueComputes
  <1>8. \A s \in P : f[s] \in Q
    BY <1>5, <1>7, LoopResult, ZenonT(40)
  <1>9. requeue[s0] \in Q
    BY <1>3, <1>6, <1>8
  <1>. QED
    BY <1>9 DEF requeue_from, Q

(* requeue_task: the plan at the tick X, when the head starts `ticks' from *)
(* now.  The job of t, or the next one if it is done, starts when it may.  *)
LEMMA requeue_taskPlans ==
    ASSUME NEW x \in Queue, NEW t \in Tasks, NEW B \in Times, NEW X \in Int, Waits(x, t, B),
           NEW ticks \in Ticks, Heads(x)[t] = 0, SameTick(Starts(x, B)[t], X),
           x.list # <<>> => SameTick(Starts(x, B)[x.list[1]], X + ticks),
           x.tk[t].det_remain = 0 => x.tk[t].deadline = 0 \/ ticks = 0,
           requeue_task(x, t, ticks).bad = "none"
    PROVE  IF x.tk[t].det_remain # 0
           THEN Planned(requeue_task(x, t, ticks), B, X, 0)
           ELSE Planned(requeue_task(x, t, ticks), [B EXCEPT ![t] = @ + x.tk[t].period], X,
                        x.tk[t].deadline)
  <1> DEFINE T    == x.tk[t]
             now  == U(T.gap_head + T.deadline)
             next == U(T.deadline + T.period)
             y0   == [x EXCEPT !.tk[t].deadline = U(next - now), !.tk[t].det_remain = T.det]
             y1   == Check(y0, next >= now, "next deadline passed")
  <1>1. PICK d \in Ticks, r \in Ticks, p \in Nat :
            d = T.deadline /\ r = T.det /\ p = T.period /\ T.gap_head = 0 /\ d = Deadlines(x)[t]
    <2>1. T \in TaskType /\ T.gap_head = 0 /\ T.deadline = Deadlines(x)[t]
      BY QueueType DEF Heads, Deadlines
    <2>. QED
      BY <2>1 DEF TaskType
  <1>2. d \in Int /\ 0 + d = d /\ 0 \in Ticks
    BY ConfAssumption DEF Ticks
  <1>3. now = d
    BY <1>1, <1>2, WrapsToTicks
  <1>4. PICK m \in Ticks : m = next /\ m \in Int /\ SameTick(m, d + p)
    <2>1. d + p \in Int
      BY <1>2
    <2>2. U(d + p) \in Ticks /\ U(d + p) \in Int /\ SameTick(U(d + p), d + p)
      BY <2>1, WrapsToTicks, WrapIsSameTick
    <2>. QED
      BY <1>1, <2>2
  <1>5. PICK v \in Ticks : v = U(m - d) /\ v \in Int /\ SameTick(v, m - d)
    <2>1. m - d \in Int
      BY <1>2, <1>4
    <2>. QED
      BY <2>1, WrapsToTicks, WrapIsSameTick
  <1>6. SameTick(v, p)
    <2>1. PICK a \in Int, b \in Int : a = m - d /\ b = d + p
      <3>1. m - d \in Int /\ d + p \in Int
        BY <1>2, <1>4
      <3>. QED
        BY <3>1, Zenon
    <2>2. SameTick(v, a) /\ SameTick(m, b) /\ SameTick(d, d)
      BY <1>2, <1>4, <1>5, <2>1, SameTickRefl
    <2>3. SameTick(m - d, b - d)
      BY <1>2, <1>4, <2>2, SameTickSum
    <2>4. b - d = p /\ p \in Int
      BY <1>2, <2>1
    <2>5. SameTick(a, p)
      BY <2>1, <2>3, <2>4
    <2>. QED
      BY <1>5, <2>2, <2>4, <2>5, SameTickTrans
  <1>7. PICK a : a = [x EXCEPT !.tk[t].deadline = v]
    OBVIOUS
  <1>8. PICK b : b = [a EXCEPT !.tk[t].det_remain = r]
    OBVIOUS
  <1>9. y0 = b
    BY <1>1, <1>3, <1>4, <1>5, <1>7, <1>8
  <1>. HIDE DEF y0
  <1>10. /\ a \in Queue /\ a.list = x.list /\ Gaps(a) = Gaps(x) /\ Heads(a) = Heads(x)
         /\ Deadlines(a)[t] = v /\ \A u \in Tasks \ {t} : Deadlines(a)[u] = Deadlines(x)[u]
    BY <1>7, DeadlineSet
  <1>11. /\ b \in Queue /\ b.list = a.list
         /\ Deadlines(b) = Deadlines(a) /\ Gaps(b) = Gaps(a) /\ Heads(b) = Heads(a)
    BY <1>8, <1>10, RemainSet
  <1>12. PICK c \in BOOLEAN : c <=> next >= now
    OBVIOUS
  <1>13. PICK y : y = y1
    OBVIOUS
  <1>14. y = Check(b, c, "next deadline passed")
    BY <1>9, <1>12, <1>13 DEF Check
  <1>. HIDE DEF y1
  <1>15. y \in Queue /\ y.list = b.list /\ y.tk = b.tk
    BY <1>11, <1>14, CheckKeeps DEF Asserts
  <1>16. /\ y.list = x.list /\ Gaps(y) = Gaps(x) /\ Heads(y) = Heads(x)
         /\ Deadlines(y)[t] = v /\ \A u \in Tasks \ {t} : Deadlines(y)[u] = Deadlines(x)[u]
    <2>1. Deadlines(y) = Deadlines(b) /\ Gaps(y) = Gaps(b) /\ Heads(y) = Heads(b)
      BY <1>15 DEF Deadlines, Gaps, Heads
    <2>. QED
      BY <1>10, <1>11, <1>15, <2>1
  <1>17. requeue_task(x, t, ticks) = IF T.det_remain # 0 THEN requeue_from(x, t, 0, ticks)
                                     ELSE IF y.bad = "none" THEN requeue_from(y, t, d, ticks)
                                     ELSE y
    <2>1. requeue_task(x, t, ticks) = IF T.det_remain # 0 THEN requeue_from(x, t, 0, ticks)
                                      ELSE IF y1.bad = "none" THEN requeue_from(y1, t, now, ticks)
                                      ELSE y1
      BY DEF requeue_task, y0, y1
    <2>. QED
      BY <1>3, <1>13, <2>1
  <1>18. PICK D \in Int : D = B[t]
    BY DEF Times
  <1>19. CASE T.det_remain # 0
    <2>1. requeue_task(x, t, ticks) = requeue_from(x, t, 0, ticks)
      BY <1>17, <1>19
    <2>2. X + 0 = X
      OBVIOUS
    <2>3. SameTick(Starts(x, B)[t], X + 0) /\ requeue_from(x, t, 0, ticks).bad = "none"
      BY <2>1, <2>2
    <2>4. Planned(requeue_from(x, t, 0, ticks), B, X, 0)
      BY <1>2, <2>3, requeuePlans
    <2>. QED
      BY <1>19, <2>1, <2>4
  <1>20. CASE T.det_remain = 0
    <2>1. y.bad = "none" /\ requeue_task(x, t, ticks) = requeue_from(y, t, d, ticks)
      BY <1>17, <1>20
    <2>2. PICK C : C = [B EXCEPT ![t] = @ + p]
      OBVIOUS
    <2>3. C \in Times /\ C[t] = D + p /\ \A u \in Tasks \ {t} : C[u] = B[u]
      BY <1>18, <2>2 DEF Times
    <2>4. SameTick(Starts(y, C)[t], X + d)
      <3>1. Starts(y, C)[t] = (D + p) - v /\ Starts(x, B)[t] = D - d
        BY <1>1, <1>15, <1>16, <1>18, <2>3, TimesType
      <3>2. PICK e \in Int, f \in Int, g \in Int, h \in Int :
                e = D + p /\ f = D - d /\ g = (D + p) - v /\ h = X + d
        <4>1. D + p \in Int /\ D - d \in Int /\ (D + p) - v \in Int /\ X + d \in Int
          BY <1>2, <1>5
        <4>. QED
          BY <4>1, Zenon
      <3>3. SameTick(f, X) /\ SameTick(d, d) /\ SameTick(e, e)
        BY <1>2, <3>1, <3>2, SameTickRefl
      <3>4. SameTick(f + d, X + d)
        BY <1>2, <3>3, SameTickSum
      <3>5. SameTick(e - v, e - p)
        BY <1>5, <1>6, <3>3, SameTickSum
      <3>6. f + d = D /\ e - p = D /\ e - v = g
        BY <1>2, <3>2
      <3>7. SameTick(D, h) /\ SameTick(g, D)
        BY <3>2, <3>4, <3>5, <3>6
      <3>8. SameTick(g, h)
        BY <3>7, SameTickTrans
      <3>. QED
        BY <3>1, <3>2, <3>8
    <2>5. \A u \in ToSet(x.list) : u \in Tasks /\ u # t /\ Starts(y, C)[u] = Starts(x, B)[u]
      <3>1. ASSUME NEW u \in ToSet(x.list)
            PROVE  u \in Tasks /\ u # t /\ Starts(y, C)[u] = Starts(x, B)[u]
        <4>1. u \in Tasks /\ u # t
          BY ListType DEF ToSet, Waits
        <4>2. Starts(y, C)[u] = C[u] - Deadlines(y)[u] /\ Starts(x, B)[u] = B[u] - Deadlines(x)[u]
          BY <1>15, <2>3, <4>1, TimesType
        <4>. QED
          BY <1>16, <2>3, <4>1, <4>2
      <3>. QED
        BY <3>1
    <2>6. PICK l \in Lists : l = x.list
      BY DEF Waits
    <2>7. PICK S, G, W : /\ S = Starts(x, B) /\ G = Gaps(x) /\ W = Starts(y, C) /\ G = Gaps(y)
                         /\ S \in Times /\ G \in Times /\ W \in Times
      BY <1>15, <1>16, <2>3, TimesType
    <2>8. \A j \in 1..Len(l) : l[j] \in ToSet(l) /\ W[l[j]] = S[l[j]]
      <3>1. \A j \in 1..Len(l) : l[j] \in ToSet(l)
        BY ListType DEF ToSet
      <3>. QED
        BY <2>5, <2>6, <2>7, <3>1
    <2>9. Chained(l, W, G, 1)
      <3>1. Len(l) \in Nat
        BY ListType
      <3>2. \A j \in 1..(Len(l) - 1) : j \in 1..Len(l) /\ j + 1 \in 1..Len(l)
        BY <3>1
      <3>3. Chained(l, S, G, 1)
        BY <2>6, <2>7 DEF Waits
      <3>. QED
        BY <2>8, <3>2, <3>3 DEF Chained
    <2>10. Waits(y, t, C)
      BY <1>16, <2>6, <2>7, <2>9 DEF Waits
    <2>11. y.list # <<>> => /\ d = 0 \/ ticks = 0
                            /\ SameTick(Starts(y, C)[y.list[1]], X + ticks)
      <3>. SUFFICES ASSUME l # <<>>
                    PROVE  (d = 0 \/ ticks = 0) /\ SameTick(W[l[1]], X + ticks)
        BY <1>16, <2>6, <2>7
      <3>1. 1 \in 1..Len(l)
        BY ListType
      <3>2. W[l[1]] = S[l[1]]
        BY <2>8, <3>1
      <3>3. SameTick(S[l[1]], X + ticks)
        BY <2>6, <2>7
      <3>. QED
        BY <1>1, <1>20, <3>2, <3>3
    <2>12. requeue_from(y, t, d, ticks).bad = "none"
      BY <2>1
    <2>13. Planned(requeue_from(y, t, d, ticks), C, X, d)
      BY <1>15, <2>3, <2>4, <2>10, <2>11, <2>12, requeuePlans
    <2>. QED
      BY <1>1, <1>20, <2>1, <2>2, <2>13
  <1>. QED
    BY <1>19, <1>20
----------------------------------------------------------------------------
(* The plan of a whole run. *)

(* One turn of runsim's loop, as the plan sees it: n ticks after its start *)
(* t goes back to the queue as I, at the end of its gap or at its deadline. *)
Turned(t, I, n) ==
    /\ I \in TaskType /\ n \in Nat /\ I.period = q.tk[t].period
    /\ I.gap_head = 0 /\ I.gap = q.tk[t].gap - n /\ I.deadline = q.tk[t].deadline - n
    /\ I.deadline = 0 \/ I.gap = 0
    /\ q' = requeue_task([q EXCEPT !.list = Tail(@), !.tk[t] = I], t, I.gap) /\ q'.bad = "none"
    /\ simtime' = simtime + q.tk[t].gap_head + n
    /\ jobs' = IF I.det_remain = 0 THEN [jobs EXCEPT ![t] = @ + 1] ELSE jobs
    /\ mode' = mode /\ policy' = policy

LEMMA RunHeadTurns ==
    ASSUME IInv, NEW t \in Tasks, NEW T \in TaskType, NEW ret, NEW ledger,
           T.gap_head = 0, T.period = q.tk[t].period, T.gap = q.tk[t].gap,
           T.deadline = q.tk[t].deadline, RunsFor(T, ret),
           RunHead(t, T, ret, ledger), ~ \E why : Exit(why)
    PROVE  \E I, n : Turned(t, I, n)
  <1>1. PICK T1, q1 :
           /\ T1 = Ran(T, ret)
           /\ q1 = requeue_task([q EXCEPT !.list = Tail(@), !.tk[t] = Idled(T1)], t, Idled(T1).gap)
           /\ LET head  == q.tk[t].gap_head
                  idle  == IdleAfter(T1)
                  now   == simtime + head + ret + idle
                  cpu   == IdleCpu(power_consumed_cpu_idle, head) + ActiveCpuIdle(T, ret)
                  check == check_queued_tasks(q1, now)
              IN  IF q1.bad # "none" THEN Exit(q1.bad)
                  ELSE IF check # "none" THEN Exit(check)
                  ELSE /\ q' = q1
                       /\ simtime' = now
                       /\ amount' = ledger
                       /\ reassign_done' = IF Policy = "dvshm_gr" THEN reassign_done \cup {t}
                                           ELSE reassign_done
                       /\ jobs' = IF T1.det_remain = 0 THEN [jobs EXCEPT ![t] = @ + 1] ELSE jobs
                       /\ charged' = ChargeRun(charged, t, ToSet(Tail(q.list)), head, ret, idle)
                       /\ power_consumed_cpu_idle' = IF T1.gap > 0 THEN IdleCpu(cpu, idle) ELSE cpu
                       /\ UNCHANGED <<driver, phase, reason, temp>>
    BY Zenon DEF RunHead
  <1>2. PICK head, idle, now, check :
           /\ head = q.tk[t].gap_head /\ idle = IdleAfter(T1) /\ now = simtime + head + ret + idle
           /\ check = check_queued_tasks(q1, now)
    OBVIOUS
  <1>3. /\ q1.bad = "none" /\ q' = q1 /\ simtime' = now
        /\ jobs' = IF T1.det_remain = 0 THEN [jobs EXCEPT ![t] = @ + 1] ELSE jobs
        /\ UNCHANGED <<driver, phase, reason, temp>>
    <2>1. CASE q1.bad # "none"
      BY <1>1, <2>1
    <2>2. CASE q1.bad = "none" /\ check # "none"
      BY <1>1, <1>2, <2>2
    <2>3. CASE q1.bad = "none" /\ check = "none"
      BY <1>1, <1>2, <2>3, Zenon
    <2>. QED
      BY <2>1, <2>2, <2>3
  <1>4. PICK I : I = Idled(T1)
    OBVIOUS
  <1>5. PICK n : n = ret + idle
    OBVIOUS
  <1>6. /\ ret \in Ticks /\ idle \in Ticks /\ I \in TaskType /\ SameTask(I, T)
        /\ I.det_remain = T1.det_remain /\ I.gap_head = T.gap_head
        /\ I.gap = T.gap - n /\ I.deadline = T.deadline - n
        /\ I.deadline = 0 \/ I.gap = 0
    BY <1>1, <1>2, <1>4, <1>5, RunType DEF RunsFor
  <1>7. ret \in Nat /\ idle \in Nat /\ n \in Nat
    BY <1>5, <1>6, Constants
  <1>8. simtime \in Nat /\ head \in Nat
    BY <1>2, QueueType, Constants DEF IInv, TypeOK
  <1>9. simtime' = simtime + q.tk[t].gap_head + n
    BY <1>2, <1>3, <1>5, <1>7, <1>8
  <1>10. q' = requeue_task([q EXCEPT !.list = Tail(@), !.tk[t] = I], t, I.gap) /\ q'.bad = "none"
    BY <1>1, <1>3, <1>4
  <1>11. jobs' = IF I.det_remain = 0 THEN [jobs EXCEPT ![t] = @ + 1] ELSE jobs
    BY <1>3, <1>6
  <1>12. I.period = q.tk[t].period /\ I.gap_head = 0
         /\ I.gap = q.tk[t].gap - n /\ I.deadline = q.tk[t].deadline - n
    BY <1>6 DEF SameTask
  <1>13. mode' = mode /\ policy' = policy
    BY <1>3 DEF driver
  <1>14. Turned(t, I, n)
    BY <1>6, <1>7, <1>9, <1>10, <1>11, <1>12, <1>13, Zenon DEF Turned
  <1>. QED
    BY <1>14

LEMMA ScheduleTaskTurns ==
    ASSUME IInv, ScheduleTask, ~ \E why : Exit(why)
    PROVE  /\ phase = "sim" /\ q.list # <<>> /\ Head(q.list) \in Tasks
           /\ \E I, n : Turned(Head(q.list), I, n)
  <1>1. PICK t, re :
           /\ t = Head(q.list) /\ re = reassign_task(t)
           /\ IF re.fault # "none" THEN Exit(re.fault)
              ELSE \E T \in {[re.T EXCEPT !.gap_head = 0]} :
                      IF task_ret(T) > T.deadline THEN Exit("deadline violated")
                      ELSE RunHead(t, T, task_ret(T), re.amount)
    BY DEF ScheduleTask
  <1>2. phase = "sim" /\ q.list # <<>> /\ q.list \in Lists
    BY DEF ScheduleTask, IInv, ListsApart
  <1>3. t \in Tasks /\ t \in Queued
    BY <1>1, <1>2, HeadAndTail DEF Queued
  <1>4. re.fault = "none"
    BY <1>1
  <1>5. PICK T : /\ T = [re.T EXCEPT !.gap_head = 0]
                 /\ IF task_ret(T) > T.deadline THEN Exit("deadline violated")
                    ELSE RunHead(t, T, task_ret(T), re.amount)
    BY <1>1, <1>4
  <1>6. PICK ret : ret = task_ret(T)
    OBVIOUS
  <1>7. RunsFor(T, ret) /\ RunHead(t, T, ret, re.amount)
    BY <1>5, <1>6 DEF RunsFor
  <1>8. policy \in DOMAIN AllPolicies /\ q \in Queue /\ amount \in Ledgers
        /\ IsSetUp(q.tk[t]) /\ Timeable(q.tk[t])
    BY <1>2, <1>3 DEF IInv, TypeOK, Ledgers, TasksTimed
  <1>9. re.T \in TaskType /\ SamePlan(re.T, q.tk[t])
    BY <1>1, <1>3, <1>4, <1>8, reassign_taskKeeps
  <1>10. /\ T \in TaskType /\ T.gap_head = 0 /\ T.period = q.tk[t].period /\ T.gap = q.tk[t].gap
         /\ T.deadline = q.tk[t].deadline
    BY <1>5, <1>9, Constants DEF TaskType, SamePlan
  <1>11. PICK ledger : ledger = re.amount
    OBVIOUS
  <1>12. \E I, n : Turned(t, I, n)
    BY <1>3, <1>7, <1>10, <1>11, RunHeadTurns
  <1>. QED
    BY <1>1, <1>2, <1>3, <1>12

(* When the period of each task's job ends. *)
Due == [u \in Tasks |-> StartOfRun + (jobs[u] + 1) * q.tk[u].period]

(* The queue keeps to the plan in which every job is due at the end of its *)
(* period; while the tasks are set up none of them waits.                  *)
OnPlan ==
    phase \in {"setup", "sim", "done"} =>
        \E h : Planned(q, Due, simtime, h) /\ (phase = "setup" => h = 0)

(* No job is done before the run, and a task to be set up has no times.    *)
Untimed(S) == \A u \in S : q.tk[u].deadline = 0 /\ q.tk[u].gap_head = 0

NotStarted ==
    /\ phase \in {"init", "setup"} => jobs = [u \in Tasks |-> 0]
    /\ phase = "init" => Untimed(Queued)
    /\ phase = "setup" => Untimed(ToSet(temp))

LEMMA DueType ==
    ASSUME IInv
    PROVE  /\ Due \in Times /\ simtime \in Int /\ StartOfRun \in Int /\ jobs \in [Tasks -> Nat]
           /\ \A u \in Tasks : /\ q.tk[u].period \in Nat
                               /\ Due[u] = StartOfRun + (jobs[u] + 1) * q.tk[u].period
  <1>1. simtime \in Int /\ jobs \in [Tasks -> Nat] /\ q \in Queue
    BY DEF IInv, TypeOK
  <1>2. StartOfRun \in Int
    BY DEF StartOfRun, RestartTime
  <1>3. \A u \in Tasks : q.tk[u].period \in Nat
    <2>. TAKE u \in Tasks
    <2>1. q.tk[u] \in TaskType
      BY <1>1, QueueType
    <2>. QED
      BY <2>1 DEF TaskType
  <1>4. Due \in Times
    <2>. SUFFICES ASSUME NEW u \in Tasks
                  PROVE  StartOfRun + (jobs[u] + 1) * q.tk[u].period \in Int
      BY DEF Due, Times
    <2>1. PICK s \in Int, j \in Nat, p \in Nat : s = StartOfRun /\ j = jobs[u] /\ p = q.tk[u].period
      BY <1>1, <1>2, <1>3
    <2>2. s + (j + 1) * p \in Int
      OBVIOUS
    <2>. QED
      BY <2>1, <2>2
  <1>. QED
    BY <1>1, <1>2, <1>3, <1>4 DEF Due

(* A job more is due a period later. *)
LEMMA DueNext ==
    ASSUME IInv, \A u \in Tasks : q'.tk[u].period = q.tk[u].period,
           mode' = mode, policy' = policy
    PROVE  /\ jobs' = jobs => Due' = Due
           /\ \A t \in Tasks : jobs' = [jobs EXCEPT ![t] = @ + 1] =>
                                  Due' = [Due EXCEPT ![t] = @ + q.tk[t].period]
  <1>1. StartOfRun' = StartOfRun
    BY DEF StartOfRun
  <1>2. ASSUME jobs' = jobs PROVE Due' = Due
    BY <1>1, <1>2 DEF Due
  <1>3. ASSUME NEW t \in Tasks, jobs' = [jobs EXCEPT ![t] = @ + 1]
        PROVE  Due' = [Due EXCEPT ![t] = @ + q.tk[t].period]
    <2>1. jobs \in [Tasks -> Nat] /\ q.tk[t].period \in Nat /\ StartOfRun \in Int
      BY DueType
    <2>2. jobs'[t] = jobs[t] + 1 /\ \A u \in Tasks \ {t} : jobs'[u] = jobs[u]
      BY <1>3, <2>1
    <2>3. PICK s \in Int, j \in Nat, p \in Nat : s = StartOfRun /\ j = jobs[t] /\ p = q.tk[t].period
      BY <2>1
    <2>4. s + ((j + 1) + 1) * p = (s + (j + 1) * p) + p
      OBVIOUS
    <2>5. Due' = [u \in Tasks |-> StartOfRun + (jobs'[u] + 1) * q.tk[u].period]
      BY <1>1 DEF Due
    <2>6. Due'[t] = Due[t] + q.tk[t].period
      <3>1. Due'[t] = s + ((j + 1) + 1) * p
        BY <2>2, <2>3, <2>5
      <3>2. Due[t] = s + (j + 1) * p
        BY <2>3 DEF Due
      <3>. QED
        BY <2>3, <2>4, <3>1, <3>2
    <2>7. \A u \in Tasks \ {t} : Due'[u] = Due[u]
      BY <2>2, <2>5 DEF Due
    <2>8. /\ Due = [u \in Tasks |-> Due[u]] /\ Due' = [u \in Tasks |-> Due'[u]]
      BY <2>5 DEF Due
    <2>9. PICK d, e : d = Due /\ e = Due'
      OBVIOUS
    <2>10. d = [u \in Tasks |-> d[u]] /\ e = [u \in Tasks |-> e[u]]
           /\ e[t] = d[t] + q.tk[t].period /\ \A u \in Tasks \ {t} : e[u] = d[u]
      BY <2>6, <2>7, <2>8, <2>9, Zenon
    <2>11. e = [d EXCEPT ![t] = @ + q.tk[t].period]
      BY <2>10
    <2>. QED
      BY <2>9, <2>11, Zenon
  <1>. QED
    BY <1>2, <1>3

(* The plan is about the listed tasks only. *)
LEMMA PlannedSame ==
    ASSUME NEW x \in Queue, x.list \in Lists, NEW y \in Queue, y.list = x.list,
           \A u \in ToSet(x.list) : y.tk[u] = x.tk[u],
           NEW B \in Times, NEW C \in Times, \A u \in ToSet(x.list) : C[u] = B[u],
           NEW X \in Int, NEW h, Planned(x, B, X, h)
    PROVE  Planned(y, C, X, h)
  <1>1. PICK l \in Lists : l = x.list /\ l = y.list
    OBVIOUS
  <1>2. /\ l \in Seq(Tasks) /\ Len(l) \in Nat /\ ToSet(l) \subseteq Tasks
        /\ \A j \in 1..Len(l) : l[j] \in ToSet(l)
    BY ListType, ListedTasks DEF ToSet
  <1>3. \A u \in ToSet(l) : /\ Starts(y, C)[u] = Starts(x, B)[u] /\ Gaps(y)[u] = Gaps(x)[u]
                            /\ Heads(y)[u] = Heads(x)[u]
    <2>. TAKE u \in ToSet(l)
    <2>1. u \in Tasks /\ y.tk[u] = x.tk[u] /\ C[u] = B[u]
      BY <1>1, <1>2
    <2>. QED
      BY <2>1 DEF Starts, Gaps, Heads
  <1>4. /\ Starts(x, B) \in Times /\ Gaps(x) \in Times /\ Starts(y, C) \in Times /\ Gaps(y) \in Times
    BY TimesType
  <1>5. From(l, 1) \subseteq ToSet(l)
    BY <1>2 DEF From
  <1>6. /\ Chained(l, Starts(x, B), Gaps(x), 1)
        /\ l # <<>> => SameTick(Starts(x, B)[l[1]], X + Heads(x)[l[1]])
        /\ \A u \in ToSet(l) : Heads(x)[u] = IF Len(l) = 1 THEN h ELSE 0
    BY <1>1 DEF Planned
  <1>7. Chained(l, Starts(y, C), Gaps(y), 1)
    <2>1. 1 \in 1..(Len(l) + 1)
      BY <1>2
    <2>2. \A u \in From(l, 1) : Starts(y, C)[u] = Starts(x, B)[u] /\ Gaps(y)[u] = Gaps(x)[u]
      BY <1>3, <1>5
    <2>3. PICK S \in Times, G \in Times, S2 \in Times, G2 \in Times :
             S = Starts(x, B) /\ G = Gaps(x) /\ S2 = Starts(y, C) /\ G2 = Gaps(y)
      BY <1>4
    <2>4. Chained(l, S, G, 1) /\ \A u \in From(l, 1) : S2[u] = S[u] /\ G2[u] = G[u]
      BY <1>6, <2>2, <2>3
    <2>5. Chained(l, S2, G2, 1)
      BY <2>1, <2>4, ChainedSame
    <2>. QED
      BY <2>3, <2>5
  <1>8. l # <<>> => SameTick(Starts(y, C)[l[1]], X + Heads(y)[l[1]])
    <2>1. l # <<>> => l[1] \in ToSet(l)
      BY <1>2, EmptySeq
    <2>. QED
      BY <1>3, <1>6, <2>1
  <1>9. \A u \in ToSet(l) : Heads(y)[u] = IF Len(l) = 1 THEN h ELSE 0
    BY <1>3, <1>6
  <1>. QED
    BY <1>1, <1>7, <1>8, <1>9 DEF Planned

LEMMA ExitPlans ==
    ASSUME NEW why, Exit(why)
    PROVE  OnPlan' /\ NotStarted'
  <1>1. phase' = "exited"
    BY DEF Exit
  <1>. QED
    BY <1>1 DEF OnPlan, NotStarted

(* The first job of a task that is set up is due at the end of the first   *)
(* period.                                                                 *)
LEMMA SetupTaskPlans ==
    ASSUME IInv, OnPlan, NotStarted, SetupTask
    PROVE  OnPlan' /\ NotStarted'
  <1>1. CASE \E why : Exit(why)
    BY <1>1, ExitPlans
  <1>2. CASE ~ \E why : Exit(why)
    <2>1. /\ phase = "setup" /\ temp \in Lists /\ temp # <<>>
          /\ SetupFails \/ \E T : SetupGrants(T)
          /\ mode' = mode /\ policy' = policy /\ simtime' = simtime /\ jobs' = jobs
      BY <1>2, SetupTaskCases
    <2>2. PICK t, l : t = Head(temp) /\ l = Tail(temp)
      OBVIOUS
    <2>3. /\ t \in Tasks /\ l \in Lists /\ t \in ToSet(temp) /\ t \notin ToSet(l)
          /\ ToSet(temp) = {t} \cup ToSet(l)
      BY <2>1, <2>2, HeadAndTail
    <2>4. /\ q \in Queue /\ q.list \in Lists /\ t \notin ToSet(q.list)
      BY <2>3 DEF IInv, TypeOK, ListsApart, Queued
    <2>5. Planned(q, Due, simtime, 0) /\ jobs = [u \in Tasks |-> 0] /\ Untimed(ToSet(temp))
          /\ simtime = StartOfRun
      BY <2>1 DEF OnPlan, NotStarted, IInv, AccountsStart
    <2>6. /\ Due \in Times /\ simtime \in Int
          /\ \A u \in Tasks : /\ q.tk[u].period \in Nat
                              /\ Due[u] = StartOfRun + (jobs[u] + 1) * q.tk[u].period
      BY DueType
    <2>7. CASE SetupFails
      <3>1. phase' = "done" /\ q' = q
        BY <2>7 DEF SetupFails
      <3>2. Due' = Due
        BY <2>1, <3>1 DEF Due, StartOfRun
      <3>3. Planned(q', Due', simtime', 0)
        BY <2>1, <2>5, <3>1, <3>2
      <3>. QED
        BY <3>1, <3>3 DEF OnPlan, NotStarted
    <2>8. ASSUME NEW T, SetupGrants(T) PROVE OnPlan' /\ NotStarted'
      <3>1. /\ T \in TaskType /\ SamePlan(T, q.tk[t]) /\ T.det_remain = 0
            /\ TaskMoved(q, q', t, T, ToSet(l))
            /\ \/ /\ phase' = phase /\ temp' = l
                  /\ q' = requeue_task([q EXCEPT !.tk[t] = T], t, 0)
               \/ phase' = "done" /\ temp' = <<>> /\ q' = [q EXCEPT !.tk[t] = T]
        BY <2>2, <2>8, Zenon DEF SetupGrants
      <3>2. PICK z : z = [q EXCEPT !.tk[t] = T]
        OBVIOUS
      <3>3. /\ z \in Queue /\ z.list = q.list /\ z.tk[t] = T
            /\ \A u \in Tasks \ {t} : z.tk[u] = q.tk[u]
        BY <2>3, <2>4, <3>1, <3>2, TaskSet
      <3>4. /\ T.deadline = 0 /\ T.gap_head = 0 /\ T.period = q.tk[t].period
        BY <2>3, <2>5, <3>1 DEF SamePlan, Untimed
      <3>5. \A u \in ToSet(q.list) : u \in Tasks \ {t}
        BY <2>4, ListedTasks
      <3>6. Due' = Due
        <4>1. \A u \in Tasks : q'.tk[u].period = q.tk[u].period
          BY <3>1, <3>4 DEF TaskMoved, SameTask
        <4>. QED
          BY <2>1, <4>1, DueNext
      <3>7. NotStarted'
        <4>1. \A u \in ToSet(l) : q'.tk[u] = q.tk[u]
          BY <3>1 DEF TaskMoved
        <4>2. phase' \in {"setup", "done"} /\ jobs' = [u \in Tasks |-> 0]
          BY <2>1, <2>5, <3>1
        <4>3. phase' = "setup" => temp' = l
          BY <2>1, <3>1
        <4>4. \A u \in ToSet(l) : q'.tk[u].deadline = 0 /\ q'.tk[u].gap_head = 0
          BY <2>3, <2>5, <4>1 DEF Untimed
        <4>. QED
          BY <4>2, <4>3, <4>4 DEF NotStarted, Untimed
      <3>8. CASE q' = z
        <4>1. Planned(z, Due, simtime, 0)
          BY <2>4, <2>5, <2>6, <3>3, <3>5, PlannedSame
        <4>2. Planned(q', Due', simtime', 0)
          BY <2>1, <3>6, <3>8, <4>1
        <4>. QED
          BY <3>7, <4>2 DEF OnPlan
      <3>9. CASE q' = requeue_task(z, t, 0)
        <4>1. PICK B : B = [Due EXCEPT ![t] = simtime]
          OBVIOUS
        <4>2. B \in Times /\ B[t] = simtime /\ \A u \in Tasks \ {t} : B[u] = Due[u]
          <5>1. PICK D \in Times, X \in Int : D = Due /\ X = simtime
            BY <2>6
          <5>2. B = [D EXCEPT ![t] = X]
            BY <4>1, <5>1
          <5>3. B \in Times /\ B[t] = X /\ \A u \in Tasks \ {t} : B[u] = D[u]
            BY <2>3, <5>2 DEF Times
          <5>. QED
            BY <5>1, <5>3
        <4>3. Planned(z, B, simtime, 0)
          BY <2>4, <2>5, <2>6, <3>3, <3>5, <4>2, PlannedSame
        <4>4. PICK k \in Lists : k = z.list /\ t \notin ToSet(k)
          BY <2>4, <3>3
        <4>5. /\ Chained(k, Starts(z, B), Gaps(z), 1)
              /\ k # <<>> => SameTick(Starts(z, B)[k[1]], simtime + Heads(z)[k[1]])
              /\ \A u \in ToSet(k) : Heads(z)[u] = 0
          BY <4>3, <4>4 DEF Planned
        <4>6. Waits(z, t, B)
          BY <4>4, <4>5 DEF Waits
        <4>7. k # <<>> => SameTick(Starts(z, B)[k[1]], simtime + 0)
          <5>1. k # <<>> => k[1] \in ToSet(k)
            BY EmptySeq, ListType DEF ToSet
          <5>. QED
            BY <4>5, <5>1
        <4>8. Heads(z)[t] = 0 /\ Starts(z, B)[t] = simtime
          <5>1. Heads(z)[t] = 0
            BY <2>3, <3>3, <3>4 DEF Heads
          <5>2. Starts(z, B)[t] = B[t] - z.tk[t].deadline
            BY <2>3 DEF Starts
          <5>3. PICK s \in Int : s = simtime
            BY <2>6
          <5>4. B[t] - z.tk[t].deadline = s - 0
            BY <3>3, <3>4, <4>2, <5>3
          <5>. QED
            BY <5>1, <5>2, <5>3, <5>4
        <4>9. SameTick(Starts(z, B)[t], simtime)
          BY <2>6, <4>8, SameTickRefl
        <4>10. z.tk[t].det_remain = 0 /\ z.tk[t].deadline = 0 /\ z.tk[t].period = q.tk[t].period
          BY <3>1, <3>3, <3>4
        <4>11. 0 \in Ticks /\ requeue_task(z, t, 0).bad = "none"
          BY <3>1, <3>9, Constants DEF TaskMoved
        <4>12. Planned(requeue_task(z, t, 0), [B EXCEPT ![t] = @ + z.tk[t].period], simtime, 0)
          <5>1. PICK zero \in Ticks : zero = 0
            BY <4>11
          <5>2. k # <<>> => SameTick(Starts(z, B)[k[1]], simtime + zero)
            BY <4>7, <5>1
          <5>3. requeue_task(z, t, zero).bad = "none"
            BY <4>11, <5>1
          <5>4. PICK X \in Int : X = simtime
            BY <2>6
          <5>5. IF z.tk[t].det_remain # 0
                THEN Planned(requeue_task(z, t, zero), B, X, 0)
                ELSE Planned(requeue_task(z, t, zero), [B EXCEPT ![t] = @ + z.tk[t].period], X,
                             z.tk[t].deadline)
            BY <2>3, <3>3, <4>2, <4>4, <4>6, <4>8, <4>9, <4>10, <5>2, <5>3, <5>4, requeue_taskPlans
          <5>. QED
            BY <4>10, <5>1, <5>4, <5>5
        <4>13. [B EXCEPT ![t] = @ + z.tk[t].period] = Due
          <5>1. PICK s \in Int, p \in Nat : s = simtime /\ p = q.tk[t].period
            BY <2>3, <2>6
          <5>2. Due[t] = s + p
            BY <2>3, <2>5, <2>6, <5>1
          <5>3. B[t] + z.tk[t].period = s + p
            BY <4>2, <4>10, <5>1
          <5>4. Due \in Times
            BY <2>6
          <5>5. PICK D \in Times : D = Due
            BY <5>4
          <5>n. PICK n : n = z.tk[t].period
            OBVIOUS
          <5>6. B = [D EXCEPT ![t] = simtime] /\ D[t] = B[t] + n
            BY <4>1, <5>2, <5>3, <5>5, <5>n
          <5>7. [B EXCEPT ![t] = @ + n] = D
            BY <2>3, <5>6 DEF Times
          <5>. QED
            BY <5>5, <5>7, <5>n
        <4>14. Planned(q', Due', simtime', 0)
          BY <2>1, <3>6, <3>9, <4>12, <4>13
        <4>. QED
          BY <3>7, <4>14 DEF OnPlan
      <3>. QED
        BY <3>1, <3>2, <3>8, <3>9
    <2>. QED
      BY <2>1, <2>7, <2>8
  <1>. QED
    BY <1>1, <1>2

(* What is left of the plan when the head is taken off and comes back as I *)
(* n ticks after its start: each of the tasks behind it starts as before.  *)
GivesBack(x, t, I, n, z) ==
    /\ x \in Queue /\ x.list \in Lists /\ x.list # <<>> /\ t = Head(x.list) /\ t \in Tasks
    /\ I \in TaskType /\ n \in Nat
    /\ I.gap = x.tk[t].gap - n /\ I.deadline = x.tk[t].deadline - n
    /\ z \in Queue /\ z.list = Tail(x.list) /\ z.tk[t] = I
    /\ \A u \in Tasks \ {t} : z.tk[u] = x.tk[u]

LEMMA TailPlans ==
    ASSUME NEW x, NEW t, NEW I, NEW n, NEW z, GivesBack(x, t, I, n, z),
           NEW B \in Times, NEW X \in Int, NEW h, Planned(x, B, X, h),
           NEW now, now = X + x.tk[t].gap_head + n
    PROVE  /\ Waits(z, t, B) /\ SameTick(Starts(z, B)[t], now)
           /\ z.list # <<>> => SameTick(Starts(z, B)[z.list[1]], now + I.gap)
  <1>. SUFFICES ASSUME x \in Queue, x.list \in Lists, x.list # <<>>, t = Head(x.list), t \in Tasks,
                       I \in TaskType, n \in Nat,
                       I.gap = x.tk[t].gap - n, I.deadline = x.tk[t].deadline - n,
                       z \in Queue, z.list = Tail(x.list), z.tk[t] = I,
                       \A u \in Tasks \ {t} : z.tk[u] = x.tk[u]
                PROVE  /\ Waits(z, t, B) /\ SameTick(Starts(z, B)[t], now)
                       /\ z.list # <<>> => SameTick(Starts(z, B)[z.list[1]], now + I.gap)
    BY DEF GivesBack
  <1>1. PICK l \in Lists, k \in Lists : l = x.list /\ k = Tail(l) /\ z.list = k
    BY HeadAndTail
  <1>2. /\ Len(l) \in Nat /\ Len(k) = Len(l) - 1 /\ Len(l) >= 1 /\ l[1] = t
        /\ \A j \in 1..Len(k) : k[j] = l[j + 1] /\ k[j] \in Tasks /\ k[j] \in ToSet(k)
        /\ t \notin ToSet(k) /\ ToSet(k) \subseteq ToSet(l) /\ t \in ToSet(l)
    <2>1. l \in Seq(Tasks) /\ l # <<>> /\ k \in Seq(Tasks) /\ Head(l) = t
      BY <1>1, ListType
    <2>2. Len(l) \in Nat /\ Len(l) # 0
      BY <2>1, EmptySeq
    <2>3. Len(k) = Len(l) - 1 /\ l[1] = t /\ \A j \in 1..Len(k) : k[j] = l[j + 1]
      BY <1>1, <2>1, <2>2
    <2>4. \A j \in 1..Len(k) : k[j] \in Tasks /\ k[j] \in ToSet(k)
      BY <2>1 DEF ToSet
    <2>5. t \notin ToSet(k) /\ ToSet(l) = {t} \cup ToSet(k)
      BY <1>1, <2>1, HeadAndTail
    <2>. QED
      BY <2>2, <2>3, <2>4, <2>5
  <1>3. PICK S \in Times, G \in Times, S2 \in Times, G2 \in Times :
           S = Starts(x, B) /\ G = Gaps(x) /\ S2 = Starts(z, B) /\ G2 = Gaps(z)
    BY TimesType
  <1>4. \A u \in Tasks \ {t} : S2[u] = S[u] /\ G2[u] = G[u] /\ Heads(z)[u] = Heads(x)[u]
    BY <1>3 DEF Starts, Gaps, Heads
  <1>5. /\ x.tk[t].gap \in Nat /\ x.tk[t].deadline \in Nat /\ x.tk[t].gap_head \in Nat
    BY QueueType, Constants
  <1>6. PICK g \in Nat, d \in Nat, e \in Nat, b \in Int :
           g = x.tk[t].gap /\ d = x.tk[t].deadline /\ e = x.tk[t].gap_head /\ b = B[t]
    BY <1>5 DEF Times
  <1>7. S[t] = b - d /\ S2[t] = b - (d - n) /\ G[t] = g /\ Heads(x)[t] = e
    BY <1>3, <1>6 DEF Starts, Gaps, Heads
  <1>8. /\ \A j \in 1..(Len(l) - 1) : SameTick(S[l[j + 1]], S[l[j]] + G[l[j]])
        /\ SameTick(S[t], X + e)
        /\ \A u \in ToSet(l) : Heads(x)[u] = IF Len(l) = 1 THEN h ELSE 0
    BY <1>1, <1>2, <1>3, <1>7 DEF Planned, Chained
  <1>9. now \in Int /\ now = (X + e) + n /\ I.gap = g - n /\ I.deadline = d - n
    BY <1>6
  <1>10. SameTick(S2[t], now)
    <2>1. PICK s \in Int, y \in Int : s = b - d /\ y = X + e
      OBVIOUS
    <2>2. SameTick(s, y)
      BY <1>7, <1>8, <2>1
    <2>3. SameTick(s + n, y + n)
      BY <2>2, SameTickSum, SameTickRefl
    <2>4. S2[t] = s + n /\ now = y + n
      BY <1>7, <1>9, <2>1
    <2>. QED
      BY <2>3, <2>4
  <1>11. k # <<>> => SameTick(S2[k[1]], now + I.gap)
    <2>. SUFFICES ASSUME k # <<>> PROVE SameTick(S2[k[1]], now + I.gap)
      OBVIOUS
    <2>1. Len(k) \in Nat /\ Len(k) # 0
      BY EmptySeq, ListType
    <2>2. PICK u : u = k[1] /\ u = l[2] /\ u \in Tasks /\ u # t
      BY <1>2, <2>1
    <2>3. SameTick(S[u], S[t] + g)
      BY <1>2, <1>7, <1>8, <2>1, <2>2
    <2>4. PICK s \in Int, y \in Int, v \in Int : s = S[t] /\ y = X + e /\ v = S[u]
      BY <2>2 DEF Times
    <2>5. SameTick(v, s + g) /\ SameTick(s, y)
      BY <1>8, <2>3, <2>4
    <2>6. SameTick(s + g, y + g)
      <3>1. SameTick(s, y) /\ SameTick(g, g) /\ g \in Int
        BY <2>5, SameTickRefl
      <3>. QED
        BY <3>1, SameTickSum, Zenon
    <2>7. SameTick(v, y + g)
      <3>1. PICK a \in Int, c \in Int : a = s + g /\ c = y + g
        OBVIOUS
      <3>2. SameTick(v, a) /\ SameTick(a, c)
        BY <2>5, <2>6, <3>1
      <3>. QED
        BY <3>1, <3>2, SameTickTrans
    <2>8. now + I.gap = y + g
      BY <1>9, <2>4
    <2>9. S2[k[1]] = v
      BY <1>4, <2>2, <2>4
    <2>. QED
      BY <2>7, <2>8, <2>9
  <1>12. Chained(k, S2, G2, 1)
    <2>. SUFFICES ASSUME NEW j \in 1..(Len(k) - 1)
                  PROVE  SameTick(S2[k[j + 1]], S2[k[j]] + G2[k[j]])
      BY DEF Chained
    <2>1. /\ j \in Nat /\ j \in 1..Len(k) /\ j + 1 \in 1..Len(k) /\ j + 1 \in 1..(Len(l) - 1)
      BY <1>2
    <2>2. PICK u \in Tasks, v \in Tasks : /\ u = k[j] /\ v = k[j + 1] /\ u # t /\ v # t
                                          /\ u = l[j + 1] /\ v = l[(j + 1) + 1]
      BY <1>2, <2>1
    <2>3. SameTick(S[v], S[u] + G[u])
      BY <1>8, <2>1, <2>2
    <2>. QED
      BY <1>4, <2>2, <2>3
  <1>13. \A u \in ToSet(k) : Heads(z)[u] = 0
    <2>. TAKE u \in ToSet(k)
    <2>1. u \in Tasks /\ u # t /\ u \in ToSet(l)
      BY <1>2, ListedTasks
    <2>2. Len(l) # 1
      <3>1. k # <<>>
        BY DEF ToSet
      <3>. QED
        BY <1>2, <3>1, EmptySeq, ListType
    <2>. QED
      BY <1>4, <1>8, <2>1, <2>2
  <1>. QED
    BY <1>1, <1>2, <1>3, <1>10, <1>11, <1>12, <1>13 DEF Waits

(* A turn leaves the job of the task at the head due as it was, or the     *)
(* next one a period later.                                                *)
LEMMA ScheduleTaskPlans ==
    ASSUME IInv, IInv', OnPlan, ScheduleTask
    PROVE  OnPlan' /\ NotStarted'
  <1>1. CASE \E why : Exit(why)
    BY <1>1, ExitPlans
  <1>2. CASE ~ \E why : Exit(why)
    <2>t. PICK t \in Tasks : /\ phase = "sim" /\ q.list # <<>> /\ t = Head(q.list)
                             /\ \E I, n : Turned(t, I, n)
      BY <1>2, ScheduleTaskTurns
    <2>i. PICK I, n : Turned(t, I, n)
      BY <2>t
    <2>1. phase = "sim" /\ q.list # <<>> /\ t = Head(q.list) /\ Turned(t, I, n)
      BY <2>t, <2>i
    <2>2. phase' = "sim"
      BY <1>2, <2>1, ScheduleTaskCases
    <2>3. NotStarted'
      BY <2>2 DEF NotStarted
    <2>4. /\ I \in TaskType /\ n \in Nat /\ I.period = q.tk[t].period
          /\ I.gap_head = 0 /\ I.gap = q.tk[t].gap - n /\ I.deadline = q.tk[t].deadline - n
          /\ I.deadline = 0 \/ I.gap = 0
          /\ q' = requeue_task([q EXCEPT !.list = Tail(@), !.tk[t] = I], t, I.gap) /\ q'.bad = "none"
          /\ simtime' = simtime + q.tk[t].gap_head + n
          /\ jobs' = IF I.det_remain = 0 THEN [jobs EXCEPT ![t] = @ + 1] ELSE jobs
          /\ mode' = mode /\ policy' = policy
      BY <2>1 DEF Turned
    <2>5. q \in Queue /\ q.list \in Lists
      BY DEF IInv, TypeOK, ListsApart
    <2>6. PICK h : Planned(q, Due, simtime, h)
      BY <2>1 DEF OnPlan
    <2>7. /\ Due \in Times /\ simtime \in Int /\ jobs \in [Tasks -> Nat]
      BY DueType
    <2>8. PICK l \in Lists : l = Tail(q.list) /\ l \in Seq(Tasks) /\ t \notin ToSet(l)
      BY <2>1, <2>5, HeadAndTail
    <2>9. PICK z : /\ z \in Queue /\ z.list = l /\ z.tk[t] = I
                   /\ \A u \in Tasks \ {t} : z.tk[u] = q.tk[u]
                   /\ q' = requeue_task(z, t, I.gap)
      <3>1. PICK y : y = [q EXCEPT !.list = l]
        OBVIOUS
      <3>2. y \in Queue /\ y.list = l /\ y.tk = q.tk
        BY <2>5, <2>8, <3>1 DEF Queue
      <3>3. PICK z : z = [y EXCEPT !.tk[t] = I]
        OBVIOUS
      <3>4. z \in Queue /\ z.list = l /\ z.tk[t] = I /\ \A u \in Tasks \ {t} : z.tk[u] = q.tk[u]
        BY <2>4, <3>2, <3>3, TaskSet
      <3>5. z = [q EXCEPT !.list = Tail(@), !.tk[t] = I]
        <4>1. z = [q EXCEPT !.list = l, !.tk[t] = I]
          BY <2>5, <3>1, <3>3 DEF Queue
        <4>. QED
          BY <2>8, <4>1
      <3>. QED
        BY <2>4, <3>4, <3>5
    <2>10. PICK X \in Int : X = simtime + q.tk[t].gap_head + n
      <3>1. simtime \in Int /\ q.tk[t].gap_head \in Nat
        BY <2>5, <2>7, QueueType, Constants
      <3>2. simtime + q.tk[t].gap_head + n \in Int
        BY <2>4, <3>1
      <3>. QED
        BY <3>2
    <2>11. PICK B \in Times, Y \in Int : B = Due /\ Y = simtime
      BY <2>7
    <2>12. /\ Waits(z, t, B) /\ SameTick(Starts(z, B)[t], X)
           /\ z.list # <<>> => SameTick(Starts(z, B)[z.list[1]], X + I.gap)
      <3>1. Planned(q, B, Y, h) /\ X = Y + q.tk[t].gap_head + n
        BY <2>6, <2>10, <2>11
      <3>2. GivesBack(q, t, I, n, z)
        BY <2>1, <2>4, <2>5, <2>8, <2>9 DEF GivesBack
      <3>. QED
        BY <3>1, <3>2, TailPlans
    <2>13. PICK g \in Ticks : g = I.gap
      BY <2>4 DEF TaskType
    <2>14. /\ Heads(z)[t] = 0 /\ (I.det_remain = 0 => I.deadline = 0 \/ g = 0)
           /\ z.list # <<>> => SameTick(Starts(z, B)[z.list[1]], X + g)
           /\ q' = requeue_task(z, t, g) /\ requeue_task(z, t, g).bad = "none"
      BY <2>4, <2>9, <2>12, <2>13 DEF Heads
    <2>15. IF z.tk[t].det_remain # 0
           THEN Planned(requeue_task(z, t, g), B, X, 0)
           ELSE Planned(requeue_task(z, t, g), [B EXCEPT ![t] = @ + z.tk[t].period], X,
                        z.tk[t].deadline)
      BY <2>9, <2>12, <2>14, requeue_taskPlans
    <2>16. \A u \in Tasks : q'.tk[u].period = q.tk[u].period
      <3>1. Requeued(z, t, q')
        BY <2>8, <2>9, <2>14, RequeueKeepsTasks
      <3>2. \A u \in Tasks : SameTask(q'.tk[u], z.tk[u])
        BY <2>4, <3>1 DEF Requeued, Retimed
      <3>. QED
        BY <2>4, <2>9, <3>2 DEF SameTask
    <2>17. Due' = IF I.det_remain = 0 THEN [Due EXCEPT ![t] = @ + q.tk[t].period] ELSE Due
      BY <2>4, <2>16, DueNext
    <2>18. simtime' = X
      BY <2>4, <2>10
    <2>19. \E f : Planned(q', Due', simtime', f)
      <3>1. CASE I.det_remain # 0
        <4>1. Due' = B
          BY <2>11, <2>17, <3>1
        <4>2. Planned(q', B, X, 0)
          BY <2>9, <2>14, <2>15, <3>1
        <4>. QED
          BY <2>18, <4>1, <4>2
      <3>2. CASE I.det_remain = 0
        <4>1. PICK C : C = [B EXCEPT ![t] = @ + z.tk[t].period]
          OBVIOUS
        <4>2. Due' = C
          BY <2>4, <2>9, <2>11, <2>17, <3>2, <4>1
        <4>3. Planned(q', C, X, I.deadline)
          BY <2>9, <2>14, <2>15, <3>2, <4>1
        <4>. QED
          BY <2>18, <4>2, <4>3
      <3>. QED
        BY <3>1, <3>2
    <2>. QED
      BY <2>2, <2>3, <2>19 DEF OnPlan
  <1>. QED
    BY <1>1, <1>2

LEMMA InitPlans ==
    ASSUME Init
    PROVE  OnPlan /\ NotStarted
  <1>1. PICK c \in Confs :
          q = [list |-> [t \in DOMAIN c |-> t],
               tk   |-> [t \in Tasks |-> IF t \in DOMAIN c
                                         THEN create_task(c[t].wcet, c[t].period) ELSE NoTask],
               bad  |-> "none"]
    BY DEF Init
  <1>2. phase = "init" /\ jobs = [t \in Tasks |-> 0]
    BY DEF Init
  <1>3. Queued \subseteq Tasks
    BY InitInv, ListedTasks DEF IInv, ListsApart, Queued
  <1>4. \A t \in Tasks : q.tk[t].deadline = 0 /\ q.tk[t].gap_head = 0
    BY <1>1 DEF NoTask, create_task
  <1>. QED
    BY <1>2, <1>3, <1>4 DEF OnPlan, NotStarted, Untimed

(* Nothing is queued yet. *)
LEMMA InitPolicyPlans ==
    ASSUME IInv, NotStarted, InitPolicy
    PROVE  OnPlan' /\ NotStarted'
  <1>1. CASE Policy = "fixed" /\ Exit("failed to initialize policy")
    BY <1>1, ExitPlans
  <1>2. CASE ~(Policy = "fixed" /\ Exit("failed to initialize policy"))
    <2>1. /\ phase = "init" /\ phase' = "setup" /\ temp' = q.list /\ q' = [q EXCEPT !.list = <<>>]
          /\ jobs' = jobs
      BY <1>2 DEF InitPolicy, account
    <2>2. q'.list = <<>> /\ q'.tk = q.tk
      BY <2>1 DEF IInv, TypeOK, Queue
    <2>3. NotStarted'
      BY <2>1, <2>2 DEF NotStarted, Untimed, Queued
    <2>4. Planned(q', Due', simtime', 0)
      BY <2>2 DEF Planned, Chained, ToSet
    <2>. QED
      BY <2>3, <2>4 DEF OnPlan
  <1>. QED
    BY <1>1, <1>2

LEMMA EndPlans ==
    ASSUME OnPlan, EndSetup \/ EndSim
    PROVE  OnPlan' /\ NotStarted'
  <1>1. /\ phase \in {"setup", "sim"} /\ phase' \in {"sim", "done"}
        /\ mode' = mode /\ policy' = policy /\ q' = q /\ simtime' = simtime /\ jobs' = jobs
    BY DEF EndSetup, EndSim, driver, account
  <1>2. Due' = Due
    BY <1>1 DEF Due, StartOfRun
  <1>3. PICK h : Planned(q, Due, simtime, h)
    BY <1>1 DEF OnPlan
  <1>4. Planned(q', Due', simtime', h)
    BY <1>1, <1>2, <1>3
  <1>. QED
    BY <1>1, <1>4 DEF OnPlan, NotStarted

(* reinit_tasks leaves no times to the queued tasks. *)
LEMMA NextPolicyPlans ==
    ASSUME IInv, NextPolicy
    PROVE  OnPlan' /\ NotStarted'
  <1>1. /\ phase' \in {"init", "exited"} /\ q' = [q EXCEPT !.tk = reinit_tasks]
        /\ jobs' = [t \in Tasks |-> 0]
    BY DEF NextPolicy, ToPolicy
  <1>2. q \in Queue /\ q.tk \in [Tasks -> TaskType]
    BY DEF IInv, TypeOK, Queue
  <1>3. q'.list = q.list /\ q'.tk = reinit_tasks
    BY <1>1, <1>2 DEF Queue
  <1>4. Queued \subseteq Tasks
    BY ListedTasks DEF IInv, ListsApart, Queued
  <1>5. \A t \in Queued : q'.tk[t].deadline = 0 /\ q'.tk[t].gap_head = 0
    <2>1. \A T \in TaskType : reinit_task(T).deadline = 0 /\ reinit_task(T).gap_head = 0
      BY DEF reinit_task, TaskType
    <2>2. \A t \in Queued : q'.tk[t] = reinit_task(q.tk[t]) /\ q.tk[t] \in TaskType
      BY <1>2, <1>3, <1>4 DEF reinit_tasks, Queued
    <2>. QED
      BY <2>1, <2>2
  <1>6. Queued' = Queued
    BY <1>3 DEF Queued
  <1>. QED
    BY <1>1, <1>5, <1>6 DEF OnPlan, NotStarted, Untimed

LEMMA StutterPlans ==
    ASSUME OnPlan, NotStarted, UNCHANGED vars
    PROVE  OnPlan' /\ NotStarted'
  <1>1. /\ mode' = mode /\ policy' = policy /\ phase' = phase /\ temp' = temp
        /\ q' = q /\ simtime' = simtime /\ jobs' = jobs
    BY DEF vars
  <1>2. Due' = Due
    BY <1>1 DEF Due, StartOfRun
  <1>3. NotStarted'
    BY <1>1 DEF NotStarted, Untimed, Queued
  <1>4. OnPlan'
    BY <1>1, <1>2 DEF OnPlan
  <1>. QED
    BY <1>3, <1>4

(* The inductive invariant of the plan. *)
PInv == IInv /\ OnPlan /\ NotStarted

LEMMA NextPlans ==
    ASSUME PInv, [Next]_vars
    PROVE  PInv'
  <1>1. IInv /\ OnPlan /\ NotStarted
    BY DEF PInv
  <1>2. IInv'
    BY <1>1, NextInv
  <1>3. CASE InitPolicy
    BY <1>1, <1>2, <1>3, InitPolicyPlans DEF PInv
  <1>4. CASE SetupTask
    BY <1>1, <1>2, <1>4, SetupTaskPlans DEF PInv
  <1>5. CASE EndSetup \/ EndSim
    BY <1>1, <1>2, <1>5, EndPlans DEF PInv
  <1>6. CASE ScheduleTask
    BY <1>1, <1>2, <1>6, ScheduleTaskPlans DEF PInv
  <1>7. CASE Return
    <2>1. Exit("ok")
      BY <1>7 DEF Return
    <2>. QED
      BY <1>2, <2>1, ExitPlans DEF PInv
  <1>8. CASE NextPolicy
    BY <1>1, <1>2, <1>8, NextPolicyPlans DEF PInv
  <1>9. CASE UNCHANGED vars
    BY <1>1, <1>2, <1>9, StutterPlans DEF PInv
  <1>10. Exited => UNCHANGED vars
    BY DEF Exited
  <1>. QED
    BY <1>3, <1>4, <1>5, <1>6, <1>7, <1>8, <1>9, <1>10 DEF Next

(* The gaps of the tasks before it add up to the start of a task.          *)
LEMMA PlannedStarts ==
    ASSUME NEW x \in Queue, x.list \in Lists, NEW B \in Times, NEW X \in Int, NEW h,
           Planned(x, B, X, h)
    PROVE  \A k \in 1..Len(x.list) :
              /\ StartTick(x, X, k) \in Int
              /\ SameTick(Starts(x, B)[x.list[k]], StartTick(x, X, k) + Heads(x)[x.list[k]])
  <1>1. PICK l \in Lists : l = x.list
    OBVIOUS
  <1>2. /\ Len(l) \in Nat /\ DOMAIN l = 1..Len(l)
        /\ \A j \in 1..Len(l) : l[j] \in Tasks /\ l[j] \in ToSet(l)
    BY ListType DEF ToSet
  <1>3. PICK S \in Times, G \in Times, H \in Times :
           S = Starts(x, B) /\ G = Gaps(x) /\ H = Heads(x)
    BY TimesType
  <1>w. PICK W : W = Spans(x)
    OBVIOUS
  <1>4. \A j \in 1..Len(l) : W[j] = H[l[j]] + G[l[j]] /\ W[j] \in Nat
    <2>. TAKE j \in 1..Len(l)
    <2>1. PICK u \in Tasks : u = l[j]
      BY <1>2
    <2>2. x.tk[u].gap \in Nat /\ x.tk[u].gap_head \in Nat
      BY QueueType, Constants
    <2>3. W[j] = x.tk[u].gap_head + x.tk[u].gap
      BY <1>1, <1>2, <1>w, <2>1 DEF Spans
    <2>4. H[u] = x.tk[u].gap_head /\ G[u] = x.tk[u].gap
      BY <1>3 DEF Heads, Gaps
    <2>. QED
      BY <2>1, <2>2, <2>3, <2>4
  <1>5. /\ \A j \in 1..(Len(l) - 1) : SameTick(S[l[j + 1]], S[l[j]] + G[l[j]])
        /\ l # <<>> => SameTick(S[l[1]], X + H[l[1]])
        /\ \A u \in ToSet(l) : H[u] = IF Len(l) = 1 THEN h ELSE 0
    BY <1>1, <1>3 DEF Planned, Chained
  <1> DEFINE A(k) == SumFunctionOnSet(W, 1..(k - 1))
  <1>6. \A k \in 1..Len(l) : /\ A(k) \in Nat /\ StartTick(x, X, k) = X + A(k)
                             /\ k = 1 => A(k) = 0
                             /\ k < Len(l) => A(k + 1) = A(k) + W[k]
    <2>. TAKE k \in 1..Len(l)
    <2>1. k \in Nat /\ 1 \in Int /\ k - 1 \in Int /\ k \in Int /\ (k + 1) - 1 = k /\ 1 <= k
      BY <1>2
    <2>2. \A i \in 1..(k - 1) : W[i] \in Nat
      BY <1>2, <1>4
    <2>3. A(k) \in Nat /\ (k - 1 < 1 => A(k) = 0)
      BY <2>1, <2>2, SumUpTo
    <2>4. \A i \in 1..k : W[i] \in Nat
      BY <1>2, <1>4
    <2>5. SumFunctionOnSet(W, 1..k) = A(k) + W[k]
      BY <2>1, <2>4, SumUpTo
    <2>6. StartTick(x, X, k) = X + A(k)
      BY <1>w DEF StartTick
    <2>. QED
      BY <2>1, <2>3, <2>5, <2>6
  <1>. HIDE DEF A
  <1> DEFINE Late == {k \in 1..Len(l) : ~SameTick(S[l[k]], (X + A(k)) + H[l[k]])}
  <1>7. Late = {}
    <2>. SUFFICES ASSUME Late # {} PROVE FALSE
      OBVIOUS
    <2>1. Late \in SUBSET Nat
      BY <1>2
    <2>2. PICK k \in Late : \A j \in Late : k <= j
      BY <2>1, LeastExists
    <2>3. k \in 1..Len(l) /\ k \in Nat /\ ~SameTick(S[l[k]], (X + A(k)) + H[l[k]])
      BY <1>2
    <2>4. CASE k = 1
      <3>1. l # <<>>
        BY <1>2, <2>3, EmptySeq
      <3>2. X + A(k) = X
        BY <1>6, <2>3, <2>4
      <3>. QED
        BY <1>5, <2>3, <2>4, <3>1, <3>2
    <2>5. CASE k # 1
      <3>1. PICK j : j = k - 1 /\ j \in 1..(Len(l) - 1) /\ j \in 1..Len(l) /\ j + 1 = k /\ j < k
        BY <1>2, <2>3, <2>5
      <3>2. j \notin Late
        BY <2>2, <2>3, <3>1
      <3>3. PICK s \in Int, v \in Int, g \in Int, e \in Int, a \in Int :
               s = S[l[j]] /\ v = S[l[k]] /\ g = G[l[j]] /\ e = H[l[j]] /\ a = X + A(j)
        <4>1. l[j] \in Tasks /\ l[k] \in Tasks /\ A(j) \in Nat
          BY <1>2, <1>6, <2>3, <3>1
        <4>2. X + A(j) \in Int
          BY <4>1
        <4>. QED
          BY <4>1, <4>2 DEF Times
      <3>4. SameTick(s, a + e) /\ SameTick(v, s + g)
        <4>1. SameTick(S[l[j]], (X + A(j)) + H[l[j]])
          BY <3>1, <3>2
        <4>2. SameTick(S[l[j + 1]], S[l[j]] + G[l[j]])
          BY <1>5, <3>1
        <4>. QED
          BY <3>1, <3>3, <4>1, <4>2
      <3>5. SameTick(v, (a + e) + g)
        <4>1. PICK b \in Int, c \in Int, d \in Int : b = a + e /\ c = s + g /\ d = b + g
          OBVIOUS
        <4>2. SameTick(s, b) /\ SameTick(g, g) /\ SameTick(v, c)
          BY <3>4, <4>1, SameTickRefl
        <4>3. SameTick(s + g, b + g)
          BY <4>2, SameTickSum, Zenon
        <4>4. SameTick(v, d)
          BY <4>1, <4>2, <4>3, SameTickTrans
        <4>. QED
          BY <4>1, <4>4
      <3>6. X + A(k) = (a + e) + g
        <4>1. PICK n \in Nat, w \in Nat : n = A(j) /\ w = W[j] /\ w = e + g
          <5>1. j \in 1..Len(l)
            BY <3>1
          <5>2. A(j) \in Nat /\ W[j] \in Nat /\ W[j] = H[l[j]] + G[l[j]]
            BY <1>4, <1>6, <5>1
          <5>3. PICK n \in Nat, w \in Nat : n = A(j) /\ w = W[j]
            BY <5>2
          <5>4. w = e + g
            BY <3>3, <5>2, <5>3
          <5>. QED
            BY <5>3, <5>4
        <4>2. A(k) = n + w
          <5>1. j \in 1..Len(l) /\ j < Len(l)
            BY <1>2, <2>3, <3>1
          <5>2. A(j + 1) = A(j) + W[j]
            BY <1>6, <5>1
          <5>3. A(j + 1) = A(k)
            BY <3>1
          <5>. QED
            BY <4>1, <5>2, <5>3
        <4>3. a = X + n
          BY <3>3, <4>1
        <4>4. X + (n + w) = (a + e) + g
          BY <4>1, <4>3
        <4>. QED
          BY <4>2, <4>4
      <3>7. H[l[k]] = 0
        BY <1>2, <1>5, <2>3, <3>1
      <3>8. (X + A(k)) + H[l[k]] = (a + e) + g
        BY <3>6, <3>7
      <3>9. SameTick(S[l[k]], (X + A(k)) + H[l[k]])
        BY <3>3, <3>5, <3>8
      <3>. QED
        BY <2>3, <3>9
    <2>. QED
      BY <2>4, <2>5
  <1>8. ASSUME NEW k \in 1..Len(l)
        PROVE  /\ StartTick(x, X, k) \in Int
               /\ SameTick(S[l[k]], StartTick(x, X, k) + H[l[k]])
    <2>1. SameTick(S[l[k]], (X + A(k)) + H[l[k]])
      BY <1>7
    <2>2. A(k) \in Nat /\ StartTick(x, X, k) = X + A(k)
      BY <1>6
    <2>. QED
      BY <2>1, <2>2
  <1>. QED
    BY <1>1, <1>3, <1>8

(* Each deadline the queue tells is the end of the period of the job the   *)
(* task is at.                                                             *)
LEMMA PlanMeetsDeadlines ==
    ASSUME IInv, OnPlan
    PROVE  JobDeadline
  <1>. SUFFICES ASSUME phase \in {"setup", "sim", "done"}, NEW k \in DOMAIN q.list
                PROVE  AbsDeadline(q, simtime, k)
                         = U(StartOfRun + (jobs[q.list[k]] + 1) * q.tk[q.list[k]].period)
    BY DEF JobDeadline
  <1>1. PICK h : Planned(q, Due, simtime, h)
    BY DEF OnPlan
  <1>2. q \in Queue /\ q.list \in Lists
    BY DEF IInv, TypeOK, ListsApart
  <1>3. k \in 1..Len(q.list) /\ q.list[k] \in Tasks
    BY <1>2, ListType
  <1>4. PICK B \in Times, X \in Int : B = Due /\ X = simtime
    BY DueType
  <1>5. PICK t \in Tasks : t = q.list[k]
    BY <1>3
  <1>6. PICK a \in Int : a = StartTick(q, X, k) /\ SameTick(Starts(q, B)[t], a + Heads(q)[t])
    BY <1>1, <1>2, <1>3, <1>4, <1>5, PlannedStarts
  <1>7. PICK e \in Nat, d \in Nat : e = q.tk[t].gap_head /\ d = q.tk[t].deadline
    BY <1>2, QueueType, Constants
  <1>8. PICK b \in Int : b = B[t] /\ b = StartOfRun + (jobs[t] + 1) * q.tk[t].period
    <2>1. B[t] \in Int
      BY DEF Times
    <2>2. B[t] = StartOfRun + (jobs[t] + 1) * q.tk[t].period
      BY <1>4, DueType
    <2>. QED
      BY <2>1, <2>2
  <1>9. SameTick(b - d, a + e)
    BY <1>6, <1>7, <1>8 DEF Starts, Heads
  <1>10. SameTick(b, (a + e) + d)
    <2>1. PICK s \in Int, y \in Int, z \in Int : s = b - d /\ y = a + e /\ z = y + d
      OBVIOUS
    <2>2. SameTick(s, y) /\ SameTick(d, d) /\ d \in Int
      BY <1>9, <2>1, SameTickRefl
    <2>3. SameTick(s + d, y + d)
      BY <2>2, SameTickSum, Zenon
    <2>4. s + d = b
      BY <2>1
    <2>. QED
      BY <2>1, <2>3, <2>4
  <1>11. U((a + e) + d) = U(b)
    <2>1. PICK z \in Int : z = (a + e) + d
      OBVIOUS
    <2>2. U(b) = U(z)
      BY <1>10, <2>1, SameTickWraps
    <2>. QED
      BY <2>1, <2>2
  <1>12. AbsDeadline(q, simtime, k) = U((a + e) + d)
    BY <1>4, <1>5, <1>6, <1>7 DEF AbsDeadline
  <1>. QED
    BY <1>5, <1>8, <1>11, <1>12

(* The relative times the queue keeps, the gaps, the head's gap and the    *)
(* deadlines of a task_t, add up, in unsigned arithmetic, to the end of    *)
(* the period of the job each task is at: however requeue_task,            *)
(* delay_tasks and apply_gap_head move the tasks, whatever a policy        *)
(* rescales, and for any number of tasks, no job is skipped, run twice or  *)
(* moved.                                                                  *)
THEOREM DeadlinesMeet == Spec => []JobDeadline
  <1>1. Init => PInv
    BY InitInv, InitPlans DEF PInv
  <1>2. PInv /\ [Next]_vars => PInv'
    BY NextPlans
  <1>3. PInv => JobDeadline
    BY PlanMeetsDeadlines DEF PInv
  <1>. QED
    BY <1>1, <1>2, <1>3, PTL DEF Spec
=============================================================================
