----------------------------- MODULE TaskQueue -----------------------------
(***************************************************************************)
(* The queue of task.c.  A queue is a record:                              *)
(*   list   the task numbers in the order of the list `tasks'              *)
(*   tk     the task_t of every task, queued or not                        *)
(*   bad    the first assertion of task.c that failed, or "none"           *)
(* The operators take a queue and return the one the C function leaves.    *)
(* The tick counts of a task_t are unsigned: U wraps them round at UMod.   *)
(***************************************************************************)
EXTENDS Mem, FiniteSetsExt, Functions, SequencesExt

CONSTANTS
    MemTypeOrder,  \* the memories of the *mem section, in order: mems[]
    FreqScale,     \* wcet_scale of cpufreqs[], in percent
    MemScale       \* [MemTypes -> Nat]: wcet_scale of a memory, in percent

U(x) == x % UMod

n_cpufreqs == Len(FreqScale)

None == 0    \* no task: tasks are numbered from 1

create_task(wcet, period) ==
    [wcet |-> wcet, period |-> period, idx_cpufreq |-> 0, mem_type |-> "none",
     det |-> 0, det_remain |-> 0, gap_head |-> 0, gap |-> 0, deadline |-> 0]

Ticks == 0..(UMod - 1)

TaskType ==
    [wcet : Nat, period : Nat, idx_cpufreq : Nat, mem_type : MemTypes \cup {"none"},
     det : Ticks, det_remain : Ticks, gap_head : Ticks, gap : Ticks, deadline : Ticks]

Asserts == {"no delay", "no gap left", "gap past deadline", "next deadline passed"}

Queue == [list : Seq(Tasks), tk : [Tasks -> TaskType], bad : Asserts \cup {"none"}]

(* TASK_RET: how long a task runs when it is at the head. *)
task_ret(T) == Min({T.det_remain, T.gap})

(* Where x is on a list without repetitions. *)
Place(list, x) == SelectInSeq(list, LAMBDA y : y = x)

Succ(q, t) ==
    LET k == Place(q.list, t)
    IN  IF k < Len(q.list) THEN q.list[k + 1] ELSE None

(* Mutant: x is linked out by the insertion. *)
InsertOver(q, t, x) == [q EXCEPT !.list = ReplaceAt(@, Place(@, x), t)]

InsertBefore(q, t, x) == [q EXCEPT !.list = InsertAt(@, Place(@, x), t)]

Fail(q, what) == IF q.bad = "none" THEN [q EXCEPT !.bad = what] ELSE q

Check(q, cond, what) == IF cond THEN q ELSE Fail(q, what)

----------------------------------------------------------------------------
(* (int)round(n / d) *)
RoundDiv(n, d) == (2 * n + d) \div (2 * d)

(* calc_task_det for a frequency and a memory type.  The execution time is *)
(* wcet / (frequency scale * memory scale), where the memory scale is the  *)
(* one of mems[] at the NUMBER of the type (DRAM 1, NVRAM 2).  A remaining *)
(* time is scaled by the unrounded new time over the old one.              *)
Scale(freq, m) == FreqScale[freq] * MemScale[MemTypeOrder[IF m = "dram" THEN 1 ELSE 2]]

Det(wcet, freq, m) == Max({1, RoundDiv(wcet * 10000, Scale(freq, m))})

calc_task_det(T, freq, m) ==
    LET det == Det(T.wcet, freq, m)
    IN  [T EXCEPT !.idx_cpufreq = freq,
                  !.mem_type = m,
                  !.det = det,
                  !.det_remain = IF @ > 0 /\ det # T.det
                                 THEN RoundDiv(@ * T.wcet * 10000, Scale(freq, m) * T.det) ELSE @]

(* The assertions of calc_task_det, on the task before and after.          *)
det_asserts(T, new) ==
    T.det_remain > 0 /\ new.det # T.det =>
        new.det_remain # 0 /\ new.det_remain <= new.det

(* det / period, exactly, as a numerator over the product of all periods.  *)
PeriodProduct(q) == FoldFunction(LAMBDA T, p : T.period * p, 1, q.tk)
Share(q, T) == T.det * (PeriodProduct(q) \div T.period)

(* get_tasks_ndet: the share of the CPU the listed tasks ask for. *)
get_tasks_ndet(q) == MapThenSumSet(LAMBDA t : Share(q, q.tk[t]), ToSet(q.list))

(* is_schedulable(T) for a task that is off the list. *)
is_schedulable(q, T) == get_tasks_ndet(q) + Share(q, T) <= PeriodProduct(q)

----------------------------------------------------------------------------
(* The larger share of the time to its deadline that a task still needs,   *)
(* the sooner it runs.  Multiplying out decides as the code's quotients do *)
(* for a deadline of 0 too (infinity, or not a number: no order).          *)
is_preceding_task(tk, a, b) ==
    LET l == tk[a].det_remain * tk[b].deadline
        r == tk[b].det_remain * tk[a].deadline
    IN  l > r \/ (l = r /\ a < b)

(* A task must not wait for another one when it has no slack left, and     *)
(* does not when its share is the larger one.                              *)
TakesOver(tk, a, b) == tk[a].deadline = tk[a].det_remain \/ is_preceding_task(tk, a, b)

(* delay_tasks(task, &target): by how many ticks `task' may run ahead of   *)
(* `target', which is pushed back, together with the tasks behind it that  *)
(* it runs into.  `delay' is the function from the loop on, with i ticks   *)
(* granted and `next' behind the target; both sides of the loop condition  *)
(* i < task->det_remain move towards each other.  The result's target is   *)
(* another one when the delayed task fell behind its follower.             *)
(*                                                                         *)
(* Where it may be: no task is listed twice, the target is on the list,    *)
(* and `task' is not on it or in front of the target.                      *)
Delays ==
    {s \in [q : Queue, t : Tasks, target : Tasks, next : Tasks \cup {None}, i : Ticks] :
        /\ IsInjective(s.q.list)
        /\ s.target \in ToSet(s.q.list)
        /\ \A k \in DOMAIN s.q.list : s.q.list[k] = s.t => k < Place(s.q.list, s.target)
        /\ s.next = Succ(s.q, s.target)}

StartDelay(q, t, target) ==
    [q |-> q, t |-> t, target |-> target, next |-> Succ(q, target), i |-> 0]

Stops(s) ==
    \/ s.q.bad # "none"
    \/ s.i >= s.q.tk[s.t].det_remain
    \/ TakesOver(s.q.tk, s.target, s.t)

(* One more tick is granted; with a task behind it, the target's gap ends  *)
(* sooner.                                                                 *)
Granted(s) ==
    LET q1 == [s.q EXCEPT !.tk[s.target].deadline = U(@ - 1),
                          !.tk[s.t].det_remain = U(@ - 1),
                          !.tk[s.t].deadline = U(@ - 1)]
    IN  [s EXCEPT !.q = IF s.next = None THEN q1
                        ELSE [q1 EXCEPT !.tk[s.target].gap = U(@ - 1)],
                  !.i = @ + 1]

RunsInto(s) == s.next # None /\ s.q.tk[s.target].gap = 0

(* The target runs into its follower; the one that precedes goes first.    *)
Faced(s) ==
    LET k == Place(s.q.list, s.target)
        q == [s.q EXCEPT !.list = [@ EXCEPT ![k] = s.next, ![k + 1] = s.target],
                         !.tk[s.target].gap = s.q.tk[s.next].gap]
    IN  IF is_preceding_task(s.q.tk, s.target, s.next) THEN s
        ELSE [s EXCEPT !.q = q, !.target = s.next, !.next = s.target]

(* The other one was delayed, by r. *)
Pushed(s, r) ==
    [s EXCEPT !.q = [r.q EXCEPT !.tk[s.target].gap = r.i], !.next = r.target]

(* Mutant: task->deadline is not restored. *)
EndDelayKeepsDeadline(q, r) ==
    [r EXCEPT !.q = [@ EXCEPT !.tk[r.t].det_remain = q.tk[r.t].det_remain]]

(* Behind the loop: task->det_remain and deadline are restored; i != 0.    *)
EndDelay(q, r) ==
    LET T == q.tk[r.t]
    IN  [r EXCEPT !.q = Check([@ EXCEPT !.tk[r.t].det_remain = T.det_remain,
                                        !.tk[r.t].deadline = T.deadline],
                              r.i # 0, "no delay")]

delay[s \in Delays] ==
    LET g == Granted(s)
        x == Faced(g)
        r == EndDelay(x.q, delay[StartDelay(x.q, x.target, x.next)])
    IN  IF Stops(s) THEN s
        ELSE IF ~RunsInto(g) THEN delay[g]
        ELSE delay[Pushed(x, r)]

delay_tasks(q, t, target) == EndDelay(q, delay[StartDelay(q, t, target)])

(* apply_gap_head: the head starts gap_head ticks from now, so the tasks   *)
(* behind it, up to the first with a gap, have that much less to their     *)
(* deadlines.                                                              *)
apply_gap_head(q, gap_head) ==
    LET behind == {k \in 2..Len(q.list) :
                      \A j \in 2..(k - 1) : q.tk[q.list[j]].gap = 0}
        moved  == {q.list[k] : k \in behind}
    IN  Check([q EXCEPT !.tk = [t \in DOMAIN q.tk |->
                  IF t \in moved THEN [q.tk[t] EXCEPT !.deadline = U(@ - gap_head)]
                                 ELSE q.tk[t]]],
              \A t \in moved : q.tk[t].deadline > gap_head, "gap past deadline")

(* Mutant: a task always lets its predecessor run on. *)
NewStartBehind(tk, t, prev) == task_ret(tk[prev])

(* get_new_start: how long `task' lets its predecessor run before it would *)
(* take over.  The least number of ticks at which one of the loop's exits  *)
(* holds; both sides of `i < TASK_RET(prev)' may move here too.            *)
NewStart(tk, t, prev) ==
    LET P(i) == [tk[prev] EXCEPT !.det_remain = U(@ - i), !.deadline = U(@ - i)]
        T(i) == [tk[t] EXCEPT !.deadline = U(@ - i)]
        stop(i) == \/ i >= task_ret(P(i))
                   \/ TakesOver([tk EXCEPT ![prev] = P(i), ![t] = T(i)], t, prev)
    IN  Min({i \in 0..tk[prev].det_remain : stop(i)})

(* Putting `task' in front of `til', the k-th of the list.  It takes the   *)
(* time til's predecessor has left over; it either fits in before `ticks', *)
(* when til starts, or til is delayed.                                     *)
PutBefore(q, t, k, start, ticks) ==
    LET til  == q.list[k]
        left == U(q.tk[q.list[k - 1]].gap - (ticks - start))
        q1   == IF k = 1 THEN q
                ELSE Check([q EXCEPT !.tk[q.list[k - 1]].gap = left], left > 0, "no gap left")
        r    == delay_tasks(q1, t, til)
        q2   == IF q1.bad # "none" THEN q1
                ELSE IF ticks <= start
                THEN InsertBefore([r.q EXCEPT !.tk[t].gap = r.i], t, r.target)
                ELSE InsertBefore([q1 EXCEPT !.tk[t].gap = ticks - start], t, til)
    IN  IF q2.list[1] = t
        THEN apply_gap_head([q2 EXCEPT !.tk[t].gap_head = start], start)
        ELSE [q2 EXCEPT !.tk[t].gap_head = 0]

(* Behind the whole list. *)
PutLast(q, t, start, ticks) ==
    LET q1 == IF q.list = <<>>
              THEN [q EXCEPT !.tk[t].gap_head = start]
              ELSE [q EXCEPT !.tk[t].gap_head = 0,
                             !.tk[Last(q.list)].gap = U(@ - (ticks - start))]
    IN  [q1 EXCEPT !.tk[t].gap = q.tk[t].det_remain, !.list = Append(@, t)]

(* The loop of requeue_task, at the k-th task of the list: `start' is when *)
(* the task could start, `ticks' when that one does, both from now.        *)
requeue[s \in [q : Queue, t : Tasks, k : Nat \ {0}, start : Ticks, ticks : Ticks]] ==
    LET q   == s.q
        til == q.list[s.k]
        n   == NewStart(q.tk, s.t, til)
    IN  IF s.k > Len(q.list) THEN PutLast(q, s.t, s.start, s.ticks)
        ELSE IF \/ s.start < s.ticks
                \/ s.start = s.ticks /\ is_preceding_task(q.tk, s.t, til)
        THEN PutBefore(q, s.t, s.k, s.start, s.ticks)
        ELSE requeue[[s EXCEPT !.q.tk[s.t].deadline = U(@ - n),
                               !.k = @ + 1,
                               !.start = U(@ + n),
                               !.ticks = U(@ + q.tk[til].gap_head + q.tk[til].gap)]]

requeue_from(q, t, start, ticks) ==
    requeue[[q |-> q, t |-> t, k |-> 1, start |-> start, ticks |-> ticks]]

(* Mutant: the next job does not wait for the current deadline. *)
requeue_task_at_once(q, t, ticks) ==
    LET T    == q.tk[t]
        q1   == [q EXCEPT !.tk[t].deadline = U(@ + T.period), !.tk[t].det_remain = T.det]
    IN  requeue_from(IF T.det_remain = 0 THEN q1 ELSE q, t, 0, ticks)

(* requeue_task(task, ticks): a finished job gives way to the next one,    *)
(* which may not start before the current deadline.                        *)
requeue_task(q, t, ticks) ==
    LET T    == q.tk[t]
        now  == U(T.gap_head + T.deadline)
        next == U(T.deadline + T.period)
        q1   == Check([q EXCEPT !.tk[t].deadline = U(next - now),
                                !.tk[t].det_remain = T.det],
                      next >= now, "next deadline passed")
    IN  IF T.det_remain # 0 THEN requeue_from(q, t, 0, ticks)
        ELSE IF q1.bad = "none" THEN requeue_from(q1, t, now, ticks)
        ELSE q1

----------------------------------------------------------------------------
(* check_queued_tasks: the self-check after each step.  The first task of  *)
(* the list with something wrong decides the message.                      *)
Spans(q) == [j \in DOMAIN q.list |-> q.tk[q.list[j]].gap_head + q.tk[q.list[j]].gap]
StartTick(q, simtime, k) == simtime + SumFunctionOnSet(Spans(q), 1..(k - 1))
AbsDeadline(q, simtime, k) ==
    LET T == q.tk[q.list[k]]
    IN  U(StartTick(q, simtime, k) + T.gap_head + T.deadline)

TaskFault(q, simtime, k) ==
    LET T == q.tk[q.list[k]]
    IN  IF T.det = 0 \/ T.det_remain = 0 THEN "zero det"
        ELSE IF T.det < T.det_remain THEN "invalid det"
        ELSE IF T.gap = 0 THEN "zero gap"
        ELSE IF AbsDeadline(q, simtime, k) % T.period # 0 THEN "invalid deadline"
        ELSE "none"

check_queued_tasks(q, simtime) ==
    LET faults == [k \in DOMAIN q.list |-> TaskFault(q, simtime, k)]
        first  == SelectInSeq(faults, LAMBDA f : f # "none")
    IN  IF first = 0 THEN "none" ELSE faults[first]
=============================================================================
