------------------------------ MODULE Memwork ------------------------------
(***************************************************************************)
(* memwork as a whole: the driver (memwork.c), set-up and scheduling of    *)
(* the tasks (task.c), the policies and the memory ledger, and the energy  *)
(* accounts (power.c).  The program is sequential; what varies is the      *)
(* configuration, chosen in Init.                                          *)
(***************************************************************************)
EXTENDS TaskQueue

CONSTANTS
    Confs,        \* task sections: set of [1..n -> [wcet, period]]
    Modes,        \* subset of {"one", "all"}: with -p, or every policy
    Chosen,       \* the policies (indexes of AllPolicies) -p may name
    FixedFreq,    \* [Tasks -> Nat]: second column of task.txt, from 0
    IdlePower,    \* power_idle of cpufreqs[], in fixed point
    MaxSimtime    \* max_simtime, option -t

VARIABLES
    mode,          \* "one": -p was given; "all": runsim_all
    policy,        \* index of the running policy in AllPolicies
    phase,         \* "init", "setup", "sim", "done" or "exited"
    reason,        \* why the process exited, "ok" when main returned
    temp,          \* setup_tasks' local list
    q,             \* the list `tasks' and every task_t
    amount,        \* mems[].amount
    reassign_done, \* of policy_dvshm_greedy.c
    simtime,
    power_consumed_cpu_idle,  \* in the fixed point of IdlePower
    charged,       \* ticks of memory energy charged to each task
    jobs           \* jobs each task has completed (a history)

vars == <<mode, policy, phase, reason, temp, q, amount, reassign_done, simtime,
          power_consumed_cpu_idle, charged, jobs>>

driver == <<mode, policy>>
account == <<power_consumed_cpu_idle, charged, jobs>>

(* What conf.c and the tables of the configuration guarantee; execution    *)
(* times and memories fit into an unsigned.                                *)
ASSUME ConfAssumption ==
    /\ UMod \in Nat \ {0} /\ MaxSimtime \in Nat
    /\ Cardinality(Tasks) \in Nat /\ Tasks = 1..Cardinality(Tasks)
    /\ MemReq \in [Tasks -> Nat] /\ MaxCapacity \in [MemTypes -> Nat]
    /\ MemTypeOrder \in Seq(MemTypes) /\ ToSet(MemTypeOrder) = MemTypes
    /\ MemScale \in [MemTypes -> Nat \ {0}]
    /\ FreqScale \in Seq(Nat \ {0}) /\ n_cpufreqs >= 1
    /\ \A i \in 2..n_cpufreqs : FreqScale[i] <= FreqScale[i - 1]
    /\ IdlePower \in [1..n_cpufreqs -> Nat]

ASSUME TaskAssumption ==
    \A c \in Confs :
        /\ \E n \in Tasks : DOMAIN c = 1..n
        /\ \A t \in DOMAIN c :
              /\ c[t].period \in Nat /\ c[t].wcet \in 1..(c[t].period - 1)
              /\ \A f \in 1..n_cpufreqs, m \in MemTypes : Det(c[t].wcet, f, m) \in Ticks

(* The policies' choices: task.txt names memories and frequencies there    *)
(* are, and policy_dram a second frequency.                                *)
ASSUME PolicyAssumption ==
    /\ Modes \subseteq {"one", "all"} /\ Chosen \subseteq DOMAIN AllPolicies
    /\ \A t \in Tasks : FixedMem[t] \in MemTypes /\ FixedFreq[t] \in 0..(n_cpufreqs - 1)
    /\ "all" \in Modes \/ 4 \in Chosen => n_cpufreqs >= 2

Policy == AllPolicies[policy]

(* What stands in tk for the tasks a smaller task section does not have.   *)
NoTask == create_task(0, 1)
Configured == {t \in Tasks : q.tk[t].wcet > 0}

----------------------------------------------------------------------------
Init ==
    /\ mode \in Modes
    /\ policy \in IF mode = "all" THEN {1} ELSE Chosen
    /\ phase = "init"
    /\ reason = "none"
    /\ temp = <<>>
    /\ \E c \in Confs :
          q = [list |-> [t \in DOMAIN c |-> t],
               tk   |-> [t \in Tasks |-> IF t \in DOMAIN c
                                         THEN create_task(c[t].wcet, c[t].period) ELSE NoTask],
               bad  |-> "none"]
    /\ amount = [m \in MemTypes |-> 0]
    /\ reassign_done = {}
    /\ simtime = 0
    /\ power_consumed_cpu_idle = 0
    /\ charged = [t \in Tasks |-> 0]
    /\ jobs = [t \in Tasks |-> 0]

(* FATAL, or a failed assertion: the process is gone. *)
Exit(why) ==
    /\ phase' = "exited"
    /\ reason' = why
    /\ UNCHANGED <<driver, temp, q, amount, reassign_done, simtime, account>>

(* runsim: policy->init (fixed_init reads task.txt and may fail), then     *)
(* setup_tasks takes the list over.                                        *)
InitPolicy ==
    /\ phase = "init"
    /\ \/ Policy = "fixed" /\ Exit("failed to initialize policy")
       \/ /\ phase' = "setup"
          /\ temp' = q.list
          /\ q' = [q EXCEPT !.list = <<>>]
          /\ reassign_done' = IF Policy = "dvshm_gr" THEN {} ELSE reassign_done
          /\ UNCHANGED <<driver, reason, amount, simtime, account>>

(* The cpu frequency the policy's assign_task sets, as an index from 1. *)
AssignedFreq(p, t) ==
    CASE p = "dram"  -> 2
      [] p = "fixed" -> FixedFreq[t] + 1
      [] OTHER       -> 1

(* One turn of setup_tasks' loop.  The task, and on failure all that are   *)
(* left on temp, are on no list when setup_tasks returns FALSE.            *)
SetupTask ==
    /\ phase = "setup"
    /\ temp # <<>>
    /\ LET t == Head(temp) IN
       IF ~Assignable(Policy, amount, t)
       THEN /\ phase' = "done"
            /\ temp' = <<>>
            /\ UNCHANGED <<driver, reason, q, amount, reassign_done, simtime, account>>
       ELSE \E m \in {AssignedMem(Policy, amount, t)} :
            \E T \in {calc_task_det(q.tk[t], AssignedFreq(Policy, t), m)} :
            \E q1 \in {requeue_task([q EXCEPT !.tk[t] = T], t, 0)} :
               IF is_schedulable(q, T) /\ q1.bad # "none"
               THEN Exit(q1.bad)
               ELSE /\ amount' = Charge(amount, t, m)
                    /\ IF is_schedulable(q, T)
                       THEN q' = q1 /\ temp' = Tail(temp) /\ UNCHANGED phase
                       ELSE q' = [q EXCEPT !.tk[t] = T] /\ temp' = <<>> /\ phase' = "done"
                    /\ UNCHANGED <<driver, reason, reassign_done, simtime, account>>

(* Mutant: setup_tasks stops after the first task. *)
EndSetupAtOnce ==
    /\ phase = "setup"
    /\ q.list # <<>>
    /\ phase' = "sim"
    /\ UNCHANGED <<driver, reason, temp, q, amount, reassign_done, simtime, account>>

(* setup_tasks returns TRUE. *)
EndSetup ==
    /\ phase = "setup"
    /\ temp = <<>>
    /\ phase' = "sim"
    /\ UNCHANGED <<driver, reason, temp, q, amount, reassign_done, simtime, account>>

----------------------------------------------------------------------------
(* reassign_task of the policies: the memory types and frequencies tried   *)
(* for a task that has given its memory back.                              *)
Tries(p, t, freed) ==
    LET T == q.tk[t]
    IN  CASE p = "dvsdram" -> {T.mem_type} \X (1..n_cpufreqs)
          [] p = "hm"      -> Tried(p, freed, t) \X {T.idx_cpufreq}
          [] p \in {"dvshm", "dvshm_gr"} -> Tried(p, freed, t) \X (1..n_cpufreqs)

(* NVRAM is tried before DRAM, and for each the slowest frequency first.   *)
TriedBefore(x, y) ==
    \/ x.mem_type = ReassignOrder[1] /\ y.mem_type = ReassignOrder[2]
    \/ x.mem_type = y.mem_type /\ x.idx_cpufreq > y.idx_cpufreq

(* The task at the head of the list asks for its memory and frequency.     *)
(* The first try that leaves the task set schedulable is taken, unless an  *)
(* assertion of calc_task_det fails before.                                *)
reassign_task(t) ==
    LET T     == q.tk[t]
        rest  == [q EXCEPT !.list = Tail(@)]
        freed == IF MovesMemory(Policy) THEN Release(amount, t, T.mem_type) ELSE amount
        tried == {calc_task_det(T, x[2], x[1]) : x \in Tries(Policy, t, freed)}
        stops == {new \in tried : ~det_asserts(T, new) \/ is_schedulable(rest, new)}
        new   == CHOOSE x \in stops : \A y \in stops \ {x} : TriedBefore(x, y)
        keeps == \/ Policy \in {"dram", "fixed"}
                 \/ Policy = "dvshm_gr" /\ t \in reassign_done
    IN  IF keeps THEN [fault |-> "none", T |-> T, amount |-> amount]
        ELSE IF MovesMemory(Policy) /\ amount[T.mem_type] < MemReq[t]
        THEN [fault |-> "nothing to revoke"]
        ELSE IF stops = {} THEN [fault |-> "failed to reassign"]
        ELSE IF ~det_asserts(T, new) THEN [fault |-> "bad det"]
        ELSE [fault |-> "none", T |-> new,
              amount |-> IF MovesMemory(Policy)
                         THEN MovedAmount(Policy, freed, t, {new.mem_type})
                         ELSE amount]

(* calc_idle_power_consumed_cpu: the running total is decayed at each call. *)
IdleCpu(total, idle) == ((total + idle * IdlePower[n_cpufreqs]) * 12) \div 100

(* calc_active_power_consumed: the share of the ticks the CPU waits for    *)
(* the memory is charged as idle.                                          *)
ActiveCpuIdle(T, ret) ==
    LET cpu == FreqScale[T.idx_cpufreq]
        mem == MemScale[MemTypeOrder[IF T.mem_type = "dram" THEN 1 ELSE 2]]
    IN  (ret * IdlePower[T.idx_cpufreq] * cpu) \div (cpu + mem)

(* The memory energy calls of schedule_task: each idle stretch is charged  *)
(* to the listed tasks and, by another call, to the task itself; while the *)
(* task runs it is charged as active and the others as idle.               *)
MemTicks(c, S, n) == [u \in Tasks |-> IF u \in S THEN c[u] + n ELSE c[u]]

(* Mutant: the task itself is not charged behind its run. *)
ChargeRunOthersIdle(c, t, others, head, ret, idle) ==
    MemTicks(MemTicks(c, others, head + ret + idle), {t}, head + ret)

ChargeRun(c, t, others, head, ret, idle) ==
    LET waited == MemTicks(MemTicks(c, others, head), {t}, head)
        ran    == MemTicks(MemTicks(waited, {t}, ret), others, ret)
    IN  MemTicks(MemTicks(ran, others, idle), {t}, idle)

(* The idle stretch behind a run: the rest of the gap, up to the deadline. *)
IdleAfter(T) == Min({T.gap, T.deadline})

(* The ticks of one turn: the task runs until it is done or its successor  *)
(* starts, then the CPU idles.                                             *)
Ran(T, ret) == [T EXCEPT !.det_remain = U(@ - ret), !.deadline = U(@ - ret), !.gap = U(@ - ret)]

Idled(T) == [T EXCEPT !.deadline = @ - IdleAfter(T), !.gap = @ - IdleAfter(T)]

(* schedule_task from its reassigned task T on, which runs for ret ticks.  *)
(* (\E over one value: TLC computes it once.)                              *)
RunHead(t, T, ret, ledger) ==
    \E T1 \in {Ran(T, ret)} :
    \E q1 \in {requeue_task([q EXCEPT !.list = Tail(@), !.tk[t] = Idled(T1)], t, Idled(T1).gap)} :
        LET head  == q.tk[t].gap_head
            idle  == IdleAfter(T1)
            now   == simtime + head + ret + idle
            cpu   == IdleCpu(power_consumed_cpu_idle, head) + ActiveCpuIdle(T, ret)
            check == check_queued_tasks(q1, now)
        IN  IF q1.bad # "none" THEN Exit(q1.bad)
            ELSE IF check # "none" THEN Exit(check)
            ELSE /\ q' = q1
                 /\ simtime' = now
                 /\ amount' = ledger
                 /\ reassign_done' = IF Policy = "dvshm_gr" THEN reassign_done \cup {t}
                                     ELSE reassign_done
                 /\ jobs' = IF T1.det_remain = 0 THEN [jobs EXCEPT ![t] = @ + 1] ELSE jobs
                 /\ charged' = ChargeRun(charged, t, ToSet(Tail(q.list)), head, ret, idle)
                 /\ power_consumed_cpu_idle' = IF T1.gap > 0 THEN IdleCpu(cpu, idle) ELSE cpu
                 /\ UNCHANGED <<driver, phase, reason, temp>>

(* One turn of runsim's loop: pop_head_task, schedule_task and             *)
(* check_queued_tasks.                                                     *)
ScheduleTask ==
    /\ phase = "sim"
    /\ simtime <= MaxSimtime
    /\ q.list # <<>>
    /\ \E t \in {Head(q.list)} : \E re \in {reassign_task(t)} :
          IF re.fault # "none" THEN Exit(re.fault)
          ELSE \E T \in {[re.T EXCEPT !.gap_head = 0]} :
               IF task_ret(T) > T.deadline THEN Exit("deadline violated")
               ELSE RunHead(t, T, task_ret(T), re.amount)

(* The loop ends; report_result. *)
EndSim ==
    /\ phase = "sim"
    /\ simtime > MaxSimtime \/ q.list = <<>>
    /\ phase' = "done"
    /\ UNCHANGED <<driver, reason, temp, q, amount, reassign_done, simtime, account>>

(* runsim has returned.  main ends the process, or runsim_all prepares the *)
(* next policy: simtime, cleanup_report, reinit_tasks (the tasks that are  *)
(* still on the list), reinit_mems.                                        *)
RestartTime == 11

reinit_task(T) == [T EXCEPT !.det = 0, !.det_remain = 0, !.gap_head = 0,
                            !.gap = 0, !.deadline = 0]

Return ==
    /\ phase = "done"
    /\ mode = "one"
    /\ Exit("ok")

ToPolicy(p, tk, ledger) ==
    /\ phase = "done"
    /\ mode = "all"
    /\ IF p <= Len(AllPolicies)
       THEN policy' = p /\ phase' = "init" /\ UNCHANGED reason
       ELSE policy' = policy /\ phase' = "exited" /\ reason' = "ok"
    /\ simtime' = RestartTime
    /\ q' = [q EXCEPT !.tk = tk]
    /\ amount' = ledger
    /\ power_consumed_cpu_idle' = 0
    /\ charged' = [t \in Tasks |-> 0]
    /\ jobs' = [t \in Tasks |-> 0]
    /\ UNCHANGED <<mode, temp, reassign_done>>

reinit_tasks == [t \in Tasks |-> IF t \in ToSet(q.list) THEN reinit_task(q.tk[t]) ELSE q.tk[t]]
EmptyLedger  == [m \in MemTypes |-> 0]

(* Mutants: without reinit_mems, without reinit_tasks, without i++.        *)
NextPolicyKeepsLedger == ToPolicy(policy + 1, reinit_tasks, amount)
NextPolicyKeepsTicks  == ToPolicy(policy + 1, q.tk, EmptyLedger)
NextPolicyAgain       == ToPolicy(policy, reinit_tasks, EmptyLedger)

NextPolicy == ToPolicy(policy + 1, reinit_tasks, EmptyLedger)

Exited == phase = "exited" /\ UNCHANGED vars

Next ==
    \/ InitPolicy
    \/ SetupTask
    \/ EndSetup
    \/ ScheduleTask
    \/ EndSim
    \/ Return
    \/ NextPolicy
    \/ Exited

(* A sequential program that is given the processor runs on: weak fairness *)
(* of Next.  It is written with ENABLED <<Next>>_vars spelled out: a step  *)
(* that changes something is possible in every state but the exited ones   *)
(* (the deadlock check shows that one always is).                          *)
Fairness == []<>(phase = "exited") \/ []<><<Next>>_vars

Spec == Init /\ [][Next]_vars /\ Fairness

----------------------------------------------------------------------------
Queued == ToSet(q.list)

(* The clock of the first policy starts at 0, that of each later one where *)
(* runsim_all sets it.                                                     *)
StartOfRun == IF mode = "one" \/ policy = 1 THEN 0 ELSE RestartTime

(* Policies that never change the frequency or the memory of a task.       *)
FixedSpeed == Policy \in {"dram", "fixed"}

TypeOK ==
    /\ mode \in Modes /\ policy \in DOMAIN AllPolicies
    /\ phase \in {"init", "setup", "sim", "done", "exited"}
    /\ temp \in Seq(Tasks) /\ q \in Queue
    /\ phase \notin {"setup", "exited"} => temp = <<>>
    /\ amount \in [MemTypes -> 0..(UMod - 1)] /\ reassign_done \subseteq Tasks
    /\ simtime \in Nat /\ power_consumed_cpu_idle \in Nat
    /\ charged \in [Tasks -> Nat] /\ jobs \in [Tasks -> Nat]

(* Taking a task off, swapping two while one is delayed and putting one    *)
(* back lose no task and list none twice; only a set-up that fails drops   *)
(* tasks, the one at hand and those not yet set up.                        *)
NoTaskLost ==
    [][LET all == temp \o q.list IN
       \/ phase = "setup" /\ phase' = "done"
       \/ Len(all') = Len(all) /\ ToSet(all') = ToSet(all)]_vars

(* The deadline of a queued task, reconstructed from the gaps of all tasks *)
(* before it, is the end of the period of the job it is at, counted from   *)
(* the start of the run: no job is skipped, run twice or moved by the      *)
(* relative times the queue keeps, in no policy's run.  The deadline the   *)
(* queue tells is an unsigned, and so is the end of the period.            *)
JobDeadline ==
    phase \in {"setup", "sim", "done"} =>
        \A k \in DOMAIN q.list :
            LET t == q.list[k]
            IN  AbsDeadline(q, simtime, k) = U(StartOfRun + (jobs[t] + 1) * q.tk[t].period)

(* No job starts before its period begins, and at fixed speeds every      *)
(* queued job still fits before its deadline from the tick it is planned   *)
(* to start at.                                                            *)
FeasibleQueue ==
    phase \in {"setup", "sim"} => \A t \in Queued :
        /\ q.tk[t].deadline <= q.tk[t].period
        /\ FixedSpeed => q.tk[t].det_remain <= q.tk[t].deadline

(* At fixed speeds a set that passes is_schedulable misses no deadline.    *)
NoMissAtFixedSpeed == FixedSpeed => reason # "deadline violated"

(* The assertions of calc_task_det hold however a remaining time is        *)
(* rescaled and rounded, with any number of tasks, and with two of them    *)
(* none of the queue's self-checks and assertions fires (with three they   *)
(* do: DelayGranted; and "invalid deadline" when runsim_all has set the    *)
(* clock: DeadlineOnClock).                                                *)
QueueFaults == {"no delay", "no gap left", "gap past deadline", "next deadline passed",
                "zero det", "invalid det", "zero gap", "invalid deadline"}
QueueSound ==
    /\ reason # "bad det"
    /\ Cardinality(Configured) <= 2 /\ mode = "one" => reason \notin QueueFaults

(* delay_tasks (task.c:219) expects that a task that goes before another   *)
(* can always run ahead of it by a tick: ASSERT(i != 0).                   *)
DelayGranted == reason # "no delay"

(* check_queued_tasks (task.c:399) expects that every queued deadline is a *)
(* multiple of the task's period on the clock simtime.                     *)
DeadlineOnClock == reason # "invalid deadline"

(* schedule_task (task.c:346) gives up at a missed deadline; a policy sets *)
(* a frequency only when is_schedulable accepts it, so none is missed.     *)
NoDeadlineMissed == reason # "deadline violated"

(* The memory of every queued task is charged for every tick of the run,   *)
(* once, as active or as idle.                                             *)
EveryTickCharged ==
    phase = "sim" => \A t \in Queued : charged[t] = simtime - StartOfRun

(* The program ends. *)
Termination == <>(phase = "exited")

(* Whatever the timing, memwork keeps the ledger as MemPolicy does. *)
Ledger == INSTANCE MemPolicy WITH
    temp     <- ToSet(temp),
    queued   <- Queued,
    mem_type <- [t \in Tasks |-> q.tk[t].mem_type]
LedgerSpec == Ledger!Spec
=============================================================================
