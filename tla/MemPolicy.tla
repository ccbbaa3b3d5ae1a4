----------------------------- MODULE MemPolicy -----------------------------
(***************************************************************************)
(* The memory ledger of a memwork run, whatever the timing of the tasks.   *)
(* The policies of one run or of all runs are taken in turn: the tasks are *)
(* set up one by one (setup_tasks), then run in some order, each run       *)
(* asking the policy to reassign the task first (schedule_task).  Which    *)
(* task runs and on which memory types the set stays schedulable is left   *)
(* open, so what holds here holds for every task timing; Memwork, which    *)
(* computes both, implements this module.                                  *)
(***************************************************************************)
EXTENDS Mem

VARIABLES
    mode,          \* "one": -p was given; "all": main calls runsim_all
    policy,        \* index of the running policy in AllPolicies
    phase,         \* "init", "setup", "sim", "done" or "exited"
    temp,          \* tasks on setup_tasks' local list
    queued,        \* tasks on the list `tasks' (the running one included)
    mem_type,      \* task->mem_type
    amount,        \* mems[].amount
    reassign_done  \* of policy_dvshm_greedy.c

vars == <<mode, policy, phase, temp, queued, mem_type, amount, reassign_done>>

(* Bounds on the configuration: task ids can be counted, and no sum of a   *)
(* request and a ledger within its limit wraps round.                      *)
ASSUME TasksAssumption == IsFiniteSet(Tasks)
ASSUME ConfAssumption ==
    /\ MemReq \in [Tasks -> Nat]
    /\ MaxCapacity \in [MemTypes -> Nat]
    /\ FixedMem \in [Tasks -> MemTypes]
ASSUME NoWrapAssumption ==
    /\ UMod \in Nat \ {0}
    /\ \A t \in Tasks :
          MaxCapacity["dram"] + MaxCapacity["nvram"] + MemReq[t] < UMod
    /\ MaxCapacity["dram"] + MaxCapacity["nvram"] < UMod

Policy == AllPolicies[policy]

----------------------------------------------------------------------------
Init ==
    /\ mode \in {"one", "all"}
    /\ policy \in IF mode = "all" THEN {1} ELSE DOMAIN AllPolicies
    /\ phase = "init"
    /\ temp = {}
    /\ queued \in SUBSET Tasks      \* the tasks of the *task section
    /\ mem_type = [t \in Tasks |-> "none"]
    /\ amount = [m \in MemTypes |-> 0]
    /\ reassign_done = {}

(* runsim up to setup_tasks' loop: policy->init, then the whole list moves *)
(* to temp.  fixed_init fails when task.txt cannot be read: FATAL.         *)
InitPolicy ==
    /\ phase = "init"
    /\ \/ /\ Policy = "fixed"
          /\ phase' = "exited"
          /\ UNCHANGED <<temp, queued, reassign_done>>
       \/ /\ phase' = "setup"
          /\ temp' = queued
          /\ queued' = {}
          /\ reassign_done' = IF Policy = "dvshm_gr" THEN {} ELSE reassign_done
    /\ UNCHANGED <<mode, policy, mem_type, amount>>

(* One turn of setup_tasks' loop.  When the task gets no memory, or gets   *)
(* it and is unschedulable, setup_tasks returns FALSE: that task and those *)
(* left on temp are on no list any more.                                   *)
SetupTask(t) ==
    /\ phase = "setup"
    /\ t \in temp
    /\ \/ /\ ~Assignable(Policy, amount, t)
          /\ phase' = "done"
          /\ temp' = {}
          /\ UNCHANGED <<queued, mem_type, amount>>
       \/ /\ Assignable(Policy, amount, t)
          /\ LET m == AssignedMem(Policy, amount, t) IN
                /\ mem_type' = [mem_type EXCEPT ![t] = m]
                /\ amount' = Charge(amount, t, m)
          /\ \/ /\ temp' = temp \ {t}
                /\ queued' = queued \cup {t}
                /\ phase' = "setup"
             \/ /\ temp' = {}
                /\ phase' = "done"
                /\ UNCHANGED queued
    /\ UNCHANGED <<mode, policy, reassign_done>>

EndSetup ==
    /\ phase = "setup"
    /\ temp = {}
    /\ phase' = "sim"
    /\ UNCHANGED <<mode, policy, temp, queued, mem_type, amount, reassign_done>>

(* One task runs: policy->reassign_task moves its memory or leaves it.     *)
RunTask(t) ==
    /\ phase = "sim"
    /\ t \in queued
    /\ IF MovesMemory(Policy) /\ ~(Policy = "dvshm_gr" /\ t \in reassign_done)
       THEN \E S \in SUBSET MemTypes :
              LET freed == Release(amount, t, mem_type[t]) IN
                /\ Movable(Policy, freed, t, S)
                /\ mem_type' = [mem_type EXCEPT ![t] = NewMem(Policy, freed, t, S)]
                /\ amount' = MovedAmount(Policy, freed, t, S)
                /\ reassign_done' = IF Policy = "dvshm_gr"
                                    THEN reassign_done \cup {t}
                                    ELSE reassign_done
       ELSE UNCHANGED <<mem_type, amount, reassign_done>>
    /\ UNCHANGED <<mode, policy, phase, temp, queued>>

(* A FATAL or a failed assertion of set-up or of the simulation. *)
Abort ==
    /\ phase \in {"setup", "sim"}
    /\ phase' = "exited"
    /\ UNCHANGED <<mode, policy, temp, queued, mem_type, amount, reassign_done>>

EndSim ==
    /\ phase = "sim"
    /\ phase' = "done"
    /\ UNCHANGED <<mode, policy, temp, queued, mem_type, amount, reassign_done>>

(* Mutant: runsim_all runs past the end of all_policies[]. *)
NextPolicyPastEnd ==
    /\ phase = "done"
    /\ mode = "all"
    /\ policy' = policy + 1
    /\ phase' = "init"
    /\ amount' = [m \in MemTypes |-> 0]
    /\ UNCHANGED <<mode, temp, queued, mem_type, reassign_done>>

(* Back from runsim: the process ends, or runsim_all goes on to the next   *)
(* policy after reinit_mems.                                               *)
NextPolicy ==
    /\ phase = "done"
    /\ IF mode = "all" /\ policy < Len(AllPolicies)
       THEN policy' = policy + 1 /\ phase' = "init"
       ELSE policy' = policy /\ phase' = "exited"
    /\ amount' = IF mode = "all" THEN [m \in MemTypes |-> 0] ELSE amount
    /\ UNCHANGED <<mode, temp, queued, mem_type, reassign_done>>

(* The process has ended. *)
Exited == phase = "exited" /\ UNCHANGED vars

Next ==
    \/ InitPolicy
    \/ \E t \in Tasks : SetupTask(t) \/ RunTask(t)
    \/ EndSetup
    \/ Abort
    \/ EndSim
    \/ NextPolicy
    \/ Exited

Spec == Init /\ [][Next]_vars

----------------------------------------------------------------------------
(* The units of memory m held by the tasks on the list: a task holds       *)
(* memreq of them.                                                         *)
Holders(m) == {t \in queued : mem_type[t] = m}
UnitsOf(t) == {t} \X (1..MemReq[t])
HeldBy(H)  == Cardinality(UNION {UnitsOf(t) : t \in H})
Held(m)    == HeldBy(Holders(m))

MemPolicyTypeOK ==
    /\ mode \in {"one", "all"}
    /\ policy \in DOMAIN AllPolicies
    /\ phase \in {"init", "setup", "sim", "done", "exited"}
    /\ temp \subseteq Tasks
    /\ queued \subseteq Tasks
    /\ mem_type \in [Tasks -> MemTypes \cup {"none"}]
    /\ amount \in [MemTypes -> Nat]
    /\ reassign_done \subseteq Tasks

(* The phases in which the ledger is in use. *)
Running == phase \in {"setup", "sim"}

(* A task is waiting to be set up or it is on the queue, never both, and   *)
(* one that is queued during a run owns memory of a real type.             *)
Placed ==
    /\ temp \cap queued = {}
    /\ Running => \A t \in queued : mem_type[t] \in MemTypes

(* What mems[].amount says is never less than what the queued tasks hold,  *)
(* for every policy: assign_mem, revoke_mem and the policies' retry loops  *)
(* together never hand out the same memory twice.                          *)
LedgerCovers == Running => \A m \in MemTypes : amount[m] >= Held(m)

(* The ledger is exact, except for NVRAM under hm, whose reassign_task     *)
(* does not give back the NVRAM of a try that was not schedulable.         *)
LedgerExact ==
    Running => \A m \in MemTypes :
                  (Policy # "hm" \/ m = "dram") => amount[m] = Held(m)

(* No memory is handed out beyond what the policy may use: the capacity of *)
(* the type, or that of the machine for a policy with one type.            *)
CapacityRespected ==
    Running => \A m \in MemTypes : amount[m] <= Limit(Policy, m)

(* The assertion of revoke_mem (mem.c:62) cannot fail for a queued task.   *)
RevokeSafe ==
    Running => \A t \in queued : amount[mem_type[t]] >= MemReq[t]

(* Reassigning never fails for want of memory: once a task has given its   *)
(* memory back there is room for it where it was, whatever hm leaked.      *)
HomeStillFits ==
    Running => \A t \in queued :
        mem_type[t] \in Tried(Policy, Release(amount, t, mem_type[t]), t)
=============================================================================
