-------------------------------- MODULE Mem --------------------------------
(***************************************************************************)
(* The memory side of memwork: the ledger kept by mem.c (how much of each  *)
(* memory type is handed out) and the memory decisions of the policies     *)
(* (policy_*.c).  There is no state here: the ledger `amount' is a         *)
(* function from memory types to naturals that the operators take and      *)
(* return.  MemPolicy and Memwork keep it in a variable.                   *)
(***************************************************************************)
EXTENDS Integers, Sequences, FiniteSets

CONSTANTS
    Tasks,        \* the tasks of the configuration file
    MemReq,       \* [Tasks -> Nat]: memreq of a task
    MaxCapacity,  \* [MemTypes -> Nat]: max_capacity of a memory
    FixedMem,     \* [Tasks -> MemTypes]: first column of task.txt
    UMod          \* size of an unsigned int: 2^32 in the code

MemTypes == {"dram", "nvram"}

(* The policies of all_policies[], in its order. *)
AllPolicies == <<"dvshm", "dvsdram", "hm", "dram", "fixed", "dvshm_gr">>
Policies == {"dvshm", "dvsdram", "hm", "dram", "fixed", "dvshm_gr"}

(* The single_memtype field of the policy_t initialisers. *)
single_memtype(p) == p \in {"dvsdram", "dram"}

total_capacity == (MaxCapacity["dram"] + MaxCapacity["nvram"]) % UMod

(* The capacity assign_mem compares with: a policy that uses one memory    *)
(* type only is given the capacity of the whole machine.                   *)
Limit(p, m) == IF single_memtype(p) THEN total_capacity ELSE MaxCapacity[m]

(* Mutant: the request itself is not counted. *)
FitsWithoutRequest(p, amount, t, m) == Limit(p, m) >= amount[m]
Fits(p, amount, t, m) == Limit(p, m) >= (MemReq[t] + amount[m]) % UMod

(* Mutant: assign_mem that only asks. *)
ChargeNothing(amount, t, m) == amount
Charge(amount, t, m)  == [amount EXCEPT ![m] = (@ + MemReq[t]) % UMod]
Release(amount, t, m) == [amount EXCEPT ![m] = (@ - MemReq[t]) % UMod]

----------------------------------------------------------------------------
(* assign_task: the memory types a policy tries, in order, when a task is  *)
(* set up.                                                                 *)
AssignOrder(p, t) ==
    CASE p \in {"dvshm", "hm", "dvshm_gr"} -> <<"dram", "nvram">>
      [] p \in {"dvsdram", "dram"}         -> <<"dram">>
      [] p = "fixed"                       -> <<FixedMem[t]>>

Assignable(p, amount, t) ==
    \E i \in DOMAIN AssignOrder(p, t) : Fits(p, amount, t, AssignOrder(p, t)[i])

(* Mutant: the result of assign_mem is ignored. *)
AssignedMemUnasked(p, amount, t) == AssignOrder(p, t)[1]

(* The first memory type tried that fits. *)
AssignedMem(p, amount, t) ==
    LET ord  == AssignOrder(p, t)
        fits(i) == Fits(p, amount, t, ord[i])
    IN  ord[CHOOSE i \in DOMAIN ord :
                fits(i) /\ \A j \in 1..(i - 1) : ~fits(j)]

----------------------------------------------------------------------------
(* reassign_task, called each time a task is about to run.  MovesMemory    *)
(* are the policies that give the task's memory back and look for another, *)
(* NVRAM first.  S is the set of memory types on which the task set        *)
(* remains schedulable for one of the frequencies the policy tries.        *)
MovesMemory(p) == p \in {"dvshm", "hm", "dvshm_gr"}
ReassignOrder  == <<"nvram", "dram">>

(* Mutant: dvshm leaves a failed try charged too. *)
RevokesNoFailedTry(p) == p \notin {"hm", "dvshm"}

(* A type that fits but is not schedulable is given back by dvshm and      *)
(* dvshm_gr; hm keeps it charged and goes on to the next type.             *)
RevokesFailedTry(p) == p # "hm"

Tried(p, freed, t)       == {m \in MemTypes : Fits(p, freed, t, m)}
Movable(p, freed, t, S)  == Tried(p, freed, t) \cap S # {}

NewMem(p, freed, t, S) ==
    LET ok == Tried(p, freed, t) \cap S
    IN  ReassignOrder[IF ReassignOrder[1] \in ok THEN 1 ELSE 2]

(* hm's leftovers: types tried before the winner, charged and abandoned. *)
Leaked(p, freed, t, S) ==
    IF RevokesFailedTry(p) THEN {}
    ELSE (Tried(p, freed, t) \cap {ReassignOrder[1]}) \ S

(* Mutant: the memory moved to is not charged. *)
MovedAmountUncharged(p, freed, t, S) ==
    [m \in MemTypes |->
        IF m \in Leaked(p, freed, t, S) THEN (freed[m] + MemReq[t]) % UMod ELSE freed[m]]

MovedAmount(p, freed, t, S) ==
    [m \in MemTypes |->
        IF m = NewMem(p, freed, t, S) \/ m \in Leaked(p, freed, t, S)
        THEN (freed[m] + MemReq[t]) % UMod
        ELSE freed[m]]
=============================================================================
