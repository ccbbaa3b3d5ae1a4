-------------------------- MODULE MemPolicyProofs --------------------------
(***************************************************************************)
(* The ledger invariants of MemPolicy, for any number of tasks, any memory *)
(* requests and any capacities.                                            *)
(***************************************************************************)
EXTENDS MemPolicy, FiniteSetTheorems, TLAPS

(* A sum that stays below UMod does not wrap round. *)
LEMMA ModSmall ==
    ASSUME NEW x \in Nat, NEW n \in Nat \ {0}, x < n
    PROVE  x % n = x
  OBVIOUS

(* A task holds memreq units. *)
LEMMA UnitsOfTask ==
    ASSUME NEW t \in Tasks
    PROVE  IsFiniteSet(UnitsOf(t)) /\ Cardinality(UnitsOf(t)) = MemReq[t]
  <1>1. MemReq[t] \in Nat
    BY ConfAssumption
  <1>2. IsFiniteSet(1..MemReq[t]) /\ Cardinality(1..MemReq[t]) = MemReq[t]
    BY <1>1, FS_Interval, SMTT(20)
  <1>3. IsFiniteSet({t}) /\ Cardinality({t}) = 1
    BY FS_Singleton
  <1>4. /\ IsFiniteSet({t} \X (1..MemReq[t]))
        /\ Cardinality({t} \X (1..MemReq[t])) = Cardinality({t}) * Cardinality(1..MemReq[t])
    BY <1>2, <1>3, FS_Product, Zenon
  <1>5. 1 * MemReq[t] = MemReq[t]
    BY <1>1
  <1>. QED
    BY <1>2, <1>3, <1>4, <1>5 DEF UnitsOf

(* The units of a set of tasks are finitely many. *)
LEMMA UnitsFinite ==
    ASSUME NEW H \in SUBSET Tasks
    PROVE  /\ IsFiniteSet(UNION {UnitsOf(t) : t \in H})
           /\ HeldBy(H) \in Nat
  <1>0. IsFiniteSet(1..UMod)
    BY NoWrapAssumption, FS_Interval
  <1>1. IsFiniteSet(Tasks \X (1..UMod))
    BY <1>0, TasksAssumption, FS_Product, Zenon
  <1>2. UNION {UnitsOf(t) : t \in H} \subseteq Tasks \X (1..UMod)
    BY ConfAssumption, NoWrapAssumption DEF UnitsOf, MemTypes
  <1>3. IsFiniteSet(UNION {UnitsOf(t) : t \in H})
    BY <1>1, <1>2, FS_Subset
  <1>. QED
    BY <1>3, FS_CardinalityType DEF HeldBy

(* No task holds nothing; a task more holds memreq units more. *)
LEMMA HeldByNone == HeldBy({}) = 0
  <1>1. UNION {UnitsOf(t) : t \in {}} = {}
    OBVIOUS
  <1>. QED
    BY <1>1, FS_EmptySet DEF HeldBy

LEMMA HeldByOneMore ==
    ASSUME NEW H \in SUBSET Tasks, NEW t \in Tasks, t \notin H
    PROVE  HeldBy(H \cup {t}) = HeldBy(H) + MemReq[t]
  <1> DEFINE U == UNION {UnitsOf(s) : s \in H}
  <1>1. IsFiniteSet(U) /\ Cardinality(U) = HeldBy(H) /\ HeldBy(H) \in Nat
    BY UnitsFinite DEF HeldBy
  <1>2. IsFiniteSet(UnitsOf(t)) /\ Cardinality(UnitsOf(t)) = MemReq[t]
    BY UnitsOfTask
  <1>3. U \cap UnitsOf(t) = {}
    BY DEF UnitsOf
  <1>4. UNION {UnitsOf(s) : s \in H \cup {t}} = U \cup UnitsOf(t)
    OBVIOUS
  <1>5. Cardinality(U \cup UnitsOf(t))
            = Cardinality(U) + Cardinality(UnitsOf(t)) - Cardinality(U \cap UnitsOf(t))
    BY <1>1, <1>2, FS_Union, Zenon
  <1>6. Cardinality(U \cap UnitsOf(t)) = 0
    BY <1>3, FS_EmptySet
  <1>7. HeldBy(H \cup {t}) = Cardinality(U \cup UnitsOf(t))
    BY <1>4 DEF HeldBy
  <1>. QED
    BY <1>1, <1>2, <1>5, <1>6, <1>7, ConfAssumption

----------------------------------------------------------------------------
(* The policies' choices *)

(* A limit is a natural number, and a request on top of it does not wrap.  *)
LEMMA LimitBound ==
    ASSUME NEW p, NEW m \in MemTypes, NEW t \in Tasks
    PROVE  Limit(p, m) \in Nat /\ Limit(p, m) + MemReq[t] < UMod
  <1>1. /\ MaxCapacity["dram"] \in Nat
        /\ MaxCapacity["nvram"] \in Nat
        /\ MaxCapacity["dram"] + MaxCapacity["nvram"] + MemReq[t] < UMod
        /\ MemReq[t] \in Nat /\ UMod \in Nat \ {0}
    BY ConfAssumption, NoWrapAssumption, SMTT(20) DEF MemTypes
  <1>2. total_capacity = MaxCapacity["dram"] + MaxCapacity["nvram"]
    BY <1>1, ModSmall, NoWrapAssumption, SMTT(20) DEF total_capacity
  <1>. QED
    BY <1>1, <1>2 DEF Limit, MemTypes

(* A request that fits is added without wrapping and stays in the limit.   *)
LEMMA FitsAdds ==
    ASSUME NEW p, NEW m \in MemTypes, NEW t \in Tasks,
           NEW a \in [MemTypes -> Nat], a[m] <= Limit(p, m)
    PROVE  /\ (MemReq[t] + a[m]) % UMod = a[m] + MemReq[t]
           /\ (a[m] + MemReq[t]) % UMod = a[m] + MemReq[t]
           /\ Fits(p, a, t, m) <=> a[m] + MemReq[t] <= Limit(p, m)
  <1>1. /\ MemReq[t] \in Nat /\ a[m] \in Nat /\ UMod \in Nat \ {0}
        /\ Limit(p, m) \in Nat /\ Limit(p, m) + MemReq[t] < UMod
    BY LimitBound, ConfAssumption, NoWrapAssumption
  <1>2. MemReq[t] + a[m] \in Nat /\ MemReq[t] + a[m] < UMod
    BY <1>1
  <1>3. (MemReq[t] + a[m]) % UMod = MemReq[t] + a[m]
    BY <1>1, <1>2, ModSmall
  <1>. QED
    BY <1>1, <1>3 DEF Fits

(* The memory a policy assigns is one it tried and that fits. *)
LEMMA AssignedFits ==
    ASSUME NEW p \in Policies, NEW a, NEW t \in Tasks, Assignable(p, a, t)
    PROVE  /\ AssignedMem(p, a, t) \in MemTypes
           /\ Fits(p, a, t, AssignedMem(p, a, t))
  <1> DEFINE ord == AssignOrder(p, t)
             fits(i) == Fits(p, a, t, ord[i])
             first(i) == fits(i) /\ \A j \in 1..(i - 1) : ~fits(j)
  <1>1. /\ DOMAIN ord \in {1..1, 1..2}
        /\ \A i \in DOMAIN ord : ord[i] \in MemTypes
    BY ConfAssumption DEF AssignOrder, Policies, MemTypes
  <1>2. PICK k \in DOMAIN ord : fits(k)
    BY DEF Assignable
  <1>3. \E i \in DOMAIN ord : first(i)
    <2>1. k \in {1, 2} /\ 1 \in DOMAIN ord
      BY <1>1
    <2>2. CASE fits(1)
      BY <2>1, <2>2
    <2>3. CASE ~fits(1)
      <3>1. k = 2 /\ first(2)
        BY <1>2, <2>1, <2>3
      <3>. QED
        BY <3>1
    <2>. QED
      BY <2>2, <2>3
  <1>4. (CHOOSE i \in DOMAIN ord : first(i)) \in DOMAIN ord
        /\ first(CHOOSE i \in DOMAIN ord : first(i))
    BY <1>3
  <1>. QED
    BY <1>1, <1>4 DEF AssignedMem

(* The memory a task is moved to is one that fits. *)
LEMMA MovedFits ==
    ASSUME NEW p, NEW freed, NEW t \in Tasks, NEW S \in SUBSET MemTypes,
           Movable(p, freed, t, S)
    PROVE  /\ NewMem(p, freed, t, S) \in MemTypes
           /\ Fits(p, freed, t, NewMem(p, freed, t, S))
           /\ Leaked(p, freed, t, S) \subseteq {"nvram"}
           /\ \A m \in Leaked(p, freed, t, S) : p = "hm" /\ Fits(p, freed, t, m)
  BY DEF Movable, NewMem, Tried, Leaked, ReassignOrder, RevokesFailedTry, MemTypes

----------------------------------------------------------------------------
(* The inductive invariant.  The ledger invariants need where the tasks    *)
(* are (Placed) and that a run starts from an empty ledger.                *)
FreshStart ==
    /\ phase \notin {"setup", "exited"} => temp = {}
    /\ phase = "init" => amount = [m \in MemTypes |-> 0]

LedgerInv ==
    /\ MemPolicyTypeOK
    /\ FreshStart
    /\ Placed
    /\ LedgerCovers
    /\ LedgerExact
    /\ CapacityRespected

LEMMA HeldType ==
    ASSUME MemPolicyTypeOK, NEW m \in MemTypes
    PROVE  Holders(m) \in SUBSET Tasks /\ Held(m) \in Nat
  <1>1. Holders(m) \in SUBSET Tasks
    BY DEF Holders, MemPolicyTypeOK
  <1>. QED
    BY <1>1, UnitsFinite DEF Held

LEMMA PolicyType ==
    ASSUME MemPolicyTypeOK
    PROVE  Policy \in Policies
  BY DEF MemPolicyTypeOK, Policy, AllPolicies, Policies

LEMMA InitLedger == Init => LedgerInv
  <1> SUFFICES ASSUME Init PROVE LedgerInv
    OBVIOUS
  <1>1. MemPolicyTypeOK
    BY DEF Init, MemPolicyTypeOK, AllPolicies
  <1>. QED
    BY <1>1 DEF Init, LedgerInv, FreshStart, Placed, LedgerCovers, LedgerExact,
                CapacityRespected, Running

(* A run starts with an empty queue and an empty ledger. *)
LEMMA InitPolicyStep ==
    ASSUME LedgerInv, InitPolicy
    PROVE  LedgerInv'
  <1> USE DEF LedgerInv
  <1>1. MemPolicyTypeOK'
    BY DEF InitPolicy, MemPolicyTypeOK
  <1>2. FreshStart'
    BY DEF InitPolicy, FreshStart
  <1>3. CASE phase' = "exited"
    BY <1>1, <1>2, <1>3 DEF InitPolicy, Placed, LedgerCovers, LedgerExact,
                            CapacityRespected, Running, FreshStart
  <1>4. CASE phase' = "setup"
    <2>1. queued' = {} /\ amount' = [m \in MemTypes |-> 0]
      BY <1>4 DEF InitPolicy, FreshStart
    <2>2. \A m \in MemTypes : Held(m)' = 0 /\ amount'[m] = 0
      <3>1. \A m \in MemTypes : Holders(m)' = {}
        BY <2>1 DEF Holders
      <3>. QED
        BY <2>1, <3>1, HeldByNone DEF Held, HeldBy
    <2>3. \A m \in MemTypes : 0 <= Limit(Policy, m)' /\ Limit(Policy, m)' \in Nat
      BY ConfAssumption, NoWrapAssumption, ModSmall
         DEF Limit, MemTypes, total_capacity
    <2>4. Placed'
      BY <2>1 DEF Placed
    <2>5. LedgerCovers' /\ LedgerExact' /\ CapacityRespected'
      BY <2>2, <2>3 DEF LedgerCovers, LedgerExact, CapacityRespected
    <2>. QED
      BY <1>1, <1>2, <2>4, <2>5
  <1>. QED
    BY <1>3, <1>4 DEF InitPolicy

(* Setting a task up charges it to the memory it gets, and it starts to    *)
(* hold that memory in the same step.                                      *)
LEMMA SetupTaskStep ==
    ASSUME LedgerInv, NEW t \in Tasks, SetupTask(t)
    PROVE  LedgerInv'
  <1> USE DEF LedgerInv
  <1> DEFINE M == AssignedMem(Policy, amount, t)
  <1>1. Policy \in Policies /\ Policy' = Policy /\ Running
    BY PolicyType DEF SetupTask, Policy, Running
  <1>2. \A m \in MemTypes : /\ amount[m] \in Nat
                            /\ amount[m] <= Limit(Policy, m)
    BY <1>1 DEF CapacityRespected, MemPolicyTypeOK
  <1>3. CASE ~Assignable(Policy, amount, t)
    BY <1>3 DEF SetupTask, MemPolicyTypeOK, FreshStart, Placed, LedgerCovers,
                LedgerExact, CapacityRespected, Running
  <1>4. CASE Assignable(Policy, amount, t)
    <2>1. M \in MemTypes /\ Fits(Policy, amount, t, M)
      BY <1>1, <1>4, AssignedFits
    <2>2. /\ (amount[M] + MemReq[t]) % UMod = amount[M] + MemReq[t]
          /\ amount[M] + MemReq[t] <= Limit(Policy, M)
      BY <1>2, <2>1, FitsAdds DEF MemPolicyTypeOK
    <2>3. amount' = [amount EXCEPT ![M] = amount[M] + MemReq[t]]
          /\ mem_type' = [mem_type EXCEPT ![t] = M]
      BY <1>4, <2>2 DEF SetupTask, Charge
    <2>4. MemPolicyTypeOK'
      <3>1. amount[M] + MemReq[t] \in Nat
        BY <1>2, <2>1, ConfAssumption
      <3>2. amount' \in [MemTypes -> Nat] /\ mem_type' \in [Tasks -> MemTypes \cup {"none"}]
        BY <2>1, <2>3, <3>1 DEF MemPolicyTypeOK
      <3>3. /\ temp' \subseteq Tasks
            /\ queued' \subseteq Tasks
            /\ phase' \in {"setup", "done"}
        BY DEF SetupTask, MemPolicyTypeOK
      <3>. QED
        BY <3>2, <3>3 DEF SetupTask, MemPolicyTypeOK
    <2>5. FreshStart'
      BY DEF SetupTask, FreshStart
    <2>6. CASE phase' = "done"
      BY <2>4, <2>5, <2>6 DEF SetupTask, Placed, LedgerCovers, LedgerExact,
                              CapacityRespected, Running
    <2>7. CASE phase' # "done"
      <3>1. temp' = temp \ {t} /\ queued' = queued \cup {t} /\ t \notin queued
        BY <1>4, <2>7 DEF SetupTask, Placed
      <3>2. Placed'
        BY <1>1, <2>1, <2>3, <3>1 DEF Placed, MemPolicyTypeOK
      <3>3. \A m \in MemTypes :
               Holders(m)' = IF m = M THEN Holders(m) \cup {t} ELSE Holders(m)
        BY <2>3, <3>1 DEF Holders, MemPolicyTypeOK
      <3>4. Holders(M) \in SUBSET Tasks /\ t \notin Holders(M)
        BY <2>1, <3>1, HeldType DEF Holders
      <3>5. \A m \in MemTypes :
               Held(m)' = IF m = M THEN Held(m) + MemReq[t] ELSE Held(m)
        BY <3>3, <3>4, HeldByOneMore DEF Held, HeldBy
      <3>6. \A m \in MemTypes : Held(m) \in Nat
        BY HeldType
      <3>7. \A m \in MemTypes :
               amount'[m] = IF m = M THEN amount[m] + MemReq[t] ELSE amount[m]
        BY <2>3 DEF MemPolicyTypeOK
      <3>8. MemReq[t] \in Nat
        BY ConfAssumption
      <3>9. LedgerCovers'
        BY <1>1, <1>2, <3>5, <3>6, <3>7, <3>8 DEF LedgerCovers
      <3>10. LedgerExact'
        BY <1>1, <1>2, <3>5, <3>6, <3>7, <3>8 DEF LedgerExact
      <3>11. CapacityRespected'
        <4>1. \A m \in MemTypes : amount'[m] <= Limit(Policy, m)
          BY <1>2, <2>2, <3>7
        <4>. QED
          BY <1>1, <4>1 DEF CapacityRespected
      <3>. QED
        BY <2>4, <2>5, <3>2, <3>9, <3>10, <3>11
    <2>. QED
      BY <2>6, <2>7
  <1>. QED
    BY <1>3, <1>4

(* Moving a task: what it held is given back, then one type (for hm        *)
(* perhaps NVRAM as well) is charged and the task holds memory there.      *)
LEMMA RunTaskStep ==
    ASSUME LedgerInv, NEW t \in Tasks, RunTask(t)
    PROVE  LedgerInv'
  <1> USE DEF LedgerInv
  <1> DEFINE old   == mem_type[t]
             freed == Release(amount, t, old)
             req   == MemReq[t]
             Rest(m) == Holders(m) \ {t}
  <1>1. /\ Policy \in Policies /\ Policy' = Policy /\ Running /\ Running'
        /\ t \in queued /\ queued' = queued /\ temp' = temp /\ phase' = phase
    BY PolicyType DEF RunTask, Policy, Running
  <1>2. FreshStart'
    BY <1>1 DEF FreshStart, Running
  <1>3. CASE UNCHANGED <<mem_type, amount, reassign_done>>
    BY <1>1, <1>2, <1>3 DEF RunTask, MemPolicyTypeOK, Placed, LedgerCovers, LedgerExact,
       CapacityRespected, Held, Holders
  <1>4. CASE \E S \in SUBSET MemTypes :
                /\ Movable(Policy, freed, t, S)
                /\ mem_type' = [mem_type EXCEPT ![t] = NewMem(Policy, freed, t, S)]
                /\ amount' = MovedAmount(Policy, freed, t, S)
                /\ reassign_done' \in {reassign_done, reassign_done \cup {t}}
    <2>1. PICK S \in SUBSET MemTypes :
                /\ Movable(Policy, freed, t, S)
                /\ mem_type' = [mem_type EXCEPT ![t] = NewMem(Policy, freed, t, S)]
                /\ amount' = MovedAmount(Policy, freed, t, S)
                /\ reassign_done' \in {reassign_done, reassign_done \cup {t}}
      BY <1>4
    <2> DEFINE M == NewMem(Policy, freed, t, S)
               L == Leaked(Policy, freed, t, S)
    <2>2. old \in MemTypes
      BY <1>1 DEF Placed
    <2>3. \A m \in MemTypes :
             /\ Rest(m) \in SUBSET Tasks /\ t \notin Rest(m)
             /\ HeldBy(Rest(m)) \in Nat
             /\ HeldBy(Rest(m) \cup {t}) = HeldBy(Rest(m)) + req
             /\ Held(m) = IF m = old THEN HeldBy(Rest(m)) + req ELSE HeldBy(Rest(m))
      <3> SUFFICES ASSUME NEW m \in MemTypes
                   PROVE  /\ Rest(m) \in SUBSET Tasks /\ t \notin Rest(m)
                          /\ HeldBy(Rest(m)) \in Nat
                          /\ HeldBy(Rest(m) \cup {t}) = HeldBy(Rest(m)) + req
                          /\ Held(m) = IF m = old THEN HeldBy(Rest(m)) + req
                                                  ELSE HeldBy(Rest(m))
        OBVIOUS
      <3>1. Rest(m) \in SUBSET Tasks /\ t \notin Rest(m)
        BY HeldType
      <3>2. HeldBy(Rest(m)) \in Nat /\ HeldBy(Rest(m) \cup {t}) = HeldBy(Rest(m)) + req
        BY <3>1, UnitsFinite, HeldByOneMore
      <3>3. Holders(m) = IF m = old THEN Rest(m) \cup {t} ELSE Rest(m)
        BY <1>1 DEF Holders
      <3>. QED
        BY <3>1, <3>2, <3>3 DEF Held
    <2>4. /\ req \in Nat
          /\ \A m \in MemTypes : /\ amount[m] \in Nat /\ amount[m] >= Held(m)
                                 /\ amount[m] <= Limit(Policy, m)
                                 /\ Limit(Policy, m) \in Nat /\ Limit(Policy, m) < UMod
      <3>1. req \in Nat
        BY ConfAssumption
      <3>2. \A m \in MemTypes : /\ amount[m] \in Nat /\ amount[m] >= Held(m)
                                /\ amount[m] <= Limit(Policy, m)
        BY <1>1 DEF LedgerCovers, CapacityRespected, MemPolicyTypeOK
      <3>3. \A m \in MemTypes : Limit(Policy, m) \in Nat /\ Limit(Policy, m) < UMod
        <4>1. \A m \in MemTypes : Limit(Policy, m) \in Nat /\ Limit(Policy, m) + req < UMod
          BY LimitBound
        <4>. QED
          BY <3>1, <4>1, NoWrapAssumption
      <3>. QED
        BY <3>1, <3>2, <3>3
    <2>5. \A m \in MemTypes :
             freed[m] = IF m = old THEN amount[m] - req ELSE amount[m]
      <3>1. amount[old] - req \in Nat /\ amount[old] - req < UMod
        <4>1. /\ HeldBy(Rest(old)) \in Nat /\ Held(old) = HeldBy(Rest(old)) + req
              /\ amount[old] \in Nat /\ amount[old] >= Held(old)
              /\ amount[old] <= Limit(Policy, old)
              /\ Limit(Policy, old) \in Nat /\ Limit(Policy, old) < UMod
          BY <2>2, <2>3, <2>4
        <4> HIDE DEF Rest, old, req
        <4>. QED
          BY <4>1, <2>4, NoWrapAssumption
      <3>2. (amount[old] - req) % UMod = amount[old] - req
        BY <3>1, ModSmall, NoWrapAssumption
      <3>. QED
        BY <3>2 DEF Release, MemPolicyTypeOK
    <2>6. /\ freed \in [MemTypes -> Nat]
          /\ \A m \in MemTypes : /\ freed[m] >= HeldBy(Rest(m))
                                 /\ freed[m] <= Limit(Policy, m)
                                 /\ amount[m] = Held(m) => freed[m] = HeldBy(Rest(m))
      <3>1. \A m \in MemTypes : /\ freed[m] \in Nat
                                /\ freed[m] >= HeldBy(Rest(m))
                                /\ freed[m] <= Limit(Policy, m)
                                /\ amount[m] = Held(m) => freed[m] = HeldBy(Rest(m))
        <4>1. SUFFICES ASSUME NEW m \in MemTypes
                       PROVE  /\ freed[m] \in Nat
                              /\ freed[m] >= HeldBy(Rest(m))
                              /\ freed[m] <= Limit(Policy, m)
                              /\ amount[m] = Held(m) => freed[m] = HeldBy(Rest(m))
          OBVIOUS
        <4>2. freed[m] = IF m = old THEN amount[m] - req ELSE amount[m]
          BY <2>5
        <4>3. /\ HeldBy(Rest(m)) \in Nat
              /\ Held(m) = IF m = old THEN HeldBy(Rest(m)) + req ELSE HeldBy(Rest(m))
          BY <2>3
        <4>4. /\ amount[m] \in Nat /\ amount[m] >= Held(m)
              /\ amount[m] <= Limit(Policy, m) /\ Limit(Policy, m) \in Nat
          BY <2>4
        <4> HIDE DEF Rest, old, freed, req
        <4>. QED
          BY <4>2, <4>3, <4>4, <2>4
      <3>2. freed = [m \in MemTypes |-> freed[m]]
        BY DEF Release, MemPolicyTypeOK
      <3>. QED
        BY <3>1, <3>2
    <2>7. /\ M \in MemTypes
          /\ L \subseteq {"nvram"} /\ (L # {} => Policy = "hm")
          /\ \A m \in L \cup {M} :
                /\ m \in MemTypes
                /\ (freed[m] + req) % UMod = freed[m] + req
                /\ freed[m] + req <= Limit(Policy, m)
      <3>1. /\ M \in MemTypes /\ Fits(Policy, freed, t, M)
            /\ L \subseteq {"nvram"}
            /\ \A m \in L : Policy = "hm" /\ Fits(Policy, freed, t, m)
        BY <2>1, MovedFits
      <3>2. \A m \in L \cup {M} : m \in MemTypes /\ Fits(Policy, freed, t, m)
        BY <3>1 DEF MemTypes
      <3>3. \A m \in L \cup {M} : (freed[m] + req) % UMod = freed[m] + req
                                /\ freed[m] + req <= Limit(Policy, m)
        <4> HIDE DEF freed, L, M
        <4>. SUFFICES ASSUME NEW m \in L \cup {M}
                      PROVE  /\ (freed[m] + req) % UMod = freed[m] + req
                             /\ freed[m] + req <= Limit(Policy, m)
          OBVIOUS
        <4>1. m \in MemTypes /\ Fits(Policy, freed, t, m)
          BY <3>2
        <4>2. freed[m] <= Limit(Policy, m)
          BY <4>1, <2>6
        <4>3. /\ (freed[m] + MemReq[t]) % UMod = freed[m] + MemReq[t]
              /\ freed[m] + MemReq[t] <= Limit(Policy, m)
          BY <4>1, <4>2, <2>6, FitsAdds
        <4>. QED
          BY <4>3
      <3>. QED
        BY <3>1, <3>2, <3>3
    <2>8. \A m \in MemTypes :
             amount'[m] = IF m \in L \cup {M} THEN freed[m] + req ELSE freed[m]
      BY <2>1, <2>7 DEF MovedAmount
    <2>9. \A m \in MemTypes :
             Held(m)' = IF m = M THEN HeldBy(Rest(m)) + req ELSE HeldBy(Rest(m))
      <3>1. \A m \in MemTypes :
               Holders(m)' = IF m = M THEN Rest(m) \cup {t} ELSE Rest(m)
        BY <1>1, <2>1 DEF Holders, MemPolicyTypeOK
      <3>. QED
        BY <2>3, <3>1 DEF Held, HeldBy
    <2>10. MemPolicyTypeOK'
      <3>1. \A m \in MemTypes : amount'[m] \in Nat
        BY <2>4, <2>6, <2>8
      <3>2. amount' \in [MemTypes -> Nat]
        BY <2>1, <3>1 DEF MovedAmount
      <3>3. mem_type' \in [Tasks -> MemTypes \cup {"none"}] /\ reassign_done' \subseteq Tasks
        BY <2>1, <2>7 DEF MemPolicyTypeOK
      <3>. QED
        BY <3>2, <3>3 DEF RunTask, MemPolicyTypeOK
    <2>11. Placed'
      BY <1>1, <2>1, <2>7 DEF Placed, MemPolicyTypeOK
    <2>12. LedgerCovers'
      <3>1. \A m \in MemTypes : amount'[m] >= Held(m)'
        <4>1. SUFFICES ASSUME NEW m \in MemTypes PROVE amount'[m] >= Held(m)'
          OBVIOUS
        <4>2. freed[m] \in Nat /\ HeldBy(Rest(m)) \in Nat /\ freed[m] >= HeldBy(Rest(m))
          BY <2>3, <2>6
        <4>3. /\ amount'[m] = IF m \in L \cup {M} THEN freed[m] + req ELSE freed[m]
              /\ Held(m)' = IF m = M THEN HeldBy(Rest(m)) + req ELSE HeldBy(Rest(m))
          BY <2>8, <2>9
        <4> HIDE DEF Rest, freed, req, L, M
        <4>. QED
          BY <4>2, <4>3, <2>4
      <3>. QED
        BY <3>1 DEF LedgerCovers
    <2>13. LedgerExact'
      <3>1. \A m \in MemTypes : (Policy # "hm" \/ m = "dram") => amount'[m] = Held(m)'
        <4>1. SUFFICES ASSUME NEW m \in MemTypes, Policy # "hm" \/ m = "dram"
                       PROVE  amount'[m] = Held(m)'
          OBVIOUS
        <4>2. amount[m] = Held(m)
          BY <1>1, <4>1 DEF LedgerExact
        <4>3. m \notin L
          BY <2>7, <4>1
        <4>. QED
          BY <2>6, <2>8, <2>9, <4>2, <4>3
      <3>. QED
        BY <1>1, <3>1 DEF LedgerExact
    <2>14. CapacityRespected'
      <3>1. \A m \in MemTypes : amount'[m] <= Limit(Policy, m)
        BY <2>6, <2>7, <2>8
      <3>. QED
        BY <1>1, <3>1 DEF CapacityRespected
    <2>. QED
      BY <1>2, <2>10, <2>11, <2>12, <2>13, <2>14
  <1>. QED
    BY <1>3, <1>4 DEF RunTask

(* The steps that move no memory. *)
LEMMA OtherSteps ==
    ASSUME LedgerInv, EndSetup \/ Abort \/ EndSim \/ UNCHANGED vars
    PROVE  LedgerInv'
  <1> USE DEF LedgerInv
  <1>1. UNCHANGED <<mode, policy, temp, queued, mem_type, amount, reassign_done>>
    BY DEF EndSetup, Abort, EndSim, vars
  <1>2. \/ phase = "setup" /\ temp = {} /\ phase' = "sim"
        \/ phase \in {"setup", "sim"} /\ phase' = "exited"
        \/ phase = "sim" /\ phase' = "done"
        \/ phase' = phase
    BY DEF EndSetup, Abort, EndSim, vars
  <1>3. MemPolicyTypeOK' /\ FreshStart' /\ (Running' => Running)
    BY <1>1, <1>2 DEF MemPolicyTypeOK, FreshStart, Running
  <1>4. Placed' /\ Policy' = Policy
    BY <1>1, <1>3 DEF Placed, Policy
  <1>5. \A m \in MemTypes : Held(m)' = Held(m) /\ Limit(Policy, m)' = Limit(Policy, m)
    BY <1>1, <1>4 DEF Held, HeldBy, Holders, Limit
  <1>6. LedgerCovers'
    BY <1>1, <1>3, <1>5 DEF LedgerCovers
  <1>7. LedgerExact'
    BY <1>1, <1>3, <1>4, <1>5 DEF LedgerExact
  <1>8. CapacityRespected'
    BY <1>1, <1>3, <1>5 DEF CapacityRespected
  <1>. QED
    BY <1>3, <1>4, <1>6, <1>7, <1>8

LEMMA NextPolicyStep ==
    ASSUME LedgerInv, NextPolicy
    PROVE  LedgerInv'
  <1>1. MemPolicyTypeOK'
    BY DEF LedgerInv, NextPolicy, MemPolicyTypeOK, AllPolicies
  <1>2. ~Running'
    BY DEF NextPolicy, Running
  <1>. QED
    BY <1>1, <1>2 DEF LedgerInv, NextPolicy, FreshStart, Placed, LedgerCovers,
                      LedgerExact, CapacityRespected

LEMMA NextLedger == LedgerInv /\ [Next]_vars => LedgerInv'
  <1> SUFFICES ASSUME LedgerInv, [Next]_vars PROVE LedgerInv'
    OBVIOUS
  <1>1. CASE InitPolicy
    BY <1>1, InitPolicyStep
  <1>2. CASE \E t \in Tasks : SetupTask(t) \/ RunTask(t)
    BY <1>2, SetupTaskStep, RunTaskStep
  <1>3. CASE EndSetup \/ Abort \/ EndSim \/ UNCHANGED vars
    BY <1>3, OtherSteps
  <1>4. CASE NextPolicy
    BY <1>4, NextPolicyStep
  <1>5. CASE Exited
    BY <1>5, OtherSteps DEF Exited
  <1>. QED
    BY <1>1, <1>2, <1>3, <1>4, <1>5 DEF Next

LEMMA LedgerInvariant == Spec => []LedgerInv
  BY InitLedger, NextLedger, PTL DEF Spec

----------------------------------------------------------------------------
(* The type invariant of MemPolicy. *)
THEOREM TypeCorrect == Spec => []MemPolicyTypeOK
  BY LedgerInvariant, PTL DEF LedgerInv

(* assign_mem, revoke_mem and every policy's retry loop keep the ledger at *)
(* or above what the queued tasks hold.                                    *)
THEOREM LedgerNeverShort == Spec => []LedgerCovers
  BY LedgerInvariant, PTL DEF LedgerInv

(* The ledger is exact but for the NVRAM that hm leaves charged. *)
THEOREM LedgerIsExact == Spec => []LedgerExact
  BY LedgerInvariant, PTL DEF LedgerInv

(* No policy hands out more than the capacity it is given. *)
THEOREM CapacityHolds == Spec => []CapacityRespected
  BY LedgerInvariant, PTL DEF LedgerInv

(* A queued task's request is part of what its memory type has charged:    *)
(* the assertion in revoke_mem cannot fail.                                *)
LEMMA ChargedToOwner ==
    ASSUME LedgerInv, Running, NEW t \in queued
    PROVE  /\ mem_type[t] \in MemTypes
           /\ amount[mem_type[t]] \in Nat
           /\ MemReq[t] \in Nat
           /\ amount[mem_type[t]] >= MemReq[t]
           /\ amount[mem_type[t]] <= Limit(Policy, mem_type[t])
  <1> DEFINE m == mem_type[t]
             R == Holders(m) \ {t}
  <1>1. t \in Tasks /\ MemPolicyTypeOK
    BY DEF LedgerInv, MemPolicyTypeOK
  <1>2. m \in MemTypes
    BY DEF LedgerInv, Placed
  <1>3. R \in SUBSET Tasks /\ t \notin R /\ Holders(m) = R \cup {t}
    BY <1>1, <1>2, HeldType DEF Holders
  <1>4. Held(m) = HeldBy(R) + MemReq[t] /\ HeldBy(R) \in Nat
    BY <1>1, <1>3, HeldByOneMore, UnitsFinite DEF Held
  <1>5. MemReq[t] \in Nat
    BY <1>1, ConfAssumption
  <1>6. /\ amount[m] \in Nat /\ amount[m] >= Held(m)
        /\ amount[m] <= Limit(Policy, m)
    BY <1>1, <1>2 DEF LedgerInv, LedgerCovers, CapacityRespected, MemPolicyTypeOK
  <1> HIDE DEF R, m
  <1>7. amount[m] >= MemReq[t]
    BY <1>4, <1>5, <1>6
  <1>. QED
    BY <1>2, <1>5, <1>6, <1>7 DEF m

THEOREM RevokeIsSafe == Spec => []RevokeSafe
  <1>1. LedgerInv => RevokeSafe
    BY ChargedToOwner DEF RevokeSafe
  <1>. QED
    BY <1>1, LedgerInvariant, PTL

(* A task that gives its memory back finds room where it was: reassigning  *)
(* can only fail because the task set is not schedulable.                  *)
THEOREM HomeIsKept == Spec => []HomeStillFits
  <1>1. ASSUME LedgerInv PROVE HomeStillFits
    <2> SUFFICES ASSUME Running, NEW t \in queued
                 PROVE  mem_type[t] \in Tried(Policy, Release(amount, t, mem_type[t]), t)
      BY DEF HomeStillFits
    <2> DEFINE m     == mem_type[t]
               freed == Release(amount, t, m)
    <2>1. /\ m \in MemTypes /\ amount[m] \in Nat /\ MemReq[t] \in Nat
          /\ amount[m] >= MemReq[t] /\ amount[m] <= Limit(Policy, m)
          /\ t \in Tasks /\ MemPolicyTypeOK
      BY <1>1, ChargedToOwner DEF LedgerInv, MemPolicyTypeOK
    <2>2. Limit(Policy, m) \in Nat /\ Limit(Policy, m) + MemReq[t] < UMod
      BY <2>1, LimitBound
    <2>3. /\ amount[m] - MemReq[t] \in Nat /\ amount[m] - MemReq[t] < UMod
          /\ amount[m] < UMod
      BY <2>1, <2>2, NoWrapAssumption
    <2>4. (amount[m] - MemReq[t]) % UMod = amount[m] - MemReq[t]
      BY <2>3, ModSmall, NoWrapAssumption
    <2>5. freed[m] = amount[m] - MemReq[t]
      BY <2>1, <2>4 DEF Release, MemPolicyTypeOK
    <2>6. (MemReq[t] + freed[m]) % UMod = amount[m]
      <3>1. MemReq[t] + freed[m] = amount[m]
        BY <2>1, <2>5
      <3>. QED
        BY <2>1, <2>3, <3>1, ModSmall, NoWrapAssumption
    <2>7. Fits(Policy, freed, t, m)
      BY <2>1, <2>2, <2>6 DEF Fits
    <2>. QED
      BY <2>1, <2>7 DEF Tried
  <1>. QED
    BY <1>1, LedgerInvariant, PTL
=============================================================================
