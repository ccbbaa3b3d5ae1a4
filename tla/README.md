# memwork in TLA+

The repository holds two programs.

* **memwork** (top directory) simulates a set of periodic real-time tasks on a
  machine with DRAM, NVRAM and a CPU with several frequencies, and compares
  policies that place tasks in memory and set the frequency.
* **The UBM cache simulators** (`Simulator/SCM/SCM.c` and
  `Simulator/UBM/OSDI-UBM.c`, two editions of one program) replay a block trace
  through a buffer cache that detects sequential and looping references and
  splits its buffers between partitions accordingly.

Both are sequential, deterministic programs.  What makes them hard is not
concurrency but long sequences of legal steps over pointer structures with
relative times, partitions with derived sizes, integer wrap-round and state
that outlives the run it was made for.

## Inventory

### memwork

| Part | State | Operations | What makes it correct |
|---|---|---|---|
| Memory ledger (`mem.c`) | `mems[].amount`, `total_capacity` | `assign_mem`, `revoke_mem`, `init_mems`, `reinit_mems` | the ledger is what the tasks hold; never above the limit; `revoke_mem`'s assertion |
| Policies (`policy_*.c`) | `policy`, `reassign_done` | `init`, `assign_task`, `reassign_task` | each try that fails is undone; a task never ends without memory |
| Task queue (`task.c`) | the list `tasks`; `gap_head`, `gap`, `deadline`, `det`, `det_remain` of each task | `requeue_task`, `delay_tasks`, `get_new_start`, `apply_gap_head`, `calc_task_det`, `is_schedulable`, `check_queued_tasks` | relative times add up to the deadlines of the jobs; no task lost; feasible plan |
| Driver (`memwork.c`, `schedule_task`, `setup_tasks`) | `simtime`, `policy` | `runsim`, `runsim_all`, set-up, one turn of the simulation | every policy starts afresh; time advances; the program ends |
| Energy (`power.c`) | four running totals | charging active and idle ticks | every tick charged once |
| Loading, reporting (`conf.c`, `cpu.c`, `report.c`, `output.c`) | the tables | parse, print | not modelled: parsing and formatting |

The driver calls the policy, the policy calls the ledger and the queue's
schedulability test and back, and the queue reads the head task's memory and
frequency: all through shared globals.

### The UBM simulators

| Part | State | Operations | What makes it correct |
|---|---|---|---|
| Detector (`putInSeqLoopDetect`) | `seQLoopDetectUnit[]`, the hash table of its units | a reference to block `p` of file `v`: grow, turn into SEQ, start or follow a loop, forget, begin, reuse a unit | table and hash agree; one unit per file; SEQ and LOOP were really read; periods positive; the shortest run is given up |
| Loop queue (`loopQ`, a heap) | the heap, `loopQindex`, `lastIRG` and `lastRefTime` of its buffers | `loopQin`, `loopQout`, `upheap`, `downheap`, hits, ageing in `main` | heap order, exact index, a hit takes its own block, a queue by value |
| Buffer lists and ghosts (`pgref`) | `lrulist[]`, `ALLsegUsedSize[]`, `rLRUsegLoopQUsedSum`, `allocBufInCache`, `allocBufInGhost` | hits in four kinds of place, misses with free buffers and without, moves along the segments | no buffer lost or held twice, counters right, sizes kept, LRU order among the other references |
| Choice of a victim (`pgref`, `deallocator`) | reads the above and the gain estimate | which partition gives up a block | asks no empty list (it does in one case, `equal_gains`); the minimum of the other references |
| Marginal gain (`checkAvgMarginalGain`), hit counters | `rLRUsegHits[]`, `rLRUsegHitRatios[]`, `agedVtime` | count a hit, halve, add up at the end; a floating-point estimate | the counters add up; a hit ratio is at most 1; the estimate is not modelled: free comparisons |
| Block hash (`findblk`, `hashin`, `hashout`) | chains of the buffers, real and ghosts | look-up by block | exactly the blocks that have a buffer or a ghost's |
| Sizing (`main`) | `ALLsegInitSize[]` | computed once from the options | the sizes fill the cache, none wraps round, the first two are not empty |
| Driver, statistics, plots | `curVtime`, files, pipes to gnuplot | read the trace, age the loop queue and halve the counters every so often, print | the whole trace is read and the program ends; plots and output are I/O |

`main` counts the clock up and calls `pgref` for each reference; `pgref` asks
the detector for the pattern, looks the block up, and moves buffers between
lists, ghosts and the loop queue; the detector's period becomes the value of a
block in the loop queue; `main` ages the queue.  `Simulator/UBM/OSDI-UBM.c` has
the same code without the plots, and stops at the end of the trace.  The detector,
the lists and the heap are translated from `SCM.c`, the run as a whole and the
sizing from `OSDI-UBM.c`.

### What is hard here

* **Relative times** (`task.c`).  A queued task knows only the time to its
  successor; `delay_tasks` moves tasks back tick by tick, recursively, and swaps
  neighbours under the pointers of its caller.
* **State over a run, and over runs.**  The ledger of `hm` leaks a little at each
  turn; `runsim_all` starts later policies from what earlier ones left.
* **A set-up that stops half way**, with tasks on no list and memory charged.
* **Counters by hand.**  `ALLsegUsedSize`, `rLRUsegLoopQUsedSum`, `loopQindex` and
  the detector's hash table are kept up to date in many copied blocks.
* **Searches without an end condition** that rely on some list being in use.
* **A heap changed while it is walked by index.**
* **One field, several meanings.**  `lastIRG` is by turns INFINITY, a period
  measured for the block and one computed for the file; `findblk` returns real
  buffers and ghosts alike.
* **Wrap-round** of unsigned times, amounts and sizes.

There are no threads, messages, crashes or timeouts in this repository.  The
full list, by line, is `hazards` in `PROJECT.json`.

## Modules

```
Mem ──── MemPolicy ──── MemPolicyProofs            PriorityQueue    <-- LoopQueue
  \          ^ implements                          PartitionedCache <-- BufferCache
   TaskQueue ── Memwork ──── MemworkProofs ──── DeadlineProofs

SeqLoop ──── SeqLoopProofs                              (instances of SeqLoop,
LoopQueue ──── LoopQueueProofs                           BufferCache, PriorityQueue)
BufferCache ──── BufferCacheProofs                      SegSizes ── UbmRun ── UbmRunProofs
                                                               (instances of SeqLoopProofs
                                                                and BufferCacheProofs)
NaturalSets: lemmas that all proof modules but MemPolicyProofs extend
```

(lines: EXTENDS; arrows: the module at the arrow's head is implemented, by
`INSTANCE ... WITH` and a property of a run.)  Each `MC_` module gives the
constants of one specification their values.

| Module | Models | Correspondence |
|---|---|---|
| `Mem` | `mem.c`, the memory side of `policy_*.c` | pure operators: `Fits`/`Charge`/`Release` are the parts of `assign_mem` and `revoke_mem`; `AssignOrder`, `Tried`, `NewMem`, `Leaked` the policies' retry loops |
| `MemPolicy` | a run as the ledger sees it, for every timing | `InitPolicy`, `SetupTask`, `EndSetup`, `RunTask`, `EndSim`, `NextPolicy`, ...; the answers of `is_schedulable` are any set of memory types. The abstract specification of `Memwork` |
| `TaskQueue` | `task.c` below `schedule_task` | pure functions on a record of the list, the tasks and the first failed assertion (`bad`); `delay_tasks` is the recursive function `delay` on the states of its loop (`Delays`); `Granted`, `RunsInto`, `Faced` and `Pushed` are the parts of one turn. `requeue_task`'s walk is a recursive function too |
| `Memwork` | `memwork.c`, `setup_tasks`, `schedule_task`, `power.c`'s idle account | one action per phase of the driver: a turn of `runsim`'s loop, with `schedule_task`, `requeue_task` and `check_queued_tasks`, is `ScheduleTask`; FATAL and failed assertions are `Exit(why)` |
| `SeqLoop` | `putInSeqLoopDetect` | one action per way a reference is taken (`GrowOthers`, `TurnSeq`, `GrowSeq`, `StartLoop`, `FollowLoop`, `Forget`, `Begin`). `Scan` is the code's search loop, with its break, as a recursive function; `minindex`, which the actions use, says what it finds. `Detect` is one call, which `UbmRun` makes |
| `LoopQueue` | the heap, and its users in `pgref` and `main` | sequences of records for the heap, `at` for `loopQindex`; one step is one reference and the ageing behind it |
| `PriorityQueue` | what the heap promises | a set of blocks, the least valuable by (period, last reference) leaves |
| `BufferCache` | `pgref`, the list operations, `deallocator` | `HitSeq`, `HitOthers`, `HitTurnsLoop`, `HitLoop`, `MissWarm`, `MissFull`; each is one call of `pgref` on one path. `MissDies` is the call in which an empty list or queue is asked for a victim, after which the process is `Dead`. A chain of `lruout`/`lruin` (or `mruout`/`insertLRU`) along the segments is written in closed form: `PushedAlong`, `PulledUp` |
| `PartitionedCache` | what the cache promises | three partitions and the ghosts, with the recency of the other references as a relation (`newer`); one block leaves per miss, and only from a full cache |
| `SegSizes` | how `main` sets `ALLsegInitSize[]` | pure operators with unsigned wrap-round: `LargeSizes` and `SmallSizes` are the two branches |
| `UbmRun` | `main`'s loop over a trace, `pgref`, `printstat` | one step is one turn: `Detector!Detect`, then the action of `Cache` for the path taken with the verdict the detector gave, the stamps of the buffers (`buf`, the hash table and what `pgref` and the ageing write), the counters. Victims that depend on the stamps are those of `Queue` |

Modelling decisions worth knowing:

* Fixed-point numbers replace the floating-point scales of `task.c`;
  comparisons of quotients are multiplied out.  Where a value must wrap, it wraps
  at `UMod` (the code's 2^32); the runs use a `UMod` above any sum that occurs.
* `Memwork` is deterministic after `Init`, but for `fixed_init` failing to read
  its file: the runs quantify over task sets,
  policies and modes instead.
* In `SeqLoop` the age the search reads beyond its table (`unit[minsize]`, whose
  index is a length) is any value.
* In `BufferCache` the detector's verdict, the block `loopQout` takes and every
  comparison of gains and periods are free.  So what holds there holds for any
  detector, queue and estimate.  A gain is above 1/period, below it, or neither
  (equal, or an estimate that is not a number): `NeitherGain` is what
  `deallocator` answers then.  `CacheAssumption` states what
  `main`'s sizing gives for caches that are not tiny and with a sequential
  partition (`-r` above 0).
* `UbmRun` closes that gap as far as integers go: the verdict and the period are the
  detector's, the sizes those of `SegSizes`, the block `loopQout` takes is the
  least valuable by the stamps `pgref` keeps, and between the queue and the
  sequential references the period decides.  Comparisons with a marginal gain
  stay free (equality, in which the queue is preferred even when it is empty, included:
  `Dies` is that turn).
* Lines 1343 ff. of `SCM.c` (a loop whose end is extended) are inside a test that
  the block is not past the end, so they do nothing; `FollowLoop` says so.
* `jobs` (Memwork) and `seen` (SeqLoop) are history variables that the code does
  not have; no action reads them.

## Runs

All runs finish; the numbers are distinct states.

### memwork

| Run | Instance | Shows |
|---|---|---|
| `mem_policy` (4,760) | 3 tasks of 1, 2, 3 units; 3 units of DRAM, 5 of NVRAM; all six policies, with `-p` and in `runsim_all` | `LedgerCovers`, `LedgerExact`, `CapacityRespected`, `RevokeSafe`, `HomeStillFits` |
| `tasks` (345,177) | every pair of tasks with periods 2 to 7, every triple with periods 3 to 6 and every triple with period 11; each of the six policies alone and `runsim_all`; to time 42 | `JobDeadline`, `NoTaskLost`, `FeasibleQueue`, `NoMissAtFixedSpeed`, `QueueSound`, `EveryTickCharged`; the ledger is `MemPolicy`'s (`LedgerSpec`) and the program ends (`Termination`) |

Three tasks that do not fit together are the fewest for which one is refused
while others hold memory, and for which a task is delayed past another (two
neighbours and a caller).  42 is the longest hyperperiod of two tasks and covers
seven jobs or more of each of three.  The frequencies are full and half speed and
NVRAM runs at 70%: enough for a task to be rescaled up and down, and rounded.
With period 11 alone the second policy's run is not ended by the finding
`second_clock`; it is there to see what one policy's run leaves to the next.

A self-check that fails ends the process in the code, and the model.
`QueueSound` says of `calc_task_det`'s assertions that they hold with any number of
tasks, and of the others that they do with two; with three they do not
(`no_delay`), and the other invariants then speak of the runs that go on.

### UBM

| Run | Instance | Shows |
|---|---|---|
| `seqloop` (49,112) | 4 files of 4 blocks, 3 units, threshold 3, 7 references | `OneUnitPerFile`, `PeriodOfLoops`, `PositionInRun`, `RunWasRead`, `RunsAreShort`, `EvictsShortest`; `ScanPicksVictim` ties the code's loop to the description the actions use |
| `loopqueue` (21,297) | 5 blocks, 2 periods, 8 references, ageing every 3rd | `IndexExact`, `HitTakesItself`; the heap implements `PriorityQueue` |
| `cache` (24,629) | 5 buffers, 5 ghosts, 11 blocks, 3 segments, a minimum of 1; two partitionings | `BuffersOnce`, `BuffersKept`, `FaultsOnlyAtEqualGains`, `SegmentsBounded`, `MissKeepsMinimum`; the lists implement `PartitionedCache` |
| `ubm_run` (59,607) | every trace of 4 scans of 3 files (6, 3 and 6 blocks; two files in turn; one file out of order), 7 buffers and 7 ghosts, 2 detector units, threshold 3, with and without a free list; ageing and halving every 5th reference | `LruIsRecency`, `PeriodsMeasured`, `HitRatioAtMostOne`; the hash table is what the lists hold (in `TypeOK`); `pgref` and `main` use the queue as `LoopQueue` assumes (`UsesQueue`); the program ends, or dies as `equal_gains` shows (`Termination`) |

Four files compete for three units so that runs are evicted, and a threshold of 3
with four blocks leaves a run room to grow on as a sequence and to loop; seven
references read a sequence, loop it and start it over, or fill the table and evict.
Five blocks make a heap of three levels whose last level is partly filled.  Three
segments are a first, a middle and a last one, and 11 blocks are one more than
cache and ghosts hold together, so that misses on a block known, remembered and
unknown all occur with everything full.  In the first partitioning all segments
have a size, in the second the last has none and the free list has one.

`seqloop` and `loopqueue` use symmetry over files and blocks, and bound the
clock (`MaxTime`), so the last state has no successor: `CHECK_DEADLOCK FALSE`.
`cache` has no bound; its VIEW is the state up to a renaming of blocks (list
lengths and the number of looping blocks say all there is, as blocks have no
property but their place), which is symmetry over 11 blocks without the 11!
permutations.  Every property is unchanged by renaming blocks.

`ubm_run` is the only run in which the verdicts are a detector's.  Its 15 blocks are
one more than buffers and ghosts together, so a ghost's buffer is reused; four scans
are what it takes to fill the cache, to loop a file, to push another file through and
to come back to the first.  Files of 6 and 3 blocks, a threshold of 3 and two units for
three files make every verdict, and both a run that is evicted and one that is not.  In
it a looping block is a hit in every list and in the queue, misses known and unknown,
is taken as a victim and is aged.  Ageing and halving every 5th reference happen up to
five times in a trace (28 references at most) instead of never; the real intervals, 1,000 and 50,000,
only make them rarer.  The sizes are the small case of `SegSizes` with a first segment
of 1 (30 in the code): 1, 2 and the rest; `MC_UbmRun`'s assumption `RealSizes`
evaluates the sizing with the real constants for caches up to 700.

### Runs that find a disagreement

| Run | The code or its comments say | What happens |
|---|---|---|
| `no_delay` | `ASSERT(i != 0)`, task.c:219 | tasks (wcet, period) = (1,3), (2,5), (1,4) at full speed: `delay_tasks` is asked to delay a task that cannot wait a tick, and the process aborts |
| `slowed` | a missed deadline is FATAL (task.c:346), and a DVS policy slows down only if the set is schedulable | tasks (9,12), (1,8): the utilisation of whole jobs admits half speed, the job at hand has no time left for it |
| `second_clock` | deadlines are multiples of the period on `simtime` (task.c:399) | `runsim_all` sets `simtime = 11` for each later policy: FATAL unless every period divides 11 |
| `unknown_error` | "Unknown error!!" (OSDI-UBM.c:565, SCM.c:681): a looping reference does not miss while the cache is filling up | two files read in turn, b0 a1 b1 a2 b2 a3 a0: the run of file a is entered as if it began at block 0, so reading block 0 for the first time makes it a loop |
| `equal_gains` | "When the marginal gain value of the OTHER partition is equal to that of the LOOP partition, we select the LOOP partition or the SEQ partition first" (SCM.c:1522, OSDI-UBM.c:1404) | a file of 3 blocks is read twice, a file of 6 pushes it out, it is read again: its block misses as a loop when neither looping nor sequential blocks are cached, the partition selected is the empty queue, and `loopQout` writes through a null pointer |
| `others_minimum` | "We keep the minimum number of buffers for other references" (SCM.c:67) | only victims respect it: hits that turn into loops or sequences drain the partition in a full cache |

`equal_gains` has `ubm_run`'s constants.  The estimate is not computed: the run shows
that the trace reaches the comparison, and that equality (a gain of 1/1 - 1/2 is 1/period
for a period of 2), or an estimate that is not a number, ends the process there.
`DiesOnlyAtEqualGains` proves that it is the only way to ask an empty list or queue.

More is visible in the models although no run is about it.  In `memwork`,
`calc_idle_power_consumed_cpu` multiplies the running total, not the addend, by 0.12
(power.c:12, `IdleCpu`), although `power_idle` is "per tick" (simrts.h:64): what was
charged before decays at each call.  In `pgref`, a hit in a segment that is called SEQ (534-540) does not move the segments
below up, as one called LOOP does (560-568); and a hit in SEQMRU called OTHERS
(541-555) lengthens the segments without adjusting the ghosts, which the other
two insertions do (618, 844).  The last two distort the sizes for which hits are counted;
`SegmentsBounded` holds all the same.

### Fairness

Only the two `Termination`s need it.  Both programs are sequential and wait for
nothing: as long as one has a step to take, the processor takes it, so weak fairness
of `Next` is what running a program means.  `UbmRun` states `WF_vars(Next)`.
`Memwork` writes the same out as "the process has exited, or steps are taken for
ever", because evaluating `ENABLED Next` for a whole turn of the simulation at every
state makes the run many times slower.  `Memwork`'s `Termination` says that the
turns of the simulation come to an end: each must consume at least a tick.
`UbmRun`'s says that every path of `pgref` comes back to the loop, unless the process dies
of it, and that the end of the trace is noticed, as in `OSDI-UBM.c`; `SCM.c`'s test for it is commented out
(line 264), and that program runs until it is killed.

## Proofs

Every theorem holds for all values of the constants that satisfy the named
assumptions, which the runs evaluate.  Of the 40 properties of the passing runs, 35
are theorems; those without a property after the colon are stated in proofs only.

| Module | Theorem: property |
|---|---|
| `MemPolicyProofs` | `TypeCorrect`: `MemPolicyTypeOK`, `LedgerNeverShort`: `LedgerCovers`, `LedgerIsExact`: `LedgerExact`, `CapacityHolds`: `CapacityRespected`, `RevokeIsSafe`: `RevokeSafe`, `HomeIsKept`: `HomeStillFits` |
| `MemworkProofs` | `TypeCorrect`: `TypeOK`, `TicksAreCharged`: `EveryTickCharged`, `NoTaskIsLost`: `NoTaskLost`, `KeepsLedger`: `LedgerSpec`; and `DelayPermutes`, `RequeueKeepsTasks` |
| `DeadlineProofs` | `DeadlinesMeet`: `JobDeadline`; and `delay_tasksShifts`, `requeue_taskPlans` |
| `SeqLoopProofs` | `TypeCorrect`: `TypeOK`, `TableIsIndexed`: `OneUnitPerFile`, `PeriodsArePositive`: `PeriodOfLoops`, `PositionStaysInRun`: `PositionInRun`, `SequencesWereRead`: `RunWasRead`, `SearchSucceeds`: `RunsAreShort`, `ShortestIsEvicted`: `EvictsShortest`, `ScanFindsVictim`: `ScanPicksVictim`; and `PeriodsArePast` |
| `LoopQueueProofs` | `TypeCorrect`: `TypeOK`, `IndexIsExact`: `IndexExact`, `HitsTakeThemselves`: `HitTakesItself`, `ImplementsQueue`: `IsPriorityQueue` |
| `BufferCacheProofs` | `TypeCorrect`: `TypeOK`, `OncePlaced`: `BuffersOnce`, `NoneLost`: `BuffersKept`, `DiesOnlyAtEqualGains`: `FaultsOnlyAtEqualGains`, `WithinSizes`: `SegmentsBounded`, `MinimumKept`: `MissKeepsMinimum`, `ImplementsCache`: `IsPartitionedCache` |
| `UbmRunProofs` | `TypeCorrect`: `TypeOK`, `LeastRecentlyUsed`: `LruIsRecency`, `QueuedPeriods`: `PeriodsMeasured`, `HitRatios`: `HitRatioAtMostOne`, `QueueUsed`: `UsesQueue`; and `SumNeverDiffers`, `SizesAreSound` |

### Loops and recursion: `NaturalSets`

The code's loops and its one recursion are recursive functions of the model, and
what such a function computes for every argument is an induction.  The library's
induction theorems take an operator as a parameter, which no installed prover
instantiates.  The proofs get along with sets: a non-empty set of naturals has a
least element (`LeastExists`), so the least rank at which a claim fails has smaller
ranks at which it holds.

* `LoopComputes`: a function written as "another turn if the condition
  holds, else the result" exists, if each turn lowers a rank (`Terminates`).
* `LoopResult`: what each turn keeps (`TurnsKeep`, a set of states and a set of
  results) is true of what the function computes.
* `NestedExists`: the same for a recursion that calls itself in the argument of its own
  next turn, as `delay_tasks` does.  The equation is an operator on functions with
  results in `Results(D, Good)`, which may only look at arguments of lower rank
  (`LooksDown`); that results are good bounds the rank of the next turn.
* `SumTakes`, `SumUpTo`, `SumOfEqual`, `SumOneMore`: what `SumFunctionOnSet` of the community
  modules gives, which folds over a set in an order nobody knows: an element taken
  out leaves the sum of the others, equal terms give equal sums, and one more in a place makes
  the sum one more.

### memwork

**`MemPolicyProofs`** (assumptions: a finite set of tasks, requests and
capacities are natural numbers, no sum of a request and a ledger within its limit
wraps).  `LedgerInv` is inductive: types, `FreshStart` (a policy begins with an
empty ledger), `Placed` (each queued task owns memory of one type and is not
waiting for set-up; proved only, no run lists it), the two ledger invariants and the capacity.  `LedgerCovers`
and `LedgerExact` are not inductive alone: what a task gives back must be part of
what is charged, which needs its place.  What tasks hold of a memory type is the
cardinality of the set of units they hold, so that adding a task adds its units
(`HeldByOneMore`) without induction over a sum.  `LedgerIsExact` says that
`hm`'s NVRAM is the only leak, `RevokeIsSafe` that `revoke_mem`'s
assertion holds, and `HomeIsKept` that a task which gives its memory up always
finds room where it was: a reassignment cannot fail for want of memory.
The proof has one lemma per action.  It covers the code's every policy and every
outcome of the schedulability tests.

**`MemworkProofs`** (assumptions: `ConfAssumption`, `TaskAssumption` and
`PolicyAssumption`, which state what `conf.c` lets through: at least one
frequency, scales that fall, `wcet` below `period`, execution times that fit into an
unsigned, memories and frequencies of `fixed` that exist).  Nothing is assumed of
the number of tasks, their periods, schedulability or wrap-round.

* `DelayPermutes`: `delay_tasks` returns (its rank is the number of tasks behind
  the target times `UMod`, plus the ticks left to grant), keeps every task on the list
  once, does not touch the list in front of its target, and changes tick counts
  only (`Delayed`).  This holds whatever the times are, for those that wrap too.
* `RequeueKeepsTasks`: `requeue_task` puts a task that is off the list back on it,
  once; the loop over the places is a `LoopResult`.
* `IInv` is types; a chosen policy; `ListsApart` (a task waits for its set-up or is
  listed, once); `TasksTimed` (no failed assertion is passed by, listed tasks are set
  up, those waiting have no ticks left); `AccountsStart` (each policy's accounts begin
  at 0 with its clock) and `EveryTickCharged`.  `NoTaskLost` needs `ListsApart`: put back
  "once" says nothing of a task that was listed twice.  `EveryTickCharged` needs
  `AccountsStart`, because the second policy of `runsim_all` does not begin at 0.
* `KeepsLedger`: with the charge, the place in memory and the phase of each task as the
  refinement mapping, `Memwork`'s initial states are `MemPolicy`'s and each action is a
  step of `MemPolicy` or a stutter.  One lemma per action; the answers of
  `is_schedulable` that `MemPolicy` leaves open are those of the queue.  So what
  `MemPolicyProofs` proves of the ledger is true of the program with its real timing
  (under `NoWrapAssumption`, which those proofs need and the refinement does not).

**`DeadlineProofs`** (the same assumptions).  `JobDeadline` sums tick counts along the
list, and those counts are unsigned and do wrap (a task that is passed by another on
its way back to the queue has its deadline counted down below 0 and up again).  The argument
is about a plan instead of the sum:

* Times are compared by `SameTick`: they differ by a multiple of `UMod`.  That is kept by sums
  (`SameTickSum`), each `U` of the code is the same tick as what it wraps
  (`WrapIsSameTick`), and of the numbers an unsigned can hold only one is a given tick
  (`SameTickWraps`).
* For any assignment B of deadlines to the tasks, `Starts(q, B)` is when each task is to start,
  its deadline in B less its relative deadline.  The list is `Chained` when each task starts
  where the gap of the one before it ends.
* `DelayShifts`, for every B at once: a call of `delay_tasks` keeps the list chained from the target's place
  on, and what stands at that place starts later by the ticks granted.  A turn that grants a tick
  is `GrantedShifts`; one in which the target runs into its follower swaps them if the follower
  precedes (`FacedMeets`) and delays the other by what the recursive call grants
  (`PushedMeets`, `AfterShifts`).  This is an induction over the same rank as
  `DelayPermutes`.  That the caller's B is not fixed is needed: inside the
  recursion the delayed task's own deadline is counted down and restored (`EndTimes`).
* `requeuePlans`: `Passing` is what the loop of `requeue_task` keeps, the tick at which
  the task could start and the one at which the task at hand starts.  Its two ways out are
  `PutBeforePlans` and `PutLastPlans`.
* `PInv` is `IInv`, `OnPlan` (the queue is chained, its head starts its `gap_head` from now, and only
  a task on its own waits; B is `Due`, the end of the period of each job) and `NotStarted` (no job is done before
  the run, and a task to be set up has no times; `reinit_tasks` is what makes it so for the
  later policies).  A turn of `schedule_task` leaves what is behind the head as it was (`TailPlans`),
  and `Due` moves by a period exactly when the job is done.
* `JobDeadline` is not inductive: it says nothing of the gaps of the last task and is modulo
  `UMod` what `OnPlan` says with `PlannedStarts`, which adds the gaps up.

### UBM

**`SeqLoopProofs`** (assumptions: 0 is not a file, at least two units, a smoothing
factor of 0 to 100%, non-zero measured intervals).  `IInv` is: types,
`OneUnitPerFile`, `UnitInv` of each unit (free units are reset, a run starts at 0,
was read, is no longer than the clock, is positioned at its end or inside its
loop, has a period exactly when it loops), and `PairsShort` (two runs together
are no longer than the clock + 2).  `PairsShort` is what makes
`RunsAreShort` inductive: one run alone may be as long as the clock, and the
search needs a shorter one.  `EvictsShortest` is an action property from the same
invariant and `VictimIsShortest`; that a non-empty set of units has a least and
a greatest index is proved by counting initial intervals of the naturals.
`ScanFindsVictim` ties the search as the code writes it (a loop that stops at a free
unit and reads an age at an index that is a length) to the description the
actions use, by what a turn keeps: the unit found is the first of the shortest, by the age
read, among those searched.

**`LoopQueueProofs`** (assumptions: `INFINITY` is above every period and the last
time, and ageing is every so many references).  `IInv` is: types; `Sound` (the heap
order, and the index of a block is its place, 0 when it is not queued); and
`Timely` (no two buffers have the same reference time, none is in the future).
`HitTakesItself` and `IndexExact` are not inductive without the order: that a hit on a
block takes this block relies on `upheap` carrying a buffer that was made the least
valuable to the root.  `upheap`, `downheap` and the ageing of the whole queue each
have a relation that their turns keep (`Risen`, `Sunk`, `Ageing`): the heap is in order but
at one place, the buffers and the index are those of before.  The refinement
is exact because of `Timely`: reference times differ, so the least valuable block
is one, and the `CHOOSE` of `PriorityQueue` takes the root.

**`BufferCacheProofs`** (`CacheAssumption`, of which `SizesAreSound`
proves the part about sizes from `main`'s computation).  A place is a list's number and an index in it.
An operation on the lists is described by where each place of the new lists
comes from (`Rearranged`); one that takes places in order from different places loses
no buffer, doubles none and keeps the recency of the other references, however
many segments it passes through.  This is how `PushedAlong` and `PulledUp`, which stand
for chains over all the segments, are dealt with without induction.

* `IInv` is: the sizes are those of the start; `Fine` (`Good`: no buffer in two places,
  each counter is the length of its list, the sum is right; `Within`: no list above its
  size); `allocBufInCache` and `allocBufInGhost` count the buffers and ghosts; and there
  are ghosts only when the cache is full.  The last one is needed for the paths of a miss
  with free buffers, on which the code does not look at the ghosts.
* `FaultsOnlyAtEqualGains` (an empty list or queue is asked for a victim in one case only)
  follows from the sizes (`VictimsFound`): the lists of a full cache hold as many blocks as
  the sizes add up to, so when the sequential partition is below its size and the others are
  at their minimum or fewer, there are looping blocks; and `deallocator` answers with a
  partition that holds a block unless its answer is that of `NeitherGain`, with no looping
  block, none in `SEQMRU` and a second segment in use (`deallocatorAnswers`, `NoneCached`).
  The rest of `IInv` holds after the step all the same, because that step changes no list
  (`Stays`).
* `MinimumKept` is an action property from the same lemma: a block of the others is a victim only
  if they are more than the minimum.
* `ImplementsCache`: `StepRefines` gives for each path of `pgref` the step of
  `PartitionedCache` it is; the recency relation is read off the segments one after
  the other.

**`UbmRunProofs`** (`SizingAssumption`: the word width and the two size constants are
positive; `RunAssumption`: traces are finite, the table has two units or more, and each
pair of `-r` above 0 and `-m` leaves a cache that the sizing fits and more than the minimum
for the other references).  The sizing stands on its own:

* `SumNeverDiffers`: whatever the options, even when sizes have wrapped
  round, they add up modulo the word to what `main` compares the sum with, so its
  message "the sum of LRU segments is different" can never be printed and does
  not find a wrong sizing.  The argument is that wrapping is a congruence
  (`WrapOfMultiple`, `WrapInSum`): each branch is a sum of terms that cancel before any
  of them wraps.
* `SizesAreSound`: if the cache is larger than the `-r` and `-m` parts
  and the first segment together, and 15 first segments below the word's limit, no size
  wraps, the sizes fill the cache, the first two segments are not empty and only the last ones
  are.

The run is proved from what is proved of its parts.  `CP` and `DP` are `BufferCacheProofs` and
`SeqLoopProofs` with the parts' variables and constants; `CacheAssumed` (from `SizesAreSound`) and
`DetectorAssumed` show that `main` meets the assumptions of both, so their invariants and
lemmas hold here.  A turn (`Turn`) is a step of each part, and four things are known of
its lists: the block comes to the front of its partition, the victim leaves, the rest keeps
its order, and at most a ghost is hashed out (`Moves`, by `Referred`, which
`BufferCacheProofs` shows for each path).  The inductive invariant `RunInv` is:

* `Parts`: the parts' invariants and `PeriodsPast`, that no period of the
  detector is longer than the run.  A file's period is written into `lastIRG` of any of its blocks, so
  `PeriodsMeasured` needs it.
* `Stamped`: the hash table's domain is the blocks with a buffer and the ghosts, the stamps
  are times of this run, and no two blocks have the same reference time.
* `RecentFirst`: `LruIsRecency` restated over the pairs of blocks that are in order in the lists,
  which is what the rearrangements of the lists keep.
* `PeriodsMeasured` itself.

`HitRatioAtMostOne` is inductive with the counters' types (`CountsInv`).  Its point is
the halving: halves rounded down do not add up to more than the half of the sum
(`HalvesAddUp`), and a turn counts one segment or none, with one reference (`OneSegmentHit`).

`QueueUsed` is a refinement: each turn, on each of the paths of `pgref` and with or
without the ageing, is a step of `PriorityQueue` on the blocks in the loop queue
with their stamps.  It needs the distinct reference times of `Stamped`, without which the
least valuable block is not one (`EntriesDiffer`, `LeastOfQueue`), and `PeriodsMeasured`.  Together
with `ImplementsQueue` it says that the heap, used as `pgref` and `main` use it, gives the
victims that `UbmRun` takes.

### Only model-checked

* The two `Termination`s: liveness under fairness is out of the prover's reach.
* `FeasibleQueue`, `NoMissAtFixedSpeed`, `QueueSound` of `Memwork`.  They are about
  the utilisation of a set and about schedulability, and the two findings `no_delay` and
  `slowed` show that the plain statement is false: they hold for the task sets the run
  enumerates, by the conditions in their statements, and not for every value of the constants.

## Not modelled

* Active energy of CPU and memory, utilisation, reports: sums that no decision
  reads. Which ticks are charged is modelled.
* Configuration and option parsing; table overflows there. Its results are the
  constants and their assumptions.
* `policy_hm_chk.c`: not in `all_policies[]`.
* The floating-point gain of UBM (what it is computed from, and every way its
  comparisons can come out, neither above nor below included, are modelled); its output files, plots and `WARM_CACHE`,
  which is compiled out.
* `ULTRIXTRACE`, the other build of the simulators (the gain then also looks at a
  ghost segment); `MULTITRACE` is what both files define.
* The scripts.

## Plan

Modelling is complete as far as the code has decisions; what is left is proof.

* The task sets for which `FeasibleQueue`, `NoMissAtFixedSpeed` and `QueueSound` can be stated
  without the exceptions that `no_delay` and `slowed` show.  `DeadlinesMeet` is the part of
  it about where jobs are due; what is open is the utilisation of a prefix of the queue.
