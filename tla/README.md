# Verification of Simu, elcor's modulo scheduling and the genetic search

The repository holds the Trimaran compiler system (`src/trimaran`) and a genetic-search
driver around it (`src/train`, `src/test`). Most of it is sequential translation. This
project models, in TLA+, the parts that have state, nesting, time or search:

* the run-time of the *Simu* simulator (`src/trimaran/simu/src/emulib`) with the wrappers
  its code generator emits (`simu/src/codegen/packager.cpp`) and the *M5elements* cache
  simulation (`src/trimaran/m5/patch/.../m5elements`);
* the way of a software-pipelined loop through *elcor*: iterative modulo scheduling
  (`src/trimaran/elcor/src/MSched`), rotating register allocation (`elcor/src/RotReg`),
  and the execution of the result by Simu's loop branch;
* the *genetic search* for a heuristic (`src/train/gp.h`).

TLC checks the models on small instances; TLAPS proves theorems about seven of them for
every value of their constants. Paths without a directory are relative to
`src/trimaran/simu/src/emulib`.

## 1. Inventory

| Component | State | Operations | Correct when |
|---|---|---|---|
| **Action queue** (`PD_queue.c`) | circular queue of 4096 slots with moves and at most one call each, the head `__PD_pending`, the last call | `delay`, `delay2x`, `delay_call`, `execute_instructions`, `aclock`, `check_interlock`, `is_simulator_call` | a write is seen exactly when its latency ends, in issue order; a busy register is released once, by the write that took it; every stall ends |
| **Kernel loop** (`PD_kernel.c`) | `__PD_PC_REG`, `__PD_done`, `__PD_cur_op_list`, longjmp flags | `__PD_simulate`, one activation per call of a simulated function | each activation resumes at its own operation; a longjmp resumes at the setjmp |
| **Calls and stacks** (`PD_stack.c`, `packager.cpp`) | C stack of wrappers, macro stack, stack pointer, function name, parameters | wrapper, prologue, epilogue, native stack | the three stacks agree; callers get back what they had |
| **setjmp/longjmp** (`PD_setjmp.c`, `PD_longjmp.c`) | list of jump buffers with depth counts | `setjmp`, `longjmp`, depth counting, forced returns | a longjmp lands in the activation that called setjmp |
| **Register files** (`PD_reg.c`, `PD_reg.h`) | register files, flags, macro registers, RRB | create, restore, free, rotate | no file is leaked, freed twice or used after being freed |
| **Cache interface** (`PD_m5e.c`) | stall loops over register flags and M5 counts | load, store, check sources, epilogue wait | stalls end; no request outlives its registers |
| **M5elements cluster** (`m5e_cluster.cc`, `cache.cc`) | request queues, completed requests, outstanding count | issue, tick, complete, read | order kept; each completion is told once |
| **Operations** (`PD_ops.list`, `gen/`) | LC, ESC, RRB, predicates, LDS log | loop branch BRF, clearing of rotating predicates; arithmetic | each operation of a pipelined loop runs for exactly the loop's iterations |
| **elcor modulo scheduler** (`MSched/ModuloScheduler.cpp`, `RU.cpp`, `Mdes/mdes.cpp`) | initiation interval, budget, start times, resource map, queue of unplaced operations | bounds on the interval, placing, displacing, next interval | dependences and resources respected; the search ends |
| **elcor rotating allocation** (`RotReg/rr_*.cpp`) | lifetimes, locations | distances, interference, best fit, binding of operands | no value is overwritten while an instance of it is live |
| **Genetic search** (`src/train/gp.h`) | population, offspring, cache of fitnesses by address | tournament, crossover, mutation, replacement | trees share no nodes; a cached fitness is that of its tree; the best tree stays |
| Signals and speculation (`PD_signals.c`) | jump buffer of the kernel, exception flags | delay, raise | not modelled, see the plan |
| Allocator (`PD_alloc.c`) | free and allocated lists | | nothing in the repository calls it |
| Statistics, tracing, timers, start-up | counters and files | | no influence on the simulated state |
| Simu code generator, elcor's other schedulers and analyses, openimpact, ARM back end | intermediate representations | translation passes | left out |

How they interact. The kernel loop issues operations. An operation queues register
writes and at most one branch; the scheduler's `ACLOCK` operations advance the queue. A
due call is a C call from inside `execute_instructions`: it runs a wrapper, whose kernel
loop clocks the same queue and uses the same `PC_REG`. Reading a register goes through
`check_interlock`, which advances the queue too, and so may call. setjmp and longjmp are
such calls. With the cache simulation a register's `pending` flag is written by the
queue and by M5, and three more loops stall the machine while M5's clock alone moves.

elcor's driver schedules a loop body, allocates rotating registers for the schedule, and
goes on to the next interval when either fails. The schedule, the locations and the
epilogue count it computes are what Simu's BRF relies on: nothing at run time checks
that an operand names the right instance of a value.

The genetic search writes a tree to a file; the compiler reads it as a heuristic, and the
simulated cycles are its fitness.

There are no threads. The hard behaviours come from *re-entry* (a call in the middle of a
clock, of a stall, of a native function), from *several unwinding disciplines* (C
returns, macro stack pops, longjmp with forced returns), from *two clocks* (queue and
M5), from *displacement* (an operation placed late throws out operations placed early,
and what was derived from them must go too), from *modulo arithmetic* in three places
that must agree (slots of the queue, cells of the resource map, rotating registers), and
from *reused addresses*. Nothing is persisted and nothing crosses a network, so crash
recovery and message loss do not arise. `PROJECT.json` lists the hazards at their lines.

## 2. Modules

| Module | Models | Kind |
|---|---|---|
| `ActionQueue` | slots, moves, calls, commit (`PD_queue.c`, `PD_queue.h`) | component |
| `EqualsWrites` | EQUALS latencies by distance from now, without a buffer | abstract specification of `ActionQueue` |
| `Pipeline` | kernel loop, `aclock`, `check_interlock`, calls nested in clocks, setjmp draining, longjmp within an activation | composes `ActionQueue` with the loops that drive it |
| `SimuCalls` | wrappers, prologue, epilogue, native callbacks, setjmp, longjmp, forced returns, register files, PV registers | component |
| `CCalls` | C's calls, returns, setjmp and longjmp on one stack | abstract specification of `SimuCalls` |
| `M5Cluster` | the M5elements side: issue, refusal, completion, reading | component |
| `CacheStalls` | loads, stores and stall loops of `PD_m5e.c`, and setjmp's wait under the cache simulation | composes `ActionQueue` and `M5Cluster` |
| `ModuloSched` | RecMII, ResMII, iterative scheduling with displacement, resource usage map, search over intervals | component |
| `RotAlloc` | lifetimes, distances, best fit, rotation, operand binding, failure and rescheduling | extends `ModuloSched` |
| `SoftwarePipeline` | preloop, BRF, rotating registers and predicates, delayed results | composes `RotAlloc` with Simu's side |
| `GeneticSearch` | `Population` and `ExpTree` of `gp.h` | component |
| `ActionQueueProofs` | invariants of `ActionQueue` | proofs |
| `ActionQueueRefinement` | `ActionQueue` implements `EqualsWrites` | proofs |
| `SimuCallsProofs` | invariants of `SimuCalls`; `SimuCalls` implements `CCalls` | proofs |
| `PipelineProofs` | stalls, calls and longjmps inside a clock; interlocks and their releases | proofs |
| `CacheStallsProofs` | the requests between Simu and M5; whom a busy register waits for | proofs |
| `ModuloSchedProofs` | dependences, resource map, queue, legality of the reported schedule, types; RecMII is least | proofs |
| `SoftwarePipelineProofs` | the allocator's locations; staging, operands, live-outs and length of the pipelined loop | proofs |
| `GeneticSearchProofs` | the forest of trees, the cache of fitnesses, tournaments and replacement | proofs |
| `MCActionQueue`, `MCPipeline`, `MCSimuCalls`, `MCCacheStalls`, `MCModuloSched`, `MCSoftwarePipeline`, `MCGeneticSearch` | instances for TLC | model checking |

Definitions keep the names of the source. A definition whose comment starts with
`Faulty:` is not used by any specification: it is the next definition with a plausible
bug, and a property that does not notice it when it is put in place is not worth having.

### State and actions against the code

*ActionQueue.* `moves[s]`, `call[s]` are the slot's `moves[0..nmoves-1]` and call entry,
`PD_pending` is the head, `mem` is every word a move can write, i.e. both words and the
`pending` flag of each register. `PD_delay` and `PD_delay2x` share `Queue`: write the
words, append the READY move when the flag was not BUSY, set it BUSY. `PD_delay_call`
punts on a second call in a slot. `PD_execute_instructions` commits the moves in order,
empties the slot, takes the call, moves the head, and records the call in
`last_call`; executing the call is left to `Pipeline`. The room in a slot (`MAXWRITE`) is
a guard here; the code does not check it.

*Pipeline.* The C stack is the sequence `act` of records: a kernel loop, an `aclock` with
clocks left, a `check_interlock` with its register and start slot, a call about to be
made, the return from it (holding the saved `PC_REG`), setjmp's loop. The top record
runs. `program` says what is simulated: with how many registers, and with or without
calls and setjmp. Within that the program is any sequence of writes, reads, clocks and
branches with at most one branch in flight. A function is `PLEN` operations in a loop;
that is a bound on names of positions, not on the length of a run.

*SimuCalls.* One action per event that changes the stacks: a call of a simulated function
(wrapper up to the kernel, then prologue), a native call, a callback from native code
with or without a fake argument frame, a return (epilogue and rest of the wrapper),
setjmp, longjmp, one forced return, the landing. `program` is the kind of program a
behaviour runs: virtual or physical registers, native callbacks or none, which jump
buffers, which predicate registers. `home` and `target` are history: where a live setjmp
was made, and which buffer the last longjmp used.

*M5Cluster, CacheStalls.* M5's caches are outside the repository: any set of requests may
complete in a tick, and a cache takes any prefix of what it is offered and refuses at
will. `Stall` moves M5's clock alone, `Aclock` the queue and then M5, `Drain` the queue
alone, as the three loops of the code do. `UpdateReady` always follows a tick. The model
assumes what the scheduler guarantees: a register is not written again or read before its
last write has landed by the latencies of the machine description. It does not assume
that a late load has completed before its register is written again.

*ModuloSched.* A behaviour takes one loop body of `LOOPS`. `phase` is where the driver
is: `limit` and `search` are the doubling and the binary search of `calculate_RecMII`,
`schedule` the head of the driver's loop, `iterate` one attempt. `InLegalSlot` and
`InForcedSlot` are the two ways `iterative_scheduler` places the highest operation;
`Bind` is the part they share (displace, `put`, mark scheduled), `NotPlaced` the failure
of `put` against the fixed branch. `ru_map` is the resource usage map as the set of pairs
of a cell and an operation in it; `Window` is where `RU_mgr` looks for an operation it
removes. `MinDist` is Floyd's algorithm as `floyd` performs it, with the pseudo node
Stop; a pair without a path is outside the domain of the distances where the code keeps
`minus_infinity`, -(2^31 - 1), which sums of a loop body's latencies are far from. Displaced operations come out of a hash set, so their order is any order. The
driver's step `El_bump_ii` is 1, its default.

*RotAlloc.* Lifetimes, `dist` (wand and open-loop parts), `Interference`, the candidate
locations and `Best_fit` are functions of the schedule; the actions place one lifetime
each, in any order, since the order is a heuristic. `DefReg`, `UseReg`, `EntryReg` and
`ExitReg` are the numbers that `Commit_register_allocation` and the pre- and postloop
write into operands.

*SoftwarePipeline.* `Enter` is the preloop; `Cycle` is one clock of the kernel: operands
read, results queued with their latency, results landed, and BRF in its cycle. A register
holds the pair of the operation and the iteration that made its value, which is history
only: the machine looks at RRB, LC, ESC and predicates.

*GeneticSearch.* Trees are nodes in `heap`, because crossover relinks nodes,
replacement deletes them, and `fitnesses` is keyed by addresses that `new` may hand out
again. An address is a block, one for each tree that is made, and a place in that tree: a
path from its root, a sequence of sides. A new tree takes the lowest block in which all its
places are free, so an address comes back as soon as its node is deleted, as the root of
a tree or as the root of a subtree that mutation makes. Nodes that the code leaks are
forgotten: nothing refers to them, but in the code their addresses are never handed out
again, so the model reuses more addresses than the code. `Tree` is the nodes of a tree by
their paths, level by level as `getLevel` finds them; an expression is a function from
paths to operators. `readFrom` takes the lines one by one, with the places still to be
read, which is what its calls of itself stand for. `Draw` is one candidate of a
tournament, `Mate` the crossover of the two winners with both mutations, `Scan` the
search for the best tree in the order of addresses, `Replace` one replacement. The
parent of a node is what `validate()` computes, which runs before every read of it.
`readFrom` calls itself in two arguments of one constructor call, whose order of
evaluation C++ leaves open: `readFirst` chooses one for the whole behaviour. Fitnesses
are thousandths.


## 3. Runs

| Run | Shows |
|---|---|
| `queue` | EQUALS semantics (`ImplementsEquals`), exactly one READY move per busy register, always behind a write of it, nothing further away than the longest latency |
| `calls` | in four kinds of program: depths of jump buffers, agreement of the three stacks, ownership of register files, landing of longjmps, predicate registers that come back and the one that does not, refinement of `CCalls` |
| `pipeline` | without calls every stall ends, and no clock of its own brings the head round; with calls, returns, setjmp and longjmp anywhere in a clock or stall, interlocks are released and each loop resumes at its own `PC_REG` |
| `stalls` | exact outstanding count, request order, back pressure, every busy flag is owed its release, every cache stall ends |
| `msched` | displacement keeps dependences, resource map and queue right; RecMII is least; the search ends |
| `swp` | staging, operands, live-outs and length of a pipelined loop from its dependences to its last iteration |
| `gp` | ownership of nodes, the cache of fitnesses, tournaments and replacement |
| `calls_guard`, `pipeline_checkpoint`, `stalls_drain`, `msched_slot`, `gp_crash` | the findings of section 6: TLC shows a behaviour of the code that a comment or an assertion of it rules out |

Bounds and why they are enough:

* *Queue*: three slots, `MAXLAT` 2, one register, two words and two call targets, which
  are symmetric. The slot arithmetic depends on the head, the latency and the wrap; with
  three slots every head position meets every latency, and one slot lies beyond the
  longest latency. The code has 4096 slots and a latency is a `ubyte`, hence
  `MAXLAT < QSIZE`. Three moves per slot (`MAXWRITE`) allow two writes and a release in
  one cycle, in both orders. The proofs drop all these bounds.
* *Pipeline*: two activations, functions of `PLEN` 2 operations, three slots. `program`
  chooses two registers without calls, for stalls that interleave with releases of
  another register, or one register with calls, for a stall interrupted by a call.
  Re-entry is the same at every depth: the inner activation sees the queue and `PC_REG`
  of the outer one. With three slots two clocks of a called function suffice to bring the
  head round under a stall, where the code's queue needs 4096 less those of the stall.
* *SimuCalls*: four activations, two functions, and four kinds of program: virtual
  registers with native callbacks and one jump buffer, physical registers with the last
  of the saved predicate registers and one buffer, two buffers without callbacks. This
  allows a setjmp in an outer and one in an inner activation, a longjmp over one or two
  activations, a callback between two of them, and a longjmp to the other buffer
  afterwards; the fourth, plain calls that change `__PD_PV_7`, the one predicate register
  the prologue does not save (`PV` is {6, 7}). `calls_guard` needs a longjmp that crosses
  native code (`CROSSNATIVE`), which had called back with arguments; the assertion of
  section 6 ends the run. The proofs hold for every number of functions, buffers and
  activations.
* *CacheStalls*: two clusters, two registers, two requests; two slots and latency 1, or
  for `stalls_drain` three slots and latency 2. Two requests in a cluster are needed for
  order, in two clusters for a cache that is served while the other refuses, and two
  loads of one register for completions that overlap. The proofs drop these bounds too.
* *ModuloSched*: bodies of three operations (`N`) and the branch, `BUDGETRATIO` 3, the
  longest operation latency (`MAXOPLAT`) 2. `MCModuloSched!MCLoops` has every pair of
  dependences with different latencies and iteration distances, operations with several
  alternatives, bodies in which operations contend for a unit or with the branch, and one
  with a long recurrence, for which the doubling search goes more than one step. At an
  interval of 1 and 2 `MAXOPLAT` covers the whole resource map, from 3 on the window of
  an operation wraps round it in some slots and not in others.
* *RotAlloc, SoftwarePipeline*: three operations, five general and six predicate rotating
  registers, so that allocation fails for some schedules and the driver goes on; words
  count to 30 (`WORD`, for 2^32), and RRB starts at 2 (`RRBS`), so that it passes zero in
  the loop; `MAXLC` 2, i.e. up to three iterations, more than the schedules have stages
  in some loops and fewer in others. In some loops an operation reads a source late
  (`anti`), so that the schedule and the epilogue are longer than its results need.
* *GeneticSearch*: populations of two trees, two generations, tournaments of two,
  replacement ratio 75, heights up to 3, fitnesses 0, 0.007 and 0.010: less than the
  tolerance of 0.005 apart, more, and failed. Two trees are enough for an address to be
  reused by a tree of the next generation, and two generations for a fitness to be
  looked up again. The proofs
  drop these bounds but for the height, which is any natural number.

`CHECK_DEADLOCK FALSE` is set where a model may stop: the queue when the program is
punted; the pipeline when its outermost function has returned or an assertion has failed;
the calls model after `main` returned; the cache model when an assertion failed; the
genetic search when it is over or has crashed.

Fairness. `calls` assumes weak fairness of the forced return and landing steps, which are
statements of C loops and returns that run by themselves. `pipeline` assumes it of the
run-time's own loops, not of the program. `stalls` assumes it of each step of the
kernel's stall loops, and strong fairness of "a tick in which this cache answers what it
holds and takes what it is offered": a cache that never again serves a request would
stall the machine, which the code meets with a punt after 500000 cycles. `msched` assumes
weak fairness of the scheduler's steps: one thread runs it. The other runs have no
liveness property: that a pipelined loop ends is the stronger `KernelOnTime`, and the
genetic search is a bounded loop. A simulated program is never assumed to go on.

## 4. Properties

Each module has one type invariant. The others were chosen at the hazards:

* `ImplementsEquals` maps the circular buffer to distances from now. An off-by-one in a
  slot, a lost or doubled release, the wrong winner among several moves to one word, or
  a call that overwrites another appears as a step `EqualsWrites` does not have.
* `OneWakeup`, `WakeupFollowsWrite`, `BusyIsReleased`: the flag protocol of `delay`.
* `NothingBeyondMaxLat`: the buffer does not wrap onto itself.
* `StallsEnd`, `DeadlockNeedsCall`, `ResumesWhereItWas`: re-entry.
* `DepthExact`, `StacksAgree`, `RegFilesOwned`, `LandsHome`, `ImplementsC`,
  `LongjmpLands`, `PVPreserved`: the unwinding disciplines.
* `OutstandingExact`, `InOrder`, `BackPressure`, `BusyIsOwed`, `StallsServed`: two
  clocks, one flag.
* `DependencesHold`, `MapIsPlaced`, `QueueIsUnplaced`, `ForcedAfresh`,
  `SchedulingEnds`: what must go, and come back, with a displaced operation.
* `RecMIIIsLeast` compares the doubling and binary search over longest paths with its
  definition: whether any assignment of times satisfies the dependences.
* `StagingIsExact`, `OperandsAreRight`, `LiveOutsFound`, `KernelOnTime`: the schedule,
  the locations and the loop branch agree. `OperandsAreRight` compares the (operation,
  iteration) that made the value an operand reads with the one the source program means.
* `OwnedOnce`, `FitnessIsOwn`, `WinnersAreBest`, `EliteKept`: trees share no node and
  none dangles; the cache of fitnesses by address is right over deletion and reuse;
  what a tournament and a replacement may lose against the best candidate.

`PROJECT.json` names for each of them a bug of the code that it notices.

Assumptions on the constants are named in the modules and evaluated in the runs:
`QSIZE`, `MAXLAT` positive with `MAXLAT <= QSIZE`; loop bodies with their edges,
latencies and alternatives (`LoopAssumption`), in which dependences within an iteration
follow the order of the body and an alternative uses a resource at most once
(`BodyAssumption`); rotating files and words large enough to be told apart; `ProgramsAssumption`
and `SearchAssumption` give the shapes of the instances.

## 5. Proofs

### The action queue

`ActionQueueProofs` and `ActionQueueRefinement` prove, for every set of registers, words
and targets, every queue size and every longest latency up to it:

* `TypeCorrect`: `Spec => []TypeOK`;
* `NothingBeyond`: `Spec => []NothingBeyondMaxLat`;
* `OneWakeupAlways`: `Spec => []OneWakeup`;
* `WakeupFollows`: `Spec => []WakeupFollowsWrite`;
* `Refinement`: `Spec => ImplementsEquals`, i.e. `Spec => Equals!Spec`.

Assumptions: those of `ActionQueue` (`QSIZE`, `MAXLAT` positive with `MAXLAT <= QSIZE`,
`MAXWRITE` a natural, `0` is a word, `NoCall` is not a target and `NoWrite`, which only
the refinement mapping uses, is not a word or a flag value).

*Types.* Slots are closed under the slot arithmetic (`ModSlot`, `AttimeSlot`); a word
written in a slot has a last write there (`LastExists`, from well-foundedness of the
naturals), so committing a slot yields words (`CommittedType`); queueing keeps types
(`QueueType`).

*No wrap.* `NothingBeyondMaxLat` is inductive over `TypeOK`. Different distances below
`QSIZE` are different slots, and a clock brings each slot one cycle nearer (`Distances`,
from the cases of the modulo in `ModCases`); a write's distance is below `MAXLAT`
(`AttimeAt`), so it misses every slot the invariant speaks of (`FarSlot`); the slot that a
clock moves to distance `QSIZE - 1` is the one it has just emptied.

*One release.* `OneWakeup` alone is not inductive: nothing in it says that committing a
queued flag move makes the flag READY. `WakeupInv` adds `FlagMovesReady`, every queued
move of a flag writes READY. Queueing a write adds one flag move when the register is
free and none when it is busy (`QueueContents`, `QueueWakeups`), and a register is
released by a clock exactly when the head slot holds its flag move (`HeadWrites`,
`ClockWakeupInv`).

*Release behind a write.* `WakeupFollowsWrite` is inductive over `TypeOK`: the moves of a
slot are only ever appended to or all removed, and the release is appended right behind
the last word of its write (`QueueFollows`).

*Refinement.* The four parts of the mapping get names (`WordBar`, `DueBar`, `OwedBar`,
`CallsBar`). A write appended to a slot wins over what the slot held for its words and
touches no other (`LastAppended`, `LastQueued`); a register's one READY move has one
distance (`SlotDistance`, `OneDistance`), which is what the register owes (`OwedIs`). So a
queued write is `Issue` (`QueueIssues`), a queued call `Call` or `Clash` (`CallIsCall`),
and a clock, which shifts distances by one and uncovers an empty one (`ClockShifts`, from
`NothingBeyond`) and brings releases one nearer (`ClockOwed`), is `Cycle`
(`ClockIsCycle`). `is_simulator_call` is a stutter.

### The loops that drive the queue

`PipelineProofs` proves, for every number of registers, operations, slots and latencies and
every program of `Programs`:

* `PipelineInvariant`: `Spec => []PInv`, the inductive invariant;
* `BusyIsReleasedAlways`: a register that is busy has its one release queued, whatever
  calls, returns and longjmps fall into a clock or a stall;
* `DeadlockNeedsCallAlways`: a stall's own clocks never come round to the slot it started
  from, so the assertion of `check_interlock` (`PD_queue.c:339`) fails only in a stall one
  of whose clocks made a call, in every program;
* `ResumesAlways`: the action property `ResumesWhereItWas`, each kernel loop goes on where
  it was left;
* `CheckpointAlwaysReady`: when setjmp has waited, every register is READY. The finding
  `pipeline_checkpoint` shows that this is less than the comment at the wait promises.

Assumptions: those of `ActionQueue` and `ProgramsAssumption`, `PlenAssumption` and
`LatencyAssumption` (`MAXLAT < QSIZE`: a latency is a byte and the queue has 4096 slots).

`PInv` joins, beside the queue's `WakeupInv` and `NothingBeyondMaxLat`: what may stand on
what in the C stack (`Above`: a call on a clock or a stall, a return under the loop it
called, nothing called from the stalls of a setjmp); one call in flight, and none while one
starts (`CallInv`); the registers setjmp has waited for stay ready, and those of the
checkpoint are (`SetjmpInv`); `PC_REG` is that of the operation whose clock or stall is
innermost (`PcInv`); and, for a stall, how many clocks it has lasted (`StallInv`,
`StalledFor`).

*Releases.* Every step but a longjmp leaves the flags alone or changes them through the
queue, where the argument for `OneWakeup` applies. A longjmp restores saved flags over a
queue it does not restore. It is sound because setjmp went on only once every register
was READY (`SetjmpInv`), so a restored register owes nothing; what the abandoned
computation still has queued releases a register that is free already, which is why
`BusyIsReleased` speaks of busy registers only: the stronger `OneWakeup` of the queue alone
is not an invariant here.

*Stalls.* A stall that has lasted `k` clocks has its register's release within
`MAXLAT - k` slots of the head, and each clock of the stall brings it one nearer. So the
register is free after at most `MAXLAT` clocks, and `MAXLAT < QSIZE` keeps the head from
its start. `StallInv` says this of every stall that has made no call (`Uncalled`), whatever
the program did before it and however deep the stall is nested. Once a clock of the stall
makes a call this is over: the call clocks the same queue any number of times, and the head
may be anywhere when it returns. A record's field `called` remembers it, and what `Above`
allows to stand on a stall, a call or its return, is there only when it is set.

### Calls, setjmp and longjmp

`SimuCallsProofs` proves, for every number of functions, jump buffers and activations and
every program of `Programs`: `TypeOKAlways`, `DepthExactAlways`, `RegFilesOwnedAlways`,
`WrapperGuardsAlways`, `StacksAgreeAlways`, `LandsHomeAlways`, `PVPreservedAlways`, and
`ImplementsCAlways`, that the simulator's calls implement those of C (`CCalls`).

Assumptions: those of `SimuCalls` (`MAXDEPTH` positive; `None` is no function, file or
buffer), and one premise of the theorems. `CROSSNATIVE = FALSE`: no longjmp leaves a
native activation behind, which C leaves to the native code; without it `WrapperGuards`
(run `calls_guard`) and `LandsHome` (section 6) are false. `PVPreservedAlways` is about
every set `PV` of predicate registers: the names the prologue saves are all but the last
(`SavedNames`), so all come back but that one.

None of the properties is inductive alone. `CallsInv` joins:

* `Shape`: native code calls `Main`, and only native code passes arguments in a frame of
  its own, so a wrapper removes what it has pushed;
* `Chain`: each entry of the macro stack and each wrapper holds what belongs to the
  activation below it, or a return would restore another function's registers;
* `Running`: the run-time's name, parameters, register file info and stack pointer are
  those of the last activation that is not about to be unwound;
* `Buffers`: a buffer whose setjmp is active holds what belongs to that activation, or a
  longjmp would restore another's;
* `UnderWay`: a longjmp is on its way to an active setjmp, over simulated functions only,
  so every activation it meets takes the forced return;
* `DepthExact` and `RegFilesOwned` themselves: counts that each wrapper adds to and takes
  from must be right for the landing, and ownership for freeing in it.

The C stack mixes simulated and native activations, the macro stack holds simulated ones
only: positions are related by counting (`CountSteps`, `CountGrows`, `LastCounted`,
`Positions`). What an action adds or takes off the C stack is counted once (`Entered`,
`Returned`, `Unwound`, `Jumped`), and each conjunct is then followed on its own
(`EnterChain`, `LeaveBuffers`, `JumpDepths`, ...). `FreshExists` gives that the pool of
register files never runs out: fewer are saved in wrappers than there are activations.

For the refinement, the active functions are read off the macro stack and the setjmps off
the positions of their activations (`Frames`, `Env`). `EnterSeen`, `ReturnSeen`,
`SetjmpSeen` and `JumpSeen` show what each action does to them; a longjmp cuts both at
once, so the forced returns that follow, and native activations, are stutters
(`UnwindSeen`, `NativeSeen`).

### The requests between Simu and M5

`CacheStallsProofs` proves, for every number of clusters, registers and requests and
every behaviour of the caches: `OutstandingAlways`, `InOrderAlways`,
`BackPressureAlways`, and `EpilogueQuiet`: an epilogue goes on only when clusters and
caches hold no request, so none can name a register file that is then freed; further
`StallsTypeAlways` and `BusyIsOwedAlways`: a register that is busy is released by a load
that is under way or by a write that is queued, so no stall waits for nothing.

None of the three invariants is inductive alone. `StallsInv` joins what they rest on:
types, identities of requests that are fresh and increasing, queues in the order of
issue, the four places a request can be in (new, refused, with the cache, completed) kept
apart, and the count: what is outstanding is what has been issued and not been told. A
tick is followed in its parts, completion, transfer and refusal; the action queue is
abstracted to the fact that its steps leave M5 alone.

For `BusyIsOwed`, `OwedInv` adds the queue's types and that a queued flag move writes
READY. Two clocks write one flag: a busy flag is owed either by the queue or by M5, and the
step that takes a debt away, the commit of a move or the reading of a completed load, is
the one that clears the flag. A load that is refused goes back to the queue of its cluster,
so it still owes. `RoomKept` is what lets a load that waited for a queue with room write its
register when it gets in.

### The modulo scheduler

`ModuloSchedProofs` proves, for every loop body and machine that satisfy the assumptions
(a body has finitely many dependences), every budget and every interval the driver arrives
at:

* `DependencesAlways`: placed operations are as far apart as the
  dependences between them ask for. `SchedInv` adds the types and that nothing is placed
  before the first attempt. A binding displaces every operation that the dependences of
  the bound one reach (`BindKeeps`); at the next interval what held still holds, because
  a longer interval asks for no more (`DelayShrinks`, `BumpKeeps`).
* `MapAlways`, `QueueAlways`, `ForcedAfreshAlways`: the resource map
  is what the placed operations use, and no resource is given out twice; what is not
  placed waits, once, behind the higher ones; no operation is forced with an alternative
  of an earlier try. The cells of an operation lie where `RU_mgr::remove` looks for them,
  wherever they wrap round the interval (`WindowCovers`, from the division lemmas
  `DivMod`, `ModUnique`, `ModPlus`), so displacing removes exactly the cells of what is
  displaced (`RemovedIs`); a binding adds one operation to cells that have room
  (`BindKeepsMap`). A sequence without repetitions that is as long as a finite set and
  within it has all its elements (`SeqsHaveAll`), so the queue loses nothing
  (`BindKeepsQueue`). `AttemptInv` needs all three at once: the operation at the head must be known to be
  unplaced for the map, and what is displaced to be placed for the queue.
* `ScheduleLegalAlways`: the schedule that is reported holds every operation of the body
  and the branch, breaks no dependence, and uses no resource more often than there are.
  It needs the whole of `AttemptInv`.
* `SchedTypeAlways`: the types. Heights are distances to Stop in the matrix that Floyd's
  algorithm leaves, and the matrix after each node is a recursive function: that it exists
  and holds numbers is proved by the least node at which it would not (`MinDistIs`).
  The same matrix never falls below the dependences it starts from, so that no dependence
  of an operation on itself is too long for the interval scheduled (`SelfInv`,
  `SelfGrows`), which `SoftwarePipelineProofs` needs and `DependencesHold` does not say.
* `RecMIIIsLeastAlways`: the interval `calculate_RecMII` returns is the least at which any
  times meet the dependences. `failFloyd` is exact (`FailsIfTooShort`). If some times meet
  the dependences, no distance exceeds what they leave between its ends (`PathsFit`), so
  no circuit is positive. If no circuit is positive, no detour by a node already tried is
  longer (`TriangleStep`: the node tried next on none, either or both of the halves), and
  the earliest times, each node as late as the longest path to it, meet the dependences
  (`EarliestMeets`). `LeastInv` is what the searches know of `lowlim` and `uplim`: the
  doubling leaves a `lowlim` that is itself too short, the halving one whose predecessor
  is, so the invariant allows both. `Feasible` looks at times up to `N` times the longest
  latency only; that this loses nothing is a pigeonhole argument (`TimesShrink`): among
  times further apart some stretch as long as the longest latency is empty, and what comes
  after it can come a cycle earlier (`GapCloses`).

The proofs do not use `BodyAssumption`. The heights are any numbers here: that they are
longest paths matters for how soon a schedule is found, not for its legality.

### The software pipeline

`SoftwarePipelineProofs` follows a loop from its dependences to its last iteration. For
every loop body and machine, every size of the two rotating files, every order in which the
allocator takes the lifetimes, every register base an earlier loop leaves and every trip
count:

* `StagingAlways`: an operation's guard is set in its iterations `0..trips` alone;
* `KernelOnTimeAlways`: LC and ESC end the kernel after an interval for every iteration and
  every further stage;
* `OperandsAreRightAlways`: every operand is the value of the iteration the source program
  means, or the live-in value;
* `LiveOutsFoundAlways`: the values of the last iteration are where the postloop looks;
* `SwpTypeAlways`: the types.

Assumptions, beside those of the scheduler: `FileAssumption` (a file has a register),
`WordAssumption` (the size of a file divides the number of machine words, as both are
powers of two: otherwise a base that wraps would lose step) and `FlowAssumption` (a value
flows along a dependence that is at least as long as its latency, as
`Reg_flow::set_latency` makes it, `elcor/src/Graph/edge.cpp:355-359`; latencies are at
least a cycle, as in the machine descriptions). The three are what `OperandsAreRight`
would be false without: a result of latency 0 would have to be in its register in the cycle
that computes it.

*Staging and length.* `SwpInv` joins `AttemptInv`, the branch in the last cycle of the
interval and nothing before the first (`StartInv`), `AllocInv` and `KernelInv`. The best
fit always finds a location that no other lifetime excludes, since far enough away nothing
does (`BestFitFree`). The file of predicates that suffices has a register for every stage
and one more (`PRFits`). So the predicates are a window of iterations, one register for
each: BRF turns the registers by one and writes the one that becomes the newest
(`TurnKeeps`), and what it overwrites has left the window (`StagingApart`). LC, then ESC,
count the intervals.

*Operands.* What the allocator establishes is stated about cycles and iterations alone:
`Disjoint(a, b, d)`, with `b`'s value `d` iterations newer than `a`'s, is that one of the
two comes after the other has landed and been used (`Follows`), or that they are values of
the loop alone and `b`'s is out of the way at each use of `a`'s (`Apart`). `GprInv` says
that results whose locations differ by `d` and a multiple of the file's size are disjoint.
Within the file this is what `Excludes` excludes (`FreeIsDisjoint`, from the distance in
`FarFollows`; the third case is `Interference`); around the file it is that all the registers
needed, from the lowest first cycle to the highest last one, fit (`WrapFollows`, from
`RequirementsIs`). Live-in and live-out values are the reason for `leading` and
`trailing`: lifetimes that begin before the loop or end after it (`ResultLifeIs`).

`DataInv` then says of the machine that the results on their way are those issued and not
landed, and that a value that has landed, or was there before the loop, is in its register
(`Home`) as long as it is needed. The turn of the registers leaves each value at home
(`HomeStays`), the bindings of definitions, uses, live-ins and live-outs all name it
(`HomeRegs`, `EntryHome`), the preloop's copies do not meet (`EnterStartsData`), and a value
that lands in the register of another that is still needed contradicts `Disjoint`
(`Undisturbed`).

### The genetic search

`GeneticSearchProofs` proves, for every population, number of generations, tournament size,
replacement ratio, set of expressions, bound on heights and set of fitnesses:
`GpTypeAlways`, `OwnedOnceAlways`, `FitnessIsOwnAlways`, `WinnersAreBestAlways` and
`EliteKeptAlways`.

Assumptions: `SearchAssumption` (at least two trees, or replacement would loop for ever
looking for one that is not the best; a tournament has a candidate, or the scan would
find no fitness; the ratio is a part of a whole) and `TreesAssumption` (what
`new ExpTree()` and `base_line.txt` yield are expressions: each operator with its
operands).

`SearchInv` joins `Counters`, `TreesInv`, `CacheInv`, `TournamentInv` and `EliteKept`.

*Trees.* `Forest(h, roots)`: every node has the children its operator asks for, no node is
a child twice, the roots are nobody's children. With the bound on heights (`Fits`) this
gives each node one place in one tree (`OnePlace`, `Apart`), which is what `OwnedOnce`
says by counting. The roots are those of the population and of the offspring not placed
yet, all different (`TreesInv`). Building a tree in a free block keeps a forest
(`BuildIs`); so does putting a fresh subtree in the place of another (`GraftForest`) and
exchanging two subtrees of different trees (`SwapForest`), where for a moment a node is the
child of two. So both parents' copies are trees again after crossover and mutation
(`BredBoth`), the population's own trees are untouched (`CrossoverIs`), and deleting one
tree takes no node of another (`DeleteIs`).

*Cache.* A cached fitness is about a root of the population and about its expression now.
It is replacement that could break this: the address erased is that of the tree deleted,
and offspring put in its place are not in the cache, since no offspring that waits is in
the population. What is measured is what the compiler reads: reading back the lines
written gives the expression, or with the other order of evaluation its mirror image
(`ReadBack`, `AsReadIs`), and the same at each later time, so a fitness does not go stale.

*Tournaments and scan.* `TournamentInv` says where `maxFit` comes from: the winner of this
tournament or the one before. No candidate below `maxFit` displaces the
winner, and one that does not displace it is less than the tolerance above. `ScanIs` gives, for every
order of the addresses, that the scan crashes or ends within the tolerance of the best.
`EliteKept` stays because replacement does not choose the tree the scan chose.

The recursions (`Tree`, `writeTo`, `readFrom`, `ScanOf`, `Populate`) are functions on
`0..n` or on paths: that they exist is proved from the least element of a set of naturals
(`RecursionExists`, `LeastExists`), by the same argument as induction. `readFrom` is
related to `writeTo` by an invariant over the lines read so far.

### Only model-checked

Every invariant of the passing runs has its theorem; what the runs of section 6 check is
false there. Liveness (`StallsEnd`, `StallsServed`, `LongjmpLands`, `SchedulingEnds`) and `ENABLED`
are out of the prover's reach.

## 6. Where code and comments disagree

* `pipeline_checkpoint` - setjmp waits for each register's flag, but a flag is released
  by the first of two overlapping writes; the later one is in flight when the registers
  are saved (`PD_setjmp.c:176-183`).
* `calls_guard` - wrappers take off the fake native frame before they look whether a
  longjmp is under way; `PD_stack.c:254-259` asserts they do not.
* `stalls_drain` - under the cache simulation setjmp waits with `check_interlock`, which
  does not move M5: a load in flight makes it assert a deadlock (`PD_setjmp.c:181`,
  `PD_queue.c:339-343`).
* `msched_slot` - a displaced operation forgets the time it was last scheduled at
  (`ModuloScheduler.cpp:1400`), so the next forced slot may be the one it was displaced
  from, against the comment at `ModuloScheduler.cpp:1002-1007`. The budget hides it.
* `gp_crash` - a tree that failed and has the lowest address is compared by size with a
  null tree (`gp.h:571`).

Seen while modelling, without a run of their own:

* The deadlock check compares queue positions across a call, whose own clocks may bring
  the head back to where the stall began: a deadlock is reported although the register has
  been released (`PD_queue.c:338-343`). `DeadlockNeedsCall` says that this is the only way.
* `PV4_REG` is another name of `PV3_REG`, so the eight names the prologue saves are seven
  registers and a call leaves the callee's `__PD_PV_7` to its caller (`PD_reg.h:355-363`,
  against the comment at `PD_stack.c:304`). `PVPreserved` states this.
* A native function that a longjmp should have left goes on; when it calls a simulated
  function again, that function's kernel takes itself for the longjmp's target and clears
  the flag (`PD_kernel.c:373-376`). With `CROSSNATIVE` TLC finds `LandsHome` violated so.
* A wrapper left by a longjmp does not put `__PD_cur_op_list` back, so `check_interlock`
  may charge stalls to an operation of another function's table (`PD_queue.c:319`,
  `packager.cpp:176`).

## 7. Not modelled, and why

* *Simu.* Values computed by operations, addresses, parameter passing and return values:
  no property is about them. BRW, the LDS log, vector registers and their rotation,
  signals and speculative tags: see the plan. The allocator: nothing calls it. Statistics,
  tracing and timers: output only. The instruction cache path: disabled in the code
  (`PD_m5e.c:272`). M5 itself and the C library: outside the repository. The stall limit
  of 500000 cycles: a watchdog on M5.
* *elcor.* Of modulo scheduling, the swing priorities, stage scheduling, modulo variable
  expansion, melding of loops and peeling; allocation of scalar registers, acyclic
  scheduling, the analyses and the intermediate representation. They are large sequential
  translations whose correctness is equivalence of programs; stating it needs a semantics
  of the intermediate representation, which is a project of its own.
* *Genetic search.* The values and the printing of expressions: no property is about
  them. The `value` of operator nodes is never initialised (`gp.h:401`) and not read
  either. The second tournament goes on from the best fitness of the first
  (`gp.h:546`): this is modelled as it is. `base_line.txt` is there and readable: without
  it the population holds a null tree from the start (`gp.h:425`).
* *openimpact, ARM back end, benchmarks, scripts*: a C front end and its optimiser
  (more than half of the repository, half of that generated tables), a port, inputs and
  glue without state of their own.

## 8. Plan

Done: the queue with its abstract specification and proofs; kernel loop; calls and
stacks, setjmp and longjmp with their abstract specification and proofs; cache interface
with proofs; modulo scheduling, rotating allocation and the pipelined loop with proofs; the
genetic search with proofs.

Left, in this order:

1. `SpecTags`: tags of speculated values, delayed exceptions and the kernel's single jump
   buffer (`PD_signals.c`, `PD_kernel.c` 255-320), the register-bit spill of
   `PD_stack.c` 149-206, over the nesting of `SimuCalls`.
2. BRW beside BRF in `SoftwarePipeline`, and the LDS log (`PD_ops.list` 1251-1360)
   against a map from addresses to conflicting loads.
3. Swing scheduling and stage scheduling as other strategies over `ModuloSched`'s `Bind`.
