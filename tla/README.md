# A TLA+ verification of PIMSim

PIMSim simulates *processing in memory*: a host offloads small computations to
units beside the memory. The repository holds two simulators. The detailed one is
a gem5 (`src/GEM5Simulation/gem5`) extended with PIM kernels, a table of
pending PIM operations in the memory, and processors and caches that know about
it. The fast one (`src/Fast Simulation/PIMSim`) is a trace-driven simulator in
C#. This project models what the detailed simulator adds to gem5, the parts of
gem5 that the addition leans on, and the core of the fast simulator. Paths below are relative to
`src/GEM5Simulation/gem5/src` or, in what concerns the fast simulator, to
`src/Fast Simulation/PIMSim`.

## 1. The system

### Components, their state and their operations

| Component | State | Operations | What makes it correct |
|---|---|---|---|
| PIM kernel (`pim/pim_kernel.cc`) | status, three registers with an address and a state each, data, a packet to retry, three events | `recvFunctional`, `start`, `tick`, `trycompute`, `finish`, `recvReqRetry`, `recvTimingResp` | a command computes on operands of one moment, no packet is lost or sent twice, no assertion fails, the command ends |
| Adder, multiplier (`pim/pim_adder.cc`, `pim/pim_multiplier.cc`) | none | `doCompute` | arithmetic modulo the word size |
| Pending-PIM table (`mem/abstract_mem.cc`) | a list of registered commands | registration, completion, `stalledAddr` | the running command is always in it, nothing else stays in it |
| Crossbar request layer (`mem/xbar.cc`) | idle or busy, ports waiting for the layer, the port waiting for the peer | `tryTiming`, `succeededTiming`, `failedTiming`, `releaseLayer`, `retryWaiting`, `recvRetry` | a refused port is remembered once and is told to retry, and its assertions hold |
| DRAM controller (`mem/dram_ctrl.cc`) | read, write and response queues, bus direction, two retry flags, two events | `recvTimingReq`, `processRespondEvent`, `processNextReqEvent` | queues stay in bounds, it does not sleep on work |
| Timing processor (`cpu/simple/timing.cc`) | status, events, packets at its two caches, queue of PIM commands to retry | `fetch`, `completeIfetch`, `completeDataAccess`, `PIMCommand`, `retryPIM`, `stopCurrent`, `activateContext` | commands are sent once and in order, a sleeping processor is woken |
| Host caches (`mem/cache/base.cc`, `mem/cache/cache.cc`) | blocks with state and data, write buffers | fill, store, replacement, sending a write-back, `flushPIM` | the kernel sees what the host stored, the host sees what the kernel stored |
| Processor hand-over (`cpu/base.cc`, `PIMProcess`, `HostProcess`) | thread contexts, ports | `takeOverFrom` | not modelled yet |
| O3 processor (`cpu/o3/cpu.cc`) | pipeline | as the timing processor | not modelled yet |
| Fast: memory controllers (`Procs/Mctrl.cs`, `PIM/PIMMctrl.cs`) | a waiting and a sending queue each | `add_to_mctrl`, `Step`, `get_req` | a host request does not reach a page behind a PIM access to it, no request is lost |
| Fast: page locks (`PIM/SpinLock.cs`, `PIM/Coherence.cs`) | one bit per page | `setlock`, `get_lock_state`, `relese_lock`, `flush` | held while a PIM access is under way, all given back |
| Fast: PIM adder (`PIM/CU_Pre_Set/Adder_Conventional.cs`, `PIM/PIM_Stage`) | current function, four stages | `Step` of each stage, callbacks | a waiting stage has one request under way, a function ends |
| Fast: memory front end (`Memory/DDR/DDRMem.cs`, `Transaction.cs`) | transaction queue, refused transaction, DRAM | fetch, merge, `addTransaction`, callbacks | merging forgets nobody, `done` is not true too early |
| Fast: host processor (`Procs/Proc.cs` and its parts) | current instruction, window, MSHR, caches, write-back queue, translation | `Step`, callbacks, `flush` | every instruction once and in order, whoever waits is answered, the trace ends |
| Fast: trace and partition (`TraceReader`, `Partitioner/InsPartition.cs`) | bounded queues of instructions and functions, end of file | `PartitionMethod`, `get_req` | order kept |
| Fast: main loop (`SimplePIM.cs`) | | `run` | stops when everything is done |

### How they interact

A PIM instruction makes `PIMCommand` translate three addresses, flush the caches
and send one *functional* packet to the kernel. The kernel sends a functional
`Registration` packet to the memory, which appends the command to the table. From
then on the kernel works with *timing* packets: two `PIMRead` requests and one
`PIMWrite` go through the crossbar to the controller, which may refuse a request
and must then call back with a retry. At the end a functional `Complete` packet
removes the table entry, flushes the host's caches and calls `activateContext`
on the processor. In between the table is consulted in two places: the
processor suspends itself when it is about to access a registered address, and
the memory port refuses a host request to one.

In the fast simulator `run` calls `Step` of every part once per cycle, in a fixed order:
partition, memory, host controller, PIM controller, processors, PIM unit. A PIM stage locks the page of its
operand, asks the processors to flush it (each drops its dirty copy and queues a `FLUSH`), and hands a
`LOAD` or `STORE` to the PIM controller, which locks and flushes once more before it passes the request on. The host controller
keeps back requests to locked pages. The memory merges requests to one address, and its answers come
back through callbacks in a later cycle. The unit gives the pages back when its store was answered.

### What is hard

gem5 is a discrete-event simulator in one operating-system thread, so there are
no data races. What is hard is order. Responses, retries, clock events and new
commands come in any order that the timing parameters allow; retries travel
through chains of calls that come back to where they started; the processor,
the kernel and the memory share the table without a protocol around it. The fast simulator
has one thread too; there the difficulty is state that several parts change in turn: a lock bit that two requests
set and one clears, merged requests with several owners, retries that start in the middle of what was done, and
conditions for the end that do not ask everyone. `PROJECT.json` lists the
hazards at their lines, with the properties that would catch each of them.

## 2. The modules

| Module | Models | Used by |
|---|---|---|
| `PIMRegistry` | the table of pending operations, as operators on a sequence of commands | all modules below |
| `PIMOffload` | abstract specification: an offloaded command is one atomic step | `PIMKernel` |
| `PIMKernel` | the kernel, the memory it reads and writes, host stores | `MCPIMKernel`, `PIMKernelProofs` |
| `PIMInterconnect` | crossbar request layer and DRAM controller | `MCPIMInterconnect`, `PIMInterconnectProofs` |
| `PIMHost` | the timing processor, its PIM queue, the wake-up | `MCPIMHost`, `PIMHostProofs` |
| `PIMCoherence` | data cache and L2 cache, with their write buffers, around commands | `MCPIMCoherence`, `PIMCoherenceProofs` |
| `FastQueues` | what is left of a list when a loop removes entries of it | `FastRequests`, `FastProc`, `FastQueuesProofs` |
| `FastRequests` | memory requests of the fast simulator: resizing, lock pages, transfer, merging | `FastOffload`, `FastRequestsProofs` |
| `FastOffload` | host processors and a PIM unit on one memory under page locks: both controllers, locks, flushes, memory front end, pipelined adder | `MCFastOffload`, `FastOffloadProofs` |
| `FastProc` | one host processor of the fast simulator in detail | `MCFastProc`, `FastProcProofs` |
| `PIMKernelProofs`, `PIMInterconnectProofs`, `PIMHostProofs`, `PIMCoherenceProofs`, `FastQueuesProofs`, `FastRequestsProofs`, `FastOffloadProofs`, `FastProcProofs` | theorems about the module of that name; the last three use `FastQueuesProofs`, and `FastOffloadProofs` uses `FastRequestsProofs` | |

Each `MC` module gives small sets of addresses, commands and programs to
the module it extends. Definitions whose comment starts with *Fault* are
variants of the definition that follows them; they show that a property
can fail and are used by no specification.

### PIMRegistry

A command is a function from the three registers to word addresses. `Complete`
removes the *first* entry whose *first* address matches, as the code does, which
compares `addr[0]` three times. `StalledAddr` compares granules. There are no
variables: each module that needs the table keeps it in a variable
`pending`.

### PIMKernel

`status`, `regAddr`, `regStat`, `data` and `retryPkt` are the fields of the
class. `tickEvent`, `computeEvent` and `finishEvent` hold the number of clock edges
until the event, or `Off`; `Cycle` is the next edge, which comes only when
nothing is due. Two events due at the same edge run in either order, and callbacks come at
an edge or between two edges (`NextEdge`), which covers the clock ratios of kernel and memory.
`net` holds the packets on their way; a read gets its value when the controller
performs it (`MemRead`), a write when it is accepted, as in gem5. `failed` counts
dropped commands up to `MaxFailed`.

Actions and handlers: `RecvFunctional` (accepting and dropping), `TickSendRetry`,
`TickRead`, `TickCompute` and `TickFinish` (the branches of `tick`), `TryCompute`,
`Finish`, `RecvReqRetry`, `RecvTimingResp`. `Refusable` is the set of requests
the interconnect may refuse. A second refusal of a retried request is
a stuttering step. `powerOff` has no caller and the status `Poweroff` is left out.

### PIMInterconnect

One layer, one controller, one port for the kernel and one for each host cache. A chain of
calls in zero time (controller to layer to port to layer to controller) is
one action; the operators `Forward`, `retryWaiting` and `recvRetry` return the
set of possible outcomes, and the action picks one. The controller is kept to what decides about
admission and wake-up: queue lengths, bus direction, the retry flags and whether
`nextReqEvent` is scheduled. A read may be answered by a queued write and a write may be
merged. Ranks are always available and a request is one burst; refresh,
power-down and draining are left out.

A cache that was refused sends nothing before it is told to retry, unless its write-back was squashed, which lets the retry pass
(`Squashed`). The kernel behaves so for its reads, but not for its `PIMWrite`: `trycompute` schedules itself again when the write is
refused, and sends on every later edge (`TryComputeAgain`), whether the packet still waits or a retry has got it through.
`compute` is the progress of that event: `due` when a write was refused, `again` once it was sent a second time, `stray` once it has run after a
successful retry, when `locateLatest` finds no register and the address is read past the end of `regs`. What follows then is whatever the memory holds there: the
crossbar knows no port for the address, or a stray write goes out and its answer fails an assertion (`StrayResponse`). `aborted` is the
end of a simulation in which an assertion failed (`Abort`): the port is already in the list of the layer, a retry finds no port that waits,
or `recvReqRetry` of the kernel is called without a packet to retry. `Exact` names the ports that have not sent twice.

### PIMHost

One thread runs a program of PIM commands, data accesses and other instructions. An action
is a callback of the processor with everything it calls: `FetchEvent`, `CompleteIfetch`, `CompleteDataAccess`,
the two retries, `RetryPIM`, and `CompleteCommand`, in which the memory wakes the
processor. Responses that the processor drops because of its status are actions of
their own (`DropIfetch`, `DropDataAccess`). `sent`, `issued` and `faulted` are history variables. Two constants separate
questions: `MayFault` lets the translation of a PIM address fault, and
`EarlyComplete` lets a command complete while the processor waits for a cache.
An assertion that fails ends the simulation, so the action is not enabled there.
Data accesses are translated inside the call, as in syscall emulation; split accesses,
microcode and interrupts are left out. Whether the kernel drops a command is decided by `kernel`, its
current command.

### PIMCoherence

A data cache over an L2 cache, each with the write buffer in which a replaced dirty block waits (`EvictL1`, `EvictL2`) until it is sent
(`SendL1`, `SendL2`); the memory port refuses to take one of a registered block, which then stays in the buffer. A miss
waits for a write-back of its block (`MissAllowed`, from `getNextQueueEntry`). The instruction cache holds no data but has its
place in the list that `PIMCommand` indexes. `PIMRead` and `PIMWrite` are not
snooped (they carry the attribute of an eviction), so the kernel sees the memory
only. `FlushBefore` and `FlushAfter` are the two loops over the caches. `latest`
is a history variable: what each word should hold for the program. `flushed` is
one too: it stays true as long as no command left a dirty copy of its blocks behind. `flushPIM` looks for a block in the cache and not in its
write buffer, and its functional write passes the memory port, registered or not (`Updated` is what it does to the copies on its way). A command that
reaches a busy kernel is dropped, but only after its flush and its registration (`PIMCommandDropped`). On completion the flush is for the addresses of the
entry that is erased, which may be another command's with the same first address. `kernel` keeps, as history, what the memory held of the operands when
the command had been registered, and whether the kernel was sent no other command since (`alone`). The
coherence granularity is a multiple of the block size (both are 64 bytes by
default).

### FastRequests and FastOffload

A request keeps its type, address, block, the processors it answers and, from a PIM unit, its stage.
`Merge` is the double loop of `DDRMem.Step` with its indices, one comparison per `MergeStep`: it goes on behind the entry it
removes, and may run past the end of the list, which throws in the code and is
`MemoryThrows` in the model. `Pick` of `FastQueues` is what is left of a queue when the controller passes over some of its entries. `LockPage` applies `resize` first, as the three operations on locks do.

`phase` is the part whose `Step` comes next, so that a cycle of `run` is a sequence of actions in the
order of the code: `MemoryServes`, `MctrlStep`, `PIMMctrlStep`, one of `ProcIdles`, `ProcHits`, `ProcMisses`, `ProcRefused` for each processor, and one
step of the unit (`Fetch`, `Load`, `Compute`, `Store`, `Finish`, `UnitIdles`). Each step of the unit ends with the test on
which `run` may return (`RunCheck`). The host processors are what the memory sees of them: misses, write hits, write-backs and
dirty blocks; `frame` is the translation they share. A miss that finds the controller full leaves an MSHR entry for which no request is ever
sent (`ProcRefused`). `Answerable` stands for the DRAM, which may answer any transaction that is the oldest to its address. The model answers
at most one in a step; the code may answer a read and a write, of each channel, in one cycle.

### FastProc

`Proc.Step` is one action, in two halves as in the code: `CycleStart` (ALU, due cache request, retirement)
and `CycleEnd` (stall, retry, current instruction), with the write-back between them. Operators return
sets of outcomes because the controller may refuse a request and the next instruction may not be
due. Instructions are positions in the trace. `done` is the history of what was handed to the window or the ALU.
`flaws` and the field `via` of a window entry are history too: they mark the cases that the properties except.
`ProcHangs` is the loop of `handle_cache_req` that never ends. `MemoryAnswers` stands for the controller and the memory: an answer to a request
absorbs any others to its address, older or newer, which covers every order in which `DDRMem.Step` merges; with three of them the loop may throw (`MemoryThrows`).

## 3. The runs

| Run | Module and configuration | Result | Distinct states |
|---|---|---|---|
| `kernel` | `MCPIMKernel`, `MCPIMKernel.cfg` | holds | 380 000 |
| `kernel_resend` | `MCPIMKernel`, `MCPIMKernelResend.cfg` | violated | |
| `kernel_leak` | `MCPIMKernel`, `MCPIMKernelLeak.cfg` | violated | |
| `interconnect` | `MCPIMInterconnect`, `MCPIMInterconnect.cfg` | holds | 77 000 |
| `interconnect_blocked` | `MCPIMInterconnect`, `MCPIMInterconnectBlocked.cfg` | violated | |
| `host` | `MCPIMHost`, `MCPIMHost.cfg` | holds | 984 000 |
| `host_early` | `MCPIMHost`, `MCPIMHostEarly.cfg` | violated | |
| `host_fault` | `MCPIMHost`, `MCPIMHostFault.cfg` | violated | |
| `coherence` | `MCPIMCoherence`, `MCPIMCoherence.cfg` | holds | 1 632 000 |
| `coherence_stale` | `MCPIMCoherence`, `MCPIMCoherenceStale.cfg` | violated | |
| `fast_offload` | `MCFastOffload`, `MCFastOffload.cfg` | holds | 238 000 |
| `fast_proc` | `MCFastProc`, `MCFastProc.cfg` | holds | 186 000 |

**kernel.** Two commands with the same first address, one of them in place
(result over first operand), four addresses, one-word granules, two dropped commands. These are the
cases in which removing the wrong entry, or an operand overwritten by the result,
would show. `PacketConservation` says that a register waits exactly while a
packet of its own travels; `OperandsCurrent` that nothing changes an operand
before the result is written; `RunningIsRegistered` that the running command is
protected whatever was dropped before; `RegistrationCount` that what remains in the table is exactly what was dropped;
`AssertionsHold` that no `assert` fires; `SendOnlyWhenFree` that the port protocol is kept;
`ImplementsOffload` that all this amounts to one atomic step; `CommandCompletes` that it ends.

**kernel_resend** allows a refused write as well and **kernel_leak** looks at the table of
an idle kernel; see the findings.

**interconnect.** Two hosts, a read buffer of two and a write buffer of three with thresholds
two and one, so that both queues fill, writes merge, the bus turns around in both directions and all
three ports wait at once. `RefusedIsRemembered` says where: exactly one place for each waiting port and none for the others, but for a kernel that has sent
its refused write again, which may be in the list and in the slot for the peer at once. `AssertionsHold` is the other side of that: no assertion fails before such a second
send. After one, the run does reach the failed assertions (they are why `aborted` occurs in it). `SomeoneWakes` is the reason that no wake-up is lost: a port waiting
for the controller has a flag set, and the event that serves the flag is due.
`RefusedIsRetried` is the liveness it yields, up to a failed assertion. **interconnect_blocked** lets the host touch
registered addresses.

**host.** Every program of four instructions over two commands with a common operand, in which a
command is followed by an access to one of its addresses before the next one is issued
(otherwise the kernel drops the next one). Four instructions are enough for two commands, each with
a sleep after it; the accesses are to an address of each command alone, of both, and of neither. Translations of
PIM addresses may fault. The properties other than `NothingLost` are about behaviours without a fault so far
(the history variable `faulted`), because `retryPIM` overwrites the status of the processor. Deadlock is not checked: a second fault
in `retryPIM` fails an assertion and the simulation stops. That nothing stops before a fault is what `HostFinishes` says.
Commands complete while the processor is asleep or done (`EarlyComplete` is false): this is the case of a kernel that is slower than
the processor on its way to the access that puts it to sleep. **host_early** drops that
restriction and finds the second fetch; **host_fault** finds the command that is sent without end.

**coherence.** Four words in two blocks and three commands whose operands and results share blocks with
each other or with an unused word; up to two of them are registered. Commands come while write-backs wait in either buffer and while the kernel is
busy. `FlushedOperandsInMemory` and `HostCoherent` are about programs whose dirty blocks the flush finds. `OneSnapshot` is about all programs: the operands the kernel
reads are those the memory held when the command had been registered. It fails without its condition, because the flush of a further command is not held
back and may write a dirty operand that the first flush missed. Deadlock is not checked: when dropped commands
have filled the table, every access may be held back for ever, which is the finding of `kernel_leak`. **coherence_stale** asks for the operands without the condition `flushed`.

**fast_offload.** Two processors, two pages of two words, and an address that resizes to another. The functions
have operands on two pages (one of them an alias, the result in place), on one page, and twice the same operand. The caches start clean or with
dirty copies of the operands in both processors, and the translation is the identity or swaps the pages.
`ExclusiveAccess` is what the locks are for. `IdleMeansUnlocked` says that `Finish` gives back whatever stages and controller
locked, and `StageHasRequest` that exactly the waiting stages have a request, one each. `StopIsClean` looks at
everything that `done` does not ask for. `NoRequestDropped` is an action property: a processor that goes on waiting loses its last
request only to an answer of another kind. `FunctionCompletes` and `HostAnswered` are liveness. Exceptions are named in
the properties: `UnitStuck` (a store that lost its input, a load whose answer went elsewhere), an MSHR entry without a request (a merged answer, or a refusal by a full
controller), the end of the program. A host request held back by a page lock or by a full DRAM is covered by `HostAnswered`; one refused by a full controller is not.

**fast_proc.** All 625 traces of four instructions over three pages and six longer ones, a window of three
entries, an MSHR of two, an L1 of one line, a shared cache of two, a write-back queue that stalls with one entry, two refusals
and one late instruction. In this instance the window and the MSHR fill up, both kinds of retry, the stall of the write-back queue,
mistaken repetitions, pages on one frame, the endless exchange of write-backs and the index error of the merge occur.
`WaitingIsServed` and `WaitingInMshr` tie the window, the MSHR and the requests under way to each other;
`TraceEnds` is liveness. That `run` returns only when nobody waits (`StopMeansServed`) follows from `WaitingInMshr` and is proved, not run.

What these two runs show about the code besides the properties, in the exceptions they had to name:

- A `FLUSH` waits in the host controller behind the lock that the flushing stage takes again one cycle later, so that the PIM load may read memory before the flush reaches it; and `Coherence.flush` reports only the last processor's answer (`PIM/Coherence.cs:31`).
- `Proc.flush` looks for the untranslated address (`Procs/Proc.cs:632`), and `PIMMctrl` flushes block 0, because a PIM request has no block (`PIM/PIMMctrl.cs:173`).
- Two operands on one page: the load whose flush fails unlocks the page of the other (`PIM/PIM_Stage/PIM_Load.cs:50`).
- A store whose flush fails is never tried again, and its pages stay locked (`PIM/PIM_Stage/PIMStage_Store.cs:104`).
- Two loads of one address are merged with the stage of one of them, and the other stage waits for ever (`Memory/DDR/DDRMem.cs:97`).
- `run` may return while a function is between two stages (`SimplePIM.cs:146`).
- A refused request is not sent by its retry (`Procs/Proc.cs:528`), and a retry that hits the shared cache ends in an endless loop (`Procs/Proc.cs:323`).

They are not listed as findings, because no document or comment of the repository says otherwise.

### Bounds

`MaxFailed` bounds dropped commands: two leave two stale entries before the running one, and a
further entry behaves like the second. `MaxPending` bounds the table in `PIMCoherence`: two entries are a running command beside a dropped one, with the
same first address or another. `MaxSent` bounds the commands sent, `ProgramLength` the
programs. `Latency` is two, so that responses, ticks and the computation meet in every
order. Words have two values; the kernel never looks at a value, so that two are
enough to tell right from wrong data. In `PIMKernel` the length of `recPackets` saturates where
the code stops distinguishing it, and in `PIMInterconnect` `writesThisTime` does so at
`MinWritesPerSwitch`; neither is a restriction.

In `FastOffload` `MaxFunctions` is one: a unit has one function at a time and is back in its initial state afterwards
(`IdleMeansUnlocked`), so a second function meets nothing but the host's requests, which `Init` and the other steps vary too.
`HostOps` bounds the instructions of the host: two, so that requests of both processors, or two of one, meet the
function. `DramDepth` is two: the third transaction is refused. `Warm` gives the caches that the bound on instructions cannot fill. In `FastProc`
`MaxRefused` and `MaxIdle` bound refusals and late instructions; the history `done` ends with the first flaw, because a stall can repeat a
calculation without end.

### Fairness

Weak fairness is assumed of scheduled events and of answers under way, and of nothing
the host or a program decides. gem5's event queue runs every scheduled event in the end, a controller that has
queued a read schedules its response, and a cache grants the retries it owes. In `PIMKernel` the fairness of
`RecvReqRetry` says that a refused request gets through in the end; that is what
`RefusedIsRetried` of the run `interconnect` shows of the crossbar and the
controller. `PIMHost` assumes that the kernel completes what it started, which is
`CommandCompletes` of the run `kernel`.

In the fast simulator `run` is a loop, which is weak fairness of the next-state relation, and the DRAM
answers its oldest transaction in the end: strong fairness of `MemoryServes(1)` and `MemoryAnswers(1)`, since the memory has its turn once
per cycle. Nothing is assumed of the host's instructions.

## 4. Findings

1. `kernel_resend`: after a refused `PIMWrite`, `trycompute` both keeps the packet for the retry and schedules itself again, and sends the result while the retry is still owed (`pim/pim_kernel.cc:82`). In `PIMInterconnect` such a kernel ends up in the list and in the slot for the peer at once, against the assertion of `mem/xbar.cc:188`, or is told to retry when it has nothing to send.
2. `kernel_leak`: a command that reaches a busy kernel has been registered before it is dropped; its addresses stay blocked (`pim/pim_kernel.cc:162`).
3. `interconnect_blocked`: a host request refused because of a registered address is never retried, and the kernel's requests wait behind it (`mem/dram_ctrl.cc:2973`). `PIMHost` shows why this is rare: the processor suspends itself first. A write-back of a cache gets there.
4. `host_early`: a command that completes while the processor waits for a cache starts a second fetch (`mem/abstract_mem.cc:485`).
5. `host_fault`: a command whose translation faulted once is sent without end (`cpu/simple/timing.cc:1134`).
6. `coherence_stale`: `PIMCommand` flushes the i-th cache for the i-th address only (`cpu/simple/timing.cc:1179`).

## 5. What is proved

Each proof module extends the module it is about. The theorems hold for every value of the constants that satisfies the named
assumptions of the modules: `GranularityAssumption`, `KernelAssumption`, `InterconnectAssumption`, `CoherenceAssumption`, `HostAssumption`,
`FastRequestsAssumption`, `FastOffloadAssumption` and `FastProcAssumption`. They say that the constants have their types and, besides, that the thresholds for writes are below the
size of the write buffer (percentages in the code), that a granule consists of whole cache blocks, and that a controller queue has room for the requests of two
stages. In each module `Invariance` or `Inductive` establishes the inductive invariant, and the theorems below follow from it. Hypotheses beyond the
assumptions are part of the theorem.

| Module | Theorem | Property | Hypothesis |
|---|---|---|---|
| `PIMKernelProofs` | `TypeCorrect`, `RunningRegistered`, `OperandsStayCurrent`, `RegistrationsCounted`, `PacketsConserved`, `AssertionsNeverFail`, `PortDiscipline`, `Refinement` | the safety properties of the run `kernel` and `ImplementsOffload` | `ReadsOnly` |
| `PIMInterconnectProofs` | `Typed`, `Bounded`, `Remembered`, `Asserted`, `Served` | `TypeOK`, `QueuesBounded`, `RefusedIsRemembered`, `AssertionsHold`, `ReadsAreServed` | |
| | `Woken` | `SomeoneWakes` | `~TouchesLocked` |
| `PIMCoherenceProofs` | `Typed`, `OperandsFlushed`, `Coherent`, `Snapshot` | `TypeOK`, `FlushedOperandsInMemory`, `HostCoherent`, `OneSnapshot` | |
| `PIMHostProofs` | `Typed`, `Lossless` | `TypeOK`, `NothingLost` | |
| | `OneFetchAtATime`, `AccessesAreClear`, `InOrder` | `OneFetchOutstanding`, `NoAccessInFlightToLocked`, `SentInOrder` | `~EarlyComplete` |
| | `SleepsForAReason` | `SleepHasReason` | `~EarlyComplete`, programs that wait |
| `FastRequestsProofs` | `MergeResult`, `MergeEnds`, `MergeComplete` | what the merge of `DDRMem.Step` computes | |
| `FastOffloadProofs` | `Typed`, `Exclusive`, `Idle`, `StagesServed`, `NothingDropped` | `TypeOK`, `ExclusiveAccess`, `IdleMeansUnlocked`, `StageHasRequest`, `NoRequestDropped` | |
| | `StopsClean` | `StopIsClean` | `DramDepth > 1` |
| `FastProcProofs` | `Typed`, `TakenInOrder`, `Served`, `InMshr`, `StopsServed` | `TypeOK`, `InOrderOnce`, `WaitingIsServed`, `WaitingInMshr`; `StopMeansServed`, which follows from the last | |

None of the hypotheses is there for convenience. `ReadsOnly` (the interconnect refuses no `PIMWrite`) fails in the run
`kernel_resend`, `~TouchesLocked` in `interconnect_blocked` and `~EarlyComplete` in `host_early`, and the properties fail with them. `Waits(p)` is the
condition on programs of section 3: a command that is sent to a busy kernel is dropped and its registration stays, so that a later
access sleeps for ever (`kernel_leak`). With `DramDepth = 1` the refused transaction may be the only one left, and `done` does not ask for it;
DRAMSim2's queues are longer.

**PIMKernel.** The inductive invariant `IInv` joins six parts. Types, the packets and the count of registrations are inductive
only together with `Control`, which says what each status and event implies about the others: a
scheduled computation has all its operands and an unsent result; a scheduled finish excludes a tick; an
idle kernel has nothing scheduled and nothing travelling; a packet kept for a retry belongs to a
register that is still ready. `Registered` needs the argument that completing a command keeps the number of
entries right although a *different* entry with the same first address may be the one erased: an entry of the
running command remains until the kernel is idle, because the kernel is the only one that completes commands and
becomes idle in the same step. `OperandsCurrent` follows from `Registered`: a host write to an operand
is refused. Each part has a lemma with one step per action. `Refinement` maps the status to
the three phases of `PIMOffload`; the step that sends the result is `Commit`, and it is atomic because of `OperandsCurrent`.

**PIMInterconnect.** An action picks an outcome of a chain of calls, so the parts of the invariant (`DramGood`, `LayerGood`, `WakeGood`, `HeldGood`) are
operators of a layer, a controller and the held requests, and every operator on the way has a lemma about all its outcomes. `LayerGood` has the ports that
are remembered exactly once as a parameter: all of them until the kernel sends its refused write again, and the hosts from then on (`Exact`); a step that takes the kernel out
needs the weaker half only. That an assertion fails only then is part of the invariant: for a port of `Exact` the list and the slot exclude each other, so that it is never queued
twice, and a retry finds it waiting. `SomeoneWakes` is
not inductive: it needs that a retry flag is set only while *its* queue is full, that the two flags are never set together
(the layer forwards one request at a time and stops at a refusal), that a full write queue keeps `nextReqEvent` scheduled, and that a flag
has a port in the slot for the peer.

**PIMCoherence.** A block has up to four copies above the memory, and `EntriesOK` says that above a dirty one there is none. `LinesOK` says for every block where its last value is.
For the blocks of the command under way it is in memory and nowhere dirty (`LineReady`). For other registered blocks it is in the dirty copy or, without one, in memory (`LineSafe`):
clean copies may be stale, since a dropped command's blocks are registered too and a result may have been written to them. For all others the clean copies have it as well (`LineGood`). The first is what the flushes establish
when they find the block, and what the registration keeps: blocks are not larger than granules, so that no store
of the host makes such a block dirty again. `OneSnapshot` is part of the invariant. Its step for a further command distinguishes its two conditions: with `flushed` the flush finds no dirty copy of
the operands to write, and a kernel that is `alone` has had no further command. A write-back that waits in the L2's buffer cannot be sent, because the running command is registered.

**PIMHost.** `Calm` holds as long as no translation has faulted: no retry is pending, at most one of fetch and access is under way and the status names
it, an access under way is to an address that is not registered, and a sleeping processor has neither event nor packet. `SentInOrder` adds that the
commands issued are the PIM instructions passed, in order; the instruction that is repeated after a sleep is an access, never a
command. `NothingLost` holds with faults too, by itself.

**FastRequests.** The double loop of `DDRMem.Step` is an iteration of `MergeStep`, a recursive *function* of a number of comparisons. The library's
induction theorems are not usable here, so the induction is over sets: `NatSet` (in `FastQueuesProofs`) says that a set with 0 and all successors contains the natural numbers,
and each theorem applies it to the set of numbers for which its claim holds. `MergeResult` is about all states of the loop, so it holds when the loop throws, too. `MergeEnds`
is by the measure `Left`: the comparisons left in this run of the loops, and the cube of the number of requests for the runs that follow. It
shows that the bound in `Merge` never cuts the loop short.

**FastOffload.** `Wires` relates the stages, the PIM requests and the locks: a PIM request under way is that of a stage that waits, for the address
this stage works on, and no other request names the stage; the unit holds pages of its function only; when the two operands are on different pages, the
page of every PIM request that has left the controller is locked, and no host request follows it. The last part is inductive only together with the
order of the parts in a cycle (`Order`): a host request is passed on behind all PIM requests under way, whose pages are locked and keep it back, and before
those that the PIM controller passes on in the same cycle. That merging keeps this is `MergeResult`. `Refused` says that a transaction waits only
behind a full DRAM, which is why `done` need not ask for it.

**FastProc.** A step of the processor is a chain of operators that return sets of outcomes, so the invariant consists of operators of a processor,
the memory's requests and the trace (`Holds`), and every operator on the way has a lemma about all its outcomes. `WaitingIsServed` as it stands is not
inductive. All write-backs carry address 0, so that the answer to one may absorb the write-back of another block, on which an entry might have relied. `Coming`
therefore counts requests with an address only, and `Asked` says that such a request asks for the frame of its page in the table, which
never changes: requests to one address are for one block, and whatever an answer absorbs belongs to the block it answers. An answer to a
block makes all its window entries ready and removes all its MSHR entries, which is why `Waits` and `Entries` survive it. `Where` ties the current
instruction to the next one and says that only a memory instruction is retried, and after the flaw `retry`. `Count` compares the history with the
position in the trace; in the middle of a step the number differs by one, according to whether the ALU has taken the instruction (`Mid`, `Turn`). The prefix that
`Retired` chooses exists by `NatSet`.

Model-checked only:

- Liveness (`CommandCompletes`, `RefusedIsRetried`, `HostFinishes`, `FunctionCompletes`, `HostAnswered`, `TraceEnds`), which TLAPS does not handle.

## 6. What is not modelled

- The PIM divider: not built.
- Processor hand-over (`PIMProcess`, `HostProcess`, `takeOverFrom`), the O3 processor, several processors: the table records `threadid` in a `bool`, and the list of caches outgrows the loop of `PIMCommand`. Planned.
- Refresh, power states, banks and timing of the DRAM controller; response and snoop layers of the crossbar; MSHRs: upstream gem5 that the PIM extension does not touch.
- Configuration scripts, statistics, debug output.
- Fast simulator: the DDR and HMC models are ports of other simulators and stay out. `PIMProc` is a second processor pipeline with the structure of `Proc`. `Adder` has the stages of `Adder_Conventional` without their memory callbacks and is meant for the `Bypass` memory method, which counts latencies and sends no requests. The ALU, PC traces, the timing mode of the ports, clocks that differ, several memories (where `Memory/MemorySelector.cs:93` chooses by address) and runs without caches are left out.
- Most lines of the repository are upstream gem5 with its vendored libraries (googletest, SystemC, DRAMSim2, instruction sets), which the extension does not touch.

## 7. Plan

1. Hand-over of a thread between host and PIM processors; several processors at one table.
2. A composition of `PIMHost` with the status of the kernel in place of the constant `EarlyComplete`.

## 8. Running it

`tlc -config MCPIMKernel.cfg MCPIMKernel` checks a run, and likewise for the others;
`tlapm PIMKernelProofs.tla` checks the proofs of a module. `FastOffloadProofs` has some 2700 obligations and takes several minutes, `FastProcProofs` as well.
