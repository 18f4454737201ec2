# A TLA+ model of EasyXMen

EasyXMen is an AUTOSAR Classic platform in C: an OSEK/AUTOSAR operating system
(`src/RTOS`) and about fifty basic software modules (`src/BSWCode`).  This
directory holds TLA+ modules translated from that code, the TLC configurations
that check them on small instances, and TLAPS proofs for instances of any size.

Contents: 1 inventory, 2 modules and their correspondence to the code, 3 runs,
4 proofs, 5 findings, 6 limits, 7 plan.

## 1. Inventory

`PROJECT.json` lists every component of the repository with its status and
every hazard at its line.  The parts with logic of their own:

### The kernel, one core (`src/RTOS/Kernel`)

| Component | State | Operations | Interacts with | Hard behaviour | What makes it correct |
|---|---|---|---|---|---|
| Os_ReadyQue | per priority a ring with head and tail marks; a bit map of the priorities that are not empty | insert at the tail or, for a raised task, at the head; remove the head; highest priority; take a task out of the middle when its application is terminated | called by Os_Task, Os_Resource, Os_Appl with interrupts disabled | full and empty rings have equal marks; nothing tests for an overrun; removal drops whoever is first | the rings are FIFOs, the bit map agrees with them, the entry removed is the one meant |
| Os_Task | state, activations, running priority of each task; running task, cached highest task and priority, dispatch locker | ActivateTask, TerminateTask, ChainTask, Schedule, wait and wake up, dispatch | Os_ReadyQue, internal resources, Os_Event, Os_Interrupt, the port | interrupts activate tasks at any point; the cache of the highest task; multiple activations; non-preemptable tasks | the highest ready task runs whenever switching is allowed; no activation is lost or doubled |
| Os_Resource | for each resource its place on the holder's stack and the priority to restore; a stack per task and interrupt | GetResource, ReleaseResource at task and interrupt level, internal resources | Os_Task (priorities), interrupt levels | check and taking are apart; nesting; preemption between equal ceilings | one holder, mutual exclusion by ceiling, each release restores the right priority |
| Os_Event | events set, events waited for, any/all flag for each extended task | SetEvent, ClearEvent, WaitEvent, WaitAllEvents | Os_Task, interrupts | the set races the wait | a task waits only while its condition is false |
| Os_Interrupt | nest of active category 2 interrupts, interrupt level, call level | enter and exit, switch at the outermost exit, suspend/resume services | Os_Task | nesting; exit decides the switch that activations in between left to it | the locker is balanced, no switch is forgotten |
| Os_Counter, Os_Alarm | counter over twice its range; list of set alarms sorted by expiry | increment, set, cancel, expire with callback, autostart | the tick interrupt, Os_Task, Os_Event | wrap-around; callbacks run outside the critical section and are interrupted | every alarm expires at exactly its tick, cyclic ones do not drift |
| Os_ScheduleTable | state, next expiry point and its tick of each table, follower and predecessor, doubly linked list per counter | start, stop, next, synchronise, process expiry points | Os_Counter, Os_Task, Os_Event | wrap-around; chaining; states checked before the critical section; a loop that only running tables leave | expiry points happen in order, at their offset; a follower starts where its predecessor ends |
| Os_Kernel | start state of the core | StartOS, ShutdownOS | all of the above | order of initialisation | the scheduler starts with the highest autostart task |

### The kernel, several cores

| Component | State | Operations | Interacts with | Hard behaviour | What makes it correct |
|---|---|---|---|---|---|
| Os_Rpc | pool of call nodes, a queue per core | remote service call, serve in the inter-core interrupt, return a result | every service with a remote target | nodes are taken and given back by several cores; waiting for a result while serving others | each call is served once and gets its own result; no two cores wait for each other |
| Os_Spinlock | owner and nesting order of each lock | Get, Try, Release | Os_Task, Os_Resource, Os_Interrupt | cores race for the test and the lock; a task and an interrupt of one core | mutual exclusion, no deadlock among locks taken in order |
| Os_Barrier, Os_Core | tickets, participants; core states | wait at the barrier, synchronisation point of StartOS and ShutdownOS | Os_Kernel | 8 bit tickets wrap; detection of deadlocks reads other cores' states | nobody passes before all have come, everybody passes then |
| Os_Appl, Os_ProtectHook, Os_Tprot, Os_Sprot, Os_Mprot | application states, budgets, access tables | terminate and restart, protection reactions | all services | forced termination in the middle of anything | nothing of a terminated application stays queued or locked |

Os_Hook, Os_StackMonitor, Os_FaultManager, Os_TrustedFunc, Os_Peripheral and
`src/RTOS/Extend` call user code, wrap registers or measure.  The ports
(`src/RTOS/Portable`) switch contexts and set interrupt levels, in C and assembler.

### Basic software (`src/BSWCode`)

State machines over time and messages (CanTp, CanNm, UdpNm, Nm, ComM, CanSM,
LinSM, EthSM, Sd, SoAd, DoIP, Dcm), storage with job queues and flash (NvM, Fee,
Ea, MemAcc), supervision (WdgM), routing and packing (PduR, Com, IpduM, CanIf,
SecOC), each driven by a main function, calls of upper layers and indications of
lower ones.  Two have the behaviour a model is best at:

- **Fee** (modelled) keeps the blocks of NvM in flash.  State: the records in the
  clusters (header, data, valid flag and invalid flag are separate writes), and in
  RAM the status of the module, the job, the place of each block's record, the free
  space of the cluster in use.  Operations: Read, Write, InvalidateBlock,
  EraseImmediateBlock, Cancel, the main function, the notifications of the flash
  driver.  It is called by NvM (through MemIf) and calls the driver (Fls or MemAcc),
  which answers later.  Hard: a full cluster is swapped over many jobs, and power
  may fail, or a request be cancelled, between and within any two.  Correct: a
  block reads back as its last completed write, whatever happened in between, and
  every job ends.
- **CanTp** (modelled, for one configuration) sends and receives segmented messages
  with flow control.  State: for each connection its state, the timer that runs,
  frames left, sequence number and block; who occupies the N-PDU.  Operations:
  Transmit, cancel, the indication of a frame, the confirmation of a frame, the main
  function that sends and counts timers.  It is called by PduR and CanIf.  Hard: six
  timers, confirmations that come late or after the timeout, frames that overtake
  them, missed frames, upper layers that are busy.  Correct: a message arrives whole
  and once, its sender learns the truth about it, and every connection is given back.

The rest (drivers, type headers, tables, the vendored lwIP, generated
configuration) has little control of its own; `PROJECT.json` says why for each.

### Hazards

The hazards in `PROJECT.json` are at the lines where they bite.  In short: the
cache of the highest task, the blind removal of the first entry, the dispatch
locker that four functions count, checks made before the critical section that
acts on them, the nesting of saved priorities, flags that outlive their wait,
ring marks, wrap-around of ticks and tickets, callbacks that leave the critical
section, power loss between any two writes of a flash record; between cores, call
nodes that are given back and taken again, waits for each other, status words read
one after the other; between nodes, frames that overtake confirmations.

## 2. Modules

```
OsReadyQue <- OsTask <- OsInterrupt <- OsResource <- OsEvent <- OsKernel   one core
                                              OsKernel <- OsKernelInvariant
                     OsKernelInvariant, OsReadyQueRing <- OsKernel_proofs
OsReadyQue <- OsReadyQueRing <- OsApplReadyQueue     OsReadyQueRing implements OsReadyQueSpec
OsCounter <- OsAlarm                                 OsAlarm implements OsAlarmSpec
OsCounter <- OsScheduleTable                         OsScheduleTable implements OsScheduleTableSpec
OsRpc                                                OsRpc implements OsRpcSpec      several cores
OsBarrier                                            OsBarrier implements OsBarrierSpec
OsSpinlock, OsStartup
OsBarrier <- OsBarrier_proofs                        Fee <- Fee_proofs
OsSpinlock <- OsSpinlock_proofs                      OsStartup <- OsStartup_proofs
OsAlarm, OsScheduleTable <- OsCounter_proofs         OsRpc <- OsRpc_proofs
CanTp <- CanTp_proofs
FeeFlash <- Fee                                      Fee implements FeeStore
CanTp                                                CanTp implements CanTpSpec
MCOsKernel, MCOsReadyQue, MCOsAlarm, MCOsScheduleTable, MCOsRpc, MCOsSpinlock,
MCOsBarrier, MCOsStartup, MCFee, MCCanTp             constants for TLC
```

(`A <- B`: B EXTENDS A.)

### One core

The configuration modelled is ECC2 (extended tasks and multiple activation) with
mixed preemption, extended status, nested category 2 interrupts, no timing
protection, one core.

- `OsReadyQue`: a FIFO per priority, what the scheduler sees of the ready queue.
- `OsTask`: the scheduler's part of the control blocks is the record `sched`;
  every C function that changes it is an operator from record to record, so a
  handler is the composition of its calls (`DoActivateTask`, `DoTerminateTask`,
  `DoChainTask`, `DoSchedule`, `SetTaskToWait`, `SetTaskToReady`, `SwitchTask`).
  `Os_Hal_Dispatch` traps at once, so the switch belongs to the step that calls it.
- `OsInterrupt`: `isrNest`, `ipl`, `savedIpl`.  The saving and restoring of the
  level is the processor's, taken from the ports.
- `OsResource`: `rcb`, `taskRes`, `isrRes`; standard resources of the three
  occupy types with their stacks, internal resources in `OsTask`.
- `OsEvent`: `ecb` and `blockedIn`, the service a task waits in.
- `OsKernel`: the actions.  A service is one action because it is one critical
  section of the code.  `GetResource` and `SetEvent` check before they enter the
  section that acts; each is two actions, and `call[t]` is how far task `t` has
  come.  A service that returns an error changes nothing and is no step.  A task
  is its control state only: any service may be its next, so all programs of the
  tasks are covered, restricted by `TaskAccess`, `Chainers`, `WaitServices`.

Startup is part of the behaviour: `InitTaskTCB` is a round of the loop of
`Os_InitTask`, `StartScheduler` the first switch.

### The arrays of the ready queue

`OsReadyQueRing` has the arrays `Queue`, `QueueHead`, `QueueTail`, `Map`, the
masks and the search for the highest bit.  `OsReadyQueSpec` is the bounded FIFO
and `ImplementsFifo` the refinement: the contents of a ring from head to tail.
The insertion of the code does not test for room; `QueueLimit` is the number of
entries its callers have in a ring at most, and `QueuesFit` in the kernel's run
shows what it is: the activations of the tasks of the priority, and one raised task.
`OsApplReadyQueue` adds the removal from the middle of a ring.

### Counters, alarms and schedule tables

`OsCounter` has the arithmetic of a counter over twice its range.  `OsAlarm` has the
list along `AlarmNext`, the services, the autostart, and the tick in its pieces: the
increment, the expiry of the head, its callback, the reinsertion, the end.  Services
of others come in while the code is outside its critical sections: between the
increment and the work, and while a callback runs.  `OsAlarmSpec` is the promise: an
alarm set to expire in n ticks does so after n ticks, a cyclic one again every
period, and time does not go on before the expired ones are served; its `left` is
the distance of `AlarmStart` from the counter.  Ticks of one counter do not overlap:
the tick interrupt does not interrupt itself.  Two conditions that the kernel does not
check are named: `SumsFit`, a value of the counter and an offset can be added in
`Os_TickType`, and `SetsAhead`, no alarm is set to the value the counter has, nor touched
while its callback runs.

`OsScheduleTable` has the started tables in their doubly linked list, in the build
without synchronisation.  `list` holds the head and the control blocks; a C function
on the list is an operator from list to list, and a service or an expiry point the
composition of its calls (`Reinsert`, `Remove`, `StartAt`, `EndTable`).  The loop of
`Os_WorkSchedTbl` is a step for each expiry point, with the services kept out.  A
table that is due but not running is left where it is, as in the code; the invariant
says that it does not happen.  `StopScheduleTable` and `NextScheduleTable` check the
states before their critical section, and are two steps each.  What a table activates
at an expiry point is not named: `OsKernel` has activations and events from
interrupts at any time.  `OsScheduleTableSpec` promises each expiry point at its tick,
and is the same with `left` and `follower`.

### Several cores

- `OsRpc`: the pool of nodes of each core in its two lists, a caller step by step
  through `Os_RpcCallService`, a core through `Os_RpcServiceOperation` in its
  interrupt.  A step is a critical section of the code, a read of the state of a core
  or of the status the caller waits for, or a write into the node: the loop for a node
  tests the core in one step and takes the node in another, and a service is called,
  its result written and `OS_RPC_DONE` set in three.  Callers of one core preempt each
  other; while one in `Masking`, above the inter-core interrupt, is in a call, its core
  serves nobody.  A core may shut down, between any two steps.  Some neighbouring
  accesses are one step because nobody else reaches the node in between: filling a node
  and appending it, `OS_RPC_WORK` and the call of the service, seeing `OS_RPC_DONE` and
  reading the result; on a core that has stopped that needs `RoomForCallers`, see 4.
  `Forget` drops, while the core runs, fields that are written again before they are
  read.
  `OsRpcSpec` is the call as its caller sees it.
- `OsSpinlock`: the lock words, the control blocks with owner, and of each thread the
  stack of its critical zones, which locks, resources and interrupt suspension share;
  the three services with their checks and the four lock methods, a shared access a
  step.  The counts of `SuspendAllInterrupts` and `SuspendOSInterrupts` are one.
  Three conditions on a configuration, which the kernel does not check and `MCOsSpinlock`
  assumes: `IsrsLeaveScheduler` (no interrupt uses a lock with the scheduler resource,
  as `Os_GetResource` acts on the running task), `OneSchedulerLock` (a task uses one such
  lock at most, as the control block of the resource saves one occupation),
  `PreemptionFollowsOrder` (a thread that can preempt the owner of a lock takes later
  locks only).
- `OsBarrier`: tickets and status words; a poll reads one ticket, the detection of a
  deadlock one status a step.  `OsBarrierSpec`: nobody leaves before all have come.
- `OsStartup`: `StartCore`, `StartOS` with the agreement on a mode, the
  synchronisation points, `ShutdownOS` and `ShutdownAllCores`.  The core starts, reads
  a flag or the mode of another core, or makes a block of writes nobody reads in
  between, a step each.

### CanTp

Two nodes, each with a connection to send and one to receive; the frames of the one
and the flow control of the other share an N-PDU.  A handler is an operator from the
record of its node to the set of the records it may end with, as the upper layer and
CanIf answer.  A length is a number of consecutive frames, a time a number of calls
of the main function; the main functions of the two nodes are called in turns, and
each is two halves, since frames and confirmations come in between receiving and
sending.  CanIf is external: it carries one frame of a node at a time and confirms
each frame it took, positively or not, at any time (`CanIf.c:541`).  `CanTpSpec`
promises: messages arrive whole, in order and at most once; each message is confirmed
once, and `E_OK` only if all of it went out.

### Fee

`FeeFlash` is the flash driver, external: clusters of cells; a cell is a unit
programmed as a whole (a header without its flags, or a piece of data).  A cell
programmed twice or cut off is `Torn`: no check sum fits and it is not erased.
`Interrupted` gives every state a power loss can leave behind: any number of the
cells of a write, the last one torn, or a half erased cluster.

`Fee` has the RAM in the record `fee` (`Fee_ModuleStatus`, `Fee_JobInfo`, the block
and cluster tables) and an operator from record to record for each C function;
the actions are the API functions, the main function, the two notifications, and
`PowerLoss`.  A C function starts at most one request to the driver, `fee.mem`,
and leaves the job to go on with at its end, so an action is what runs between two
calls from outside.  Addresses count from the start of a cluster, so a block's
place has the cluster beside its addresses.  `Becomes` ends an action: when the
request of NvM is over it notifies NvM, and forgets the fields of `Fee_JobInfo`
that the next request overwrites before it reads them.

`FeeStore` is the promise: a value for each block, one request at a time.  A write
acknowledged is the value read from then on; a request under way may at any moment,
a power loss included, have taken effect or not; no other block changes.  The
refinement maps `store` to `Stored`, what a scan of the flash as it is would find
(the last valid record in the newest valid cluster), not to anything in RAM.
`doubt` holds the blocks whose value may go with the next swap although nobody asks
for it then: immediate blocks that were erased, and blocks whose write failed.

## 3. Runs

| Run | Instance | Shows |
|---|---|---|
| `kernel_resources` | five tasks (0 idle, 1, two of one priority, one of the highest; one activated twice, with an internal resource, one non-preemptable), two nesting interrupts, four resources of all occupy types | the scheduler runs the right task, the ceiling protocol excludes, activations, locker and running priorities are exact, rings never overrun, and `KernelInvariant`, the invariant of the proofs |
| `kernel_events` | two extended tasks, one of them non-preemptable, two events, any and all, an interrupt that sets them | no wakeup is lost as long as a task uses one of the two wait services; `KernelInvariant` with events |
| `ready_queue_ring` | 18 priorities in two words of the bit map, rings of one and three places, filled to the last | the rings implement the FIFOs |
| `alarms` | three alarms, counter 0 to 2 (0 to 5 inside), cycles 0, 1 and 2 | the list implements the alarms: each expires at exactly its tick |
| `schedule_tables` | a table of two expiry points, one of a single point, one that repeats; counter 0 to 4 (0 to 9 inside); three pairs that may be chained | every expiry point is processed in order at its tick, a follower starts where its predecessor ends, and the work on the due tables ends |
| `remote_calls` | two cores that call each other and a third one, from two tasks and an interrupt above the inter-core interrupt; pools of two nodes; the core with two callers may stop | a call is performed once and returns its own result, a node is in one hand, every call returns |
| `spinlocks` | two cores, three tasks, one interrupt, three locks of three methods | one owner, no circle of waits, the guard of a lock lasts as long as the lock, the scheduler resource is given back |
| `barriers` | three cores at one barrier, two of them at a second, over and over; tickets of two bits | nobody leaves early, the wrap of the tickets does no harm, everybody passes |
| `startup` | three cores, two modes, one core may stop alone | no core passes a point without the others, the cores that start agree on the mode, every one starts or all find that they disagree |
| `fee_store` | a block of two cells and an immediate block of one, two clusters of ten cells (one record more than a swap takes along), three requests, an empty flash and one with both blocks, power losses anywhere | what NvM wrote survives swaps and power losses, and is what an idle Fee knows; no cell is programmed over; every job ends |
| `can_transfers` | two nodes; three consecutive frames and one against a single frame, or three against one and a single frame; frames missed, confirmed late or negatively, upper layers busy | messages arrive whole, in order and once, confirmations tell the truth, and whatever was begun ends |
| `appl_ready_queue` | two tasks of one application with one of another between them | a promise of the repository that the code does not keep, see 5 |

The invariants named after a module are conjunctions of named parts, inductive where 4
has a proof:

- `KernelInvariant`: `IInv` (the scheduler), `ActivationInvariant`, `WaitInvariant`,
  `InterruptInvariant`; 4 says what is in them.
- `RingInvariant`: `MapAgrees`, `TopAgrees`, `FreePlacesAreInvalid`.
- `AlarmInvariant`: `ListInOrder`, `TicksAgree` (between ticks no alarm in use is due; in a
  tick the two values of the counter are one tick apart, and an alarm whose callback runs
  is out of the list and has just expired).
- `SpinlockInvariant`: `Exclusive`, `OccupierIsKnown`, `LevelIsInnermost`,
  `NestedInOrder`, `CheckStaysTrue` (between the check and the lock, only a thread that
  preempts the one that checked guards it), `OwnersAreActive`, `CountsAgree`.
- `BarrierInvariant`: `TicketsStayClose` (of two participants none is more than a round
  ahead), `LeadersWait`.
- `StartupInvariant`: `PointsHold`, `InitialisedInTime`, `PointsSeparate`, `ModesAreAsked`,
  `SameMode`, `ActiveAgrees`, `EndsTogether`.
- `RpcInvariant`: `OnePlace` (a node of a running core is free, with one caller, queued, or
  served), `CallersAgree` (the node of a synchronous call keeps that call and its result
  until it is given back), `ServersAgree`, `WorkAgrees` (what a core has to do are calls
  made to it, each once); `TypeOK` with them.
- `CanTpInvariant`: `CountsAgree`, `TimersRun`, `OccupantOwnsFrame`.

Bounds and why they are enough:

- *Kernel.*  Nothing is capped: activations, stacks and nesting are bounded by
  the configuration, and TLC visits the whole state space.  Priorities 1 to 3
  give a task below, between and above; two tasks of equal priority make FIFO
  order matter; two activations make an entry wait behind another task's; the
  internal resource with the ceiling of a standard one makes raised tasks meet;
  two interrupts are the least that nest.  What an instance cannot show, how the
  parts behave for more tasks, priorities and resources, is proved.
- *Events.*  Two events tell any from all; two waiting tasks and a third that
  chains and sets, with an interrupt, give every order of set, wait and clear.
- *Rings.*  A ring of one place is full as soon as it is not empty; three places
  have a middle.  Priorities 0, 5, 15 and 17 touch both ends of a word, every
  halving of the bit search and the second word.
- *Alarms.*  The ticks wrap after six; a period of the whole range (2), of one
  tick and none, three alarms for an insertion at the head, in the middle and at
  the end.  The alarms are interchangeable, so `AlarmSymmetry` is sound:
  no property names one, and `Init`, `Next` and the refinement mapping quantify
  over all; the alarm a callback runs for is a value of `phase` that the
  permutations act on, and the order `InitAlarm` takes is free.
- *Schedule tables.*  Nothing is capped.  The ticks wrap after ten; delays of one and
  two ticks, a final delay of zero and one, expiry points of two tables at one tick.
  `TableConstants` is what the configuration must guarantee: delays within the range
  of the counter, and a follower neither at the very tick of the last expiry point
  before it nor further ahead than the counter can tell from behind.
- *Remote calls.*  `MaxCalls` bounds the calls of each caller, two for the task that has
  a choice, and `MaxCallsStopping` those that are made in all when a core stops, three.
  A pool of two nodes is the least that is both shared and, with two callers at the core
  that stops, full; it has just the nodes that `RoomForCallers` asks for.  With one node
  the same run shows a caller that returns the result of another one's call, see 5.  An
  empty pool makes the callers loop.  An interrupt that does so keeps off the task it
  preempted, which may have the node it waits for: then `CallsEnd` does not hold.  In the
  run each synchronous caller of a core has a node.
  `OneKindPerCore`: a core gets synchronous calls or asynchronous ones, see 5.
- *Spinlocks.*  The three locks are of different methods and nest in their order; the
  interrupt takes only the last one, so that it cannot meet a task of its core under a
  lock that lets it in.
- *Barriers.*  Tickets of two bits wrap every four rounds and stand for the eight of the
  code: at most two values are in use at a time.  A core refused with `E_OS_DEADLOCK`
  calls again.
- *Startup.*  Three cores are the least at which one core is ahead of another that is
  ahead of a third.  `SYNC_POINTS_MAX` is 4.
- *CanTp.*  `N_As`, `N_Ar` 1, `N_Cs`, `N_Br`, `N_Cr` 2, `N_Bs` 3, STmin 1: each timer can
  run out before and after what it waits for.  Block size 2, so that a message of three
  frames needs two grants; one WAIT frame allowed; sequence numbers of one bit stand for
  those of four.  `Missed` leaves out the first frame: a receiver that misses one may
  take an old flow control for its own and mix two messages, a weakness of
  ISO 15765-2 that the code shares.
- *Fee.*  `MaxRequests` 3 fills a cluster and swaps it, from the delivered flash
  once more than from the empty one, and a power loss costs no request, so that any
  number of restarts falls between (also checked with 4 requests: 747093 states).
  `FeeClusterLength` 10 is the least that `EnoughRoom` allows for these blocks.  Two clusters make the next cluster the one before, the case in which a
  stale address can hit.  `Written` gives the first block two values, so that old and
  new differ, and the immediate block one that differs from the delivered.
- *What Fee is not put through* (`Spared`).  `FailingJobs` and `CancelledJobs` list the jobs
  during which a request fails or is cancelled.  Left out are the failure of the
  valid flag's write (`FEE_JOB_WRITE_DONE`: a retry for an immediate block programs
  its data a second time), failures of header reads in the scan (a header that
  cannot be read is skipped), and Cancel while a header, data or flag is being
  written in the cluster in use, or the new cluster gets its valid flag: the code then writes over cells that are no
  longer erased, or RAM and flash disagree until the next start.  With
  `InvalidatesAny` FALSE, NvM only invalidates blocks that are `ClearlyItsOwn`; 5 says
  what happens otherwise.
- `TickBits` is the width of `Os_TickType`, with which sums are reduced; 4 in the
  runs instead of 32, still wider than twice the range, as the configuration must be.

`CHECK_DEADLOCK` is on in every run but two: the idle task can always be interrupted, a
counter always ticks, a ring always has a place to fill or to empty, power can always
fail and come back, threads take locks and cores barriers again.  It is off in
`remote_calls`, whose callers have a bounded number of calls, and in `startup`, where
cores end; there the liveness properties say that nothing hangs before.

*Fairness.*
- `JobsEnd` (Fee): weak fairness of `MainFunction`, which the scheduler of the basic
  software calls in every cycle, and of `JobEndNotification`, as the flash driver
  finishes its requests.  Nothing is assumed of power losses, failures or NvM.  It
  needs `EnoughRoom`, without which a write swaps for ever; the code does not test it,
  the configuration has to see to it.
- `EveryTransferEnds` (CanTp): weak fairness of the main function of each node, again
  the cyclic scheduler.  Nothing is assumed of the bus, CanIf or the upper layers: the
  timers end what they leave open.
- `CallsEnd` (OsRpc): weak fairness of the steps of each caller and of the inter-core
  interrupt of each core, which the hardware takes as soon as it is not masked.
- `EveryCorePasses` (OsBarrier), `EveryCoreStarts` (OsStartup): weak fairness of each
  core: cores run, and their order is the hardware's.

`OsSpinlock` has no liveness: a core that spins with compare-and-swap may always lose
the race, and nothing in the code makes it fair; `NoCircularWait` excludes the deadlock
instead.  In the kernel hanging is excluded by safety where the code loops:
`IdleIsReady` for `Os_GetHighPrio`, `AlarmInvariant` (the list ends) for the walks of
the alarms, `ScheduleTableInvariant` (what is due runs) for `Os_WorkSchedTbl`.

Each property has a mutant of a mapped definition in `PROJECT.json`, the slip of
the C code that the property would catch.  Mutants are commented `Mutant:` and
stand before the definition they change; no action uses them.

## 4. Proofs

The theorems hold for every value of the constants: any number of tasks, priorities,
interrupts, resources, events, words of the bit map, alarms, schedule tables with any expiry points
and chains, cores, threads, locks and barriers, any range of a counter and any width of its
ticks, any messages, timeouts, block
size and number of wait frames between two nodes, any pools, callers and calls between cores,
any clusters and blocks of Fee, with any number of requests and power losses.

| Module | Theorem | Says | Assumes |
|---|---|---|---|
| `OsKernel_proofs` | `InvariantHolds` | `IInv` is an invariant | 1 |
| | `TypeCorrect` | type correctness; no count goes below zero | 1 |
| | `IdleStaysReady` | the idle priority is never empty | 1 |
| | `RaisedStayFirst` | the blind removal removes the task that is meant | 1 |
| | `LockerCounts` | `SysDispatchLocker` is exact | 1 |
| | `HighestTaskRuns` | the first task of the highest priority runs | 1 |
| | `RunsAtCeiling` | the running priority is the highest ceiling held | 1 |
| | `CeilingExcludesOtherTasks` | the task half of `CeilingExcludes` | 1 |
| | `SwitchesEnterHighest` | a task switched in is the highest | 1 |
| | `ActivationsStayQueued` | the queues hold an entry for each pending activation | 1 |
| | `QueuesStayWithinPlaces` | no ring is overrun: `QueueNeed` places are enough | 1 |
| | `NonPreemptableStays` | only its own services take the processor from a non-preemptable task | 1 |
| | `NoWakeupIsLost` | a waiting task waits for something that is not set | 1, 2 |
| | `EveryResourceHasOneHolder` | an occupied resource is on one stack, at its place | 1, 3 |
| | `CeilingsExclude` | no task and no interrupt meets an occupied resource | 1, 3 |
| | `KernelInvariantHolds` | `KernelInvariant` is an invariant | 1, 2, 3 |
| | `RingHolds` | rings, marks and bit map agree; the bit search finds the top | |
| | `FifoImplemented` | the rings implement `OsReadyQueSpec` | |
| `OsCounter_proofs` | `AlarmsStayInOrder` | the list of alarms ends, holds those in use once, in the order of expiry | 4, 5 |
| | `AlarmsExpireOnTime` | the alarms implement `OsAlarmSpec`: each expires at its tick | 4, 5 |
| | `TablesStayInOrder` | the list of tables is linked both ways, ends, is in the order of the expiry points; what is due runs | 11, 12 |
| | `TablesRunOnTime` | the tables implement `OsScheduleTableSpec`: expiry points in order, at their offsets | 11, 12 |
| `OsSpinlock_proofs` | `InvariantHolds` | one owner of each lock, and everything that records it agrees | |
| | `HoldersKeepTheirCore` | a guarding thread is not preempted by those its method keeps off | 6 |
| | `SchedulerComesBack` | a task without locks has given the scheduler resource back | 6, 7 |
| | `NobodyWaitsInACircle` | no circle of waits through locks and preemption | 6, 8 |
| `OsBarrier_proofs` | `InvariantHolds` | tickets, status words and polls agree, over the wrap | |
| | `BarrierImplemented` | the barriers implement `OsBarrierSpec` | |
| `OsStartup_proofs` | `InvariantHolds` | nobody passes a point alone; the cores agree on the mode | |
| `OsRpc_proofs` | `RpcStaysConsistent` | a node is in one hand, and nodes, callers and cores agree on the calls | 9, 14 |
| | `RemoteCallsRefine` | the calls implement `OsRpcSpec`: performed once, with their own result | 9, 14 |
| `CanTp_proofs` | `CanTpStaysConsistent` | counts, timers, occupant of the N-PDU and frame with CanIf agree | |
| | `TransfersRefine` | CanTp implements `CanTpSpec`: messages whole, in order, none twice | 10 |
| `Fee_proofs` | `FeeInvHolds` | `Inv` is an invariant: layout, RAM and flash, job and flash request agree | 13 |
| | `KnowsTheFlash` | what an idle Fee knows of a block is what a start would find | 13 |
| | `NeverProgramsTwice` | no cell is programmed twice between erases | 13 |
| | `FeeImplementsStore` | Fee implements `FeeStore`: acknowledged writes survive, swaps change nothing | 13 |

### Assumptions

The constants' ASSUMEs are what the generator guarantees of a configuration: users at or
below the ceiling, an idle task of priority 0 that nobody shares, one activation for an
extended task (`QueueConstants`, `TaskConstants`, `IsrConstants`, `ResourceConstants`,
`EventConstants`, `ApplicationConstants`), as many places in a ring as its callers fill
(`RingConstants`), a tick type
that holds twice the range of the counter (`CounterConstants`), cycles within the range
(`AlarmConstants`), expiry points whose delays the counter can tell from the past
(`TableConstants`), finitely many locks with an order (`SpinlockConstants`), tickets
that wrap at an even number of at least 4 (`BarrierConstants`; 256 in the code), and
`StartupConstants`, two nodes with timeouts of at least one cycle (`CanTpConstants`), two
clusters or more of three cells or more (`FlashConstants`), blocks of some data
(`FeeConstants`) that fit into a cluster together, with their headers and one record more
(`EnoughRoom`).
Besides:

1. `NoChainWhileNonPreemptable`: no non-preemptable task calls ChainTask.
2. `OneWaitService`: no task uses both WaitEvent and WaitAllEvents.
3. `SharedCeilingsAgree`: the resources a task shares with interrupts have one level.
4. `SumsFit`: three times the range of the counter fits in `Os_TickType`, or twice the
   range is the whole type.
5. `SetsAhead`: no alarm is set to the value just reached, started at 0 by itself, or
   touched while its callback runs.
6. `IsrsLeaveScheduler`, 7. `OneSchedulerLock`, 8. `PreemptionFollowsOrder`: see 2.
9. `OneKindPerCore`: a core gets synchronous calls or asynchronous ones.
10. `FirstFramesArrive`: a node has room for every first frame.
11. `TableSumsFit`: as 4, and the start of a table and the duration of the one before it can
    be added in `Os_TickType`.
12. `TakesNoRisk`: the application starts no table at a tick of the past, does not stop or
    chain a table that ends meanwhile, and does not stop a table that followed another one
    which has a new follower by now.
13. `Spared`: the driver does not fail at the valid flag of a block nor at a header that the
    scan reads, NvM does not cancel while a header, data or flag is written in the cluster
    in use or the new cluster gets its valid flag, and it invalidates only blocks that are
    `ClearlyItsOwn`.
14. `RoomForCallers`: a core that may stop has a node for each of its synchronous callers.

Each is needed: without it the code breaks the property, and 5 says how.  The MC modules
ASSUME what the theorems about their instance assume, so that TLC evaluates it.

### One core: `IInv`

"The highest task runs" and "the running priority is the ceiling" are not inductive:
`Os_ReadyQueueRemove` drops the first entry of a priority, and that it is the right one
depends on all that happened since the task was raised.  `IInv` says why it is:

1. `EntriesInOrder`: an entry above a task's own priority is the first of its queue.
2. `OccupiedTasksNest`: the tasks that are raised or hold resources are first at their
   own and at their running priority, and the intervals of priorities between the two do
   not meet: tasks preempt like calls nest.
3. `LevelsRestorable`: for each resource held, the task is first at the priority to go
   back to and at the ceiling, everything taken before is at or below it, and a task is
   first at no other priority above its own.
4. `StacksMatch`: the control block of a resource and the stack agree.
5. `RunningOK`: the running task is above every other occupied task, and only it holds
   resources shared with interrupts.
6. `HighIsTop`, `HighIsCurrent`: the cached highest task is exact, but while the
   dispatcher is locked a task that took a resource may stand in front of it.
7. `Locks`: the value of the locker.

`Core` holds also in the middle of a service, between the removal of a task and the switch
to the next; the lemmas of `OsKernel_proofs` follow each service from a `Settled` state
through `Core` to a `Settled` state, and `NextKeepsInvariant` collects one case per action.

### One core: activations, waits, interrupts

Three more invariants rest on `IInv`, each with one case per action; services that leave
the counted part alone share a lemma.

- `ActivationInvariant`: at its own priority a task has as many entries as activations
  that do not wait.  A raised task has one entry more, above, which `EntriesInOrder`
  says is a first one, so that raising and lowering do not disturb the count; the
  activations of a task and its state agree.  `QueuesFit` follows: of the entries of a
  priority all but the first are of its own tasks (`EntriesInOrder`), and are matched one
  to one with their activations; where the first is a raised one, a ceiling leads there
  (`LevelsRestorable`).
- `WaitInvariant`: a task that waits is in a service its configuration allows, the flag
  of WaitAllEvents says which, and what it waits for is not set.  The flag survives a wait
  that was not needed; with one service per task it still tells the truth.
- `InterruptInvariant`: `LevelsExclude` and `TasksExclude` say that the level above an
  interrupt or task is at least that of each resource it holds, so that no other user of
  the resource is entered; the levels saved rise with the nesting.  This is kept by a
  release because each resource on a stack goes back to a level that still excludes for
  those below it (`IsrStacksMatch`, `TaskLevelsRestorable`).
- `NonPreemptableKeepsProcessor` is an action property: while a non-preemptable task
  runs, the locker is at least one (`Locks`), and every switch that is not one of its own
  services tests the locker.

### The ready queue's rings

A ring is read through the distance of a place from the head: the places at a distance
below the number of entries are filled, the others `TASK_INVALID`; equal marks mean empty
or full as the first place says.  `HighestBit` follows the halving of the search by cases.
Every operation then moves a mark by one and writes one place, and the contents from head
to tail change as in `OsReadyQueSpec`: `FifoStep` has one case per operation.

### Alarms

The list is a recursive function, `Walk`; what it gives after one insertion or removal is
not computed but recognised.  A `Listing` is a chain of distinct alarms from the head to
`INVALID_ALARM`, in the order of expiry, that holds every alarm in use; `ListInOrder` says
that there is one (`OrderMeansListing`, `ListingMeansOrder`, by the least place at which the
two would differ).  The alarms are distinct, so the walk ends within as many places as
there are alarms.

`Passes`, the test at each place of the insertion, compares ticks over the wrap from a
value of the counter: from it on, the order of distances is the order of ticks
(`PassesIs`), and an insertion after the increment may start from the value before it, as
nothing in the list lies further than a range and one tick ahead.  The insertion then ends
at the place where the chain stays in order (`AlarmSet`), a removal takes one place out of
the chain (`AlarmTakenOut`), and a tick lowers every distance by one (`OneOn`): nothing is
due then (`TicksAgree`), so none of them wraps.  The head is the next to expire
(`HeadIsNext`), so that when the work finds it not due, nothing is.  With the distances,
each step of the code is the step of `OsAlarmSpec` of the same name, or none.

### Schedule tables

The invariant of the proof, `TablesInv`, says of the list that the started tables have
places from the head on, that `nextNode` and `preNode` lead from each place to its
neighbours, and that the places rise with the ticks that are left (`Threads`); the walk
of `ScheduleTableInvariant` comes to those places (`WalkOfLinked`).  A removal closes the
gap and an insertion opens one (`DelKeepsLinks`, `InsertKeepsLinks`).  The insertion tests
distances from the value of the counter before the last tick, and as nothing in the list is
at that value or further ahead than the counter can tell, the order is the same as from the
value it has (`LaterIs`).

What the links do not say is in the control blocks:

- `CellOK`: a stopped table is as at startup; a table that can have a follower stands at
  `startAbsTick` plus the offset of its expiry point, and has the delay to the next one.
  That is why `NextScheduleTable` may add the duration to `startAbsTick` and gets the tick
  at which the table ends (`EndAhead`).
- `FollowerOK`: a follower waits at the distance of its predecessor's expiry point, plus
  what is left of the duration there, plus its own first offset.  It is kept because the
  predecessor's tick and what is left of its duration change together (`AdvanceIs`).  So a
  follower is never at the head while its predecessor runs (`HeadIs`), and
  `Os_WorkSchedTbl` meets no table that waits.
- `CallHolds`, `EndsLater`: what the check of `StopScheduleTable` or `NextScheduleTable`
  found still holds when its critical section comes.  This is where `TakesNoRisk` is needed.

Each C function on the list has a lemma that says what it makes of a list with `TablesOK`
(`StartIs`, `AdvanceIs`, `EndTableIs`, `StopTableIs`, `ChainTableIs`).  Each action then
has one that it keeps `TablesInv`, and one that it is the step of `OsScheduleTableSpec` of
the same name, or none.

### Spinlocks

`SpinlockInvariant` is inductive as it stands.  The other three need more:

- `GuardInvariant` (for `HolderKeepsCore`): the threads of a core are stacked by
  priority, and a task that occupied the scheduler resource runs at its ceiling, above
  every task of the core.
- `ReturnInvariant` (for `SchedulerIsReturned`): the resource is occupied once for each
  lock with it that the task guards, and the entry of the resource lies below the lock's
  in the stack of critical zones.
- No circle: of the threads of a circle, the one in reach of the lock of highest order
  waits for nobody in it.  Across cores `NestedInOrder` makes orders rise along a wait;
  within a core `PreemptionFollowsOrder` does.

### Barriers and startup

Of two members of a barrier one is at most a round ahead, and then waits, and nothing it
has read lets it leave: this is preserved because a core counts its ticket only when it
comes, and comes only after it left.  `OsBarrierSpec` follows: the last one to come makes
the tickets equal, up to those that are already in their next round.

`StartupInvariant` says of each loop over the cores what the cores passed so far have
reached; the end of the loop then is "all have".  `SameMode` needs `ModesAreAsked`, where
each mode comes from, while cores compare and others still wait.

### Remote calls

`RpcInvariant` sees the lists from outside, through `ListNodes`.  The invariant of the
proof, `IInv`, has the lists themselves: of a core that runs there are two sequences of
distinct nodes, free and work, that the `next` fields link from head to tail (`IsList`),
and every node is on one of them, with one caller or with the interrupt (`Places`).  As for
the alarms a list is recognised, not computed: `ListIs` shows that the recursive function
behind `ListNodes` gives the elements of such a sequence, and `GetIs` and `AddIs` what
taking the first node and appending one make of it, as long as only nodes off the list
have other fields written.

- `Works`: what is to be done is a call that was made to this core and has not been
  performed, no two nodes have the same one, and whoever still has such a node waits with
  it.  With the number of a call below or equal to its caller's last, a new call is one
  that nobody has yet.
- `OneHolder` is needed of cores that stopped, too, where the lists are nobody's any more.
- What the interrupt of a core that stopped writes into a node must not meet another call
  there.  `Rest` says why it does not: `Results`, what the interrupt brings along or has
  written is the result of the call in its node, and `Spare`, the free list still begins
  with nodes that neither the interrupt nor a caller knows, one for each caller that saw
  the core run and has not taken its node yet.  A node that a caller gives back goes to the
  end of the list, behind them.  When the core stops, `RoomForCallers` counts them
  (`EnoughNodes`); after that no caller gets to the list that did not see the core run.
- A caller that is told that the core is gone leaves its node behind; that is why the pool
  is claimed only while the core runs.
- `OneKindPerCore` is used twice: `TestSync` reads the kind of a node that may be another
  call's by then, and `GiveServedNode` gives back a node that nobody may wait with.

The refinement goes step by step.  Appending the node accepts a call, the action of the
core performs it, the caller returns with its result or finds the core gone; an
asynchronous caller returns as soon as its call is accepted.  On a core that stopped the
action is `PerformLate`, or nothing, when its caller has given up.  The action counts when
its result is written; before that the node is still to be performed.  All other steps are
seen by nobody, which for each of them means that the calls still to be performed are the
same set before and after.  That a performed call is the one its caller waits for is
`SyncHolder`: a synchronous call that is still to be performed has a caller that waits with
its node.

### CanTp

`CanTpInvariant` is inductive as it stands once its parts are: `CountsAgree`, `TimersRun`
and `OccupantOwnsFrame`.  A handler is an operator on the record of one node, so the proof
follows the calls of the C code: a lemma for each function says that from a good record
every record it may end with is good (`Good`).  The functions that take the receiver apart
need only `OthersOK`, the rest of the node.  Two facts carry it.  A confirmation is taken
by who occupies the N-PDU, in whatever state it is, so the occupant's state must be the one
that waits for the frame CanIf has; it is, because a sender that ends gives the N-PDU back, and
CanIf takes no second frame before it has confirmed the first.  And a timer that is
decremented is never 0: who starts to wait sets it, and a reception without one is
complete and only waits to be told.

`TransfersRefine` needs an invariant about both nodes, `PairOK`: `SenderOK`, what a
sender has yet to send is of a message after the last one that is out, and starts where
the message continues; `ReceiverOK`, the pieces of a reception are of one message, rise
from its first, and are as many as the message has but for those the receiver still
expects; `InOrder`, what is yet to come is after what is there.  It is an argument of
counting, and uses neither the sequence numbers nor the times.  A consecutive frame that
was missed leaves the receiver expecting more frames than the sender has left, so a
reception that becomes complete has missed none (`RisingIsWhole`); and frames of the next
message are never taken for the rest of this one, since its first frame comes before and
starts the reception anew.  That is where 10 is needed.  Then each step of a node is a
step that the upper layer sees (`Goes`, `GoesIsSeen`): a message is accepted, confirmed
or given, the last frame of one is sent, or nothing.

### Fee

`KnowsWhatIsStored` speaks of an idle Fee, and is not inductive: that it is true after a
swap depends on every cell the swap has copied, and a scan is right only if the writes
before the power loss, finished or not, left a cluster it can read.  `Inv` says so of every
state between two calls from outside.

1. `Layout` and `Low`, of the cluster in use: below an address only headers or torn cells;
   the data of a header lie above that address and below the data of the header before;
   a header with its valid flag has all its data; what no header has reserved is blank.
   `Low` is the least address with data.  So the next header and the next data meet blank
   cells, and a torn one costs room only.  Torn data keep their place, since their header
   was written first.
2. `Known`, of each block: VALID means that the noted header is valid, has the noted
   address and that no later header of the block is; INVALID that no header of it is valid;
   INCONSISTENT that the noted record waits for its data, for immediate data with blank
   cells (`KnownKept`).
3. `Scanning`, `Serving`, `Swapping`: for each job the flash request under way
   and what it relies on.  A scan has seen the clusters or headers below an address.  A
   swap has copied the blocks below a number: `Place` and `Room` give the places from the
   sums over those blocks, and are the places that `Fee_JobIntSwapClusterVldDone` computes
   again from the table at the end.  The new cluster counts only once it has its valid
   flag, so until then nothing in it matters to a start (`Elsewhere`).
4. `Disk`, of the flash alone: one valid cluster has the greatest use ID and a layout, or
   none is valid.  It is what survives a power loss, and all that a start relies on.

A step is a flash request that ends, or is cut off, and the C function that goes on from
there; the lemmas treat the two apart.  `...Outcome` says, job by job, what the request
leaves in the flash, whole or in part, `EndOf...` and `Main...` what the code makes of it;
`InvKept` collects the actions.  That no cell is programmed twice (`Fresh`) is
part of the outcome, from the blank cells of the layout and of the new cluster.

For the refinement, `StoredIn` gives what is stored for any flash.  `AllSettle`: whatever a
request leaves behind changes what is stored of no block but its own and those in
doubt, the last one of a swap included, where the new cluster takes over
(`SealStores`): a block that is neither carried over nor in doubt was not stored
(`MovedKnown`, `KnownStored`).  `MainProceeds` and `EndProceeds`: the job goes on
and no block comes into doubt, or the answer fits what is stored.  With the two, each
action is the step of `FeeStore` that its notification says, or none.

### Only model-checked

- Liveness under fairness (`JobsEnd`, `EveryTransferEnds`, `CallsEnd`,
  `EveryCorePasses`, `EveryCoreStarts`), `ENABLED`, and the recursive operators of
  `OsApplReadyQueue`: out of the prover's reach.

## 5. Findings

Where the code does something else than the repository says: `appl_ready_queue` has the
trace, `PROJECT.json` the quotations.  Terminating an application can take a task of
another one out of the ready queue.

What the models contain, or leave out by a constant, and no property is stated about.
Each was met while modelling; the constant or instance in brackets brings it out.

*One core*
- ChainTask by a non-preemptable task can switch to a task that is not the highest: the
  cached highest task is stale (`Os_Task.c:592`; `NoChainWhileNonPreemptable`).
- WaitAllEvents leaves its flag set when it does not wait; a later WaitEvent then waits
  for all of its events (`Os_Event.c:814`; `WaitServices`).
- Taking a second resource shared with interrupts can lower the interrupt level and
  unprotect the first (`Os_Resource.c:556`; `TaskAccess` with two such resources).
- SetEvent can set an event of a task that terminated since the check, which its next
  activation then finds set (`SetEventCheck`, `SetEventByTask`).
- SetAbsAlarm with the value the counter has just reached expires at another one
  (`Os_Alarm.c:777`; `SetsReached`); a cyclic alarm that is set while its callback runs
  is inserted twice (`Os_Alarm.c:502`; `TouchesExpiring`).  An alarm that starts by
  itself at 0 expires at 1 (`AutostartTimes`).
- Os_CalcAbsTicks adds before it compares (`Os_Counter.c:144`): a counter with a range of
  more than a third of `Os_TickType`, but not half of it, sets an alarm whose sum overflows
  to another tick (`SumsFit`).
- StartScheduleTableAbs takes the counter value for a tick of the double range; in the
  other half the table is due at once (`Os_ScheduleTable.c:1886`; `Risks`).
- A table that ends between the check and the work of StopScheduleTable empties the
  list; one that ends between those of NextScheduleTable leaves a follower that nobody
  starts (`:1910`, `:2624`).  `PrevSchedTblId` outlives the start of the follower:
  stopping that one later takes a new follower away from its predecessor (`:1930`).
  A follower that comes due without being started, or at the tick of the last expiry
  point before it, keeps `Os_WorkSchedTbl` in its loop with interrupts disabled
  (`:1693`; `Risks`, `TableConstants`).

*Several cores*
- A caller reads the kind of its node after it saw `OS_RPC_DONE` (`Os_Rpc.c:461`), when
  the node of an asynchronous call may have been given back and taken for a synchronous
  one; that call's node is then given back under way (`OneKindPerCore`).
- A caller that finds the core gone gives its node back, although the interrupt of that
  core may still be serving the call (`Os_Rpc.c:305`, `:400`).  A caller that tested the
  core before (`:364`) can take the node (`:369`) and fill it, and what the interrupt then
  writes (`:428`, `:430`) is to it the result of its own call.  It takes more synchronous
  callers than the ten nodes of a pool (`Os_Types.h:1563`; `RoomForCallers`).
- An interrupt that finds the pool empty loops for a node (`Os_Rpc.c:362`), for good when
  those that have the nodes cannot go on: the task it preempted, callers on a core that
  stopped.
- A core that stops may lose calls it had accepted; a core that is idle without halting
  (`OS_IDLE_NO_HALT`) makes calls to it fail with `E_OS_CORE`.
- The nesting order of spinlocks is checked for the calling thread alone: under a lock
  with LOCK_NOTHING, a thread that preempts the owner may take a lock of lower order
  and deadlock with the other core, although `Os.h:2450` excludes it.
- An interrupt that releases a lock with LOCK_WITH_RES_SCHEDULER releases the scheduler
  resource of the task it preempted; a task that has it by GetResource loses it with the
  release, or with a TryToGetSpinlock that fails.  A second nested lock of this method
  overwrites the saved priority of the first (`Os_Spinlock.c:375`).
- A shutdown (`Os_Kernel.c:282`) releases all locks through the stack of the running
  thread, whoever owns them.
- A core that has left a barrier shows `BARRIER_WATING` until it polls again, and
  another may be refused with `E_OS_DEADLOCK` for it (`Os_Barrier.c:200`); two cores that
  check at once both miss that they wait crosswise.
- `CoreStateActive |=` is not atomic; only the master starts cores in the model.  After a
  core was shut down alone, ShutdownAllCores waits for it for ever.  The flags of point 3
  are cleared while another core may still wait for them (`Os_Core.c:761`).

*Fee*
- A block that was written twice and invalidated is valid again after a restart, with
  its older value (`Fee.c:2643`); invalidating a block whose write failed two swaps ago
  sets the invalid flag of another block's record (`Fee.c:1710`; `InvalidatesAny`).

*CanTp*
- The calculated STmin is never 0 (`CanTp.c:492`), so that the immediate transmission of
  the next frame (`:2232`) never happens; N_Cs running out in the wait for STmin sends
  the frame before STmin is over (`:1249`).
- A timeout or overflow of the sender gives back an N-PDU that the receiver occupies
  (`:1287`, `:1427`), an unexpected first frame one that the sender occupies (`:1858`);
  after the timeout N_Ar it stays occupied until the confirmation comes (`:1112`).
- A negative confirmation of a flow control whose reception is over indexes the
  configuration with the invalid identifier (`:1008`, `:1048`).  The upper layer is told
  `E_NOT_OK` of receptions whose StartOfReception refused, and of a complete message
  that waits to be notified when the next one comes first.
- A receiver that misses a first frame keeps an older reception, which waits for room
  (one that comes ends it, `CanTp.c:1855`).  The sender takes the late grant for its own, and
  consecutive frames with fitting numbers complete the old message: the upper layer gets
  pieces of two (`FirstFramesArrive`; with `FF` in `Missed` TLC finds it in 35 steps).
- The number of consecutive frames is reduced to eight bits before it is compared with
  the block size (`CanTp_Internal.c:293`): 256 frames are granted as 0, without limit.

## 6. Not modelled, and why

- Suspend/Resume and Disable/Enable of interrupts as services of their own (`OsSpinlock`
  has the calls that locks make), and the synchronisation of schedule tables (SC2, SC4).
- Timing, memory and service protection and the termination of OS-applications
  but for the ready queue: they need budgets in time and the protection hook,
  user code that decides what is terminated.
- Category 1 interrupts: no kernel code runs in them.
- Hooks, tracing, error codes: no kernel state depends on them.
- Contents of stacks and contexts: a switch is atomic here; the assembler of the
  ports is not translated.
- Os_GetElapsedValue: it changes nothing and no modelled service uses it.
- The kernel of each core and the parts between cores together: a remote call performs
  a step of its own, not an action of `OsKernel`; `OsSpinlock` has its own tasks,
  without activation.
- StartNonAutosarCore, ControlIdle.
- Fee with several cluster groups, which share nothing but the job, with polling
  instead of notifications, or with a driver that refuses requests; flags cut off
  half way; offset and length of a read.
- CanTp with extended or mixed addressing, functional requests, CAN FD, dynamic
  identifiers, a queue of receptions, synchronous transmission or no padding; Init and
  Shutdown, ChangeParameter; a flow control that is malformed; an upper layer that
  refuses data in the middle of a block; a main function interrupted inside a half.
- The other basic software (more than 400000 lines, of which a model could take in one
  module at a time): see the inventory and the notes in `PROJECT.json`.

## 7. Plan

1. Liveness of the kernel: under weak fairness of the interrupt's return and of
   the running task's termination, an activated task runs.
2. CanNm: the states of a network over message loss; synchronised schedule tables.
