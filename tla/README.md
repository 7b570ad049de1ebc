# aRTOS in TLA+

A TLA+ model of the aRTOS kernel (preemptive fixed-priority scheduler, delays,
semaphores, mutexes, message queues, the Cortex-M4F port and its diagnostics) and
of its demo applications, checked with TLC on small instances, and TLAPS proofs of
the safety properties of the kernel, its lists, its objects and their composition,
the port and the diagnostics, and of the two demos that share the console, for every
number of tasks, priorities and objects and every width of the tick counter.

Paths below are relative to the repository; the kernel is in `src/rtos/`.

## 1. The system

One CPU runs thread code (the tasks, the idle task, and `main` before
`artos_start`), PendSV, SysTick and the application's interrupts. Thread code has
the lowest priority, then PendSV, then SysTick, then application interrupts.
All share the static state of `tasks.c` and the objects the application
declares. They are kept apart only by short critical sections that mask
interrupts.

| Component | State | Operations | Interacts with |
| --- | --- | --- | --- |
| Task scheduler (`tasks.c`) | task pool, current task, tick counter, ready lists and ready bitmap, two delay lists, suspended list | create a task, choose the next task, block, unblock, tick handler, change a priority, task info | called by everything below; uses the lists and the port |
| Delays and start-up (`rtos.c`) | none | `artos_init`, `artos_start`, `artos_yield`, `artos_wait`, `artos_wait_until` | block in the scheduler, ask the port for a switch |
| Intrusive lists (`list.c`) | links, container and value of each item | insert at the end, insert sorted, insert in reverse order, remove | every list of the kernel |
| Cortex-M4F port (`ports/cortex-m4f/rtos_port.c`) | PRIMASK, pending bit of PendSV, the stacked register frames | enter and exit a critical section, request a switch, SysTick, PendSV, SVC and fault handlers | SysTick calls the tick handler, PendSV calls the scheduler |
| Semaphores (`semaphore.c`) | count, maximum, wait list | take with timeout, signal, and both from interrupts | block and unblock tasks |
| Mutexes (`mutex.c`) | owner, wait list; held count and effective priority of tasks | lock with timeout, unlock with direct handoff | block, unblock, inherit and give back priorities |
| Message queues (`queue.c`) | ring buffer, count, indices, two wait lists | enqueue and dequeue with timeout, and both from interrupts | block and unblock tasks |
| Diagnostics (`diagnostics.c`) | the failure record, the fault record | record a failure and halt | assertions, stack check, fault handler |
| Boards (`boards/*/board.c`) | UART data register, LED, button | set-up, polled output, button interrupt | called by the demos; the interrupt calls back into the demo |
| Demos (`demos/*/main.c`) | local variables of their tasks | the task functions and the button callback | use every kernel API |

What makes a component correct:

* scheduler: no task is lost or in two lists; the bitmap says which ready lists
  have tasks; the highest ready priority runs and equals share the CPU; a delay
  ends, and on its tick;
* semaphores: tokens are neither lost nor made up; nobody waits for an available
  semaphore; waiters are served by priority, then in order of arrival;
* mutexes: a lock that returned true is ownership; the owner runs at no lower
  priority than the tasks that wait for it, and for no longer than it owns;
* queues: items come out once, in order; no sender or receiver is forgotten;
* lists: the links form rings that agree with counts and containers, and equal
  values keep their order;
* port: a thread finds its own registers again whatever ran in between, from the
  first instruction after SysTick starts; a stack overflow is noticed;
* diagnostics: what is recorded is what happened, to the task it happened to;
* demos: rows of output are whole, no button event vanishes or is printed twice,
  and the mutex demo plays the sequence its documentation describes.

What makes that hard: the window between a critical section in which a task
blocks and the PendSV that switches away from it, in which ticks and interrupts
can wake it again; timeouts that race signals, handoffs and items; state read
before a critical section or after one; a tick counter that wraps around; and
priorities that change while their task is in a list. `PROJECT.json` lists these
hazards with the lines where they bite and the properties that cover them.

## 2. The modules

```
Lists <- Kernel <- Scheduler <- StartedKernel <- Semaphore <- Console <- PriorityDemo <- Applications
  ^                    ^                     ^                        <- Showcase     <-
  |                    |                     +-- Mutex     <- MutexDemo
  |                    |                     +-- Semaphore, Mutex <- System
  |                    |                     +-- Queue            (implements Fifo)
  |                    +-- Port <- Diagnostics
  +- AbstractLists, which LinkedList implements
ListsProofs <- SchedulerProofs <- SemaphoreProofs <- MutexProofs (with System), ApplicationsProofs
     ^                ^
     |                +-- QueueProofs, PortProofs
     +- LinkedListProofs (through an instance)
```

`A <- B` means that B extends A, and a module of proofs also extends the module it is
about; Showcase also has two instances of Queue. `MCx` is the instance of module x for TLC, and `KernelView` the part of their `VIEW`s
that concerns the kernel record.

**Lists**: a list is the sequence of the owners of its items. The two sorted
insertions are written as where the scan of the C loop stops.

**Kernel**: the static variables of `tasks.c` and the fields of the control
blocks are one record, and a C function `f(args)` that changes them is an
operator `f(k, args)` from the record before the call to the one after it. A
failed `ARTOS_ASSERT` halts the CPU; here it sets the field `failed`, after which
nothing runs. The pool slots are numbers because slots are taken in order;
`NULL` as a task is `main`, and the idle task is in no slot and in no list.

**Scheduler**: the processes. `kern` is the kernel record, `pend` the pending bit
of PendSV, `switching` says that PendSV is active and has not switched yet,
`systick` where the SysTick handler is and `pc` where the code of each thread is.
Because a critical section masks interrupts, its body is one action; what the
code does between two of them is an action of its own:

| Code | Actions |
| --- | --- |
| `artos_task_create` | `CreateCheck` (the test of `_tsk_cnt` before the critical section), `CreateInsert`, `Switch` |
| `artos_wait`, `artos_wait_until`, `artos_yield` | the action of that name, then `Switch` |
| `rtos_tick_handler` | `SysTickEnter`, `SysTickWake` (an iteration of its loop, interrupts still masked), `SysTickExitCritical`, `SysTickCheck` (the test after the critical section) |
| `PendSV_Handler` | `PendSVEnter`, `PendSVSwitch` |
| an interrupt that yields | `artos_yield_from_isr` |

Tasks are arbitrary: a task at `"app"` may make any call of its module, with any
argument the constants allow, or none. `artos_yield` and an interrupt that does
nothing but yield are in Scheduler only, since the tick requests the same switches
in the others.

**Semaphore**, **Mutex**, **Queue** extend Scheduler with one kind of object.
They start after `main` has created its tasks and started the kernel
(**StartedKernel**). A blocking call is the action up to the end of the critical
section in which the task blocks, the switch request, and the rest when the task
runs again (`TakeReturn`, `LockReturn`, `EnqueueWoken`, `DequeueWoken`; the two of
the queue go back to the loop condition). An interrupt that uses an object also
yields when its wake flag is set, as the repository's README asks. The variables
`tokens`, `inside`, `got` and `gaveup` are history: they are written and never
read by an action.

**Fifo** is the abstract specification of a queue: a bounded channel with `Put`
and `Get`. `Queue!IsFifo` maps the ring between `read_index` and `write_index`
to the contents of the channel and the item copied out last to its output.

**LinkedList** is `list.c` pointer by pointer: `heap` holds the fields of items,
sentinels and lists, each C function is an operator on it with its assertions as
`Checked`. Its callers insert items that are in no list and remove items that are
in one, which `ListsInv` of the proofs establishes for the kernel. The
specification **AbstractLists** has the same calls on the sequences of Lists, and
`ListsAreSequences` says that LinkedList implements it: the sequences used
everywhere else are what the pointers do.

**Port** adds the registers to Scheduler. A register or a saved word is
abstracted to the thread whose value it is. `live` are the CPU's registers with
FPCA, SPSEL and PSP, `stack` and `msp` the exception and software frames on the
stacks, `saved` the stack pointers in the control blocks. `PendSVSave`,
`SwitchContext` and `PendSVReturn` are `PendSV_Handler` before, in and after the
call of the scheduler; `rtos_port_start_first_task` and `SVC_Handler` are separate
steps, with interrupts in between. A tick in that window makes PendSV save `main`
below the frames of the first task, with an EXC_RETURN that leads back to the
main stack. `depth` and `smashed` are the stack use of task code and the tasks
whose guard words are overwritten; the frames count in words (8, 26, 9 and 25).

**Diagnostics** adds the two records, failing task code, faults and
`rtos_port_halt`, with the two settings that decide what a breakpoint does.

**System** composes the semaphores and the mutexes of an application over the same
kernel: a task can wait for one while it holds another.

**Console**, **PriorityDemo**, **MutexDemo** and **Showcase** are the demo
applications: `at` is the statement a task executes next, and a step is one
statement with its kernel call. `Console` is the output on the polled UART: the
loop that waits for TXE and the store to the data register are two steps, and the
UART empties the register in between when it likes. A row is `RowLength` numbered
characters. `Showcase` has two instances of Queue, the heartbeat, loggers,
LED and load tasks, and the button interrupt in three steps (one critical section
per queue). `Applications` is the choice of one of the two demos that share the
console, which a build makes in `platformio.ini`.

The operators with a comment that starts with "Fault:" are not part of the
model. Each is a plausible slip in the definition that follows it (a forgotten
bit, a comparison off by one, a missing reset). `PROJECT.json` pairs each
property with a fault that breaks it, to show that the property depends on the
code.

## 3. What the runs check

| Run | Instance | Shows |
| --- | --- | --- |
| `scheduler` | up to 2 tasks created by `main` or by tasks, 2 priorities, ticks modulo 4, delays of every length, with fairness | no task is lost (`NoTaskLost`), lists, containers and bitmap agree (`ReadyListsAgree`), the delay lists split the wake ticks at the current tick (`DelayOrder`), nobody runs below a ready task (`HighestPriorityRuns`, `IdleOnlyWhenNothingReady`), delays end exactly on their tick (`WakesOnItsTick`), no assertion fails (`NoAssertFails`); a finite delay ends (`DelayEnds`), ready tasks of the top priority all run (`TopPriorityRuns`) |
| `semaphore` | tasks of priorities 1, 0, 0, one semaphore with every maximum up to 2 and every initial count, timeouts 0, 2 and infinite | tokens are conserved and never exceed the maximum (`TokensConserved`), no lost wake-up (`NobodyWaitsForAvailable`), a take returns for a reason (`TakeHasReason`), a released task preempts (`ReleasedTaskPreempts`), equals are served in order of arrival (`EqualWaitersFIFO`) |
| `mutex` | tasks of priorities 1 and 0, a third of any priority that a task creates at any moment, two mutexes, lock timeouts 0, 1 and infinite, delays of 1, held count limited to 2 | real ownership (`OwnershipIsReal`, `LockHasReason`), exact held counts (`HeldCountExact`), inheritance that covers the waiters and ends with the last unlock (`OwnerOutranksWaiters`, `BoostEndsWithLastUnlock`), waiters in order of their changing priorities, also among tasks that wait for each other (`WaitersByPriority`) |
| `mutex_unlock_preemption` | as `mutex` | finding 1 below |
| `queue` | tasks of priorities 1, 0, capacity 2, 2 different items, timeouts 0, 1 and infinite | the queue implements `Fifo` (`IsFifo`) on a consistent ring (`QueueTypeOK`); a released task whose item or slot an interrupt or a task took waits again and is not forgotten (`NoLostWakeup`); results for a reason (`QueueCallHasReason`), no call with a timeout returns false at once, without waiting (`TimeoutIsWaited`), preemption (`HighestPriorityRuns`) |
| `queue_long_timeout` | one item, timeout of half the tick range | finding 2 below |
| `linked_list` | 4 items, 2 lists, 3 values | the rings stay intact (`RingsIntact`) and implement sequences (`ListsAreSequences`) |
| `port` | two tasks of equal priority; they and `main` may use the FPU, stacks of 64 words of which task code uses 0 or 61; breakpoint off, on with a debugger, on without; with fairness | the running thread has its own registers (`ContextIntact`), a waiting context is complete (`ParkedContexts`), from the start-up window on; the start completes although `main` can be switched out before `svc` (`StartCompletes`); a task that overwrote its guard is not switched away from (`OverflowCaught`); the failure record is that of the failure (`RecordTellsCause`) and the fault record of the thread that faulted (`FaultInfoOfThread`) |
| `diagnostics_fpu` | the same with FPU use by one task, checked for the registers of every fault | finding 3 below |
| `system` | tasks of priorities 1, 0, 0, a semaphore (take timeout 2) and a mutex (lock timeout 1) | inherited priorities reorder the wait list of the semaphore (`BoostReordersWaiters`); the guarantees of each object hold together (`GuaranteesCompose`) |
| `applications` | the priority demo with its three tasks, a report every 2 rounds and period 2, or one of three mixes of three of the showcase's tasks, queues of capacity 1, 2 button events, 2 ticks; rows of 2 characters, ticks modulo 4 | rows are neither mixed nor lose characters (`RowsIntact`); each copy of a button event is dropped at a full queue or printed once (`EventsAccountedFor`) |
| `mutex_demo` | the demo's own durations with a tick of 100 ms, with fairness | the documented sequence, to its end (`PlaysScript`) |

The passing runs have between 2,500 (`linked_list`) and 2.9 million (`queue`)
distinct states. A failed kernel assertion stops the model, so in the runs with
deadlock checking it would show as a deadlock; `NoAssertFails` states it for
`scheduler`, and section 4 proves it there; the invariants of the object modules
contain it. Deadlock is not checked where the system may
stop: `port` halts on failures, and in the showcase part of `applications` the
number of ticks is bounded.

**Bounds.** Nothing in the kernel depends on the tick counter except comparisons
modulo its width, so a counter modulo 3 or 4 makes every delay meet the
wrap-around and every relation between two wake ticks and the current tick occur.
2^32 - 1, the infinite delay, becomes `TickMod - 1`. In `scheduler` two tasks can
both be delayed or ready while the idle task or the handler runs, so the order in
a list matters; the theorems of section 4 cover every number of tasks. With
objects, three tasks are a running one and two in the same wait list; in `queue`
interrupts at both ends play the third part. Two priorities give equals and a higher one. Two mutexes are the least
at which an owner can wait and a boost can outlast an unlock. The counts of
mutexes and tokens are bounded by constants named in the configurations
(`MaxHeld`, `MaxCount`); the limits are those of the code (255 and the
semaphore's own maximum) made small. The maximum of a semaphore is reached; with as
many mutexes as `MaxHeld` a task that owns them all has none left to lock, so the test
of the limit in `artos_mutex_lock` and the saturation of the count are covered by the
theorem `CountsExact`, which holds for any number of mutexes and any `MaxHeld`. In the modules with
objects the constants `TakeTimeouts`, `LockTimeouts`, `Timeouts` and `Delays` choose the arguments of the calls.
In `system` a take outlasts a lock, so that the waiter of a semaphore is both
boosted and relieved while it waits. In `port` a depth of 61 words reaches the guard by
itself, and a task that returns from it must still be caught; depth 0 fits every
frame. In `applications` each mix of the showcase has the button logger and the
interrupt; capacity 1 makes every second event meet a full queue. `mutex_demo` allows one extra tick (100 ms)
between two waits for time, so that each statement meets each side of a tick.

**State views.** The configurations identify states that differ only in values
that are overwritten before they are read: the value of an item that is in no
list of the kind that reads it, the wait reason of a task that is not coming back
from a blocking call, the order of the suspended tasks, a slot of the ring outside
its contents, the FPU registers without FPU context, and histories the run's
properties do not read. Such states have the same future, so the views are sound
for the liveness properties as well. The runs without fairness also identify
states in which the two delay lists have changed roles, since the code reaches
them through its two pointers only. The mutexes are interchangeable, so they are
a symmetry set, like the items of `queue` and of `linked_list`; tasks are not,
since slots are used in order.

**Fairness.** `WF(SysTick)`: the timer keeps firing and its handler is straight
code with a loop over a finite list. `SF(PendSVEnter)` and `SF(PendSVSwitch)`: a
pending PendSV can be preempted by ticks again and again, but a tick period is
thousands of instructions, so it runs eventually. Nothing is assumed of threads,
which may compute for ever, nor of interrupts, which may never come. `FairDiagSpec`,
the specification of `port`, adds, for the same reason, that when PendSV returns to `main` again and again,
`main` is not interrupted every time before it executes its next instruction.
`mutex_demo` assumes weak fairness of the whole next-state relation, that is, that
the CPU and its timer do not stop, and that at most `Slack` ticks pass in code that
waits for nothing: the demo's delays are long compared with its code, and its
documented sequence would not be guaranteed otherwise.

### Findings

1. `artos_mutex_unlock` gives back an inherited priority when it releases the
   last mutex. If somebody waits for that mutex, it compares only the new owner
   with the lowered priority (`mutex.c:134`) and ignores that its own priority
   fell, which the branch without waiters does not (`mutex.c:119`). A task that
   was boosted through one mutex and hands over another to a waiter of its own
   base priority keeps running below a ready task of higher priority until the
   next tick. `rtos.h:9-11` says that the scheduler always selects a ready task at
   the highest priority.
2. `artos_queue_enqueue` and `artos_queue_dequeue` take a finite timeout of half
   the tick range or more for a deadline that has passed (`queue.c:76`,
   `queue.c:131`) and return false at once, where `rtos.h:308` promises to wait up to
   the timeout. Semaphores and mutexes do wait.
3. `rtos_port_hard_fault_c` skips 18 words when the FPU context was stacked
   (`rtos_port.c:221`), but the basic frame is at the lower end of the extended
   one. After a fault in a task that has used the FPU, the fields `r0` to `xpsr` of
   the fault record are `s10` to `s15`, FPSCR and the reserved word, and not the
   registers `README.md:38` promises.

Two more things the model shows follow from what the code documents. With
`ARTOS_DEBUG_BREAK_ON_FAILURE`, which is on by default, and no debugger, the
breakpoint in `rtos_port_halt` (`rtos_port.c:56`) becomes a HardFault, whose handler
records a port fault over the failure that was just recorded; `RecordTellsCause`
says that this is the only case in which the reason is lost, and that the task
never is. And the idle
task has priority 0 and an interrupt asks for a switch only for a priority above
the interrupted task's, so a task of priority 0 that an interrupt wakes from idle
starts at the next tick. `ReleasedTaskPreempts` states that no other priority is
delayed; hence `IdleOnlyWhenNothingReady` is a property of the scheduler
alone and not of the modules with interrupts that wake tasks.

## 4. What is proved

Every theorem below holds for all values of the constants that the named
assumptions of the modules allow: any pool, 1 to 32 priorities, any tick counter
of at least three values, any number of objects, any counts, capacities, items
and timeouts, any stack, guard and depth sizes. The assumptions otherwise only
tell `NULL`, the idle task, handler code, slots, lists and items apart.

| Theorem | Statement |
| --- | --- |
| **SchedulerProofs**, from `KernelAssumption` | |
| `TypeCorrect` | `Spec => []TypeOK` |
| `AssertionsHold` | `Spec => []NoAssertFails` |
| `TasksKept` | `Spec => []NoTaskLost` |
| `ReadyListsCorrect` | `Spec => []ReadyListsAgree` |
| `DelaysOrdered` | `Spec => []DelayOrder` |
| `Preemption` | `Spec => []HighestPriorityRuns` |
| `IdleLast` | `Spec => []IdleOnlyWhenNothingReady` |
| `WokenOnTime` | `Spec => WakesOnItsTick` |
| **SemaphoreProofs**, with `SemaphoreAssumption` | |
| `TokensKept` | `SemSpec => []TokensConserved` |
| `NoSignalLost` | `SemSpec => []NobodyWaitsForAvailable` |
| `TakeReturnsForAReason` | `SemSpec => []TakeHasReason` |
| `ReleasePreempts` | `SemSpec => []ReleasedTaskPreempts` |
| `EqualWaitersServedInOrder` | `SemSpec => EqualWaitersFIFO` |
| **MutexProofs**, with `MutexAssumption` | |
| `MutualExclusion` | `MutexSpec => []OwnershipIsReal` |
| `CountsExact` | `MutexSpec => []HeldCountExact` |
| `InversionBounded` | `MutexSpec => []OwnerOutranksWaiters` |
| `BoostsEnd` | `MutexSpec => []BoostEndsWithLastUnlock` |
| `HandoffByPriority` | `MutexSpec => []WaitersByPriority` |
| `LockReturnsForAReason` | `MutexSpec => []LockHasReason` |
| **QueueProofs**, with `QueueAssumption` | |
| `QueueTypeCorrect` | `QueueSpec => []QueueTypeOK` |
| `NoWakeupLost` | `QueueSpec => []NoLostWakeup` |
| `QueueReturnsForAReason` | `QueueSpec => []QueueCallHasReason` |
| `TransferPreempts` | `QueueSpec => []HighestPriorityRuns` |
| `ImplementsFifo` | `QueueSpec => IsFifo`, the refinement of Fifo |
| `TimeoutsAreWaited` | `QueueSpec => []TimeoutIsWaited`, if every timeout is below half the tick range or infinite |
| **PortProofs**, with `PortAssumption`, `DiagnosticsAssumption` | |
| `ContextsIntact` | `PortSpec \/ DiagSpec => []ContextIntact` |
| `ContextsComplete` | `PortSpec \/ DiagSpec => []ParkedContexts` |
| `OverflowsCaught` | `DiagSpec => []OverflowCaught` |
| `RecordsTellCause` | `DiagSpec => []RecordTellsCause` |
| `FaultInfosOfThread` | `DiagSpec => []FaultInfoOfThread` |
| **MutexProofs**, with `SemaphoreAssumption`, `MutexAssumption`, `SystemAssumption` | |
| `ObjectsCompose` | `SysSpec => []GuaranteesCompose` |
| `BoostsReorderWaiters` | `SysSpec => []BoostReordersWaiters` |
| **ApplicationsProofs**, with `SemaphoreAssumption`, `ConsoleAssumption`, `ShowcaseAssumption` | |
| `RowsAreIntact` | `AppSpec => []RowsIntact` |
| `NoEventLost` | `AppSpec => []EventsAccountedFor` |
| **LinkedListProofs**, from `LinkedListAssumption` | |
| `RingsStayIntact` | `Spec => []RingsIntact` |
| `ImplementsSequences` | `Spec => ListsAreSequences`, the refinement of AbstractLists |

### The kernel and the scheduler

The argument has three layers. `ListsProofs` shows what the list operations do to
membership, uniqueness and order, and what a ring buffer of any capacity holds. The first half of `SchedulerProofs` has one lemma
per kernel operator: from a record in which the parts of `KInv` hold, what the
operator changes and that the parts hold again. Its second half and the modules
above it have one lemma per action and the theorems. The parts of the invariant are:

* `ListsInv`, `EventInv`: an item is in exactly the list its container names,
  once; the bitmap matches the ready lists; a ready task is in the list of its
  priority; only a blocked task is in a wait list;
* `WaitInv`: a wait list is in decreasing order of effective priority, and the
  value of an event item is the one of its task's effective priority;
* `TasksInv`: slots are used in order, so the task count is the number of created
  tasks, and a created task that is in no list is the current one;
* `DelayInv`: what `DelayOrder` says of the two delay lists;
* `CoreInv(locs)`: all of these, and a current task that is in a list has a switch
  coming (`SwitchComing(locs)`): PendSV is pending or active, or the thread is at
  one of the locations `locs` at which it is about to request it;
* `PreemptInv(locs, low)`: so has, or will get from the test at the end of the
  tick, a current task below a ready one, and the idle task while a task whose
  priority is not in `low` is ready.

`IInv` of the scheduler is these two with its own location. What tick, PendSV and
interrupts do to them is proved once, for any `locs` and `low`, so the object
modules only add their calls: each has its own locations, and with interrupts
that release tasks `low` is `{0}` (see the end of section 3).

The properties are not inductive alone. `NoTaskLost` needs that the
current task is removed from its list when it is chosen and that a task that
blocked will be switched away from before it runs on. `NoAssertFails` needs
`CoreInv` for the assertion that a task that blocks is in no list, and
`ListsInv` for those of the choice of the next task. `DelayOrder` at the
wrap-around needs that the tick handler left nothing at or before the current
tick, which is why it is stated with the handler's position. `HighestPriorityRuns`
speaks only of settled states and says nothing of the steps that lead there.

### Semaphores, mutexes, queues

What the three have in common is `InCall`: a task in a blocking call is in the wait
list of its object, blocked, or in none, with a reason that can still be
trusted when the task runs again: nothing changes the wait reason of a task that
has been unblocked. A task outside such a call is in no wait list.

* `SemIInv` joins it with `TokensConserved` and `NobodyWaitsForAvailable`: a give
  either finds a waiter, who gets the token without the count changing, or counts.
* `MutexIInv` adds that a waiter is not the owner, that the count of a task is the
  number of mutexes it owns (`HeldInv`), that a task that owns nothing has its base
  priority, and that an owner is at least at the base priority of each waiter
  (`DonorsInv`). They depend on each other: the count is not
  saturated by a handoff because a task that waits passed the test of its
  count before it blocked, and the priority is given back only because the count is
  exact. `PreemptInv` is not part of it; finding 1 is the reason.
* `QueueIInv` adds `Ring`, the relation of indices and count, and `Covered`: while
  somebody waits to receive, there are at most as many items as tasks that were
  released to fetch them, and the same for senders and free cells. The mapping to Fifo is the
  window of the storage from the read index on; the lemmas on `Window` in
  `ListsProofs` say what a moved index does to it at either end. `TimeoutsAreWaited` has a hypothesis on the
  timeouts; finding 2 shows that it cannot do without.

### The port and its failures

`PortIInv` says that `IInv` holds until the kernel fails, because an un-failed step
of the port is a step of the scheduler or leaves it alone, and where the registers
of every thread are: of a task that is not current in two frames in its stack,
at which `saved` points; of the current one in the CPU or, while PendSV_Handler is
active, in its stack too; of main, between the start of SysTick and `svc`, in the
CPU or on the main stack and on top of exactly one task's stack. The last makes
it an invariant: PendSV may save main's registers to the stack of the first task,
switch to others, come back through that stack, and do it again. It also has that
only the current task can have overwritten its guard, and that while
PendSV_Handler is about to check the stack, words that reach the guard have been
noticed.

`DiagIInv` adds `RecordInv`: once a failure is recorded, the record and the history
variable `cause` name the current task, they agree on the reason unless the
breakpoint has no debugger, and the registers are still those of the fault. So
the second HardFault that such a breakpoint raises writes the same fault record.

### Semaphores and mutexes together

The invariant of System is that of the mutexes and that of the semaphores without
its clause on preemption (`SemPart`), which the boosts break as finding 1 shows. The
locations of all calls are named in one place (`Places`, `SwitchLocs`), and the parts
of the invariants that speak of waiters speak of the wait lists of one kind of object.
So one frame is enough: `LeavesOthers(locs, objects)` says that a step moves no task
into or out of the locations `locs` of the other kind's calls, and takes from a task
in such a call neither its list nor its wait reason, whatever it does to priorities.
Every call of one kind is shown to satisfy it, and the invariant of the other kind
to survive every step that does.

### The demo applications

`AppIInv` joins `SemPart` with what a demo adds. Nothing in it depends on
priorities, so it does not matter who preempts whom:

* `ConsoleInv`: the token of `uart_lock` is in the semaphore, or exactly one task
  writes (`OneWriter`); a task in a take waits for `uart_lock` with its whole row
  before it (`TakersReady`); and the wire together with the data register holds what
  the writer has stored of its row, the full row of the writer before it, or nothing
  (`WireInv`). A writer that has seen TXE finds the register empty at its store,
  since nobody else stores; and two rows do not meet because only a complete row is
  followed by a release. That the release finds the semaphore empty, so that the
  token is not dropped at the maximum, is `TokensConserved`.
* `ShowcaseTypes` and `EventsInv`: both queues are rings, and every event that was
  copied to a queue and not dropped is once in its contents, in the hands of the
  task that prints it, or printed (`Accounted`). A queue call that blocks or expires
  leaves all three alone, an item received leaves the contents when it comes to
  hand, and the interrupt between its two critical sections has copied its event to
  one queue only (`Copied`). Appending and removing at the ends of a sequence
  changes the number of occurrences of one element by one; this uses the
  cardinality theorems of the library and no recursion.

A step of a demo is a step of the console, a semaphore call, a queue call, a delay
or an exception. Each is shown once to keep `SemPart` (queue calls and delays satisfy
`LeavesOthers` of the section on semaphores and mutexes), and then what is left is
what it does to rows or events.

### The intrusive lists

`HeapInv` has a witness: a sequence of items for each list that names its ring, with
neighbours that point at each other, the sentinel closing it, the count its length,
containers that name the list, and no item in two sequences. The links of a ring are
stated by position (`Place`), the sentinel being the place before the first and after
the last item, so that an insertion is one splice and a removal its inverse
wherever they happen; one lemma shows that the rings of the other lists keep their
links. `Walk`, the sequence a reader finds along the links, is a recursive function, and
following it over a ring gives the witness, so the witness is unique and is the state
of AbstractLists. The scans of the sorted insertions are shown to stop at the positions at
which those of Lists do.

### Only model-checked

* Liveness: `DelayEnds`, `TopPriorityRuns` and `StartCompletes` (fairness is beyond
  the prover), and `PlaysScript`, which depends on fairness too and is about the
  durations of one demo.
* `FaultInfoIsFrame` and the other two violated statements are what findings 1 to 3
  refute.

## 5. Not modelled

* Clock, pin, UART and exception set-up (`board_init`, `board_button_init`,
  `rtos_port_tick_init`, `rtos_port_scheduler_init`) beyond the fact that it has
  been done: writes of constants to device registers. The LED is output nobody
  reads.
* What rows of the demos say, and the formatting of numbers; the load that tasks
  compute.
* Memory that a stack overflow overwrites beyond the guard words: nothing can be
  said of the program after that. Faults are raised by the code of tasks only, so of the two stacks on which
  HardFault_Handler looks for the frame of a fault, the main stack is used by the
  fault that a breakpoint raises in `rtos_port_halt` and by no other. Lazy stacking of
  `s0`-`s15` is taken as done at
  exception entry, since the first FPU instruction of the handler forces it.
* Fields of the failure and fault records other than the reason, the task and the
  stacked registers.
* Argument checks that return an error and change nothing; alignment and byte
  sizes; the bytes of queue items, which are abstract items. The public headers
  only declare what the sources define.
* Liveness of the priority and showcase demos: the state graphs are beyond TLC's
  liveness checking in reasonable time. Queues together with mutexes in one
  application: `system` has semaphores and mutexes, the showcase queues and a
  semaphore.

## 6. Plan

Done: all modules of section 2, their runs, and the theorems of section 4. Every
safety invariant and action property that a passing run checks has a theorem.

Next: the composition of queues with the other objects in one application, of which
the showcase is one case.
