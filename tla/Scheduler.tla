----------------------------- MODULE Scheduler -----------------------------
(***************************************************************************)
(* The scheduler of aRTOS running on one CPU: task creation, the yield and *)
(* delay calls of src/src/rtos/rtos.c, the SysTick and PendSV exceptions   *)
(* of the Cortex-M4F port, and the kernel state of module Kernel they      *)
(* share.                                                                  *)
(*                                                                         *)
(* A critical section masks all interrupts, so its body is one atomic      *)
(* action; between two critical sections anything of higher priority may   *)
(* run.  Priorities, highest first: application interrupts, SysTick,       *)
(* PendSV, thread code.  A write to ICSR only pends PendSV: it runs when   *)
(* nothing of higher priority does.                                        *)
(***************************************************************************)
EXTENDS Kernel

VARIABLES
    kern,       \* the kernel record, of KernelType
    pend,       \* ICSR.PENDSVSET: a context switch is requested
    switching,  \* PendSV_Handler is active, before rtos_scheduler_switch_context
    systick,    \* where SysTick_Handler is: "idle", "wake" (inside the critical
                \* section) or "check" (after it)
    pc          \* where the code of each thread is, main (NULL) included

schedVars == <<kern, pend, switching, systick, pc>>

Threads == Slots \cup {NULL}

Init ==
    /\ kern = rtos_system_init
    /\ pend = FALSE
    /\ switching = FALSE
    /\ systick = "idle"
    /\ pc = [t \in Threads |-> "app"]

-----------------------------------------------------------------------------
(* Thread t executes: it is current and no exception is active or about to *)
(* be taken.  A failed assertion has halted the CPU.                       *)
Executes(t) ==
    /\ ~kern.failed
    /\ kern.cur = t
    /\ ~pend /\ ~switching /\ systick = "idle"

At(t, loc) == Executes(t) /\ pc[t] = loc

GoTo(t, loc) == pc' = [pc EXCEPT ![t] = loc]

(* rtos_port_request_context_switch in thread t at loc: the DSB and ISB    *)
(* after the write make PendSV happen before t's next instruction.         *)
rtos_port_request_context_switch(t, loc, next) ==
    /\ At(t, loc)
    /\ pend' = TRUE
    /\ GoTo(t, next)
    /\ UNCHANGED <<kern, switching, systick>>

(* The call that ends artos_task_create, artos_wait and artos_wait_until.  *)
Switch(t) == rtos_port_request_context_switch(t, "switch", "app")

artos_yield(t) ==
    /\ t # NULL
    /\ rtos_port_request_context_switch(t, "app", "app")

(* The check of _tsk_cnt, made before the critical section. *)
CreateCheck(t) ==
    /\ At(t, "app")
    /\ kern.tsk_cnt # MaxTasks
    /\ GoTo(t, "create")
    /\ UNCHANGED <<kern, pend, switching, systick>>

(* Fault: the creator does not yield to a task of higher priority. *)
CreateInsert_NoYield(t, p) ==
    /\ At(t, "create")
    /\ \/ kern.created = Slots /\ UNCHANGED kern
       \/ kern.created # Slots /\ kern' = artos_task_create(kern, p)
    /\ GoTo(t, "app")
    /\ UNCHANGED <<pend, switching, systick>>

(* The critical section of artos_task_create: other threads may have taken *)
(* the last slot since the check.                                          *)
CreateInsert(t, p) ==
    /\ At(t, "create")
    /\ \/ /\ kern.created = Slots
          /\ GoTo(t, "app")
          /\ UNCHANGED kern
       \/ /\ kern.created # Slots
          /\ kern' = artos_task_create(kern, p)
          /\ GoTo(t, IF t # NULL /\ p > kern.eff[t] THEN "switch" ELSE "app")
    /\ UNCHANGED <<pend, switching, systick>>

(* artos_start in main; ARTOS_ERROR_NO_TASKS changes nothing. *)
artos_start ==
    /\ At(NULL, "app")
    /\ kern.bitmap # {}
    /\ kern' = rtos_scheduler_start(kern)
    /\ UNCHANGED <<pend, switching, systick, pc>>

artos_wait(t, tick_count) ==
    /\ t # NULL
    /\ At(t, "app")
    /\ kern' = IF tick_count = 0
               THEN kern
               ELSE IF tick_count = ARTOS_DELAY_INFINITY
               THEN rtos_block_current_task(kern, ARTOS_DELAY_INFINITY, NULL, TRUE)
               ELSE rtos_block_current_task(kern, (kern.ticks + tick_count) % TickMod,
                                            NULL, FALSE)
    /\ GoTo(t, "switch")
    /\ UNCHANGED <<pend, switching, systick>>

artos_wait_until(t, wake_tick) ==
    LET delta == (wake_tick - kern.ticks) % TickMod
    IN  /\ t # NULL
        /\ At(t, "app")
        /\ kern' = IF delta # 0 /\ delta < HalfRange
                   THEN rtos_block_current_task(kern, wake_tick, NULL, FALSE)
                   ELSE kern
        /\ GoTo(t, "switch")
        /\ UNCHANGED <<pend, switching, systick>>

-----------------------------------------------------------------------------
(* Exceptions.  SysTick is enabled by artos_start and preempts thread code *)
(* and PendSV_Handler.                                                     *)

(* rtos_tick_handler enters its critical section and counts the tick. *)
SysTickEnter ==
    /\ ~kern.failed
    /\ kern.cur # NULL
    /\ systick = "idle"
    /\ kern' = TickIncrement(kern)
    /\ systick' = "wake"
    /\ UNCHANGED <<pend, switching, pc>>

(* An iteration of its loop, still in the critical section. *)
SysTickWake ==
    /\ ~kern.failed
    /\ systick = "wake"
    /\ MustWake(kern)
    /\ kern' = TickWake(kern)
    /\ UNCHANGED <<pend, switching, systick, pc>>

SysTickExitCritical ==
    /\ ~kern.failed
    /\ systick = "wake"
    /\ ~MustWake(kern)
    /\ systick' = "check"
    /\ UNCHANGED <<kern, pend, switching, pc>>

(* Fault: equal priorities do not preempt. *)
SysTickCheck_OnlyHigher ==
    /\ ~kern.failed
    /\ systick = "check"
    /\ pend' = (pend \/ rtos_check_preemptable_task(kern, kern.cur))
    /\ systick' = "idle"
    /\ UNCHANGED <<kern, switching, pc>>

(* The test after the critical section. *)
SysTickCheck ==
    /\ ~kern.failed
    /\ systick = "check"
    /\ pend' = (pend \/ rtos_check_runnable_task(kern, kern.cur))
    /\ systick' = "idle"
    /\ UNCHANGED <<kern, switching, pc>>

(* PendSV_Handler is entered, which clears the pending bit ... *)
PendSVEnter ==
    /\ ~kern.failed
    /\ kern.cur # NULL
    /\ pend /\ ~switching /\ systick = "idle"
    /\ pend' = FALSE
    /\ switching' = TRUE
    /\ UNCHANGED <<kern, systick, pc>>

(* ... and rtos_scheduler_switch_context runs its critical section. *)
PendSVSwitch ==
    /\ ~kern.failed
    /\ switching /\ systick = "idle"
    /\ kern' = rtos_scheduler_switch_context(kern)
    /\ switching' = FALSE
    /\ UNCHANGED <<pend, systick, pc>>

(* An application interrupt can run: the kernel has started and interrupts *)
(* are not masked.                                                         *)
InterruptEnabled == ~kern.failed /\ kern.cur # NULL /\ systick # "wake"

(* artos_yield_from_isr, called by an application interrupt. *)
artos_yield_from_isr ==
    /\ InterruptEnabled
    /\ pend' = TRUE
    /\ UNCHANGED <<kern, switching, systick, pc>>

SysTick == SysTickEnter \/ SysTickWake \/ SysTickExitCritical \/ SysTickCheck

Exceptions == SysTick \/ PendSVEnter \/ PendSVSwitch \/ artos_yield_from_isr

ThreadStep(t) ==
    \/ CreateCheck(t)
    \/ \E p \in Priorities : CreateInsert(t, p)
    \/ Switch(t)
    \/ artos_yield(t)
    \/ \E n \in Ticks : artos_wait(t, n)
    \/ \E w \in Ticks : artos_wait_until(t, w)

Next ==
    \/ \E t \in Threads : ThreadStep(t)
    \/ artos_start
    \/ Exceptions

Spec == Init /\ [][Next]_schedVars

(***************************************************************************)
(* SysTick fires for ever and its handler, like PendSV_Handler, runs to    *)
(* its end: a tick period is thousands of instructions long, so a pending  *)
(* PendSV is not preempted for ever.  Nothing is assumed of thread code: a *)
(* task may compute for ever without a call.                               *)
(***************************************************************************)
Fairness == WF_schedVars(SysTick) /\ SF_schedVars(PendSVEnter) /\ SF_schedVars(PendSVSwitch)

FairSpec == Spec /\ Fairness
-----------------------------------------------------------------------------
(* Types of the scheduler's own variables. *)
TypeOK ==
    /\ kern \in KernelType
    /\ pend \in BOOLEAN
    /\ switching \in BOOLEAN
    /\ systick \in {"idle", "wake", "check"}
    /\ pc \in [Threads -> {"app", "create", "switch"}]

(* No ARTOS_ASSERT of tasks.c or list.c can fail: whatever the ticks,      *)
(* wake-ups and switches in between, a task blocks only when it is in no   *)
(* list, and the ready lists agree with the bitmap when one is picked.     *)
NoAssertFails == ~kern.failed

(* A created task that is in no state list is the running one: no sequence *)
(* of calls and interrupts loses a task (artos_task_get_info would report  *)
(* it RUNNING for ever), and the idle task stays out of the lists.         *)
NoTaskLost ==
    \A t \in kern.created : InfoState(kern, t) = "RUNNING" => kern.cur = t

(* The ready bitmap, updated bit by bit, always says which ready lists     *)
(* have tasks, and a ready task is in the list of its effective priority.  *)
ReadyListsAgree ==
    /\ InExactlyOneList(kern.state_l, kern.state_c)
    /\ kern.bitmap = {p \in Priorities : kern.state_l[ReadyL(p)] # <<>>}
    /\ \A t \in Slots : kern.state_c[t] \in Priorities => kern.state_c[t] = ReadyL(kern.eff[t])

(* The two delay lists split the wake ticks at the current tick: sorted,   *)
(* the current list holds what is still to come before the wrap-around (at *)
(* the current tick only while the handler is waking), the other what is   *)
(* due after it.  So at the wrap-around no task is left in the list that   *)
(* rtos_tick_handler empties ("should never happen", tasks.c:289).         *)
DelayOrder ==
    /\ kern.cur_delayed # kern.next_delayed
    /\ \A l \in DelayLists : SortedBy(kern.state_l[l], kern.state_v)
    /\ \A t \in Slots :
          /\ kern.state_c[t] = kern.cur_delayed =>
                 \/ kern.state_v[t] > kern.ticks
                 \/ systick = "wake" /\ kern.state_v[t] = kern.ticks
          /\ kern.state_c[t] = kern.next_delayed => kern.state_v[t] < kern.ticks

(* No exception is active or pending: thread code is executing. *)
Settled == kern.cur # NULL /\ ~pend /\ ~switching /\ systick = "idle"

(* Fixed-priority preemption (rtos.h:8-13): while the code of a task runs, *)
(* outside the kernel's calls, no task of higher effective priority is     *)
(* ready.                                                                  *)
HighestPriorityRuns ==
    Settled /\ kern.cur \in Slots /\ pc[kern.cur] = "app" =>
        \A p \in kern.bitmap : p <= kern.eff[kern.cur]

(* The idle task runs when no other task can (README.md:87-88). *)
IdleOnlyWhenNothingReady == Settled /\ kern.cur = IDLE => kern.bitmap = {}

(* A delayed task leaves its list only on the tick it asked for, neither   *)
(* early nor late, the wrap-around included.                               *)
WakesOnItsTick ==
    [][\A t \in Slots :
          kern.state_c[t] \in DelayLists /\ kern'.state_c[t] # kern.state_c[t]
              => kern.ticks = kern.state_v[t] /\ systick = "wake"]_schedVars

(* A finite delay ends. *)
DelayEnds ==
    \A t \in Slots : kern.state_c[t] \in DelayLists ~> kern.state_c[t] \notin DelayLists

(* Round robin (rtos.h:11-13): once main has started the kernel, a ready   *)
(* task of the highest priority runs, although none of its peers ever      *)
(* yields.                                                                 *)
TopPriorityRuns ==
    \A t \in Slots :
        kern.cur # NULL /\ kern.state_c[t] = ReadyL(PriorityCount - 1) ~> kern.cur = t
=============================================================================
