------------------------------- MODULE Kernel -------------------------------
(***************************************************************************)
(* The kernel state of src/src/rtos/tasks.c and the functions that change  *)
(* it.  The static variables and the fields of the task control blocks are *)
(* one record, and a C function f(args) that changes them is an operator   *)
(* f(k, args) from the record before the call to the record after it, so   *)
(* that calls compose the way they do in the code.  All of them run inside *)
(* a critical section of their caller.                                     *)
(*                                                                         *)
(* A failed ARTOS_ASSERT records the failure and halts the CPU             *)
(* (diagnostics.c); here it sets the field failed.                         *)
(***************************************************************************)
EXTENDS Lists, FiniteSetsExt

CONSTANTS
    NULL,           \* the null pointer; as a task, the main thread before artos_start
    IDLE,           \* the idle task, in no pool slot and in no list
    MaxTasks,       \* ARTOS_MAX_TASKS, the slots of the task pool
    PriorityCount,  \* ARTOS_PRIORITY_COUNT
    MaxHeld,        \* the limit of a task's mutex count (0xFF in the code)
    TickMod,        \* the tick counter is modulo TickMod (2^32 in the code)
    WaitLists       \* the wait lists of the kernel objects

Slots == 0 .. MaxTasks - 1
Tasks == Slots \cup {IDLE}
Priorities == 0 .. PriorityCount - 1
Ticks == 0 .. TickMod - 1

ReadyL(p) == p
DelayedL == PriorityCount
DelayedOverflowL == PriorityCount + 1
SuspendL == PriorityCount + 2
DelayLists == {DelayedL, DelayedOverflowL}
StateLists == 0 .. PriorityCount + 2

ARTOS_DELAY_INFINITY == TickMod - 1
HalfRange == TickMod \div 2

WaitReasons == {"WAIT_NO_REASON", "WAIT_SIGNALED", "WAIT_TIMED_OUT"}

(* The widths and limits of rtos_config.h and tasks.c:12-14, as far as the *)
(* kernel relies on them.                                                  *)
ASSUME KernelAssumption ==
    /\ MaxTasks \in Nat \ {0}
    /\ PriorityCount \in 1 .. 32
    /\ TickMod \in Nat \ {0, 1, 2}
    /\ MaxHeld \in Nat \ {0}
    /\ NULL \notin Slots /\ IDLE \notin Slots /\ NULL # IDLE
    /\ NULL \notin StateLists
    /\ NULL \notin WaitLists

-----------------------------------------------------------------------------
(* The kernel record: scalars, then the fields of the control blocks, then *)
(* the lists the state items (state_l) and the event items (event_l) are   *)
(* in, with the container (state_c, event_c) and value of each item.       *)
KernelType ==
    [ cur : Tasks \cup {NULL},
      ticks : Ticks,
      tsk_cnt : 0 .. MaxTasks,
      created : SUBSET Slots,
      priority : [Tasks -> Priorities],
      eff : [Tasks -> Priorities],
      held : [Tasks -> 0 .. MaxHeld],
      reason : [Tasks -> WaitReasons],
      state_l : [StateLists -> Seq(Slots)],
      state_c : [Slots -> StateLists \cup {NULL}],
      state_v : [Slots -> Ticks],
      event_l : [WaitLists -> Seq(Slots)],
      event_c : [Slots -> WaitLists \cup {NULL}],
      event_v : [Slots -> Priorities],
      bitmap : SUBSET Priorities,
      cur_delayed : DelayLists,
      next_delayed : DelayLists,
      failed : BOOLEAN ]

(* The state rtos_system_init leaves; the control block of the idle task   *)
(* has priority 0.                                                         *)
rtos_system_init ==
    [ cur |-> NULL,
      ticks |-> 0,
      tsk_cnt |-> 0,
      created |-> {},
      priority |-> [t \in Tasks |-> 0],
      eff |-> [t \in Tasks |-> 0],
      held |-> [t \in Tasks |-> 0],
      reason |-> [t \in Tasks |-> "WAIT_NO_REASON"],
      state_l |-> [l \in StateLists |-> <<>>],
      state_c |-> [t \in Slots |-> NULL],
      state_v |-> [t \in Slots |-> 0],
      event_l |-> [w \in WaitLists |-> <<>>],
      event_c |-> [t \in Slots |-> NULL],
      event_v |-> [t \in Slots |-> 0],
      bitmap |-> {},
      cur_delayed |-> DelayedL,
      next_delayed |-> DelayedOverflowL,
      failed |-> FALSE ]

(* ARTOS_ASSERT(FALSE) *)
Fail(k) == [k EXCEPT !.failed = TRUE]

-----------------------------------------------------------------------------
(* Removing an item from the list it is in; list.c asserts that it is in   *)
(* one.                                                                    *)
StateRemove(k, t) ==
    IF k.state_c[t] # NULL
    THEN [k EXCEPT !.state_l[k.state_c[t]] = rtos_list_remove(@, t),
                   !.state_c[t] = NULL]
    ELSE Fail(k)

EventRemove(k, t) ==
    IF k.event_c[t] # NULL
    THEN [k EXCEPT !.event_l[k.event_c[t]] = rtos_list_remove(@, t),
                   !.event_c[t] = NULL]
    ELSE Fail(k)

(* Fault: the ready bit is not set. *)
InsertReady_NoBit(k, t) ==
    IF k.state_c[t] # NULL
    THEN k
    ELSE [k EXCEPT !.state_l[ReadyL(k.eff[t])] = rtos_list_insert_end(@, t),
                   !.state_c[t] = ReadyL(k.eff[t])]

rtos_insert_ready_list(k, t) ==
    IF k.state_c[t] # NULL
    THEN k
    ELSE [k EXCEPT !.state_l[ReadyL(k.eff[t])] = rtos_list_insert_end(@, t),
                   !.state_c[t] = ReadyL(k.eff[t]),
                   !.bitmap = @ \cup {k.eff[t]}]

(* Fault: the bit stays set when the list becomes empty. *)
ClearReadyBit_Never(k, p) == k

(* The bit of priority p follows the ready list of p when an item leaves.  *)
ClearReadyBit(k, p) ==
    [k EXCEPT !.bitmap = IF k.state_l[ReadyL(p)] = <<>> THEN @ \ {p} ELSE @]

rtos_current_effective_priority(k) == IF k.cur = NULL THEN 0 ELSE k.eff[k.cur]

(* rtos_check_preemptable_task, unused in the code: is some task ready     *)
(* above the priority of t?                                                *)
rtos_check_preemptable_task(k, t) ==
    \E p \in k.bitmap : p > (IF t = NULL THEN 0 ELSE k.eff[t])

(* Is some task ready at or above the priority of t?                       *)
rtos_check_runnable_task(k, t) ==
    \E p \in k.bitmap : p >= (IF t = NULL THEN 0 ELSE k.eff[t])

(* Every caller assigns the returned task to _cur_task, so that assignment *)
(* is part of the operator.                                                *)
rtos_get_highest_prio_task(k) ==
    LET p == Max(k.bitmap)
        l == k.state_l[ReadyL(p)]
        t == Head(l)
    IN  IF \/ k.bitmap = {}
           \/ l = <<>>
           \/ k.eff[t] # p
           \/ k.state_c[t] # ReadyL(p)
        THEN Fail(k)
        ELSE [ClearReadyBit(StateRemove(k, t), p) EXCEPT !.cur = t]

(* rtos_scheduler_start: main calls it once tasks are created; NULL (no    *)
(* task) leaves the state alone.                                           *)
rtos_scheduler_start(k) ==
    IF k.cur # NULL \/ ~rtos_check_runnable_task(k, NULL)
    THEN k
    ELSE rtos_get_highest_prio_task(k)

(* rtos_scheduler_select_next for a running task.  The saved stack pointer *)
(* and the check of the stack guard are left out.                          *)
rtos_scheduler_switch_context(k) ==
    LET k1 == IF k.cur # IDLE /\ k.state_c[k.cur] = NULL
              THEN rtos_insert_ready_list(k, k.cur)
              ELSE k
    IN  IF rtos_check_runnable_task(k1, NULL)
        THEN rtos_get_highest_prio_task(k1)
        ELSE [k1 EXCEPT !.cur = IDLE]

(* The critical section of artos_task_create, when a slot is free: the     *)
(* first free control block is initialised and made ready.                 *)
FreeSlot(k) == CHOOSE t \in Slots \ k.created :
                   \A u \in Slots \ k.created : t <= u

artos_task_create(k, p) ==
    LET t  == FreeSlot(k)
        k1 == [k EXCEPT !.created = @ \cup {t},
                        !.priority[t] = p,
                        !.eff[t] = p,
                        !.held[t] = 0,
                        !.reason[t] = "WAIT_NO_REASON",
                        !.state_c[t] = NULL,
                        !.state_v[t] = 0,
                        !.event_c[t] = NULL,
                        !.event_v[t] = 0,
                        !.tsk_cnt = @ + 1]
    IN  rtos_insert_ready_list(k1, t)

(* The state in which main has created one task per element of prios, with *)
(* these priorities, after rtos_system_init.                               *)
TasksCreated(prios) ==
    LET after[n \in 0 .. Len(prios)] ==
            IF n = 0 THEN rtos_system_init
            ELSE artos_task_create(after[n - 1], prios[n])
    IN  after[Len(prios)]

-----------------------------------------------------------------------------
(* Fault: the delay lists are not told apart. *)
Block_IgnoresWrap(k, wake_tick, w, infinite) ==
    LET t  == k.cur
        l  == IF infinite THEN SuspendL ELSE k.cur_delayed
        k1 == [k EXCEPT !.state_v[t] = wake_tick]
        k2 == [k1 EXCEPT !.state_l[l] = rtos_list_insert_sorted(@, t, k1.state_v),
                         !.state_c[t] = l]
        k3 == [k2 EXCEPT !.event_v[t] = k.eff[t]]
    IN  IF w = NULL
        THEN k2
        ELSE [k3 EXCEPT !.event_l[w] =
                            rtos_list_insert_reversed_sorted(@, t, k3.event_v),
                        !.event_c[t] = w]

(* w is the wait list of the object the task blocks on, or NULL.           *)
rtos_block_current_task(k, wake_tick, w, infinite) ==
    LET t  == k.cur
        l  == IF infinite THEN SuspendL
              ELSE IF wake_tick < k.ticks THEN k.next_delayed
              ELSE k.cur_delayed
        k1 == [k EXCEPT !.state_v[t] = wake_tick]
        k2 == [k1 EXCEPT !.state_l[l] = IF infinite
                                        THEN rtos_list_insert_end(@, t)
                                        ELSE rtos_list_insert_sorted(@, t, k1.state_v),
                         !.state_c[t] = l]
        k3 == [k2 EXCEPT !.event_v[t] = k.eff[t]]
    IN  IF t \in {NULL, IDLE} \/ k.state_c[t] # NULL \/ k.event_c[t] # NULL
        THEN Fail(k)
        ELSE IF w = NULL
        THEN k2
        ELSE [k3 EXCEPT !.event_l[w] =
                            rtos_list_insert_reversed_sorted(@, t, k3.event_v),
                        !.event_c[t] = w]

(* Fault: the wait reason is not recorded. *)
Unblock_NoReason(k, t, reason) ==
    LET k1 == StateRemove(k, t)
        k2 == IF k.event_c[t] # NULL THEN EventRemove(k1, t) ELSE k1
    IN  IF k.state_c[t] \notin DelayLists \cup {SuspendL}
        THEN Fail(k)
        ELSE rtos_insert_ready_list(k2, t)

rtos_unblock_task(k, t, reason) ==
    LET k1 == StateRemove(k, t)
        k2 == IF k.event_c[t] # NULL THEN EventRemove(k1, t) ELSE k1
    IN  IF k.state_c[t] \notin DelayLists \cup {SuspendL}
        THEN Fail(k)
        ELSE [rtos_insert_ready_list(k2, t) EXCEPT !.reason[t] = reason]

(* Fault: the counter has no limit. *)
TickIncrement_NoWrap(k) == [k EXCEPT !.ticks = @ + 1]

(* Fault: the delay lists keep their roles on wrap-around. *)
TickIncrement_NoSwap(k) == [k EXCEPT !.ticks = (@ + 1) % TickMod]

(* The increment at the start of rtos_tick_handler: on wrap-around the two *)
(* delay lists change roles, and tasks still in the old one are dropped.   *)
TickIncrement(k) ==
    LET n    == (k.ticks + 1) % TickMod
        left == {t \in Slots : k.state_c[t] = k.cur_delayed}
    IN  IF n # 0
        THEN [k EXCEPT !.ticks = n]
        ELSE [k EXCEPT !.ticks = n,
                       !.state_l[k.cur_delayed] = <<>>,
                       !.state_c = [t \in Slots |-> IF t \in left THEN NULL ELSE @[t]],
                       !.cur_delayed = k.next_delayed,
                       !.next_delayed = k.cur_delayed]

(* Fault: a task is woken one tick late. *)
MustWake_Late(k) ==
    LET l == k.state_l[k.cur_delayed]
    IN  l # <<>> /\ k.state_v[Head(l)] < k.ticks

(* The loop condition of rtos_tick_handler, and one iteration.             *)
MustWake(k) ==
    LET l == k.state_l[k.cur_delayed]
    IN  l # <<>> /\ k.state_v[Head(l)] <= k.ticks

TickWake(k) ==
    rtos_unblock_task(k, Head(k.state_l[k.cur_delayed]), "WAIT_TIMED_OUT")

rtos_clear_current_wait_reason(k) ==
    [k EXCEPT !.reason[k.cur] = "WAIT_NO_REASON"]

-----------------------------------------------------------------------------
(* Priority inheritance.  The functions that report whether the priority   *)
(* changed are used through eff before and after.                          *)
rtos_increment_mutex_count(k, t) ==
    IF k.held[t] # MaxHeld THEN [k EXCEPT !.held[t] = @ + 1] ELSE k

rtos_decrement_mutex_count(k, t) ==
    IF k.held[t] # 0 THEN [k EXCEPT !.held[t] = @ - 1] ELSE k

(* Fault: a waiting task keeps its place in the wait list. *)
SetPriority_KeepsPlace(k, t, new) ==
    LET old      == k.eff[t]
        is_ready == k.state_c[t] = ReadyL(old)
        k1 == IF is_ready THEN ClearReadyBit(StateRemove(k, t), old) ELSE k
        k2 == [k1 EXCEPT !.eff[t] = new, !.event_v[t] = new]
    IN  IF new \notin Priorities \/ new < k.priority[t]
        THEN Fail(k)
        ELSE IF new = old
        THEN k
        ELSE IF is_ready THEN rtos_insert_ready_list(k2, t) ELSE k2

(* A ready task moves to the ready list of its new priority, a waiting one *)
(* to its new place in the wait list.                                      *)
rtos_set_effective_priority(k, t, new) ==
    LET old      == k.eff[t]
        is_ready == k.state_c[t] = ReadyL(old)
        w        == k.event_c[t]
        k1 == IF is_ready THEN ClearReadyBit(StateRemove(k, t), old) ELSE k
        k2 == IF w # NULL THEN EventRemove(k1, t) ELSE k1
        k3 == [k2 EXCEPT !.eff[t] = new]
        k4 == [k3 EXCEPT !.event_v[t] = new]
        k5 == IF w # NULL
              THEN [k4 EXCEPT !.event_l[w] =
                                  rtos_list_insert_reversed_sorted(@, t, k4.event_v),
                              !.event_c[t] = w]
              ELSE k3
    IN  IF new \notin Priorities \/ new < k.priority[t]
        THEN Fail(k)
        ELSE IF new = old
        THEN k
        ELSE IF is_ready THEN rtos_insert_ready_list(k5, t) ELSE k5

(* Fault: a priority is not inherited. *)
Inherit_Never(k, inheritor, donor_priority) == k

rtos_priority_inherit(k, inheritor, donor_priority) ==
    IF k.eff[inheritor] >= donor_priority
    THEN k
    ELSE rtos_set_effective_priority(k, inheritor, donor_priority)

(* Fault: the inherited priority is kept. *)
Relinquish_Never(k, t) == k

rtos_priority_relinquish_after_unlock(k, t) ==
    IF k.held[t] # 0 THEN k ELSE rtos_set_effective_priority(k, t, k.priority[t])

(* Fault: the waiters of the owner's other mutexes are forgotten. *)
Disinherit_AnyCount(k, t, required_priority) ==
    LET new == Max({required_priority, k.priority[t]})
    IN  IF t # NULL /\ k.held[t] >= 1 /\ new < k.eff[t]
        THEN rtos_set_effective_priority(k, t, new)
        ELSE k

rtos_priority_disinherit_after_timeout(k, t, required_priority) ==
    LET new == Max({required_priority, k.priority[t]})
    IN  IF t # NULL /\ k.held[t] = 1 /\ new < k.eff[t]
        THEN rtos_set_effective_priority(k, t, new)
        ELSE k

(* A task is a member of exactly the list its container names, once.       *)
InExactlyOneList(lists, container) ==
    \A l \in DOMAIN lists :
        /\ \A t \in Slots : container[t] = l <=> In(lists[l], t)
        /\ NoDuplicates(lists[l])

(* The state artos_task_get_info reports for t. *)
InfoState(k, t) ==
    CASE k.state_c[t] = NULL -> "RUNNING"
      [] k.state_c[t] \in DelayLists -> "BLOCKED"
      [] k.state_c[t] = SuspendL -> "SUSPENDED"
      [] OTHER -> "READY"
=============================================================================
