------------------------------- MODULE Mutex -------------------------------
(***************************************************************************)
(* Nonrecursive mutexes with direct handoff and simplified priority        *)
(* inheritance, src/src/rtos/mutex.c, used by the tasks of a started       *)
(* kernel.                                                                 *)
(***************************************************************************)
EXTENDS StartedKernel

CONSTANTS
    Mutexes,      \* the mutexes, each named like its lock_list
    LockTimeouts, \* the timeouts tasks pass to artos_mutex_lock
    Delays        \* the tick counts tasks pass to artos_wait

ASSUME MutexAssumption ==
    /\ Mutexes \subseteq WaitLists
    /\ LockTimeouts \subseteq Ticks /\ Delays \subseteq Ticks

VARIABLES
    owner,    \* the owner of each mutex; its lock_list is kern.event_l
    locking,  \* the arguments of the artos_mutex_lock call a task is in
    inside    \* history: the mutexes whose lock returned true to a task and
              \* that it has not unlocked since

mutexVars == <<owner, locking, inside>>
mutexSpecVars == <<schedVars, mutexVars>>

NotLocking == [mutex |-> NULL, infinite |-> FALSE]

MutexInit ==
    /\ Started
    /\ owner = [m \in Mutexes |-> NULL]
    /\ locking = [t \in Slots |-> NotLocking]
    /\ inside = [t \in Slots |-> {}]

-----------------------------------------------------------------------------
(* The priority the waiters of m ask of its owner o. *)
rtos_mutex_required_priority(k, o, m) ==
    IF o = NULL
    THEN 0
    ELSE Max({k.priority[o]} \cup
             (IF k.event_l[m] # <<>> THEN {k.eff[Head(k.event_l[m])]} ELSE {}))

Inherit(k, o, m) == rtos_priority_inherit(k, o, rtos_mutex_required_priority(k, o, m))

(* artos_mutex_lock, up to the return or the end of the critical section   *)
(* in which the task blocks.  The calls that return false at once change   *)
(* nothing.                                                                *)
artos_mutex_lock(t, m, tick_timeout) ==
    LET wake == IF tick_timeout = ARTOS_DELAY_INFINITY
                THEN ARTOS_DELAY_INFINITY
                ELSE (tick_timeout + kern.ticks) % TickMod
        k1   == rtos_block_current_task(kern, wake, m, tick_timeout = ARTOS_DELAY_INFINITY)
    IN  /\ At(t, "app")
        /\ kern.held[t] # MaxHeld
        /\ \/ /\ owner[m] = NULL
              /\ owner' = [owner EXCEPT ![m] = t]
              /\ kern' = rtos_increment_mutex_count(kern, t)
              /\ inside' = [inside EXCEPT ![t] = @ \cup {m}]
              /\ UNCHANGED <<pc, locking>>
           \/ /\ owner[m] \notin {NULL, t}
              /\ tick_timeout # 0
              /\ kern' = Inherit(k1, owner[m], m)
              /\ locking' = [locking EXCEPT ![t] = [mutex |-> m,
                                  infinite |-> tick_timeout = ARTOS_DELAY_INFINITY]]
              /\ GoTo(t, "lock_switch")
              /\ UNCHANGED <<owner, inside>>
        /\ UNCHANGED <<pend, switching, systick>>

LockSwitch(t) ==
    /\ rtos_port_request_context_switch(t, "lock_switch", "lock_woken")
    /\ UNCHANGED mutexVars

(* The last critical section of artos_mutex_lock, when the task runs again. *)
LockReturn(t) ==
    LET m  == locking[t].mutex
        ok == kern.reason[t] = "WAIT_SIGNALED"
        k1 == rtos_clear_current_wait_reason(kern)
    IN  /\ At(t, "lock_woken")
        /\ kern' = IF ok THEN k1
                   ELSE rtos_priority_disinherit_after_timeout(k1, owner[m],
                            rtos_mutex_required_priority(k1, owner[m], m))
        /\ inside' = IF ok THEN [inside EXCEPT ![t] = @ \cup {m}] ELSE inside
        /\ locking' = [locking EXCEPT ![t] = NotLocking]
        /\ GoTo(t, "app")
        /\ UNCHANGED <<pend, switching, systick, owner>>

(* Fault: the mutex is released, not handed over, and the waiter woken. *)
Unlock_NoHandoff(t, m) ==
    LET k1   == rtos_priority_relinquish_after_unlock(rtos_decrement_mutex_count(kern, t), t)
        k2   == rtos_unblock_task(k1, Head(k1.event_l[m]), "WAIT_SIGNALED")
    IN  /\ At(t, "app")
        /\ owner[m] = t
        /\ kern' = IF kern.event_l[m] = <<>> THEN k1 ELSE k2
        /\ owner' = [owner EXCEPT ![m] = NULL]
        /\ GoTo(t, "switch")
        /\ inside' = [inside EXCEPT ![t] = @ \ {m}]
        /\ UNCHANGED <<pend, switching, systick, locking>>

(* Fault: the mutex is not counted for the new owner. *)
Unlock_NotCounted(t, m) ==
    LET k1   == rtos_priority_relinquish_after_unlock(rtos_decrement_mutex_count(kern, t), t)
        next == Head(k1.event_l[m])
    IN  /\ At(t, "app")
        /\ owner[m] = t
        /\ kern' = IF kern.event_l[m] = <<>> THEN k1
                   ELSE rtos_unblock_task(k1, next, "WAIT_SIGNALED")
        /\ owner' = [owner EXCEPT ![m] = IF kern.event_l[m] = <<>> THEN NULL ELSE next]
        /\ GoTo(t, "switch")
        /\ inside' = [inside EXCEPT ![t] = @ \ {m}]
        /\ UNCHANGED <<pend, switching, systick, locking>>

(* artos_mutex_unlock by the owner; for anyone else it returns false.  The *)
(* caller yields when its own priority fell (nobody waits) or when the new *)
(* owner's priority is above its own.                                      *)
artos_mutex_unlock(t, m) ==
    LET k1   == rtos_priority_relinquish_after_unlock(rtos_decrement_mutex_count(kern, t), t)
        next == Head(k1.event_l[m])
        k2   == rtos_increment_mutex_count(rtos_unblock_task(k1, next, "WAIT_SIGNALED"), next)
        k3   == IF k2.event_l[m] # <<>> THEN Inherit(k2, next, m) ELSE k2
    IN  /\ At(t, "app")
        /\ owner[m] = t
        /\ IF kern.held[t] = 0
           THEN kern' = Fail(kern) /\ UNCHANGED <<owner, pc>>
           ELSE IF kern.event_l[m] = <<>>
           THEN /\ kern' = k1
                /\ owner' = [owner EXCEPT ![m] = NULL]
                /\ GoTo(t, IF k1.eff[t] # kern.eff[t] THEN "switch" ELSE "app")
           ELSE /\ kern' = k3
                /\ owner' = [owner EXCEPT ![m] = next]
                /\ GoTo(t, IF k3.eff[next] > k1.eff[t] THEN "switch" ELSE "app")
        /\ inside' = [inside EXCEPT ![t] = @ \ {m}]
        /\ UNCHANGED <<pend, switching, systick, locking>>

MutexNext ==
    \/ /\ \/ SysTick \/ PendSVEnter \/ PendSVSwitch
          \/ \E t \in Slots :
                \/ Switch(t)
                \/ CreateCheck(t) \/ \E p \in Priorities : CreateInsert(t, p)
                \/ \E n \in Delays : artos_wait(t, n)
       /\ UNCHANGED mutexVars
    \/ \E t \in Slots : LockSwitch(t) \/ LockReturn(t)
    \/ \E t \in Slots, m \in Mutexes :
          (\E n \in LockTimeouts : artos_mutex_lock(t, m, n)) \/ artos_mutex_unlock(t, m)

MutexSpec == MutexInit /\ [][MutexNext]_mutexSpecVars
-----------------------------------------------------------------------------
(* Mutual exclusion as the tasks see it: a lock that returned true makes   *)
(* its caller the owner, and stays so until its unlock, whatever timeouts  *)
(* race the handoff.  A mutex that tasks wait for has an owner, and the    *)
(* owner is not one of them.                                               *)
OwnershipIsReal ==
    /\ \A t \in Slots : \A m \in inside[t] : owner[m] = t
    /\ \A m \in Mutexes : kern.event_l[m] # <<>> =>
           owner[m] # NULL /\ kern.event_c[owner[m]] # m

(* The count of held mutexes, which decides when an inherited priority is  *)
(* given back, is the number of mutexes the task owns, handoffs to a task  *)
(* that has not run yet included.                                          *)
HeldCountExact ==
    \A t \in Slots : kern.held[t] = Cardinality({m \in Mutexes : owner[m] = t})

(* Inheritance bounds priority inversion: the owner of a mutex runs at no  *)
(* lower priority than any task that waits for it was created with, even   *)
(* after timeouts, handoffs and partial unlocks.  (The effective priority  *)
(* of a waiter that owns mutexes itself is not passed on, README.md:165.)  *)
OwnerOutranksWaiters ==
    \A m \in Mutexes : \A t \in Slots : kern.event_c[t] = m =>
        /\ kern.eff[owner[m]] >= kern.priority[t]
        /\ kern.held[t] = 0 => kern.eff[owner[m]] >= kern.eff[t]

(* A boost never outlives the mutexes it is for: a task that owns none     *)
(* runs at its base priority, and no task ever below it.                   *)
BoostEndsWithLastUnlock ==
    \A t \in Slots : /\ kern.eff[t] >= kern.priority[t]
                     /\ kern.held[t] = 0 => kern.eff[t] = kern.priority[t]

(* Handoff goes to a waiter of the highest effective priority: the wait    *)
(* lists stay sorted when a waiter's own priority changes.                 *)
WaitersByPriority ==
    /\ InExactlyOneList(kern.event_l, kern.event_c)
    /\ \A m \in Mutexes : \A i, j \in DOMAIN kern.event_l[m] :
          i < j => kern.eff[kern.event_l[m][i]] >= kern.eff[kern.event_l[m][j]]

(* A task comes back from the block in artos_mutex_lock as the owner or    *)
(* timed out, and an unlimited lock never fails.                           *)
LockHasReason ==
    \A t \in Slots : Executes(t) /\ pc[t] = "lock_woken" =>
        \/ kern.reason[t] = "WAIT_SIGNALED" /\ owner[locking[t].mutex] = t
        \/ kern.reason[t] = "WAIT_TIMED_OUT" /\ ~locking[t].infinite
=============================================================================
