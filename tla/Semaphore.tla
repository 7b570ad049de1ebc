----------------------------- MODULE Semaphore -----------------------------
(***************************************************************************)
(* Counting and binary semaphores, src/src/rtos/semaphore.c, used by the   *)
(* tasks of a started kernel and by application interrupts.                *)
(***************************************************************************)
EXTENDS StartedKernel

CONSTANTS
    Semaphores,   \* the semaphores, each named like its wait list
    MaxCount,     \* bound on the max_count a semaphore is initialised with
    TakeTimeouts  \* the timeouts tasks pass to artos_semaphore_take

ASSUME SemaphoreAssumption ==
    /\ Semaphores \subseteq WaitLists
    /\ MaxCount \in Nat \ {0}
    /\ TakeTimeouts \subseteq Ticks

VARIABLES
    sem,     \* count and max of each semaphore; its wait list is kern.event_l
    taking,  \* the arguments of the artos_semaphore_take call a task is in
    tokens   \* history: initial count + successful signals - successful takes

semVars == <<sem, taking, tokens>>
semSpecVars == <<schedVars, semVars>>

NotTaking == [sem |-> NULL, infinite |-> FALSE]

(* artos_counting_semaphore_init with a valid initial count;               *)
(* artos_binary_semaphore_init is the case max = 1.                        *)
artos_semaphore_init(s) ==
    \E max \in 1 .. MaxCount, count \in 0 .. MaxCount :
        count <= max /\ s = [count |-> count, max |-> max]

SemInit ==
    /\ Started
    /\ sem \in [Semaphores -> [count : 0 .. MaxCount, max : 1 .. MaxCount]]
    /\ \A s \in Semaphores : artos_semaphore_init(sem[s])
    /\ taking = [t \in Slots |-> NotTaking]
    /\ tokens = [s \in Semaphores |-> sem[s].count]

-----------------------------------------------------------------------------
(* artos_semaphore_take, up to the return or the end of the critical       *)
(* section in which the task blocks.  A take of an unavailable semaphore   *)
(* without a timeout returns false and changes nothing.                    *)
artos_semaphore_take(t, s, tick_timeout) ==
    /\ At(t, "app")
    /\ \/ /\ sem[s].count > 0
          /\ sem' = [sem EXCEPT ![s].count = @ - 1]
          /\ tokens' = [tokens EXCEPT ![s] = @ - 1]
          /\ UNCHANGED <<kern, pc, taking>>
       \/ /\ sem[s].count = 0
          /\ tick_timeout # 0
          /\ kern' = IF tick_timeout = ARTOS_DELAY_INFINITY
                     THEN rtos_block_current_task(kern, ARTOS_DELAY_INFINITY, s, TRUE)
                     ELSE rtos_block_current_task(kern, (tick_timeout + kern.ticks) % TickMod,
                                                  s, FALSE)
          /\ taking' = [taking EXCEPT ![t] = [sem |-> s,
                                infinite |-> tick_timeout = ARTOS_DELAY_INFINITY]]
          /\ GoTo(t, "take_switch")
          /\ UNCHANGED <<sem, tokens>>
    /\ UNCHANGED <<pend, switching, systick>>

TakeSwitch(t) ==
    /\ rtos_port_request_context_switch(t, "take_switch", "take_woken")
    /\ UNCHANGED semVars

(* The rest of artos_semaphore_take, when the task runs again.  The wait   *)
(* reason of a running task is changed by nobody else, so that reading and *)
(* clearing it is one step.                                                *)
TakeReturn(t) ==
    /\ At(t, "take_woken")
    /\ kern' = rtos_clear_current_wait_reason(kern)
    /\ tokens' = IF kern.reason[t] = "WAIT_SIGNALED"
                 THEN [tokens EXCEPT ![taking[t].sem] = @ - 1]
                 ELSE tokens
    /\ taking' = [taking EXCEPT ![t] = NotTaking]
    /\ GoTo(t, "app")
    /\ UNCHANGED <<pend, switching, systick, sem>>

(* What artos_semaphore_signal and its interrupt version do in their       *)
(* critical section, and whether the task they wake has a higher priority  *)
(* than the running one.                                                   *)
Waiter(s) == Head(kern.event_l[s])

(* Fault: the caller never yields. *)
WakesHigher_Never(s) == FALSE

WakesHigher(s) ==
    /\ sem[s].count = 0
    /\ kern.event_l[s] # <<>>
    /\ kern.event_v[Waiter(s)] > rtos_current_effective_priority(kern)

(* Fault: the token is stored and handed over. *)
SignalEffect_Twice(s) ==
    /\ sem[s].count # sem[s].max
    /\ sem' = [sem EXCEPT ![s].count = @ + 1]
    /\ kern' = IF kern.event_l[s] = <<>> THEN kern
               ELSE rtos_unblock_task(kern, Waiter(s), "WAIT_SIGNALED")

(* Fault: the token is stored although a task waits. *)
SignalEffect_NoHandover(s) ==
    /\ sem[s].count # sem[s].max
    /\ sem' = [sem EXCEPT ![s].count = @ + 1]
    /\ UNCHANGED kern

SignalEffect(s) ==
    \/ /\ sem[s].count # 0 \/ kern.event_l[s] = <<>>
       /\ sem[s].count # 0 => sem[s].count # sem[s].max
       /\ sem' = [sem EXCEPT ![s].count = @ + 1]
       /\ UNCHANGED kern
    \/ /\ sem[s].count = 0 /\ kern.event_l[s] # <<>>
       /\ kern' = rtos_unblock_task(kern, Waiter(s), "WAIT_SIGNALED")
       /\ UNCHANGED sem

artos_semaphore_signal(t, s) ==
    /\ At(t, "app")
    /\ SignalEffect(s)
    /\ tokens' = [tokens EXCEPT ![s] = @ + 1]
    /\ GoTo(t, IF WakesHigher(s) THEN "switch" ELSE "app")
    /\ UNCHANGED <<pend, switching, systick, taking>>

(* An interrupt handler that signals s and, as README.md:196-220 asks,     *)
(* calls artos_yield_from_isr when gt_task_woken is set.                   *)
artos_semaphore_signal_isr(s) ==
    /\ InterruptEnabled
    /\ SignalEffect(s)
    /\ tokens' = [tokens EXCEPT ![s] = @ + 1]
    /\ pend' = (pend \/ WakesHigher(s))
    /\ UNCHANGED <<switching, systick, pc, taking>>

artos_semaphore_take_isr(s) ==
    /\ InterruptEnabled
    /\ sem[s].count > 0
    /\ sem' = [sem EXCEPT ![s].count = @ - 1]
    /\ tokens' = [tokens EXCEPT ![s] = @ - 1]
    /\ UNCHANGED <<schedVars, taking>>

SemNext ==
    \/ /\ SysTick \/ PendSVEnter \/ PendSVSwitch \/ \E t \in Slots : Switch(t)
       /\ UNCHANGED semVars
    \/ \E t \in Slots : TakeSwitch(t) \/ TakeReturn(t)
    \/ \E t \in Slots, s \in Semaphores :
          \/ \E n \in TakeTimeouts : artos_semaphore_take(t, s, n)
          \/ artos_semaphore_signal(t, s)
    \/ \E s \in Semaphores :
          artos_semaphore_signal_isr(s) \/ artos_semaphore_take_isr(s)

SemSpec == SemInit /\ [][SemNext]_semSpecVars
-----------------------------------------------------------------------------
(* The tasks a signal has released from s that have not returned yet: each *)
(* carries a token that is no longer in the count.                         *)
Granted(s) ==
    {t \in Slots : /\ pc[t] \in {"take_switch", "take_woken"}
                   /\ taking[t].sem = s
                   /\ kern.event_c[t] = NULL
                   /\ kern.reason[t] = "WAIT_SIGNALED"}

(* No token is lost or made up: one that was signalled and not taken is in *)
(* the count or on its way to exactly one released task, whatever timeouts *)
(* race the signal and however long the task takes to run again.  The      *)
(* count never exceeds its maximum.                                        *)
TokensConserved ==
    \A s \in Semaphores :
        /\ tokens[s] = sem[s].count + Cardinality(Granted(s))
        /\ sem[s].count <= sem[s].max

(* No lost wake-up: nobody waits for a semaphore that is available.        *)
NobodyWaitsForAvailable ==
    \A s \in Semaphores : sem[s].count > 0 => kern.event_l[s] = <<>>

(* A task comes back from the block in artos_semaphore_take only because   *)
(* it was signalled or timed out, never on a stale wait reason, and one    *)
(* that waits without limit never returns false.                           *)
TakeHasReason ==
    \A t \in Slots : Executes(t) /\ pc[t] = "take_woken" =>
        /\ kern.reason[t] # "WAIT_NO_REASON"
        /\ taking[t].infinite => kern.reason[t] = "WAIT_SIGNALED"

(* A signal releases a waiter of the highest priority: the wait lists stay *)
(* in decreasing order of priority while tasks join, time out and leave.   *)
TakersByPriority ==
    /\ InExactlyOneList(kern.event_l, kern.event_c)
    /\ \A s \in Semaphores : \A i, j \in DOMAIN kern.event_l[s] :
          i < j => kern.eff[kern.event_l[s][i]] >= kern.eff[kern.event_l[s][j]]

(* Waiters of equal priority are served in the order they came: one that   *)
(* is in the list stays ahead of one that joins or is behind it.           *)
EqualWaitersFIFO ==
    [][\A s \in Semaphores, t, u \in Slots :
          /\ kern.event_c[t] = s /\ kern'.event_c[t] = s
          /\ kern'.event_c[u] = s /\ kern.eff[t] = kern'.eff[u]
          /\ kern.event_c[u] # s \/ Before(kern.event_l[s], t, u)
          /\ t # u
          => Before(kern'.event_l[s], t, u)]_semSpecVars

(* A signal hands the CPU over with the token: a released task of higher   *)
(* priority preempts the running one.  Only the idle task can keep running *)
(* after an interrupt made a task ready, until the next tick, and only     *)
(* when that task has the lowest priority.                                 *)
ReleasedTaskPreempts ==
    /\ HighestPriorityRuns
    /\ Settled /\ kern.cur = IDLE => kern.bitmap \subseteq {0}
=============================================================================
