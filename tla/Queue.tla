------------------------------- MODULE Queue -------------------------------
(***************************************************************************)
(* A bounded message queue, src/src/rtos/queue.c, used by the tasks of a   *)
(* started kernel and by application interrupts.                           *)
(***************************************************************************)
EXTENDS StartedKernel

CONSTANTS
    read_list, write_list,  \* the two wait lists of the queue
    Items,                  \* the items that can be sent
    Capacity,               \* the capacity given to artos_queue_init
    Timeouts    \* the timeouts tasks pass to the queue's calls

ASSUME QueueAssumption ==
    /\ read_list # write_list
    /\ {read_list, write_list} \subseteq WaitLists
    /\ NULL \notin Items
    /\ Capacity \in Nat \ {0}
    /\ Timeouts \subseteq Ticks

VARIABLES
    queue,    \* count, indices and storage of the queue; its lists are kern.event_l
    calling,  \* the locals of the queue call a task is in
    got,      \* history: the item copied to a receiver last
    gaveup    \* history: a call with a timeout returned false without waiting

queueVars == <<queue, calling, got, gaveup>>
vars == <<schedVars, queueVars>>

NoCall == [data |-> NULL, wake_tick |-> 0, infinity |-> FALSE]

artos_queue_init ==
    [count |-> 0, read_index |-> 0, write_index |-> 0,
     storage |-> [i \in 0 .. Capacity - 1 |-> NULL]]

QueueInit ==
    /\ Started
    /\ queue = artos_queue_init
    /\ calling = [t \in Slots |-> NoCall]
    /\ got = NULL
    /\ gaveup = FALSE

-----------------------------------------------------------------------------
(* Fault: the index wraps around one slot too late. *)
Advance_OffByOne(i) == IF i = Capacity THEN 0 ELSE i + 1

Advance(i) == IF i + 1 = Capacity THEN 0 ELSE i + 1

(* rtos_queue_assert_valid *)
QueueValid == /\ queue.count <= Capacity
              /\ queue.read_index < Capacity
              /\ queue.write_index < Capacity

(* The memcpy and index updates of the enqueue and dequeue functions. *)
Enqueued(d) ==
    [queue EXCEPT !.storage[queue.write_index] = d,
                  !.count = @ + 1,
                  !.write_index = Advance(@)]

(* Fault: the read index does not move. *)
Dequeued_SameIndex == [queue EXCEPT !.count = @ - 1]

Dequeued ==
    [queue EXCEPT !.count = @ - 1, !.read_index = Advance(@)]

(* Fault: a task is released only when the queue was full or empty. *)
Release_OnEdge(k, l) ==
    IF k.event_l[l] # <<>> /\ queue.count \in {0, Capacity}
    THEN rtos_unblock_task(k, Head(k.event_l[l]), "WAIT_SIGNALED")
    ELSE k

(* After a transfer the first task of the other side's list is released.   *)
Release(k, l) ==
    IF k.event_l[l] # <<>>
    THEN rtos_unblock_task(k, Head(k.event_l[l]), "WAIT_SIGNALED")
    ELSE k

(* Fault: the caller never yields. *)
ReleasesHigher_Never(k, l) == FALSE

ReleasesHigher(k, l) ==
    k.event_l[l] # <<>> /\ k.event_v[Head(k.event_l[l])] > rtos_current_effective_priority(k)

(* Fault: a call gives up one tick early. *)
Expired_Early(k, call) ==
    LET delta == (call.wake_tick - k.ticks) % TickMod
    IN  ~call.infinity /\ (delta <= 1 \/ delta >= HalfRange)

(* The deadline of a call has passed: the distance to wake_tick is zero or *)
(* negative as a signed number.                                            *)
Expired(k, call) ==
    LET delta == (call.wake_tick - k.ticks) % TickMod
    IN  ~call.infinity /\ (delta = 0 \/ delta >= HalfRange)

(* What both calls do while they have to wait, in state k: return false or *)
(* block on list l.                                                        *)
GiveUp(t, k) ==
    /\ kern' = k
    /\ calling' = [calling EXCEPT ![t] = NoCall]
    /\ GoTo(t, "app")

Block(t, k, call, l, loc) ==
    /\ kern' = rtos_block_current_task(k, call.wake_tick, l, call.infinity)
    /\ calling' = [calling EXCEPT ![t] = call]
    /\ GoTo(t, loc)

(* Transfer done: release a task of list l and yield to a higher priority. *)
Finish(t, k, l) ==
    /\ kern' = Release(k, l)
    /\ calling' = [calling EXCEPT ![t] = NoCall]
    /\ GoTo(t, IF ReleasesHigher(k, l) THEN "switch" ELSE "app")

(* One pass of task t through the loop of artos_queue_enqueue, from kernel *)
(* state k, up to a return or the exit from the critical section.          *)
EnqueuePass(t, k, call) ==
    \/ /\ queue.count = Capacity
       /\ \/ Expired(k, call) /\ GiveUp(t, k)
          \/ ~Expired(k, call) /\ Block(t, k, call, write_list, "enqueue_switch")
       /\ UNCHANGED <<queue, got>>
    \/ /\ queue.count # Capacity
       /\ queue' = Enqueued(call.data)
       /\ Finish(t, k, read_list)
       /\ UNCHANGED got

DequeuePass(t, k, call) ==
    \/ /\ queue.count = 0
       /\ \/ Expired(k, call) /\ GiveUp(t, k)
          \/ ~Expired(k, call) /\ Block(t, k, call, read_list, "dequeue_switch")
       /\ UNCHANGED <<queue, got>>
    \/ /\ queue.count # 0
       /\ queue' = Dequeued
       /\ got' = queue.storage[queue.read_index]
       /\ Finish(t, k, write_list)

Call(d, tick_timeout) ==
    [data |-> d,
     infinity |-> tick_timeout = ARTOS_DELAY_INFINITY,
     wake_tick |-> IF tick_timeout = ARTOS_DELAY_INFINITY
                   THEN ARTOS_DELAY_INFINITY
                   ELSE (tick_timeout + kern.ticks) % TickMod]

artos_queue_enqueue(t, d, tick_timeout) ==
    LET call == Call(d, tick_timeout)
    IN  /\ At(t, "app")
        /\ IF QueueValid THEN EnqueuePass(t, kern, call)
           ELSE kern' = Fail(kern) /\ UNCHANGED <<pc, queue, calling, got>>
        /\ gaveup' = (gaveup \/ (queue.count = Capacity /\ tick_timeout # 0 /\ Expired(kern, call)))
        /\ UNCHANGED <<pend, switching, systick>>

artos_queue_dequeue(t, tick_timeout) ==
    LET call == Call(NULL, tick_timeout)
    IN  /\ At(t, "app")
        /\ IF QueueValid THEN DequeuePass(t, kern, call)
           ELSE kern' = Fail(kern) /\ UNCHANGED <<pc, queue, calling, got>>
        /\ gaveup' = (gaveup \/ (queue.count = 0 /\ tick_timeout # 0 /\ Expired(kern, call)))
        /\ UNCHANGED <<pend, switching, systick>>

QueueSwitch(t) ==
    /\ \/ rtos_port_request_context_switch(t, "enqueue_switch", "enqueue_woken")
       \/ rtos_port_request_context_switch(t, "dequeue_switch", "dequeue_woken")
    /\ UNCHANGED queueVars

(* The task runs again: it gives up if it timed out, and goes back to the  *)
(* loop condition otherwise.                                               *)
EnqueueWoken(t) ==
    LET k == rtos_clear_current_wait_reason(kern)
    IN  /\ At(t, "enqueue_woken")
        /\ IF kern.reason[t] = "WAIT_TIMED_OUT"
           THEN GiveUp(t, k) /\ UNCHANGED <<queue, got>>
           ELSE EnqueuePass(t, k, calling[t])
        /\ UNCHANGED <<pend, switching, systick, gaveup>>

DequeueWoken(t) ==
    LET k == rtos_clear_current_wait_reason(kern)
    IN  /\ At(t, "dequeue_woken")
        /\ IF kern.reason[t] = "WAIT_TIMED_OUT"
           THEN GiveUp(t, k) /\ UNCHANGED <<queue, got>>
           ELSE DequeuePass(t, k, calling[t])
        /\ UNCHANGED <<pend, switching, systick, gaveup>>

(* Interrupt handlers that use the queue and yield when gt_task_woken is   *)
(* set.                                                                    *)
artos_queue_enqueue_from_isr(d) ==
    /\ InterruptEnabled
    /\ queue.count # Capacity
    /\ queue' = Enqueued(d)
    /\ kern' = IF QueueValid THEN Release(kern, read_list) ELSE Fail(kern)
    /\ pend' = (pend \/ ReleasesHigher(kern, read_list))
    /\ UNCHANGED <<switching, systick, pc, calling, got, gaveup>>

artos_queue_dequeue_from_isr ==
    /\ InterruptEnabled
    /\ queue.count # 0
    /\ queue' = Dequeued
    /\ got' = queue.storage[queue.read_index]
    /\ kern' = IF QueueValid THEN Release(kern, write_list) ELSE Fail(kern)
    /\ pend' = (pend \/ ReleasesHigher(kern, write_list))
    /\ UNCHANGED <<switching, systick, pc, calling, gaveup>>

QueueNext ==
    \/ /\ SysTick \/ PendSVEnter \/ PendSVSwitch \/ \E t \in Slots : Switch(t)
       /\ UNCHANGED queueVars
    \/ \E t \in Slots :
          \/ QueueSwitch(t) \/ EnqueueWoken(t) \/ DequeueWoken(t)
          \/ \E n \in Timeouts :
                artos_queue_dequeue(t, n) \/ \E d \in Items : artos_queue_enqueue(t, d, n)
    \/ \E d \in Items : artos_queue_enqueue_from_isr(d)
    \/ artos_queue_dequeue_from_isr

QueueSpec == QueueInit /\ [][QueueNext]_vars
-----------------------------------------------------------------------------
Locations == {"app", "switch", "enqueue_switch", "enqueue_woken",
              "dequeue_switch", "dequeue_woken"}

(* Types; the ring indices and the count agree. *)
QueueTypeOK ==
    /\ kern \in KernelType
    /\ pc \in [Threads -> Locations]
    /\ queue.count \in 0 .. Capacity
    /\ queue.read_index \in 0 .. Capacity - 1
    /\ queue.write_index = (queue.read_index + queue.count) % Capacity

(* The items in the ring, oldest first. *)
Contents ==
    [i \in 1 .. queue.count |-> queue.storage[(queue.read_index + i - 1) % Capacity]]

(* The queue is a bounded FIFO: items are neither lost, duplicated nor     *)
(* reordered by blocked senders and receivers, interrupts and timeouts.    *)
AbstractQueue == INSTANCE Fifo WITH buf <- Contents, out <- got, Nothing <- NULL
IsFifo == AbstractQueue!Spec

Released(locs) ==
    {t \in Slots : /\ pc[t] \in locs
                   /\ kern.event_c[t] = NULL
                   /\ kern.reason[t] = "WAIT_SIGNALED"}

(* No lost wake-up, though a released task finds its item or space taken   *)
(* by others: while a receiver waits, every item in the queue has a        *)
(* receiver that was released for it and has not run yet, and likewise for *)
(* senders and free slots.                                                 *)
NoLostWakeup ==
    /\ kern.event_l[read_list] # <<>> =>
           queue.count <= Cardinality(Released({"dequeue_switch", "dequeue_woken"}))
    /\ kern.event_l[write_list] # <<>> =>
           Capacity - queue.count <=
               Cardinality(Released({"enqueue_switch", "enqueue_woken"}))

(* A task comes back from the block released or timed out, never on a      *)
(* stale wait reason, and an unlimited wait never times out.               *)
QueueCallHasReason ==
    \A t \in Slots : Executes(t) /\ pc[t] \in {"enqueue_woken", "dequeue_woken"} =>
        /\ kern.reason[t] # "WAIT_NO_REASON"
        /\ calling[t].infinity => kern.reason[t] = "WAIT_SIGNALED"

(* A call with a nonzero timeout waits before it returns false (rtos.h:    *)
(* "tick_timeout Maximum ticks to wait", "false for invalid arguments or   *)
(* timeout").                                                              *)
TimeoutIsWaited == ~gaveup
=============================================================================
