---------------------------- MODULE QueueProofs ----------------------------
(***************************************************************************)
(* The safety properties of module Queue, and that it implements module    *)
(* Fifo, for any numbers of tasks and priorities, any capacity, any items  *)
(* and any timeouts.                                                       *)
(*                                                                         *)
(* The invariant adds to the scheduler's own (module SchedulerProofs) that *)
(* the ring is consistent, what a task in a queue call may rely on, and    *)
(* that wake-ups are not lost, which is inductive together with these.     *)
(***************************************************************************)
EXTENDS Queue, SchedulerProofs

(* Where a context switch is requested, and where the tasks that have      *)
(* blocked in a list are.                                                  *)
QueueLocs == {"switch", "enqueue_switch", "dequeue_switch"}
QueueLists == {read_list, write_list}
Side(l) == IF l = read_list THEN ReceiveLocs ELSE SendLocs

(* What a slot of the storage holds: an item, or nothing yet. *)
Cells == Items \cup {NULL}

Calls == [data : Cells, wake_tick : Ticks, infinity : BOOLEAN]

QueueCallsInv ==
    \A t \in Slots :
        /\ \A l \in QueueLists : pc[t] \in Side(l) => InCall(kern, t, l, calling[t].infinity)
        /\ pc[t] \in SendLocs => calling[t].data \in Items
        /\ pc[t] \notin SendLocs \cup ReceiveLocs => kern.event_c[t] = NULL

(* While a task waits in l, every item, or every free slot, that it could  *)
(* have is due to a task that was released for it.                         *)
Due(l) == IF l = read_list THEN queue.count ELSE Capacity - queue.count

Covered(l) == kern.event_l[l] # <<>> => Due(l) <= Cardinality(Released(Side(l)))

QueueIInv ==
    /\ CoreInv(QueueLocs)
    /\ PreemptInv(QueueLocs, {0})
    /\ kern.cur # NULL
    /\ pc \in [Threads -> Locations]
    /\ calling \in [Slots -> Calls]
    /\ Ring(queue, Capacity, Cells)
    /\ QueueCallsInv
    /\ \A l \in QueueLists : Covered(l)

(* The constants and the locations. *)
LEMMA QueueFacts ==
    /\ QueueLists \subseteq WaitLists /\ read_list \in QueueLists /\ write_list \in QueueLists
    /\ read_list # write_list /\ NULL \notin QueueLists
    /\ Capacity \in Nat /\ Capacity > 0
    /\ NULL \notin Items
    /\ Timeouts \subseteq Ticks
    /\ Side(read_list) = ReceiveLocs /\ Side(write_list) = SendLocs
    /\ SendLocs \cap ReceiveLocs = {}
BY QueueAssumption, KernelFacts DEF QueueLists, Side, SendLocs, ReceiveLocs

-----------------------------------------------------------------------------
(* A consistent ring passes rtos_queue_assert_valid. *)
LEMMA RingValid ==
    ASSUME Ring(queue, Capacity, Cells)
    PROVE  /\ QueueValid /\ queue.count \in Int /\ Capacity \in Int
           /\ queue.count >= 0 /\ queue.count <= Capacity
           /\ \A l \in QueueLists : Due(l) \in Int
BY QueueFacts DEF Ring, QueueValid, QueueLists, Due

-----------------------------------------------------------------------------
LEMMA EntryStates ==
    ASSUME QueueIInv, NEW t \in Slots, Executes(t), pc[t] \notin QueueLocs
    PROVE  /\ Entry(kern, t) /\ Entry(rtos_clear_current_wait_reason(kern), t)
           /\ kern.state_c[t] = NULL /\ kern.event_c[t] = NULL /\ ~Blocked(kern, t)
           /\ \A p \in kern.bitmap : p <= kern.eff[t]
<1>1. CoreInv(QueueLocs) /\ PreemptInv(QueueLocs, {0})
  BY DEF QueueIInv
<1> QED
  BY <1>1, EntryOfTask, RunningTask, RunningHighest

(* A step of task t: what remains to show of the calls. *)
LEMMA CallsStep ==
    ASSUME QueueIInv, NEW t \in Slots, NEW loc \in Locations, NEW c \in Calls,
           pc' = [pc EXCEPT ![t] = loc], calling' = [calling EXCEPT ![t] = c],
           \A u \in Slots : u # t =>
               /\ \A w, i : InCall(kern, u, w, i) => InCall(kern', u, w, i)
               /\ kern.event_c[u] = NULL => kern'.event_c[u] = NULL,
           \/ loc \in {"app", "switch"} /\ kern'.event_c[t] = NULL
           \/ \E l \in QueueLists : /\ loc \in Side(l) /\ InCall(kern', t, l, c.infinity)
                                    /\ l = write_list => c.data \in Items
    PROVE  /\ pc' \in [Threads -> Locations] /\ calling' \in [Slots -> Calls]
           /\ pc'[t] = loc /\ \A u \in Slots : u # t => pc'[u] = pc[u]
           /\ QueueCallsInv'
<1>1. pc \in [Threads -> Locations] /\ calling \in [Slots -> Calls] /\ QueueCallsInv
  BY DEF QueueIInv
<1>2. /\ pc' \in [Threads -> Locations] /\ calling' \in [Slots -> Calls]
      /\ pc'[t] = loc /\ calling'[t] = c
      /\ \A u \in Slots : u # t => pc'[u] = pc[u] /\ calling'[u] = calling[u]
  BY <1>1 DEF Threads
<1>3. ASSUME NEW u \in Slots
      PROVE  /\ \A l \in QueueLists :
                   pc'[u] \in Side(l) => InCall(kern', u, l, calling'[u].infinity)
             /\ pc'[u] \in SendLocs => calling'[u].data \in Items
             /\ pc'[u] \notin SendLocs \cup ReceiveLocs => kern'.event_c[u] = NULL
  <2>1. CASE u # t
    BY <2>1, <1>1, <1>2 DEF QueueCallsInv
  <2>2. CASE u = t
    <3>1. /\ loc \in {"app", "switch"} => loc \notin SendLocs \cup ReceiveLocs
          /\ QueueLists = {read_list, write_list} /\ read_list # write_list
          /\ \A l \in QueueLists : Side(l) \subseteq SendLocs \cup ReceiveLocs
          /\ Side(read_list) = ReceiveLocs /\ Side(write_list) = SendLocs
          /\ SendLocs \cap ReceiveLocs = {}
      BY QueueFacts DEF SendLocs, ReceiveLocs, QueueLists, Side
    <3> QED
      BY <2>2, <3>1, <1>2
  <2> QED
    BY <2>1, <2>2
<1> QED
  BY <1>2, <1>3 DEF QueueCallsInv

(* The task returns false: it passes on nothing that was due to it. *)
LEMMA GiveUpInv ==
    ASSUME QueueIInv, NEW t \in Slots, Executes(t), pc[t] \notin QueueLocs,
           NEW k, Entry(k, t), GiveUp(t, k), queue' = queue,
           pend' = pend, switching' = switching, systick' = systick,
           \A l \in QueueLists : t \in Released(Side(l)) => Due(l) = 0
    PROVE  QueueIInv'
<1>1. /\ kern' = k /\ calling' = [calling EXCEPT ![t] = NoCall] /\ pc' = [pc EXCEPT ![t] = "app"]
  BY DEF GiveUp, GoTo
<1>2. /\ CoreInv(QueueLocs) /\ Ring(queue, Capacity, Cells) /\ \A l \in QueueLists : Covered(l)
  BY DEF QueueIInv
<1>3. /\ kern.state_c[t] = NULL /\ kern.event_c[t] = NULL
      /\ \A p \in kern.bitmap : p <= kern.eff[t]
  BY EntryStates
<1>4. /\ KInv(k) /\ DelayInv(k, FALSE) /\ k.cur = t /\ k.state_c[t] = NULL
      /\ \A p \in k.bitmap : p <= k.eff[t]
      /\ k.event_l = kern.event_l /\ k.event_c = kern.event_c
      /\ \A u \in Slots : u # t => k.reason[u] = kern.reason[u]
  BY <1>3 DEF Entry
<1>5. CoreInv(QueueLocs)' /\ PreemptInv(QueueLocs, {0})'
  BY <1>1, <1>2, <1>4, ThreadStepCore, ThreadStepPreempt
<1>6. NoCall \in Calls /\ "app" \in Locations
  BY KernelFacts DEF NoCall, Calls, Cells, Ticks, Locations
<1>7. /\ pc' \in [Threads -> Locations] /\ calling' \in [Slots -> Calls]
      /\ pc'[t] = "app" /\ \A u \in Slots : u # t => pc'[u] = pc[u]
      /\ QueueCallsInv'
  BY <1>1, <1>3, <1>4, <1>6, EntryCalls, CallsStep
<1>8. ASSUME NEW l \in QueueLists, kern'.event_l[l] # <<>>
      PROVE  Due(l)' <= Cardinality(Released(Side(l))')
  <2>1. "app" \notin Side(l) /\ Due(l)' = Due(l)
    BY DEF Side, SendLocs, ReceiveLocs, Due
  <2>2. Released(Side(l))' = Released(Side(l)) \ {t}
    BY <2>1, <1>1, <1>4, <1>7 DEF Released
  <2>3. Released(Side(l)) \in SUBSET Slots /\ Due(l) <= Cardinality(Released(Side(l)))
    BY <1>1, <1>2, <1>4, <1>8 DEF Released, Covered
  <2>4. CASE t \notin Released(Side(l))
    <3>1. Released(Side(l)) \ {t} = Released(Side(l))
      BY <2>4
    <3> QED
      BY <2>1, <2>2, <2>3, <3>1
  <2>5. CASE t \in Released(Side(l))
    <3>1. (Released(Side(l)) \ {t}) \in SUBSET Slots /\ Due(l) = 0
      BY <2>3, <2>5
    <3>2. Cardinality(Released(Side(l)) \ {t}) \in Nat
      BY <3>1, TaskSetCard
    <3> QED
      BY <2>1, <2>2, <3>1, <3>2
  <2> QED
    BY <2>4, <2>5
<1>9. kern'.cur # NULL
  BY <1>1, <1>4, KernelFacts
<1> QED
  BY <1>2, <1>5, <1>7, <1>8, <1>9 DEF QueueIInv, Covered

(* The task blocks on list l, at loc: nothing is due there. *)
LEMMA BlockInv ==
    ASSUME QueueIInv, NEW t \in Slots, Executes(t), pc[t] \notin QueueLocs,
           NEW k, Entry(k, t), NEW l \in QueueLists, pc[t] \in {"app"} \cup Side(l),
           NEW loc \in Side(l), loc \in QueueLocs,
           NEW call \in Calls, l = write_list => call.data \in Items,
           ~Expired(k, call), Due(l) = 0,
           Block(t, k, call, l, loc), queue' = queue,
           pend' = pend, switching' = switching, systick' = systick
    PROVE  QueueIInv'
<1> DEFINE inf == call.infinity
<1>1. /\ kern' = rtos_block_current_task(k, call.wake_tick, l, inf)
      /\ calling' = [calling EXCEPT ![t] = call] /\ pc' = [pc EXCEPT ![t] = loc]
  BY DEF Block, GoTo
<1>2. /\ CoreInv(QueueLocs) /\ Ring(queue, Capacity, Cells) /\ l \in WaitLists /\ l # NULL
      /\ \A m \in QueueLists : Covered(m)
  BY QueueFacts DEF QueueIInv
<1>3. kern.state_c[t] = NULL /\ kern.event_c[t] = NULL
  BY EntryStates
<1>4. /\ KInv(k) /\ DelayInv(k, FALSE) /\ k.cur = t /\ k.state_c[t] = NULL
      /\ k.event_l = kern.event_l /\ k.event_c = kern.event_c
      /\ \A u \in Slots : u # t => k.reason[u] = kern.reason[u]
  BY <1>3 DEF Entry
<1>5. call.wake_tick \in Ticks /\ inf \in BOOLEAN /\ k.ticks \in Ticks
  BY <1>4 DEF Calls, KInv, KernelType
<1>6. ~inf => call.wake_tick # k.ticks
  BY <1>5, WakeTick DEF Expired
<1> HIDE DEF inf
<1>7. BlockedOn(kern', k, l, inf)
  BY <1>1, <1>2, <1>4, <1>5, <1>6, BlockOnEffect
<1>8. KInv(kern') /\ DelayInv(kern', FALSE) /\ kern'.cur = t
  BY <1>4, <1>7 DEF BlockedOn
<1>9. /\ InCall(kern', t, l, inf)
      /\ kern'.event_c[t] = l
      /\ \A u \in Slots : u # t =>
            /\ kern'.event_c[u] = k.event_c[u] /\ kern'.reason[u] = k.reason[u]
            /\ \A v, i : InCall(k, u, v, i) => InCall(kern', u, v, i)
  BY <1>2, <1>4, <1>5, <1>7, CallEntered
<1>10. loc \in Locations
  BY DEF QueueLocs, Locations
<1>11. /\ pc' \in [Threads -> Locations] /\ calling' \in [Slots -> Calls]
       /\ pc'[t] = loc /\ \A u \in Slots : u # t => pc'[u] = pc[u]
       /\ QueueCallsInv'
  <2>1. \A u \in Slots : u # t =>
            /\ \A w, i : InCall(kern, u, w, i) => InCall(kern', u, w, i)
            /\ kern.event_c[u] = NULL => kern'.event_c[u] = NULL
    BY <1>4, <1>9, EntryCalls
  <2>2. \E m \in QueueLists : /\ loc \in Side(m) /\ InCall(kern', t, m, call.infinity)
                              /\ m = write_list => call.data \in Items
    BY <1>9 DEF inf
  <2> QED
    BY <2>1, <2>2, <1>1, <1>10, CallsStep
<1>12. CoreInv(QueueLocs)' /\ PreemptInv(QueueLocs, {0})'
  BY <1>2, <1>8, <1>11, ThreadStepCore, ThreadStepPreempt
<1>13. \A m : Due(m)' = Due(m)
  BY DEF Due
<1>14. ASSUME NEW m \in QueueLists, kern'.event_l[m] # <<>>
       PROVE  Due(m) <= Cardinality(Released(Side(m))')
  <2>1. CASE m = l
    <3>1. Released(Side(m))' \in SUBSET Slots
      BY DEF Released
    <3>2. Cardinality(Released(Side(m))') \in Nat
      BY <3>1, TaskSetCard
    <3> QED
      BY <2>1, <3>2
  <2>2. CASE m # l
    <3>1. "app" \notin Side(m) /\ Side(l) \cap Side(m) = {} /\ m \in WaitLists
      BY <2>2, QueueFacts DEF QueueLists, Side, SendLocs, ReceiveLocs
    <3>2. Released(Side(m))' = Released(Side(m))
      BY <3>1, <1>4, <1>9, <1>11 DEF Released
    <3>3. kern'.event_l[m] = kern.event_l[m]
      BY <2>2, <3>1, <1>4, <1>7 DEF BlockedOn
    <3> QED
      BY <3>2, <3>3, <1>2, <1>14 DEF Covered
  <2> QED
    BY <2>1, <2>2
<1>15. kern'.cur # NULL
  BY <1>8, KernelFacts
<1> QED
  BY <1>2, <1>11, <1>12, <1>13, <1>14, <1>15 DEF QueueIInv, Covered

(* What a transfer does to the tasks that wait: the first task of list m,  *)
(* if any, is released.                                                    *)
LEMMA ReleaseEffect ==
    ASSUME NEW k, KInv(k), NEW m \in QueueLists, NEW r, r = Release(k, m)
    PROVE  \/ k.event_l[m] = <<>> /\ r = k /\ ~ReleasesHigher(k, m)
           \/ /\ k.event_l[m] # <<>>
              /\ \E u \in Slots : /\ Blocked(k, u) /\ Unblocked(r, k, u, "WAIT_SIGNALED")
                                  /\ k.event_c[u] = m
                                  /\ ReleasesHigher(k, m) <=>
                                        k.eff[u] > rtos_current_effective_priority(k)
<1>1. m \in WaitLists
  BY QueueFacts
<1>2. CASE k.event_l[m] = <<>>
  BY <1>2 DEF Release, ReleasesHigher
<1>3. CASE k.event_l[m] # <<>>
  <2> DEFINE u == Head(k.event_l[m])
  <2>1. u \in Slots /\ Blocked(k, u) /\ k.event_c[u] = m /\ k.event_v[u] = k.eff[u]
    BY <1>1, <1>3, FirstWaiter
  <2>2. r = rtos_unblock_task(k, u, "WAIT_SIGNALED")
    BY <1>3 DEF Release
  <2>3. Unblocked(r, k, u, "WAIT_SIGNALED")
    BY <2>1, <2>2, UnblockEffect DEF WaitReasons
  <2>4. ReleasesHigher(k, m) <=> k.eff[u] > rtos_current_effective_priority(k)
    BY <2>1, <1>3 DEF ReleasesHigher
  <2> QED
    BY <1>3, <2>1, <2>3, <2>4
<1> QED
  BY <1>2, <1>3

(* Who waits in list m is on its side. *)
LEMMA WaiterSide ==
    ASSUME QueueIInv, NEW m \in QueueLists, NEW u \in Slots, kern.event_c[u] = m
    PROVE  pc[u] \in Side(m)
<1>1. m # NULL /\ QueueCallsInv
  BY QueueFacts DEF QueueIInv
<1>2. pc[u] \in SendLocs \cup ReceiveLocs
  BY <1>1 DEF QueueCallsInv
<1>3. PICK l \in QueueLists : pc[u] \in Side(l)
  BY <1>2, QueueFacts
<1>4. kern.event_c[u] \in {NULL, l}
  BY <1>1, <1>3 DEF QueueCallsInv, InCall
<1> QED
  BY <1>1, <1>3, <1>4

(* The others' view of a release out of state k, of task u from list m. *)
LEMMA UnblockedView ==
    ASSUME NEW k, KInv(k), NEW u \in Slots, Blocked(k, u), NEW r, Unblocked(r, k, u, "WAIT_SIGNALED"),
           NEW m \in QueueLists, k.event_c[u] = m
    PROVE  /\ r.event_c[u] = NULL /\ r.reason[u] = "WAIT_SIGNALED"
           /\ \A v \in Slots : v # u => r.event_c[v] = k.event_c[v] /\ r.reason[v] = k.reason[v]
           /\ \A l \in QueueLists : l # m => r.event_l[l] = k.event_l[l]
           /\ \A v \in Slots : \A w, i : InCall(k, v, w, i) => InCall(r, v, w, i)
<1>1. /\ r.event_c = [k.event_c EXCEPT ![u] = NULL]
      /\ r.reason = [k.reason EXCEPT ![u] = "WAIT_SIGNALED"]
      /\ \A w \in WaitLists : w # k.event_c[u] => r.event_l[w] = k.event_l[w]
  BY DEF Unblocked
<1>2. /\ k.event_c \in [Slots -> WaitLists \cup {NULL}]
      /\ k.reason \in [Tasks -> WaitReasons] /\ Slots \subseteq Tasks
  BY DEF KInv, KernelType, Tasks
<1>3. \A v \in Slots : \A w, i : InCall(k, v, w, i) => InCall(r, v, w, i)
  BY CallUnblocked
<1> QED
  BY <1>1, <1>2, <1>3, QueueFacts

(* What was due on side l is taken, and on side m one thing more is due.   *)
LEMMA TransferCovered ==
    ASSUME QueueIInv, NEW l \in QueueLists, NEW m \in QueueLists, l # m, NEW t,
           Due(l)' = Due(l) - 1, Due(m)' = Due(m) + 1,
           Released(Side(l))' = Released(Side(l)) \ {t},
           kern'.event_l[l] = kern.event_l[l],
           \/ kern'.event_l[m] = <<>>
           \/ /\ kern.event_l[m] # <<>>
              /\ \E u : /\ u \notin Released(Side(m))
                        /\ Released(Side(m))' = Released(Side(m)) \cup {u}
    PROVE  \A x \in QueueLists : Covered(x)'
<1>1. /\ \A x \in QueueLists : Covered(x) /\ Due(x) \in Int
      /\ \A x \in QueueLists : x \in {l, m}
  BY RingValid DEF QueueIInv, QueueLists
<1>2. \A x : Released(Side(x)) \in SUBSET Slots
  BY DEF Released
<1>3. ASSUME kern'.event_l[l] # <<>> PROVE Due(l)' <= Cardinality(Released(Side(l))')
  <2>1. Due(l) <= Cardinality(Released(Side(l))) /\ Cardinality(Released(Side(l))) \in Nat
    BY <1>1, <1>2, <1>3, TaskSetCard DEF Covered
  <2>2. CASE t \in Released(Side(l))
    <3>1. Cardinality(Released(Side(l)) \ {t}) = Cardinality(Released(Side(l))) - 1
      BY <2>2, <1>2, TaskSetCard
    <3> QED
      BY <2>1, <3>1, <1>1
  <2>3. CASE t \notin Released(Side(l))
    <3>1. Released(Side(l))' = Released(Side(l))
      BY <2>3
    <3>2. Cardinality(Released(Side(l))') = Cardinality(Released(Side(l)))
      BY <3>1
    <3> QED
      BY <2>1, <3>2, <1>1
  <2> QED
    BY <2>2, <2>3
<1>4. ASSUME kern'.event_l[m] # <<>> PROVE Due(m)' <= Cardinality(Released(Side(m))')
  <2>1. PICK u : /\ u \notin Released(Side(m))
                 /\ Released(Side(m))' = Released(Side(m)) \cup {u}
    BY <1>4
  <2>2. Due(m) <= Cardinality(Released(Side(m))) /\ Cardinality(Released(Side(m))) \in Nat
    BY <1>1, <1>2, <1>4, TaskSetCard DEF Covered
  <2>3. Cardinality(Released(Side(m)) \cup {u}) = Cardinality(Released(Side(m))) + 1
    BY <2>1, <1>2, TaskSetCard
  <2> QED
    BY <2>1, <2>2, <2>3, <1>1
<1> QED
  BY <1>1, <1>3, <1>4 DEF Covered

(* A task's transfer: it is done with its own side, l, and releases a task *)
(* of side m.                                                              *)
LEMMA FinishInv ==
    ASSUME QueueIInv, NEW t \in Slots, Executes(t), pc[t] \notin QueueLocs,
           NEW k, Entry(k, t), NEW l \in QueueLists, NEW m \in QueueLists, l # m,
           pc[t] \in {"app"} \cup Side(l), Finish(t, k, m),
           Ring(queue', Capacity, Cells), Due(l)' = Due(l) - 1, Due(m)' = Due(m) + 1,
           pend' = pend, switching' = switching, systick' = systick
    PROVE  QueueIInv'
<1> DEFINE loc == IF ReleasesHigher(k, m) THEN "switch" ELSE "app"
<1>1. /\ kern' = Release(k, m) /\ calling' = [calling EXCEPT ![t] = NoCall]
      /\ pc' = [pc EXCEPT ![t] = loc]
  BY DEF Finish, GoTo
<1>2. /\ CoreInv(QueueLocs) /\ PreemptInv(QueueLocs, {0})
      /\ pc \in [Threads -> Locations]
  BY DEF QueueIInv
<1>3. /\ kern.state_c[t] = NULL /\ kern.event_c[t] = NULL /\ ~Blocked(kern, t)
      /\ \A p \in kern.bitmap : p <= kern.eff[t]
  BY EntryStates
<1>4. /\ KInv(k) /\ DelayInv(k, FALSE) /\ k.cur = t /\ k.state_c[t] = NULL
      /\ k.eff = kern.eff /\ k.bitmap = kern.bitmap /\ k.state_c = kern.state_c
      /\ k.event_l = kern.event_l /\ k.event_c = kern.event_c
      /\ \A u \in Slots : u # t => k.reason[u] = kern.reason[u]
  BY <1>3 DEF Entry
<1>5. NoCall \in Calls /\ loc \in Locations /\ loc \in {"app", "switch"}
  BY KernelFacts DEF NoCall, Calls, Cells, Ticks, Locations
<1>6. /\ loc \notin Side(l) /\ loc \notin Side(m) /\ "app" \notin Side(m)
      /\ Side(l) \cap Side(m) = {}
  BY <1>5, QueueFacts DEF QueueLists, Side, SendLocs, ReceiveLocs
<1>7. pc'[t] = loc /\ \A u \in Slots : u # t => pc'[u] = pc[u]
  BY <1>1, <1>2 DEF Threads
<1>8. ReleasesHigher(k, m) => pc'[t] \in QueueLocs
  BY <1>7 DEF QueueLocs
<1> HIDE DEF loc
<1>9. CASE k.event_l[m] = <<>> /\ kern' = k
  <2>1. CoreInv(QueueLocs)' /\ PreemptInv(QueueLocs, {0})'
    BY <1>2, <1>3, <1>4, <1>9, ThreadStepCore, ThreadStepPreempt
  <2>2. /\ pc' \in [Threads -> Locations] /\ calling' \in [Slots -> Calls] /\ QueueCallsInv'
    BY <1>1, <1>3, <1>4, <1>5, <1>9, EntryCalls, CallsStep, ZenonT(60)
  <2>3. Released(Side(l))' = Released(Side(l)) \ {t}
    BY <1>4, <1>6, <1>7, <1>9 DEF Released
  <2>4. \A x \in QueueLists : Covered(x)'
    BY <2>3, <1>4, <1>9, TransferCovered
  <2>5. kern'.cur # NULL
    BY <1>4, <1>9, KernelFacts
  <2> QED
    BY <2>1, <2>2, <2>4, <2>5 DEF QueueIInv
<1>10. ASSUME k.event_l[m] # <<>>, NEW u \in Slots, Blocked(k, u),
              Unblocked(kern', k, u, "WAIT_SIGNALED"), k.event_c[u] = m,
              ReleasesHigher(k, m) <=> k.eff[u] > rtos_current_effective_priority(k)
       PROVE  QueueIInv'
  <2>1. CoreInv(QueueLocs)' /\ PreemptInv(QueueLocs, {0})'
    BY <1>2, <1>4, <1>8, <1>10, ThreadUnblocks
  <2>2. /\ kern'.event_c[u] = NULL /\ kern'.reason[u] = "WAIT_SIGNALED"
        /\ \A v \in Slots : v # u =>
              kern'.event_c[v] = k.event_c[v] /\ kern'.reason[v] = k.reason[v]
        /\ kern'.event_l[l] = k.event_l[l]
        /\ \A v \in Slots : \A w, i : InCall(k, v, w, i) => InCall(kern', v, w, i)
    BY <1>4, <1>10, UnblockedView
  <2>3. u # t /\ pc[u] \in Side(m)
    <3>1. m # NULL
      BY QueueFacts
    <3> QED
      BY <3>1, <1>3, <1>4, <1>10, WaiterSide
  <2>4. /\ pc' \in [Threads -> Locations] /\ calling' \in [Slots -> Calls] /\ QueueCallsInv'
    <3>1. \A v \in Slots : v # t =>
              /\ \A w, i : InCall(kern, v, w, i) => InCall(kern', v, w, i)
              /\ kern.event_c[v] = NULL => kern'.event_c[v] = NULL
      BY <2>2, <1>4, EntryCalls
    <3>2. kern'.event_c[t] = NULL
      BY <2>2, <2>3, <1>3, <1>4
    <3> QED
      BY <3>1, <3>2, <1>1, <1>5, CallsStep
  <2>5. Released(Side(l))' = Released(Side(l)) \ {t}
    BY <2>2, <2>3, <1>4, <1>6, <1>7 DEF Released
  <2>6. /\ Released(Side(m))' = Released(Side(m)) \cup {u} /\ u \notin Released(Side(m))
    <3>1. m # NULL
      BY QueueFacts
    <3> QED
      BY <3>1, <2>2, <2>3, <1>4, <1>6, <1>7, <1>10 DEF Released
  <2>7. \A x \in QueueLists : Covered(x)'
    <3>1. /\ kern.event_l[m] # <<>> /\ kern'.event_l[l] = kern.event_l[l]
          /\ \E v : /\ v \notin Released(Side(m))
                    /\ Released(Side(m))' = Released(Side(m)) \cup {v}
      BY <2>2, <2>6, <1>4, <1>10
    <3> QED
      BY <3>1, <2>5, TransferCovered
  <2>8. kern'.cur # NULL
    BY <1>4, <1>10, KernelFacts DEF Unblocked
  <2> QED
    BY <2>1, <2>4, <2>7, <2>8 DEF QueueIInv
<1> QED
  BY <1>1, <1>4, <1>9, <1>10, ReleaseEffect

(* An interrupt's transfer. *)
LEMMA IsrTransferInv ==
    ASSUME QueueIInv, InterruptEnabled,
           NEW l \in QueueLists, NEW m \in QueueLists, l # m,
           kern' = Release(kern, m), pend' = (pend \/ ReleasesHigher(kern, m)),
           Ring(queue', Capacity, Cells), Due(l)' = Due(l) - 1, Due(m)' = Due(m) + 1,
           pc' = pc, calling' = calling, switching' = switching, systick' = systick
    PROVE  QueueIInv'
<1>1. /\ CoreInv(QueueLocs) /\ PreemptInv(QueueLocs, {0}) /\ KInv(kern) /\ kern.cur # NULL
      /\ pend \in BOOLEAN /\ QueueCallsInv
      /\ pc \in [Threads -> Locations] /\ calling \in [Slots -> Calls]
  BY DEF QueueIInv, CoreInv
<1>2. pend' \in BOOLEAN /\ (pend => pend') /\ (ReleasesHigher(kern, m) => pend')
  BY <1>1 DEF ReleasesHigher
<1>3. NULL \notin Slots /\ m # NULL /\ Side(l) \cap Side(m) = {}
  BY KernelFacts, QueueFacts DEF QueueLists
<1>4. CASE kern.event_l[m] = <<>> /\ kern' = kern /\ ~ReleasesHigher(kern, m)
  <2>1. pend' = pend
    BY <1>1, <1>4
  <2>2. CoreInv(QueueLocs)' /\ PreemptInv(QueueLocs, {0})' /\ QueueCallsInv'
    BY <2>1, <1>1, <1>4 DEF CoreInv, PreemptInv, SwitchComing, QueueCallsInv
  <2>3. Released(Side(l))' = Released(Side(l)) \ {NULL}
    BY <1>3, <1>4 DEF Released
  <2>4. \A x \in QueueLists : Covered(x)'
    BY <2>3, <1>4, TransferCovered
  <2> QED
    BY <2>2, <2>4, <1>1, <1>4 DEF QueueIInv
<1>5. ASSUME kern.event_l[m] # <<>>, NEW u \in Slots, Blocked(kern, u),
             Unblocked(kern', kern, u, "WAIT_SIGNALED"), kern.event_c[u] = m,
             ReleasesHigher(kern, m) <=> kern.eff[u] > rtos_current_effective_priority(kern)
      PROVE  QueueIInv'
  <2>1. CoreInv(QueueLocs)' /\ PreemptInv(QueueLocs, {0})'
    BY <1>1, <1>2, <1>5, InterruptUnblocks
  <2>2. /\ kern'.event_c[u] = NULL /\ kern'.reason[u] = "WAIT_SIGNALED"
        /\ \A v \in Slots : v # u =>
              kern'.event_c[v] = kern.event_c[v] /\ kern'.reason[v] = kern.reason[v]
        /\ kern'.event_l[l] = kern.event_l[l]
        /\ \A v \in Slots : \A w, i : InCall(kern, v, w, i) => InCall(kern', v, w, i)
    BY <1>1, <1>5, UnblockedView
  <2>3. pc[u] \in Side(m)
    BY <1>5, WaiterSide
  <2>4. QueueCallsInv'
    BY <2>2, <1>1 DEF QueueCallsInv
  <2>5. Released(Side(l))' = Released(Side(l)) \ {NULL}
    BY <2>2, <2>3, <1>3 DEF Released
  <2>6. /\ Released(Side(m))' = Released(Side(m)) \cup {u} /\ u \notin Released(Side(m))
    BY <2>2, <2>3, <1>3, <1>5 DEF Released
  <2>7. \A x \in QueueLists : Covered(x)'
    <3>1. /\ kern.event_l[m] # <<>> /\ kern'.event_l[l] = kern.event_l[l]
          /\ \E v : /\ v \notin Released(Side(m))
                    /\ Released(Side(m))' = Released(Side(m)) \cup {v}
      BY <2>2, <2>6, <1>5
    <3> QED
      BY <3>1, <2>5, TransferCovered
  <2>8. kern'.cur # NULL
    BY <1>1, <1>5 DEF Unblocked
  <2> QED
    BY <2>1, <2>4, <2>7, <2>8, <1>1 DEF QueueIInv
<1> QED
  BY <1>1, <1>4, <1>5, ReleaseEffect

-----------------------------------------------------------------------------
(* A step of the queue is one of the bounded FIFO, or none. *)
FifoStep ==
    \/ ContentsOf(queue', Capacity) = ContentsOf(queue, Capacity) /\ got' = got
    \/ \E d \in Items : /\ Len(ContentsOf(queue, Capacity)) < Capacity
                        /\ ContentsOf(queue', Capacity) = Append(ContentsOf(queue, Capacity), d)
                        /\ got' = got
    \/ /\ ContentsOf(queue, Capacity) # <<>>
       /\ got' = Head(ContentsOf(queue, Capacity))
       /\ ContentsOf(queue', Capacity) = Tail(ContentsOf(queue, Capacity))

(* The transfers on the queue itself. *)
LEMMA EnqueuedStep ==
    ASSUME Ring(queue, Capacity, Cells), queue.count # Capacity, NEW d \in Items, queue' = Enqueued(d), got' = got
    PROVE  /\ Ring(queue', Capacity, Cells) /\ FifoStep
           /\ Due(write_list)' = Due(write_list) - 1 /\ Due(read_list)' = Due(read_list) + 1
<1>1. /\ Ring(queue', Capacity, Cells) /\ queue'.count = queue.count + 1
      /\ ContentsOf(queue', Capacity) = Append(ContentsOf(queue, Capacity), d)
      /\ Len(ContentsOf(queue, Capacity)) < Capacity
  <2>1. queue' = Filled(queue, d, Capacity)
    BY Zenon DEF Enqueued, Filled, Advance, NextSlot
  <2>2. d \in Cells
    BY DEF Cells
  <2> QED
    BY <2>1, <2>2, QueueFacts, EnqueueRing
<1>2. queue.count \in Int /\ Capacity \in Int /\ read_list # write_list
  BY RingValid, QueueFacts
<1> QED
  BY <1>1, <1>2 DEF FifoStep, Due

LEMMA DequeuedStep ==
    ASSUME Ring(queue, Capacity, Cells), queue.count # 0, queue' = Dequeued,
           got' = queue.storage[queue.read_index]
    PROVE  /\ Ring(queue', Capacity, Cells) /\ FifoStep
           /\ Due(read_list)' = Due(read_list) - 1 /\ Due(write_list)' = Due(write_list) + 1
<1>1. /\ Ring(queue', Capacity, Cells) /\ queue'.count = queue.count - 1
      /\ ContentsOf(queue, Capacity) # <<>>
      /\ ContentsOf(queue', Capacity) = Tail(ContentsOf(queue, Capacity))
      /\ queue.storage[queue.read_index] = Head(ContentsOf(queue, Capacity))
  <2>1. queue' = Drained(queue, Capacity)
    BY Zenon DEF Dequeued, Drained, Advance, NextSlot
  <2> QED
    BY <2>1, QueueFacts, DequeueRing
<1>2. queue.count \in Int /\ Capacity \in Int /\ read_list # write_list
  BY RingValid, QueueFacts
<1> QED
  BY <1>1, <1>2 DEF FifoStep, Due

(* One pass of a task through the loop of artos_queue_enqueue ... *)
LEMMA EnqueuePassInv ==
    ASSUME QueueIInv, NEW t \in Slots, Executes(t), pc[t] \in {"app", "enqueue_woken"},
           NEW k, Entry(k, t), NEW call \in Calls, call.data \in Items,
           EnqueuePass(t, k, call),
           pend' = pend, switching' = switching, systick' = systick
    PROVE  QueueIInv' /\ FifoStep
<1>1. /\ pc[t] \notin QueueLocs /\ pc[t] \in {"app"} \cup Side(write_list)
      /\ pc[t] \notin Side(read_list)
      /\ "enqueue_switch" \in Side(write_list) /\ "enqueue_switch" \in QueueLocs
      /\ read_list \in QueueLists /\ write_list \in QueueLists /\ read_list # write_list
      /\ \A l \in QueueLists : l = read_list \/ l = write_list
  BY QueueFacts DEF QueueLocs, SendLocs, ReceiveLocs, QueueLists
<1>2. Ring(queue, Capacity, Cells)
  BY DEF QueueIInv
<1>3. ASSUME queue.count = Capacity, (Expired(k, call) /\ GiveUp(t, k)) \/
                 (~Expired(k, call) /\ Block(t, k, call, write_list, "enqueue_switch")),
             queue' = queue, got' = got
      PROVE  QueueIInv' /\ FifoStep
  <2>1. Due(write_list) = 0
    BY <1>1, <1>2, <1>3, RingValid DEF Due
  <2>2. \A l \in QueueLists : t \in Released(Side(l)) => Due(l) = 0
    BY <2>1, <1>1 DEF Released
  <2>3. FifoStep
    BY <1>3 DEF FifoStep
  <2>4. CASE GiveUp(t, k)
    BY <2>2, <2>3, <2>4, <1>1, <1>3, GiveUpInv
  <2>5. CASE ~Expired(k, call) /\ Block(t, k, call, write_list, "enqueue_switch")
    BY <2>1, <2>3, <2>5, <1>1, <1>3, BlockInv
  <2> QED
    BY <1>3, <2>4, <2>5
<1>4. ASSUME queue.count # Capacity, queue' = Enqueued(call.data), Finish(t, k, read_list),
             got' = got
      PROVE  QueueIInv' /\ FifoStep
  <2>1. /\ Ring(queue', Capacity, Cells) /\ FifoStep
        /\ Due(write_list)' = Due(write_list) - 1 /\ Due(read_list)' = Due(read_list) + 1
    BY <1>2, <1>4, EnqueuedStep
  <2> QED
    BY <2>1, <1>1, <1>4, FinishInv
<1> QED
  BY <1>3, <1>4 DEF EnqueuePass

(* ... and of artos_queue_dequeue. *)
LEMMA DequeuePassInv ==
    ASSUME QueueIInv, NEW t \in Slots, Executes(t), pc[t] \in {"app", "dequeue_woken"},
           NEW k, Entry(k, t), NEW call \in Calls,
           DequeuePass(t, k, call),
           pend' = pend, switching' = switching, systick' = systick
    PROVE  QueueIInv' /\ FifoStep
<1>1. /\ pc[t] \notin QueueLocs /\ pc[t] \in {"app"} \cup Side(read_list)
      /\ pc[t] \notin Side(write_list)
      /\ "dequeue_switch" \in Side(read_list) /\ "dequeue_switch" \in QueueLocs
      /\ read_list \in QueueLists /\ write_list \in QueueLists /\ read_list # write_list
      /\ \A l \in QueueLists : l = read_list \/ l = write_list
  BY QueueFacts DEF QueueLocs, SendLocs, ReceiveLocs, QueueLists
<1>2. Ring(queue, Capacity, Cells)
  BY DEF QueueIInv
<1>3. ASSUME queue.count = 0, (Expired(k, call) /\ GiveUp(t, k)) \/
                 (~Expired(k, call) /\ Block(t, k, call, read_list, "dequeue_switch")),
             queue' = queue, got' = got
      PROVE  QueueIInv' /\ FifoStep
  <2>1. Due(read_list) = 0
    BY <1>3 DEF Due
  <2>2. \A l \in QueueLists : t \in Released(Side(l)) => Due(l) = 0
    BY <2>1, <1>1 DEF Released
  <2>3. FifoStep
    BY <1>3 DEF FifoStep
  <2>4. CASE GiveUp(t, k)
    BY <2>2, <2>3, <2>4, <1>1, <1>3, GiveUpInv
  <2>5. CASE ~Expired(k, call) /\ Block(t, k, call, read_list, "dequeue_switch")
    BY <2>1, <2>3, <2>5, <1>1, <1>3, BlockInv
  <2> QED
    BY <1>3, <2>4, <2>5
<1>4. ASSUME queue.count # 0, queue' = Dequeued, got' = queue.storage[queue.read_index],
             Finish(t, k, write_list)
      PROVE  QueueIInv' /\ FifoStep
  <2>1. /\ Ring(queue', Capacity, Cells) /\ FifoStep
        /\ Due(read_list)' = Due(read_list) - 1 /\ Due(write_list)' = Due(write_list) + 1
    BY <1>2, <1>4, DequeuedStep
  <2> QED
    BY <2>1, <1>1, <1>4, FinishInv
<1> QED
  BY <1>3, <1>4 DEF DequeuePass

(* The calls of a task: their arguments are well typed. *)
LEMMA QueueCallsStep ==
    ASSUME QueueIInv, NEW t \in Slots, NEW n \in Timeouts,
           artos_queue_dequeue(t, n) \/ \E d \in Items : artos_queue_enqueue(t, d, n)
    PROVE  QueueIInv' /\ FifoStep
<1>1. QueueValid /\ KInv(kern)
  BY RingValid DEF QueueIInv, CoreInv
<1>2. ASSUME NEW d \in Cells PROVE Call(d, n) \in Calls /\ Call(d, n).data = d
  <2>1. n \in Ticks /\ kern.ticks \in Ticks /\ ARTOS_DELAY_INFINITY \in Ticks
    BY <1>1, QueueFacts, KernelFacts DEF KInv, KernelType, Ticks, ARTOS_DELAY_INFINITY
  <2>2. n + kern.ticks = kern.ticks + n
    BY <2>1, KernelFacts DEF Ticks
  <2>3. (n + kern.ticks) % TickMod \in Ticks
    BY <2>1, <2>2, WakeTick
  <2> QED
    BY <1>2, <2>1, <2>3 DEF Call, Calls
<1>3. ASSUME artos_queue_dequeue(t, n) PROVE QueueIInv' /\ FifoStep
  <2>1. /\ Executes(t) /\ pc[t] = "app" /\ DequeuePass(t, kern, Call(NULL, n))
        /\ pend' = pend /\ switching' = switching /\ systick' = systick
    BY <1>1, <1>3 DEF artos_queue_dequeue, At
  <2>2. pc[t] \notin QueueLocs
    BY <2>1 DEF QueueLocs
  <2>3. Entry(kern, t) /\ Call(NULL, n) \in Calls
    BY <2>1, <2>2, <1>2, EntryStates DEF Cells
  <2> QED
    BY <2>1, <2>3, DequeuePassInv
<1>4. ASSUME NEW d \in Items, artos_queue_enqueue(t, d, n) PROVE QueueIInv' /\ FifoStep
  <2>1. /\ Executes(t) /\ pc[t] = "app" /\ EnqueuePass(t, kern, Call(d, n))
        /\ pend' = pend /\ switching' = switching /\ systick' = systick
    BY <1>1, <1>4 DEF artos_queue_enqueue, At
  <2>2. pc[t] \notin QueueLocs
    BY <2>1 DEF QueueLocs
  <2>3. Entry(kern, t) /\ Call(d, n) \in Calls /\ Call(d, n).data \in Items
    BY <2>1, <2>2, <1>2, EntryStates DEF Cells
  <2> QED
    BY <2>1, <2>3, EnqueuePassInv
<1> QED
  BY <1>3, <1>4

(* A task runs again after it has blocked. *)
LEMMA WokenInv ==
    ASSUME QueueIInv, NEW t \in Slots, EnqueueWoken(t) \/ DequeueWoken(t)
    PROVE  QueueIInv' /\ FifoStep
<1> DEFINE k == rtos_clear_current_wait_reason(kern)
<1>1. /\ Executes(t) /\ pc[t] \in {"enqueue_woken", "dequeue_woken"}
      /\ pend' = pend /\ switching' = switching /\ systick' = systick
      /\ \/ /\ kern.reason[t] = "WAIT_TIMED_OUT" /\ GiveUp(t, k) /\ queue' = queue /\ got' = got
         \/ pc[t] = "enqueue_woken" /\ EnqueuePass(t, k, calling[t])
         \/ pc[t] = "dequeue_woken" /\ DequeuePass(t, k, calling[t])
  BY DEF EnqueueWoken, DequeueWoken, At
<1>2. pc[t] \notin QueueLocs
  BY <1>1 DEF QueueLocs
<1>3. Entry(k, t)
  BY <1>1, <1>2, EntryStates
<1>4. /\ calling[t] \in Calls
      /\ pc[t] = "enqueue_woken" => calling[t].data \in Items
  BY DEF QueueIInv, QueueCallsInv, SendLocs
<1> HIDE DEF k
<1>5. CASE kern.reason[t] = "WAIT_TIMED_OUT" /\ GiveUp(t, k) /\ queue' = queue /\ got' = got
  <2>1. \A l \in QueueLists : t \notin Released(Side(l))
    BY <1>5 DEF Released
  <2>2. FifoStep
    BY <1>5 DEF FifoStep
  <2> QED
    BY <2>1, <2>2, <1>1, <1>2, <1>3, <1>5, GiveUpInv
<1>6. CASE pc[t] = "enqueue_woken" /\ EnqueuePass(t, k, calling[t])
  BY <1>1, <1>3, <1>4, <1>6, EnqueuePassInv
<1>7. CASE pc[t] = "dequeue_woken" /\ DequeuePass(t, k, calling[t])
  BY <1>1, <1>3, <1>4, <1>7, DequeuePassInv
<1> QED
  BY <1>1, <1>5, <1>6, <1>7

(* Interrupts that use the queue. *)
LEMMA QueueIsrInv ==
    ASSUME QueueIInv,
           artos_queue_dequeue_from_isr \/ \E d \in Items : artos_queue_enqueue_from_isr(d)
    PROVE  QueueIInv' /\ FifoStep
<1>1. QueueValid /\ Ring(queue, Capacity, Cells)
  BY RingValid DEF QueueIInv
<1>2. read_list \in QueueLists /\ write_list \in QueueLists /\ read_list # write_list
  BY QueueFacts
<1>3. ASSUME artos_queue_dequeue_from_isr PROVE QueueIInv' /\ FifoStep
  <2>1. /\ InterruptEnabled /\ queue.count # 0 /\ queue' = Dequeued
        /\ got' = queue.storage[queue.read_index] /\ kern' = Release(kern, write_list)
        /\ pend' = (pend \/ ReleasesHigher(kern, write_list))
        /\ switching' = switching /\ systick' = systick /\ pc' = pc /\ calling' = calling
    BY <1>1, <1>3 DEF artos_queue_dequeue_from_isr
  <2>2. /\ Ring(queue', Capacity, Cells) /\ FifoStep
        /\ Due(read_list)' = Due(read_list) - 1 /\ Due(write_list)' = Due(write_list) + 1
    BY <2>1, <1>1, DequeuedStep
  <2> QED
    BY <2>1, <2>2, <1>2, IsrTransferInv
<1>4. ASSUME NEW d \in Items, artos_queue_enqueue_from_isr(d) PROVE QueueIInv' /\ FifoStep
  <2>1. /\ InterruptEnabled /\ queue.count # Capacity /\ queue' = Enqueued(d)
        /\ got' = got /\ kern' = Release(kern, read_list)
        /\ pend' = (pend \/ ReleasesHigher(kern, read_list))
        /\ switching' = switching /\ systick' = systick /\ pc' = pc /\ calling' = calling
    BY <1>1, <1>4 DEF artos_queue_enqueue_from_isr
  <2>2. /\ Ring(queue', Capacity, Cells) /\ FifoStep
        /\ Due(write_list)' = Due(write_list) - 1 /\ Due(read_list)' = Due(read_list) + 1
    BY <2>1, <1>1, EnqueuedStep
  <2> QED
    BY <2>1, <2>2, <1>2, IsrTransferInv
<1> QED
  BY <1>3, <1>4

-----------------------------------------------------------------------------
LEMMA QueueInitInv == QueueInit => QueueIInv /\ ContentsOf(queue, Capacity) = <<>>
<1> SUFFICES ASSUME QueueInit PROVE QueueIInv /\ ContentsOf(queue, Capacity) = <<>>
  OBVIOUS
<1>1. PICK prios \in TaskSets : StartedWith(prios)
  BY DEF QueueInit, Started
<1>2. prios \in Seq(Priorities) /\ Len(prios) \in 1 .. MaxTasks
  BY TaskSetsAssumption
<1>3. kern = rtos_scheduler_start(TasksCreated(prios))
  BY <1>1 DEF StartedWith
<1>4. /\ KInv(kern) /\ DelayInv(kern, FALSE) /\ Fresh(kern)
      /\ kern.cur \in Slots /\ kern.state_c[kern.cur] = NULL
      /\ \A p \in kern.bitmap : p <= kern.eff[kern.cur]
  BY <1>2, <1>3, StartedState
<1>5. /\ pend = FALSE /\ switching = FALSE /\ systick = "idle"
      /\ pc = [t \in Threads |-> "app"]
      /\ queue = artos_queue_init /\ calling = [t \in Slots |-> NoCall]
  BY <1>1 DEF QueueInit, StartedWith
<1>6. kern.cur # NULL /\ kern.cur # IDLE
  BY <1>4, KernelFacts
<1>7. CoreInv(QueueLocs)
  BY <1>4, <1>5, <1>6 DEF CoreInv
<1>8. PreemptInv(QueueLocs, {0})
  <2>1. \A p \in kern.bitmap : ~(p > kern.eff[kern.cur])
    BY <1>4, PriorityFacts
  <2> QED
    BY <2>1, <1>6 DEF PreemptInv
<1>9. pc \in [Threads -> Locations] /\ calling \in [Slots -> Calls]
  BY <1>5, KernelFacts DEF NoCall, Calls, Cells, Ticks, Locations
<1>10. \A t \in Slots : pc[t] = "app" /\ kern.event_c[t] = NULL
  BY <1>4, <1>5 DEF Threads, Fresh
<1>11. QueueCallsInv
  BY <1>10 DEF QueueCallsInv, Side, SendLocs, ReceiveLocs
<1>12. /\ queue.count = 0 /\ queue.read_index = 0 /\ queue.write_index = 0
       /\ queue.storage \in [0 .. Capacity - 1 -> Cells]
       /\ queue = [count |-> queue.count, read_index |-> queue.read_index,
                   write_index |-> queue.write_index, storage |-> queue.storage]
  BY <1>5 DEF artos_queue_init, Cells
<1>13. /\ Capacity \in Nat /\ Capacity > 0
       /\ 0 \in 0 .. Capacity - 1 /\ 0 \in 0 .. Capacity /\ (0 + 0) % Capacity = 0
  BY QueueFacts
<1>14. Ring(queue, Capacity, Cells)
  <2>1. queue \in [count : 0 .. Capacity, read_index : 0 .. Capacity - 1,
                   write_index : 0 .. Capacity - 1, storage : [0 .. Capacity - 1 -> Cells]]
    BY <1>12, <1>13
  <2> QED
    BY <2>1, <1>12, <1>13 DEF Ring, Storage
<1>15. ContentsOf(queue, Capacity) = <<>>
  <2> DEFINE st == queue.storage
  <2>1. st \in Storage(Capacity, Cells)
    BY <1>12 DEF Storage
  <2>2. ContentsOf(queue, Capacity) = Window(st, 0, 0, Capacity)
    BY <1>12 DEF ContentsOf
  <2> HIDE DEF st
  <2>3. ContentsOf(queue, Capacity) \in Seq(Cells) /\ Len(ContentsOf(queue, Capacity)) = 0
    BY <2>1, <2>2, <1>13, WindowIsSeq
  <2> QED
    BY <2>3, EmptySeq
<1>16. \A l \in QueueLists : Covered(l)
  <2>1. \A l \in QueueLists : kern.event_l[l] = <<>>
    BY <1>4, <1>10, EmptyWaitList, QueueFacts
  <2> QED
    BY <2>1 DEF Covered
<1> QED
  BY <1>6, <1>7, <1>8, <1>9, <1>11, <1>14, <1>15, <1>16 DEF QueueIInv

(* What exceptions do to the tasks that wait: one that times out was not   *)
(* released, and gives up what it was never due.                           *)
LEMMA QueueWaitStep ==
    ASSUME QueueIInv, WaitStep, KInv(kern'), pc' = pc, queue' = queue, calling' = calling
    PROVE  QueueCallsInv' /\ \A l \in QueueLists : Covered(l)'
<1>1. KInv(kern) /\ QueueCallsInv /\ \A l \in QueueLists : Covered(l)
  BY DEF QueueIInv, CoreInv
<1>2. \A l : Due(l)' = Due(l)
  BY DEF Due
<1>3. CASE SameWaits(kern', kern)
  <2>1. kern'.event_c = kern.event_c /\ kern'.event_l = kern.event_l /\ kern'.reason = kern.reason
    BY <1>3 DEF SameWaits
  <2>2. QueueCallsInv'
    BY <2>1, <1>1, <1>3, CallKept DEF QueueCallsInv
  <2>3. \A l : Released(Side(l))' = Released(Side(l))
    BY <2>1 DEF Released
  <2> QED
    BY <2>1, <2>2, <2>3, <1>1, <1>2 DEF Covered
<1>4. ASSUME NEW u \in Slots, TimedOut(u)
      PROVE  QueueCallsInv' /\ \A l \in QueueLists : Covered(l)'
  <2>1. /\ Blocked(kern, u) /\ kern.state_c[u] \in DelayLists
        /\ Unblocked(kern', kern, u, "WAIT_TIMED_OUT")
    BY <1>4 DEF TimedOut, Blocked
  <2>2. /\ kern'.event_c = [kern.event_c EXCEPT ![u] = NULL]
        /\ kern'.reason = [kern.reason EXCEPT ![u] = "WAIT_TIMED_OUT"]
    BY <2>1 DEF Unblocked
  <2>3. /\ kern.event_c \in [Slots -> WaitLists \cup {NULL}]
        /\ kern.reason \in [Tasks -> WaitReasons] /\ Slots \subseteq Tasks
    BY <1>1 DEF KInv, KernelType, Tasks
  <2>4. /\ kern'.event_c[u] = NULL /\ kern'.reason[u] = "WAIT_TIMED_OUT"
        /\ \A t \in Slots : t # u => /\ kern'.event_c[t] = kern.event_c[t]
                                     /\ kern'.reason[t] = kern.reason[t]
    BY <2>2, <2>3
  <2>5. \A t \in Slots : \A w, i : InCall(kern, t, w, i) => InCall(kern', t, w, i)
    BY <2>1, <1>1, CallUnblocked
  <2>6. QueueCallsInv'
    BY <2>4, <2>5, <1>1 DEF QueueCallsInv
  <2>7. \A l \in QueueLists : pc[u] \in Side(l) => kern.event_c[u] # NULL
    BY <2>1, <1>1 DEF QueueCallsInv, InCall
  <2>8. \A l \in QueueLists : Released(Side(l))' = Released(Side(l))
    BY <2>4, <2>7 DEF Released
  <2>9. ASSUME NEW l \in QueueLists, kern.event_l[l] = <<>> PROVE kern'.event_l[l] = <<>>
    <3>1. l \in WaitLists /\ l # NULL
      BY QueueFacts
    <3>2. \A t \in Slots : kern'.event_c[t] # l
      BY <3>1, <2>4, <2>9, <1>1, EmptyWaitList
    <3> QED
      BY <3>1, <3>2, EmptyWaitList
  <2> QED
    BY <2>6, <2>8, <2>9, <1>1, <1>2 DEF Covered
<1> QED
  BY <1>3, <1>4 DEF WaitStep

LEMMA QueueExceptionInv ==
    ASSUME QueueIInv, SysTick \/ PendSVEnter \/ PendSVSwitch, UNCHANGED queueVars
    PROVE  QueueIInv' /\ FifoStep
<1>1. CoreInv(QueueLocs)
  BY DEF QueueIInv
<1>2. /\ CoreInv(QueueLocs)' /\ WaitStep
      /\ pc' = pc /\ kern'.cur # NULL
      /\ PreemptInv(QueueLocs, {0})'
  BY <1>1, ExceptionStep DEF Exceptions
<1>3. queue' = queue /\ calling' = calling /\ got' = got
  BY DEF queueVars
<1>4. QueueCallsInv' /\ \A l \in QueueLists : Covered(l)'
  BY <1>2, <1>3, QueueWaitStep DEF CoreInv
<1> QED
  BY <1>2, <1>3, <1>4 DEF QueueIInv, FifoStep

(* The request for a context switch. *)
LEMMA QueueSwitchInv ==
    ASSUME QueueIInv, NEW t \in Slots, Switch(t) \/ QueueSwitch(t), UNCHANGED queueVars
    PROVE  QueueIInv' /\ FifoStep
<1>1. PICK loc, next : /\ rtos_port_request_context_switch(t, loc, next)
                       /\ \/ loc = "switch" /\ next = "app"
                          \/ loc = "enqueue_switch" /\ next = "enqueue_woken"
                          \/ loc = "dequeue_switch" /\ next = "dequeue_woken"
  BY DEF Switch, QueueSwitch
<1>2. /\ CoreInv(QueueLocs) /\ QueueCallsInv /\ pc \in [Threads -> Locations]
      /\ \A l \in QueueLists : Covered(l)
  BY DEF QueueIInv
<1>3. /\ CoreInv(QueueLocs)' /\ PreemptInv(QueueLocs, {0})' /\ kern' = kern
      /\ pc[t] = loc /\ pc' = [pc EXCEPT ![t] = next]
  BY <1>1, <1>2, RequestCore
<1>4. queue' = queue /\ calling' = calling /\ got' = got
  BY DEF queueVars
<1>5. /\ pc' \in [Threads -> Locations]
      /\ \A u \in Slots : /\ pc'[u] \in SendLocs <=> pc[u] \in SendLocs
                          /\ pc'[u] \in ReceiveLocs <=> pc[u] \in ReceiveLocs
  BY <1>1, <1>2, <1>3 DEF Locations, SendLocs, ReceiveLocs, Threads
<1>6. \A u \in Slots, l \in QueueLists : pc'[u] \in Side(l) <=> pc[u] \in Side(l)
  BY <1>5 DEF Side
<1>7. QueueCallsInv'
  BY <1>2, <1>3, <1>4, <1>5, <1>6 DEF QueueCallsInv
<1>8. \A l \in QueueLists : Released(Side(l))' = Released(Side(l))
  BY <1>3, <1>6 DEF Released
<1>9. \A l \in QueueLists : Covered(l)'
  BY <1>2, <1>3, <1>4, <1>8 DEF Covered, Due
<1> QED
  BY <1>3, <1>4, <1>5, <1>7, <1>9 DEF QueueIInv, FifoStep

(* Every step keeps the invariant, and is a step of the FIFO or none. *)
LEMMA QueueStepInv ==
    ASSUME QueueIInv, [QueueNext]_vars
    PROVE  QueueIInv' /\ FifoStep
<1>1. CASE UNCHANGED vars
  <2>1. /\ kern' = kern /\ pend' = pend /\ switching' = switching /\ systick' = systick /\ pc' = pc
        /\ queue' = queue /\ calling' = calling /\ got' = got
    BY <1>1 DEF vars, schedVars, queueVars
  <2>2. CoreInv(QueueLocs)' /\ PreemptInv(QueueLocs, {0})' /\ QueueCallsInv'
    BY <2>1 DEF QueueIInv, CoreInv, PreemptInv, SwitchComing, QueueCallsInv
  <2>3. \A l : Released(Side(l))' = Released(Side(l))
    BY <2>1 DEF Released
  <2>4. \A l \in QueueLists : Covered(l)'
    BY <2>1, <2>3 DEF QueueIInv, Covered, Due
  <2> QED
    BY <2>1, <2>2, <2>4 DEF QueueIInv, FifoStep
<1>2. ASSUME SysTick \/ PendSVEnter \/ PendSVSwitch, UNCHANGED queueVars
      PROVE  QueueIInv' /\ FifoStep
  BY <1>2, QueueExceptionInv
<1>3. ASSUME NEW t \in Slots, (Switch(t) /\ UNCHANGED queueVars) \/ QueueSwitch(t)
      PROVE  QueueIInv' /\ FifoStep
  <2>1. UNCHANGED queueVars
    BY <1>3 DEF QueueSwitch
  <2> QED
    BY <2>1, <1>3, QueueSwitchInv
<1>4. ASSUME NEW t \in Slots, EnqueueWoken(t) \/ DequeueWoken(t) PROVE QueueIInv' /\ FifoStep
  BY <1>4, WokenInv
<1>5. ASSUME NEW t \in Slots, NEW n \in Timeouts,
             artos_queue_dequeue(t, n) \/ \E d \in Items : artos_queue_enqueue(t, d, n)
      PROVE  QueueIInv' /\ FifoStep
  BY <1>5, QueueCallsStep
<1>6. ASSUME artos_queue_dequeue_from_isr \/ \E d \in Items : artos_queue_enqueue_from_isr(d)
      PROVE  QueueIInv' /\ FifoStep
  BY <1>6, QueueIsrInv
<1> QED
  BY <1>1, <1>2, <1>3, <1>4, <1>5, <1>6 DEF QueueNext

(* The invariant holds in every reachable state. *)
THEOREM QueueInvariance == QueueSpec => []QueueIInv
<1>1. QueueInit => QueueIInv
  BY QueueInitInv
<1>2. QueueIInv /\ [QueueNext]_vars => QueueIInv'
  BY QueueStepInv
<1> QED
  BY <1>1, <1>2, PTL DEF QueueSpec

(* The queue's count and indices stay in range and agree with each other,  *)
(* so that rtos_queue_assert_valid never fails.                            *)
THEOREM QueueTypeCorrect == QueueSpec => []QueueTypeOK
<1>1. QueueIInv => QueueTypeOK
  BY QueueFacts, RingFields DEF QueueIInv, CoreInv, KInv, Ring, QueueTypeOK
<1> QED
  BY <1>1, QueueInvariance, PTL

(* While a task waits for an item or a slot, every one there is is due to  *)
(* a task that was released for it and has not run yet.                    *)
THEOREM NoWakeupLost == QueueSpec => []NoLostWakeup
<1>1. QueueIInv => NoLostWakeup
  <2> SUFFICES ASSUME QueueIInv PROVE NoLostWakeup
    OBVIOUS
  <2>1. /\ Covered(read_list) /\ Covered(write_list) /\ read_list # write_list
        /\ Side(read_list) = ReceiveLocs /\ Side(write_list) = SendLocs
    BY QueueFacts DEF QueueIInv
  <2> QED
    BY <2>1 DEF NoLostWakeup, Covered, Due, ReceiveLocs, SendLocs
<1> QED
  BY <1>1, QueueInvariance, PTL

(* A call that blocked goes on because it was released or timed out, and   *)
(* one without a limit only because it was released.                       *)
THEOREM QueueReturnsForAReason == QueueSpec => []QueueCallHasReason
<1>1. QueueIInv => QueueCallHasReason
  <2> SUFFICES ASSUME QueueIInv, NEW t \in Slots, Executes(t),
                      pc[t] \in {"enqueue_woken", "dequeue_woken"}
               PROVE  /\ kern.reason[t] # "WAIT_NO_REASON"
                      /\ calling[t].infinity => kern.reason[t] = "WAIT_SIGNALED"
    BY DEF QueueCallHasReason
  <2>1. CoreInv(QueueLocs) /\ pc[t] \notin QueueLocs /\ QueueCallsInv
    BY DEF QueueIInv, QueueLocs
  <2>2. kern.event_c[t] = NULL
    BY <2>1, RunningTask
  <2>3. PICK l \in QueueLists : pc[t] \in Side(l)
    BY QueueFacts DEF SendLocs, ReceiveLocs
  <2> QED
    BY <2>1, <2>2, <2>3 DEF QueueCallsInv, InCall
<1> QED
  BY <1>1, QueueInvariance, PTL

(* A task released by a transfer preempts a running task of lower          *)
(* priority, whoever made the transfer.                                    *)
THEOREM TransferPreempts == QueueSpec => []HighestPriorityRuns
<1>1. QueueIInv => HighestPriorityRuns
  <2> SUFFICES ASSUME QueueIInv, Settled, kern.cur \in Slots, pc[kern.cur] = "app",
                      NEW p \in kern.bitmap
               PROVE  p <= kern.eff[kern.cur]
    BY DEF HighestPriorityRuns
  <2>1. Executes(kern.cur) /\ pc[kern.cur] \notin QueueLocs
    BY DEF QueueIInv, CoreInv, KInv, Settled, Executes, QueueLocs
  <2> QED
    BY <2>1, RunningHighest DEF QueueIInv
<1> QED
  BY <1>1, QueueInvariance, PTL

(* The ring buffer implements a bounded FIFO: no blocked sender, receiver, *)
(* interrupt or timeout loses, doubles or reorders an item.                *)
THEOREM ImplementsFifo == QueueSpec => IsFifo
<1>1. Contents = ContentsOf(queue, Capacity) /\ Contents' = ContentsOf(queue', Capacity)
  BY DEF Contents, ContentsOf, Window
<1>2. QueueInit => AbstractQueue!Init
  BY <1>1, QueueInitInv DEF AbstractQueue!Init, QueueInit
<1>3. QueueIInv /\ [QueueNext]_vars => [AbstractQueue!Next]_<<Contents, got>>
  <2> SUFFICES ASSUME QueueIInv, [QueueNext]_vars
               PROVE  [AbstractQueue!Next]_<<Contents, got>>
    OBVIOUS
  <2>1. FifoStep
    BY QueueStepInv
  <2> QED
    BY <1>1, <2>1 DEF FifoStep, AbstractQueue!Next, AbstractQueue!Put, AbstractQueue!Get
<1> QED
  BY <1>2, <1>3, QueueInvariance, PTL DEF QueueSpec, IsFifo, AbstractQueue!Spec

(* The distance to a wake tick is the timeout it was computed from. *)
LEMMA TimeToWake ==
    ASSUME NEW now \in Ticks, NEW n \in Ticks
    PROVE  (((n + now) % TickMod) - now) % TickMod = n
<1>1. TickMod \in Nat /\ TickMod > 2 /\ now \in 0 .. TickMod - 1 /\ n \in 0 .. TickMod - 1
  BY KernelFacts DEF Ticks
<1>2. (n + now) % TickMod = IF n + now < TickMod THEN n + now ELSE n + now - TickMod
  BY <1>1
<1>3. CASE n + now < TickMod
  BY <1>1, <1>2, <1>3
<1>4. CASE ~(n + now < TickMod)
  <2>1. ((n + now) % TickMod) - now = TickMod * (-1) + n
    BY <1>1, <1>2, <1>4
  <2>2. (TickMod * (-1) + n) % TickMod = n
    BY <1>1
  <2> QED
    BY <2>1, <2>2
<1> QED
  BY <1>3, <1>4

(* With timeouts below half the range of the tick counter, and the one     *)
(* that means for ever, a call never returns false without waiting.        *)
THEOREM TimeoutsAreWaited ==
    ASSUME \A n \in Timeouts : n < HalfRange \/ n = ARTOS_DELAY_INFINITY
    PROVE  QueueSpec => []TimeoutIsWaited
<1>1. QueueInit => TimeoutIsWaited
  BY DEF QueueInit, TimeoutIsWaited
<1>2. QueueIInv /\ TimeoutIsWaited /\ [QueueNext]_vars => TimeoutIsWaited'
  <2> SUFFICES ASSUME QueueIInv, TimeoutIsWaited, [QueueNext]_vars PROVE TimeoutIsWaited'
    OBVIOUS
  <2>1. kern.ticks \in Ticks
    BY DEF QueueIInv, CoreInv, KInv, KernelType
  <2>2. ASSUME NEW n \in Timeouts, NEW d, n # 0 PROVE ~Expired(kern, Call(d, n))
    <3>1. CASE n = ARTOS_DELAY_INFINITY
      BY <3>1 DEF Expired, Call
    <3>2. CASE n # ARTOS_DELAY_INFINITY
      <4>1. n \in Ticks /\ n < HalfRange
        BY <3>2, QueueFacts
      <4>2. Call(d, n).wake_tick = (n + kern.ticks) % TickMod
        BY <3>2 DEF Call
      <4>3. (Call(d, n).wake_tick - kern.ticks) % TickMod = n
        BY <2>1, <4>1, <4>2, TimeToWake
      <4>4. ~(n = 0 \/ n >= HalfRange)
        BY <4>1, <2>2, KernelFacts DEF Ticks, HalfRange
      <4> QED
        BY <4>3, <4>4 DEF Expired
    <3> QED
      BY <3>1, <3>2
  <2>3. ASSUME NEW t \in Slots, NEW n \in Timeouts,
               artos_queue_dequeue(t, n) \/ \E d \in Items : artos_queue_enqueue(t, d, n)
        PROVE  ~gaveup'
    BY <2>2, <2>3 DEF artos_queue_dequeue, artos_queue_enqueue, TimeoutIsWaited
  <2>4. CASE UNCHANGED gaveup
    BY <2>4 DEF TimeoutIsWaited
  <2>5. \/ UNCHANGED gaveup
        \/ \E t \in Slots, n \in Timeouts :
              artos_queue_dequeue(t, n) \/ \E d \in Items : artos_queue_enqueue(t, d, n)
    BY DEF QueueNext, QueueSwitch, EnqueueWoken, DequeueWoken, queueVars, vars,
       artos_queue_enqueue_from_isr, artos_queue_dequeue_from_isr
  <2> QED
    BY <2>3, <2>4, <2>5 DEF TimeoutIsWaited
<1> QED
  BY <1>1, <1>2, QueueInvariance, PTL DEF QueueSpec
=============================================================================
