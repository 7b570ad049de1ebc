---------------------------- MODULE MutexProofs ----------------------------
(***************************************************************************)
(* The safety properties of module Mutex, for any numbers of tasks,        *)
(* priorities and mutexes, any limit of the mutex count and any timeouts.  *)
(*                                                                         *)
(* A mutex that is unlocked changes priorities, wait lists, counts and its *)
(* owner in one critical section, so the properties hold together or not   *)
(* at all: a priority is given back when the count says that no mutex is   *)
(* left, the count is right because a waiter is below the limit, and the   *)
(* handoff reaches a task that waits for this mutex and is not its owner.  *)
(*                                                                         *)
(* The last part is about module System, in which tasks use mutexes and    *)
(* semaphores.                                                             *)
(***************************************************************************)
EXTENDS System, SemaphoreProofs

MutexTypeOK ==
    /\ pc \in [Threads -> Places]
    /\ owner \in [Mutexes -> Slots \cup {NULL}]
    /\ locking \in [Slots -> [mutex : Mutexes \cup {NULL}, infinite : BOOLEAN]]
    /\ inside \in [Slots -> SUBSET Mutexes]

Owned(t) == {m \in Mutexes : owner[m] = t}

(* A task in such a lock waits for a mutex that another task owns, or was  *)
(* handed it, or timed out; who waits can be counted as an owner later.    *)
InLock(t, m, infinite) ==
    /\ m \in Mutexes /\ t \in kern.created
    /\ InCall(kern, t, m, infinite)
    /\ kern.event_c[t] # NULL => owner[m] \notin {NULL, t} /\ kern.held[t] < MaxHeld
    /\ kern.event_c[t] = NULL /\ kern.reason[t] = "WAIT_SIGNALED" => owner[m] = t

LocksInv ==
    \A t \in Slots :
        /\ pc[t] \in LockLocs => InLock(t, locking[t].mutex, locking[t].infinite)
        /\ pc[t] \notin LockLocs => kern.event_c[t] \notin Mutexes

OwnersInv ==
    /\ \A m \in Mutexes : owner[m] # NULL => owner[m] \in kern.created
    /\ \A t \in Slots : \A m \in inside[t] : owner[m] = t

HeldInv ==
    \A t \in Slots : IsFiniteSet(Owned(t)) /\ kern.held[t] = Cardinality(Owned(t))

DonorsInv ==
    \A m \in Mutexes : \A t \in Slots :
        kern.event_c[t] = m => kern.eff[owner[m]] >= kern.priority[t]

MutexIInv ==
    /\ CoreInv(SwitchLocs)
    /\ kern.cur # NULL
    /\ MutexTypeOK
    /\ LocksInv
    /\ OwnersInv
    /\ HeldInv
    /\ BoostEndsWithLastUnlock
    /\ DonorsInv

(* The constants, and what is known of the fields of the kernel. *)
LEMMA MutexFacts ==
    /\ Mutexes \subseteq WaitLists
    /\ NULL \notin Mutexes /\ NULL \notin Slots
    /\ LockTimeouts \subseteq Ticks /\ Delays \subseteq Ticks
    /\ \A p \in Priorities : p \in Int
BY MutexAssumption, KernelFacts DEF Priorities

LEMMA KernelFields ==
    ASSUME NEW k, KInv(k)
    PROVE  /\ k.eff \in [Tasks -> Priorities] /\ k.priority \in [Tasks -> Priorities]
           /\ k.held \in [Tasks -> 0 .. MaxHeld] /\ MaxHeld \in Nat
           /\ k.reason \in [Tasks -> WaitReasons]
           /\ k.event_c \in [Slots -> WaitLists \cup {NULL}]
           /\ Slots \subseteq Tasks /\ k.created \subseteq Slots
           /\ \A t \in Slots : k.eff[t] \in Int /\ k.priority[t] \in Int /\ k.held[t] \in Int
<1>1. k \in KernelType /\ MaxHeld \in Nat /\ Slots \subseteq Tasks
  BY KernelFacts DEF KInv, Tasks
<1>2. /\ k.eff \in [Tasks -> Priorities] /\ k.priority \in [Tasks -> Priorities]
      /\ k.held \in [Tasks -> 0 .. MaxHeld] /\ k.reason \in [Tasks -> WaitReasons]
      /\ k.event_c \in [Slots -> WaitLists \cup {NULL}] /\ k.created \subseteq Slots
  BY <1>1 DEF KernelType
<1>3. \A t \in Slots : k.held[t] \in Int
  BY <1>1, <1>2
<1> QED
  BY <1>1, <1>2, <1>3, MutexFacts

(* The priority asked of the owner o of m: not below its own, nor below    *)
(* that of any task that waits for m.                                      *)
LEMMA RequiredPriority ==
    ASSUME NEW k, KInv(k), NEW o \in Slots, NEW m \in Mutexes,
           NEW p, p = rtos_mutex_required_priority(k, o, m)
    PROVE  /\ p \in Priorities /\ p >= k.priority[o]
           /\ \A u \in Slots : k.event_c[u] = m => p >= k.eff[u]
<1>1. /\ m \in WaitLists /\ o # NULL /\ k.priority[o] \in Priorities
      /\ \A u \in Slots : k.eff[u] \in Priorities /\ k.eff[u] \in Int
      /\ \A q \in Priorities : q \in Int
  BY KernelFields, MutexFacts
<1>2. CASE k.event_l[m] = <<>>
  <2>1. p = Max({k.priority[o]} \cup {})
    BY <1>1, <1>2 DEF rtos_mutex_required_priority
  <2>2. {k.priority[o]} \cup {} = {k.priority[o], k.priority[o]}
    OBVIOUS
  <2>3. p \in Priorities /\ p >= k.priority[o]
    BY <2>1, <2>2, <1>1, MaxOfTwo
  <2>4. \A u \in Slots : k.event_c[u] # m
    BY <1>1, <1>2, EmptyWaitList
  <2> QED
    BY <2>3, <2>4
<1>3. CASE k.event_l[m] # <<>>
  <2> DEFINE h == Head(k.event_l[m])
  <2>1. p = Max({k.priority[o]} \cup {k.eff[h]})
    BY <1>1, <1>3 DEF rtos_mutex_required_priority
  <2>2. h \in Slots
    BY <1>1, <1>3, FirstWaiter
  <2>3. ASSUME NEW u \in Slots, k.event_c[u] = m PROVE k.eff[h] >= k.eff[u]
    BY <2>3, <1>1, TopWaiter
  <2> HIDE DEF h
  <2>4. {k.priority[o]} \cup {k.eff[h]} = {k.priority[o], k.eff[h]} /\ k.eff[h] \in Priorities
    BY <2>2, <1>1
  <2>5. p \in Priorities /\ p >= k.priority[o] /\ p >= k.eff[h]
    <3>1. k.priority[o] \in Priorities /\ k.eff[h] \in Priorities
      BY <2>4, <1>1
    <3>2. p = Max({k.priority[o], k.eff[h]})
      BY <2>1, <2>4
    <3> QED
      BY <3>1, <3>2, MaxOfTwo
  <2> QED
    BY <2>2, <2>3, <2>5, <1>1
<1> QED
  BY <1>2, <1>3

(* The owner inherits: its priority does not fall, and is then not below   *)
(* that of any task that waits for m.                                      *)
LEMMA InheritEffect ==
    ASSUME NEW k, KInv(k), NEW o \in Slots, NEW m \in Mutexes, k.eff[o] >= k.priority[o],
           NEW r, r = Inherit(k, o, m)
    PROVE  \E new \in Priorities :
              /\ Reprioritised(r, k, o, new) /\ new >= k.eff[o]
              /\ \A u \in Slots : k.event_c[u] = m => new >= k.eff[u]
<1> DEFINE p == rtos_mutex_required_priority(k, o, m)
<1>1. /\ p \in Priorities /\ p >= k.priority[o]
      /\ \A u \in Slots : k.event_c[u] = m => p >= k.eff[u]
  BY RequiredPriority
<1>2. r = IF k.eff[o] >= p THEN k ELSE rtos_set_effective_priority(k, o, p)
  BY DEF Inherit, rtos_priority_inherit
<1> HIDE DEF p
<1>3. p \in Int /\ \A u \in Slots : k.eff[u] \in Int
  BY <1>1, KernelFields, MutexFacts
<1>4. CASE k.eff[o] >= p
  <2>1. k.eff[o] \in Priorities /\ Reprioritised(r, k, o, k.eff[o])
    BY <1>2, <1>4, SamePriority
  <2>2. k.eff[o] >= k.eff[o] /\ \A u \in Slots : k.event_c[u] = m => k.eff[o] >= k.eff[u]
    BY <1>1, <1>3, <1>4
  <2> QED
    BY <2>1, <2>2
<1>5. CASE ~(k.eff[o] >= p)
  <2>1. Reprioritised(r, k, o, p)
    BY <1>1, <1>2, <1>5, SetPriorityEffect
  <2>2. p >= k.eff[o]
    BY <1>3, <1>5
  <2> QED
    BY <2>1, <2>2, <1>1
<1> QED
  BY <1>4, <1>5

(* After a timeout the owner's priority may fall, but only when the mutex  *)
(* is the one it owns, and not below that of a task that still waits.      *)
LEMMA DisinheritEffect ==
    ASSUME NEW k, KInv(k), NEW o \in Slots, NEW m \in Mutexes, k.eff[o] >= k.priority[o],
           NEW r, r = rtos_priority_disinherit_after_timeout(k, o,
                          rtos_mutex_required_priority(k, o, m))
    PROVE  \E new \in Priorities :
              /\ Reprioritised(r, k, o, new) /\ new >= k.priority[o]
              /\ \/ new = k.eff[o]
                 \/ /\ k.held[o] = 1
                    /\ \A u \in Slots : k.event_c[u] = m => new >= k.eff[u]
<1> DEFINE p == rtos_mutex_required_priority(k, o, m)
           n == Max({p, k.priority[o]})
<1>1. /\ p \in Priorities /\ p >= k.priority[o]
      /\ \A u \in Slots : k.event_c[u] = m => p >= k.eff[u]
  BY RequiredPriority
<1>2. r = IF o # NULL /\ k.held[o] = 1 /\ n < k.eff[o]
          THEN rtos_set_effective_priority(k, o, n) ELSE k
  BY DEF rtos_priority_disinherit_after_timeout
<1> HIDE DEF p
<1>3. p \in Int /\ k.priority[o] \in Priorities /\ \A u \in Slots : k.eff[u] \in Int
  BY <1>1, KernelFields, MutexFacts
<1>4. n \in Priorities /\ n >= p /\ n >= k.priority[o]
  <2>1. p \in Priorities /\ k.priority[o] \in Priorities
    BY <1>1, <1>3
  <2> HIDE DEF n
  <2>2. n = Max({p, k.priority[o]})
    BY DEF n
  <2> QED
    BY <2>1, <2>2, MaxOfTwo
<1> HIDE DEF n
<1>5. n \in Int
  BY <1>4, MutexFacts
<1>6. CASE k.held[o] = 1 /\ n < k.eff[o]
  <2>1. r = rtos_set_effective_priority(k, o, n)
    BY <1>2, <1>6, MutexFacts
  <2>2. Reprioritised(r, k, o, n)
    BY <2>1, <1>4, SetPriorityEffect
  <2>3. \A u \in Slots : k.event_c[u] = m => n >= k.eff[u]
    BY <1>1, <1>3, <1>4, <1>5
  <2> QED
    BY <2>2, <2>3, <1>4, <1>6
<1>7. CASE ~(k.held[o] = 1 /\ n < k.eff[o])
  <2>1. r = k
    BY <1>2, <1>7
  <2>2. k.eff[o] \in Priorities /\ Reprioritised(r, k, o, k.eff[o])
    BY <2>1, SamePriority
  <2> QED
    BY <2>2
<1> QED
  BY <1>6, <1>7

-----------------------------------------------------------------------------
(* The started kernel, with no mutex owned. *)
LEMMA MutexInitInv == MutexInit => MutexIInv
<1> SUFFICES ASSUME MutexInit PROVE MutexIInv
  OBVIOUS
<1>1. PICK prios \in TaskSets : StartedWith(prios)
  BY DEF MutexInit, Started
<1>2. prios \in Seq(Priorities) /\ Len(prios) \in 1 .. MaxTasks
  BY TaskSetsAssumption
<1>3. kern = rtos_scheduler_start(TasksCreated(prios))
  BY <1>1 DEF StartedWith
<1>4. /\ KInv(kern) /\ DelayInv(kern, FALSE) /\ Fresh(kern)
      /\ kern.cur \in Slots /\ kern.state_c[kern.cur] = NULL
  BY <1>2, <1>3, StartedState
<1>5. /\ pend = FALSE /\ switching = FALSE /\ systick = "idle"
      /\ pc = [t \in Threads |-> "app"]
      /\ owner = [m \in Mutexes |-> NULL]
      /\ locking = [t \in Slots |-> NotLocking]
      /\ inside = [t \in Slots |-> {}]
  BY <1>1 DEF MutexInit, StartedWith
<1>6. kern.cur # NULL /\ kern.cur # IDLE
  BY <1>4, KernelFacts
<1>7. CoreInv(SwitchLocs)
  BY <1>4, <1>5, <1>6 DEF CoreInv
<1>8. MutexTypeOK
  <2>1. NotLocking \in [mutex : Mutexes \cup {NULL}, infinite : BOOLEAN]
    BY DEF NotLocking
  <2> QED
    BY <2>1, <1>5 DEF MutexTypeOK, Places
<1>9. /\ \A t \in Slots : pc[t] = "app" /\ kern.event_c[t] = NULL /\ inside[t] = {}
      /\ \A m \in Mutexes : owner[m] = NULL
  BY <1>4, <1>5 DEF Threads, Fresh
<1>10. LocksInv /\ OwnersInv
  BY <1>9, MutexFacts DEF LocksInv, LockLocs, OwnersInv
<1>11. HeldInv
  <2>1. \A t \in Slots : Owned(t) = {}
    BY <1>9, MutexFacts DEF Owned
  <2>2. \A t \in Slots : IsFiniteSet(Owned(t)) /\ Cardinality(Owned(t)) = 0
    BY <2>1, FS_EmptySet
  <2> QED
    BY <2>2, <1>4 DEF HeldInv, Fresh
<1>12. BoostEndsWithLastUnlock
  BY <1>4, KernelFields DEF BoostEndsWithLastUnlock, Fresh
<1>13. DonorsInv
  BY <1>9, MutexFacts DEF DonorsInv
<1> QED
  BY <1>6, <1>7, <1>8, <1>10, <1>11, <1>12, <1>13 DEF MutexIInv

(* A step in which nobody starts, ends or is handed a lock: it may create  *)
(* tasks, and let waiting tasks time out.                                  *)
LEMMA NoLockStep ==
    ASSUME MutexIInv, KInv(kern'), UNCHANGED mutexVars,
           kern.created \subseteq kern'.created,
           \A u \in Slots : pc'[u] \in LockLocs <=> pc[u] \in LockLocs,
           \A u \in Slots : /\ \/ kern'.event_c[u] = kern.event_c[u]
                               \/ kern'.event_c[u] \notin Mutexes
                            /\ kern'.held[u] = kern.held[u],
           \A u \in Slots : \/ /\ kern'.eff[u] = kern.eff[u]
                               /\ kern'.priority[u] = kern.priority[u]
                            \/ u \notin kern.created /\ kern'.eff[u] = kern'.priority[u],
           \A u \in kern.created : pc[u] \in LockLocs =>
               /\ \A w, i : InCall(kern, u, w, i) => InCall(kern', u, w, i)
               /\ kern'.event_c[u] = NULL /\ kern'.reason[u] = "WAIT_SIGNALED" =>
                     kern.event_c[u] = NULL /\ kern.reason[u] = "WAIT_SIGNALED"
    PROVE  LocksInv' /\ OwnersInv' /\ HeldInv' /\ BoostEndsWithLastUnlock' /\ DonorsInv'
<1>1. /\ KInv(kern) /\ MutexTypeOK /\ LocksInv /\ OwnersInv /\ HeldInv
      /\ BoostEndsWithLastUnlock /\ DonorsInv
  BY DEF MutexIInv, CoreInv
<1>2. owner' = owner /\ locking' = locking /\ inside' = inside
  BY DEF mutexVars
<1>3. LocksInv'
  <2> SUFFICES ASSUME NEW u \in Slots
               PROVE  /\ pc'[u] \in LockLocs => InLock(u, locking[u].mutex, locking[u].infinite)'
                      /\ pc'[u] \notin LockLocs => kern'.event_c[u] \notin Mutexes
    BY <1>2 DEF LocksInv
  <2>1. CASE pc[u] \in LockLocs
    <3>1. InLock(u, locking[u].mutex, locking[u].infinite)
      BY <2>1, <1>1 DEF LocksInv
    <3>2. u \in kern.created
      BY <3>1 DEF InLock
    <3>3. /\ InCall(kern', u, locking[u].mutex, locking[u].infinite)
          /\ u \in kern'.created
      BY <2>1, <3>1, <3>2 DEF InLock
    <3>4. kern'.event_c[u] # NULL => kern.event_c[u] = kern'.event_c[u]
      BY <3>1, <3>3 DEF InLock, InCall
    <3>5. InLock(u, locking[u].mutex, locking[u].infinite)'
      BY <2>1, <3>1, <3>2, <3>3, <3>4, <1>2 DEF InLock
    <3> QED
      BY <2>1, <3>5
  <2>2. CASE pc[u] \notin LockLocs
    BY <2>2, <1>1 DEF LocksInv
  <2> QED
    BY <2>1, <2>2
<1>4. OwnersInv'
  BY <1>1, <1>2 DEF OwnersInv
<1>5. HeldInv'
  <2>1. \A u : Owned(u)' = Owned(u)
    BY <1>2 DEF Owned
  <2> QED
    BY <2>1, <1>1 DEF HeldInv
<1>6. BoostEndsWithLastUnlock'
  <2>1. \A u \in Slots : kern'.priority[u] \in Int
    BY KernelFields
  <2> QED
    BY <2>1, <1>1 DEF BoostEndsWithLastUnlock
<1>7. DonorsInv'
  <2> SUFFICES ASSUME NEW m \in Mutexes, NEW u \in Slots, kern'.event_c[u] = m
               PROVE  kern'.eff[owner[m]] >= kern'.priority[u]
    BY <1>2 DEF DonorsInv
  <2>1. kern.event_c[u] = m /\ m # NULL
    BY MutexFacts
  <2>2. InLock(u, locking[u].mutex, locking[u].infinite)
    BY <2>1, <1>1 DEF LocksInv
  <2>3. u \in kern.created /\ owner[m] # NULL
    BY <2>1, <2>2 DEF InLock, InCall
  <2>4. owner[m] \in kern.created /\ owner[m] \in Slots
    BY <2>3, <1>1 DEF OwnersInv, MutexTypeOK
  <2>5. kern'.eff[owner[m]] = kern.eff[owner[m]] /\ kern'.priority[u] = kern.priority[u]
    BY <2>3, <2>4
  <2> QED
    BY <2>1, <2>5, <1>1 DEF DonorsInv
<1> QED
  BY <1>3, <1>4, <1>5, <1>6, <1>7

(* The exceptions: a task whose lock timed out owns no mutex more. *)
LEMMA MutexExceptionInv ==
    ASSUME MutexIInv, SysTick \/ PendSVEnter \/ PendSVSwitch, UNCHANGED mutexVars
    PROVE  MutexIInv'
<1>1. CoreInv(SwitchLocs) /\ KInv(kern) /\ MutexTypeOK
  BY DEF MutexIInv, CoreInv
<1>2. CoreInv(SwitchLocs)' /\ WaitStep /\ pc' = pc /\ kern'.cur # NULL
  BY <1>1, ExceptionStep DEF Exceptions
<1>3. KInv(kern')
  BY <1>2 DEF CoreInv
<1>4. MutexTypeOK'
  BY <1>1, <1>2 DEF MutexTypeOK, mutexVars
<1>5. LocksInv' /\ OwnersInv' /\ HeldInv' /\ BoostEndsWithLastUnlock' /\ DonorsInv'
  <2>1. CASE SameWaits(kern', kern)
    <3>1. /\ kern'.event_c = kern.event_c /\ kern'.reason = kern.reason
          /\ kern'.held = kern.held /\ kern'.eff = kern.eff /\ kern'.priority = kern.priority
          /\ kern'.created = kern.created
      BY <2>1 DEF SameWaits
    <3>2. \A u \in Slots : \A w, i : InCall(kern, u, w, i) => InCall(kern', u, w, i)
      BY <2>1, <1>1, CallKept
    <3>3. kern.created \subseteq Slots
      BY <1>1, KernelFields
    <3> QED
      BY <3>1, <3>2, <3>3, <1>2, <1>3, NoLockStep
  <2>2. ASSUME NEW v \in Slots, TimedOut(v)
        PROVE  LocksInv' /\ OwnersInv' /\ HeldInv' /\ BoostEndsWithLastUnlock' /\ DonorsInv'
    <3>1. /\ Blocked(kern, v) /\ kern.state_c[v] \in DelayLists
          /\ Unblocked(kern', kern, v, "WAIT_TIMED_OUT")
      BY <2>2 DEF TimedOut, Blocked
    <3>2. /\ kern'.event_c = [kern.event_c EXCEPT ![v] = NULL]
          /\ kern'.reason = [kern.reason EXCEPT ![v] = "WAIT_TIMED_OUT"]
          /\ kern'.held = kern.held /\ kern'.eff = kern.eff /\ kern'.priority = kern.priority
          /\ kern'.created = kern.created
      BY <3>1 DEF Unblocked, SameScalars
    <3>3. /\ kern.event_c \in [Slots -> WaitLists \cup {NULL}]
          /\ kern.reason \in [Tasks -> WaitReasons] /\ Slots \subseteq Tasks
          /\ kern.created \subseteq Slots
      BY <1>1, KernelFields
    <3>4. /\ kern'.reason[v] = "WAIT_TIMED_OUT"
          /\ \A u \in Slots : /\ kern'.event_c[u] \in {kern.event_c[u], NULL}
                              /\ u # v => /\ kern'.event_c[u] = kern.event_c[u]
                                          /\ kern'.reason[u] = kern.reason[u]
      BY <3>2, <3>3
    <3>5. \A u \in Slots : \A w, i : InCall(kern, u, w, i) => InCall(kern', u, w, i)
      BY <3>1, <1>1, CallUnblocked
    <3>6. \A u \in kern.created :
             kern'.event_c[u] = NULL /\ kern'.reason[u] = "WAIT_SIGNALED" =>
                 kern.event_c[u] = NULL /\ kern.reason[u] = "WAIT_SIGNALED"
      BY <3>3, <3>4
    <3> QED
      BY <3>2, <3>3, <3>4, <3>5, <3>6, <1>2, <1>3, MutexFacts, NoLockStep
  <2> QED
    BY <2>1, <2>2, <1>2 DEF WaitStep
<1> QED
  BY <1>2, <1>4, <1>5 DEF MutexIInv

(* The requests for a context switch. *)
LEMMA MutexSwitchInv ==
    ASSUME MutexIInv, NEW t \in Slots, Switch(t) \/ LockSwitch(t), UNCHANGED mutexVars
    PROVE  MutexIInv' /\ LeavesOthers(TakeLocs, Mutexes)
<1>1. PICK loc, next : /\ rtos_port_request_context_switch(t, loc, next)
                       /\ \/ loc = "switch" /\ next = "app"
                          \/ loc = "lock_switch" /\ next = "lock_woken"
  BY DEF Switch, LockSwitch
<1>2. CoreInv(SwitchLocs) /\ KInv(kern) /\ MutexTypeOK /\ kern.cur # NULL
  BY DEF MutexIInv, CoreInv
<1>3. /\ CoreInv(SwitchLocs)' /\ kern' = kern
      /\ pc[t] = loc /\ pc' = [pc EXCEPT ![t] = next]
  BY <1>1, <1>2, RequestCore
<1>4. /\ pc' \in [Threads -> Places]
      /\ \A u \in Slots : pc'[u] \in LockLocs <=> pc[u] \in LockLocs
  BY <1>1, <1>2, <1>3 DEF MutexTypeOK, Places, LockLocs, Threads
<1>5. MutexTypeOK'
  BY <1>2, <1>4 DEF MutexTypeOK, mutexVars
<1>6. LocksInv' /\ OwnersInv' /\ HeldInv' /\ BoostEndsWithLastUnlock' /\ DonorsInv'
  BY <1>2, <1>3, <1>4, NoLockStep
<1>7. LeavesOthers(TakeLocs, Mutexes)
  <2>1. pc[t] \notin TakeLocs /\ next \notin TakeLocs
    BY <1>1, <1>3 DEF TakeLocs
  <2> QED
    BY <2>1, <1>2, <1>3, OnlyMoves DEF MutexTypeOK
<1> QED
  BY <1>2, <1>3, <1>5, <1>6, <1>7 DEF MutexIInv

(* A running task that is not in a lock leaves its place for another one   *)
(* outside a lock.                                                         *)
LEMMA OutsideLocks ==
    ASSUME MutexIInv, NEW t \in Slots, pc[t] \notin LockLocs,
           NEW next \in {"app", "create", "switch"}, pc' = [pc EXCEPT ![t] = next]
    PROVE  /\ pc' \in [Threads -> Places]
           /\ pc'[t] = next
           /\ \A u \in Slots : u # t => pc'[u] = pc[u]
           /\ \A u \in Slots : pc'[u] \in LockLocs <=> pc[u] \in LockLocs
<1>1. pc \in [Threads -> Places] /\ t \in Threads
      /\ Slots \subseteq Threads
  BY DEF MutexIInv, MutexTypeOK, Threads
<1>2. /\ pc' \in [Threads -> Places]
      /\ pc'[t] = next
      /\ \A u \in Slots : u # t => pc'[u] = pc[u]
  BY <1>1 DEF Places
<1>3. next \notin LockLocs
  BY DEF LockLocs
<1> QED
  BY <1>2, <1>3

LEMMA MutexCreateCheckInv ==
    ASSUME MutexIInv, NEW t \in Slots, CreateCheck(t), UNCHANGED mutexVars
    PROVE  MutexIInv'
<1>1. /\ Executes(t) /\ pc[t] = "app" /\ pc' = [pc EXCEPT ![t] = "create"]
      /\ kern' = kern /\ pend' = pend /\ switching' = switching /\ systick' = systick
  BY DEF CreateCheck, At, GoTo
<1>2. CoreInv(SwitchLocs) /\ KInv(kern) /\ MutexTypeOK /\ kern.cur # NULL
  BY DEF MutexIInv, CoreInv
<1>3. pc[t] \notin LockLocs /\ pc[t] \notin SwitchLocs
  BY <1>1 DEF LockLocs, SwitchLocs
<1>4. /\ pc' \in [Threads -> Places]
      /\ \A u \in Slots : pc'[u] \in LockLocs <=> pc[u] \in LockLocs
  BY <1>1, <1>3, OutsideLocks
<1>5. KInv(kern) /\ DelayInv(kern, FALSE) /\ kern.cur = t /\ kern.state_c[t] = NULL
  BY <1>1, <1>2, <1>3, RunningTask
<1>6. CoreInv(SwitchLocs)'
  BY <1>1, <1>2, <1>5, ThreadStepCore
<1>7. LocksInv' /\ OwnersInv' /\ HeldInv' /\ BoostEndsWithLastUnlock' /\ DonorsInv'
  BY <1>1, <1>2, <1>4, NoLockStep
<1>8. MutexTypeOK'
  BY <1>2, <1>4 DEF MutexTypeOK, mutexVars
<1> QED
  BY <1>1, <1>2, <1>6, <1>7, <1>8 DEF MutexIInv

(* A new task owns nothing, and its slot was never an owner's. *)
LEMMA MutexCreateInsertInv ==
    ASSUME MutexIInv, NEW t \in Slots, NEW p \in Priorities, CreateInsert(t, p),
           UNCHANGED mutexVars
    PROVE  MutexIInv'
<1>1. /\ Executes(t) /\ pc[t] = "create"
      /\ pend' = pend /\ switching' = switching /\ systick' = systick
  BY DEF CreateInsert, At
<1>2. CoreInv(SwitchLocs) /\ KInv(kern) /\ MutexTypeOK /\ OwnersInv /\ HeldInv /\ kern.cur # NULL
  BY DEF MutexIInv, CoreInv
<1>3. pc[t] \notin LockLocs /\ pc[t] \notin SwitchLocs
  BY <1>1 DEF LockLocs, SwitchLocs
<1>4. PICK next \in {"app", "switch"} : pc' = [pc EXCEPT ![t] = next]
  BY DEF CreateInsert, GoTo
<1>5. /\ pc' \in [Threads -> Places]
      /\ \A u \in Slots : pc'[u] \in LockLocs <=> pc[u] \in LockLocs
  BY <1>3, <1>4, OutsideLocks
<1>6. KInv(kern) /\ DelayInv(kern, FALSE) /\ kern.cur = t /\ kern.state_c[t] = NULL
  BY <1>1, <1>2, <1>3, RunningTask
<1>7. CASE kern' = kern
  <2>1. CoreInv(SwitchLocs)'
    BY <1>1, <1>2, <1>6, <1>7, ThreadStepCore
  <2>2. LocksInv' /\ OwnersInv' /\ HeldInv' /\ BoostEndsWithLastUnlock' /\ DonorsInv'
    BY <1>2, <1>5, <1>7, NoLockStep
  <2>3. MutexTypeOK'
    BY <1>2, <1>5 DEF MutexTypeOK, mutexVars
  <2> QED
    BY <2>1, <2>2, <2>3, <1>2, <1>7 DEF MutexIInv
<1>8. CASE kern.created # Slots /\ kern' = artos_task_create(kern, p)
  <2> DEFINE x == kern.tsk_cnt
  <2>1. CreatedTask(kern', kern, p)
    BY <1>6, <1>8, CreateEffect
  <2>2. /\ KInv(kern') /\ DelayInv(kern', FALSE) /\ kern'.cur = t
        /\ kern'.event_c = kern.event_c
        /\ x \in Slots /\ x \notin kern.created /\ x # t /\ kern.event_c[x] = NULL
        /\ kern'.created = kern.created \cup {x}
        /\ kern'.priority = [kern.priority EXCEPT ![x] = p]
        /\ kern'.eff = [kern.eff EXCEPT ![x] = p]
        /\ kern'.held = [kern.held EXCEPT ![x] = 0]
        /\ kern'.reason = [kern.reason EXCEPT ![x] = "WAIT_NO_REASON"]
        /\ kern'.state_c = [kern.state_c EXCEPT ![x] = p]
    BY <2>1, <1>6 DEF CreatedTask
  <2> HIDE DEF x
  <2>3. /\ kern.eff \in [Tasks -> Priorities] /\ kern.priority \in [Tasks -> Priorities]
        /\ kern.held \in [Tasks -> 0 .. MaxHeld] /\ kern.reason \in [Tasks -> WaitReasons]
        /\ Slots \subseteq Tasks /\ kern.created \subseteq Slots
    BY <1>2, KernelFields
  <2>4. kern.state_c \in [Slots -> StateLists \cup {NULL}]
    BY <1>2 DEF KInv, KernelType
  <2>5. /\ kern'.eff[x] = kern'.priority[x] /\ kern'.held[x] = 0
        /\ \A u \in Slots : u # x =>
              /\ kern'.eff[u] = kern.eff[u] /\ kern'.priority[u] = kern.priority[u]
              /\ kern'.held[u] = kern.held[u] /\ kern'.reason[u] = kern.reason[u]
              /\ kern'.state_c[u] = kern.state_c[u]
    BY <2>2, <2>3, <2>4
  <2>6. kern.held[x] = 0
    <3>1. Owned(x) = {}
      BY <2>2, <1>2, MutexFacts DEF Owned, OwnersInv
    <3> QED
      BY <3>1, <2>2, <1>2, FS_EmptySet DEF HeldInv
  <2>7. \A u \in kern.created :
           /\ \A w, i : InCall(kern, u, w, i) => InCall(kern', u, w, i)
           /\ kern'.event_c[u] = NULL /\ kern'.reason[u] = "WAIT_SIGNALED" =>
                 kern.event_c[u] = NULL /\ kern.reason[u] = "WAIT_SIGNALED"
    BY <2>2, <2>3, <2>5 DEF InCall, Blocked
  <2>8. LocksInv' /\ OwnersInv' /\ HeldInv' /\ BoostEndsWithLastUnlock' /\ DonorsInv'
    <3>1. \A u \in Slots : /\ kern'.event_c[u] = kern.event_c[u]
                           /\ kern'.held[u] = kern.held[u]
      BY <2>2, <2>5, <2>6
    <3>2. \A u \in Slots : \/ /\ kern'.eff[u] = kern.eff[u]
                              /\ kern'.priority[u] = kern.priority[u]
                           \/ u \notin kern.created /\ kern'.eff[u] = kern'.priority[u]
      BY <2>2, <2>5
    <3>3. KInv(kern') /\ kern.created \subseteq kern'.created
      BY <2>2
    <3> QED
      BY <3>1, <3>2, <3>3, <2>7, <1>5, NoLockStep
  <2>9. CoreInv(SwitchLocs)'
    <3>1. kern'.state_c[t] = NULL
      BY <2>2, <2>5, <1>6
    <3> QED
      BY <3>1, <2>2, <1>1, <1>2, ThreadStepCore
  <2>10. MutexTypeOK'
    BY <1>2, <1>5 DEF MutexTypeOK, mutexVars
  <2> QED
    BY <2>2, <2>8, <2>9, <2>10, MutexFacts DEF MutexIInv
<1> QED
  BY <1>7, <1>8 DEF CreateInsert

(* artos_wait: the task that blocks waits for no mutex. *)
LEMMA MutexWaitInv ==
    ASSUME MutexIInv, NEW t \in Slots, NEW n \in Ticks, artos_wait(t, n), UNCHANGED mutexVars
    PROVE  MutexIInv' /\ LeavesOthers(TakeLocs, Mutexes)
<1>1. /\ Executes(t) /\ pc[t] = "app" /\ pc' = [pc EXCEPT ![t] = "switch"]
      /\ pend' = pend /\ switching' = switching /\ systick' = systick
  BY DEF artos_wait, At, GoTo
<1>2. CoreInv(SwitchLocs) /\ MutexTypeOK /\ LocksInv
  BY DEF MutexIInv
<1>3. pc[t] \notin LockLocs /\ pc[t] \notin SwitchLocs
  BY <1>1 DEF LockLocs, SwitchLocs
<1>4. /\ pc' \in [Threads -> Places]
      /\ pc'[t] = "switch"
      /\ \A u \in Slots : pc'[u] \in LockLocs <=> pc[u] \in LockLocs
  BY <1>1, <1>3, OutsideLocks
<1>5. /\ KInv(kern) /\ DelayInv(kern, FALSE) /\ kern.cur = t /\ kern.cur \in Slots
      /\ kern.state_c[t] = NULL
  BY <1>1, <1>2, <1>3, RunningTask
<1>6. \/ kern' = kern
      \/ \E infinite \in BOOLEAN : BlockedOn(kern', kern, NULL, infinite)
  <2>1. kern.ticks \in Ticks /\ ARTOS_DELAY_INFINITY \in Ticks
    BY <1>5, KernelFacts DEF KInv, KernelType, ARTOS_DELAY_INFINITY, Ticks
  <2>2. CASE n = 0
    BY <2>2 DEF artos_wait
  <2>3. CASE n # 0 /\ n = ARTOS_DELAY_INFINITY
    <3>1. kern' = rtos_block_current_task(kern, ARTOS_DELAY_INFINITY, NULL, TRUE)
      BY <2>3 DEF artos_wait
    <3>2. BlockedOn(kern', kern, NULL, TRUE)
      BY <3>1, <2>1, <1>5, BlockEffect
    <3> QED
      BY <3>2
  <2>4. CASE n # 0 /\ n # ARTOS_DELAY_INFINITY
    <3>1. kern' = rtos_block_current_task(kern, (kern.ticks + n) % TickMod, NULL, FALSE)
      BY <2>4 DEF artos_wait
    <3>2. (kern.ticks + n) % TickMod \in Ticks /\ (kern.ticks + n) % TickMod # kern.ticks
      BY <2>1, <2>4, WakeTick
    <3>3. BlockedOn(kern', kern, NULL, FALSE)
      BY <3>1, <3>2, <1>5, BlockEffect
    <3> QED
      BY <3>3
  <2> QED
    BY <2>2, <2>3, <2>4
<1>7. /\ KInv(kern') /\ DelayInv(kern', FALSE) /\ kern'.cur = t
      /\ kern'.created = kern.created /\ kern'.priority = kern.priority
      /\ kern'.eff = kern.eff /\ kern'.held = kern.held /\ kern'.reason = kern.reason
      /\ kern'.event_c = kern.event_c
      /\ \A u \in Slots : u # t => kern'.state_c[u] = kern.state_c[u]
  BY <1>5, <1>6 DEF BlockedOn
<1>8. CoreInv(SwitchLocs)'
  <2>1. pc'[t] \in SwitchLocs
    BY <1>4 DEF SwitchLocs
  <2> QED
    BY <2>1, <1>1, <1>2, <1>7, ThreadStepCore
<1>9. LocksInv' /\ OwnersInv' /\ HeldInv' /\ BoostEndsWithLastUnlock' /\ DonorsInv'
  <2>1. \A u \in Slots : pc[u] \in LockLocs =>
           \A w, i : InCall(kern, u, w, i) => InCall(kern', u, w, i)
    BY <1>3, <1>7 DEF InCall, Blocked
  <2>2. kern.created \subseteq Slots
    BY <1>5, KernelFields
  <2> QED
    BY <2>1, <2>2, <1>4, <1>7, NoLockStep
<1>10. MutexTypeOK'
  BY <1>2, <1>4 DEF MutexTypeOK, mutexVars
<1>11. LeavesOthers(TakeLocs, Mutexes)
  <2>1. /\ pc[t] \notin TakeLocs /\ pc'[t] \notin TakeLocs
        /\ \A u \in Slots : u # t => pc'[u] = pc[u]
    BY <1>1, <1>3, <1>4, OutsideLocks DEF TakeLocs
  <2>2. \A u \in Slots : u # t => \A w, i : InCall(kern, u, w, i) => InCall(kern', u, w, i)
    BY <1>7 DEF InCall, Blocked
  <2> QED
    BY <2>1, <2>2, <1>7 DEF LeavesOthers
<1> QED
  BY <1>7, <1>8, <1>9, <1>10, <1>11, MutexFacts DEF MutexIInv

-----------------------------------------------------------------------------
(* An owner has a count, and a count of one means that it owns no other    *)
(* mutex.                                                                  *)
LEMMA OwnersCount ==
    ASSUME HeldInv, NEW m \in Mutexes, NEW o \in Slots, owner[m] = o
    PROVE  /\ kern.held[o] # 0
           /\ kern.held[o] = 1 => \A m2 \in Mutexes : owner[m2] = o => m2 = m
<1>1. /\ m \in Owned(o) /\ IsFiniteSet(Owned(o)) /\ kern.held[o] = Cardinality(Owned(o))
  BY DEF HeldInv, Owned
<1>2. Cardinality(Owned(o)) # 0
  BY <1>1, FS_EmptySet
<1>3. ASSUME Cardinality(Owned(o)) = 1, NEW m2 \in Mutexes, owner[m2] = o PROVE m2 = m
  <2>1. PICK x : Owned(o) = {x}
    BY <1>1, <1>3, FS_Singleton
  <2>2. m2 \in Owned(o)
    BY <1>3 DEF Owned
  <2> QED
    BY <2>1, <2>2, <1>1
<1> QED
  BY <1>1, <1>2, <1>3

(* A mutex that changes hands is counted for its new owner and no more for *)
(* the old one.                                                            *)
LEMMA OwnerChanges ==
    ASSUME KInv(kern), owner \in [Mutexes -> Slots \cup {NULL}], HeldInv, NEW m \in Mutexes,
           NEW x \in Slots \cup {NULL}, x # owner[m], owner' = [owner EXCEPT ![m] = x],
           \A u \in Slots : kern'.held[u] = IF u = owner[m] THEN kern.held[u] - 1
                                            ELSE IF u = x THEN kern.held[u] + 1
                                            ELSE kern.held[u]
    PROVE  /\ HeldInv'
           /\ owner' \in [Mutexes -> Slots \cup {NULL}]
           /\ owner'[m] = x /\ \A m2 \in Mutexes : m2 # m => owner'[m2] = owner[m2]
<1>1. /\ owner' \in [Mutexes -> Slots \cup {NULL}]
      /\ owner'[m] = x /\ \A m2 \in Mutexes : m2 # m => owner'[m2] = owner[m2]
  OBVIOUS
<1>2. ASSUME NEW u \in Slots
      PROVE  IsFiniteSet(Owned(u)') /\ kern'.held[u] = Cardinality(Owned(u)')
  <2>1. IsFiniteSet(Owned(u)) /\ kern.held[u] = Cardinality(Owned(u))
    BY DEF HeldInv
  <2>2. CASE u = owner[m]
    <3>1. Owned(u)' = Owned(u) \ {m} /\ m \in Owned(u)
      BY <2>2, <1>1 DEF Owned
    <3>2. IsFiniteSet(Owned(u) \ {m}) /\ Cardinality(Owned(u) \ {m}) = Cardinality(Owned(u)) - 1
      BY <2>1, <3>1, FS_RemoveElement
    <3>3. kern'.held[u] = kern.held[u] - 1
      BY <2>2
    <3> QED
      BY <2>1, <3>1, <3>2, <3>3
  <2>3. CASE u # owner[m] /\ u = x
    <3>1. Owned(u)' = Owned(u) \cup {m} /\ m \notin Owned(u)
      BY <2>3, <1>1 DEF Owned
    <3>2. IsFiniteSet(Owned(u) \cup {m}) /\ Cardinality(Owned(u) \cup {m}) = Cardinality(Owned(u)) + 1
      BY <2>1, <3>1, FS_AddElement
    <3>3. kern'.held[u] = kern.held[u] + 1
      BY <2>3
    <3> QED
      BY <2>1, <3>1, <3>2, <3>3
  <2>4. CASE u # owner[m] /\ u # x
    <3>1. Owned(u)' = Owned(u)
      BY <2>4, <1>1 DEF Owned
    <3>2. kern'.held[u] = kern.held[u]
      BY <2>4
    <3> QED
      BY <2>1, <3>1, <3>2
  <2> QED
    BY <2>2, <2>3, <2>4
<1> QED
  BY <1>1, <1>2 DEF HeldInv

(* artos_mutex_lock of a free mutex: nobody waits for it. *)
LEMMA LockNowInv ==
    ASSUME MutexIInv, NEW t \in Slots, NEW m \in Mutexes, owner[m] = NULL,
           Executes(t), pc[t] = "app", kern.held[t] # MaxHeld,
           owner' = [owner EXCEPT ![m] = t],
           kern' = rtos_increment_mutex_count(kern, t),
           inside' = [inside EXCEPT ![t] = @ \cup {m}],
           UNCHANGED <<pend, switching, systick, pc, locking>>
    PROVE  MutexIInv' /\ LeavesOthers(TakeLocs, Mutexes)
<1>1. /\ CoreInv(SwitchLocs) /\ MutexTypeOK /\ LocksInv /\ OwnersInv /\ HeldInv
      /\ BoostEndsWithLastUnlock /\ DonorsInv
  BY DEF MutexIInv
<1>2. pc[t] \notin LockLocs /\ pc[t] \notin SwitchLocs /\ t # NULL
  BY MutexFacts DEF LockLocs, SwitchLocs
<1>3. /\ KInv(kern) /\ DelayInv(kern, FALSE) /\ kern.cur = t /\ kern.state_c[t] = NULL
      /\ t \in kern.created
  BY <1>1, <1>2, RunningTask
<1>4. Counted(kern', kern, t, kern.held[t] + 1)
  BY <1>3, IncrementEffect
<1>5. /\ KInv(kern') /\ DelayInv(kern', FALSE) /\ kern'.cur = t
      /\ kern'.created = kern.created /\ kern'.priority = kern.priority
      /\ kern'.eff = kern.eff /\ kern'.reason = kern.reason /\ kern'.state_c = kern.state_c
      /\ kern'.event_c = kern.event_c /\ kern'.held[t] = kern.held[t] + 1
      /\ \A u \in Slots : u # t => kern'.held[u] = kern.held[u]
  BY <1>3, <1>4 DEF Counted
<1>6. /\ HeldInv'
      /\ owner' \in [Mutexes -> Slots \cup {NULL}]
      /\ owner'[m] = t /\ \A m2 \in Mutexes : m2 # m => owner'[m2] = owner[m2]
  <2>1. \A u \in Slots : kern'.held[u] = IF u = owner[m] THEN kern.held[u] - 1
                                         ELSE IF u = t THEN kern.held[u] + 1
                                         ELSE kern.held[u]
    BY <1>5, MutexFacts
  <2>2. KInv(kern) /\ owner \in [Mutexes -> Slots \cup {NULL}] /\ HeldInv /\ t # owner[m]
        /\ t \in Slots \cup {NULL}
    BY <1>1, <1>2, <1>3 DEF MutexTypeOK
  <2> QED
    BY <2>1, <2>2, OwnerChanges
<1>7. CoreInv(SwitchLocs)'
  BY <1>1, <1>3, <1>5, ThreadStepCore
<1>8. /\ inside' \in [Slots -> SUBSET Mutexes] /\ inside'[t] = inside[t] \cup {m}
      /\ \A u \in Slots : u # t => inside'[u] = inside[u]
  BY <1>1 DEF MutexTypeOK
<1>9. MutexTypeOK'
  BY <1>1, <1>6, <1>8 DEF MutexTypeOK
<1>10. OwnersInv'
  <2>1. \A u \in Slots : \A m2 \in inside[u] : m2 # m /\ m2 \in Mutexes
    BY <1>1, MutexFacts DEF OwnersInv, MutexTypeOK
  <2> QED
    BY <2>1, <1>1, <1>3, <1>5, <1>6, <1>8 DEF OwnersInv
<1>11. \A u \in Slots : kern.event_c[u] # m
  <2> SUFFICES ASSUME NEW u \in Slots, kern.event_c[u] = m PROVE FALSE
    OBVIOUS
  <2>1. kern.event_c[u] # NULL
    BY MutexFacts
  <2>2. InLock(u, locking[u].mutex, locking[u].infinite)
    BY <2>1, <1>1 DEF LocksInv
  <2> QED
    BY <2>1, <2>2 DEF InLock, InCall
<1>12. LocksInv'
  <2> SUFFICES ASSUME NEW u \in Slots, pc[u] \in LockLocs
               PROVE  InLock(u, locking[u].mutex, locking[u].infinite)'
    BY <1>1, <1>5 DEF LocksInv
  <2> DEFINE w == locking[u].mutex
  <2>1. InLock(u, w, locking[u].infinite) /\ u # t
    BY <1>1, <1>2 DEF LocksInv
  <2>2. InCall(kern', u, w, locking[u].infinite)
    BY <2>1, <1>5 DEF InLock, InCall, Blocked
  <2>3. kern.event_c[u] # NULL => w # m
    BY <2>1, <1>11 DEF InLock, InCall
  <2>4. kern.event_c[u] = NULL /\ kern.reason[u] = "WAIT_SIGNALED" => w # m
    BY <2>1, MutexFacts DEF InLock
  <2>5. w \in Mutexes
    BY <2>1 DEF InLock
  <2>6. /\ u \in kern'.created
        /\ kern'.event_c[u] # NULL => owner'[w] \notin {NULL, u} /\ kern'.held[u] < MaxHeld
        /\ kern'.event_c[u] = NULL /\ kern'.reason[u] = "WAIT_SIGNALED" => owner'[w] = u
    BY <2>1, <2>3, <2>4, <2>5, <1>5, <1>6 DEF InLock
  <2> QED
    BY <2>2, <2>5, <2>6 DEF InLock
<1>13. BoostEndsWithLastUnlock'
  <2>1. kern'.held[t] # 0
    <3>1. kern.held[t] \in 0 .. MaxHeld /\ MaxHeld \in Nat
      BY <1>3, KernelFields
    <3> QED
      BY <3>1, <1>5
  <2> QED
    BY <2>1, <1>1, <1>5 DEF BoostEndsWithLastUnlock
<1>14. DonorsInv'
  <2> SUFFICES ASSUME NEW m2 \in Mutexes, NEW u \in Slots, kern.event_c[u] = m2
               PROVE  kern.eff[owner'[m2]] >= kern.priority[u]
    BY <1>5 DEF DonorsInv
  <2>1. owner'[m2] = owner[m2]
    BY <1>6, <1>11
  <2> QED
    BY <2>1, <1>1 DEF DonorsInv
<1>15. LeavesOthers(TakeLocs, Mutexes)
  BY <1>5 DEF LeavesOthers, InCall, Blocked
<1> QED
  BY <1>15, <1>2, <1>5, <1>6, <1>7, <1>9, <1>10, <1>12, <1>13, <1>14 DEF MutexIInv

(* What the invariant says of a task that waits for m and of its owner. *)
LEMMA WaiterAndOwner ==
    ASSUME MutexIInv, NEW m \in Mutexes, NEW u \in Slots, kern.event_c[u] = m
    PROVE  /\ pc[u] \in LockLocs /\ locking[u].mutex = m /\ u \in kern.created
           /\ owner[m] \in Slots /\ owner[m] # u /\ owner[m] \in kern.created
           /\ kern.held[u] < MaxHeld
           /\ kern.eff[owner[m]] >= kern.priority[u]
<1>1. MutexTypeOK /\ LocksInv /\ OwnersInv /\ DonorsInv /\ m # NULL
  BY MutexFacts DEF MutexIInv
<1>2. pc[u] \in LockLocs /\ InLock(u, locking[u].mutex, locking[u].infinite)
  BY <1>1 DEF LocksInv
<1>3. /\ locking[u].mutex = m /\ u \in kern.created
      /\ owner[m] \notin {NULL, u} /\ kern.held[u] < MaxHeld
  BY <1>1, <1>2 DEF InLock, InCall
<1>4. owner[m] \in Slots /\ owner[m] \in kern.created
  BY <1>1, <1>3 DEF MutexTypeOK, OwnersInv
<1> QED
  BY <1>1, <1>2, <1>3, <1>4 DEF DonorsInv

(* artos_mutex_lock of a mutex that another task owns: the task blocks and *)
(* lends its priority.                                                     *)
LEMMA LockBlockInv ==
    ASSUME MutexIInv, NEW t \in Slots, NEW m \in Mutexes, NEW n \in LockTimeouts, n # 0,
           owner[m] \notin {NULL, t}, Executes(t), pc[t] = "app", kern.held[t] # MaxHeld,
           NEW infinite \in BOOLEAN, infinite <=> n = ARTOS_DELAY_INFINITY,
           NEW k1, k1 = rtos_block_current_task(kern,
                            IF infinite THEN ARTOS_DELAY_INFINITY
                            ELSE (n + kern.ticks) % TickMod, m, infinite),
           kern' = Inherit(k1, owner[m], m),
           locking' = [locking EXCEPT ![t] = [mutex |-> m, infinite |-> infinite]],
           pc' = [pc EXCEPT ![t] = "lock_switch"],
           UNCHANGED <<pend, switching, systick, owner, inside>>
    PROVE  MutexIInv' /\ LeavesOthers(TakeLocs, Mutexes)
<1> DEFINE wake == IF infinite THEN ARTOS_DELAY_INFINITY ELSE (n + kern.ticks) % TickMod
           arg == [mutex |-> m, infinite |-> infinite]
           o == owner[m]
<1>1. /\ CoreInv(SwitchLocs) /\ MutexTypeOK /\ LocksInv /\ OwnersInv /\ HeldInv
      /\ BoostEndsWithLastUnlock /\ DonorsInv
  BY DEF MutexIInv
<1>2. pc[t] \notin LockLocs /\ pc[t] \notin SwitchLocs /\ t # NULL /\ m \in WaitLists /\ m # NULL
  BY MutexFacts DEF LockLocs, SwitchLocs
<1>3. /\ KInv(kern) /\ DelayInv(kern, FALSE) /\ kern.cur = t /\ kern.state_c[t] = NULL
      /\ t \in kern.created
  BY <1>1, <1>2, RunningTask
<1>4. wake \in Ticks /\ (~infinite => wake # kern.ticks)
  <2>1. kern.ticks \in Ticks /\ ARTOS_DELAY_INFINITY \in Ticks /\ n \in Ticks
    BY <1>3, KernelFacts, MutexFacts DEF KInv, KernelType, ARTOS_DELAY_INFINITY, Ticks
  <2>2. n + kern.ticks = kern.ticks + n
    BY <2>1, KernelFacts DEF Ticks
  <2> QED
    BY <2>1, <2>2, WakeTick
<1> HIDE DEF wake
<1>5. BlockedOn(k1, kern, m, infinite)
  <2>1. k1 = rtos_block_current_task(kern, wake, m, infinite)
    BY DEF wake
  <2>2. kern.cur \in Slots /\ kern.state_c[kern.cur] = NULL
    BY <1>3
  <2> QED
    BY <2>1, <2>2, <1>2, <1>3, <1>4, BlockOnEffect
<1>6. /\ KInv(k1) /\ DelayInv(k1, FALSE) /\ k1.cur = t
      /\ k1.created = kern.created /\ k1.priority = kern.priority
      /\ k1.eff = kern.eff /\ k1.held = kern.held /\ k1.reason = kern.reason
  BY <1>3, <1>5 DEF BlockedOn
<1>7. /\ InCall(k1, t, m, infinite)
      /\ k1.event_c[t] = m
      /\ \A u \in Slots : u # t =>
            /\ k1.event_c[u] = kern.event_c[u] /\ k1.reason[u] = kern.reason[u]
            /\ \A v, i : InCall(kern, u, v, i) => InCall(k1, u, v, i)
  BY <1>2, <1>3, <1>5, CallEntered
<1>8. o \in Slots /\ o # t
  BY <1>1 DEF MutexTypeOK
<1>9. /\ \A u \in Slots : k1.eff[u] >= k1.priority[u]
      /\ \A u \in Slots : k1.eff[u] \in Int /\ k1.priority[u] \in Int
  BY <1>1, <1>6, KernelFields DEF BoostEndsWithLastUnlock
<1>10. PICK new \in Priorities :
          /\ Reprioritised(kern', k1, o, new) /\ new >= k1.eff[o]
          /\ \A u \in Slots : k1.event_c[u] = m => new >= k1.eff[u]
  <2>1. kern' = Inherit(k1, o, m) /\ k1.eff[o] >= k1.priority[o]
    BY <1>8, <1>9
  <2> HIDE DEF o
  <2> QED
    BY <2>1, <1>6, <1>8, InheritEffect
<1> HIDE DEF o
<1>11. /\ KInv(kern') /\ DelayInv(kern', FALSE) /\ kern'.cur = t
       /\ kern'.created = kern.created /\ kern'.priority = kern.priority
       /\ kern'.held = kern.held /\ kern'.reason = kern.reason
       /\ kern'.event_c = k1.event_c /\ kern'.eff = [k1.eff EXCEPT ![o] = new]
  BY <1>6, <1>10 DEF Reprioritised
<1>12. /\ new \in Int /\ kern'.eff[o] = new /\ new >= kern.eff[o]
       /\ \A u \in Slots : u # o => kern'.eff[u] = kern.eff[u]
       /\ \A u \in Slots : kern'.eff[u] >= kern.eff[u]
  <2>1. k1.eff \in [Tasks -> Priorities] /\ Slots \subseteq Tasks /\ new \in Int
    BY <1>6, KernelFields, MutexFacts
  <2>2. kern'.eff[o] = new /\ \A u \in Slots : u # o => kern'.eff[u] = kern.eff[u]
    BY <2>1, <1>6, <1>8, <1>11
  <2>3. new >= kern.eff[o] /\ \A u \in Slots : kern.eff[u] \in Int
    BY <1>6, <1>9, <1>10
  <2>4. \A u \in Slots : kern'.eff[u] >= kern.eff[u]
    BY <2>2, <2>3
  <2> QED
    BY <2>1, <2>2, <2>3, <2>4
<1>13. \A u \in Slots : \A w, i : InCall(k1, u, w, i) => InCall(kern', u, w, i)
  BY <1>6, <1>8, <1>10, CallReprioritised
<1>14. /\ pc' \in [Threads -> Places]
       /\ pc'[t] = "lock_switch" /\ \A u \in Slots : u # t => pc'[u] = pc[u]
  BY <1>1 DEF MutexTypeOK, Places, LockLocs, Threads
<1>15. /\ locking' \in [Slots -> [mutex : Mutexes \cup {NULL}, infinite : BOOLEAN]]
       /\ locking'[t] = arg /\ \A u \in Slots : u # t => locking'[u] = locking[u]
  BY <1>1 DEF MutexTypeOK
<1>16. CoreInv(SwitchLocs)'
  <2>1. pc'[t] \in SwitchLocs
    BY <1>14 DEF SwitchLocs
  <2> QED
    BY <2>1, <1>1, <1>11, ThreadStepCore
<1>17. MutexTypeOK'
  BY <1>1, <1>14, <1>15 DEF MutexTypeOK
<1>18. OwnersInv' /\ HeldInv'
  <2>1. \A u : Owned(u)' = Owned(u)
    BY DEF Owned
  <2> QED
    BY <2>1, <1>1, <1>11 DEF OwnersInv, HeldInv
<1>19. LocksInv'
  <2> SUFFICES ASSUME NEW u \in Slots
               PROVE  /\ pc'[u] \in LockLocs =>
                             InLock(u, locking[u].mutex, locking[u].infinite)'
                      /\ pc'[u] \notin LockLocs => kern'.event_c[u] \notin Mutexes
    BY DEF LocksInv
  <2>1. CASE u = t
    <3>1. InCall(kern', t, m, infinite) /\ kern'.event_c[t] = m
      BY <1>7, <1>11, <1>13
    <3>2. kern'.held[t] < MaxHeld
      <4>1. kern.held[t] \in 0 .. MaxHeld /\ MaxHeld \in Nat
        BY <1>3, KernelFields
      <4> QED
        BY <4>1, <1>11
    <3>3. locking'[t].mutex = m /\ locking'[t].infinite = infinite
      BY <1>15
    <3>4. InLock(t, locking[t].mutex, locking[t].infinite)'
      BY <3>1, <3>2, <3>3, <1>2, <1>3, <1>11 DEF InLock
    <3> QED
      BY <2>1, <3>4, <1>14 DEF LockLocs
  <2>2. CASE u # t
    <3>1. CASE pc[u] \in LockLocs
      <4>1. InLock(u, locking[u].mutex, locking[u].infinite)
        BY <3>1, <1>1 DEF LocksInv
      <4>2. InCall(kern', u, locking[u].mutex, locking[u].infinite)
        BY <4>1, <2>2, <1>7, <1>13 DEF InLock
      <4>3. kern'.event_c[u] = kern.event_c[u]
        BY <2>2, <1>7, <1>11
      <4>4. InLock(u, locking[u].mutex, locking[u].infinite)'
        BY <4>1, <4>2, <4>3, <2>2, <1>11, <1>15 DEF InLock
      <4> QED
        BY <4>4, <3>1, <2>2, <1>14
    <3>2. CASE pc[u] \notin LockLocs
      BY <3>2, <2>2, <1>1, <1>7, <1>11, <1>14 DEF LocksInv
    <3> QED
      BY <3>1, <3>2
  <2> QED
    BY <2>1, <2>2
<1>20. BoostEndsWithLastUnlock'
  <2>1. kern.held[o] # 0
    BY <1>1, <1>8, OwnersCount DEF o
  <2>2. \A u \in Slots : kern.eff[u] \in Int /\ kern.priority[u] \in Int /\ kern'.eff[u] \in Int
    BY <1>3, <1>11, KernelFields
  <2> QED
    BY <2>1, <2>2, <1>1, <1>11, <1>12 DEF BoostEndsWithLastUnlock
<1>21. DonorsInv'
  <2> SUFFICES ASSUME NEW m2 \in Mutexes, NEW u \in Slots, kern'.event_c[u] = m2
               PROVE  kern'.eff[owner[m2]] >= kern.priority[u]
    BY <1>11 DEF DonorsInv
  <2>1. CASE m2 = m
    <3>1. new >= k1.eff[u] /\ k1.eff[u] >= kern.priority[u] /\ k1.eff[u] \in Int
          /\ kern.priority[u] \in Int
      BY <2>1, <1>6, <1>9, <1>10, <1>11
    <3> QED
      BY <2>1, <3>1, <1>12 DEF o
  <2>2. CASE m2 # m
    <3>1. kern.event_c[u] = m2
      BY <2>2, <1>7, <1>11
    <3>2. owner[m2] \in Slots /\ kern.eff[owner[m2]] >= kern.priority[u]
      BY <3>1, WaiterAndOwner
    <3>3. /\ kern'.eff[owner[m2]] >= kern.eff[owner[m2]] /\ kern.eff[owner[m2]] \in Int
          /\ kern'.eff[owner[m2]] \in Int /\ kern.priority[u] \in Int
      BY <3>2, <1>3, <1>11, <1>12, KernelFields
    <3> QED
      BY <3>2, <3>3
  <2> QED
    BY <2>1, <2>2
<1>22. LeavesOthers(TakeLocs, Mutexes)
  <2>1. pc[t] \notin TakeLocs /\ pc'[t] \notin TakeLocs
    BY <1>14 DEF TakeLocs
  <2>2. kern'.event_c[t] = m
    BY <1>7, <1>11
  <2>3. \A u \in Slots : u # t =>
           /\ pc'[u] = pc[u]
           /\ kern'.event_c[u] = kern.event_c[u] /\ kern'.reason[u] = kern.reason[u]
           /\ \A w, i : InCall(kern, u, w, i) => InCall(kern', u, w, i)
    BY <1>7, <1>11, <1>13, <1>14
  <2> QED
    BY <2>1, <2>2, <2>3 DEF LeavesOthers
<1> QED
  BY <1>22, <1>2, <1>11, <1>16, <1>17, <1>18, <1>19, <1>20, <1>21 DEF MutexIInv

(* The end of a lock that had blocked: the task owns the mutex, or takes   *)
(* back the priority that it had lent.                                     *)
LEMMA LockReturnInv ==
    ASSUME MutexIInv, NEW t \in Slots, LockReturn(t)
    PROVE  MutexIInv' /\ LeavesOthers(TakeLocs, Mutexes)
<1> DEFINE k1 == rtos_clear_current_wait_reason(kern)
           ok == kern.reason[t] = "WAIT_SIGNALED"
<1>m. PICK m : m = locking[t].mutex
  OBVIOUS
<1>1. /\ Executes(t) /\ pc[t] = "lock_woken"
      /\ kern' = IF ok THEN k1
                 ELSE rtos_priority_disinherit_after_timeout(k1, owner[m],
                          rtos_mutex_required_priority(k1, owner[m], m))
      /\ inside' = IF ok THEN [inside EXCEPT ![t] = @ \cup {m}] ELSE inside
      /\ locking' = [locking EXCEPT ![t] = NotLocking]
      /\ pc' = [pc EXCEPT ![t] = "app"]
      /\ pend' = pend /\ switching' = switching /\ systick' = systick /\ owner' = owner
  BY <1>m DEF LockReturn, At, GoTo
<1>2. /\ CoreInv(SwitchLocs) /\ MutexTypeOK /\ LocksInv /\ OwnersInv /\ HeldInv
      /\ BoostEndsWithLastUnlock /\ DonorsInv
  BY DEF MutexIInv
<1>3. pc[t] \in LockLocs /\ pc[t] \notin SwitchLocs /\ t # NULL
  BY <1>1, MutexFacts DEF LockLocs, SwitchLocs
<1>4. /\ KInv(kern) /\ DelayInv(kern, FALSE) /\ kern.cur = t /\ kern.state_c[t] = NULL
      /\ kern.event_c[t] = NULL /\ kern.cur \in Slots
  BY <1>1, <1>2, <1>3, RunningTask
<1>5. m \in Mutexes /\ (ok => owner[m] = t)
  <2>1. InLock(t, m, locking[t].infinite)
    BY <1>2, <1>3, <1>m DEF LocksInv
  <2> QED
    BY <2>1, <1>4 DEF InLock
<1>6. /\ KInv(k1) /\ DelayInv(k1, FALSE) /\ SameScalars(k1, kern) /\ k1.cur = t
      /\ k1.state_c = kern.state_c /\ k1.event_c = kern.event_c
      /\ k1.reason = [kern.reason EXCEPT ![kern.cur] = "WAIT_NO_REASON"]
  BY <1>4, ClearReasonEffect
<1> HIDE DEF k1, ok
<1>7. /\ k1.created = kern.created /\ k1.priority = kern.priority /\ k1.eff = kern.eff
      /\ k1.held = kern.held
      /\ \A u \in Slots : u # t => k1.reason[u] = kern.reason[u]
  <2>1. kern.reason \in [Tasks -> WaitReasons] /\ Slots \subseteq Tasks
    BY <1>4, KernelFields
  <2> QED
    BY <2>1, <1>4, <1>6 DEF SameScalars
<1>8. \A u \in Slots : /\ kern.eff[u] \in Int /\ kern.priority[u] \in Int
                       /\ kern.eff[u] >= kern.priority[u]
  BY <1>2, <1>4, KernelFields DEF BoostEndsWithLastUnlock
<1>9. PICK o \in Slots, new \in Priorities :
         /\ Reprioritised(kern', k1, o, new) /\ new >= kern.priority[o]
         /\ \/ new = kern.eff[o]
            \/ /\ kern.held[o] = 1 /\ owner[m] = o
               /\ \A u \in Slots : kern.event_c[u] = m => new >= kern.eff[u]
  <2>1. CASE kern' = k1
    <3>1. k1.eff[t] \in Priorities /\ Reprioritised(kern', k1, t, k1.eff[t])
      BY <2>1, <1>6, SamePriority
    <3>2. k1.eff[t] >= kern.priority[t] /\ k1.eff[t] = kern.eff[t]
      BY <1>7, <1>8
    <3> QED
      BY <3>1, <3>2
  <2>2. CASE ~ok /\ owner[m] # NULL
    <3>1. PICK o \in Slots : o = owner[m]
      BY <2>2, <1>2, <1>5 DEF MutexTypeOK
    <3>2. kern' = rtos_priority_disinherit_after_timeout(k1, o,
                      rtos_mutex_required_priority(k1, o, m))
      BY <3>1, <2>2, <1>1
    <3>3. k1.eff[o] >= k1.priority[o]
      BY <1>7, <1>8
    <3>4. \E new \in Priorities :
              /\ Reprioritised(kern', k1, o, new) /\ new >= k1.priority[o]
              /\ \/ new = k1.eff[o]
                 \/ /\ k1.held[o] = 1
                    /\ \A u \in Slots : k1.event_c[u] = m => new >= k1.eff[u]
      BY <3>2, <3>3, <1>5, <1>6, DisinheritEffect
    <3> QED
      BY <3>1, <3>4, <1>6, <1>7
  <2>3. CASE ~ok /\ owner[m] = NULL
    <3>1. kern' = k1
      BY <2>3, <1>1 DEF rtos_priority_disinherit_after_timeout
    <3> QED
      BY <3>1, <2>1
  <2> QED
    BY <2>1, <2>2, <2>3, <1>1
<1>10. /\ KInv(kern') /\ DelayInv(kern', FALSE) /\ kern'.cur = t
       /\ kern'.created = kern.created /\ kern'.priority = kern.priority
       /\ kern'.held = kern.held /\ kern'.event_c = kern.event_c
       /\ kern'.reason = k1.reason /\ kern'.eff = [kern.eff EXCEPT ![o] = new]
  BY <1>6, <1>7, <1>9 DEF Reprioritised
<1>11. kern'.state_c[t] = NULL
  <2>1. k1.state_c[t] = NULL /\ NULL \notin Priorities
    BY <1>4, <1>6, KernelFacts
  <2> QED
    BY <2>1, <1>9 DEF Reprioritised
<1>12. /\ new \in Int /\ kern'.eff[o] = new
       /\ \A u \in Slots : u # o => kern'.eff[u] = kern.eff[u]
  <2>1. kern.eff \in [Tasks -> Priorities] /\ Slots \subseteq Tasks /\ new \in Int
    BY <1>4, KernelFields, MutexFacts
  <2> QED
    BY <2>1, <1>10
<1>13. /\ pc' \in [Threads -> Places]
       /\ pc'[t] = "app" /\ \A u \in Slots : u # t => pc'[u] = pc[u]
  BY <1>1, <1>2 DEF MutexTypeOK, Places, LockLocs, Threads
<1>14. /\ locking' \in [Slots -> [mutex : Mutexes \cup {NULL}, infinite : BOOLEAN]]
       /\ \A u \in Slots : u # t => locking'[u] = locking[u]
  BY <1>1, <1>2 DEF MutexTypeOK, NotLocking
<1>15. /\ inside' \in [Slots -> SUBSET Mutexes]
       /\ \A u \in Slots : inside'[u] \subseteq inside[u] \cup (IF ok /\ u = t THEN {m} ELSE {})
  BY <1>1, <1>2, <1>5 DEF MutexTypeOK
<1>16. CoreInv(SwitchLocs)'
  BY <1>1, <1>2, <1>10, <1>11, ThreadStepCore
<1>17. MutexTypeOK'
  BY <1>1, <1>2, <1>13, <1>14, <1>15 DEF MutexTypeOK
<1>18. OwnersInv' /\ HeldInv'
  <2>1. \A u : Owned(u)' = Owned(u)
    BY <1>1 DEF Owned
  <2>2. HeldInv'
    BY <2>1, <1>2, <1>10 DEF HeldInv
  <2>3. \A u \in Slots : \A x \in inside'[u] : owner[x] = u
    BY <1>2, <1>5, <1>15 DEF OwnersInv
  <2> QED
    BY <2>2, <2>3, <1>1, <1>2, <1>10 DEF OwnersInv
<1>19. LocksInv'
  <2> SUFFICES ASSUME NEW u \in Slots
               PROVE  /\ pc'[u] \in LockLocs =>
                             InLock(u, locking[u].mutex, locking[u].infinite)'
                      /\ pc'[u] \notin LockLocs => kern'.event_c[u] \notin Mutexes
    BY DEF LocksInv
  <2>1. CASE u = t
    BY <2>1, <1>4, <1>10, <1>13, MutexFacts DEF LockLocs
  <2>2. CASE u # t /\ pc[u] \in LockLocs
    <3>1. InLock(u, locking[u].mutex, locking[u].infinite)
      BY <2>2, <1>2 DEF LocksInv
    <3>2. InCall(k1, u, locking[u].mutex, locking[u].infinite)
      BY <3>1, <2>2, <1>6, <1>7 DEF InLock, InCall, Blocked
    <3>3. InCall(kern', u, locking[u].mutex, locking[u].infinite)
      BY <3>2, <1>6, <1>9, CallReprioritised
    <3>4. kern'.reason[u] = kern.reason[u] /\ locking'[u] = locking[u]
      BY <2>2, <1>7, <1>10, <1>14
    <3>5. InLock(u, locking[u].mutex, locking[u].infinite)'
      BY <3>1, <3>3, <3>4, <1>1, <1>10 DEF InLock
    <3> QED
      BY <3>5, <2>2, <1>13
  <2>3. CASE u # t /\ pc[u] \notin LockLocs
    BY <2>3, <1>2, <1>10, <1>13 DEF LocksInv
  <2> QED
    BY <2>1, <2>2, <2>3
<1>20. BoostEndsWithLastUnlock'
  <2>1. kern.held[o] = 0 => new = kern.eff[o]
    BY <1>9
  <2> QED
    BY <2>1, <1>2, <1>9, <1>10, <1>12 DEF BoostEndsWithLastUnlock
<1>21. DonorsInv'
  <2> SUFFICES ASSUME NEW m2 \in Mutexes, NEW u \in Slots, kern.event_c[u] = m2
               PROVE  kern'.eff[owner[m2]] >= kern.priority[u]
    BY <1>1, <1>10 DEF DonorsInv
  <2>1. owner[m2] \in Slots /\ kern.eff[owner[m2]] >= kern.priority[u]
    BY WaiterAndOwner
  <2>2. CASE owner[m2] # o \/ new = kern.eff[o]
    BY <2>1, <2>2, <1>12
  <2>3. CASE owner[m2] = o /\ new # kern.eff[o]
    <3>1. /\ kern.held[o] = 1 /\ owner[m] = o
          /\ \A v \in Slots : kern.event_c[v] = m => new >= kern.eff[v]
      BY <2>3, <1>9
    <3>2. m2 = m
      BY <2>3, <3>1, <1>2, <1>5, OwnersCount
    <3>3. new >= kern.eff[u]
      BY <3>1, <3>2
    <3> QED
      BY <2>3, <3>3, <1>8, <1>12
  <2> QED
    BY <2>2, <2>3
<1>22. LeavesOthers(TakeLocs, Mutexes)
  <2>1. pc[t] \notin TakeLocs /\ pc'[t] \notin TakeLocs
    BY <1>1, <1>13 DEF TakeLocs
  <2>2. ASSUME NEW u \in Slots, u # t
        PROVE  /\ pc'[u] = pc[u] /\ kern'.reason[u] = kern.reason[u]
               /\ \A w, i : InCall(kern, u, w, i) => InCall(kern', u, w, i)
    <3>1. \A w, i : InCall(kern, u, w, i) => InCall(k1, u, w, i)
      BY <2>2, <1>6, <1>7 DEF InCall, Blocked
    <3>2. \A w, i : InCall(k1, u, w, i) => InCall(kern', u, w, i)
      BY <1>6, <1>9, CallReprioritised
    <3> QED
      BY <3>1, <3>2, <2>2, <1>7, <1>10, <1>13
  <2> QED
    BY <2>1, <2>2, <1>10 DEF LeavesOthers
<1> QED
  BY <1>22, <1>3, <1>10, <1>16, <1>17, <1>18, <1>19, <1>20, <1>21 DEF MutexIInv

-----------------------------------------------------------------------------
(* artos_mutex_unlock by t, up to the handoff: the count is one less, and  *)
(* the priority is given back with the last mutex.                         *)
Released(r, t) ==
    /\ KInv(r) /\ DelayInv(r, FALSE) /\ r.cur = t /\ r.state_c[t] = NULL
    /\ r.created = kern.created /\ r.priority = kern.priority
    /\ r.reason = kern.reason /\ r.event_c = kern.event_c
    /\ r.held[t] = kern.held[t] - 1
    /\ r.eff[t] = IF kern.held[t] = 1 THEN kern.priority[t] ELSE kern.eff[t]
    /\ \A u \in Slots : u # t => r.held[u] = kern.held[u] /\ r.eff[u] = kern.eff[u]
    /\ \A u \in Slots : \A w, i : InCall(kern, u, w, i) => InCall(r, u, w, i)

LEMMA ReleaseEffect ==
    ASSUME KInv(kern), DelayInv(kern, FALSE), NEW t \in Slots, kern.cur = t,
           kern.state_c[t] = NULL, kern.held[t] # 0,
           NEW r, r = rtos_priority_relinquish_after_unlock(rtos_decrement_mutex_count(kern, t), t)
    PROVE  Released(r, t)
<1>1. PICK k : k = rtos_decrement_mutex_count(kern, t)
  OBVIOUS
<1>2. Counted(k, kern, t, kern.held[t] - 1)
  BY <1>1, DecrementEffect
<1>3. /\ KInv(k) /\ DelayInv(k, FALSE) /\ k.cur = t /\ k.state_c = kern.state_c
      /\ k.created = kern.created /\ k.priority = kern.priority /\ k.eff = kern.eff
      /\ k.reason = kern.reason /\ k.event_c = kern.event_c
      /\ k.held[t] = kern.held[t] - 1
      /\ \A u \in Slots : u # t => k.held[u] = kern.held[u]
  BY <1>2 DEF Counted
<1>4. PICK new : new = IF k.held[t] # 0 THEN k.eff[t] ELSE k.priority[t]
  OBVIOUS
<1>5. r = rtos_priority_relinquish_after_unlock(k, t)
  BY <1>1
<1>6. Reprioritised(r, k, t, new)
  BY <1>3, <1>4, <1>5, RelinquishEffect
<1>7. /\ KInv(r) /\ DelayInv(r, FALSE) /\ r.cur = t
      /\ r.created = kern.created /\ r.priority = kern.priority
      /\ r.reason = kern.reason /\ r.event_c = kern.event_c
      /\ r.held = k.held /\ r.eff = [k.eff EXCEPT ![t] = new]
  BY <1>3, <1>6 DEF Reprioritised
<1>8. r.state_c[t] = NULL
  <2>1. k.state_c[t] = NULL /\ NULL \notin Priorities
    BY <1>3, KernelFacts
  <2> QED
    BY <2>1, <1>6 DEF Reprioritised
<1>9. r.eff[t] = new /\ \A u \in Slots : u # t => r.eff[u] = kern.eff[u]
  <2>1. kern.eff \in [Tasks -> Priorities] /\ Slots \subseteq Tasks
    BY KernelFields
  <2> QED
    BY <2>1, <1>3, <1>7
<1>10. new = IF kern.held[t] = 1 THEN kern.priority[t] ELSE kern.eff[t]
  <2>1. k.held[t] # 0 <=> kern.held[t] # 1
    BY <1>3, KernelFields
  <2> QED
    BY <2>1, <1>3, <1>4
<1>11. \A u \in Slots : \A w, i : InCall(kern, u, w, i) => InCall(k, u, w, i)
  BY <1>3 DEF InCall, Blocked
<1>12. \A u \in Slots : \A w, i : InCall(k, u, w, i) => InCall(r, u, w, i)
  BY <1>3, <1>6, CallReprioritised
<1> QED
  BY <1>3, <1>7, <1>8, <1>9, <1>10, <1>11, <1>12 DEF Released

(* The mutex m passes from t to x, a task that waited for it, or to nobody *)
(* when no task waits.                                                     *)
LEMMA PassedOn ==
    ASSUME MutexIInv, NEW t \in Slots, NEW m \in Mutexes, owner[m] = t,
           Executes(t), pc[t] = "app",
           NEW x \in Slots \cup {NULL}, x # t, owner' = [owner EXCEPT ![m] = x],
           KInv(kern'), DelayInv(kern', FALSE), kern'.cur = t, kern'.state_c[t] = NULL,
           kern'.created = kern.created, kern'.priority = kern.priority,
           kern'.held[t] = kern.held[t] - 1,
           kern'.eff[t] = IF kern.held[t] = 1 THEN kern.priority[t] ELSE kern.eff[t],
           \A u \in Slots : u \notin {t, x} =>
               kern'.held[u] = kern.held[u] /\ kern'.eff[u] = kern.eff[u],
           \A u \in Slots : u # x =>
               kern'.event_c[u] = kern.event_c[u] /\ kern'.reason[u] = kern.reason[u],
           \A u \in Slots : \A w, i : InCall(kern, u, w, i) => InCall(kern', u, w, i),
           x = NULL => \A u \in Slots : kern.event_c[u] # m,
           x # NULL => /\ kern.event_c[x] = m /\ kern'.event_c[x] = NULL
                       /\ kern'.held[x] = kern.held[x] + 1
                       /\ kern'.eff[x] >= kern.eff[x]
                       /\ \A u \in Slots : kern'.event_c[u] = m => kern'.eff[x] >= kern.eff[u],
           NEW next \in {"app", "switch"}, pc' = [pc EXCEPT ![t] = next],
           inside' = [inside EXCEPT ![t] = @ \ {m}],
           UNCHANGED <<pend, switching, systick, locking>>
    PROVE  MutexIInv' /\ LeavesOthers(TakeLocs, Mutexes)
<1>1. /\ CoreInv(SwitchLocs) /\ MutexTypeOK /\ LocksInv /\ OwnersInv /\ HeldInv
      /\ BoostEndsWithLastUnlock /\ KInv(kern) /\ t # NULL /\ m # NULL
  BY MutexFacts DEF MutexIInv, CoreInv
<1>2. pc[t] \notin LockLocs
  BY DEF LockLocs
<1>3. x # NULL => x \in Slots
  OBVIOUS
<1>4. /\ HeldInv'
      /\ owner' \in [Mutexes -> Slots \cup {NULL}]
      /\ owner'[m] = x /\ \A m2 \in Mutexes : m2 # m => owner'[m2] = owner[m2]
  <2>1. \A u \in Slots : kern'.held[u] = IF u = owner[m] THEN kern.held[u] - 1
                                         ELSE IF u = x THEN kern.held[u] + 1
                                         ELSE kern.held[u]
    BY MutexFacts
  <2>2. owner \in [Mutexes -> Slots \cup {NULL}] /\ HeldInv /\ KInv(kern) /\ x # owner[m]
    BY <1>1 DEF MutexTypeOK
  <2> QED
    BY <2>1, <2>2, OwnerChanges
<1>5. /\ pc' \in [Threads -> Places]
      /\ \A u \in Slots : pc'[u] \in LockLocs <=> pc[u] \in LockLocs
  BY <1>2, OutsideLocks
<1>6. CoreInv(SwitchLocs)'
  BY <1>1, ThreadStepCore
<1>7. /\ inside' \in [Slots -> SUBSET Mutexes] /\ inside'[t] = inside[t] \ {m}
      /\ \A u \in Slots : u # t => inside'[u] = inside[u]
  BY <1>1 DEF MutexTypeOK
<1>8. MutexTypeOK'
  BY <1>1, <1>4, <1>5, <1>7 DEF MutexTypeOK
<1>9. OwnersInv'
  <2>1. \A u \in Slots : \A m2 \in inside'[u] : m2 \in Mutexes /\ m2 # m /\ owner[m2] = u
    BY <1>1, <1>7 DEF OwnersInv, MutexTypeOK
  <2>2. x # NULL => x \in kern.created
    BY <1>3, WaiterAndOwner
  <2>3. ASSUME NEW m2 \in Mutexes, owner'[m2] # NULL PROVE owner'[m2] \in kern'.created
    <3>1. CASE m2 = m
      BY <2>2, <2>3, <3>1, <1>4
    <3>2. CASE m2 # m
      BY <2>3, <3>2, <1>1, <1>4 DEF OwnersInv
    <3> QED
      BY <3>1, <3>2
  <2> QED
    BY <2>1, <2>3, <1>4 DEF OwnersInv
<1>10. LocksInv'
  <2> SUFFICES ASSUME NEW u \in Slots
               PROVE  /\ pc[u] \in LockLocs =>
                             InLock(u, locking[u].mutex, locking[u].infinite)'
                      /\ pc[u] \notin LockLocs => kern'.event_c[u] \notin Mutexes
    BY <1>5 DEF LocksInv
  <2>1. CASE pc[u] \in LockLocs
    <3>1. PICK w, i : w = locking[u].mutex /\ i = locking[u].infinite
      OBVIOUS
    <3>2. InLock(u, w, i) /\ u # t
      BY <2>1, <3>1, <1>1, <1>2 DEF LocksInv
    <3>3. w \in Mutexes /\ u \in kern'.created /\ InCall(kern', u, w, i)
      BY <3>2 DEF InLock
    <3>4. ASSUME kern'.event_c[u] # NULL
          PROVE  owner'[w] \notin {NULL, u} /\ kern'.held[u] < MaxHeld
      <4>1. u # x /\ kern.event_c[u] # NULL /\ kern.event_c[u] = w
        BY <3>2, <3>4, MutexFacts DEF InLock, InCall
      <4>2. owner[w] \notin {NULL, u} /\ kern'.held[u] < MaxHeld
        BY <3>2, <4>1 DEF InLock
      <4>3. CASE w = m
        <5>1. x # NULL /\ owner'[w] = x
          BY <4>1, <4>3, <1>4
        <5> QED
          BY <5>1, <4>1, <4>2
      <4>4. CASE w # m
        BY <4>2, <4>4, <3>3, <1>4
      <4> QED
        BY <4>2, <4>3, <4>4
    <3>5. ASSUME kern'.event_c[u] = NULL, kern'.reason[u] = "WAIT_SIGNALED"
          PROVE  owner'[w] = u
      <4>1. CASE u = x
        <5>1. kern.event_c[u] = m
          BY <4>1, MutexFacts
        <5>2. w = m
          BY <5>1, <3>2, <1>1 DEF InLock, InCall
        <5> QED
          BY <5>2, <4>1, <1>4
      <4>2. CASE u # x
        <5>1. owner[w] = u
          BY <4>2, <3>2, <3>5 DEF InLock
        <5> QED
          BY <5>1, <3>2, <3>3, <1>4
      <4> QED
        BY <4>1, <4>2
    <3>6. InLock(u, w, i)'
      BY <3>3, <3>4, <3>5 DEF InLock
    <3> QED
      BY <2>1, <3>1, <3>6
  <2>2. CASE pc[u] \notin LockLocs
    <3>1. kern.event_c[u] \notin Mutexes
      BY <2>2, <1>1 DEF LocksInv
    <3>2. u # x
      BY <3>1, <1>1, MutexFacts
    <3> QED
      BY <2>2, <3>1, <3>2
  <2> QED
    BY <2>1, <2>2
<1>11. \A u \in Slots : /\ kern.eff[u] \in Int /\ kern'.eff[u] \in Int
                        /\ kern.priority[u] \in Int /\ kern.held[u] \in Int /\ kern.held[u] >= 0
  BY <1>1, KernelFields
<1>12. BoostEndsWithLastUnlock'
  <2> SUFFICES ASSUME NEW u \in Slots
               PROVE  /\ kern'.eff[u] >= kern.priority[u]
                      /\ kern'.held[u] = 0 => kern'.eff[u] = kern.priority[u]
    BY DEF BoostEndsWithLastUnlock
  <2>1. /\ kern.eff[u] >= kern.priority[u]
        /\ kern.held[u] = 0 => kern.eff[u] = kern.priority[u]
    BY <1>1 DEF BoostEndsWithLastUnlock
  <2>2. CASE u = t
    BY <2>1, <2>2, <1>11
  <2>3. CASE u = x
    BY <2>1, <2>3, <1>11, MutexFacts
  <2>4. CASE u \notin {t, x}
    BY <2>1, <2>4
  <2> QED
    BY <2>2, <2>3, <2>4
<1>13. DonorsInv'
  <2> SUFFICES ASSUME NEW m2 \in Mutexes, NEW u \in Slots, kern'.event_c[u] = m2
               PROVE  kern'.eff[owner'[m2]] >= kern.priority[u]
    BY DEF DonorsInv
  <2>1. u # x /\ kern.event_c[u] = m2 /\ m2 # NULL
    BY MutexFacts
  <2>2. CASE m2 = m
    <3>1. x # NULL /\ kern'.eff[x] >= kern.eff[u]
      BY <2>1, <2>2
    <3>2. kern.eff[u] >= kern.priority[u]
      BY <1>1 DEF BoostEndsWithLastUnlock
    <3> QED
      BY <2>2, <3>1, <3>2, <1>3, <1>4, <1>11
  <2>3. CASE m2 # m
    <3>1. PICK o : o = owner[m2]
      OBVIOUS
    <3>2. o \in Slots /\ kern.eff[o] >= kern.priority[u] /\ owner'[m2] = o
      BY <2>1, <2>3, <3>1, <1>4, WaiterAndOwner
    <3>3. CASE o = t
      <4>1. kern.held[t] # 1
        <5>1. HeldInv /\ owner[m2] = t /\ m2 # m
          BY <2>3, <3>1, <3>3, <1>1
        <5>2. kern.held[t] = 1 => \A y \in Mutexes : owner[y] = t => y = m
          BY <5>1, OwnersCount
        <5> QED
          BY <5>1, <5>2
      <4> QED
        BY <3>2, <3>3, <4>1
    <3>4. CASE o = x
      <4>1. kern'.eff[x] >= kern.eff[x]
        BY <3>2, <3>4, MutexFacts
      <4> QED
        BY <3>2, <3>4, <4>1, <1>11
    <3>5. CASE o \notin {t, x}
      BY <3>2, <3>5
    <3> QED
      BY <3>3, <3>4, <3>5
  <2> QED
    BY <2>2, <2>3
<1>14. LeavesOthers(TakeLocs, Mutexes)
  <2>1. pc[t] \notin TakeLocs /\ pc'[t] \notin TakeLocs /\ \A u \in Slots : u # t => pc'[u] = pc[u]
    BY <1>2, OutsideLocks DEF TakeLocs
  <2>2. \A u \in Slots : u = x => pc[u] \notin TakeLocs
    <3>1. CASE x = NULL
      BY <3>1, MutexFacts
    <3>2. CASE x # NULL
      <4>1. x \in Slots /\ kern.event_c[x] = m
        BY <3>2, <1>3
      <4>2. pc[x] \in LockLocs
        BY <4>1, WaiterAndOwner
      <4> QED
        BY <4>2 DEF TakeLocs, LockLocs
    <3> QED
      BY <3>1, <3>2
  <2>3. \A u \in Slots : kern'.event_c[u] \in {kern.event_c[u], NULL}
    <3>1. \A u \in Slots : u = x => kern'.event_c[u] = NULL
      BY MutexFacts
    <3>2. \A u \in Slots : u # x => kern'.event_c[u] = kern.event_c[u]
      OBVIOUS
    <3> QED
      BY <3>1, <3>2
  <2> QED
    BY <2>1, <2>2, <2>3 DEF LeavesOthers
<1> QED
  BY <1>14, <1>1, <1>4, <1>6, <1>8, <1>9, <1>10, <1>12, <1>13 DEF MutexIInv

(* artos_mutex_unlock: its assertion that the owner has a count holds, and *)
(* the first waiter, if any, becomes the owner before it runs.             *)
LEMMA UnlockInv ==
    ASSUME MutexIInv, NEW t \in Slots, NEW m \in Mutexes, artos_mutex_unlock(t, m)
    PROVE  MutexIInv' /\ LeavesOthers(TakeLocs, Mutexes)
<1>k. PICK k1 : k1 = rtos_priority_relinquish_after_unlock(rtos_decrement_mutex_count(kern, t), t)
  OBVIOUS
<1>1. /\ Executes(t) /\ pc[t] = "app" /\ owner[m] = t
      /\ inside' = [inside EXCEPT ![t] = @ \ {m}]
      /\ pend' = pend /\ switching' = switching /\ systick' = systick /\ locking' = locking
  BY DEF artos_mutex_unlock, At
<1>2. CoreInv(SwitchLocs) /\ LocksInv /\ HeldInv /\ BoostEndsWithLastUnlock /\ m \in WaitLists
  BY MutexFacts DEF MutexIInv
<1>3. pc[t] \notin SwitchLocs
  BY <1>1 DEF SwitchLocs
<1>4. /\ KInv(kern) /\ DelayInv(kern, FALSE) /\ kern.cur = t /\ kern.state_c[t] = NULL
      /\ kern.event_c[t] = NULL
  BY <1>1, <1>2, <1>3, RunningTask
<1>5. kern.held[t] # 0
  BY <1>1, <1>2, OwnersCount
<1>6. Released(k1, t)
  BY <1>k, <1>4, <1>5, ReleaseEffect
<1>7. /\ KInv(k1) /\ DelayInv(k1, FALSE) /\ k1.cur = t /\ k1.state_c[t] = NULL
      /\ k1.created = kern.created /\ k1.priority = kern.priority
      /\ k1.reason = kern.reason /\ k1.event_c = kern.event_c
      /\ k1.held[t] = kern.held[t] - 1
      /\ k1.eff[t] = IF kern.held[t] = 1 THEN kern.priority[t] ELSE kern.eff[t]
      /\ \A u \in Slots : u # t => k1.held[u] = kern.held[u] /\ k1.eff[u] = kern.eff[u]
      /\ \A u \in Slots : \A w, i : InCall(kern, u, w, i) => InCall(k1, u, w, i)
  BY <1>6 DEF Released
<1>8. CASE kern.event_l[m] = <<>>
  <2>1. kern' = k1 /\ owner' = [owner EXCEPT ![m] = NULL]
    BY <1>k, <1>5, <1>8 DEF artos_mutex_unlock
  <2>2. PICK next \in {"app", "switch"} : pc' = [pc EXCEPT ![t] = next]
    BY <1>5, <1>8 DEF artos_mutex_unlock, GoTo
  <2>3. \A u \in Slots : kern.event_c[u] # m
    BY <1>2, <1>4, <1>8, EmptyWaitList
  <2>4. NULL \in Slots \cup {NULL} /\ NULL # t
    BY MutexFacts
  <2>5. /\ \A u \in Slots : u \notin {t, NULL} =>
               kern'.held[u] = kern.held[u] /\ kern'.eff[u] = kern.eff[u]
        /\ \A u \in Slots : u # NULL =>
               kern'.event_c[u] = kern.event_c[u] /\ kern'.reason[u] = kern.reason[u]
        /\ \A u \in Slots : \A w, i : InCall(kern, u, w, i) => InCall(kern', u, w, i)
    BY <2>1, <1>7
  <2>6. /\ KInv(kern') /\ DelayInv(kern', FALSE) /\ kern'.cur = t /\ kern'.state_c[t] = NULL
        /\ kern'.created = kern.created /\ kern'.priority = kern.priority
        /\ kern'.held[t] = kern.held[t] - 1
        /\ kern'.eff[t] = IF kern.held[t] = 1 THEN kern.priority[t] ELSE kern.eff[t]
    BY <2>1, <1>7
  <2> QED
    BY <2>1, <2>2, <2>3, <2>4, <2>5, <2>6, <1>1, PassedOn
<1>9. CASE kern.event_l[m] # <<>>
  <2>1. PICK x : x = Head(k1.event_l[m])
    OBVIOUS
  <2>2. PICK ku : ku = rtos_unblock_task(k1, x, "WAIT_SIGNALED")
    OBVIOUS
  <2>3. PICK k2 : k2 = rtos_increment_mutex_count(ku, x)
    OBVIOUS
  <2>4. /\ kern' = IF k2.event_l[m] # <<>> THEN Inherit(k2, x, m) ELSE k2
        /\ owner' = [owner EXCEPT ![m] = x]
    BY <1>k, <2>1, <2>2, <2>3, <1>5, <1>9 DEF artos_mutex_unlock
  <2>5. PICK next \in {"app", "switch"} : pc' = [pc EXCEPT ![t] = next]
    BY <1>5, <1>9 DEF artos_mutex_unlock, GoTo
  <2>6. k1.event_l[m] # <<>>
    BY <1>2, <1>4, <1>7, <1>9, EmptyWaitList
  <2>7. x \in Slots /\ Blocked(k1, x) /\ k1.event_c[x] = m
    BY <2>1, <2>6, <1>2, <1>7, FirstWaiter
  <2>8. kern.event_c[x] = m /\ x # t /\ kern.held[x] < MaxHeld
    <3>1. kern.event_c[x] = m
      BY <2>7, <1>7
    <3> QED
      BY <3>1, <2>7, <1>4, MutexFacts, WaiterAndOwner
  <2>9. Unblocked(ku, k1, x, "WAIT_SIGNALED") /\ DelayInv(ku, FALSE)
    <3>1. Unblocked(ku, k1, x, "WAIT_SIGNALED")
      BY <2>2, <2>7, <1>7, UnblockEffect DEF WaitReasons
    <3> QED
      BY <3>1, <2>7, <1>7, UnblockDelays
  <2>10. /\ KInv(ku) /\ ku.cur = t
         /\ ku.created = kern.created /\ ku.priority = kern.priority
         /\ ku.held = k1.held /\ ku.eff = k1.eff
         /\ ku.reason = [k1.reason EXCEPT ![x] = "WAIT_SIGNALED"]
         /\ ku.event_c = [k1.event_c EXCEPT ![x] = NULL]
         /\ ku.state_c = [k1.state_c EXCEPT ![x] = k1.eff[x]]
    BY <2>9, <1>7 DEF Unblocked, SameScalars
  <2>11. /\ ku.event_c[x] = NULL /\ ku.state_c[t] = NULL
         /\ \A u \in Slots : u # x =>
               ku.event_c[u] = kern.event_c[u] /\ ku.reason[u] = kern.reason[u]
    <3>1. /\ k1.event_c \in [Slots -> WaitLists \cup {NULL}]
          /\ k1.reason \in [Tasks -> WaitReasons] /\ Slots \subseteq Tasks
          /\ k1.state_c \in [Slots -> StateLists \cup {NULL}]
      BY <1>7, KernelFields DEF KInv, KernelType
    <3> QED
      BY <3>1, <2>7, <2>8, <2>10, <1>7
  <2>12. \A u \in Slots : \A w, i : InCall(kern, u, w, i) => InCall(ku, u, w, i)
    <3>1. \A u \in Slots : \A w, i : InCall(k1, u, w, i) => InCall(ku, u, w, i)
      BY <2>7, <2>9, <1>7, CallUnblocked
    <3> QED
      BY <3>1, <1>7
  <2>13. Counted(k2, ku, x, ku.held[x] + 1)
    <3>1. ku.held[x] = kern.held[x] /\ kern.held[x] # MaxHeld
      BY <2>7, <2>8, <2>10, <1>4, <1>7, KernelFields
    <3> QED
      BY <3>1, <2>3, <2>7, <2>10, IncrementEffect
  <2>14. /\ KInv(k2) /\ DelayInv(k2, FALSE) /\ k2.cur = t
         /\ k2.created = kern.created /\ k2.priority = kern.priority
         /\ k2.eff = k1.eff /\ k2.reason = ku.reason
         /\ k2.state_c = ku.state_c /\ k2.event_c = ku.event_c
         /\ k2.held[x] = kern.held[x] + 1
         /\ \A u \in Slots : u # x => k2.held[u] = k1.held[u]
    <3>1. ku.held[x] = kern.held[x]
      BY <2>7, <2>8, <2>10, <1>7
    <3>2. k2.held[x] = ku.held[x] + 1
      BY <2>13 DEF Counted
    <3>3. KInv(k2) /\ DelayInv(k2, FALSE)
      BY <2>9, <2>13 DEF Counted
    <3>4. /\ k2.cur = ku.cur /\ k2.created = ku.created /\ k2.priority = ku.priority
          /\ k2.eff = ku.eff /\ k2.reason = ku.reason
          /\ k2.state_c = ku.state_c /\ k2.event_c = ku.event_c
          /\ \A u \in Slots : u # x => k2.held[u] = ku.held[u]
      BY <2>13 DEF Counted
    <3> QED
      BY <3>1, <3>2, <3>3, <3>4, <2>10
  <2>15. \A u \in Slots : \A w, i : InCall(ku, u, w, i) => InCall(k2, u, w, i)
    BY <2>14 DEF InCall, Blocked
  <2>16. k2.eff[x] >= k2.priority[x] /\ k2.eff[x] = kern.eff[x] /\ k2.eff[x] \in Int
    <3>1. k2.eff[x] = kern.eff[x] /\ k2.priority[x] = kern.priority[x]
      BY <2>7, <2>8, <2>14, <1>7
    <3>2. kern.eff[x] >= kern.priority[x]
      BY <2>7, <1>2 DEF BoostEndsWithLastUnlock
    <3>3. kern.eff[x] \in Int
      BY <2>7, <1>4, KernelFields
    <3> QED
      BY <3>1, <3>2, <3>3
  <2>17. PICK new \in Priorities :
            /\ Reprioritised(kern', k2, x, new) /\ new >= k2.eff[x]
            /\ \A u \in Slots : k2.event_c[u] = m => new >= k2.eff[u]
    <3>1. CASE k2.event_l[m] # <<>>
      <4>1. kern' = Inherit(k2, x, m)
        BY <2>4, <3>1
      <4> QED
        BY <4>1, <2>7, <2>14, <2>16, InheritEffect
    <3>2. CASE k2.event_l[m] = <<>>
      <4>1. kern' = k2
        BY <2>4, <3>2
      <4>2. \A u \in Slots : k2.event_c[u] # m
        BY <3>2, <2>14, <1>2, EmptyWaitList
      <4>3. k2.eff[x] \in Priorities /\ Reprioritised(kern', k2, x, k2.eff[x])
        BY <4>1, <2>7, <2>14, SamePriority
      <4> QED
        BY <4>2, <4>3, <2>16
    <3> QED
      BY <3>1, <3>2
  <2>18. /\ KInv(kern') /\ DelayInv(kern', FALSE) /\ kern'.cur = t
         /\ kern'.created = kern.created /\ kern'.priority = kern.priority
         /\ kern'.held = k2.held /\ kern'.reason = ku.reason /\ kern'.event_c = ku.event_c
         /\ kern'.eff = [k2.eff EXCEPT ![x] = new]
    BY <2>14, <2>17 DEF Reprioritised
  <2>19. kern'.state_c[t] = NULL
    <3>1. k2.state_c[t] = NULL /\ NULL \notin Priorities
      BY <2>11, <2>14, KernelFacts
    <3> QED
      BY <3>1, <2>17 DEF Reprioritised
  <2>20. kern'.eff[x] = new /\ \A u \in Slots : u # x => kern'.eff[u] = k1.eff[u]
    <3>1. k2.eff \in [Tasks -> Priorities] /\ Slots \subseteq Tasks
      BY <2>14, KernelFields
    <3> QED
      BY <3>1, <2>7, <2>14, <2>18
  <2>21. \A u \in Slots : \A w, i : InCall(kern, u, w, i) => InCall(kern', u, w, i)
    <3>1. \A u \in Slots : \A w, i : InCall(k2, u, w, i) => InCall(kern', u, w, i)
      BY <2>7, <2>14, <2>17, CallReprioritised
    <3> QED
      BY <3>1, <2>12, <2>15
  <2>22. /\ kern'.held[t] = kern.held[t] - 1 /\ kern'.held[x] = kern.held[x] + 1
         /\ kern'.eff[t] = IF kern.held[t] = 1 THEN kern.priority[t] ELSE kern.eff[t]
         /\ \A u \in Slots : u \notin {t, x} =>
               kern'.held[u] = kern.held[u] /\ kern'.eff[u] = kern.eff[u]
    BY <2>8, <2>14, <2>18, <2>20, <1>7
  <2>23. /\ kern'.eff[x] >= kern.eff[x]
         /\ \A u \in Slots : kern'.event_c[u] = m => kern'.eff[x] >= kern.eff[u]
    <3>1. \A u \in Slots : kern'.event_c[u] = m => u # x /\ u # t
      BY <2>11, <2>18, <1>4, MutexFacts
    <3>2. \A u \in Slots : u # t => k2.eff[u] = kern.eff[u]
      BY <2>14, <1>7
    <3> QED
      BY <3>1, <3>2, <2>14, <2>16, <2>17, <2>18, <2>20
  <2>24. /\ \A u \in Slots : u # x =>
               kern'.event_c[u] = kern.event_c[u] /\ kern'.reason[u] = kern.reason[u]
         /\ kern'.event_c[x] = NULL /\ x # NULL /\ x \in Slots \cup {NULL}
    BY <2>7, <2>11, <2>18, MutexFacts
  <2> QED
    BY <2>4, <2>5, <2>8, <2>18, <2>19, <2>21, <2>22, <2>23, <2>24, <1>1, PassedOn
<1> QED
  BY <1>8, <1>9

(* artos_mutex_lock, of a mutex that is free or another task's. *)
LEMMA LockInv ==
    ASSUME MutexIInv, NEW t \in Slots, NEW m \in Mutexes, NEW n \in LockTimeouts,
           artos_mutex_lock(t, m, n)
    PROVE  MutexIInv' /\ LeavesOthers(TakeLocs, Mutexes)
<1>1. Executes(t) /\ pc[t] = "app" /\ kern.held[t] # MaxHeld
  BY DEF artos_mutex_lock, At
<1>2. CASE owner[m] = NULL
  BY <1>1, <1>2, LockNowInv DEF artos_mutex_lock
<1>3. CASE owner[m] # NULL
  <2>1. PICK infinite \in BOOLEAN : infinite = (n = ARTOS_DELAY_INFINITY)
    OBVIOUS
  <2>2. PICK k1 : k1 = rtos_block_current_task(kern,
                           IF infinite THEN ARTOS_DELAY_INFINITY
                           ELSE (n + kern.ticks) % TickMod, m, infinite)
    OBVIOUS
  <2>3. /\ owner[m] \notin {NULL, t} /\ n # 0
        /\ kern' = Inherit(k1, owner[m], m)
        /\ locking' = [locking EXCEPT ![t] = [mutex |-> m, infinite |-> infinite]]
        /\ pc' = [pc EXCEPT ![t] = "lock_switch"]
        /\ UNCHANGED <<pend, switching, systick, owner, inside>>
    BY <1>3, <2>1, <2>2 DEF artos_mutex_lock, GoTo
  <2> QED
    BY <1>1, <2>1, <2>2, <2>3, LockBlockInv
<1> QED
  BY <1>2, <1>3

-----------------------------------------------------------------------------
(* Every step keeps the invariant. *)
LEMMA MutexStepInv ==
    ASSUME MutexIInv, [MutexNext]_mutexSpecVars
    PROVE  MutexIInv'
<1>1. CASE UNCHANGED mutexSpecVars
  <2>1. /\ kern' = kern /\ pend' = pend /\ switching' = switching /\ systick' = systick /\ pc' = pc
        /\ UNCHANGED mutexVars
    BY <1>1 DEF mutexSpecVars, schedVars
  <2>2. CoreInv(SwitchLocs)' /\ MutexTypeOK' /\ KInv(kern') /\ kern'.cur # NULL
    BY <2>1 DEF MutexIInv, CoreInv, SwitchComing, MutexTypeOK, mutexVars
  <2>3. LocksInv' /\ OwnersInv' /\ HeldInv' /\ BoostEndsWithLastUnlock' /\ DonorsInv'
    BY <2>1, <2>2, NoLockStep
  <2> QED
    BY <2>2, <2>3 DEF MutexIInv
<1>2. ASSUME SysTick \/ PendSVEnter \/ PendSVSwitch, UNCHANGED mutexVars PROVE MutexIInv'
  BY <1>2, MutexExceptionInv
<1>3. ASSUME NEW t \in Slots, (Switch(t) /\ UNCHANGED mutexVars) \/ LockSwitch(t)
      PROVE  MutexIInv'
  BY <1>3, MutexSwitchInv DEF LockSwitch
<1>4. ASSUME NEW t \in Slots, CreateCheck(t), UNCHANGED mutexVars PROVE MutexIInv'
  BY <1>4, MutexCreateCheckInv
<1>5. ASSUME NEW t \in Slots, NEW p \in Priorities, CreateInsert(t, p), UNCHANGED mutexVars
      PROVE  MutexIInv'
  BY <1>5, MutexCreateInsertInv
<1>6. ASSUME NEW t \in Slots, NEW n \in Delays, artos_wait(t, n), UNCHANGED mutexVars
      PROVE  MutexIInv'
  BY <1>6, MutexWaitInv, MutexFacts
<1>7. ASSUME NEW t \in Slots, LockReturn(t) PROVE MutexIInv'
  BY <1>7, LockReturnInv
<1>8. ASSUME NEW t \in Slots, NEW m \in Mutexes, NEW n \in LockTimeouts, artos_mutex_lock(t, m, n)
      PROVE  MutexIInv'
  BY <1>8, LockInv
<1>9. ASSUME NEW t \in Slots, NEW m \in Mutexes, artos_mutex_unlock(t, m) PROVE MutexIInv'
  BY <1>9, UnlockInv
<1> QED
  BY <1>1, <1>2, <1>3, <1>4, <1>5, <1>6, <1>7, <1>8, <1>9 DEF MutexNext

-----------------------------------------------------------------------------
(* What the invariant says of an owner and of the tasks that wait for it. *)
LEMMA OwnersAreReal == MutexIInv => OwnershipIsReal
<1> SUFFICES ASSUME MutexIInv PROVE OwnershipIsReal
  OBVIOUS
<1>1. \A t \in Slots : \A m \in inside[t] : owner[m] = t
  BY DEF MutexIInv, OwnersInv
<1>2. ASSUME NEW m \in Mutexes, kern.event_l[m] # <<>>
      PROVE  owner[m] # NULL /\ kern.event_c[owner[m]] # m
  <2>1. KInv(kern) /\ m \in WaitLists
    BY MutexFacts DEF MutexIInv, CoreInv
  <2>2. PICK u \in Slots : kern.event_c[u] = m
    BY <1>2, <2>1, EmptyWaitList
  <2>3. owner[m] \in Slots
    BY <2>2, WaiterAndOwner
  <2>4. kern.event_c[owner[m]] # m
    BY <2>3, WaiterAndOwner
  <2> QED
    BY <2>3, <2>4, MutexFacts
<1> QED
  BY <1>1, <1>2 DEF OwnershipIsReal

LEMMA OwnersOutrank == MutexIInv => OwnerOutranksWaiters
<1> SUFFICES ASSUME MutexIInv, NEW m \in Mutexes, NEW t \in Slots, kern.event_c[t] = m
             PROVE  /\ kern.eff[owner[m]] >= kern.priority[t]
                    /\ kern.held[t] = 0 => kern.eff[owner[m]] >= kern.eff[t]
  BY DEF OwnerOutranksWaiters
<1>1. kern.eff[owner[m]] >= kern.priority[t]
  BY WaiterAndOwner
<1> QED
  BY <1>1 DEF MutexIInv, BoostEndsWithLastUnlock

(* The count of a task is that of the mutexes it owns. *)
LEMMA CountsAreExact == MutexIInv => HeldCountExact
BY DEF MutexIInv, HeldInv, Owned, HeldCountExact

(* The tasks that wait for a mutex are in decreasing order of priority. *)
LEMMA LockersInOrder == MutexIInv => WaitersByPriority
<1> SUFFICES ASSUME MutexIInv PROVE WaitersByPriority
  OBVIOUS
<1>1. KInv(kern) /\ Mutexes \subseteq WaitLists
  BY MutexFacts DEF MutexIInv, CoreInv
<1> QED
  BY <1>1, WaitListsInOrder DEF WaitersByPriority

(* A task that runs in a lock owns the mutex or has timed out. *)
LEMMA LocksReturn == MutexIInv => LockHasReason
<1> SUFFICES ASSUME MutexIInv, NEW t \in Slots, Executes(t), pc[t] = "lock_woken"
             PROVE  \/ kern.reason[t] = "WAIT_SIGNALED" /\ owner[locking[t].mutex] = t
                    \/ kern.reason[t] = "WAIT_TIMED_OUT" /\ ~locking[t].infinite
  BY DEF LockHasReason
<1>1. CoreInv(SwitchLocs) /\ LocksInv /\ pc[t] \in LockLocs /\ pc[t] \notin SwitchLocs
  BY DEF MutexIInv, LockLocs, SwitchLocs
<1>2. KInv(kern) /\ kern.event_c[t] = NULL
  BY <1>1, RunningTask
<1>3. InLock(t, locking[t].mutex, locking[t].infinite)
  BY <1>1 DEF LocksInv
<1>4. kern.reason[t] \in WaitReasons
  BY <1>2, KernelFields
<1> QED
  BY <1>2, <1>3, <1>4 DEF InLock, InCall, WaitReasons

-----------------------------------------------------------------------------
(* The invariant holds in every reachable state. *)
THEOREM MutexInvariance == MutexSpec => []MutexIInv
<1>1. MutexInit => MutexIInv
  BY MutexInitInv
<1>2. MutexIInv /\ [MutexNext]_mutexSpecVars => MutexIInv'
  BY MutexStepInv
<1> QED
  BY <1>1, <1>2, PTL DEF MutexSpec

(* A lock that returned true makes its caller the owner until its unlock,  *)
(* and what tasks wait for has another task as its owner.                  *)
THEOREM MutualExclusion == MutexSpec => []OwnershipIsReal
BY OwnersAreReal, MutexInvariance, PTL

(* The count of held mutexes is the number of mutexes a task owns. *)
THEOREM CountsExact == MutexSpec => []HeldCountExact
BY CountsAreExact, MutexInvariance, PTL

(* An owner's priority is not below that of a task that waits for it. *)
THEOREM InversionBounded == MutexSpec => []OwnerOutranksWaiters
BY OwnersOutrank, MutexInvariance, PTL

(* A task without mutexes runs at its own priority, and none below it. *)
THEOREM BoostsEnd == MutexSpec => []BoostEndsWithLastUnlock
<1>1. MutexIInv => BoostEndsWithLastUnlock
  BY DEF MutexIInv
<1> QED
  BY <1>1, MutexInvariance, PTL

(* The wait lists stay sorted by effective priority. *)
THEOREM HandoffByPriority == MutexSpec => []WaitersByPriority
BY LockersInOrder, MutexInvariance, PTL

(* A lock that blocked returns as the owner or timed out, and one without  *)
(* a limit as the owner.                                                   *)
THEOREM LockReturnsForAReason == MutexSpec => []LockHasReason
BY LocksReturn, MutexInvariance, PTL
-----------------------------------------------------------------------------
(* Semaphores and mutexes of one system.  The invariant is that of the     *)
(* semaphores without the clause on preemption, which boosts break, and    *)
(* that of the mutexes.  What makes the two hold together is that a call   *)
(* of one kind of object leaves the tasks in calls of the other kind alone *)
(* (LeavesOthers): it moves none of them, unblocks none and takes no wait  *)
(* reason from them, whatever it does to their priorities.                 *)
SysIInv == SemPart /\ MutexIInv

(* A call of a semaphore keeps what holds of the mutexes. *)
LEMMA MutexFrame ==
    ASSUME MutexIInv, SemCallKept, UNCHANGED mutexVars
    PROVE  MutexIInv'
<1>1. /\ CoreInv(SwitchLocs)' /\ KInv(kern') /\ kern'.cur # NULL
      /\ pc' \in [Threads -> Places]
      /\ kern'.created = kern.created /\ kern'.priority = kern.priority
      /\ kern'.eff = kern.eff /\ kern'.held = kern.held
      /\ LeavesOthers(LockLocs, Semaphores)
  BY DEF SemCallKept, SemKept, SemPart, SemTypeOK, CoreInv
<1>2. MutexTypeOK'
  BY <1>1 DEF MutexIInv, MutexTypeOK, mutexVars
<1>3. \A u \in Slots :
         /\ pc'[u] \in LockLocs <=> pc[u] \in LockLocs
         /\ kern'.event_c[u] = kern.event_c[u] \/ kern'.event_c[u] \notin Mutexes
         /\ pc[u] \in LockLocs =>
               /\ \A w, i : InCall(kern, u, w, i) => InCall(kern', u, w, i)
               /\ kern'.event_c[u] = kern.event_c[u] /\ kern'.reason[u] = kern.reason[u]
  BY <1>1, SystemAssumption, MutexFacts DEF LeavesOthers
<1>4. kern.created \subseteq Slots
  BY KernelFields DEF MutexIInv, CoreInv
<1>5. LocksInv' /\ OwnersInv' /\ HeldInv' /\ BoostEndsWithLastUnlock' /\ DonorsInv'
  BY <1>1, <1>3, <1>4, NoLockStep
<1> QED
  BY <1>1, <1>2, <1>5 DEF MutexIInv

(* A call of a mutex, or a wait, keeps what holds of the semaphores. *)
LEMMA MutexCallInv ==
    ASSUME SysIInv, UNCHANGED semVars, MutexIInv', LeavesOthers(TakeLocs, Mutexes)
    PROVE  SysIInv'
<1>1. CoreInv(SwitchLocs)' /\ kern'.cur # NULL /\ pc' \in [Threads -> Places]
  BY DEF MutexIInv, MutexTypeOK
<1>2. SemPart'
  BY <1>1, SystemAssumption, SemFrame DEF SysIInv
<1> QED
  BY <1>2 DEF SysIInv

LEMMA SysInitInv == SysInit => SysIInv
BY SemInitInv, MutexInitInv DEF SysInit, SysIInv, SemIInv

(* Every step keeps the invariant. *)
LEMMA SysStepInv ==
    ASSUME SysIInv, [SysNext]_vars
    PROVE  SysIInv'
<1> SemPart /\ MutexIInv
  BY DEF SysIInv
<1>1. CASE UNCHANGED vars
  <2>1. UNCHANGED semSpecVars /\ UNCHANGED mutexSpecVars
    BY <1>1 DEF vars, semSpecVars, mutexSpecVars
  <2>2. SemPart'
    BY <2>1, SemUnchanged DEF SemKept
  <2>3. MutexIInv'
    BY <2>1, MutexStepInv
  <2> QED
    BY <2>2, <2>3 DEF SysIInv
<1>2. ASSUME SemNext, UNCHANGED mutexVars PROVE SysIInv'
  <2>1. CASE (SysTick \/ PendSVEnter \/ PendSVSwitch) /\ UNCHANGED semVars
    <3>1. SemPart'
      BY <2>1, SemExceptionInv DEF SemKept
    <3>2. MutexIInv'
      BY <2>1, <1>2, MutexExceptionInv
    <3> QED
      BY <3>1, <3>2 DEF SysIInv
  <2>2. CASE ~((SysTick \/ PendSVEnter \/ PendSVSwitch) /\ UNCHANGED semVars)
    <3>1. SemCallKept
      BY <2>2, <1>2, SemCallStep
    <3>2. MutexIInv'
      BY <3>1, <1>2, MutexFrame
    <3> QED
      BY <3>1, <3>2 DEF SysIInv, SemCallKept, SemKept
  <2> QED
    BY <2>1, <2>2
<1>3. ASSUME NEW t \in Slots, LockSwitch(t), UNCHANGED semVars PROVE SysIInv'
  <2>1. MutexIInv' /\ LeavesOthers(TakeLocs, Mutexes)
    BY <1>3, MutexSwitchInv DEF LockSwitch
  <2> QED
    BY <2>1, <1>3, MutexCallInv
<1>4. ASSUME NEW t \in Slots, LockReturn(t), UNCHANGED semVars PROVE SysIInv'
  <2>1. MutexIInv' /\ LeavesOthers(TakeLocs, Mutexes)
    BY <1>4, LockReturnInv
  <2> QED
    BY <2>1, <1>4, MutexCallInv
<1>5. ASSUME NEW t \in Slots, NEW m \in Mutexes, NEW n \in LockTimeouts,
             artos_mutex_lock(t, m, n), UNCHANGED semVars
      PROVE  SysIInv'
  <2>1. MutexIInv' /\ LeavesOthers(TakeLocs, Mutexes)
    BY <1>5, LockInv
  <2> QED
    BY <2>1, <1>5, MutexCallInv
<1>6. ASSUME NEW t \in Slots, NEW m \in Mutexes, artos_mutex_unlock(t, m), UNCHANGED semVars
      PROVE  SysIInv'
  <2>1. MutexIInv' /\ LeavesOthers(TakeLocs, Mutexes)
    BY <1>6, UnlockInv
  <2> QED
    BY <2>1, <1>6, MutexCallInv
<1>7. ASSUME NEW t \in Slots, NEW n \in Delays, artos_wait(t, n),
             UNCHANGED mutexVars, UNCHANGED semVars
      PROVE  SysIInv'
  <2>1. MutexIInv' /\ LeavesOthers(TakeLocs, Mutexes)
    BY <1>7, MutexWaitInv, MutexFacts
  <2> QED
    BY <2>1, <1>7, MutexCallInv
<1> QED
  BY <1>1, <1>2, <1>3, <1>4, <1>5, <1>6, <1>7 DEF SysNext

(* The invariant holds in every reachable state. *)
THEOREM SysInvariance == SysSpec => []SysIInv
<1>1. SysInit => SysIInv
  BY SysInitInv
<1>2. SysIInv /\ [SysNext]_vars => SysIInv'
  BY SysStepInv
<1> QED
  BY <1>1, <1>2, PTL DEF SysSpec

-----------------------------------------------------------------------------
(* Each object keeps its guarantees when tasks block on one while they     *)
(* hold the other: the tokens of a semaphore are conserved and nobody      *)
(* waits for one that is there, a mutex has the owner its counts and       *)
(* priorities say, and a take or a lock that returns was ended by its own  *)
(* object or its own timeout.                                              *)
THEOREM ObjectsCompose == SysSpec => []GuaranteesCompose
<1>1. SysIInv => GuaranteesCompose
  <2> SUFFICES ASSUME SysIInv PROVE GuaranteesCompose
    OBVIOUS
  <2>1. SemPart /\ MutexIInv
    BY DEF SysIInv
  <2>2. TakeHasReason /\ TokensConserved /\ NobodyWaitsForAvailable
    BY <2>1, TakesReturn DEF SemPart
  <2>3. /\ LockHasReason /\ OwnershipIsReal /\ HeldCountExact
        /\ OwnerOutranksWaiters /\ BoostEndsWithLastUnlock
    BY <2>1, LocksReturn, OwnersAreReal, CountsAreExact, OwnersOutrank DEF MutexIInv
  <2> QED
    BY <2>2, <2>3 DEF GuaranteesCompose
<1> QED
  BY <1>1, SysInvariance, PTL

(* The wait lists of semaphores and of mutexes stay sorted by effective    *)
(* priority while locks, unlocks and expired locks change the priorities   *)
(* of tasks that wait in them.                                             *)
THEOREM BoostsReorderWaiters == SysSpec => []BoostReordersWaiters
<1>1. SysIInv => BoostReordersWaiters
  BY TakersInOrder, LockersInOrder DEF SysIInv, BoostReordersWaiters
<1> QED
  BY <1>1, SysInvariance, PTL
=============================================================================
